-------------------------- MODULE AuthSessionProofs ---------------------------
(***************************************************************************)
(* AuthSession keeps its types, and with one process to serve requests it  *)
(* implements SessionStore, for any number of browsers, pages, tokens and  *)
(* failures.                                                               *)
(***************************************************************************)
EXTENDS AuthSession, TLAPS

(* A page's request, its answer and the cookies keep their types when only *)
(* they change.                                                            *)
LEMMA FinishTyped ==
  ASSUME TypeOK, NEW c \in Tabs, NEW label \in Labels, Finish(c, label)
  PROVE  /\ pc' \in [Tabs -> Labels]
         /\ sent' \in [Tabs -> 0..issued] /\ holds' \in [Tabs -> 0..issued]
  BY DEF TypeOK, Finish, Goto

LEMMA AnswerTyped ==
  ASSUME TypeOK, NEW c \in Tabs, issued' = issued \/ issued' = issued + 1,
         NEW pair \in 0..issued', Answer(c, pair)
  PROVE  /\ pc' \in [Tabs -> Labels]
         /\ holds' \in [Tabs -> 0..issued']
  BY DEF TypeOK, Answer, Goto, Labels

(* Everything that names a token keeps its type when one more is issued.   *)
LEMMA IssueTyped ==
  ASSUME TypeOK, NEW origin \in 0..signIns + 1, Issue(origin)
  PROVE  /\ issued' = issued + 1 /\ issued' \in 0..MaxToken /\ row' \in 0..issued'
         /\ young \in 1..issued' + 1
         /\ jar \in [Browsers -> [short : 0..issued', long : 0..issued']]
         /\ sent \in [Tabs -> 0..issued'] /\ renewed \subseteq 1..issued'
         /\ family' \in [1..MaxToken -> 0..signIns + 1]
         /\ origin <= signIns => family' \in [1..MaxToken -> 0..signIns]
  <1>1. issued' = issued + 1 /\ issued' \in 0..MaxToken /\ row' \in 0..issued'
    BY SessionAssumption DEF TypeOK, Issue
  <1>2. 0..issued \subseteq 0..issued' /\ 1..issued \subseteq 1..issued'
    BY <1>1 DEF TypeOK
  <1>3. /\ young \in 1..issued' + 1
        /\ sent \in [Tabs -> 0..issued'] /\ renewed \subseteq 1..issued'
    BY <1>1, <1>2 DEF TypeOK
  <1>4. jar \in [Browsers -> [short : 0..issued', long : 0..issued']]
    BY <1>2 DEF TypeOK
  <1>5. /\ family' \in [1..MaxToken -> 0..signIns + 1]
        /\ origin <= signIns => family' \in [1..MaxToken -> 0..signIns]
    BY SessionAssumption DEF TypeOK, Issue
  <1> QED BY <1>1, <1>3, <1>4, <1>5

-----------------------------------------------------------------------------
LEMMA TypeInit == Init => TypeOK
  BY SessionAssumption DEF Init, TypeOK, Labels

(* The three ends of a refresh.                                            *)
LEMMA RefreshTyped ==
  ASSUME TypeOK, NEW c \in Tabs, NEW a \in Apis, Refresh(c, a)
  PROVE  TypeOK'
  <1>1. loop' \in [Apis -> Tabs \cup {Nobody}] /\ UNCHANGED <<young, alive, jar, sent, faults>>
    BY DEF TypeOK, Refresh, Leave, clock
  <1>2. CASE NoSession(c)
    <2>1. Answer(c, 0) /\ UNCHANGED <<row, issued, renewed, family, signIns>>
      BY <1>2 DEF NoSession, session
    <2>2. pc' \in [Tabs -> Labels] /\ holds' \in [Tabs -> 0..issued']
      BY <2>1, AnswerTyped DEF TypeOK
    <2> QED BY <1>1, <2>1, <2>2 DEF TypeOK
  <1>3. CASE Reuse(c)
    <2>1. Answer(c, 0) /\ row' = 0 /\ UNCHANGED <<issued, renewed, family, signIns>>
      BY <1>3 DEF Reuse
    <2>2. pc' \in [Tabs -> Labels] /\ holds' \in [Tabs -> 0..issued']
      BY <2>1, AnswerTyped DEF TypeOK
    <2> QED BY <1>1, <2>1, <2>2 DEF TypeOK
  <1>4. CASE Rotate(c)
    <2>1. /\ sent[c] \in 1..issued /\ family[sent[c]] \in 0..signIns
          /\ family[sent[c]] \in 0..signIns + 1 /\ family[sent[c]] <= signIns
      <3>1. sent[c] \in 1..issued /\ issued <= MaxToken
        BY <1>4, SessionAssumption DEF Rotate, IsCurrent, TypeOK
      <3>2. sent[c] \in 1..MaxToken
        BY <3>1, SessionAssumption DEF TypeOK
      <3> QED BY <3>1, <3>2 DEF TypeOK
    <2>2. /\ Issue(family[sent[c]]) /\ Answer(c, issued + 1)
          /\ renewed' = renewed \cup {sent[c]} /\ UNCHANGED signIns
      BY <1>4 DEF Rotate
    <2>3. /\ issued' = issued + 1 /\ issued' \in 0..MaxToken /\ row' \in 0..issued'
          /\ young \in 1..issued' + 1
          /\ jar \in [Browsers -> [short : 0..issued', long : 0..issued']]
          /\ sent \in [Tabs -> 0..issued'] /\ renewed \subseteq 1..issued'
          /\ family' \in [1..MaxToken -> 0..signIns]
      <3>1. Issue(family[sent[c]]) BY <2>2
      <3> QED BY <2>1, <3>1, IssueTyped
    <2>4. pc' \in [Tabs -> Labels] /\ holds' \in [Tabs -> 0..issued']
      <3>1. issued + 1 \in 0..issued'
        BY <2>3 DEF TypeOK
      <3>2. Answer(c, issued + 1) BY <2>2
      <3>3. issued' = issued \/ issued' = issued + 1 BY <2>3
      <3> QED BY <3>1, <3>2, <3>3, AnswerTyped
    <2>5. signIns' \in 0..issued' /\ family' \in [1..MaxToken -> 0..signIns']
      BY <2>2, <2>3 DEF TypeOK
    <2>6. renewed' \subseteq 1..issued' /\ sent' \in [Tabs -> 0..issued']
      <3>1. sent[c] \in 1..issued'
        BY <2>1, <2>3 DEF TypeOK
      <3>2. renewed' = renewed \cup {sent[c]} /\ sent' = sent
        BY <1>1, <2>2
      <3> QED BY <2>3, <3>1, <3>2
    <2>7. /\ young' \in 1..issued' + 1 /\ alive' \in 1..young'
          /\ jar' \in [Browsers -> [short : 0..issued', long : 0..issued']]
      BY <1>1, <2>3 DEF TypeOK
    <2> QED BY <1>1, <2>3, <2>4, <2>5, <2>6, <2>7 DEF TypeOK
  <1> QED BY <1>2, <1>3, <1>4 DEF Refresh
(* A sign-in, a logout, and the requests that leave the session alone.     *)
LEMMA SignInTyped ==
  ASSUME TypeOK, NEW c \in Tabs, SignIn(c)
  PROVE  TypeOK'
  <1>1. /\ Issue(signIns + 1) /\ signIns' = signIns + 1 /\ Answer(c, issued + 1)
        /\ UNCHANGED <<young, alive, jar, loop, sent, faults, renewed>>
    BY DEF SignIn, clock
  <1>2. signIns + 1 \in 0..signIns + 1
    BY DEF TypeOK
  <1>3. /\ issued' = issued + 1 /\ issued' \in 0..MaxToken /\ row' \in 0..issued'
        /\ young \in 1..issued' + 1
        /\ jar \in [Browsers -> [short : 0..issued', long : 0..issued']]
        /\ sent \in [Tabs -> 0..issued'] /\ renewed \subseteq 1..issued'
        /\ family' \in [1..MaxToken -> 0..signIns + 1]
    BY <1>1, <1>2, IssueTyped
  <1>4. pc' \in [Tabs -> Labels] /\ holds' \in [Tabs -> 0..issued']
    <2>1. issued + 1 \in 0..issued'
      BY <1>3 DEF TypeOK
    <2> QED BY <1>1, <1>3, <2>1, AnswerTyped
  <1> QED BY <1>1, <1>3, <1>4 DEF TypeOK

LEMMA LogoutTyped ==
  ASSUME TypeOK, NEW c \in Tabs, Logout(c)
  PROVE  TypeOK'
  <1>1. /\ Answer(c, 0) /\ row' = 0
        /\ UNCHANGED <<young, alive, jar, loop, sent, faults, issued, renewed, family, signIns>>
    BY DEF Logout, clock
  <1>2. pc' \in [Tabs -> Labels] /\ holds' \in [Tabs -> 0..issued']
    BY <1>1, AnswerTyped DEF TypeOK
  <1> QED BY <1>1, <1>2 DEF TypeOK

LEMMA QuietTyped ==
  ASSUME TypeOK, NEW c \in Tabs,
         \/ Open(c) \/ Click(c) \/ SendRefresh(c) \/ RefreshInvalid(c)
         \/ Receive(c) \/ LoseAnswer(c) \/ Cancel(c)
  PROVE  TypeOK'
  <1>1. CASE Open(c)
    BY <1>1 DEF Open, Goto, TypeOK, clock, session, Labels
  <1>2. CASE Click(c)
    <2>1. /\ pc' \in [Tabs -> Labels]
          /\ UNCHANGED <<clock, session, jar, loop, sent, holds, faults>>
      BY <1>2 DEF Click, Goto, TypeOK, Labels
    <2> QED BY <2>1 DEF TypeOK, clock, session
  <1>3. CASE SendRefresh(c)
    <2>1. Owner[c] \in Browsers BY SessionAssumption
    <2>2. sent' \in [Tabs -> 0..issued] /\ pc' \in [Tabs -> Labels]
      BY <1>3, <2>1 DEF SendRefresh, Cookies, Goto, TypeOK, Labels
    <2> QED BY <1>3, <2>2 DEF SendRefresh, TypeOK, clock, session
  <1>4. CASE RefreshInvalid(c)
    <2>1. Answer(c, 0) /\ UNCHANGED <<clock, session, jar, loop, sent, faults>>
      BY <1>4 DEF RefreshInvalid
    <2>2. pc' \in [Tabs -> Labels] /\ holds' \in [Tabs -> 0..issued']
      BY <2>1, AnswerTyped DEF TypeOK, session
    <2> QED BY <2>1, <2>2 DEF TypeOK, clock, session
  <1>5. CASE Receive(c)
    <2>1. \E label \in Labels : Finish(c, label)
      BY <1>5 DEF Receive, Labels
    <2>2. jar' \in [Browsers -> [short : 0..issued, long : 0..issued]]
      BY <1>5 DEF Receive, SetCookies, TypeOK
    <2> QED BY <1>5, <2>1, <2>2, FinishTyped DEF Receive, TypeOK, clock, session
  <1>6. CASE LoseAnswer(c)
    <2>1. \E label \in Labels : Finish(c, label)
      BY <1>6 DEF LoseAnswer, Labels
    <2>2. faults' \in 0..MaxFaults
      BY <1>6, SessionAssumption DEF LoseAnswer, Fault, TypeOK
    <2> QED BY <1>6, <2>1, <2>2, FinishTyped DEF LoseAnswer, TypeOK, clock, session
  <1>7. CASE Cancel(c)
    <2>1. \E label \in Labels : Finish(c, label)
      BY <1>7 DEF Cancel, Labels
    <2> QED BY <1>7, <2>1, FinishTyped DEF Cancel, TypeOK, clock, session
  <1> QED BY <1>1, <1>2, <1>3, <1>4, <1>5, <1>6, <1>7

LEMMA LoopTyped ==
  ASSUME TypeOK, NEW c \in Tabs, NEW a \in Apis, FindRow(c, a) \/ RefreshRaises(c, a)
  PROVE  TypeOK'
  <1>1. CASE FindRow(c, a)
    BY <1>1 DEF FindRow, Goto, TypeOK, clock, session, Labels
  <1>2. CASE RefreshRaises(c, a)
    <2>1. /\ Finish(c, "login") /\ "login" \in Labels
          /\ UNCHANGED <<clock, session, jar>>
      BY <1>2 DEF RefreshRaises, Labels
    <2>2. faults' \in 0..MaxFaults /\ loop' \in [Apis -> Tabs \cup {Nobody}]
      BY <1>2, SessionAssumption DEF RefreshRaises, Fault, Leave, TypeOK
    <2> QED BY <2>1, <2>2, FinishTyped DEF TypeOK, clock, session
  <1> QED BY <1>1, <1>2

LEMMA WorldTyped ==
  ASSUME TypeOK, World
  PROVE  TypeOK'
  <1>1. CASE AccessDies
    BY <1>1 DEF AccessDies, TypeOK, session
  <1>2. CASE RefreshDies
    BY <1>2 DEF RefreshDies, TypeOK, session
  <1>3. ASSUME NEW b \in Browsers, CookiesDie(b) PROVE TypeOK'
    <2>1. 0 \in 0..issued
      BY DEF TypeOK
    <2>2. CASE jar' = [jar EXCEPT ![b].short = 0]
      BY <1>3, <2>1, <2>2 DEF CookiesDie, TypeOK, clock, session
    <2>3. CASE jar' = [jar EXCEPT ![b].long = 0]
      BY <1>3, <2>1, <2>3 DEF CookiesDie, TypeOK, clock, session
    <2> QED BY <1>3, <2>2, <2>3 DEF CookiesDie
  <1>4. ASSUME NEW a \in Apis, Crash(a) PROVE TypeOK'
    <2>1. loop[a] \in Tabs /\ Finish(loop[a], "page") /\ "page" \in Labels
      BY <1>4 DEF Crash, TypeOK, Labels
    <2>2. faults' \in 0..MaxFaults /\ loop' \in [Apis -> Tabs \cup {Nobody}]
      BY <1>4, SessionAssumption DEF Crash, Fault, Leave, TypeOK
    <2> QED BY <1>4, <2>1, <2>2, FinishTyped DEF Crash, TypeOK, clock, session
  <1> QED BY <1>1, <1>2, <1>3, <1>4 DEF World

LEMMA TypeStep == TypeOK /\ [Next]_vars => TypeOK'
  <1> SUFFICES ASSUME TypeOK, [Next]_vars PROVE TypeOK'
    OBVIOUS
  <1>1. CASE UNCHANGED vars
    BY <1>1 DEF vars, TypeOK
  <1>2. ASSUME NEW c \in Tabs, Request(c) PROVE TypeOK'
    BY <1>2, RefreshTyped, SignInTyped, LogoutTyped, QuietTyped, LoopTyped DEF Request
  <1> QED BY <1>1, <1>2, WorldTyped DEF Next

(* Every variable stays in its range, for every value of the constants.    *)
THEOREM TypeCorrect == Spec => []TypeOK
  BY TypeInit, TypeStep, PTL DEF Spec

-----------------------------------------------------------------------------
(* SessionStore.  What makes a refresh safe is that its process serves it  *)
(* alone: the page at compare is the one its loop is in, and from the      *)
(* reading of a row to its exchange nothing but a sign-in comes between.   *)

\* The loop is in a refresh exactly while that refresh is being served.
LoopInv == \A c \in Tabs : pc[c] = "compare" <=> \E a \in Apis : loop[a] = c

\* The current token was never exchanged, nor was one that is about to be; and
\* while a refresh has a row in its hands the account has a session.
FreshInv ==
  /\ row \notin renewed
  /\ \A c \in Tabs : pc[c] = "compare" /\ holds[c] # 0
       => row # 0 /\ holds[c] \notin renewed

StoreInv == TypeOK /\ LoopInv /\ FreshInv

OneProcess == \E a : Apis = {a}

LEMMA StoreInit == Init => StoreInv
  <1> SUFFICES ASSUME Init PROVE StoreInv
    OBVIOUS
  <1>1. LoopInv
    BY SessionAssumption DEF Init, LoopInv
  <1>2. FreshInv
    BY DEF Init, FreshInv
  <1> QED BY <1>1, <1>2, TypeInit DEF StoreInv

(* The invariants speak of the pages at compare only: a step of another    *)
(* page that leaves loop and session alone keeps them.                     *)
LEMMA OtherPage ==
  ASSUME StoreInv, NEW c \in Tabs, pc[c] # "compare",
         NEW label, label # "compare", Goto(c, label),
         UNCHANGED <<loop, session>>,
         \A d \in Tabs : d # c => holds'[d] = holds[d]
  PROVE  LoopInv' /\ FreshInv'
  <1>1. \A d \in Tabs : pc'[d] = "compare" <=> pc[d] = "compare"
    BY DEF Goto, StoreInv, TypeOK
  <1>2. LoopInv'
    BY <1>1 DEF StoreInv, LoopInv
  <1>3. FreshInv'
    BY <1>1 DEF StoreInv, FreshInv, session
  <1> QED BY <1>2, <1>3

(* The end of the refresh that the only process serves.                    *)
LEMMA EndOfRefresh ==
  ASSUME StoreInv, OneProcess, NEW c \in Tabs, NEW a \in Apis, loop[a] = c,
         NEW label, label # "compare", Goto(c, label), Leave(a)
  PROVE  /\ LoopInv' /\ \A d \in Tabs : pc'[d] # "compare"
         /\ row' \notin renewed' => FreshInv'
  <1>1. Apis = {a} BY DEF OneProcess
  <1>2. \A d \in Tabs : pc'[d] # "compare"
    BY <1>1 DEF Goto, StoreInv, LoopInv, TypeOK
  <1>3. LoopInv'
    BY <1>1, <1>2, SessionAssumption DEF LoopInv, Leave, StoreInv, TypeOK
  <1> QED BY <1>2, <1>3 DEF FreshInv

(* Each step keeps the invariant and is a step or a stutter of the store.  *)
Kept == LoopInv' /\ FreshInv' /\ [Store!Next]_<<row # 0, issued, signIns, renewed>>

LEMMA Stutter ==
  ASSUME UNCHANGED session PROVE [Store!Next]_<<row # 0, issued, signIns, renewed>>
  BY DEF session

LEMMA Ended ==
  ASSUME row' = 0, UNCHANGED <<issued, renewed, signIns>>
  PROVE  [Store!Next]_<<row # 0, issued, signIns, renewed>>
  <1>1. (row # 0)' = FALSE OBVIOUS
  <1> QED BY <1>1 DEF Store!Next, Store!End

LEMMA RotateKeeps ==
  ASSUME StoreInv, OneProcess, NEW c \in Tabs, NEW a \in Apis, Refresh(c, a)
  PROVE  Kept
  <1>1. pc[c] = "compare" /\ loop[a] = c /\ Leave(a)
    BY DEF Refresh
  <1>2. /\ Goto(c, "answer")
        /\ LoopInv' /\ (row' \notin renewed' => FreshInv')
    <2>1. Goto(c, "answer")
      BY DEF Refresh, NoSession, Reuse, Rotate, Answer
    <2> QED BY <1>1, <2>1, EndOfRefresh
  <1>3. CASE NoSession(c)
    <2>1. UNCHANGED session BY <1>3 DEF NoSession
    <2>2. row' \notin renewed' BY <2>1 DEF session, StoreInv, FreshInv
    <2> QED BY <1>2, <2>1, <2>2, Stutter DEF Kept
  <1>4. CASE Reuse(c)
    <2>1. row' = 0 /\ UNCHANGED <<issued, renewed, family, signIns>> BY <1>4 DEF Reuse
    <2>2. row' \notin renewed' BY <2>1 DEF StoreInv, TypeOK
    <2> QED BY <1>2, <2>1, <2>2, Ended DEF Kept
  <1>5. CASE Rotate(c)
    <2>1. /\ issued' = issued + 1 /\ row' = issued + 1 /\ UNCHANGED signIns
          /\ renewed' = renewed \cup {sent[c]} /\ holds[c] = sent[c] /\ holds[c] # 0
      BY <1>5 DEF Rotate, Issue, IsCurrent
    <2>2. sent[c] \in (1..issued) \ renewed /\ row # 0
      BY <1>1, <2>1 DEF StoreInv, TypeOK, FreshInv
    <2>3. row' # 0 /\ row' \notin renewed'
      BY <2>1, <2>2, SessionAssumption DEF StoreInv, TypeOK
    <2>4. Store!Renew
      <3>1. (row # 0) = TRUE /\ (row # 0)' = TRUE BY <2>2, <2>3
      <3> QED BY <2>1, <2>2, <3>1 DEF Store!Renew
    <2> QED BY <1>2, <2>3, <2>4 DEF Kept, Store!Next
  <1> QED BY <1>3, <1>4, <1>5 DEF Refresh

LEMMA SignInKeeps ==
  ASSUME StoreInv, NEW c \in Tabs, SignIn(c)
  PROVE  Kept
  <1>1. /\ pc[c] = "login" /\ issued' = issued + 1 /\ row' = issued + 1
        /\ signIns' = signIns + 1 /\ UNCHANGED <<loop, renewed>>
        /\ pc' = [pc EXCEPT ![c] = "answer"] /\ holds' = [holds EXCEPT ![c] = issued + 1]
    BY DEF SignIn, Issue, Answer, Goto
  <1>2. row' # 0 /\ row' \notin renewed'
    BY <1>1, SessionAssumption DEF StoreInv, TypeOK
  <1>3. \A d \in Tabs : /\ pc'[d] = "compare" <=> pc[d] = "compare"
                       /\ pc[d] = "compare" => holds'[d] = holds[d]
    BY <1>1 DEF StoreInv, TypeOK
  <1>4. LoopInv' /\ FreshInv'
    BY <1>1, <1>2, <1>3 DEF StoreInv, LoopInv, FreshInv
  <1>5. Store!SignIn
    <2>1. (row # 0)' = TRUE BY <1>2
    <2> QED BY <1>1, <2>1 DEF Store!SignIn
  <1> QED BY <1>4, <1>5 DEF Kept, Store!Next

(* A logout needs the loop, so the only process serves no refresh.         *)
LEMMA LogoutKeeps ==
  ASSUME StoreInv, OneProcess, NEW c \in Tabs, Logout(c)
  PROVE  Kept
  <1>1. /\ row' = 0 /\ UNCHANGED <<loop, issued, renewed, family, signIns>>
        /\ pc' = [pc EXCEPT ![c] = "answer"] /\ LoopFree
    BY DEF Logout, Answer, Goto
  <1>2. \A a \in Apis : loop[a] \notin Tabs
    BY <1>1, SessionAssumption DEF LoopFree, OneProcess
  <1>3. \A d \in Tabs : pc[d] # "compare" /\ pc'[d] # "compare"
    BY <1>1, <1>2 DEF StoreInv, LoopInv, TypeOK
  <1>4. LoopInv'
    BY <1>1, <1>2, <1>3 DEF LoopInv
  <1>5. FreshInv'
    BY <1>1, <1>3 DEF FreshInv, StoreInv, TypeOK
  <1> QED BY <1>1, <1>4, <1>5, Ended DEF Kept

LEMMA FindKeeps ==
  ASSUME StoreInv, OneProcess, NEW c \in Tabs, NEW a \in Apis, FindRow(c, a)
  PROVE  Kept
  <1>1. /\ pc' = [pc EXCEPT ![c] = "compare"] /\ holds' = [holds EXCEPT ![c] = row]
        /\ loop' = [loop EXCEPT ![a] = c] /\ loop[a] = Nobody /\ UNCHANGED session
    BY DEF FindRow, Goto
  <1>2. \A d \in Tabs : pc[d] # "compare"
    BY <1>1, SessionAssumption DEF OneProcess, StoreInv, LoopInv
  <1>3. \A d \in Tabs : pc'[d] = "compare" <=> d = c
    BY <1>1, <1>2 DEF StoreInv, TypeOK
  <1>4. LoopInv'
    BY <1>1, <1>3 DEF OneProcess, StoreInv, LoopInv, TypeOK
  <1>5. FreshInv'
    BY <1>1, <1>3 DEF StoreInv, FreshInv, TypeOK, session
  <1> QED BY <1>1, <1>4, <1>5, Stutter DEF Kept

(* Requests that leave the row alone.                                      *)
LEMMA QuietKeeps ==
  ASSUME StoreInv, NEW c \in Tabs,
         \/ Open(c) \/ Click(c) \/ SendRefresh(c) \/ RefreshInvalid(c)
         \/ Receive(c) \/ LoseAnswer(c) \/ Cancel(c)
  PROVE  Kept
  <1>1. /\ pc[c] # "compare" /\ UNCHANGED <<loop, session>>
        /\ \E label : label # "compare" /\ Goto(c, label)
    <2>1. CASE Open(c) BY <2>1 DEF Open
    <2>2. CASE Click(c)
      <3>1. \E label \in {"forbidden", "renew", "page"} : Goto(c, label)
        BY <2>2 DEF Click
      <3> QED BY <2>2, <3>1 DEF Click
    <2>3. CASE SendRefresh(c) BY <2>3 DEF SendRefresh
    <2>4. CASE RefreshInvalid(c) BY <2>4 DEF RefreshInvalid, Answer
    <2>5. CASE Receive(c)
      <3>1. \E label \in {"login", "again", "page"} : Goto(c, label)
        BY <2>5 DEF Receive, Finish
      <3> QED BY <2>5, <3>1 DEF Receive
    <2>6. CASE LoseAnswer(c) BY <2>6 DEF LoseAnswer, Finish
    <2>7. CASE Cancel(c) BY <2>7 DEF Cancel, Finish
    <2> QED BY <2>1, <2>2, <2>3, <2>4, <2>5, <2>6, <2>7
  <1>2. \A d \in Tabs : d # c => holds'[d] = holds[d]
    BY DEF Open, Click, SendRefresh, RefreshInvalid, Receive, LoseAnswer, Cancel,
           Finish, Answer, StoreInv, TypeOK
  <1> QED BY <1>1, <1>2, OtherPage, Stutter DEF Kept

(* A refresh that dies with its process or with a statement.               *)
LEMMA DeadKeeps ==
  ASSUME StoreInv, OneProcess, NEW a \in Apis,
         Crash(a) \/ \E c \in Tabs : RefreshRaises(c, a)
  PROVE  Kept
  <1>1. /\ loop[a] \in Tabs /\ Leave(a) /\ UNCHANGED session
        /\ \E label : label # "compare" /\ Goto(loop[a], label)
    BY DEF Crash, RefreshRaises, Finish, StoreInv, TypeOK
  <1>2. row' \notin renewed'
    BY <1>1 DEF session, StoreInv, FreshInv
  <1>3. LoopInv' /\ FreshInv'
    BY <1>1, <1>2, EndOfRefresh
  <1> QED BY <1>1, <1>3, Stutter DEF Kept

(* Time and the browsers.                                                  *)
LEMMA TimeKeeps ==
  ASSUME StoreInv, AccessDies \/ RefreshDies \/ \E b \in Browsers : CookiesDie(b)
  PROVE  Kept
  <1>1. UNCHANGED <<session, loop, pc, holds>>
    BY DEF AccessDies, RefreshDies, CookiesDie
  <1>2. LoopInv' /\ FreshInv'
    BY <1>1 DEF session, StoreInv, LoopInv, FreshInv
  <1> QED BY <1>1, <1>2, Stutter DEF Kept

LEMMA StoreStep == OneProcess /\ StoreInv /\ [Next]_vars => StoreInv' /\ Kept
  <1> SUFFICES ASSUME OneProcess, StoreInv, [Next]_vars PROVE StoreInv' /\ Kept
    OBVIOUS
  <1>1. TypeOK'
    BY TypeStep DEF StoreInv
  <1>2. CASE UNCHANGED vars
    <2>1. UNCHANGED <<session, loop, pc, holds>>
      BY <1>2 DEF vars, session
    <2>2. LoopInv' /\ FreshInv'
      BY <2>1 DEF session, StoreInv, LoopInv, FreshInv
    <2> QED BY <1>1, <2>1, <2>2, Stutter DEF Kept, StoreInv
  <1>3. ASSUME NEW c \in Tabs, Request(c) PROVE Kept
    BY <1>3, RotateKeeps, SignInKeeps, LogoutKeeps, FindKeeps, QuietKeeps, DeadKeeps
       DEF Request
  <1>4. ASSUME World PROVE Kept
    BY <1>4, DeadKeeps, TimeKeeps DEF World
  <1>5. StoreInv' <=> TypeOK' /\ LoopInv' /\ FreshInv'
    BY DEF StoreInv
  <1> QED BY <1>1, <1>2, <1>3, <1>4, <1>5 DEF Next, Kept

(* token_service.py:3-7 for any number of browsers, pages, tokens, sign-ins *)
(* and failures: as long as one process serves, the row behaves as the      *)
(* store promises - every refresh token buys at most one renewal, and only  *)
(* a sign-in opens a session that was ended.                                *)
THEOREM StoreCorrect == OneProcess => (Spec => Implements)
  <1> SUFFICES ASSUME OneProcess PROVE Spec => Implements
    OBVIOUS
  <1>1. Init => Store!Init
    BY DEF Init, Store!Init
  <1>2. StoreInv /\ [Next]_vars
          => StoreInv' /\ [Store!Next]_<<row # 0, issued, signIns, renewed>>
    BY StoreStep DEF Kept
  <1> QED BY <1>1, <1>2, StoreInit, PTL DEF Spec, Implements, Store!Spec

-----------------------------------------------------------------------------
(* Only a refresh that had read its row before the new sign-in takes the   *)
(* row back to an older one: every other new row goes back to the row that *)
(* was there or to the newest sign-in.                                     *)

LEMMA RotateOvertakes ==
  ASSUME TypeOK, NEW c \in Tabs, NEW a \in Apis, Refresh(c, a), Rotate(c),
         family'[row'] < family[row]
  PROVE  pc[c] = "compare" /\ holds[c] # 0 /\ family[holds[c]] < family[row]
  <1>1. /\ pc[c] = "compare" /\ holds[c] # 0 /\ holds[c] = sent[c]
        /\ row' = issued + 1 /\ issued < MaxToken
        /\ family' = [family EXCEPT ![issued + 1] = family[sent[c]]]
    BY DEF Refresh, Rotate, IsCurrent, Issue
  <1>2. issued + 1 \in 1..MaxToken
    BY <1>1, SessionAssumption DEF TypeOK
  <1>3. family'[row'] = family[holds[c]]
    BY <1>1, <1>2 DEF TypeOK
  <1> QED BY <1>1, <1>3

LEMMA SignInIsNewest ==
  ASSUME TypeOK, NEW c \in Tabs, SignIn(c), row # 0
  PROVE  ~ (family'[row'] < family[row])
  <1>1. /\ row' = issued + 1 /\ issued < MaxToken
        /\ family' = [family EXCEPT ![issued + 1] = signIns + 1]
    BY DEF SignIn, Issue
  <1>2. issued + 1 \in 1..MaxToken /\ row \in 1..MaxToken
    BY <1>1, SessionAssumption DEF TypeOK
  <1>3. family'[row'] = signIns + 1
    <2>1. family'[issued + 1] = signIns + 1
      BY <1>1, <1>2 DEF TypeOK
    <2> QED BY <1>1, <2>1
  <1>4. family[row] \in 0..signIns /\ signIns \in Nat
    BY <1>2 DEF TypeOK
  <1> QED BY <1>3, <1>4

(* Every other step leaves the row alone or deletes it.                    *)
RowMoves ==
  \/ UNCHANGED session
  \/ row' = 0 /\ UNCHANGED <<issued, family>>
  \/ \E c \in Tabs : SignIn(c)
  \/ \E c \in Tabs, a \in Apis : Refresh(c, a) /\ Rotate(c)

LEMMA RowStep == [Next]_vars => RowMoves
  <1> SUFFICES ASSUME [Next]_vars PROVE RowMoves
    OBVIOUS
  <1>1. CASE UNCHANGED vars
    BY <1>1 DEF RowMoves, vars, session
  <1>2. CASE World
    BY <1>2 DEF World, AccessDies, RefreshDies, CookiesDie, Crash, RowMoves
  <1>3. ASSUME NEW c \in Tabs, Request(c) PROVE RowMoves
    <2>1. CASE \/ Open(c) \/ Click(c) \/ SendRefresh(c) \/ RefreshInvalid(c)
               \/ Receive(c) \/ LoseAnswer(c) \/ Cancel(c)
      BY <2>1 DEF Open, Click, SendRefresh, RefreshInvalid, Receive, LoseAnswer, Cancel, RowMoves
    <2>2. CASE Logout(c) BY <2>2 DEF Logout, RowMoves
    <2>3. ASSUME NEW a \in Apis, FindRow(c, a) \/ RefreshRaises(c, a) PROVE UNCHANGED session
      BY <2>3 DEF FindRow, RefreshRaises
    <2>4. ASSUME NEW a \in Apis, Refresh(c, a) PROVE RowMoves
      BY <2>4 DEF Refresh, NoSession, Reuse, RowMoves
    <2> QED BY <1>3, <2>1, <2>2, <2>3, <2>4 DEF Request, RowMoves
  <1> QED BY <1>1, <1>2, <1>3 DEF Next

LEMMA OvertakenStep ==
  ASSUME TypeOK, [Next]_vars, row # 0, row' # 0, family'[row'] < family[row]
  PROVE  \E c \in Tabs : /\ pc[c] = "compare" /\ holds[c] # 0
                         /\ family[holds[c]] < family[row]
  <1>1. CASE UNCHANGED session
    <2>1. row \in 1..MaxToken
      BY SessionAssumption DEF TypeOK
    <2>2. family[row] \in Int
      BY <2>1 DEF TypeOK
    <2> QED BY <1>1, <2>2 DEF session
  <1>2. ASSUME NEW c \in Tabs, NEW a \in Apis, Refresh(c, a), Rotate(c)
        PROVE  pc[c] = "compare" /\ holds[c] # 0 /\ family[holds[c]] < family[row]
    BY <1>2, RotateOvertakes
  <1> QED BY <1>1, <1>2, SignInIsNewest, RowStep DEF RowMoves

(* PRD F-08 for every number of processes, browsers and pages: the row goes *)
(* back to an older sign-in only by a refresh that was under way.           *)
THEOREM OvertakenCorrect == Spec => OvertakenInFlight
  <1>1. TypeOK /\ [Next]_vars
          => [row # 0 /\ row' # 0 /\ family'[row'] < family[row] =>
                \E c \in Tabs : /\ pc[c] = "compare" /\ holds[c] # 0
                                /\ family[holds[c]] < family[row]]_vars
    BY OvertakenStep
  <1> QED BY <1>1, TypeCorrect, PTL DEF Spec, OvertakenInFlight

-----------------------------------------------------------------------------
(* JarIsCurrent.  The tokens of one sign-in never leave the browser that   *)
(* signed in, one that travels in an answer is in no jar and no request    *)
(* yet, and it is the newest of its sign-in; so the row's token is always  *)
(* where it belongs or on its way there, until an answer is lost.          *)

InFlight(c) == pc[c] = "answer" /\ holds[c] # 0

\* Browser b has token t: in its jar, in a request or in an answer to it.
Has(b, t) ==
  \/ jar[b].long = t
  \/ \E c \in Tabs : Owner[c] = b /\ (sent[c] = t \/ (pc[c] = "answer" /\ holds[c] = t))

HomeInv == \A b1, b2 \in Browsers : \A t1, t2 \in 1..issued :
  Has(b1, t1) /\ Has(b2, t2) /\ family[t1] = family[t2] => b1 = b2

FlightInv == \A c \in Tabs : InFlight(c) =>
  /\ \A b \in Browsers : jar[b].long # holds[c]
  /\ \A d \in Tabs : sent[d] # holds[c]
  /\ \A d \in Tabs \ {c} : InFlight(d) => holds[d] # holds[c]

NewestInv == \A c \in Tabs : InFlight(c) =>
  /\ row # 0 /\ family[holds[c]] = family[row] => holds[c] = row
  /\ \A d \in Tabs :
       pc[d] = "compare" /\ holds[d] # 0 /\ family[holds[c]] = family[holds[d]]
         => holds[c] = holds[d]

JarInv == faults = 0 => \A b \in Browsers :
  row # 0 /\ jar[b].long # 0 /\ family[jar[b].long] = family[row]
    => \/ jar[b].long = row
       \/ \E c \in Tabs : Owner[c] = b /\ InFlight(c) /\ holds[c] = row

TokenInv == HomeInv /\ FlightInv /\ NewestInv /\ JarInv

LEMMA TokenInit == Init => TokenInv
  BY DEF Init, TokenInv, HomeInv, FlightInv, NewestInv, JarInv, InFlight

(* Steps after which every token is where it was, or nowhere: the row stays *)
(* or is deleted, cookies are sent or dropped, answers are lost to a fault. *)
NothingNew ==
  /\ row' \in {row, 0} /\ UNCHANGED <<issued, family>>
  /\ \A d \in Tabs : InFlight(d)' => InFlight(d) /\ holds'[d] = holds[d]
  /\ \A d \in Tabs : pc'[d] = "compare" /\ holds'[d] # 0
       => holds'[d] = row \/ (pc[d] = "compare" /\ holds'[d] = holds[d])
  /\ \A b \in Browsers : jar'[b].long \in {0, jar[b].long}
  /\ \A d \in Tabs : sent'[d] \in {0, sent[d], jar[Owner[d]].long}
  /\ \/ faults' # 0
     \/ faults' = faults /\ \A d \in Tabs : InFlight(d) => InFlight(d)' /\ holds'[d] = holds[d]

LEMMA NothingNewKeeps ==
  ASSUME TypeOK, TokenInv, NothingNew
  PROVE  TokenInv'
  <1>1. HomeInv'
    <2>1. ASSUME NEW b \in Browsers, NEW t \in 1..issued, Has(b, t)' PROVE Has(b, t)
      <3>1. t # 0 OBVIOUS
      <3>2. CASE jar'[b].long = t BY <3>1, <3>2 DEF NothingNew, Has
      <3>3. ASSUME NEW c \in Tabs, Owner[c] = b, sent'[c] = t PROVE Has(b, t)
        BY <3>1, <3>3 DEF NothingNew, Has
      <3>4. ASSUME NEW c \in Tabs, Owner[c] = b, pc'[c] = "answer", holds'[c] = t
            PROVE  Has(b, t)
        BY <3>1, <3>4 DEF NothingNew, Has, InFlight
      <3> QED BY <2>1, <3>2, <3>3, <3>4 DEF Has
    <2>2. issued' = issued /\ family' = family BY DEF NothingNew
    <2> QED BY <2>1, <2>2 DEF HomeInv, TokenInv
  <1>2. FlightInv'
    <2> SUFFICES ASSUME NEW c \in Tabs, InFlight(c)'
                 PROVE  /\ \A b \in Browsers : jar'[b].long # holds'[c]
                        /\ \A d \in Tabs : sent'[d] # holds'[c]
                        /\ \A d \in Tabs \ {c} : InFlight(d)' => holds'[d] # holds'[c]
      BY DEF FlightInv
    <2>1. InFlight(c) /\ holds'[c] = holds[c] /\ holds[c] # 0
      BY DEF NothingNew, InFlight
    <2>2. /\ \A b \in Browsers : jar[b].long # holds[c]
          /\ \A d \in Tabs : sent[d] # holds[c]
          /\ \A d \in Tabs \ {c} : InFlight(d) => holds[d] # holds[c]
      BY <2>1 DEF TokenInv, FlightInv
    <2>3. \A d \in Tabs : Owner[d] \in Browsers BY SessionAssumption
    <2> QED BY <2>1, <2>2, <2>3 DEF NothingNew
  <1>3. NewestInv'
    BY DEF NothingNew, TokenInv, NewestInv, InFlight
  <1>4. JarInv'
    BY DEF NothingNew, TokenInv, JarInv
  <1> QED BY <1>1, <1>2, <1>3, <1>4 DEF TokenInv

(* A new pair for page c: no other browser has a token of its sign-in, and *)
(* none of these is in another answer or in the hands of a refresh.        *)
LEMMA IssueKeeps ==
  ASSUME TypeOK, TokenInv, NEW c \in Tabs, NEW origin,
         pc[c] # "answer", Issue(origin), Answer(c, issued + 1), UNCHANGED <<jar, sent, faults>>,
         \A b \in Browsers, t \in 1..issued :
           Has(b, t) /\ family[t] = origin => b = Owner[c],
         \A d \in Tabs : InFlight(d) => family[holds[d]] # origin,
         \A d \in Tabs : pc'[d] = "compare" /\ holds'[d] # 0 => family[holds[d]] # origin
  PROVE  TokenInv'
  <1>0. PICK n : n = issued + 1
    OBVIOUS
  <1>1. /\ n \in 1..MaxToken /\ issued' = n /\ row' = n
        /\ family'[n] = origin /\ \A t \in 1..issued : family'[t] = family[t]
    BY <1>0, SessionAssumption DEF TypeOK, Issue
  <1>2. /\ pc' = [pc EXCEPT ![c] = "answer"] /\ holds' = [holds EXCEPT ![c] = n]
        /\ pc'[c] = "answer" /\ holds'[c] = n
        /\ \A d \in Tabs \ {c} : pc'[d] = pc[d] /\ holds'[d] = holds[d]
    BY <1>0 DEF Answer, Goto, TypeOK
  <1>3. /\ issued \in Nat
        /\ \A d \in Tabs : holds[d] \in 0..issued /\ sent[d] \in 0..issued
        /\ \A b \in Browsers : jar[b].long \in 0..issued
    BY DEF TypeOK
  <1>4. /\ n \in Nat \ {0}
        /\ \A d \in Tabs : holds[d] # n /\ sent[d] # n
        /\ \A b \in Browsers : jar[b].long # n
    BY <1>0, <1>3
  <1>5. InFlight(c)' /\ \A d \in Tabs \ {c} : InFlight(d)' <=> InFlight(d)
    BY <1>2, <1>4 DEF InFlight
  <1>6. HomeInv'
    <2>1. ASSUME NEW b \in Browsers, NEW t \in 1..issued, Has(b, t)' PROVE Has(b, t)
      <3>1. t # n BY <1>0, <1>3
      <3> QED BY <1>2, <2>1, <3>1 DEF Has
    <2>2. ASSUME NEW b \in Browsers, Has(b, n)' PROVE b = Owner[c]
      BY <1>2, <1>4, <2>2 DEF Has
    <2>3. ASSUME NEW b \in Browsers, NEW t \in 1..issued', Has(b, t)', family'[t] = origin
          PROVE  b = Owner[c]
      <3>1. CASE t = n BY <2>2, <2>3, <3>1
      <3>2. CASE t \in 1..issued BY <1>1, <2>1, <2>3, <3>2
      <3> QED BY <1>0, <1>1, <1>3, <3>1, <3>2
    <2>4. ASSUME NEW b1 \in Browsers, NEW b2 \in Browsers,
                 NEW t1 \in 1..issued', NEW t2 \in 1..issued',
                 Has(b1, t1)', Has(b2, t2)', family'[t1] = family'[t2]
          PROVE  b1 = b2
      <3>1. CASE family'[t1] = origin BY <2>3, <2>4, <3>1
      <3>2. CASE family'[t1] # origin
        <4>1. t1 \in 1..issued /\ t2 \in 1..issued
          BY <1>0, <1>1, <1>3, <2>4, <3>2
        <4>2. Has(b1, t1) /\ Has(b2, t2) /\ family[t1] = family[t2]
          BY <1>1, <2>1, <2>4, <4>1
        <4> QED BY <4>1, <4>2 DEF TokenInv, HomeInv
      <3> QED BY <3>1, <3>2
    <2> QED BY <2>4 DEF HomeInv
  <1>7. FlightInv'
    <2> SUFFICES ASSUME NEW d \in Tabs, InFlight(d)'
                 PROVE  /\ \A b \in Browsers : jar[b].long # holds'[d]
                        /\ \A e \in Tabs : sent[e] # holds'[d]
                        /\ \A e \in Tabs \ {d} : InFlight(e)' => holds'[e] # holds'[d]
      BY DEF FlightInv
    <2>1. CASE d = c
      BY <1>2, <1>4, <2>1
    <2>2. CASE d # c
      <3>1. InFlight(d) /\ holds'[d] = holds[d] BY <1>2, <1>5, <2>2
      <3>2. /\ \A b \in Browsers : jar[b].long # holds[d]
            /\ \A e \in Tabs : sent[e] # holds[d]
            /\ \A e \in Tabs \ {d} : InFlight(e) => holds[e] # holds[d]
        BY <3>1 DEF TokenInv, FlightInv
      <3> QED BY <1>2, <1>4, <1>5, <3>1, <3>2
    <2> QED BY <2>1, <2>2
  <1>8. NewestInv'
    <2> SUFFICES ASSUME NEW d \in Tabs, InFlight(d)'
                 PROVE  /\ family'[holds'[d]] = family'[row'] => holds'[d] = row'
                        /\ \A e \in Tabs : pc'[e] = "compare" /\ holds'[e] # 0
                             /\ family'[holds'[d]] = family'[holds'[e]] => holds'[d] = holds'[e]
      BY DEF NewestInv
    <2>1. \A e \in Tabs : pc'[e] = "compare" /\ holds'[e] # 0
            => /\ e # c /\ pc[e] = "compare" /\ holds'[e] = holds[e]
               /\ family'[holds[e]] = family[holds[e]] /\ family[holds[e]] # origin
      BY <1>1, <1>2, <1>3
    <2>2. CASE d = c BY <1>1, <1>2, <2>1, <2>2
    <2>3. CASE d # c
      <3>1. InFlight(d) /\ holds'[d] = holds[d] BY <1>2, <1>5, <2>3
      <3>2. holds[d] \in 1..issued BY <1>3, <3>1 DEF InFlight
      <3>3. family'[holds[d]] = family[holds[d]] /\ family[holds[d]] # origin
        BY <1>1, <3>1, <3>2
      <3> QED BY <1>1, <2>1, <3>1, <3>3 DEF TokenInv, NewestInv
    <2> QED BY <2>2, <2>3
  <1>9. JarInv'
    <2>1. ASSUME NEW b \in Browsers, jar[b].long # 0, family'[jar[b].long] = family'[row']
          PROVE  b = Owner[c]
      <3>1. jar[b].long \in 1..issued BY <1>3, <2>1
      <3> QED BY <1>1, <2>1, <3>1 DEF Has
    <2> QED BY <1>1, <1>2, <1>5, <2>1 DEF JarInv
  <1> QED BY <1>6, <1>7, <1>8, <1>9 DEF TokenInv

(* The exchange of a token: the only process serves this refresh alone.    *)
LEMMA ExchangeKeeps ==
  ASSUME StoreInv, OneProcess, TokenInv, NEW c \in Tabs, NEW a \in Apis,
         Refresh(c, a), Rotate(c)
  PROVE  TokenInv'
  <1>1. /\ pc[c] = "compare" /\ loop[a] = c /\ Leave(a) /\ Goto(c, "answer")
        /\ holds[c] # 0 /\ holds[c] = sent[c] /\ UNCHANGED <<jar, sent, faults>>
        /\ Issue(family[sent[c]]) /\ Answer(c, issued + 1)
    BY DEF Refresh, Rotate, IsCurrent, Answer
  <1>2. \A d \in Tabs : pc'[d] # "compare"
    BY <1>1, EndOfRefresh
  <1>3. TypeOK /\ Owner[c] \in Browsers /\ sent[c] \in 1..issued
    BY <1>1, SessionAssumption DEF StoreInv, TypeOK
  <1>4. \A b \in Browsers, t \in 1..issued :
          Has(b, t) /\ family[t] = family[sent[c]] => b = Owner[c]
    <2>1. Has(Owner[c], sent[c]) BY DEF Has
    <2> QED BY <1>3, <2>1 DEF TokenInv, HomeInv
  <1>5. \A d \in Tabs : InFlight(d) => family[holds[d]] # family[sent[c]]
    BY <1>1 DEF TokenInv, FlightInv, NewestInv
  <1> QED BY <1>1, <1>2, <1>3, <1>4, <1>5, IssueKeeps

LEMMA EntryKeeps ==
  ASSUME TypeOK, TokenInv, NEW c \in Tabs, SignIn(c)
  PROVE  TokenInv'
  <1>1. /\ pc[c] = "login" /\ UNCHANGED <<jar, sent, faults>>
        /\ Issue(signIns + 1) /\ Answer(c, issued + 1)
    BY DEF SignIn
  <1>2. \A t \in 1..issued : family[t] # signIns + 1
    <2>1. \A t \in 1..issued : t \in 1..MaxToken
      BY SessionAssumption DEF TypeOK
    <2>2. \A t \in 1..MaxToken : family[t] \in 0..signIns
      BY DEF TypeOK
    <2>3. signIns \in Nat BY DEF TypeOK
    <2> QED BY <2>1, <2>2, <2>3
  <1>3. \A d \in Tabs : holds[d] # 0 => holds[d] \in 1..issued
    BY DEF TypeOK
  <1>4. \A d \in Tabs : InFlight(d) => family[holds[d]] # signIns + 1
    BY <1>2, <1>3 DEF InFlight
  <1>5. \A d \in Tabs : pc'[d] = "compare" /\ holds'[d] # 0 => family[holds[d]] # signIns + 1
    <2>1. /\ pc'[c] = "answer"
          /\ \A d \in Tabs \ {c} : holds'[d] = holds[d]
      BY <1>1 DEF Answer, Goto, TypeOK
    <2> QED BY <1>2, <1>3, <2>1
  <1> QED BY <1>1, <1>2, <1>4, <1>5, IssueKeeps

(* An answer arrives: its token moves into the jar, and by NewestInv it is *)
(* the row's if it goes back to the same sign-in.                          *)
LEMMA ReceiveKeeps ==
  ASSUME TypeOK, TokenInv, NEW c \in Tabs, Receive(c), holds[c] # 0
  PROVE  TokenInv'
  <1>1. /\ pc[c] = "answer" /\ InFlight(c) /\ UNCHANGED <<row, issued, family, faults>>
        /\ jar' = [jar EXCEPT ![Owner[c]] = [short |-> holds[c], long |-> holds[c]]]
        /\ sent' = [sent EXCEPT ![c] = 0] /\ holds' = [holds EXCEPT ![c] = 0]
        /\ \E label \in {"login", "again", "page"} : pc' = [pc EXCEPT ![c] = label]
    BY DEF Receive, SetCookies, Finish, Goto, session, InFlight
  <1>2. /\ pc'[c] # "answer" /\ pc'[c] # "compare" /\ sent'[c] = 0 /\ holds'[c] = 0
        /\ \A d \in Tabs \ {c} :
             pc'[d] = pc[d] /\ sent'[d] = sent[d] /\ holds'[d] = holds[d]
    BY <1>1 DEF TypeOK
  <1>3. /\ Owner[c] \in Browsers
        /\ \A b \in Browsers : jar'[b].long = IF b = Owner[c] THEN holds[c] ELSE jar[b].long
    BY <1>1, SessionAssumption DEF TypeOK
  <1>4. /\ ~InFlight(c)' /\ \A d \in Tabs \ {c} : InFlight(d)' <=> InFlight(d)
    BY <1>2 DEF InFlight
  <1>5. HomeInv'
    <2>1. ASSUME NEW b \in Browsers, NEW t \in 1..issued, Has(b, t)' PROVE Has(b, t)
      <3>1. t # 0 OBVIOUS
      <3>2. CASE jar'[b].long = t
        BY <1>1, <1>3, <3>2 DEF Has
      <3>3. ASSUME NEW d \in Tabs, Owner[d] = b,
                   sent'[d] = t \/ (pc'[d] = "answer" /\ holds'[d] = t)
            PROVE  Has(b, t)
        BY <1>2, <3>1, <3>3 DEF Has
      <3> QED BY <2>1, <3>2, <3>3 DEF Has
    <2> QED BY <1>1, <2>1 DEF HomeInv, TokenInv
  <1>6. FlightInv'
    <2> SUFFICES ASSUME NEW d \in Tabs, InFlight(d)'
                 PROVE  /\ \A b \in Browsers : jar'[b].long # holds'[d]
                        /\ \A e \in Tabs : sent'[e] # holds'[d]
                        /\ \A e \in Tabs \ {d} : InFlight(e)' => holds'[e] # holds'[d]
      BY DEF FlightInv
    <2>1. d # c /\ InFlight(d) /\ holds'[d] = holds[d] /\ holds[d] # 0
      BY <1>2, <1>4 DEF InFlight
    <2>2. /\ \A b \in Browsers : jar[b].long # holds[d]
          /\ \A e \in Tabs : sent[e] # holds[d]
          /\ \A e \in Tabs \ {d} : InFlight(e) => holds[e] # holds[d]
      BY <2>1 DEF TokenInv, FlightInv
    <2> QED BY <1>1, <1>2, <1>3, <1>4, <2>1, <2>2
  <1>7. NewestInv'
    BY <1>1, <1>2, <1>4 DEF TokenInv, NewestInv
  <1>8. JarInv'
    <2> SUFFICES ASSUME faults = 0, NEW b \in Browsers, row # 0, jar'[b].long # 0,
                        family[jar'[b].long] = family[row]
                 PROVE  \/ jar'[b].long = row
                        \/ \E d \in Tabs : Owner[d] = b /\ InFlight(d)' /\ holds'[d] = row
      BY <1>1 DEF JarInv
    <2>1. CASE b = Owner[c]
      BY <1>1, <1>3, <2>1 DEF TokenInv, NewestInv
    <2>2. CASE b # Owner[c]
      <3>1. jar'[b].long = jar[b].long BY <1>3, <2>2
      <3>2. \/ jar[b].long = row
            \/ \E d \in Tabs : Owner[d] = b /\ InFlight(d) /\ holds[d] = row
        BY <3>1 DEF TokenInv, JarInv
      <3> QED BY <1>2, <1>4, <2>2, <3>1, <3>2
    <2> QED BY <2>1, <2>2
  <1> QED BY <1>5, <1>6, <1>7, <1>8 DEF TokenInv

(* A fault is remembered, so a step that needs one may lose an answer.     *)
LEMMA FaultRemembered ==
  ASSUME TypeOK, NEW kind, Fault(kind) PROVE faults' # 0
  BY SessionAssumption DEF TypeOK, Fault

LEMMA QuietMoves ==
  ASSUME TypeOK, NEW c \in Tabs,
         \/ Open(c) \/ Click(c) \/ SendRefresh(c) \/ RefreshInvalid(c)
         \/ (Receive(c) /\ holds[c] = 0) \/ LoseAnswer(c) \/ Cancel(c) \/ Logout(c)
  PROVE  NothingNew
  <1>1. CASE Open(c)
    BY <1>1 DEF Open, Goto, session, NothingNew, InFlight, TypeOK
  <1>2. CASE Click(c)
    <2>1. /\ pc[c] # "answer" /\ UNCHANGED <<session, jar, sent, holds, faults>>
          /\ \E label \in {"forbidden", "renew", "page"} : pc' = [pc EXCEPT ![c] = label]
      BY <1>2 DEF Click, Goto
    <2> QED BY <2>1 DEF session, NothingNew, InFlight, TypeOK
  <1>3. CASE SendRefresh(c)
    <2>1. /\ pc[c] # "answer" /\ UNCHANGED <<session, jar, holds, faults>>
          /\ \E label \in {"refresh", "login"} : pc' = [pc EXCEPT ![c] = label]
          /\ sent' = [sent EXCEPT ![c] = jar[Owner[c]].long]
      BY <1>3 DEF SendRefresh, Goto, Cookies
    <2> QED BY <2>1 DEF session, NothingNew, InFlight, TypeOK
  <1>4. CASE RefreshInvalid(c)
    BY <1>4 DEF RefreshInvalid, Answer, Goto, session, NothingNew, InFlight, TypeOK
  <1>5. CASE Receive(c) /\ holds[c] = 0
    <2>1. /\ ~InFlight(c) /\ UNCHANGED <<session, faults>>
          /\ jar' = [jar EXCEPT ![Owner[c]] = [short |-> 0, long |-> 0]]
          /\ sent' = [sent EXCEPT ![c] = 0] /\ holds' = [holds EXCEPT ![c] = 0]
      BY <1>5 DEF Receive, SetCookies, Finish, InFlight
    <2>2. \A b \in Browsers : jar'[b].long \in {0, jar[b].long}
      BY <2>1 DEF TypeOK
    <2>3. \E label \in {"login", "again", "page"} : pc' = [pc EXCEPT ![c] = label]
      <3>1. \E label \in {"login", "again", "page"} : Finish(c, label)
        BY <1>5 DEF Receive
      <3> QED BY <3>1 DEF Finish, Goto
    <2> QED BY <2>1, <2>2, <2>3 DEF session, NothingNew, InFlight, TypeOK
  <1>6. CASE LoseAnswer(c)
    <2>1. /\ faults' # 0 /\ UNCHANGED <<session, jar>>
          /\ sent' = [sent EXCEPT ![c] = 0] /\ holds' = [holds EXCEPT ![c] = 0]
          /\ \E label \in {"page", "login"} : pc' = [pc EXCEPT ![c] = label]
      BY <1>6, FaultRemembered DEF LoseAnswer, Finish, Goto
    <2> QED BY <2>1 DEF session, NothingNew, InFlight, TypeOK
  <1>7. CASE Cancel(c)
    BY <1>7 DEF Cancel, Finish, Goto, session, NothingNew, InFlight, TypeOK
  <1>8. CASE Logout(c)
    BY <1>8 DEF Logout, Answer, Goto, NothingNew, InFlight, TypeOK
  <1> QED BY <1>1, <1>2, <1>3, <1>4, <1>5, <1>6, <1>7, <1>8

LEMMA LoopMoves ==
  ASSUME TypeOK, NEW c \in Tabs, NEW a \in Apis,
         \/ FindRow(c, a) \/ RefreshRaises(c, a)
         \/ (Refresh(c, a) /\ (NoSession(c) \/ Reuse(c)))
         \/ (Crash(a) /\ loop[a] = c)
  PROVE  NothingNew
  <1>1. CASE FindRow(c, a)
    BY <1>1 DEF FindRow, Goto, session, NothingNew, InFlight, TypeOK
  <1>2. CASE RefreshRaises(c, a) \/ (Crash(a) /\ loop[a] = c)
    <2>1. /\ faults' # 0 /\ UNCHANGED <<session, jar>>
          /\ sent' = [sent EXCEPT ![c] = 0] /\ holds' = [holds EXCEPT ![c] = 0]
          /\ \E label \in {"page", "login"} : pc' = [pc EXCEPT ![c] = label]
      BY <1>2, FaultRemembered DEF RefreshRaises, Crash, Finish, Goto
    <2> QED BY <2>1 DEF session, NothingNew, InFlight, TypeOK
  <1>3. CASE Refresh(c, a) /\ (NoSession(c) \/ Reuse(c))
    <2>1. /\ pc[c] = "compare" /\ row' \in {row, 0}
          /\ UNCHANGED <<issued, family, jar, sent, faults>>
          /\ pc' = [pc EXCEPT ![c] = "answer"] /\ holds' = [holds EXCEPT ![c] = 0]
      BY <1>3 DEF Refresh, NoSession, Reuse, Answer, Goto, session
    <2> QED BY <2>1 DEF NothingNew, InFlight, TypeOK
  <1> QED BY <1>1, <1>2, <1>3

LEMMA TimeMoves ==
  ASSUME TypeOK, AccessDies \/ RefreshDies \/ \E b \in Browsers : CookiesDie(b)
  PROVE  NothingNew
  <1>1. CASE AccessDies \/ RefreshDies
    BY <1>1 DEF AccessDies, RefreshDies, session, NothingNew, InFlight
  <1>2. ASSUME NEW b \in Browsers, CookiesDie(b) PROVE NothingNew
    <2>1. /\ UNCHANGED <<session, pc, sent, holds, faults>>
          /\ \/ jar' = [jar EXCEPT ![b].short = 0] \/ jar' = [jar EXCEPT ![b].long = 0]
      BY <1>2 DEF CookiesDie
    <2>2. jar \in [Browsers -> [short : 0..issued, long : 0..issued]]
      BY DEF TypeOK
    <2>3. CASE jar' = [jar EXCEPT ![b].short = 0]
      BY <2>1, <2>2, <2>3 DEF session, NothingNew, InFlight
    <2>4. CASE jar' = [jar EXCEPT ![b].long = 0]
      BY <2>1, <2>2, <2>4 DEF session, NothingNew, InFlight
    <2> QED BY <2>1, <2>3, <2>4
  <1> QED BY <1>1, <1>2

LEMMA TokenStep ==
  ASSUME StoreInv, OneProcess, TokenInv, [Next]_vars
  PROVE  TokenInv'
  <1>1. TypeOK BY DEF StoreInv
  <1>2. CASE UNCHANGED vars
    <2>1. NothingNew BY <1>2 DEF vars, NothingNew, InFlight
    <2> QED BY <1>1, <2>1, NothingNewKeeps
  <1>3. ASSUME NEW c \in Tabs, Request(c) PROVE TokenInv'
    <2>1. CASE Receive(c) /\ holds[c] # 0
      BY <1>1, <2>1, ReceiveKeeps
    <2>2. CASE \/ Open(c) \/ Click(c) \/ SendRefresh(c) \/ RefreshInvalid(c)
               \/ (Receive(c) /\ holds[c] = 0) \/ LoseAnswer(c) \/ Cancel(c) \/ Logout(c)
      BY <1>1, <2>2, QuietMoves, NothingNewKeeps
    <2>3. CASE SignIn(c)
      BY <1>1, <2>3, EntryKeeps
    <2>4. ASSUME NEW a \in Apis, FindRow(c, a) \/ Refresh(c, a) \/ RefreshRaises(c, a)
          PROVE  TokenInv'
      <3>1. CASE Refresh(c, a) /\ Rotate(c)
        BY <3>1, ExchangeKeeps
      <3>2. CASE \/ FindRow(c, a) \/ RefreshRaises(c, a)
                 \/ (Refresh(c, a) /\ (NoSession(c) \/ Reuse(c)))
        BY <1>1, <3>2, LoopMoves, NothingNewKeeps
      <3> QED BY <2>4, <3>1, <3>2 DEF Refresh
    <2> QED BY <1>3, <2>1, <2>2, <2>3, <2>4 DEF Request
  <1>4. ASSUME NEW a \in Apis, Crash(a) PROVE TokenInv'
    <2>1. loop[a] \in Tabs BY <1>1, <1>4 DEF Crash, TypeOK
    <2>2. NothingNew BY <1>1, <1>4, <2>1, LoopMoves
    <2> QED BY <1>1, <2>2, NothingNewKeeps
  <1>5. CASE AccessDies \/ RefreshDies \/ \E b \in Browsers : CookiesDie(b)
    BY <1>1, <1>5, TimeMoves, NothingNewKeeps
  <1> QED BY <1>2, <1>3, <1>4, <1>5 DEF Next, World

(* The browser that holds the session keeps up with it, for any number of  *)
(* browsers, pages and tokens, as long as one process serves and nothing   *)
(* has failed (the property says so itself).                               *)
THEOREM JarCorrect == OneProcess => (Spec => []JarIsCurrent)
  <1> SUFFICES ASSUME OneProcess PROVE Spec => []JarIsCurrent
    OBVIOUS
  <1>1. Init => StoreInv /\ TokenInv
    BY StoreInit, TokenInit
  <1>2. StoreInv /\ TokenInv /\ [Next]_vars => StoreInv' /\ TokenInv'
    BY StoreStep, TokenStep
  <1>3. StoreInv /\ TokenInv => JarIsCurrent
    <2> SUFFICES ASSUME TokenInv, NEW b \in Browsers, faults = 0,
                        \A c \in Tabs : Owner[c] = b => pc[c] # "answer",
                        row # 0, jar[b].long # 0, family[jar[b].long] = family[row]
                 PROVE  jar[b].long = row
      BY DEF JarIsCurrent
    <2> QED BY DEF TokenInv, JarInv, InFlight
  <1> QED BY <1>1, <1>2, <1>3, PTL DEF Spec

===============================================================================
