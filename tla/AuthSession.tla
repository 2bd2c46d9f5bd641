----------------------------- MODULE AuthSession ------------------------------
(***************************************************************************)
(* The session of one account: the row of refresh_tokens, the cookies of   *)
(* its browsers, and the requests between them (api/src/auth/router.py,    *)
(* token_service.py, google_oauth.py; web/src/lib/auth-client.ts).         *)
(*                                                                         *)
(* A request that is handled by an async function keeps the event loop of  *)
(* its process from its first to its last statement; the Google callback   *)
(* runs in a thread beside the loop.  A second process serves while a      *)
(* deployment switches colours.  A refresh reads the row and writes it in  *)
(* separate statements, and only there can somebody come between: every    *)
(* other request is one step, from the cookies of the browser to the       *)
(* answer, which travels back in a step of its own when it brings cookies. *)
(*                                                                         *)
(* Refresh tokens are numbered in the order they are issued, and a pair of *)
(* cookies by its refresh token.                                           *)
(***************************************************************************)
EXTENDS Integers, FiniteSets

CONSTANTS
  Browsers,
  Tabs,          \* open pages
  Owner,         \* the browser each page is in
  Apis,          \* processes that serve requests
  Nobody,        \* the loop of a process is free
  SignIns,       \* how users sign in: "password", "google"
  MaxToken,      \* bound: refresh tokens issued
  FaultKinds, MaxFaults

AllFaults == {"db", "answer", "crash"}

ASSUME SessionAssumption ==
  /\ Owner \in [Tabs -> Browsers] /\ Nobody \notin Tabs
  /\ SignIns \subseteq {"password", "google"}
  /\ MaxToken \in Nat \ {0} /\ MaxFaults \in Nat /\ FaultKinds \subseteq AllFaults

VARIABLES
  row,      \* refresh_tokens.token_hash of the account, 0 without a row
  issued,   \* refresh tokens issued
  young,    \* the access token of a pair is valid from this pair on (1 hour)
  alive,    \* the refresh token of a pair is valid from this pair on (24 hours)
  jar,      \* each browser: the pair its access and csrf cookies come from, and
            \* the pair its refresh cookie comes from; 0 without the cookie
  loop,     \* each process: the page whose refresh its event loop is in
  pc,       \* each page
  sent,     \* the refresh cookie its request carries
  holds,    \* the row its refresh has read, then the pair its answer brings
  faults,
  renewed, family, signIns
            \* history: tokens exchanged for a new one; the sign-in each token
            \* goes back to; sign-ins so far

clock   == <<young, alive>>
session == <<row, issued, renewed, family, signIns>>
vars == <<row, issued, young, alive, jar, loop, pc, sent, holds, faults,
          renewed, family, signIns>>

-----------------------------------------------------------------------------
(* Pieces of the actions *)

Cookies(c) == jar[Owner[c]]
WithoutRefreshCookie(c, pair) ==
  jar' = [jar EXCEPT ![Owner[c]] =
            [short |-> pair, long |-> IF sent[c] # 0 THEN @.long ELSE pair]]
SetCookies(c, pair) ==
  jar' = [jar EXCEPT ![Owner[c]] = [short |-> pair, long |-> pair]]

Goto(c, label) == pc' = [pc EXCEPT ![c] = label]
Fault(kind) == kind \in FaultKinds /\ faults < MaxFaults /\ faults' = faults + 1

\* The end of a request; what it was about is forgotten.
Finish(c, label) ==
  /\ Goto(c, label)
  /\ sent' = [sent EXCEPT ![c] = 0] /\ holds' = [holds EXCEPT ![c] = 0]

\* The answer with a new pair, or with 0, which deletes the cookies.
Answer(c, pair) == Goto(c, "answer") /\ holds' = [holds EXCEPT ![c] = pair]

LoopFree == \E a \in Apis : loop[a] = Nobody
Leave(a) == loop' = [loop EXCEPT ![a] = Nobody]

\* verify_csrf passes when the cookie is there, for csrfFetch copies it into the
\* header; the cookie has the age of the access token's.
CsrfMissing(c) == Cookies(c).short = 0
AccessValid(c) == Cookies(c).short # 0 /\ Cookies(c).short >= young
RefreshValid(c) == sent[c] # 0 /\ sent[c] >= alive

\* issue_pair: a new pair, and the row names it.
Issue(origin) ==
  /\ issued < MaxToken
  /\ issued' = issued + 1
  /\ row' = issued + 1
  /\ family' = [family EXCEPT ![issued + 1] = origin]

\* The bound leaves a token for each refresh that is being served.
Room == issued + Cardinality({c \in Tabs : pc[c] = "compare"}) < MaxToken

AnyRow(c) == TRUE

\* compare_digest in rotate_refresh.
IsCurrent(c) == holds[c] = sent[c]

-----------------------------------------------------------------------------
Init ==
  /\ row = 0 /\ issued = 0 /\ young = 1 /\ alive = 1
  /\ jar = [b \in Browsers |-> [short |-> 0, long |-> 0]]
  /\ loop = [a \in Apis |-> Nobody]
  /\ pc = [c \in Tabs |-> "login"]
  /\ sent = [c \in Tabs |-> 0] /\ holds = [c \in Tabs |-> 0]
  /\ faults = 0 /\ signIns = 0
  /\ renewed = {} /\ family = [t \in 1..MaxToken |-> 0]

\* middleware.ts: a page opens with an access cookie, or leads to the login.
Open(c) ==
  /\ pc[c] \in {"login", "page", "forbidden"}
  /\ Goto(c, IF Cookies(c).short # 0 THEN "page" ELSE "login")
  /\ UNCHANGED <<clock, session, jar, loop, sent, holds, faults>>

\* A click on resend, and the one retry after a refresh: verify_csrf answers
\* 403, which csrfFetch takes as final, current_user 401, after which it
\* refreshes once.
Click(c) ==
  /\ pc[c] \in {"page", "again"}
  /\ LoopFree
  /\ Goto(c, CASE CsrfMissing(c) -> "forbidden"
               [] ~CsrfMissing(c) /\ ~AccessValid(c) /\ pc[c] = "page" -> "renew"
               [] OTHER -> "page")
  /\ UNCHANGED <<clock, session, jar, loop, sent, holds, faults>>

\* No cookie: 401, and csrfFetch goes to the login.
SendRefresh(c) ==
  /\ pc[c] = "renew"
  /\ sent' = [sent EXCEPT ![c] = Cookies(c).long]
  /\ Goto(c, IF Cookies(c).long # 0 THEN "refresh" ELSE "login")
  /\ UNCHANGED <<clock, session, jar, loop, holds, faults>>

\* verify_token raises: 401, which deletes the cookies.
RefreshInvalid(c) ==
  /\ pc[c] = "refresh" /\ ~RefreshValid(c)
  /\ Answer(c, 0)
  /\ UNCHANGED <<clock, session, jar, loop, sent, faults>>

\* find_by_user; the handler keeps the loop from here.
FindRow(c, a) ==
  /\ pc[c] = "refresh" /\ RefreshValid(c) /\ loop[a] = Nobody /\ Room
  /\ holds' = [holds EXCEPT ![c] = row]
  /\ loop' = [loop EXCEPT ![a] = c]
  /\ Goto(c, "compare")
  /\ UNCHANGED <<clock, session, jar, sent, faults>>

NoSession(c) == holds[c] = 0 /\ Answer(c, 0) /\ UNCHANGED session

\* Another token than the current one: the session is deleted.
Reuse(c) ==
  /\ holds[c] # 0 /\ ~IsCurrent(c)
  /\ row' = 0
  /\ Answer(c, 0)
  /\ UNCHANGED <<issued, renewed, family, signIns>>

Rotate(c) ==
  /\ holds[c] # 0 /\ IsCurrent(c)
  /\ Issue(family[sent[c]])
  /\ renewed' = renewed \cup {sent[c]}
  /\ Answer(c, issued + 1)
  /\ UNCHANGED signIns

Refresh(c, a) ==
  /\ pc[c] = "compare" /\ loop[a] = c
  /\ NoSession(c) \/ Reuse(c) \/ Rotate(c)
  /\ Leave(a)
  /\ UNCHANGED <<clock, jar, sent, faults>>

\* A statement before the row is written raises: 500, which csrfFetch takes to
\* the login and which changes no cookie.
RefreshRaises(c, a) ==
  /\ pc[c] = "compare" /\ loop[a] = c /\ Fault("db")
  /\ Leave(a) /\ Finish(c, "login")
  /\ UNCHANGED <<clock, session, jar>>

\* New cookies, and the click once more, or a page after a sign-in.
Receive(c) ==
  /\ pc[c] = "answer"
  /\ SetCookies(c, holds[c])
  /\ Finish(c, CASE holds[c] = 0 -> "login" [] sent[c] # 0 -> "again" [] OTHER -> "page")
  /\ UNCHANGED <<clock, session, loop, faults>>

\* The cookies do not arrive though the row was written: the connection is lost
\* (a toast), or the auth_events row written last raises (500).
LoseAnswer(c) ==
  /\ pc[c] = "answer" /\ Fault("answer")
  /\ \E label \in {"page", "login"} : Finish(c, label)
  /\ UNCHANGED <<clock, session, jar, loop>>

\* The user closes the page before its refresh is served.
Cancel(c) ==
  /\ pc[c] = "refresh"
  /\ Finish(c, "login")
  /\ UNCHANGED <<clock, session, jar, loop, faults>>

-----------------------------------------------------------------------------
(* Signing in and out *)

\* login() and google_oauth_callback() end in issue_pair; the first needs the
\* loop.
SignIn(c) ==
  /\ pc[c] = "login" /\ Room
  /\ "google" \in SignIns \/ ("password" \in SignIns /\ LoopFree)
  /\ Issue(signIns + 1)
  /\ signIns' = signIns + 1
  /\ Answer(c, issued + 1)
  /\ UNCHANGED <<clock, jar, loop, sent, faults, renewed>>

\* By a client that sends the csrf header with it.
Logout(c) ==
  /\ pc[c] = "page" /\ AccessValid(c) /\ LoopFree
  /\ row' = 0
  /\ Answer(c, 0)
  /\ UNCHANGED <<clock, jar, loop, sent, faults, issued, renewed, family, signIns>>

-----------------------------------------------------------------------------
(* Outside the requests *)

ShortRefresh == /\ alive <= issued /\ alive' = alive + 1
                /\ UNCHANGED <<young, session, jar, loop, pc, sent, holds, faults>>

\* One hour, and a day, after the pair was issued.
AccessDies  == /\ young <= issued /\ young' = young + 1
               /\ UNCHANGED <<alive, session, jar, loop, pc, sent, holds, faults>>
RefreshDies == /\ alive < young /\ alive' = alive + 1
               /\ UNCHANGED <<young, session, jar, loop, pc, sent, holds, faults>>

\* Max-Age counts from the arrival of the cookie, after the token was issued.
CookiesDie(b) ==
  /\ \/ /\ jar[b].short # 0 /\ jar[b].short < young
        /\ jar' = [jar EXCEPT ![b].short = 0]
     \/ /\ jar[b].long # 0 /\ jar[b].long < alive
        /\ jar' = [jar EXCEPT ![b].long = 0]
  /\ UNCHANGED <<clock, session, loop, pc, sent, holds, faults>>

\* A process of the API dies with the refresh its loop is in.
Crash(a) ==
  /\ loop[a] # Nobody /\ Fault("crash")
  /\ Leave(a) /\ Finish(loop[a], "page")
  /\ UNCHANGED <<clock, session, jar>>

Request(c) ==
  \/ Open(c) \/ Click(c) \/ SendRefresh(c) \/ RefreshInvalid(c)
  \/ Receive(c) \/ LoseAnswer(c) \/ Cancel(c) \/ SignIn(c) \/ Logout(c)
  \/ \E a \in Apis : FindRow(c, a) \/ Refresh(c, a) \/ RefreshRaises(c, a)
World == \/ AccessDies \/ RefreshDies
         \/ \E b \in Browsers : CookiesDie(b)
         \/ \E a \in Apis : Crash(a)

Next == (\E c \in Tabs : Request(c)) \/ World

Spec == Init /\ [][Next]_vars

-----------------------------------------------------------------------------
(* Properties *)

Labels == {"login", "page", "forbidden", "renew", "refresh", "compare", "answer", "again"}

\* Every variable stays in its range; nobody sends or keeps a token that was
\* not issued.
TypeOK ==
  /\ issued \in 0..MaxToken /\ row \in 0..issued
  /\ young \in 1..issued + 1 /\ alive \in 1..young
  /\ jar \in [Browsers -> [short : 0..issued, long : 0..issued]]
  /\ loop \in [Apis -> Tabs \cup {Nobody}]
  /\ pc \in [Tabs -> Labels]
  /\ sent \in [Tabs -> 0..issued] /\ holds \in [Tabs -> 0..issued]
  /\ faults \in 0..MaxFaults /\ renewed \subseteq 1..issued
  /\ signIns \in 0..issued /\ family \in [1..MaxToken -> 0..signIns]

\* token_service.py:3-7, as long as one process serves: no order of refreshes,
\* sign-ins (the Google thread included) and logouts lets a refresh token be
\* exchanged twice, or lets a refresh open a session that was ended.
Store == INSTANCE SessionStore WITH open <- row # 0
Implements == Store!Spec

\* The browser that holds the session keeps up with it: when none of its pages
\* has an answer under way and nothing has failed, a refresh cookie that goes
\* back to the sign-in of the row is the one the row names, so that its next
\* refresh is not taken for a theft.  Two pages of one browser that refresh at
\* once lose the session, but never leave it alive with an old cookie.
JarIsCurrent ==
  \A b \in Browsers :
    LET mine == jar[b].long IN
      /\ faults = 0
      /\ \A c \in Tabs : Owner[c] = b => pc[c] # "answer"
      /\ row # 0 /\ mine # 0 /\ family[mine] = family[row]
      => mine = row

\* auth-client.ts:5 and PRD scenario 5: an expired access token is renewed by
\* the refresh token, the login comes only when that fails.  So no click of a
\* page whose browser has the refresh token of the row ends in a refusal.
ExpiryRenews ==
  \A c \in Tabs :
    pc[c] = "forbidden" => ~ (row # 0 /\ Cookies(c).long = row /\ row >= alive)

\* PRD F-08: a new sign-in ends the session before it.  The row goes back to an
\* older sign-in only by a refresh that had read it before the new one wrote it (the
\* Google callback runs beside the loop), never by a refresh that begins afterwards.
OvertakenInFlight ==
  [][row # 0 /\ row' # 0 /\ family'[row'] < family[row] =>
       \E c \in Tabs : /\ pc[c] = "compare" /\ holds[c] # 0
                       /\ family[holds[c]] < family[row]]_vars
===============================================================================
