----------------------------- MODULE SessionStore -----------------------------
(***************************************************************************)
(* What the refresh_tokens row of one account promises, whatever requests, *)
(* threads and failures are behind it: a refresh token buys at most one    *)
(* renewal, and a session that was ended is opened by a sign-in only.      *)
(***************************************************************************)
EXTENDS Naturals

VARIABLES
  open,     \* the account has a session
  issued,   \* refresh tokens issued so far
  signIns,  \* of these, by a sign-in
  renewed   \* the tokens that were given for a new one

Init == open = FALSE /\ issued = 0 /\ signIns = 0 /\ renewed = {}

SignIn == open' = TRUE /\ issued' = issued + 1 /\ signIns' = signIns + 1 /\ UNCHANGED renewed

Renew == /\ open /\ open' = TRUE
         /\ issued' = issued + 1
         /\ \E t \in (1..issued) \ renewed : renewed' = renewed \cup {t}
         /\ UNCHANGED signIns

End == open' = FALSE /\ UNCHANGED <<issued, signIns, renewed>>

Next == SignIn \/ Renew \/ End

Spec == Init /\ [][Next]_<<open, issued, signIns, renewed>>
===============================================================================
