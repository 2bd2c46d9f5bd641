------------------------------ MODULE PostHistory ------------------------------
(***************************************************************************)
(* What the batch promises of its history, the posts table, however its    *)
(* runs fail and retry: posts are announced before they are recorded, the  *)
(* history only grows, at its end and in the order of the posts, and it    *)
(* passes no post on the page that nobody was told of.                     *)
(***************************************************************************)
EXTENDS Integers

CONSTANTS
  Boards,
  Ids,        \* numbers of posts
  PageSize,   \* posts of a board that can be seen
  MayFail     \* boards whose posts may be recorded as failed

VARIABLES
  newest,     \* highest post of each board
  status,     \* what the history says of a post, "none" without a record
  told        \* the posts of each board that were announced

Recorded(b) == {p \in Ids : status[b][p] # "none"}
Shown(b) == {p \in Ids : newest[b] - PageSize < p /\ p <= newest[b]}

\* Published, and above the whole history.
Ahead(b) == {p \in Ids : p <= newest[b] /\ \A q \in Recorded(b) : q < p}

Init ==
  /\ newest \in [Boards -> Nat]
  /\ told = [b \in Boards |-> {p \in Ids : p <= newest[b]}]
  /\ status \in [Boards -> [Ids -> {"none", "SUCCESS"}]]
  /\ \A b \in Boards : Recorded(b) \subseteq {newest[b]}

Publish(b) ==
  /\ newest' = [newest EXCEPT ![b] = @ + 1]
  /\ UNCHANGED <<status, told>>

Tell(b, p) ==
  /\ p \in Ahead(b)
  /\ told' = [told EXCEPT ![b] = @ \cup {p}]
  /\ UNCHANGED <<newest, status>>

Record(b, p, outcome) ==
  /\ p \in Ahead(b)
  /\ Recorded(b) # {} => \A q \in Shown(b) \cap Ahead(b) : q < p => q \in told[b]
  /\ \/ outcome = "SUCCESS" /\ p \in told[b]
     \/ outcome = "FAIL" /\ b \in MayFail
  /\ status' = [status EXCEPT ![b][p] = outcome]
  /\ UNCHANGED <<newest, told>>

Next ==
  \E b \in Boards :
    \/ Publish(b)
    \/ \E p \in Ids : Tell(b, p) \/ \E outcome \in {"SUCCESS", "FAIL"} : Record(b, p, outcome)

Spec == Init /\ [][Next]_<<newest, status, told>>
===============================================================================
