---------------------------- MODULE MCAuthSession -----------------------------
(* Small instances of AuthSession for TLC. *)
EXTENDS AuthSession, TLC

CONSTANTS c1, c2, c3, a1, home, away

OneTab   == {c1}
AllTabs  == {c1, c2, c3}
OneApi   == {a1}
Home     == {home}
HomeAway == {home, away}

\* Two pages in one browser, the third in another.
OwnerOf == [c \in Tabs |-> IF c = c3 THEN away ELSE home]

Both       == {"password", "google"}
GoogleOnly == {"google"}
Twins      == Permutations({c1, c2})
===============================================================================
