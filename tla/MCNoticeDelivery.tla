--------------------------- MODULE MCNoticeDelivery ---------------------------
(* Instances of NoticeDelivery for TLC. *)
EXTENDS NoticeDelivery

CONSTANTS r1, r2, api

OneRun  == {r1}
TwoRuns == {r1, r2}
SwapRuns == Permutations(TwoRuns)

M == -1   \* the schedule marker

\* A first line that fills the message with its heading, one that just fits beside
\* nothing (15), one that takes a message of its own (17) and one that no message
\* holds (20).  One text has no marker and one begins with it, so that two images
\* make a text with both parts or two markers.
MCTexts == {<<9, 0, 15>>, <<M, 17, 20>>}

Plain  == <<"a", "b">>
Same   == <<"a", "a">>
NoName == <<"", "b">>
AllNames == {Plain, Same, NoName}
===============================================================================
