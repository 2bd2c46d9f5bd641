---------------------------- MODULE MCKakaoToken ----------------------------
(* Small instances of KakaoToken for TLC. *)
EXTENDS KakaoToken, TLC

CONSTANTS b1, c1, a1

OneBatch   == {b1}
OneCron    == {c1}
OneResend  == {a1}

TokenFaults == AllFaults \ {"noExpiry"}
LiveFaults  == {"answer", "write", "noExpiry"}
===============================================================================
