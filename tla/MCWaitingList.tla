--------------------------- MODULE MCWaitingList ---------------------------
(* The instances of the waiting list that TLC checks.                        *)
EXTENDS WaitingList

CONSTANTS ann, bob, cid, dan

MCPlayers == {ann, bob, cid, dan}
MCAlways == {ann}
MCPatient == {bob, cid}
MCVarying == {dan}
MCNone == {}
=============================================================================
