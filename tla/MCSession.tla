------------------------------- MODULE MCSession -------------------------------
(* Small instances of Session. *)
EXTENDS Session, TLC

CONSTANTS y1, y2

MCOne      == {y1}
MCTwo      == {y1, y2}
MCThird    == {3}
MCNobody   == {}
MCSymmetry == Permutations(MCTwo)
===============================================================================
