------------------------------ MODULE MCConnection -----------------------------
(* Small instances of Connection. *)
EXTENDS Connection, TLC

CONSTANTS m1, m2, m3

MCTwo       == {m1, m2}
MCThree     == {m1, m2, m3}
MCSingle    == {"single"}
MCBoth      == {"single", "shared"}
MCLogin     == {"close", "refuse"}
MCAccept    == {"close", "accept"}
MCOnlyRefuse == {"refuse"}
MCSymmetry  == Permutations(MCThree)
===============================================================================
