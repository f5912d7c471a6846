------------------------- MODULE MCServiceDirectory -------------------------
(* A small directory for TLC: two module files, every odd entry.   *)
EXTENDS ServiceDirectory, TLC

CONSTANTS n1, n2, b1, b2

MCNames == {n1, n2}
MCBuilds == {b1, b2}
MCOddities == {NotSo, BadName, Unreadable}
=============================================================================
