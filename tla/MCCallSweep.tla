---------------------------- MODULE MCCallSweep ----------------------------
(* Bounds for TLC: an export and another target, one indirect call site    *)
(* that reaches both and one direct call site of the export.               *)
EXTENDS CallSweep, TLC

CONSTANTS t1, t2, export, other, site1, site2

MCThreads == {t1, t2}
MCExports == {export}
MCOthers == {other}
MCSites == {site1, site2}
MCCallsAt == site1 :> {export, other} @@ site2 :> {export}

(* Threads are interchangeable: nothing orders them.                       *)
MCSymmetry == Permutations(MCThreads)
============================================================================
