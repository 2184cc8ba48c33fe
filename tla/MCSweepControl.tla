--------------------------- MODULE MCSweepControl ---------------------------
(* Bounds for TLC: a guest that returns from every frame, and call sites    *)
(* whose targets are all exports or all something else.                    *)
EXTENDS SweepControl, TLC

CONSTANTS t1, t2, export, other, site1, site2

MCThreads == {t1, t2}
MCExports == {export}
MCOthers == {other}
MCSites == {site1, site2}
MCCallsAt == site1 :> {export} @@ site2 :> {other}

ASSUME MCGuestAssumption == GuestNests
============================================================================
