------------------------------ MODULE MCOutbox ------------------------------
(* Outbox on small instances.  Two workers are two processes whose lifetimes *)
(* overlap (one that lost its runtime lease and one that took over).         *)
EXTENDS Outbox

CONSTANTS k1, k2

(* k1 is a daily report, k2 an alert whose type is suppressed. *)
AllKeys == {k1, k2}
BlockedKeys == {k2}
ReportKeys == {k1}
=============================================================================
