--------------------------- MODULE MCPaperAccount ---------------------------
(* PaperAccount on small instances.  A position has two parts: TP1 sells     *)
(* one of them, TP2 or another reason the rest.                              *)
EXTENDS PaperAccount, TLC

CONSTANTS c1, c2, m1, m2

TwoCandidates == {c1, c2}
TwoMints == {m1, m2}

(* Each candidate trades its own mint. *)
OwnMint == c1 :> m1 @@ c2 :> m2

(* Two pools of one mint. *)
SharedMint == c1 :> m1 @@ c2 :> m1
=============================================================================
