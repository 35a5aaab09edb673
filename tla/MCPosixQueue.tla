---------------------------- MODULE MCPosixQueue ----------------------------
(***************************************************************************)
(* PosixQueue for TLC: two producers and a consumer on a queue of two      *)
(* slots, and a second of three ticks.  The clock starts at 1, so that the *)
(* deadline's carry is missed by a call of two ticks made at once, and     *)
(* taken by one made a tick later.  Each producer puts a value of its own, *)
(* so that the order shows.                                                *)
(***************************************************************************)
EXTENDS PosixQueue, TLC

CONSTANTS p1, p2, v1, v2

MCPuts == (p1 :> {v1}) @@ (p2 :> {v2})
MCTimeouts == {0, 2}
=============================================================================
