-------------------------- MODULE MCServerShutdown --------------------------
(***************************************************************************)
(* An instance of ServerShutdown for TLC: the lane with the recoveries and *)
(* one other lane, and two requests that run jobs by hand.                 *)
(***************************************************************************)
EXTENDS ServerShutdown

CONSTANTS main, recent, r1, r2

MCLane == {main, recent}
MCRequest == {r1, r2}
=============================================================================
