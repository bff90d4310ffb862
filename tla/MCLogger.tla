------------------------------ MODULE MCLogger ------------------------------
(***************************************************************************)
(* Two threads, two levels and one slot.                                   *)
(***************************************************************************)
EXTENDS Logger
=============================================================================
