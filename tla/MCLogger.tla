------------------------------- MODULE MCLogger -------------------------------
(* A small instance of Logger.                                             *)
EXTENDS Logger, TLC

CONSTANTS main, c1, c2, nm, n1

MCNameLength == [n \in Name |-> IF n = nm THEN 4 ELSE 1]
=============================================================================
