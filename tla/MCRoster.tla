------------------------------- MODULE MCRoster -------------------------------
(* A small instance of Roster: a name of one character and a longer one    *)
(* that starts with it, so that a length that is not the name's makes the   *)
(* one of the other.                                                       *)
EXTENDS Roster, TLC

CONSTANTS a, b

MCCharacter == {a, b}
MCName == {<<a, NUL>>, <<a, b>>}
\* With both of them no property says anything any more.
MCUndecided == ~ (overwritten /\ crossed)

MCSymmetry == Permutations(Client)
=============================================================================
