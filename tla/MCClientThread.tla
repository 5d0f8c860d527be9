---------------------------- MODULE MCClientThread ----------------------------
(* Small instances of ClientThread.                                        *)
EXTENDS ClientThread, TLC

CONSTANTS adm, bob

\* The admin's name and another one, of one character each.
MCChar == {adm, bob}
MCAdminName == <<adm>>
MCBob == {bob}
MCNone == {}

MCSymmetry == Permutations(Thread) \cup Permutations(Node) \cup Permutations(Client)

\* The fair behaviours in which nobody is in a hurry: clients connect, send and hang
\* up only while every thread waits in recv, so no two threads run at the same time.
MCUnhurried == (\E t \in Thread : Run(t)) \/ ((\A t \in Thread : pc[t] \in {"none", "recv"}) /\ Next)
MCUnhurriedSpec == Init /\ [][MCUnhurried]_vars /\ Fairness
=============================================================================
