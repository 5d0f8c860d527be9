------------------------------ MODULE MCUserList ------------------------------
(* Small instances of UserList.                                            *)
EXTENDS UserList, TLC

CONSTANTS a

\* One name, and the login that carries it.
MCChar == {a}
MCName == [i \in 1..NameCap |-> a]
MCLogins == {[buf |-> MCName, size |-> NameCap]}
MCLookups == {MCName}
MCNone == {}

\* Threads, cells and sockets are interchangeable: nothing chooses among them.
MCSymmetry == Permutations(Thread) \cup Permutations(Node) \cup Permutations(Sock)
=============================================================================
