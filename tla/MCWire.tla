-------------------------------- MODULE MCWire --------------------------------
(* A small instance of Wire, with the lengths of the code scaled down.      *)
EXTENDS Wire

AFrame(type, length, magic, version, slash) ==
    [type |-> type, length |-> length,
     content |-> [magic |-> magic, version |-> version, slash |-> slash]]

MCFrames ==
    { AFrame("login", 2, TRUE, TRUE, FALSE), AFrame("login", 1, TRUE, TRUE, FALSE),
      AFrame("login", 3, TRUE, TRUE, FALSE),
      AFrame("login", 2, FALSE, TRUE, FALSE), AFrame("login", 2, TRUE, FALSE, FALSE),
      AFrame("text", 0, FALSE, FALSE, FALSE), AFrame("text", 1, FALSE, FALSE, TRUE),
      AFrame("text", 2, FALSE, FALSE, FALSE), AFrame("text", 3, FALSE, FALSE, FALSE),
      AFrame("other", 1, FALSE, FALSE, FALSE) }
=============================================================================
