---------------------------- MODULE MCSessionLife ----------------------------
(* SessionLife on a small instance.                                         *)
EXTENDS SessionLife

CONSTANTS b1, b2

\* A tap is one message, a key is two.
MCLength == [b \in {b1, b2} |-> IF b = b1 THEN 1 ELSE 2]
==============================================================================
