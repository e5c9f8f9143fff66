---------------------------- MODULE MCConnections ----------------------------
(* Small instances of Connections: three boxes, a connection of two of them and *)
(* one of all, and one box alone.                                               *)
EXTENDS Connections, TLC

CONSTANTS b1, b2, b3, n1

PairAndAll == {{b1}, {b2}, {b1, b2}, {b1, b2, b3}}
AllOnly == {{b1, b2, b3}}
=============================================================================
