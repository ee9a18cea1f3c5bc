------------------------------ MODULE MCTftpWrite ------------------------------
(* TftpWrite for TLC: chunks of two bytes and few of them.  The clients and *)
(* the ports are interchangeable.                                          *)
EXTENDS TftpWrite, TLC

Symmetry == Permutations(Clients) \cup Permutations(Ports)
=============================================================================
