------------------------------ MODULE MCTftpRead ------------------------------
(* TftpRead for TLC: chunks of two bytes and few of them.                  *)
EXTENDS TftpRead
=============================================================================
