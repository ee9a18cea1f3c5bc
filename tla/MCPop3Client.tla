----------------------------- MODULE MCPop3Client -----------------------------
(* Pop3Client for TLC: a mail with a text of two paragraphs and a dot, one   *)
(* with nothing after its headers, and one without the line after them.     *)
EXTENDS Pop3Client

SomeMails == {<<"header", "blank", "text", "blank", "dot">>,
              <<"header", "header", "blank">>, <<"header">>}
=============================================================================
