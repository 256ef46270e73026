--------------------------- MODULE MCSession ---------------------------
(* Small instance: three sentences, the second with a reference of one     *)
(* letter; every message but the shortest ones may be cut.                 *)
EXTENDS Session

MCRefLen == << 2, 1, 2 >>
MCLong ==
  {"new_sentence", "source", "no-prefix", "prefix", "typed", "update",
   "reference", "close", "ok", "answer"}
=========================================================================
