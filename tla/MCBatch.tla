---------------------------- MODULE MCBatch -----------------------------
(* Small instance: three threads and four sentences. *)
EXTENDS BatchTranslation
=========================================================================
