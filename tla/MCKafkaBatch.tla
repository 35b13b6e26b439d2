---------------------------- MODULE MCKafkaBatch ----------------------------
(* Two goroutines write three events in batches of up to two, sent at most  *)
(* twice by a client that tries twice: full and partial batches, a stale    *)
(* callback that meets the buffer after the one it was armed for, and       *)
(* copies from every attempt of every call.                                 *)
EXTENDS KafkaBatch
=============================================================================
