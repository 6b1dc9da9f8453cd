---------------------------- MODULE MCFileFollow ----------------------------
(* A file of up to four bytes that is cut or replaced up to twice. *)
EXTENDS FileFollow
=============================================================================
