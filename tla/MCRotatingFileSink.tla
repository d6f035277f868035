------------------------ MODULE MCRotatingFileSink ------------------------
(* Two or three files of three bytes, and one thread that rotates. *)
EXTENDS RotatingFileSink

MCSize == <<2, 1, 2, 4, 1>>
=============================================================================
