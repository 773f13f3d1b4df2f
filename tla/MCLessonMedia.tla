---------------------------- MODULE MCLessonMedia ----------------------------
(* An instance of LessonMedia for TLC: the bounds are in the configurations. *)
EXTENDS LessonMedia
=============================================================================
