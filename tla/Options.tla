------------------------------- MODULE Options -------------------------------
(***************************************************************************)
(* What a function returns when it finds nothing, for the modules that     *)
(* search sequences.                                                       *)
(***************************************************************************)
EXTENDS Integers, SequencesExt, FiniteSetsExt

CONSTANTS
  NULL

\* The first member of a sequence that fits, or NULL.
First(seq, Fits(_)) ==
  LET fitting == SelectSeq(seq, Fits) IN IF fitting = <<>> THEN NULL ELSE Head(fitting)

=============================================================================
