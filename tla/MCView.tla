------------------------------- MODULE MCView -------------------------------
(* View with constants for TLC. *)
EXTENDS View

CONSTANT education

\* Pages of two: two pages of all projects, one page of those for education.
MCCategories == {All, education}
MCOpeningCount == [c \in MCCategories |-> IF c = All THEN 3 ELSE 2]
=============================================================================
