--------------------------- MODULE MCJsonVisitor ---------------------------
(***************************************************************************)
(* A small instance of JsonVisitor for TLC.                                *)
(***************************************************************************)
EXTENDS JsonVisitor

\* A check that passes, charges, or drops with a penalty.
Answers == {Admit(0), Admit(1), Drop("check", 2)}
=============================================================================
