------------------------------- MODULE WriteOnce -------------------------------
(***************************************************************************)
(* What load_or_create_identity of src/identity/keygen.py promises: a cell *)
(* that is written at most once, and whose content is all that a call ever *)
(* answers.                                                                *)
(***************************************************************************)
CONSTANTS Key, NoKey

VARIABLES cell, answers

Init == cell = NoKey /\ answers = {}

Write == cell = NoKey /\ cell' \in Key /\ answers' = answers

Answer == cell \in Key /\ answers' = answers \cup {cell} /\ cell' = cell

Next == Write \/ Answer

Spec == Init /\ [][Next]_<<cell, answers>>
=============================================================================
