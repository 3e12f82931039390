--------------------------- MODULE MCControlPanel ---------------------------
(* Two pages, of which one reloads and connects again. *)
EXTENDS ControlPanel
CONSTANTS p1, p2

TwoPages == {p1, p2}
OneReloads == [p \in TwoPages |-> IF p = p1 THEN 2 ELSE 1]
=============================================================================
