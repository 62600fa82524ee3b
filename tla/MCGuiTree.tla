------------------------------ MODULE MCGuiTree ------------------------------
(* r holds d and e; d holds x and y; x holds g; e holds h.                   *)
EXTENDS GuiTree

MCPath == {"r", "d", "e", "h", "x", "y", "g"}
MCParent == [p \in MCPath |->
  CASE p \in {"d", "e", "r"} -> "r" [] p \in {"x", "y"} -> "d"
    [] p = "g" -> "x" [] p = "h" -> "e"]
MCOwn == [p \in MCPath |->
  CASE p = "r" -> 1 [] p = "d" -> 2 [] p = "e" -> 4 [] p = "h" -> 8
    [] p = "x" -> 16 [] p = "y" -> 32 [] p = "g" -> 64]

=============================================================================
