------------------------------ MODULE MCCleaner ------------------------------
(* pip holds f, a folder s with g, and a link l to keep; tmp holds the       *)
(* folder a with k and the link b to the folder home; home holds keep and,   *)
(* as another name of g, g2; log holds z and a folder j with i.  Others may  *)
(* make new in s.                                                            *)
EXTENDS Cleaner

MCPath == {"pip", "f", "s", "g", "l", "new", "tmp", "a", "k", "b", "home", "keep",
           "g2", "log", "z", "j", "i"}
MCParent == [p \in MCPath |->
  CASE p \in {"f", "s", "l"} -> "pip" [] p \in {"g", "new"} -> "s"
    [] p \in {"a", "b"} -> "tmp" [] p = "k" -> "a" [] p \in {"keep", "g2"} -> "home"
    [] p \in {"z", "j"} -> "log" [] p = "i" -> "j" [] OTHER -> p]
MCKind == [p \in MCPath |->
  CASE p \in {"pip", "s", "tmp", "a", "home", "log", "j"} -> "dir"
    [] p \in {"l", "b"} -> "link" [] OTHER -> "file"]
MCTarget == [p \in MCPath |-> CASE p = "l" -> "keep" [] p = "b" -> "home" [] OTHER -> p]
MCIno == [p \in MCPath |-> IF p = "g2" THEN "g" ELSE p]
MCLen == [p \in MCPath |->
  CASE p = "f" -> 1 [] p \in {"g", "g2"} -> 2 [] p = "l" -> 4 [] p = "k" -> 8
    [] p = "z" -> 16 [] p = "b" -> 32 [] p = "new" -> 64 [] p = "i" -> 128 [] p = "j" -> 512 [] p = "keep" -> 256
    [] OTHER -> 0]
=============================================================================
