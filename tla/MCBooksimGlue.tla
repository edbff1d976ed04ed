--------------------------- MODULE MCBooksimGlue ----------------------------
(* Small instances of BooksimGlue for TLC. *)
EXTENDS BooksimGlue

(* Nodes 1, 2 and 4 at switch 1, node 3 at switch 2. *)
TwoSwitches == <<1, 1, 2, 1>>

(* "a", "b" and "m" compete for the two virtual nodes of switch 1, from two  *)
(* ports; "m" goes to a local and a remote node.  "r" goes to three remote   *)
(* nodes, the other way; its size fills a queue, so that the network refuses *)
(* the third copy.                                                           *)
FourMsgs == {"a", "b", "m", "r"}
TheFrom ==
  [m \in FourMsgs |-> CASE m \in {"a", "m"} -> <<1, 0, 0>> [] m = "b" -> <<1, 1, 0>>
                        [] m = "r" -> <<2, 0, 1>>]
TheDests ==
  [m \in FourMsgs |-> CASE m \in {"a", "b"} -> <<3>> [] m = "m" -> <<1, 3>>
                        [] m = "r" -> <<1, 2, 4>>]
TheSize == [m \in FourMsgs |-> IF m = "b" THEN 1 ELSE 2]
=============================================================================
