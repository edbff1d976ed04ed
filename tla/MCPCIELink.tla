----------------------------- MODULE MCPCIELink -----------------------------
(* Small instances of PCIELink for TLC. *)
EXTENDS PCIELink, TLC

CONSTANTS up, down

MCLinks == {up, down}
ThreeOne == up :> 3 @@ down :> 1
ThreeTwo == up :> 3 @@ down :> 2
ShortLong == "req" :> 1 @@ "resp" :> 2
=============================================================================
