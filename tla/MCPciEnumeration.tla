-------------------------- MODULE MCPciEnumeration --------------------------
(* Small instances of PciEnumeration for TLC. *)
EXTENDS PciEnumeration

(* A root complex whose two ports have different windows and both I/O, and a *)
(* switch whose upstream and downstream ports have windows and bus numbers.  *)
SomeWindows ==
  [s \in BOOLEAN |->
    IF s THEN {<<0, "mem">>, <<1, "mem">>, <<1, "io">>, <<2, "mem">>}
         ELSE {<<1, "pref">>, <<1, "io">>, <<2, "mem">>, <<2, "io">>}]
SomeBuses == [s \in BOOLEAN |-> IF s THEN {<<1, 3, 4>>} ELSE {}]

(* One window, for the shortest counterexample. *)
OneWindow == [s \in BOOLEAN |-> {<<1, "mem">>}]
NoBuses == [s \in BOOLEAN |-> {}]

(* The registers of these instances have the proportions of the code's. *)
ASSUME Proportions == WindowsFit
=============================================================================
