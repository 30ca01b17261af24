---------------------------- MODULE MCSupervisor ----------------------------
(* Model-checking instance of Supervisor: up to three actors exit on      *)
(* their own, so exits race the starts, the select and the abort loop, and *)
(* three tasks can be ready together when select_all first looks.         *)
EXTENDS Supervisor

MCMaxExits == 3
=============================================================================
