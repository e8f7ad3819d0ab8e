---------------------------- MODULE MCEventQueue ----------------------------
(* Finite instances of EventQueue; the constants are numbers, given in the *)
(* configurations.                                                         *)
EXTENDS EventQueue
=============================================================================
