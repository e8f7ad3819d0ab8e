----------------------------- MODULE MCRunLoop ------------------------------
(* An instance of RunLoop with all three kinds of loop.                     *)
EXTENDS RunLoop

AllKinds == {"drain", "select", "inline"}
=============================================================================
