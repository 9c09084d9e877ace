------------------------------ MODULE MCRunLoop ------------------------------
(* Values of the constants of RunLoop for model checking. *)
EXTENDS RunLoop

TwoTimers == {1, 2}

=============================================================================
