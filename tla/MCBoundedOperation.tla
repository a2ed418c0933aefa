------------------------- MODULE MCBoundedOperation -------------------------
(* What the UART receives in the model-checked instance: a line that is     *)
(* split over two events and exceeds the limit in the second, and a short   *)
(* one behind it; the pattern is in both.                                   *)
EXTENDS BoundedOperation

MCInputs == { << <<"x", "x">>, <<"P", "n", "P", "n">> >> }
=============================================================================
