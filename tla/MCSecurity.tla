------------------------------ MODULE MCSecurity ------------------------------
EXTENDS Security
(* A valid threshold, a majority one, and one argument set_threshold       *)
(* refuses for each of its checks.                                         *)
MCThresholdArgs == {<<1, 2>>, <<2, 3>>, <<1, 0>>, <<0, 1>>, <<2, 1>>}
=============================================================================
