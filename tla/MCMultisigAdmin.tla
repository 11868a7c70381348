--------------------------- MODULE MCMultisigAdmin ---------------------------
EXTENDS MultisigAdmin, TLC

MCThresholdArgs == {<<1, 2>>, <<1, 1>>}

(* 2 of 2 and 2 of 3; a zero threshold, one that cannot be reached, and a  *)
(* key that is listed twice.                                               *)
MCConstructorArgs ==
  {<<<<1, 2>>, 2>>, <<<<1, 2, 3>>, 2>>,
   <<<<1, 2>>, 0>>, <<<<1, 2>>, 3>>, <<<<1, 1>>, 2>>}

(* The slots are alike, and so are the versions. *)
Symmetry == Permutations(Slots) \cup Permutations(Versions)
=============================================================================
