----------------------------- MODULE MCTwoLayer -----------------------------
(* A chunk of two blocks of two voxels, and bodies that meet it in the     *)
(* ways that differ: a solid that fills it from beyond, a sketch that      *)
(* fills the first block and whose surface runs exactly through the first  *)
(* voxel center of the second, one that misses the chunk, a body without a *)
(* field, and two spheres, fifteen and three times as long as they are     *)
(* thick.  The line of voxels cuts the thin one across near its tip: it    *)
(* meets no voxel center there, though between the two of the first block  *)
(* the field leaps deep below zero.  It runs down the other, the middle of *)
(* which is the middle of the first block.                                 *)
EXTENDS TwoLayer

MCKind ==
  [big |-> "sdf", edge |-> "sketch", far |-> "sdf", cloud |-> "body",
   rod |-> "sphere", long |-> "sphere"]
MCBox ==
  [big |-> <<-2, 6>>, edge |-> <<0, 3>>, far |-> <<-4, -1>>, cloud |-> <<0, 4>>,
   rod |-> <<0, 2>>, long |-> <<-9, 11>>]
MCField ==
  [big |-> [x \in Points |-> Distance(x, 16) - 32],
   edge |-> [x \in Points |-> Greatest(-x, x - 20)],
   far |-> [x \in Points |-> x + 8],
   cloud |-> [x \in Points |-> IF x \in {Center(1), Center(3)} THEN 0 ELSE 1],
   rod |-> [x \in Points |-> IF x = 8 THEN -12 ELSE Distance(x, 8) - 3],
   long |-> [x \in Points |-> IF x = 8 THEN -24 ELSE Distance(x, 8) - 80]]
MCSemiAxes == [rod |-> <<8, 120>>, long |-> <<24, 80>>]
MCGauge ==
  [rod |-> [x \in Points |-> Distance(x, 8) - 3],
   long |-> [x \in Points |-> ((24 * Distance(x, 8)) \div 80) - 24]]
MCProven == {<<"edge", <<0, 2>>>>}
MCMaterial ==
  [big |-> 1, edge |-> 1, far |-> 1, cloud |-> NoMaterial, rod |-> 2, long |-> 2]
MCOwnId == [p \in Producers |-> 0]
MCOverlay == [p \in Producers |-> p \in {"big", "edge"}]
MCFixtures ==
  { <<[producer |-> "big", operation |-> "union"],
      [producer |-> "edge", operation |-> "subtract"]>>,
    <<[producer |-> "long", operation |-> "union"],
      [producer |-> "far", operation |-> "subtract"]>> }
=============================================================================
