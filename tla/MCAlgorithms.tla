------------------------------ MODULE MCAlgorithms ------------------------------
\* Shards of one to three tensors that the parts cut evenly, unevenly or not at all; as in
\* any real shard there are at least as many rows as parts.
EXTENDS Algorithms

T(rows, width) == [rows |-> rows, width |-> width]
MCShapes == {<<T(5, 1)>>, <<T(4, 3), T(3, 1)>>, <<T(3, 1), T(6, 2)>>,
             <<T(3, 1), T(0, 1), T(5, 2)>>}
MCCountLists == {<<5, 3, 3, 1>>, <<1, 1, 1>>, <<7, 2, 2, 2>>, <<10, 4, 1>>}
\* A small float16 of three binades with the floor a sixth of its first step, and
\* rows whose scales are 0, subnormal, in each binade, at its border and too large.
MCHalfSteps == <<6, 12, 24>>
MCRows == {<<0, 0, 0, 0, 0>>, <<7, -3, 100, 1, -1>>, <<1, 2, 3>>, <<-9, 0, 4, 4, 2, 50, -51>>,
           <<-36855, 36870, 12289, -5, 24575, 6143>>, <<49139, 49140, -49128, 0>>,
           <<344000, -30001, 343960, 171000, 86000, 1234, -80000>>}
===============================================================================
