------------------------------- MODULE MCSlab -------------------------------
(* The instance of the slab allocator for TLC: the eight classes and twenty  *)
(* units of slab_create.                                                    *)
EXTENDS Slab, TLC

CONSTANTS h1, h2, h3

TwoHandles   == {h1, h2}
ThreeHandles == {h1, h2, h3}

CreateNums == <<1, 1, 1, 1, 8, 4, 2, 1>>   \* slab_max_num_array

\* Sizes for the last class but one, which has two units, and for the last,
\* which has one: what these cannot serve goes to malloc.
LargeSizes == {500, 1000}

Symmetric == Permutations(Handles)
=============================================================================
