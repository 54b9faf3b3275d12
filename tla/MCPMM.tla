------------------------------- MODULE MCPMM -------------------------------
(* A small machine: four or five frames and a handful of firmware maps.     *)
EXTENDS PMM

EfiLoaderData == 2

D(b, n, t) == [base |-> b, pages |-> n, type |-> t]
Conv == EfiConventionalMemory

\* Page 0 usable or not, one region or several, a hole, an empty region, a
\* region of another type between two usable ones, no usable memory at all.
MCMaps ==
    { <<D(0, 4, Conv)>>,
      <<D(0, 1, Conv), D(1, 1, EfiLoaderData), D(2, 2, Conv)>>,
      <<D(3, 1, Conv), D(1, 2, Conv), D(0, 1, EfiLoaderData)>>,
      <<D(1, 3, EfiLoaderData)>>,
      <<D(2, 1, Conv), D(1, 0, Conv)>> }

MCWords == {0, 2, 3}
=============================================================================
