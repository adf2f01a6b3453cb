--------------------------- MODULE MCBundlePull ---------------------------
(***************************************************************************)
(* TLC instances of BundlePull.                                            *)
(***************************************************************************)
EXTENDS BundlePull, TLC

CONSTANTS x, y, good, fine, junk

\* Three assets; the last two want different files at one destination.
MCDests  == <<x, y, y>>
MCSums   == <<good, good, fine>>

\* Two assets with destinations of their own.
TwoDests == <<x, y>>
TwoSums  == <<good, good>>

Symmetry == Permutations(Threads)
=============================================================================
