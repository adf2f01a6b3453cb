--------------------------- MODULE MCBundleStore ---------------------------
(***************************************************************************)
(* TLC instances of BundleStore.                                           *)
(***************************************************************************)
EXTENDS BundleStore, TLC

CONSTANTS n1, s1, s2, a, b

\* Source directories with base names of their own.
OwnSegs == (s1 :> a) @@ (s2 :> b)

\* One name, installed from the one or the other directory.
OneNameWants == {<<n1, s1>>, <<n1, s2>>}

\* One directory of one name.
OneWant == {<<n1, s1>>}

\* The second of three commits breaks the manifest, the third mends it.
SecondBroken == {<<s1, 2>>}
NoneBroken   == {}

Symmetry == Permutations(Threads)
=============================================================================
