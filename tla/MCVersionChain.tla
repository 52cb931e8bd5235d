--------------------------- MODULE MCVersionChain ---------------------------
(***************************************************************************)
(* Small instances of VersionChain for TLC.                                *)
(***************************************************************************)
EXTENDS VersionChainRefinement, VersionChainInv, TLC

CONSTANTS k1, k2, empty, a, b, s1, s2, w1, w2

\* One writer per scan: two scans of two processes against one database.
ScanPerWriter == w1 :> s1 @@ w2 :> s2

\* All writers are goroutines of one scan.
OneScan == [w \in Writers |-> s1]

It(k, c) == [key |-> k, content |-> c]

\* Two resources, pages that list them in either order.
CrossPages == {<<It(k1, a), It(k2, a)>>, <<It(k2, b), It(k1, b)>>}

\* A page that repeats a resource, pages of one and of two resources.
MixedPages == {<<It(k1, a), It(k1, b)>>, <<It(k1, empty)>>,
               <<It(k2, empty), It(k1, empty)>>, <<It(k1, b), It(k2, a)>>}

\* One resource per page, two contents.
TwoPages == {<<It(k1, empty)>>, <<It(k1, a)>>}

\* Pages of one or two resources, none repeated.
DistinctPages == {<<It(k1, empty)>>, <<It(k1, a)>>, <<It(k2, a), It(k1, a)>>}

\* Writers are interchangeable (safety runs only).
WriterSymmetry == Permutations(Writers)
=============================================================================
