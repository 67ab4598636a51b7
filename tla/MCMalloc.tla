------------------------------ MODULE MCMalloc ------------------------------
(* Malloc for a bounded number of arbitrary calls, from an empty heap and from heaps   *)
(* that a script of malloc and free calls has prepared.                                *)
EXTENDS Malloc

VARIABLES script, calls

MCvars == <<vars, script, calls>>

\* n > 0 stands for a malloc of a chunk of n units, -k for a free of the k-th lowest
\* block.  The scripts leave: a trie with a ring and both subtrees; the same with another
\* root; two tree bins and a large dv; small bins.
Scripts == <<
  <<8, 2, 10, 2, 9, 2, 8, 2, 11, 2, -1, -2, -3, -4>>,
  <<11, 2, 9, 2, 8, 2, 10, 2, 8, 2, -3, -1, -5, -3, -3>>,
  <<7, 2, 13, 2, 9, 2, -1, -2, -3, 2>>,
  <<2, 2, 3, 2, 3, 2, 6, 2, -3, -4, -5, 2>>>>

KthBlock(k) == CHOOSE p \in DOMAIN live : Cardinality({q \in DOMAIN live : q <= p}) = k

MCInit ==
  /\ Init
  /\ \/ script = <<>> /\ calls = 3
     \/ \E k \in DOMAIN Scripts : script = Scripts[k] /\ calls = IF k = 2 THEN 2 ELSE 3

Scripted ==
  /\ script # <<>>
  /\ IF script[1] > 0 THEN Malloc(script[1] * Unit - CHUNK_OVERHEAD)
     ELSE Free(KthBlock(-script[1]))
  /\ script' = Tail(script)
  /\ UNCHANGED calls

Arbitrary ==
  /\ script = <<>> /\ calls > 0
  /\ Next
  /\ calls' = calls - 1
  /\ UNCHANGED script

MCSpec == MCInit /\ [][Scripted \/ Arbitrary]_MCvars

MCCallocs == {<<2, 20>>, <<64, 64>>}
MCMallopts == {<<"M_TRIM_THRESHOLD", 0>>, <<"M_GRANULARITY", 512>>}
MCComallocs == {<<20, 40>>}
=============================================================================
