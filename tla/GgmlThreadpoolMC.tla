-------------------------- MODULE GgmlThreadpoolMC --------------------------
(***************************************************************************)
(* A pool of three threads, which computes graphs with one to three of     *)
(* them.  A graph has two products with an empty node in between; two      *)
(* threads share eight chunks, three threads get one each.                 *)
(***************************************************************************)
EXTENDS GgmlThreadpool

MCCplanThreads == 1..4
MCEmpty        == {1}

=============================================================================
