----------------------------- MODULE MCFreeList -----------------------------
(***************************************************************************)
(* FreeList for TLC: headers of two sizes.                                 *)
(***************************************************************************)
EXTENDS FreeList

CONSTANTS SmallNodes, LargeNodes

MCNodes == SmallNodes \cup LargeNodes
MCNodeSize(a) == IF a \in SmallNodes THEN 1 ELSE 2
=============================================================================
