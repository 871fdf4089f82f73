----------------------------- MODULE MCNatTable -----------------------------
(* NatTable for TLC: rules that share buckets and rules that do not.        *)
EXTENDS NatTable, TLC

CONSTANTS r1, r2, r3

TwoRules == {r1, r2}
SameBucket == r1 :> 1 @@ r2 :> 1

ThreeRules == {r1, r2, r3}
DstBuckets == r1 :> 1 @@ r2 :> 1 @@ r3 :> 2
SrcBuckets == r1 :> 1 @@ r2 :> 2 @@ r3 :> 1
=============================================================================
