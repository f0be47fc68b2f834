--------------------------- MODULE MCTransformCache ---------------------------
(***************************************************************************)
(* An instance of TransformCache for TLC: module a imports module b; one    *)
(* caller asks for a, the other for either.                                 *)
(***************************************************************************)
EXTENDS TransformCache, TLC

CONSTANTS r1, r2, a, b

AImportsB == (a :> {a, b}) @@ (b :> {b})
OneForA == (r1 :> {a}) @@ (r2 :> {a, b})
=============================================================================
