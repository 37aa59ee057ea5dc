---------------------------- MODULE MixedBackend ----------------------------
(* The point functions a caller gets under their names: the version in place *)
(* at the moment of the call.                                                *)
EXTENDS Jacobian, Backend

Double(j) == IF "jp_double" \in replaced THEN jp_double_internal(j) ELSE jp_double(j)
Add(j, l) == IF "jp_add" \in replaced THEN jp_add_internal(j, l) ELSE jp_add(j, l)
Neg(j) == IF "jp_neg" \in replaced THEN jp_neg_internal(j) ELSE jp_neg(j)

=============================================================================
