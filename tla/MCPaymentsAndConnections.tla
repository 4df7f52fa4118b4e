---------------------- MODULE MCPaymentsAndConnections ----------------------
(* TLC instance of PaymentsAndConnections: one intent, which may be        *)
(* attempted twice, and as many charges; one connection, of which the      *)
(* provider accepts one secret; two keys of the limiter; and two payments  *)
(* of one member, the first of which comes with two payloads.              *)
EXTENDS PaymentsAndConnections, MCPayments

CONSTANTS k, right, anna, t1, t2, b1, b2, b3

GenuineDef == {<<k, right>>}
TransDef == b1 :> t1 @@ b2 :> t1 @@ b3 :> t2
PayerDef == [b \in Bodies |-> anna]
PaidDef == b1 :> 5 @@ b2 :> 7 @@ b3 :> 5
CallbacksDef == ({"CONFIRMATION"} \X Bodies) \cup {<<"VALIDATION", b3>>}

PartsSymmetry == Symmetry \cup Permutations(Records)
=============================================================================
