------------------------------ MODULE MCPermits -----------------------------
(* Small instances of Permits: the set of everybody and one set per user. *)
EXTENDS Permits, TLC

CONSTANTS a1, a2, a3, global, ann, bob

Places == (a1 :> <<global, ann>>) @@ (a2 :> <<global, ann>>) @@ (a3 :> <<global, bob>>)

MCKeysOf == [a \in Activations |-> Places[a]]

OneEach == [k \in Keys |-> 1]

TwoInAll == [k \in Keys |-> IF k = global THEN 2 ELSE 1]
=============================================================================
