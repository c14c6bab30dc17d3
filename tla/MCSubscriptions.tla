--------------------------- MODULE MCSubscriptions ---------------------------
(* Instances of Subscriptions for TLC. *)
EXTENDS Subscriptions, TLC

CONSTANTS s1, s2, x, z, p, q, m

\* Two payments to one merchant; one carries its mandate, the other names the
\* merchant as the counterparty only.
Descriptions   == (x :> p) @@ (z :> q)
Counterparties == (x :> Unset) @@ (z :> p)
Mandates       == (x :> m) @@ (z :> Unset)
Ibans          == (x :> Unset) @@ (z :> Unset)

Interchangeable == Permutations(Calls) \cup Permutations(Subs)
=============================================================================
