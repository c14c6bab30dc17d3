-------------------------- MODULE MCReconciliation --------------------------
(* Instances of Reconciliation for TLC. *)
EXTENDS Reconciliation, TLC

CONSTANTS u1, u2, ha, hb, hc, a, b, c, b2, sa, sb, ga, gb

\* User 1 has three transactions: one of an imported statement without a bank
\* account, one of an account and a statement, and one that lost both when its
\* account was removed.  User 2 imported the joint account as well, has the
\* second transaction under the same hash, and shares it with user 1.
Owners     == (a :> u1) @@ (b :> u1) @@ (c :> u1) @@ (b2 :> u2)
Keys       == (a :> ha) @@ (b :> hb) @@ (c :> hc) @@ (b2 :> hb)
OnPaper    == (a :> sa) @@ (b :> sb) @@ (c :> Unset) @@ (b2 :> Unset)
AtBank     == (a :> Unset) @@ (b :> gb) @@ (c :> Unset) @@ (b2 :> ga)
Shared     == (u1 :> {a, b, c, b2}) @@ (u2 :> {b2})

Interchangeable == Permutations(Calls)

=============================================================================
