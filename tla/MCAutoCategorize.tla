-------------------------- MODULE MCAutoCategorize --------------------------
(* Instances of AutoCategorize for TLC. *)
EXTENDS AutoCategorize

CONSTANTS j1, j2, j3, t1, t2, t3, u1, u2, c1, c2, d1, k1, k2

\* Two users: t1 and t2 of the first share their texts, t3 is of the second.  The
\* first has shared c1 with the second, whose own d1 it does not see.
TwoUsersOwner == t1 :> u1 @@ t2 :> u1 @@ t3 :> u2
TwoUsersKey   == t1 :> k1 @@ t2 :> k1 @@ t3 :> k2
TwoUsersCats  == u1 :> {c1} @@ u2 :> {c1, d1}

\* One user with one transaction, for instances with many runs.
OneUserOwner == t1 :> u1
OneUserKey   == t1 :> k1
OneUserCats  == u1 :> {c1}

=============================================================================
