--------------------------- MODULE MCOrderPayment ---------------------------
(* Instances of OrderPayment for TLC. *)
EXTENDS OrderPayment, TLC

CONSTANTS buyer, g1, g2, g3, o1, o2, c1, c2, c3, c4

\* buyer was referred by g1, g1 by g2, and g2 by g3; in the instances without
\* g3 generation 3 is missing.
MCChain == buyer :> g1 @@ g1 :> g2 @@ g2 :> g3 @@ g3 :> NoUser
MCReferrer == [u \in Users |-> IF MCChain[u] \in Users THEN MCChain[u] ELSE NoUser]
MCBuyer == [o \in Orders |-> buyer]

NoOps == {}
\* Somebody is flagged or suspended, and somebody changes role, between two
\* confirms.
FlagOps == {<<"flagUser", g2>>, <<"suspendUser", g2>>, <<"markStaff", g3>>}
RoleOps == {<<"markStaff", g1>>, <<"markStaff", g2>>}

CallSymmetry == Permutations(Calls)

=============================================================================
