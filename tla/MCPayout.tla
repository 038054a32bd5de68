------------------------------ MODULE MCPayout ------------------------------
(* Instances of Payout for TLC. *)
EXTENDS Payout, TLC

CONSTANTS buyer, g1, g2, o1, o2, r1, r2, r3

\* buyer was referred by g1, and g1 by g2.
MCReferrer == buyer :> g1 @@ g1 :> g2 @@ g2 :> NoUser
MCBuyer == [o \in Orders |-> buyer]
\* 30 for g1, 50 for g2.
MCTotal == [o \in Orders |-> 1000]
\* Two months of one day each.
MCPeriods == {<<0, 1>>, <<1, 2>>}

NoOps == {}
\* g1 starts on hold and is released; g2 is suspended.
AccountOps == {<<"releaseMinor", g1>>, <<"suspendUser", g2>>}

=============================================================================
