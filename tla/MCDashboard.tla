---------------------------- MODULE MCDashboard ----------------------------
(* Instances of OrderPayment under the calendar of Dashboard, for TLC. *)
EXTENDS MCOrderPayment, Dashboard

\* g1 starts on hold; g2 earns nothing from some time on.
AccountOps == {<<"releaseMinor", g1>>, <<"withdraw", g2>>}

=============================================================================
