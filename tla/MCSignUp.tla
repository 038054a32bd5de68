------------------------------ MODULE MCSignUp ------------------------------
(* Instances of SignUp for TLC. *)
EXTENDS SignUp, TLC

CONSTANTS c1, c2, c3

\* The root of the seeded tree leaves and comes back; D becomes staff.
Meanwhile == {<<"withdraw", 1>>, <<"markStaff", 4>>, <<"flagUser", 1>>}

=============================================================================
