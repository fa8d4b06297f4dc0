------------------------- MODULE MCAuthRegistration -------------------------
(* Model checking of AuthRegistration.  The versions have different models,  *)
(* and the second catalogue gives every version another set.                 *)
EXTENDS AuthRegistration

CONSTANTS m1, m2

MCModels == {m1, m2}

MCModelsOf(v, c) ==
  CASE v = 1 /\ c = 0 -> {m1}
    [] v = 1 /\ c # 0 -> {m1, m2}
    [] v # 1 /\ c = 0 -> {m2}
    [] v # 1 /\ c # 0 -> {}
=============================================================================
