--------------------------- MODULE MCOrgWorkspace ---------------------------
EXTENDS OrgWorkspace, TLC

MCPresets == "strict" :> "a"

(* Configurations share no row with the rest; onboarding and the demo meet in
   their sessions. *)
MCWorkloads ==
  {ConfigKinds, OnboardingKinds, {"sample", "chat"}, DemoKinds}

Perms == Permutations(Req)
=============================================================================
