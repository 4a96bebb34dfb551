---------------------------- MODULE MCOnboarding ----------------------------
(* Two applications that name the same e-mail.                              *)
EXTENDS Onboarding, TLC
CONSTANTS a1, a2, e1
MCEmailOf == (a1 :> e1) @@ (a2 :> e1)
=============================================================================
