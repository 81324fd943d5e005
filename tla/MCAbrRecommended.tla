-------------------------- MODULE MCAbrRecommended --------------------------
(* A three-rung ladder for TLC.  At 4/5 headroom a reported 3, 6 or 16 fits *)
(* rung 0, 1 or 2; the last lets an average fit rung 2 beside a low sample.  *)
EXTENDS AbrRecommended, TLC

MCBitrate == 0 :> 2 @@ 1 :> 4 @@ 2 :> 8

\* 0: the SDK recommends nothing.
MCRecommendations == {0, 3, 6, 16}
=============================================================================
