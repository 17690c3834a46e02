-------------------------- MODULE MCCampaignLaunch --------------------------
(***************************************************************************)
(* Finite instances of CampaignLaunch.                                     *)
(***************************************************************************)
EXTENDS CampaignLaunch, TLC

\* Launch commands, appliers, cards and slots are interchangeable.
Symmetry == Permutations(Launches) \cup Permutations(Appliers)
            \cup Permutations(Cards) \cup Permutations(Slots)
=============================================================================
