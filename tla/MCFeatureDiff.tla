---------------------------- MODULE MCFeatureDiff ----------------------------
(***************************************************************************)
(* An instance of FeatureDiff for TLC: four weights, five hashes (the last *)
(* collides with the first), up to three features on either path.          *)
(***************************************************************************)
EXTENDS FeatureDiff

MCRawFeatures == 0 .. 4
===============================================================================
