---------------------------- MODULE MCImageCosts ----------------------------
(* ImageCosts for TLC: an image and an upscale, two runs of the alerts, and*)
(* a budget that one charge brings to its first threshold.                 *)
EXTENDS ImageCosts, TLC

CONSTANTS image, upscale, s1, s2
=============================================================================
