----------------------------- MODULE MCLiveView -----------------------------
(* Instances of the live view for TLC. *)
EXTENDS LiveViewProperties

CONSTANTS main, bev
OneView == <<main>>
TwoViews == <<main, bev>>
=============================================================================
