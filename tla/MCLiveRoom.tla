----------------------------- MODULE MCLiveRoom -----------------------------
(* Small instance of LiveRoom for TLC.                                     *)
EXTENDS LiveRoom
=============================================================================
