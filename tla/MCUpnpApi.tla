----------------------------- MODULE MCUpnpApi -----------------------------
(* Instances of UpnpApi for TLC. *)
EXTENDS UpnpApi
=============================================================================
