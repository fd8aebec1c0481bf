------------------------- MODULE MCExternalDelivery -------------------------
(* Instances of ExternalDelivery for TLC.                                  *)
EXTENDS ExternalDelivery
=============================================================================
