--------------------------- MODULE MCFaceitEvents ---------------------------
(* FaceitEvents with two deliveries in hand at a time *)
EXTENDS FaceitEvents

CONSTANTS h1, h2
=============================================================================
