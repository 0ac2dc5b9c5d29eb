--------------------------- MODULE MCAvailability ---------------------------
(***************************************************************************)
(* Small instances of Availability: two processes, one after the other.    *)
(***************************************************************************)
EXTENDS Availability

MCConclusions == {"healthy", "failing"}
=============================================================================
