----------------------- MODULE MCEndorsementsExample ------------------------
(***************************************************************************)
(* The program as it stands; all constants are its own.                    *)
(***************************************************************************)
EXTENDS EndorsementsExample

MCDeltas == 1..4 \cup Changes
=============================================================================
