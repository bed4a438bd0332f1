---------------------------- MODULE MCEncryption ----------------------------
(***************************************************************************)
(* Two clients with a key each; words of three bits, so that sums of offset*)
(* and length overflow.                                                    *)
(***************************************************************************)
EXTENDS EncryptionAdapter

CONSTANTS c1, c2, k1, k2

MCKeyOf == [c \in Clients |-> IF c = c2 THEN k2 ELSE k1]

MCData == {<<>>, <<1, 2, 3, 4>>}

\* Whole, in range, too long, and two sums that wrap around.
MCOffsets == {0, 2, 7}
=============================================================================
