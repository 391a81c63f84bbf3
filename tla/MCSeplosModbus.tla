--------------------------- MODULE MCSeplosModbus ---------------------------
(***************************************************************************)
(* Instances of SeplosModbus for TLC: characters are few, a frame has one  *)
(* of data and one of checksum.                                            *)
(***************************************************************************)
EXTENDS SeplosModbus

CONSTANTS short, large

MCFrames == {short, large}
MCChars == [f \in MCFrames |-> IF f = short THEN 4 ELSE 6]
=============================================================================
