--------------------------- MODULE MCSeplosBmsBle ---------------------------
(***************************************************************************)
(* Instances of SeplosBmsBle for TLC.                                      *)
(***************************************************************************)
EXTENDS SeplosBmsBle

\* The answers of the recorded 16 cell BMS, and the result of a switch command.
MCAnswerSize ==
  [settings |-> 179, manufacturer |-> 46, single_machine |-> 116, parallel |-> 58,
   mosfet_control |-> 11]
=============================================================================
