---------------------------- MODULE MCSeplosBms ----------------------------
(***************************************************************************)
(* Instances of SeplosBms for TLC: two devices share an address, a third   *)
(* is told how many cells its BMS really reports.                          *)
(***************************************************************************)
EXTENDS SeplosBms

CONSTANTS first, second, third

MCDevices == {first, second, third}
MCAddress == [d \in MCDevices |-> IF d = third THEN 1 ELSE 0]
MCOverride == [d \in MCDevices |-> IF d = first THEN 0 ELSE IF d = second THEN 16 ELSE 8]

Layout(size, announced, cells) ==
  [size |-> size, announced |-> announced, cells |-> cells, temps |-> 6, other |-> 0]

\* The two frames the comments of on_telemetry_data_ quote.
MCQuoted ==
  { [address |-> 0, layout |-> Layout(81, 16, 16)], [address |-> 0, layout |-> Layout(65, 16, 16)] }

\* Those, a frame that ends inside its first optional value, one that is shorter than its
\* counts say, and an answer that is no telemetry.
MCAnswers ==
  MCQuoted \cup
  { [address |-> 1, layout |-> Layout(52, 12, 8)],
    [address |-> 1, layout |-> Layout(44, 12, 8)],
    [address |-> 0, layout |-> Layout(43, 16, 16)] }
=============================================================================
