------------------------------ MODULE MCRs485 ------------------------------
(***************************************************************************)
(* Instances of Rs485 for TLC.                                             *)
(***************************************************************************)
EXTENDS Rs485

CONSTANTS first, second

Telemetry8(address) ==
  [address |-> address,
   layout |-> [size |-> 65, announced |-> 8, cells |-> 8, temps |-> 6, other |-> 0]]

MCOneDevice == {first}
MCTwoDevices == {first, second}
MCAddress == [d \in MCTwoDevices |-> IF d = first THEN 0 ELSE 1]
MCOneAddress == [d \in MCOneDevice |-> 0]
MCNoOverride == [d \in MCTwoDevices |-> 0]
MCOneOverride == [d \in MCOneDevice |-> 0]
MCOneAnswer == { Telemetry8(0) }
\* Answers that are no telemetry count as answers all the same.
Unhandled(address) ==
  [address |-> address,
   layout |-> [size |-> 43, announced |-> 8, cells |-> 8, temps |-> 6, other |-> 0]]
MCTwoAnswers == { Unhandled(0), Unhandled(1) }
MCChars == [f \in MCTwoAnswers |-> 3]
MCOneChars == [f \in MCOneAnswer |-> 4]
=============================================================================
