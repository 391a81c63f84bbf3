------------------------------ MODULE PollChain ------------------------------
(***************************************************************************)
(* What a polling client of this repository promises, with the radio and   *)
(* the frames left out: the commands of a fixed queue are asked one at a   *)
(* time and in order, the next one only when the last one was answered,    *)
(* and a chain that stalled is started over, never resumed.                *)
(*                                                                         *)
(* position is the number of commands asked in this chain; waiting says    *)
(* that the command asked last is still under way. The client itself does  *)
(* not know waiting: it is the promise its polling keeps when polls come   *)
(* no faster than the answers.                                             *)
(***************************************************************************)
EXTENDS Naturals

CONSTANT Length  \* number of commands in the queue

VARIABLES online, position, waiting

chain == << online, position, waiting >>

ChainInit == online = FALSE /\ position = 0 /\ waiting = FALSE

\* The connection is up; the first command may already be asked, ahead of the chain.
GoOnline == ~online /\ online' = TRUE /\ position' = 0 /\ waiting' \in BOOLEAN

\* A poll. The command may be lost on its way: then nothing is under way.
Start == online /\ ~waiting /\ position' = 1 /\ waiting' \in BOOLEAN /\ UNCHANGED online

\* An answer releases the next command, if there is one.
Advance ==
  /\ waiting
  /\ position < Length
  /\ position' = position + 1
  /\ waiting' \in BOOLEAN
  /\ UNCHANGED online

\* The last answer came, or what was under way is lost.
Settle == waiting /\ waiting' = FALSE /\ UNCHANGED << online, position >>

GoOffline == online' = FALSE /\ position' = 0 /\ waiting' = FALSE

ChainNext == GoOnline \/ Start \/ Advance \/ Settle \/ GoOffline

ChainSpec == ChainInit /\ [][ChainNext]_chain
=============================================================================
