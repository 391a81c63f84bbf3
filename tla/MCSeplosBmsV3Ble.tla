-------------------------- MODULE MCSeplosBmsV3Ble --------------------------
(***************************************************************************)
(* Instances of SeplosBmsV3Ble for TLC.                                    *)
(***************************************************************************)
EXTENDS SeplosBmsV3Ble

\* One single-notification and one two-notification system block at Mtu 60.
MCShortTable == << Cmd(0, "EIC"), Cmd(0, "EIA"), Cmd(224, "SPA2") >>
MCFullTable == SEPLOS_V3_SYSTEM_COMMANDS

MCOnePack == << 1 >>
\* A pack with the default address 0x00 among the others.
MCThreePacks == << 2, 0, 16 >>
=============================================================================
