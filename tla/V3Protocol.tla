----------------------------- MODULE V3Protocol -----------------------------
(***************************************************************************)
(* The request vocabulary of the Seplos BMS V3 Bluetooth component: the    *)
(* register blocks, the two command tables, the bytes each block's answer  *)
(* carries and the bytes each decoder reads out of it.                     *)
(* A block stands for its start register: "EIA" is 0x2000, "PIB" 0x1100.   *)
(***************************************************************************)
EXTENDS Naturals, Sequences

SystemBlocks == {"EIA", "EIB", "EIC", "VIA", "PCT", "SFA", "SPA1", "SPA2"}
PackBlocks == {"PIA", "PIB", "PIC"}
Blocks == SystemBlocks \cup PackBlocks

\* Registers requested per block (SEPLOS_V3_*_LENGTH).
RegCount ==
  [EIA |-> 26, EIB |-> 26, EIC |-> 5, VIA |-> 51, PCT |-> 36, SFA |-> 80,
   SPA1 |-> 53, SPA2 |-> 53, PIA |-> 17, PIB |-> 26, PIC |-> 144]

\* A SeplosV3Command. Function code and register count follow from the block.
\* The ECU answers at address 0x00; the parameters are read from 0xE0.
Devices == 0 .. 255
SystemCommand == [device : {0, 224}, reg_start : SystemBlocks]
PackCommand == [device : Devices, reg_start : PackBlocks]
Command == SystemCommand \cup PackCommand
Cmd(device, block) == [device |-> device, reg_start |-> block]

SEPLOS_V3_SYSTEM_COMMANDS ==
  << Cmd(0, "EIA"), Cmd(0, "EIB"), Cmd(0, "EIC"), Cmd(0, "VIA"),
     Cmd(0, "PCT"), Cmd(0, "SFA"), Cmd(224, "SPA1"), Cmd(224, "SPA2") >>

SEPLOS_V3_PACK_COMMANDS == << Cmd(0, "PIA"), Cmd(0, "PIB"), Cmd(0, "PIC") >>

(***************************************************************************)
(* Data bytes of the answer to a block. Both function codes are asked for  *)
(* 2 * RegCount bytes: 0x04 reads RegCount registers and 0x01 reads        *)
(* 16 * RegCount coils. The count of SFA and PIC is one of coils already,  *)
(* so sixteen times too many are asked for; a BMS answers with those it    *)
(* has, 10 and 18 bytes (docs/pdus/v3/SP05B2312190075-coil-frames.txt:8    *)
(* and :17), or with an exception.                                         *)
(***************************************************************************)
DataBytes ==
  [b \in Blocks |-> CASE b = "SFA" -> 10 [] b = "PIC" -> 18 [] OTHER -> 2 * RegCount[b]]

\* An answer: the command it answers, and whether it is a Modbus exception.
Frame == [cmd : Command, error : BOOLEAN]

\* 3 + data_len + 2 for any length byte.
FrameLengths == { n \in Nat : 5 <= n /\ n <= 260 }

\* Address, function, length (or exception code) and two CRC bytes.
FrameBytes(frame) == 5 + (IF frame.error THEN 0 ELSE DataBytes[frame.cmd.reg_start])

(***************************************************************************)
(* Bytes the decoder of a block needs, and whether it first compares the   *)
(* payload with that number. The EIA and EIB decoders do not.              *)
(***************************************************************************)
BytesRead ==
  [EIA |-> 52, EIB |-> 26, EIC |-> 10, VIA |-> 102, PCT |-> 72, SFA |-> 20,
   SPA1 |-> 106, SPA2 |-> 106, PIA |-> 34, PIB |-> 52, PIC |-> 288]

Guarded == Blocks \ {"EIA", "EIB"}

\* Slip: at least the length of the block instead of exactly it.
PackBlockUpToLength(bytes) == { b \in PackBlocks : bytes >= 2 * RegCount[b] }

\* SeplosBmsV3BlePack::on_frame_data picks its decoder by the length byte.
PackBlockOfLength(bytes) == { b \in PackBlocks : bytes = 2 * RegCount[b] }
=============================================================================
