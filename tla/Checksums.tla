------------------------------ MODULE Checksums ------------------------------
(***************************************************************************)
(* How the three protocols write a request and check an answer: the ASCII  *)
(* frame and the character sum of the RS485 bus, CRC-16/MODBUS of the V3   *)
(* and CRC-16/XMODEM of the V2 Bluetooth frames.                           *)
(***************************************************************************)
EXTENDS Integers, Sequences

-----------------------------------------------------------------------------
(* SeplosModbus: characters and bytes are numbers. *)

\* A uint16_t.
Wrapped(n) == n % 65536

Sum(chars) ==
  LET upTo[n \in 0 .. Len(chars)] == IF n = 0 THEN 0 ELSE Wrapped(upTo[n - 1] + chars[n])
  IN upTo[Len(chars)]

\* ~sum + 1.
chksum(chars) == Wrapped(65535 - Sum(chars) + 1)

\* The sum of the three nibbles of the length, complemented, in front of the length.
lchksum(len) ==
  IF len = 0 THEN 0
  ELSE LET nibbles == (len % 16) + ((len \div 16) % 16) + ((len \div 256) % 16)
       IN Wrapped(Wrapped(65535 - (nibbles % 16) + 1) * 4096 + len)

HexChar(v) == IF v >= 10 THEN 65 + (v - 10) ELSE 48 + v

\* Two characters for each byte, high nibble first.
byte_to_ascii_hex(bytes) ==
  [k \in 1 .. 2 * Len(bytes) |->
     LET byte == bytes[(k + 1) \div 2]
     IN HexChar(IF k % 2 = 1 THEN byte \div 16 ELSE byte % 16)]

\* A char from 128 on is negative where char is signed, as on the hosts of the tests; on
\* an ESP32 it is not.
HexValue(char, signed) ==
  IF signed /\ char >= 128 THEN char - 256 - 48
  ELSE IF char <= 57 THEN char - 48 ELSE (char % 8) + 9

ascii_hex_to_byte(a, b, signed) == (HexValue(a, signed) * 16 + HexValue(b, signed)) % 256

Start == 126   \* '~'
End == 13      \* '\r'

\* SeplosModbus::send. CID1 is 0x46.
Send(version, address, function, value) ==
  LET lenid == lchksum(2)
      data == << version, address, 70, function, lenid \div 256, lenid % 256, value >>
      crc == chksum(byte_to_ascii_hex(data))
  IN << Start >> \o byte_to_ascii_hex(data \o << crc \div 256, crc % 256 >>) \o << End >>

RemoteCrc(chars, signed) ==
  LET at == Len(chars) - 1
  IN ascii_hex_to_byte(chars[at - 3], chars[at - 2], signed) * 256
       + ascii_hex_to_byte(chars[at - 1], chars[at], signed)

DataChars(chars) == SubSeq(chars, 2, Len(chars) - 5)

\* The bytes parse_seplos_modbus_byte_ passes on behind the end of a frame of at least six
\* characters, none when the checksum is wrong.
Parsed(chars, signed) ==
  LET data == DataChars(chars)
  IN IF chksum(data) # RemoteCrc(chars, signed) THEN << >>
     ELSE [k \in 1 .. Len(data) \div 2 |-> ascii_hex_to_byte(data[2 * k - 1], data[2 * k], signed)]

-----------------------------------------------------------------------------
(* The Bluetooth frames: a byte is the set of its bits, a CRC that of its sixteen. *)

Bits(n) == { b \in 0 .. 15 : (n \div 2^b) % 2 = 1 }
Xor(a, b) == (a \ b) \cup (b \ a)
High(word) == { b - 8 : b \in word \cap (8 .. 15) }
Low(word) == word \cap (0 .. 7)

\* One bit of crc16_: shifted to the right, with 0xA001.
ShiftRight(crc) ==
  LET shifted == { b - 1 : b \in crc \ {0} }
  IN IF 0 \in crc THEN Xor(shifted, {15, 13, 0}) ELSE shifted

\* One bit of crc_xmodem: shifted to the left, with 0x1021.
ShiftLeft(crc) ==
  LET shifted == { b + 1 : b \in crc \ {15} }
  IN IF 15 \in crc THEN Xor(shifted, {12, 5, 0}) ELSE shifted

Shift(protocol, crc) == IF protocol = "v2" THEN ShiftLeft(crc) ELSE ShiftRight(crc)
Twice(protocol, crc) == Shift(protocol, Shift(protocol, crc))
Eight(protocol, crc) == Twice(protocol, Twice(protocol, Twice(protocol, Twice(protocol, crc))))

\* SeplosBmsV3Ble::crc16_.
crc16(bytes) ==
  LET after[n \in 0 .. Len(bytes)] ==
        IF n = 0 THEN 0 .. 15 ELSE Eight("v3", Xor(after[n - 1], bytes[n]))
  IN after[Len(bytes)]

\* crc_xmodem of the V2 component.
crc_xmodem(bytes) ==
  LET after[n \in 0 .. Len(bytes)] ==
        IF n = 0 THEN {} ELSE Eight("v2", Xor(after[n - 1], { b + 8 : b \in bytes[n] }))
  IN after[Len(bytes)]

\* Slip: the high byte of the CRC is sent first.
SealV3HighFirst(bytes) == bytes \o << High(crc16(bytes)), Low(crc16(bytes)) >>

\* The end of a V3 frame, as build_modbus_payload_ writes it: low byte of the CRC first.
SealV3(bytes) == bytes \o << Low(crc16(bytes)), High(crc16(bytes)) >>

\* build_modbus_payload_; coils (function 1) are counted by sixteen.
RequestV3(device, function, start, count) ==
  LET number == Wrapped(count * (IF function = 1 THEN 16 ELSE 1))
  IN SealV3(<< Bits(device), Bits(function), Bits(start \div 256), Bits(start % 256),
               Bits(number \div 256), Bits(number % 256) >>)

\* The check of assemble of the V3 component.
CheckedV3(frame) ==
  LET n == Len(frame)
  IN Xor(frame[n - 1], { b + 8 : b \in frame[n] }) = crc16(SubSeq(frame, 1, n - 2))

\* send_command of the V2 component: version 0x10, address 0, CID1 0x46, length, CRC with
\* the high byte first, between 0x7e and 0x0d.
RequestV2(function, payload) ==
  LET body == << Bits(16), {}, Bits(70), Bits(function), Bits(Len(payload) \div 256),
                 Bits(Len(payload) % 256) >> \o payload
  IN << Bits(126) >> \o body \o << High(crc_xmodem(body)), Low(crc_xmodem(body)), Bits(13) >>

\* The checks of assemble of the V2 component: the end marker and the CRC.
CheckedV2(frame) ==
  LET n == Len(frame)
  IN /\ frame[n] = Bits(13)
     /\ Xor({ b + 8 : b \in frame[n - 2] }, frame[n - 1]) = crc_xmodem(SubSeq(frame, 2, n - 3))

-----------------------------------------------------------------------------
(* What a frame is made from, and what may happen to it on its way. *)

Words == { n \in Nat : n <= 65535 }
BytesUpTo(max) == { bytes \in Seq(SUBSET (0 .. 7)) : Len(bytes) <= max }

\* Requests of both components, and answers of a V3 BMS with the CRC at its end: three
\* bytes and as many as one byte counts. A V2 frame has 200 bytes, ten around its payload.
Frames ==
  [protocol : {"v3"}, bytes : BytesUpTo(258)]
    \cup [protocol : {"v3 request"}, device : 0 .. 255, function : {1, 4}, start : Words,
          count : 0 .. 255]
    \cup [protocol : {"v2"}, function : 0 .. 255, payload : BytesUpTo(190)]

FrameOf(input) ==
  CASE input.protocol = "v3" -> SealV3(input.bytes)
    [] input.protocol = "v3 request" ->
         RequestV3(input.device, input.function, input.start, input.count)
    [] input.protocol = "v2" -> RequestV2(input.function, input.payload)

Checked(protocol, frame) == IF protocol = "v2" THEN CheckedV2(frame) ELSE CheckedV3(frame)

\* The position of bit n of a frame within its byte: MODBUS takes the lowest bit of a byte
\* first, XMODEM the highest.
BitOf(protocol, n) == IF protocol = "v2" THEN 7 - (n % 8) ELSE n % 8

Damaged(protocol, frame, bits) ==
  [k \in 1 .. Len(frame) |->
     Xor(frame[k], { BitOf(protocol, n) : n \in { m \in bits : m \div 8 = k - 1 } })]

\* Bits of the frame that neither tell its length nor are the start marker of V2, which
\* the assembler looks at before the length.
Covered(protocol, frame, bits) ==
  \A n \in bits :
    /\ n < 8 * Len(frame)
    /\ (n \div 8) + 1 \notin (IF protocol = "v2" THEN {1, 6, 7} ELSE {2, 3})
=============================================================================
