---------------------------- MODULE PacketStream ----------------------------
(***************************************************************************)
(* Packets on a byte stream: types.rs and the uncompressed half of         *)
(* proto/packet.rs.  A byte is a number below 2 * Base; Base is 128 in the *)
(* protocol, and a byte of Base or more has its extra-byte bit set.        *)
(***************************************************************************)
EXTENDS Integers, Sequences

CONSTANT Base

ASSUME BaseIsPositive == Base \in Nat \ {0, 1}

Byte == 0 .. 2 * Base - 1

\* What encode_var_int writes for a number that is not negative.
EncodeVarInt[n \in Nat] ==
    IF n < Base THEN <<n>>
                ELSE <<Base + (n % Base)>> \o EncodeVarInt[n \div Base]

\* read_var_int: the number ends at the first byte without the extra bit, and
\* not later than the fifth.
VarIntEnds(buf) == {k \in 1 .. Len(buf) : k <= 5 /\ buf[k] < Base}

HasVarInt(buf) == VarIntEnds(buf) # {}

VarIntLen(buf) == CHOOSE k \in VarIntEnds(buf) : \A j \in VarIntEnds(buf) : k <= j

\* Seven bits a byte, the lowest first: value[k] is what follows the first k.
VarIntVal(buf) ==
    LET value[k \in 0 .. VarIntLen(buf)] ==
            IF k = VarIntLen(buf) THEN 0 ELSE (buf[k + 1] % Base) + Base * value[k + 1]
    IN value[0]

Take(buf, n) == SubSeq(buf, 1, n)
Drop(buf, n) == SubSeq(buf, n + 1, Len(buf))

-----------------------------------------------------------------------------
\* A frame: encode_with_len of the packet whose id and data make the payload.
Encode(payload) == EncodeVarInt[Len(payload)] \o payload

\* The bytes of every frame but the first n.
EncodeFrom(payloads) ==
    LET bytes[n \in 0 .. Len(payloads)] ==
            IF n = Len(payloads) THEN <<>> ELSE Encode(payloads[n + 1]) \o bytes[n + 1]
    IN bytes

EncodeAll(payloads) == EncodeFrom(payloads)[0]

\* read_packet_id_data: an empty payload, or one without an id, is no packet.
IsPacket(payload) == HasVarInt(payload)

\* `packet_id as u8`: of a longer id the low eight bits are left.
PacketId(payload) == VarIntVal(payload) % (2 * Base)

PacketData(payload) == Drop(payload, VarIntLen(payload))

ClientStates == <<"handshake", "status", "login">>

\* ClientState::from_id of the next state in the data of a handshake.
Known(data)  == data # <<>> /\ data[1] + 1 \in DOMAIN ClientStates
FromId(data) == ClientStates[data[1] + 1]

\* What read_packet splits off once the buffer holds it.
FrameLen(buf) == VarIntLen(buf) + VarIntVal(buf)

Payload(raw) == Drop(raw, VarIntLen(raw))

\* Mutant of Incomplete: one byte more than the frame is waited for.
IncompleteByOne(buf) ==
    Len(buf) < 2 \/ (HasVarInt(buf) /\ Len(buf) <= FrameLen(buf))

\* The two waits of read_packet: for two bytes, and for the whole frame.
Incomplete(buf) ==
    Len(buf) < 2 \/ (HasVarInt(buf) /\ Len(buf) < FrameLen(buf))

\* "Malformed packet, could not read packet length".
BadLength(buf) == Len(buf) >= 2 /\ ~HasVarInt(buf)
=============================================================================
