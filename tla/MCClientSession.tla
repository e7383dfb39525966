-------------------------- MODULE MCClientSession --------------------------
(***************************************************************************)
(* Small streams for TLC.  With Base = 4 a frame of 4 bytes has a length   *)
(* of two bytes, as one of 128 has in the protocol, and one of 16 a length *)
(* of three, as one of 16384 has.                                          *)
(***************************************************************************)
EXTENDS ClientSession

\* A status request, a packet with an id of two bytes, and two pings.
Statuses == << <<0, 1>>, <<0>>, <<5, 1>>, <<1, 3>>, <<1, 2>> >>

\* Ids of two bytes that pass for 0 and 1, as 256 and 257 do: a handshake, a
\* status request and a ping.
Wide == << <<4, 2, 1>>, <<4, 2>>, <<5, 2, 3>> >>

\* Nothing but a length at the end.
Trailing == << <<0, 1>>, <<0>>, <<>> >>

\* A login with something before and after it, in frames of several lengths.
Logins == << <<2>>, <<0, 2>>, <<3, 1>>, <<0, 1, 2, 3>>, <<1>>, <<2, 2, 2, 2, 2>> >>

\* A handshake that changes nothing, one for an unknown state.
Unknown == << <<0, 0>>, <<0, 3>>, <<0>> >>

\* A handshake without a next state; a frame without a packet.
NoState == << <<0>>, <<0, 1>> >>
Empty   == << <<0, 1>>, <<>>, <<0>> >>

\* A frame with a length of three bytes.
Long == << <<0, 1>>, <<1, 1, 1, 1, 1, 1, 1, 1, 1, 1, 1, 1, 1, 1, 1, 1>>, <<0>> >>

Streams    == {Statuses, Wide, Trailing, Logins, Unknown, NoState, Empty, Long}
=============================================================================
