---------------------------- MODULE MCStatusPoll ----------------------------
(***************************************************************************)
(* Small answers for TLC.  With Base = 4 a frame of 4 bytes has a length   *)
(* of two bytes, and one of 16 a length of three, as a status of 16384     *)
(* bytes, with a favicon, has.                                             *)
(***************************************************************************)
EXTENDS StatusPoll

\* Frames: a status, one that cannot be decoded, pongs with the poll's token
\* and with another, a pong without a number, another packet, no packet.
MCFrames ==
    { <<0, 1, 2, 3>>, <<0>>, <<1, 2>>, <<1, 3>>, <<1>>, <<2, 1>>, <<>> }

\* A status and a pong whose ids 8 and 9 pass for 0 and 1, as 256 and 257 do.
Wide == { <<4, 2, 1>>, <<5, 2, 2>> }

MCAnswers ==
    UNION {[1 .. n -> MCFrames] : n \in 0 .. 3}
        \cup UNION {[1 .. n -> MCFrames \cup Wide] : n \in 1 .. 2}

LongStatus == << <<0, 1, 1, 1, 1, 1, 1, 1, 1, 1, 1, 1, 1, 1, 1, 1>> >>

LongAnswers == {LongStatus}
=============================================================================
