----------------------------- MODULE Compression -----------------------------
(***************************************************************************)
(* The compressed half of proto/packet.rs.  A frame is plain, or, once     *)
(* compression is on, starts with the length of what was compressed, which *)
(* is zero if nothing was.  Zlib gives back what it was given and is left  *)
(* out; a threshold below zero is compression turned off.                  *)
(***************************************************************************)
EXTENDS Integers, Sequences

CONSTANT COMPRESSION_THRESHOLD

ASSUME ThresholdIsPositive == COMPRESSION_THRESHOLD \in Nat \ {0}

Forms == {"plain", "short", "zip"}

\* encode_without_len, of a packet whose id and data have that size.
Form(threshold, size) ==
    IF threshold < 0 THEN "plain" ELSE IF size > threshold THEN "zip" ELSE "short"

Encode(threshold, id, size) == [id |-> id, size |-> size, form |-> Form(threshold, size)]

\* decode_without_len: whether what comes out is the packet that went in.
Decodes(threshold, frame) == threshold >= 0 <=> frame.form # "plain"

-----------------------------------------------------------------------------
(* Minecraft, server and client.                                           *)

\* It compresses from its threshold on ...
Sends(limit, id, size) ==
    [id |-> id, size |-> size,
     form |-> IF limit < 0 THEN "plain" ELSE IF size >= limit THEN "zip" ELSE "short"]

\* ... and refuses what should not have been compressed.
Reads(limit, frame) ==
    IF limit < 0 THEN frame.form = "plain"
    ELSE frame.form = "short" \/ (frame.form = "zip" /\ frame.size >= limit)
=============================================================================
