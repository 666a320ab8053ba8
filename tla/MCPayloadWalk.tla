-------------------------- MODULE MCPayloadWalk --------------------------
(* A datagram with room for one byte or for 13 bytes after the IKE header,   *)
(* and decrypted payloads of 3 and 28 bytes: too short for a header, and     *)
(* long enough for two proposals with an SPI, a transform with attributes or *)
(* a list of selectors.  The values of the length fields are the sizes of    *)
(* the structures, the numbers next to them, and one more than fits.         *)
EXTENDS PayloadWalk

MCSizes == {29, 41}
MCEncSizes == {3, 28}
MCLens == {0, 3, 4, 5, 8, 12, 16, 20, 28, 29, 41, 42}

\* What does not hold: no read, not even that of a dump, leaves the buffer.
NoOverrun == rd[2] > 0 => rd[1] + rd[2] <= size
=============================================================================
