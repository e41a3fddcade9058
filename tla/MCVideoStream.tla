---------------------------- MODULE MCVideoStream ----------------------------
(* The instance of VideoStream that Stream.cfg checks. *)
EXTENDS VideoStream

\* One round: a JPEG as long as a length field, and a longer one.
MCFrameLengths == <<2, 3>>

=============================================================================
