----------------------------- MODULE FrameChannel -----------------------------
(***************************************************************************)
(* What the JPEG pipeline of one streaming session promises: a lossy,      *)
(* bounded, first-in first-out channel.  The receiver is never held up: a  *)
(* JPEG it received is either queued, when fewer than Limit + 1 wait, or   *)
(* dropped.  The decoder takes the JPEGs in order and displays each one at *)
(* most once.  Nothing here says how buffers are shared: that the pool     *)
(* never hands out one that is still being decoded is what makes it true.  *)
(* The promise is made while no buffer of an earlier session is still in   *)
(* use; a session that begins with such leftovers is not constrained.      *)
(***************************************************************************)
EXTENDS Integers, Sequences

CONSTANT Limit   \* JPEGs held back for the decoder

None == 0

VARIABLES
  received,    \* JPEGs received so far
  fresh,       \* the JPEG just received, None once queued or dropped
  pending,     \* JPEGs queued for the decoder
  decoding,    \* the JPEG being decoded, or None
  displayed,   \* the last JPEG displayed
  clean        \* no buffer of an earlier session is still in anybody's hands

chan == <<received, fresh, pending, decoding, displayed>>

ChanInit ==
  /\ received = 0 /\ fresh = None
  /\ pending = <<>> /\ decoding = None
  /\ displayed = 0

Receive ==
  /\ fresh = None
  /\ received' = received + 1
  /\ fresh' = received'
  /\ UNCHANGED <<pending, decoding, displayed>>

Queue ==
  /\ fresh # None
  /\ Len(pending) <= Limit
  /\ pending' = Append(pending, fresh)
  /\ fresh' = None
  /\ UNCHANGED <<received, decoding, displayed>>

Drop ==
  /\ fresh # None
  /\ fresh' = None
  /\ UNCHANGED <<received, pending, decoding, displayed>>

Take ==
  /\ decoding = None
  /\ Len(pending) > Limit
  /\ decoding' = Head(pending)
  /\ pending' = Tail(pending)
  /\ UNCHANGED <<received, fresh, displayed>>

\* Decoding may fail, and then the previous picture stays.
Display ==
  /\ decoding # None
  /\ displayed' \in {displayed, decoding}
  /\ decoding' = None
  /\ UNCHANGED <<received, fresh, pending>>

Close ==
  /\ fresh = None
  /\ pending' = <<>>
  /\ UNCHANGED <<received, fresh, decoding, displayed>>

ChanNext ==
  clean => Receive \/ Queue \/ Drop \/ Take \/ Display \/ Close

ChanSpec == ChanInit /\ [][ChanNext]_chan

=============================================================================
