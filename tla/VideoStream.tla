----------------------------- MODULE VideoStream -----------------------------
(***************************************************************************)
(* The socket of VideoThreadProc: a header, then frames, each a length and *)
(* a JPEG of that length, read with RecvAll between the control commands   *)
(* of CommandMailbox.  RecvAll may return less than it was asked for, and  *)
(* every positive result is taken as complete.                             *)
(*                                                                         *)
(* The phone sends the frames of FrameLengths over and over, so that the   *)
(* stream does not end; a position is a byte offset into one round.        *)
(***************************************************************************)
EXTENDS CommandMailbox

CONSTANTS
  HeaderSize, LengthSize,  \* bytes (9 and 4 in the code)
  FrameLengths,            \* the lengths of the JPEGs of one round
  Garbage                  \* what four bytes read out of step may say

ASSUME SizesAssumption ==
  /\ HeaderSize \in Nat \ {0} /\ LengthSize \in Nat \ {0}
  /\ FrameLengths \in Seq(Nat \ {0}) /\ FrameLengths # <<>>
  /\ Garbage \subseteq Nat

VARIABLES
  at,        \* bytes of the stream consumed
  closed,    \* the peer has closed and everything it sent is consumed
  need,      \* the length of the JPEG being received, or NoLength
  short,     \* history: a RecvAll returned less than asked for
  last,      \* history: the last frame pushed (0: none yet)
  damaged    \* history: frames pushed that were not the next one, up to 2

wire       == <<at, closed, need, short, last, damaged>>
streamVars == <<vars, wire>>

NoLength == -1
Rounds == Len(FrameLengths)

FrameStart[k \in 1 .. Rounds + 1] ==
  IF k = 1 THEN HeaderSize
  ELSE FrameStart[k - 1] + LengthSize + FrameLengths[k - 1]
RoundSize == FrameStart[Rounds + 1] - HeaderSize

\* The position n bytes after p, of which the next round begins after a header.
Advance(p, n) ==
  IF p + n < FrameStart[Rounds + 1] THEN p + n
  ELSE HeaderSize + ((p + n - HeaderSize) % RoundSize)

StreamInit ==
  /\ Init
  /\ at = 0 /\ closed = FALSE /\ need = NoLength
  /\ short = FALSE /\ last = 0 /\ damaged = 0

-----------------------------------------------------------------------------
\* Mutant: usbmuxd and accepted sockets get a receive timeout, too.
Timed_Always == mode \in Modes

\* Connect() sets SO_RCVTIMEO; usbmuxd and accepted sockets have none.
Timed == mode = "wifi"

\* recv with MSG_WAITALL returns the n bytes asked for, or what came until the
\* connection ended or, where there is one, the timeout passed.
RecvAll(n, got) ==
  /\ got \in 0 .. n
  /\ closed => got = 0
  /\ at' = Advance(at, got)
  /\ \/ got = n /\ UNCHANGED closed
     \/ got < n /\ Timed /\ UNCHANGED closed
     \/ got < n /\ closed' = TRUE
  /\ short' = (short \/ got \in 1 .. n - 1)

\* Mutant: only errors end the loop.
Ended_IgnoresClose(got) == got < 0

\* The test after each RecvAll; an error, like a timeout or the end, is 0 here.
Ended(got) == got = 0

\* The answer to the request; decoder_prepare_video may refuse it.
RecvHeader ==
  \E got \in 0 .. HeaderSize :
    /\ RecvAll(HeaderSize, got)
    /\ Negotiate
    /\ Ended(got) => vpc' = "end"
    /\ UNCHANGED <<need, last, damaged>>

\* What a length field says: a partial or a misplaced one says anything.
LengthRead(got) ==
  IF got = LengthSize /\ \E k \in 1 .. Rounds : at = FrameStart[k]
    THEN {FrameLengths[CHOOSE k \in 1 .. Rounds : at = FrameStart[k]]}
    ELSE Garbage

\* Mutant: one byte less is asked for.
RecvLength_OneLess ==
  /\ vpc = "recv" /\ need = NoLength
  /\ \E got \in 0 .. LengthSize - 1 :
       /\ RecvAll(LengthSize - 1, got)
       /\ IF Ended(got) THEN RecvFrame /\ vpc' = "end" /\ UNCHANGED need
          ELSE need' \in LengthRead(got + 1) /\ UNCHANGED vars
  /\ UNCHANGED <<last, damaged>>

RecvLength ==
  /\ vpc = "recv" /\ need = NoLength
  /\ \E got \in 0 .. LengthSize :
       /\ RecvAll(LengthSize, got)
       /\ IF Ended(got) THEN RecvFrame /\ vpc' = "end" /\ UNCHANGED need
          ELSE need' \in LengthRead(got) /\ UNCHANGED vars
  /\ UNCHANGED <<last, damaged>>

\* The frame after the last one pushed is what this body is, all of it.
NextFrame == (last % Rounds) + 1
IsNextFrame(got) ==
  /\ at = FrameStart[NextFrame] + LengthSize
  /\ need = FrameLengths[NextFrame] /\ got = need

RecvBody ==
  /\ vpc = "recv" /\ need # NoLength
  /\ need' = NoLength
  /\ RecvFrame
  /\ \E got \in 0 .. need :
       /\ RecvAll(need, got)
       /\ IF Ended(got)
            THEN vpc' = "end" /\ UNCHANGED <<last, damaged>>
            ELSE /\ vpc' = "loop"
                 /\ IF IsNextFrame(got)
                      THEN last' = NextFrame /\ UNCHANGED damaged
                      ELSE /\ damaged' = IF damaged < 2 THEN damaged + 1 ELSE 2
                           /\ UNCHANGED last

\* A new connection: a session begins, or a server accepted a client.
Connected ==
  /\ Start \/ Accept
  /\ at' = 0 /\ closed' = FALSE /\ need' = NoLength
  /\ short' = FALSE /\ last' = 0 /\ damaged' = 0

LocalStep == LoopTest \/ SendCommand \/ ClearCommand \/ EarlyOut
UserStep ==
  \/ \E c \in Controls : Command(c)
  \/ \E value \in Values : WbValue(value)
  \/ WbCommand \/ Stop
Recv == RecvHeader \/ RecvLength \/ RecvBody

StreamNext ==
  \/ (LocalStep \/ UserStep) /\ UNCHANGED wire
  \/ Connected \/ Recv

\* The video thread runs, accept_connection sees v_running, and recv returns
\* when the socket is closed or has a timeout.
Fairness ==
  /\ WF_streamVars(LocalStep /\ UNCHANGED wire)
  /\ WF_streamVars(v_running = 0 /\ vpc = "accept" /\ Connected)
  /\ WF_streamVars((Timed \/ closed) /\ Recv)

Spec == StreamInit /\ [][StreamNext]_streamVars /\ Fairness

-----------------------------------------------------------------------------
(* Properties.                                                             *)

TypeOK ==
  /\ MailboxTypeOK
  /\ at \in 0 .. FrameStart[Rounds + 1] - 1 /\ closed \in BOOLEAN
  /\ need \in Nat \union {NoLength} /\ short \in BOOLEAN
  /\ last \in 0 .. Rounds /\ damaged \in 0 .. 2

\* As long as no RecvAll was short, the frames pushed are those the phone
\* sent, in order and whole, with the commands sent in between (av.c:152-176).
FramesAsSent == ~short => damaged = 0

\* Without a receive timeout only the end of the connection cuts a RecvAll
\* short, so that no frame follows a damaged one (connection.c:113).
DamagedIsLast ==
  mode # "wifi" => damaged = 0 \/ (damaged = 1 /\ closed)

\* When the phone closes the connection, in step or out of step with it, the
\* thread leaves its loop although it takes short answers for complete ones.
CloseEndsLoop == closed ~> (vpc \in {"end", "accept", "done"})

\* A connection does not leave a command in the mailbox for ever, but in a
\* recv that has no timeout (av.c:153, connection.c:84).
CommandTaken ==
  <>[](thread_cmd # Empty /\ vpc \notin {"done", "accept"}) =>
    <>[](vpc \in {"negotiate", "recv"} /\ ~Timed)

=============================================================================
