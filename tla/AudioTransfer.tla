---------------------------- MODULE AudioTransfer ----------------------------
(***************************************************************************)
(* The streaming loop of the audio thread (av.c) and the ALSA transfer     *)
(* below it (decoder_snd.c): what was read last is decoded, two chunks a   *)
(* packet, and waits in decode_buf, each period that the sound device has  *)
(* room for takes a frame from it, and under-runs and suspends of the      *)
(* device are recovered.  The device is modelled by its state, the free    *)
(* room and the write pointer of its ring.                                 *)
(*                                                                         *)
(* The stream is a sequence of encoded chunks, each of Pieces pieces: a    *)
(* read may end after any piece.  Pieces and samples are numbered from 1 in *)
(* the order in which they arrive; 0 is a piece that never came, or a      *)
(* sample of a chunk that was not decoded from its own pieces.             *)
(***************************************************************************)
EXTENDS Integers, SequencesExt

CONSTANTS
  frame_size,    \* samples of one decoded speex frame, which a chunk encodes
  Pieces,        \* of a chunk, 70 bytes (DROIDCAM_SPX_CHUNK_BYTES_2)
  STREAM_CHUNKS, \* that stream_buf holds (6)
  period_size,   \* as granted by the device
  buffer_size,   \* of the device's ring; find_snd_device insists on 2 frames
  ResumeLimit,   \* tries of snd_pcm_resume (60000)
  MaxPieces,     \* bound: pieces received
  MaxSuspends    \* bound: times the machine is suspended

CHUNKS_PER_PACKET == 2
Packet == CHUNKS_PER_PACKET * frame_size
bytes_per_packet == CHUNKS_PER_PACKET * Pieces

ASSUME SizesAssumption ==
  /\ {frame_size, period_size, ResumeLimit, Pieces} \subseteq Nat \ {0}
  /\ STREAM_CHUNKS \in Nat /\ STREAM_CHUNKS >= CHUNKS_PER_PACKET
  /\ buffer_size = 2 * frame_size /\ period_size <= buffer_size

STREAM_BUF_SIZE == STREAM_CHUNKS * Pieces

VARIABLES
  a_running, pc,
  stream_buf, received,  \* its pieces, and those received so far
  decode_buf, decode_buf_used,
  first, frames,         \* of the transfer
  after, limit,          \* xrun_recovery: where it returns to, tries left
  state, avail, appl,    \* of the device
  suspends,              \* so far
  start,                 \* history: the first sample decoded last, or 0 if no
                         \* whole packet was
  copied, before         \* history: samples copied last from what was decoded
                         \* last, and the newest one copied earlier

buffer   == <<stream_buf, received, decode_buf, decode_buf_used>>
transfer == <<first, frames>>
recovery == <<after, limit>>
device   == <<state, avail, appl>>
history  == <<start, copied, before>>
vars == <<a_running, pc, buffer, transfer, recovery, device, suspends, history>>

Init ==
  /\ a_running = 1 /\ pc = "loop"
  /\ stream_buf = [i \in 1 .. STREAM_BUF_SIZE |-> 0] /\ received = 0
  /\ decode_buf = [i \in 1 .. Packet |-> 0] /\ decode_buf_used = 0
  /\ first = 1 /\ frames = 0 /\ after = "loop" /\ limit = 0
  /\ state \in {"prepared", "xrun"}  \* the second after an earlier session
  /\ avail = buffer_size /\ appl = 0
  /\ suspends = 0 /\ start = 0 /\ copied = <<>> /\ before = 0

Goto(from, to) == pc = from /\ pc' = to

-----------------------------------------------------------------------------
(* The device.                                                             *)

\* The device plays a sample; out of samples, it under-runs.
Play ==
  /\ state = "running"
  /\ avail' = avail + 1
  /\ state' = IF avail' = buffer_size THEN "xrun" ELSE state
  /\ UNCHANGED <<a_running, pc, buffer, transfer, recovery, appl, suspends, history>>

Suspend ==
  /\ state = "running" /\ suspends < MaxSuspends
  /\ state' = "suspended" /\ suspends' = suspends + 1
  /\ UNCHANGED <<a_running, pc, buffer, transfer, recovery, avail, appl, history>>

\* snd_pcm_prepare empties the ring and does not start it.
Prepare == state' = "prepared" /\ avail' = buffer_size /\ appl' = 0

-----------------------------------------------------------------------------
(* xrun_recovery, called in a failed operation; it goes on at "to".        *)

Recover(from, to) ==
  \/ /\ state = "xrun"
     /\ \/ Goto(from, to) /\ Prepare /\ first' = 1
        \/ Goto(from, "out") /\ UNCHANGED <<device, first>>
     /\ UNCHANGED recovery
  \/ /\ state = "suspended"
     /\ Goto(from, "resume")
     /\ after' = to /\ limit' = ResumeLimit
     /\ UNCHANGED <<device, first>>

\* EAGAIN until the limit is reached.
ResumeAgain ==
  /\ pc = "resume" /\ limit > 1
  /\ limit' = limit - 1
  /\ UNCHANGED <<a_running, pc, buffer, transfer, after, device, suspends, history>>

\* All callers set first but the one that found the device suspended.
ResumeEnds ==
  /\ pc = "resume"
  /\ \/ Goto("resume", after) /\ limit > 0 /\ state' = "running" /\ UNCHANGED <<avail, appl>>
     \/ Goto("resume", after) /\ Prepare
     \/ Goto("resume", "out") /\ UNCHANGED device
  /\ first' = IF after = "update" THEN first ELSE 1
  /\ limit' = 0
  /\ UNCHANGED <<a_running, buffer, frames, after, suspends, history>>

-----------------------------------------------------------------------------
(* The loop of AudioThreadProc.                                            *)

\* Mutant: the loop does not look at a_running.
LoopTest_Always ==
  /\ Goto("loop", "recv")
  /\ UNCHANGED <<a_running, buffer, transfer, recovery, device, suspends, history>>

LoopTest ==
  /\ IF a_running = 1 THEN Goto("loop", "recv") ELSE Goto("loop", "out")
  /\ UNCHANGED <<a_running, buffer, transfer, recovery, device, suspends, history>>

\* The samples of chunk c, the first of which is chunk 0.
Samples(c) == [i \in 1 .. frame_size |-> c * frame_size + i]

\* What a chunk with these pieces decodes to: its samples, or, if they are not
\* those of one chunk, any number of frames, none when speex finds an error.
Decoded(pieces) ==
  LET c == (pieces[1] - 1) \div Pieces
  IN IF pieces[1] > 0 /\ \A i \in 1 .. Pieces : pieces[i] = c * Pieces + i
       THEN {Samples(c)}
       ELSE {[i \in 1 .. n * frame_size |-> 0] : n \in 0 .. CHUNKS_PER_PACKET}

\* decode_speex_frame; what was not decoded is as it was.
decode_speex_frame(idx) ==
  \E one \in Decoded([i \in 1 .. Pieces |-> stream_buf'[idx + i]]),
     two \in Decoded([i \in 1 .. Pieces |-> stream_buf'[idx + Pieces + i]]) :
    decode_buf' = [i \in 1 .. Packet |->
                     IF i <= Len(one \o two) THEN (one \o two)[i] ELSE decode_buf[i]]

\* History: the newest sample copied so far.
Newest == Max({before} \union ToSet(copied))

\* A read of n pieces.  Less than a packet leaves older pieces behind it, of
\* more the end is decoded.  It replaces what is left of the one before.
Receive(n) ==
  /\ Goto("recv", "check")
  /\ received + n <= MaxPieces /\ received' = received + n
  /\ stream_buf' = [i \in 1 .. STREAM_BUF_SIZE |->
                      IF i <= n THEN received + i ELSE stream_buf[i]]
  /\ decode_speex_frame(IF n > bytes_per_packet THEN n - bytes_per_packet ELSE 0)
  /\ decode_buf_used' = Packet
  /\ LET chunks == received' \div Pieces
     IN start' = IF n >= bytes_per_packet /\ chunks * Pieces = received'
                   THEN (chunks - CHUNKS_PER_PACKET) * frame_size + 1 ELSE 0
  /\ before' = Newest /\ copied' = <<>>
  /\ UNCHANGED <<a_running, transfer, recovery, device, suspends>>

ReceiveNothing ==
  /\ Goto("recv", "check") \/ Goto("recv", "out")
  /\ UNCHANGED <<a_running, buffer, transfer, recovery, device, suspends, history>>

\* snd_transfer_check: the state of the device.
CheckState ==
  /\ \/ Recover("check", "update")
     \/ /\ state \in {"prepared", "running"} /\ Goto("check", "update")
        /\ UNCHANGED <<device, first, recovery>>
  /\ UNCHANGED <<a_running, buffer, frames, suspends, history>>

\* Mutant: the device is never started.
AvailUpdate_NoStart ==
  /\ \/ Recover("update", "loop")
     \/ /\ state \in {"prepared", "running"}
        /\ IF avail >= period_size THEN Goto("update", "begin") ELSE Goto("update", "wait")
        /\ UNCHANGED <<device, first, recovery>>
  /\ UNCHANGED <<a_running, buffer, frames, suspends, history>>

\* Too little room: a device not yet started is, otherwise wait.  Starting
\* fails unless it is prepared.
AvailUpdate ==
  /\ \/ Recover("update", "loop")
     \/ /\ state \in {"prepared", "running"} /\ avail >= period_size
        /\ Goto("update", "begin")
        /\ UNCHANGED <<device, first, recovery>>
     \/ /\ state \in {"prepared", "running"} /\ avail < period_size
        /\ first = 1 /\ first' = 0
        /\ \/ state = "prepared" /\ state' = "running" /\ Goto("update", "loop")
           \/ UNCHANGED state /\ Goto("update", "out")
        /\ UNCHANGED <<avail, appl, recovery>>
     \/ /\ state \in {"prepared", "running"} /\ avail < period_size
        /\ first = 0
        /\ Goto("update", "wait")
        /\ UNCHANGED <<device, first, recovery>>
  /\ UNCHANGED <<a_running, buffer, frames, suspends, history>>

\* snd_pcm_wait returns for room, after two seconds, or with an error.
WaitRoom ==
  /\ \/ Recover("wait", "loop")
     \/ /\ state \in {"prepared", "running"} /\ Goto("wait", "loop")
        /\ UNCHANGED <<device, first, recovery>>
  /\ UNCHANGED <<a_running, buffer, frames, suspends, history>>

\* snd_pcm_mmap_begin grants what is contiguous; after an error the transfer
\* goes on all the same.
MmapBegin ==
  /\ \/ Recover("begin", "copy") /\ frames' = period_size
     \/ /\ Goto("begin", "copy")
        /\ frames' = Min({period_size, avail, buffer_size - appl})
        /\ UNCHANGED <<device, first, recovery>>
  /\ UNCHANGED <<a_running, buffer, suspends, history>>

-----------------------------------------------------------------------------
(* Filling the period.                                                     *)

Share(n) == IF n >= frame_size THEN frame_size ELSE n

\* decoder_speex_plc: made-up sound, or silence.
Conceal ==
  /\ Goto("copy", "commit")
  /\ decode_buf_used = 0
  /\ frames' = Share(frames)
  /\ before' = Newest /\ copied' = <<>>
  /\ UNCHANGED <<a_running, buffer, first, recovery, device, suspends, start>>

\* Mutant: the rest is not moved to the front.
CopyFrame_NoMove ==
  /\ Goto("copy", "commit")
  /\ decode_buf_used # 0
  /\ frames' = Share(frames)
  /\ copied' = SubSeq(decode_buf, 1, frames')
  /\ before' = Newest
  /\ decode_buf_used' = decode_buf_used - frames'
  /\ UNCHANGED <<a_running, stream_buf, received, decode_buf, first, recovery,
                 device, suspends, start>>

\* memcpy of frames samples, memmove of as many, and the count.
CopyFrame ==
  /\ Goto("copy", "commit")
  /\ decode_buf_used # 0
  /\ frames' = Share(frames)
  /\ copied' = SubSeq(decode_buf, 1, frames')
  /\ before' = Newest
  /\ decode_buf' = [i \in 1 .. Packet |->
                      IF i <= frames' THEN decode_buf[i + frames'] ELSE decode_buf[i]]
  /\ decode_buf_used' = decode_buf_used - frames'
  /\ UNCHANGED <<a_running, stream_buf, received, first, recovery, device,
                 suspends, start>>

\* snd_transfer_commit.
Commit ==
  /\ \/ Recover("commit", "loop")
     \/ /\ state \in {"prepared", "running"}
        /\ Goto("commit", "loop")
        /\ appl' = (appl + frames) % buffer_size /\ avail' = avail - frames
        /\ UNCHANGED <<state, first, recovery>>
  /\ UNCHANGED <<a_running, buffer, frames, suspends, history>>

StopAudio ==
  /\ a_running = 1 /\ a_running' = 0
  /\ UNCHANGED <<pc, buffer, transfer, recovery, device, suspends, history>>

-----------------------------------------------------------------------------
AudioStep ==
  \/ ResumeAgain \/ ResumeEnds \/ LoopTest
  \/ \E n \in 1 .. STREAM_BUF_SIZE : Receive(n)
  \/ ReceiveNothing
  \/ CheckState \/ AvailUpdate \/ WaitRoom \/ MmapBegin
  \/ Conceal \/ CopyFrame \/ Commit

Next == AudioStep \/ Play \/ Suspend \/ StopAudio

\* The thread runs and a started device plays.
Spec == Init /\ [][Next]_vars /\ WF_vars(AudioStep) /\ WF_vars(Play)

-----------------------------------------------------------------------------
(* Properties.                                                             *)

TypeOK ==
  /\ a_running \in {0, 1} /\ first \in {0, 1}
  /\ pc \in {"loop", "recv", "check", "update", "wait", "begin", "copy",
             "commit", "resume", "out"}
  /\ stream_buf \in [1 .. STREAM_BUF_SIZE -> Nat] /\ received \in Nat
  /\ decode_buf \in [1 .. Packet -> Nat] /\ decode_buf_used \in Int
  /\ frames \in 0 .. period_size
  /\ after \in {"loop", "update", "copy"} /\ limit \in 0 .. ResumeLimit
  /\ state \in {"prepared", "running", "xrun", "suspended"}
  /\ avail \in 0 .. buffer_size /\ appl \in 0 .. buffer_size - 1
  /\ {suspends, start, before} \subseteq Nat /\ copied \in Seq(Nat)

\* If the period granted, which find_snd_device does not test, holds a decoded
\* frame, what reaches the device of a packet that was read whole, up to the end
\* of a chunk, is newer than all that did before, starts where the packet does
\* and has no gap, even though only as many samples are moved up in decode_buf
\* as were just taken (av.c:295-329).  After a read that was shorter, or ended
\* inside a chunk, nothing is claimed until the next.
PlayedInOrder ==
  /\ TypeOK
  /\ start # 0 /\ period_size >= frame_size =>
       /\ decode_buf_used \in 0 .. Packet
       /\ copied # <<>> =>
            /\ \A i \in DOMAIN copied : copied[i] = copied[1] + i - 1
            /\ copied[1] > before /\ copied[1] \in {start, before + 1}

\* The loop sees Stop: neither waiting for room nor a device that stays
\* suspended holds the thread for ever.
StopSeen == (a_running = 0) ~> (pc = "out")

\* "start the transfer when the buffer is almost full" (decoder_snd.c:118): a
\* prepared device is started, or the thread gives up.
PlaybackStarts == (state = "prepared") ~> (state # "prepared" \/ pc = "out")

\* With under-runs alone it is: every way out of xrun_recovery that prepares
\* the device leads back to snd_pcm_start.
UnderrunRestarts ==
  (state = "prepared" /\ suspends = 0) ~> (state # "prepared" \/ pc = "out")

=============================================================================
