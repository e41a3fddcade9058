---------------------------- MODULE VideoSession ----------------------------
(***************************************************************************)
(* The video pipeline of the DroidCam client: the video thread receives    *)
(* JPEG frames from the phone into a pool of JPG_BACKBUF_MAX buffers, the  *)
(* decode thread decodes them into the webcam device, and the main thread  *)
(* starts and stops both (GUI: Start/Stop; CLI: main/sig_handler).         *)
(*                                                                         *)
(* The two queues are sequences of frame indices; LinkedQueue shows that   *)
(* the linked list of queue.c, under its mutex, behaves as one.  Every     *)
(* locked queue operation, and every unlocked read of queue.size, is a     *)
(* step of its own.                                                        *)
(***************************************************************************)
EXTENDS Integers, Sequences, Functions

CONSTANTS
  JPG_BACKBUF_MAX,   \* frames in the pool
  m_BufferLimit,     \* frames the decode queue holds back (0 as initialised)
  Modes,             \* connection modes the user may choose at Start
  MaxSerial,         \* bound: JPEGs received in a behaviour
  MaxSessions        \* bound: streaming sessions in a behaviour

ASSUME PoolAssumption == JPG_BACKBUF_MAX \in Nat \ {0}
ASSUME LimitAssumption == m_BufferLimit \in Nat
ASSUME ModesAssumption == Modes \subseteq {"wifi", "ios", "server"}

Frames  == 1 .. JPG_BACKBUF_MAX
NoFrame == 0

VARIABLES
  v_running, v_active,          \* the globals shared by all threads
  receive_queue, decode_queue,
  inBuf,                        \* m_inBuf: 0 if NULL, else whose session's
  data,                         \* the buffer each jpg_frames[i].data points to
  vpc, videoFrame, keep_waiting, prepared, mode,   \* video thread
  dpc, decodeFrame, decodeBuf,                     \* decode thread
  ctl,                                             \* main thread
  serial, content,  \* JPEGs received; the one each frame holds
  shown,            \* the last JPEG written to the webcam device
  sessions,         \* sessions started
  stale             \* pool entries that outlived the last decoder_cleanup

pool        == <<receive_queue, decode_queue, inBuf, data>>
videoLocals == <<videoFrame, keep_waiting, prepared, mode>>
decodeVars  == <<dpc, decodeFrame, decodeBuf>>
history     == <<serial, content, shown, sessions, stale>>
notVpc == <<v_running, v_active, pool, videoLocals, decodeVars, ctl, history>>
vars   == <<vpc, notVpc>>

-----------------------------------------------------------------------------
Holding   == {"header", "body", "push", "push2", "pushR", "pushD"}
Streaming == Holding \union {"loop"}
Ending    == {"exit", "free", "clearR", "clearD", "again", "done"}

\* Connect() sets SO_RCVTIMEO; accepted and usbmuxd sockets have none.
TimedSocket == mode = "wifi"

Init ==
  /\ v_running = 0 /\ v_active = 0
  /\ receive_queue = <<>> /\ decode_queue = <<>>
  /\ inBuf = 0 /\ data = [f \in Frames |-> 0] /\ decodeBuf = 0
  /\ vpc = "done" /\ videoFrame = NoFrame /\ keep_waiting = 0
  /\ prepared = 0 /\ mode \in Modes
  /\ dpc = "done" /\ decodeFrame = NoFrame
  /\ ctl = "idle"
  /\ serial = 0 /\ content = [f \in Frames |-> 0] /\ shown = 0
  /\ sessions = 0 /\ stale = 0

-----------------------------------------------------------------------------
(* VideoThreadProc.                                                        *)

Goto(from, to) == vpc = from /\ vpc' = to

\* accept_connection polls a non-blocking socket while v_running.
Accept ==
  /\ Goto("accept", "request")
  /\ v_running # 0
  /\ sessions < MaxSessions
  /\ keep_waiting' = 1
  /\ sessions' = sessions + 1
  /\ UNCHANGED <<v_running, v_active, pool, videoFrame, prepared, mode,
                 decodeVars, ctl, serial, content, shown, stale>>

\* v_running was cleared, or socket(), bind(), listen() or accept() failed.
AcceptFails ==
  /\ Goto("accept", "exit")
  /\ UNCHANGED notVpc

SendRequest ==
  /\ \/ Goto("request", "reply")
     \/ Goto("request", "exit")
  /\ UNCHANGED notVpc

\* RecvAll of the 9 byte header and the checks and allocations of
\* decoder_prepare_video.
RecvReply ==
  /\ \/ Goto("reply", "prepare") /\ inBuf' = sessions /\ prepared' = 0
     \/ Goto("reply", "exit") /\ UNCHANGED <<inBuf, prepared>>
  /\ UNCHANGED <<v_running, v_active, receive_queue, decode_queue, data,
                 videoFrame, keep_waiting, mode, decodeVars, ctl, history>>

\* Mutants: the loop runs once too often; a frame's data is not set.
PrepareFrame_OneMore ==
  /\ vpc = "prepare"
  /\ prepared' = prepared + 1
  /\ receive_queue' = Append(receive_queue, prepared')
  /\ IF prepared' > JPG_BACKBUF_MAX
       THEN vpc' = "loop" /\ v_active' = 1
       ELSE UNCHANGED <<vpc, v_active>>
  /\ UNCHANGED <<v_running, decode_queue, inBuf, data, videoFrame,
                 keep_waiting, mode, decodeVars, ctl, history>>
PrepareFrame_KeepsData ==
  /\ vpc = "prepare"
  /\ prepared' = JPG_BACKBUF_MAX
  /\ receive_queue' = receive_queue \o [i \in Frames |-> i]
  /\ vpc' = "loop" /\ v_active' = 1
  /\ UNCHANGED <<v_running, decode_queue, inBuf, data, videoFrame,
                 keep_waiting, mode, decodeVars, ctl, history>>

\* One round of decoder_prepare_video's loop; v_active is set after the last.
PrepareFrame ==
  /\ vpc = "prepare"
  /\ prepared' = prepared + 1
  /\ receive_queue' = Append(receive_queue, prepared')
  /\ data' = [data EXCEPT ![prepared'] = inBuf]
  /\ IF prepared' = JPG_BACKBUF_MAX
       THEN vpc' = "loop" /\ v_active' = 1
       ELSE UNCHANGED <<vpc, v_active>>
  /\ UNCHANGED <<v_running, decode_queue, inBuf, videoFrame, keep_waiting,
                 mode, decodeVars, ctl, history>>

\* The loop test and pull_empty_jpg_frame, whose result is not tested.
PullEmpty ==
  /\ Goto("loop", "header")
  /\ v_running # 0
  /\ IF Len(receive_queue) > 0
       THEN /\ videoFrame' = Head(receive_queue)
            /\ receive_queue' = Tail(receive_queue)
       ELSE videoFrame' = NoFrame /\ UNCHANGED receive_queue
  /\ UNCHANGED <<v_running, v_active, decode_queue, inBuf, data, keep_waiting,
                 prepared, mode, decodeVars, ctl, history>>

LoopEnds ==
  /\ Goto("loop", "exit")
  /\ v_running = 0
  /\ UNCHANGED notVpc

RecvHeader ==
  /\ Goto("header", "body")
  /\ UNCHANGED notVpc

\* The frame's buffer is written throughout vpc = "body".  f->length is received
\* as it is (av.c:171), while the buffers are slices of m_Yuv420Size bytes, one
\* after another (decoder.c:258): it is taken to fit, as that of a JPEG of a
\* picture of this size does.
RecvBody ==
  /\ Goto("body", "push")
  /\ serial < MaxSerial
  /\ serial' = serial + 1
  /\ content' = [content EXCEPT ![videoFrame] = serial']
  /\ UNCHANGED <<v_running, v_active, pool, videoLocals, decodeVars, ctl,
                 shown, sessions, stale>>

\* The connection closed, was reset, or timed out: break out of the loop.
RecvFails ==
  /\ \/ Goto("header", "exit")
     \/ Goto("body", "exit")
  /\ videoFrame' = NoFrame
  /\ UNCHANGED <<v_running, v_active, pool, keep_waiting, prepared, mode,
                 decodeVars, ctl, history>>

\* Mutant: every frame goes to the decoder.
PushReadReceive_Never ==
  /\ vpc = "push" /\ vpc' = "pushD"
  /\ UNCHANGED notVpc

\* push_jpg_frame(f, false): two unlocked reads, then a locked queue_add.
PushReadReceive ==
  /\ vpc = "push"
  /\ vpc' = IF Len(receive_queue) = 0 THEN "pushR" ELSE "push2"
  /\ UNCHANGED notVpc

\* Mutant: the limit is off by one.
PushReadDecode_OneMore ==
  /\ vpc = "push2"
  /\ vpc' = IF Len(decode_queue) > m_BufferLimit + 1 THEN "pushR" ELSE "pushD"
  /\ UNCHANGED notVpc

PushReadDecode ==
  /\ vpc = "push2"
  /\ vpc' = IF Len(decode_queue) > m_BufferLimit THEN "pushR" ELSE "pushD"
  /\ UNCHANGED notVpc

\* Mutant: the next JPEG is received into the frame just queued.
PushAdd_KeepsFrame ==
  /\ \/ /\ Goto("pushR", "header")
        /\ receive_queue' = Append(receive_queue, videoFrame)
        /\ UNCHANGED decode_queue
     \/ /\ Goto("pushD", "header")
        /\ decode_queue' = Append(decode_queue, videoFrame)
        /\ UNCHANGED receive_queue
  /\ UNCHANGED <<v_running, v_active, inBuf, data, videoLocals, decodeVars,
                 ctl, history>>

PushAdd ==
  /\ \/ /\ Goto("pushR", "loop")
        /\ receive_queue' = Append(receive_queue, videoFrame)
        /\ UNCHANGED decode_queue
     \/ /\ Goto("pushD", "loop")
        /\ decode_queue' = Append(decode_queue, videoFrame)
        /\ UNCHANGED receive_queue
  /\ videoFrame' = NoFrame
  /\ UNCHANGED <<v_running, v_active, inBuf, data, keep_waiting, prepared,
                 mode, decodeVars, ctl, history>>

\* early_out: v_active = 0, disconnect, then decoder_cleanup in its order.
EarlyOut ==
  /\ Goto("exit", "free")
  /\ v_active' = 0
  /\ UNCHANGED <<v_running, pool, videoLocals, decodeVars, ctl, history>>

FreeBuffers ==
  /\ Goto("free", "clearR")
  /\ inBuf' = 0
  /\ UNCHANGED <<v_running, v_active, receive_queue, decode_queue, data,
                 videoLocals, decodeVars, ctl, history>>

\* Mutant: the receive queue is not cleared.
ClearReceive_Skipped == Goto("clearR", "clearD") /\ UNCHANGED notVpc

ClearReceive ==
  /\ Goto("clearR", "clearD")
  /\ receive_queue' = <<>>
  /\ UNCHANGED <<v_running, v_active, decode_queue, inBuf, data, videoLocals,
                 decodeVars, ctl, history>>

\* What the decode thread still holds, or has put back since ClearReceive,
\* outlives this session's cleanup.
ClearDecode ==
  /\ Goto("clearD", "again")
  /\ decode_queue' = <<>>
  /\ stale' = Len(receive_queue) + (IF decodeFrame = NoFrame THEN 0 ELSE 1)
  /\ UNCHANGED <<v_running, v_active, receive_queue, inBuf, data, videoLocals,
                 decodeVars, ctl, serial, content, shown, sessions>>

\* Mutant: the wrong flag is tested.
AgainOrEnd_TestsActive ==
  /\ IF v_active # 0 THEN Goto("again", "accept") ELSE Goto("again", "done")
  /\ UNCHANGED notVpc

\* A server waits for the next client; otherwise the thread ends.
AgainOrEnd ==
  /\ IF v_running # 0 /\ keep_waiting # 0
       THEN Goto("again", "accept")
       ELSE Goto("again", "done")
  /\ UNCHANGED notVpc

-----------------------------------------------------------------------------
(* DecodeThreadProc.                                                       *)

\* Mutants: one frame is always held back; the frame goes back to the receive
\* queue before it is decoded.
PullReady_HoldsBack ==
  /\ dpc = "poll" /\ dpc' = "process"
  /\ v_running # 0
  /\ Len(decode_queue) > m_BufferLimit + 1
  /\ decodeFrame' = Head(decode_queue)
  /\ decodeBuf' = data[decodeFrame']
  /\ decode_queue' = Tail(decode_queue)
  /\ UNCHANGED <<vpc, v_running, v_active, receive_queue, inBuf, data,
                 videoLocals, ctl, history>>
PullReady_ReturnsFirst ==
  /\ dpc = "poll" /\ dpc' = "process"
  /\ v_running # 0
  /\ Len(decode_queue) > m_BufferLimit
  /\ decodeFrame' = Head(decode_queue)
  /\ decodeBuf' = data[decodeFrame']
  /\ decode_queue' = Tail(decode_queue)
  /\ receive_queue' = Append(receive_queue, decodeFrame')
  /\ UNCHANGED <<vpc, v_running, v_active, inBuf, data, videoLocals, ctl,
                 history>>

PullReady ==
  /\ dpc = "poll"
  /\ v_running # 0
  /\ Len(decode_queue) > m_BufferLimit
  /\ dpc' = "process"
  /\ decodeFrame' = Head(decode_queue)
  /\ decodeBuf' = data[decodeFrame']
  /\ decode_queue' = Tail(decode_queue)
  /\ UNCHANGED <<vpc, v_running, v_active, receive_queue, inBuf, data,
                 videoLocals, ctl, history>>

DecodeEnds ==
  /\ dpc = "poll" /\ dpc' = "done"
  /\ v_running = 0
  /\ UNCHANGED <<vpc, v_running, v_active, pool, videoLocals, decodeFrame,
                 decodeBuf, ctl, history>>

\* process_frame ends: the frame reached the device, or an error skipped it.
ProcessFrame ==
  /\ dpc = "process" /\ dpc' = "return"
  /\ shown' \in {shown, content[decodeFrame]}
  /\ UNCHANGED <<vpc, v_running, v_active, pool, videoLocals, decodeFrame,
                 decodeBuf, ctl, serial, content, sessions, stale>>

\* Mutants: the frame is lost; it goes back to the wrong queue.
ReturnFrame_Lost ==
  /\ dpc = "return" /\ dpc' = "poll"
  /\ decodeFrame' = NoFrame /\ decodeBuf' = 0
  /\ UNCHANGED <<vpc, v_running, v_active, pool, videoLocals, ctl, history>>
ReturnFrame_Requeued ==
  /\ dpc = "return" /\ dpc' = "poll"
  /\ decode_queue' = Append(decode_queue, decodeFrame)
  /\ decodeFrame' = NoFrame /\ decodeBuf' = 0
  /\ UNCHANGED <<vpc, v_running, v_active, receive_queue, inBuf, data,
                 videoLocals, ctl, history>>

\* push_jpg_frame(f, true): no size is read, the frame goes back.
ReturnFrame ==
  /\ dpc = "return" /\ dpc' = "poll"
  /\ receive_queue' = Append(receive_queue, decodeFrame)
  /\ decodeFrame' = NoFrame /\ decodeBuf' = 0
  /\ UNCHANGED <<vpc, v_running, v_active, decode_queue, inBuf, data,
                 videoLocals, ctl, history>>

-----------------------------------------------------------------------------
(* The main thread.                                                        *)

\* Start (GUI) or main (CLI).  Connecting is done before the threads start;
\* a server's thread accepts its own connections.
Start ==
  /\ ctl = "idle"
  /\ mode' \in Modes
  /\ mode' # "server" => sessions < MaxSessions
  /\ ctl' = "running"
  /\ v_running' = 1
  /\ v_active' = 0
  /\ vpc' = IF mode' = "server" THEN "accept" ELSE "request"
  /\ dpc' = "poll"
  /\ keep_waiting' = 0
  /\ sessions' = IF mode' = "server" THEN sessions ELSE sessions + 1
  /\ UNCHANGED <<pool, videoFrame, prepared, decodeFrame, decodeBuf, serial,
                 content, shown, stale>>

Stop ==
  /\ ctl = "running"
  /\ ctl' = "stopping"
  /\ v_running' = 0
  /\ UNCHANGED <<vpc, v_active, pool, videoLocals, decodeVars, history>>

Join ==
  /\ ctl = "stopping"
  /\ vpc = "done" /\ dpc = "done"
  /\ ctl' = "idle"
  /\ v_active' = 0
  /\ UNCHANGED <<vpc, v_running, pool, videoLocals, decodeVars, history>>

\* decoder_fini at exit: decoder_cleanup once more, the queues destroyed.
Fini ==
  /\ ctl = "idle"
  /\ ctl' = "finished"
  /\ inBuf' = 0
  /\ receive_queue' = <<>> /\ decode_queue' = <<>>
  /\ stale' = 0
  /\ UNCHANGED <<vpc, v_running, v_active, data, videoLocals, decodeVars,
                 serial, content, shown, sessions>>

-----------------------------------------------------------------------------
\* Steps of the video thread that wait on nothing but v_running.
VideoStep ==
  \/ AcceptFails /\ v_running = 0
  \/ SendRequest \/ PrepareFrame \/ PullEmpty \/ LoopEnds
  \/ PushReadReceive \/ PushReadDecode \/ PushAdd
  \/ EarlyOut \/ FreeBuffers \/ ClearReceive \/ ClearDecode \/ AgainOrEnd

\* Steps that wait on the peer.
PeerStep ==
  \/ Accept \/ AcceptFails
  \/ RecvReply \/ RecvHeader \/ RecvBody \/ RecvFails

DecodeStep == PullReady \/ DecodeEnds \/ ProcessFrame \/ ReturnFrame

Next == VideoStep \/ PeerStep \/ DecodeStep \/ Start \/ Stop \/ Join \/ Fini

Recv == RecvReply \/ RecvHeader \/ RecvBody \/ RecvFails

\* The scheduler runs every thread; recv returns if the socket has a timeout.
\* Nothing obliges the user to press a button or the peer to answer.
Fairness ==
  /\ WF_vars(VideoStep)
  /\ WF_vars(DecodeStep)
  /\ WF_vars(Join)
  /\ WF_vars(TimedSocket /\ Recv)

Spec == Init /\ [][Next]_vars /\ Fairness

-----------------------------------------------------------------------------
(* Properties.                                                             *)

TypeOK ==
  /\ v_running \in {0, 1} /\ v_active \in {0, 1} /\ keep_waiting \in {0, 1}
  /\ inBuf \in Nat /\ data \in [Frames -> Nat] /\ decodeBuf \in Nat
  /\ receive_queue \in Seq(Frames) /\ decode_queue \in Seq(Frames)
  /\ vpc \in Streaming \union Ending
                \union {"accept", "request", "reply", "prepare"}
  /\ videoFrame \in Frames \union {NoFrame}
  /\ prepared \in 0 .. JPG_BACKBUF_MAX
  /\ mode \in Modes
  /\ dpc \in {"poll", "process", "return", "done"}
  /\ decodeFrame \in Frames \union {NoFrame}
  /\ ctl \in {"idle", "running", "stopping", "finished"}
  /\ serial \in Nat /\ shown \in Nat /\ sessions \in Nat /\ stale \in Nat
  /\ content \in [Frames -> Nat]

\* The frame the video thread fills is never NULL: pull_empty_jpg_frame finds
\* the receive queue non-empty in every interleaving, although its result is
\* not tested before f->length is written (av.c:167-172).
PullNeverNull == vpc \in Holding => videoFrame \in Frames

Held(frame) == IF frame = NoFrame THEN 0 ELSE 1
Entries == Len(receive_queue) + Len(decode_queue)
             + Held(videoFrame) + Held(decodeFrame)

\* No pool entry is lost or invented: while streaming, the entries in the
\* queues and in the threads' hands are those decoder_prepare_video added and
\* those that outlived the last decoder_cleanup.
PoolConserved ==
  /\ vpc \in Streaming => Entries = JPG_BACKBUF_MAX + stale
  /\ vpc = "prepare" => Entries = prepared + stale
  /\ vpc \in {"again", "done", "accept", "request", "reply"} => Entries = stale

\* At most two entries outlive a cleanup, whatever the number of sessions:
\* the one the decode thread holds and the one it can pull between the two
\* queue_clear calls.
StaleBounded == stale <= 2

\* The unlocked test of decode_queue.size in push_jpg_frame still bounds the
\* backlog, since every other thread only shrinks that queue.
BacklogBounded == Len(decode_queue) <= m_BufferLimit + 1

\* A frame has one owner: one entry of one queue, or one thread.
OneOwner ==
  /\ IsInjective(receive_queue) /\ IsInjective(decode_queue)
  /\ Range(receive_queue) \intersect Range(decode_queue) = {}
  /\ videoFrame \notin Range(receive_queue) \union Range(decode_queue)
  /\ decodeFrame \notin Range(receive_queue) \union Range(decode_queue)
  /\ videoFrame = decodeFrame => videoFrame = NoFrame

\* In a session that began with no leftover, every frame has one owner, so
\* recv never writes a buffer that is being decoded or waits to be.
ExclusiveWhenClean == vpc \in Streaming /\ stale = 0 => OneOwner

\* The same seen from the decode thread: while process_frame reads a frame of
\* a session without leftovers, no step replaces the JPEG in it.
NotTorn ==
  [][dpc = "process" /\ stale = 0
       => content'[decodeFrame] = content[decodeFrame]]_vars

\* recv fills memory of the current session's m_inBuf, whatever the receive
\* queue kept from earlier ones, and so does process_frame read it in a
\* session without leftovers.
LiveBuffers ==
  /\ vpc \in Holding => inBuf # 0 /\ data[videoFrame] = inBuf
  /\ vpc \in Streaming /\ stale = 0 /\ dpc = "process" => decodeBuf = inBuf

\* A queued JPEG does not wait for ever while the session runs.
BacklogDrains ==
  (Len(decode_queue) > m_BufferLimit)
    ~> (Len(decode_queue) <= m_BufferLimit \/ v_running = 0)

\* A server whose client has gone waits for the next one until it is stopped.
ServerAcceptsAgain ==
  (vpc = "exit" /\ keep_waiting # 0) ~> (vpc = "accept" \/ v_running = 0)

\* Refinement: every session without leftovers of an earlier one is a lossy
\* bounded FIFO channel.
Channel == INSTANCE FrameChannel WITH
  Limit     <- m_BufferLimit,
  received  <- serial,
  fresh     <- IF vpc \in {"push", "push2", "pushR", "pushD"}
                 THEN serial ELSE 0,
  pending   <- [i \in DOMAIN decode_queue |-> content[decode_queue[i]]],
  decoding  <- IF dpc = "process" THEN content[decodeFrame] ELSE 0,
  displayed <- shown,
  clean     <- stale = 0
ImplementsChannel == Channel!ChanSpec

=============================================================================
