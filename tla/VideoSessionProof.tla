-------------------------- MODULE VideoSessionProof --------------------------
(***************************************************************************)
(* The safety properties of VideoSession, proved for every pool size, hold *)
(* back limit, set of modes and number of sessions.                        *)
(*                                                                         *)
(* The properties are not inductive: which frames a thread may meet        *)
(* depends on how far the other one is in push_jpg_frame and               *)
(* decoder_cleanup.  Inv names what holds at each of those points.  The    *)
(* refinement of FrameChannel follows from Inv and from where the JPEGs    *)
(* are (Filled).                                                           *)
(***************************************************************************)
EXTENDS VideoSession, SequenceTheorems, TLAPS

-----------------------------------------------------------------------------
(* The inductive invariant.                                                *)

\* Which thread owns what: a thread holds a frame exactly while its program
\* counter says so, and both threads are gone when the main thread is idle.
Owners ==
  /\ vpc \in Holding <=> videoFrame # NoFrame
  /\ dpc \in {"process", "return"} <=> decodeFrame # NoFrame
  /\ ctl \in {"idle", "finished"} => vpc = "done" /\ dpc = "done"

\* The receive queue has a frame whenever the next thing the video thread does
\* to it is to pull one, and in push_jpg_frame once its size was seen non-zero.
NotStarved == vpc \in {"loop", "push2", "pushD"} => Len(receive_queue) > 0

\* decode_queue.size, once read, can only be smaller when the frame is added.
Backlog ==
  /\ Len(decode_queue) <= m_BufferLimit + 1
  /\ vpc = "pushD" => Len(decode_queue) <= m_BufferLimit

\* Between the two queue_clear calls: what the decode thread holds or has put
\* back, and what it can still pull, are two frames at most.
Pullable == IF Len(decode_queue) > m_BufferLimit
              THEN Len(decode_queue) - m_BufferLimit ELSE 0
Leftovers ==
  /\ stale <= 2
  /\ vpc = "clearD" =>
       Len(receive_queue) + Held(decodeFrame) + Pullable <= 2

\* While a clean session prepares, its frames are all there is.
CleanPrepare ==
  vpc = "prepare" /\ stale = 0 =>
    /\ decode_queue = <<>> /\ decodeFrame = NoFrame
    /\ receive_queue = [i \in 1 .. prepared |-> i]

\* The loop of decoder_prepare_video has frames left to add, and those it has
\* added point into the buffer it allocated.
Preparing ==
  vpc = "prepare" =>
    /\ prepared < JPG_BACKBUF_MAX
    /\ inBuf # 0
    /\ \A i \in 1 .. prepared : data[i] = inBuf

\* All frames point into the current buffer; a clean decode thread read that.
Pointers ==
  /\ vpc \in {"request", "reply"} => sessions # 0
  /\ vpc \in Streaming => inBuf # 0 /\ \A f \in Frames : data[f] = inBuf
  /\ vpc \in Streaming /\ stale = 0 /\ dpc = "process" => decodeBuf = inBuf

Inv ==
  /\ TypeOK /\ Owners /\ NotStarved /\ Backlog /\ Preparing /\ Pointers
  /\ PoolConserved /\ Leftovers /\ CleanPrepare /\ ExclusiveWhenClean

-----------------------------------------------------------------------------
(* Facts about queues.                                                     *)

\* queue_add puts the new frame behind the others and changes nothing else.
LEMMA AppendFacts ==
  ASSUME NEW S, NEW s \in Seq(S), NEW x \in S
  PROVE  /\ Append(s, x) \in Seq(S)
         /\ Len(Append(s, x)) = Len(s) + 1
         /\ Range(Append(s, x)) = Range(s) \union {x}
         /\ IsInjective(s) /\ x \notin Range(s) => IsInjective(Append(s, x))
  BY AppendProperties DEF Range, IsInjective

\* queue_next takes the first frame out and changes nothing else.
LEMMA TailFacts ==
  ASSUME NEW S, NEW s \in Seq(S), Len(s) > 0
  PROVE  /\ Head(s) \in S /\ Tail(s) \in Seq(S)
         /\ Len(Tail(s)) = Len(s) - 1
         /\ Range(s) = {Head(s)} \union Range(Tail(s))
         /\ IsInjective(s) =>
              IsInjective(Tail(s)) /\ Head(s) \notin Range(Tail(s))
<1>1. s # <<>> /\ Head(s) \in S /\ Tail(s) \in Seq(S) /\ Len(Tail(s)) = Len(s) - 1
  BY HeadTailProperties, EmptySeq
<1>2. Head(s) = s[1] /\ \A i \in 1 .. Len(s) - 1 : Tail(s)[i] = s[i + 1]
  BY <1>1, HeadTailProperties
<1>3. DOMAIN s = 1 .. Len(s) /\ DOMAIN Tail(s) = 1 .. Len(s) - 1 /\ Len(s) \in Nat
  BY <1>1, LenProperties
<1>4. Range(s) = {Head(s)} \union Range(Tail(s))
  <2>1. ASSUME NEW i \in DOMAIN s
        PROVE  s[i] \in {Head(s)} \union Range(Tail(s))
    <3>1. CASE i = 1
      BY <3>1, <1>2
    <3>2. CASE i # 1
      <4>1. i - 1 \in DOMAIN Tail(s) /\ Tail(s)[i - 1] = s[i]
        BY <3>2, <1>2, <1>3
      <4>. QED  BY <4>1 DEF Range
    <3>. QED  BY <3>1, <3>2
  <2>2. ASSUME NEW i \in DOMAIN Tail(s)
        PROVE  Tail(s)[i] \in Range(s)
    <3>1. i + 1 \in DOMAIN s /\ Tail(s)[i] = s[i + 1]
      BY <1>2, <1>3
    <3>. QED  BY <3>1 DEF Range
  <2>3. Head(s) \in Range(s)
    BY <1>2, <1>3 DEF Range
  <2>. QED  BY <2>1, <2>2, <2>3 DEF Range
<1>5. ASSUME IsInjective(s)
      PROVE  IsInjective(Tail(s)) /\ Head(s) \notin Range(Tail(s))
  BY <1>5, <1>2, <1>3 DEF Range, IsInjective
<1>. QED  BY <1>1, <1>4, <1>5

\* A queue of frames holds frames.
LEMMA RangeFacts ==
  ASSUME NEW S, NEW s \in Seq(S)
  PROVE  Range(s) \subseteq S
  BY ElementOfSeq, LenProperties DEF Range

\* The frames decoder_prepare_video adds to an empty queue.
LEMMA PreparedFacts ==
  ASSUME NEW n \in Nat, NEW s, s = [i \in 1 .. n |-> i]
  PROVE  IsInjective(s) /\ Range(s) = 1 .. n
  BY DEF IsInjective, Range

\* A cleared queue.
LEMMA EmptyFacts ==
  ASSUME NEW S
  PROVE  /\ <<>> \in Seq(S) /\ Len(<<>>) = 0
         /\ Range(<<>>) = {} /\ IsInjective(<<>>)
  BY EmptySeq DEF Range, IsInjective

-----------------------------------------------------------------------------
(* The invariant holds initially and is preserved by every action.         *)

LEMMA InitInv == Init => Inv
<1>. SUFFICES ASSUME Init PROVE Inv
  OBVIOUS
<1>. USE DEF Init, NoFrame
<1>1. <<>> \in Seq(Frames) /\ Len(<<>>) = 0
  BY EmptyFacts
<1>2. TypeOK
  BY <1>1, PoolAssumption DEF TypeOK, Frames, Ending
<1>3. Owners /\ NotStarved /\ Preparing /\ CleanPrepare /\ ExclusiveWhenClean
  BY DEF Owners, NotStarved, Preparing, CleanPrepare, ExclusiveWhenClean,
         Streaming, Holding
<1>4. Backlog /\ Pointers
  BY <1>1, LimitAssumption DEF Backlog, Pointers, Streaming, Holding
<1>5. PoolConserved /\ Leftovers
  BY <1>1 DEF PoolConserved, Leftovers, Entries, Held, Streaming, Holding
<1>. QED  BY <1>2, <1>3, <1>4, <1>5 DEF Inv

\* Actions that move the video thread and touch nothing else.
LEMMA MoveInv ==
  ASSUME Inv,
         \/ AcceptFails \/ SendRequest \/ LoopEnds \/ RecvHeader
         \/ PushReadReceive \/ PushReadDecode \/ AgainOrEnd
  PROVE  Inv'
<1>. USE DEF Inv, notVpc, pool, videoLocals, decodeVars, history, Goto,
             AcceptFails, SendRequest, LoopEnds, RecvHeader,
             PushReadReceive, PushReadDecode, AgainOrEnd
<1>1. TypeOK'
  BY DEF TypeOK, Holding, Streaming, Ending
<1>2. Owners'
  BY DEF Owners, Holding
<1>3. NotStarved'
  <2>. Len(receive_queue) \in Nat
    BY LenProperties DEF TypeOK
  <2>. QED  BY DEF NotStarved
<1>4. Backlog' /\ Preparing' /\ Pointers'
  <2>. Len(decode_queue) \in Nat
    BY LenProperties DEF TypeOK
  <2>1. Backlog'
    BY LimitAssumption DEF Backlog
  <2>2. Preparing'
    BY DEF Preparing
  <2>3. Pointers'
    BY DEF Pointers, Streaming, Holding
  <2>. QED  BY <2>1, <2>2, <2>3
<1>5. PoolConserved'
  BY DEF PoolConserved, Entries, Held, Streaming, Holding
<1>6. Leftovers' /\ CleanPrepare'
  BY DEF Leftovers, Pullable, Held, CleanPrepare
<1>7. ExclusiveWhenClean'
  BY DEF ExclusiveWhenClean, OneOwner, Streaming, Holding
<1>. QED  BY <1>1, <1>2, <1>3, <1>4, <1>5, <1>6, <1>7

\* A client connects.
LEMMA AcceptInv ==
  ASSUME Inv, Accept
  PROVE  Inv'
<1>. USE DEF Inv, notVpc, pool, videoLocals, decodeVars, history, Goto, Accept
<1>1. TypeOK'
  BY DEF TypeOK, Holding, Streaming, Ending
<1>2. Owners'
  BY DEF Owners, Holding
<1>3. NotStarved'
  BY DEF NotStarved
<1>4. Backlog'
  BY DEF Backlog
<1>5. Preparing'
  BY DEF Preparing
<1>6. Pointers'
  BY DEF Pointers, Streaming, Holding, TypeOK
<1>7. PoolConserved'
  BY DEF PoolConserved, Entries, Held, Streaming, Holding
<1>8. Leftovers'
  BY DEF Leftovers, Pullable, Held
<1>9. CleanPrepare'
  BY DEF CleanPrepare
<1>10. ExclusiveWhenClean'
  BY DEF ExclusiveWhenClean, OneOwner, Streaming, Holding
<1>. QED  BY <1>1, <1>2, <1>3, <1>4, <1>5, <1>6, <1>7, <1>8, <1>9, <1>10

\* The reply starts the preparation of the decoder, or ends the session.
LEMMA ReplyInv ==
  ASSUME Inv, RecvReply
  PROVE  Inv'
<1>. USE DEF Inv, notVpc, pool, videoLocals, decodeVars, history, Goto, RecvReply
<1>0. /\ receive_queue \in Seq(Frames) /\ Len(receive_queue) \in Nat
      /\ decode_queue \in Seq(Frames) /\ Len(decode_queue) \in Nat
  BY LenProperties DEF TypeOK
<1>1. TypeOK'
  BY <1>0, PoolAssumption DEF TypeOK, Holding, Streaming, Ending
<1>2. Owners'
  BY DEF Owners, Holding
<1>3. NotStarved'
  BY DEF NotStarved
<1>4. Backlog'
  BY DEF Backlog
<1>5. Preparing'
  BY PoolAssumption DEF Preparing, Pointers, TypeOK
<1>6. Pointers'
  BY DEF Pointers, Streaming, Holding
<1>7. PoolConserved'
  BY DEF PoolConserved, Entries, Held, Streaming, Holding
<1>8. Leftovers'
  BY DEF Leftovers, Pullable, Held
<1>9. CleanPrepare'
  <2>. SUFFICES ASSUME vpc' = "prepare", stale' = 0
                PROVE  CleanPrepare'
    BY DEF CleanPrepare
  <2>1. Len(receive_queue) + Len(decode_queue) + Held(decodeFrame) = 0
    BY DEF PoolConserved, Entries, Held, Owners, Holding, TypeOK
  <2>2. Len(receive_queue) = 0 /\ Len(decode_queue) = 0 /\ decodeFrame = NoFrame
    BY <2>1, <1>0 DEF Held
  <2>3. receive_queue = <<>> /\ decode_queue = <<>>
    BY <2>2, <1>0, EmptySeq
  <2>4. [i \in 1 .. 0 |-> i] = <<>>
    OBVIOUS
  <2>. QED  BY <2>2, <2>3, <2>4 DEF CleanPrepare
<1>10. ExclusiveWhenClean'
  BY DEF ExclusiveWhenClean, OneOwner, Streaming, Holding
<1>. QED  BY <1>1, <1>2, <1>3, <1>4, <1>5, <1>6, <1>7, <1>8, <1>9, <1>10

\* A JPEG fills the frame the video thread holds.
LEMMA BodyInv ==
  ASSUME Inv, RecvBody
  PROVE  Inv'
<1>. USE DEF Inv, notVpc, pool, videoLocals, decodeVars, history, Goto, RecvBody
<1>0. /\ receive_queue \in Seq(Frames) /\ Len(receive_queue) \in Nat
      /\ decode_queue \in Seq(Frames) /\ Len(decode_queue) \in Nat
  BY LenProperties DEF TypeOK
<1>1. TypeOK'
  <2>1. serial' \in Nat
    BY DEF TypeOK
  <2>2. content' = [content EXCEPT ![videoFrame] = serial']
    OBVIOUS
  <2>3. content' \in [Frames -> Nat]
    BY <2>1, <2>2 DEF TypeOK
  <2>. QED  BY <2>1, <2>3, <1>0 DEF TypeOK, Holding, Streaming, Ending
<1>2. Owners'
  BY DEF Owners, Holding
<1>3. NotStarved'
  BY DEF NotStarved
<1>4. Backlog'
  BY DEF Backlog
<1>5. Preparing'
  BY DEF Preparing
<1>6. Pointers'
  BY DEF Pointers, Streaming, Holding
<1>7. PoolConserved'
  BY DEF PoolConserved, Entries, Held, Streaming, Holding
<1>8. Leftovers'
  BY DEF Leftovers, Pullable, Held
<1>9. CleanPrepare'
  BY DEF CleanPrepare
<1>10. ExclusiveWhenClean'
  BY DEF ExclusiveWhenClean, OneOwner, Streaming, Holding
<1>. QED  BY <1>1, <1>2, <1>3, <1>4, <1>5, <1>6, <1>7, <1>8, <1>9, <1>10

\* The frame in hand is dropped, the session ends.
LEMMA RecvFailsInv ==
  ASSUME Inv, RecvFails
  PROVE  Inv'
<1>. USE DEF Inv, notVpc, pool, videoLocals, decodeVars, history, Goto, RecvFails
<1>1. TypeOK'
  BY DEF TypeOK, Holding, Streaming, Ending
<1>2. Owners'
  BY DEF Owners, Holding
<1>3. NotStarved'
  BY DEF NotStarved
<1>4. Backlog'
  BY DEF Backlog
<1>5. Preparing'
  BY DEF Preparing
<1>6. Pointers'
  BY DEF Pointers, Streaming, Holding
<1>7. PoolConserved'
  BY DEF PoolConserved, Entries, Held, Streaming, Holding
<1>8. Leftovers'
  BY DEF Leftovers, Pullable, Held
<1>9. CleanPrepare'
  BY DEF CleanPrepare
<1>10. ExclusiveWhenClean'
  BY DEF ExclusiveWhenClean, OneOwner, Streaming, Holding
<1>. QED  BY <1>1, <1>2, <1>3, <1>4, <1>5, <1>6, <1>7, <1>8, <1>9, <1>10

\* v_active is reset.
LEMMA EarlyOutInv ==
  ASSUME Inv, EarlyOut
  PROVE  Inv'
<1>. USE DEF Inv, notVpc, pool, videoLocals, decodeVars, history, Goto, EarlyOut
<1>1. TypeOK'
  BY DEF TypeOK, Holding, Streaming, Ending
<1>2. Owners'
  BY DEF Owners, Holding
<1>3. NotStarved'
  BY DEF NotStarved
<1>4. Backlog'
  BY DEF Backlog
<1>5. Preparing'
  BY DEF Preparing
<1>6. Pointers'
  BY DEF Pointers, Streaming, Holding
<1>7. PoolConserved'
  BY DEF PoolConserved, Entries, Held, Streaming, Holding
<1>8. Leftovers'
  BY DEF Leftovers, Pullable, Held
<1>9. CleanPrepare'
  BY DEF CleanPrepare
<1>10. ExclusiveWhenClean'
  BY DEF ExclusiveWhenClean, OneOwner, Streaming, Holding
<1>. QED  BY <1>1, <1>2, <1>3, <1>4, <1>5, <1>6, <1>7, <1>8, <1>9, <1>10

\* decoder_cleanup frees m_inBuf.
LEMMA FreeInv ==
  ASSUME Inv, FreeBuffers
  PROVE  Inv'
<1>. USE DEF Inv, notVpc, pool, videoLocals, decodeVars, history, Goto, FreeBuffers
<1>1. TypeOK'
  BY DEF TypeOK, Holding, Streaming, Ending
<1>2. Owners'
  BY DEF Owners, Holding
<1>3. NotStarved'
  BY DEF NotStarved
<1>4. Backlog'
  BY DEF Backlog
<1>5. Preparing'
  BY DEF Preparing
<1>6. Pointers'
  BY DEF Pointers, Streaming, Holding
<1>7. PoolConserved'
  BY DEF PoolConserved, Entries, Held, Streaming, Holding
<1>8. Leftovers'
  BY DEF Leftovers, Pullable, Held
<1>9. CleanPrepare'
  BY DEF CleanPrepare
<1>10. ExclusiveWhenClean'
  BY DEF ExclusiveWhenClean, OneOwner, Streaming, Holding
<1>. QED  BY <1>1, <1>2, <1>3, <1>4, <1>5, <1>6, <1>7, <1>8, <1>9, <1>10

\* The decode thread ends.
LEMMA DecodeEndsInv ==
  ASSUME Inv, DecodeEnds
  PROVE  Inv'
<1>. USE DEF Inv, notVpc, pool, videoLocals, decodeVars, history, Goto, DecodeEnds
<1>1. TypeOK'
  BY DEF TypeOK, Holding, Streaming, Ending
<1>2. Owners'
  BY DEF Owners, Holding
<1>3. NotStarved'
  BY DEF NotStarved
<1>4. Backlog'
  BY DEF Backlog
<1>5. Preparing'
  BY DEF Preparing
<1>6. Pointers'
  BY DEF Pointers, Streaming, Holding
<1>7. PoolConserved'
  BY DEF PoolConserved, Entries, Held, Streaming, Holding
<1>8. Leftovers'
  BY DEF Leftovers, Pullable, Held
<1>9. CleanPrepare'
  BY DEF CleanPrepare
<1>10. ExclusiveWhenClean'
  BY DEF ExclusiveWhenClean, OneOwner, Streaming, Holding
<1>. QED  BY <1>1, <1>2, <1>3, <1>4, <1>5, <1>6, <1>7, <1>8, <1>9, <1>10

\* A frame is displayed or skipped.
LEMMA ProcessInv ==
  ASSUME Inv, ProcessFrame
  PROVE  Inv'
<1>. USE DEF Inv, notVpc, pool, videoLocals, decodeVars, history, Goto, ProcessFrame
<1>0. /\ receive_queue \in Seq(Frames) /\ Len(receive_queue) \in Nat
      /\ decode_queue \in Seq(Frames) /\ Len(decode_queue) \in Nat
  BY LenProperties DEF TypeOK
<1>1. TypeOK'
  <2>1. shown' \in Nat
    BY DEF TypeOK, Owners
  <2>. QED  BY <2>1, <1>0 DEF TypeOK, Holding, Streaming, Ending
<1>2. Owners'
  BY DEF Owners, Holding
<1>3. NotStarved'
  BY DEF NotStarved
<1>4. Backlog'
  BY DEF Backlog
<1>5. Preparing'
  BY DEF Preparing
<1>6. Pointers'
  BY DEF Pointers, Streaming, Holding
<1>7. PoolConserved'
  BY DEF PoolConserved, Entries, Held, Streaming, Holding
<1>8. Leftovers'
  BY DEF Leftovers, Pullable, Held
<1>9. CleanPrepare'
  BY DEF CleanPrepare
<1>10. ExclusiveWhenClean'
  BY DEF ExclusiveWhenClean, OneOwner, Streaming, Holding
<1>. QED  BY <1>1, <1>2, <1>3, <1>4, <1>5, <1>6, <1>7, <1>8, <1>9, <1>10

\* v_running is reset.
LEMMA StopInv ==
  ASSUME Inv, Stop
  PROVE  Inv'
<1>. USE DEF Inv, notVpc, pool, videoLocals, decodeVars, history, Goto, Stop
<1>1. TypeOK'
  BY DEF TypeOK, Holding, Streaming, Ending
<1>2. Owners'
  BY DEF Owners, Holding
<1>3. NotStarved'
  BY DEF NotStarved
<1>4. Backlog'
  BY DEF Backlog
<1>5. Preparing'
  BY DEF Preparing
<1>6. Pointers'
  BY DEF Pointers, Streaming, Holding
<1>7. PoolConserved'
  BY DEF PoolConserved, Entries, Held, Streaming, Holding
<1>8. Leftovers'
  BY DEF Leftovers, Pullable, Held
<1>9. CleanPrepare'
  BY DEF CleanPrepare
<1>10. ExclusiveWhenClean'
  BY DEF ExclusiveWhenClean, OneOwner, Streaming, Holding
<1>. QED  BY <1>1, <1>2, <1>3, <1>4, <1>5, <1>6, <1>7, <1>8, <1>9, <1>10

\* Both threads have ended.
LEMMA JoinInv ==
  ASSUME Inv, Join
  PROVE  Inv'
<1>. USE DEF Inv, notVpc, pool, videoLocals, decodeVars, history, Goto, Join
<1>1. TypeOK'
  BY DEF TypeOK, Holding, Streaming, Ending
<1>2. Owners'
  BY DEF Owners, Holding
<1>3. NotStarved'
  BY DEF NotStarved
<1>4. Backlog'
  BY DEF Backlog
<1>5. Preparing'
  BY DEF Preparing
<1>6. Pointers'
  BY DEF Pointers, Streaming, Holding
<1>7. PoolConserved'
  BY DEF PoolConserved, Entries, Held, Streaming, Holding
<1>8. Leftovers'
  BY DEF Leftovers, Pullable, Held
<1>9. CleanPrepare'
  BY DEF CleanPrepare
<1>10. ExclusiveWhenClean'
  BY DEF ExclusiveWhenClean, OneOwner, Streaming, Holding
<1>. QED  BY <1>1, <1>2, <1>3, <1>4, <1>5, <1>6, <1>7, <1>8, <1>9, <1>10

\* The threads start.
LEMMA StartInv ==
  ASSUME Inv, Start
  PROVE  Inv'
<1>. USE DEF Inv, notVpc, pool, videoLocals, decodeVars, history, Goto, Start
<1>1. TypeOK'
  BY DEF TypeOK, Holding, Streaming, Ending
<1>2. Owners'
  BY DEF Owners, Holding
<1>3. NotStarved'
  BY DEF NotStarved
<1>4. Backlog'
  BY DEF Backlog
<1>5. Preparing'
  BY DEF Preparing
<1>6. Pointers'
  BY DEF Pointers, Streaming, Holding, TypeOK
<1>7. PoolConserved'
  BY DEF PoolConserved, Entries, Held, Streaming, Holding, Owners
<1>8. Leftovers'
  BY DEF Leftovers, Pullable, Held
<1>9. CleanPrepare'
  BY DEF CleanPrepare
<1>10. ExclusiveWhenClean'
  BY DEF ExclusiveWhenClean, OneOwner, Streaming, Holding
<1>. QED  BY <1>1, <1>2, <1>3, <1>4, <1>5, <1>6, <1>7, <1>8, <1>9, <1>10

\* decoder_prepare_video adds one frame.
LEMMA PrepareFrameInv ==
  ASSUME Inv, PrepareFrame
  PROVE  Inv'
<1>. USE DEF Inv, notVpc, pool, videoLocals, decodeVars, history, Goto, PrepareFrame
<1>0. /\ receive_queue \in Seq(Frames) /\ Len(receive_queue) \in Nat
      /\ decode_queue \in Seq(Frames) /\ Len(decode_queue) \in Nat
  BY LenProperties DEF TypeOK
<1>a. /\ prepared \in Nat /\ JPG_BACKBUF_MAX \in Nat /\ prepared < JPG_BACKBUF_MAX
      /\ prepared' = prepared + 1 /\ prepared' \in Frames
      /\ vpc = "prepare" /\ vpc' \in {"prepare", "loop"}
      /\ vpc' = "loop" => prepared' = JPG_BACKBUF_MAX
  BY PoolAssumption DEF Preparing, TypeOK, Frames
<1>b. /\ receive_queue' \in Seq(Frames)
      /\ Len(receive_queue') = Len(receive_queue) + 1
  BY <1>0, <1>a, AppendFacts
<1>c. stale = 0 => /\ decode_queue' = <<>> /\ decodeFrame' = NoFrame
                   /\ receive_queue' = [i \in 1 .. prepared' |-> i]
  <2>. SUFFICES ASSUME stale = 0
                PROVE  /\ decode_queue' = <<>> /\ decodeFrame' = NoFrame
                       /\ receive_queue' = [i \in 1 .. prepared' |-> i]
    BY DEF CleanPrepare
  <2>1. receive_queue = [i \in 1 .. prepared |-> i] /\ Len(receive_queue) = prepared
    BY <1>0, <1>a DEF CleanPrepare, TypeOK
  <2>2. /\ receive_queue' = Append(receive_queue, prepared + 1)
        /\ Append(receive_queue, prepared + 1) = [i \in 1 .. prepared + 1 |-> i]
    BY <2>1, <1>0, <1>a
  <2>. QED  BY <2>2, <1>a DEF CleanPrepare
<1>1. TypeOK'
  BY <1>0, <1>a, <1>b, PoolAssumption DEF TypeOK, Holding, Streaming, Ending
<1>2. Owners'
  BY <1>a DEF Owners, Holding
<1>3. NotStarved'
  BY <1>0, <1>b DEF NotStarved
<1>4. Backlog'
  BY <1>0, <1>a, LimitAssumption DEF Backlog
<1>5. Preparing'
  <2>1. \A i \in 1 .. prepared' : data'[i] = inBuf
    BY <1>a DEF Preparing, TypeOK, Frames
  <2>. QED  BY <2>1, <1>a DEF Preparing
<1>6. Pointers'
  <2>1. \A i \in 1 .. prepared' : data'[i] = inBuf
    BY <1>a DEF Preparing, TypeOK, Frames
  <2>2. vpc' = "loop" /\ stale = 0 => dpc # "process"
    BY <1>a DEF CleanPrepare, Owners
  <2>. QED  BY <2>1, <2>2, <1>a DEF Pointers, Preparing, Streaming, Holding, Frames
<1>7. PoolConserved'
  BY <1>0, <1>a, <1>b DEF PoolConserved, Entries, Held, Streaming, Holding, TypeOK
<1>8. Leftovers'
  BY <1>a DEF Leftovers
<1>9. CleanPrepare'
  BY <1>c DEF CleanPrepare
<1>10. ExclusiveWhenClean'
  <2>. SUFFICES ASSUME stale = 0, vpc' = "loop"
                PROVE  OneOwner'
    BY <1>a DEF ExclusiveWhenClean, Streaming, Holding
  <2>1. videoFrame' = NoFrame /\ decodeFrame' = NoFrame /\ decode_queue' = <<>>
    BY <1>a, <1>c DEF Owners, Holding
  <2>2. Range(decode_queue') = {} /\ IsInjective(decode_queue')
    BY <2>1, EmptyFacts
  <2>3. IsInjective(receive_queue') /\ NoFrame \notin Range(receive_queue')
    <3>1. prepared' \in Nat /\ receive_queue' = [i \in 1 .. prepared' |-> i]
      BY <1>a, <1>c
    <3>2. IsInjective(receive_queue') /\ Range(receive_queue') = 1 .. prepared'
      BY <3>1, PreparedFacts
    <3>. QED  BY <3>1, <3>2 DEF NoFrame
  <2>. QED  BY <2>1, <2>2, <2>3 DEF OneOwner
<1>. QED  BY <1>1, <1>2, <1>3, <1>4, <1>5, <1>6, <1>7, <1>8, <1>9, <1>10

\* The video thread pulls a frame: there is one.
LEMMA PullEmptyInv ==
  ASSUME Inv, PullEmpty
  PROVE  Inv'
<1>. USE DEF Inv, notVpc, pool, videoLocals, decodeVars, history, Goto, PullEmpty
<1>0. /\ receive_queue \in Seq(Frames) /\ Len(receive_queue) \in Nat
      /\ decode_queue \in Seq(Frames) /\ Len(decode_queue) \in Nat
  BY LenProperties DEF TypeOK
<1>a. /\ Len(receive_queue) > 0 /\ vpc = "loop" /\ vpc' = "header"
      /\ videoFrame' = Head(receive_queue) /\ receive_queue' = Tail(receive_queue)
  BY DEF NotStarved
<1>t. /\ Head(receive_queue) \in Frames /\ Tail(receive_queue) \in Seq(Frames)
      /\ Len(Tail(receive_queue)) = Len(receive_queue) - 1
      /\ Range(receive_queue)
           = {Head(receive_queue)} \union Range(Tail(receive_queue))
      /\ IsInjective(receive_queue) =>
           /\ IsInjective(Tail(receive_queue))
           /\ Head(receive_queue) \notin Range(Tail(receive_queue))
  BY <1>0, <1>a, TailFacts
<1>b. /\ videoFrame' = Head(receive_queue) /\ videoFrame' \in Frames
      /\ receive_queue' = Tail(receive_queue) /\ receive_queue' \in Seq(Frames)
      /\ Len(receive_queue') = Len(receive_queue) - 1
      /\ Range(receive_queue) = {videoFrame'} \union Range(receive_queue')
      /\ IsInjective(receive_queue) =>
           IsInjective(receive_queue') /\ videoFrame' \notin Range(receive_queue')
  BY <1>a, <1>t
<1>1. TypeOK'
  BY <1>a, <1>b DEF TypeOK, Holding, Streaming, Ending
<1>2. Owners'
  BY <1>a, <1>b DEF Owners, Holding, Frames, NoFrame
<1>3. NotStarved'
  BY <1>a DEF NotStarved
<1>4. Backlog'
  BY <1>a DEF Backlog
<1>5. Preparing'
  BY <1>a DEF Preparing
<1>6. Pointers'
  BY <1>a DEF Pointers, Streaming, Holding
<1>7. PoolConserved'
  <2>1. videoFrame = NoFrame /\ videoFrame' # NoFrame
    BY <1>a, <1>b DEF Owners, Holding, Frames, NoFrame
  <2>2. Len(receive_queue') = Len(receive_queue) - 1 /\ decode_queue' = decode_queue
    BY <1>b
  <2>3. Entries' = Entries
    BY <2>1, <2>2, <1>0 DEF Entries, Held
  <2>. QED  BY <2>3, <1>a DEF PoolConserved, Streaming, Holding
<1>8. Leftovers'
  BY <1>a DEF Leftovers
<1>9. CleanPrepare'
  BY <1>a DEF CleanPrepare
<1>10. ExclusiveWhenClean'
  <2>. SUFFICES ASSUME stale = 0  PROVE OneOwner'
    BY DEF ExclusiveWhenClean
  <2>1. OneOwner
    BY <1>a DEF ExclusiveWhenClean, Streaming
  <2>. QED  BY <2>1, <1>b DEF OneOwner
<1>. QED  BY <1>1, <1>2, <1>3, <1>4, <1>5, <1>6, <1>7, <1>8, <1>9, <1>10

\* The filled frame goes to one of the queues.
LEMMA PushAddInv ==
  ASSUME Inv, PushAdd
  PROVE  Inv'
<1>. USE DEF Inv, notVpc, pool, videoLocals, decodeVars, history, Goto, PushAdd
<1>0. /\ receive_queue \in Seq(Frames) /\ Len(receive_queue) \in Nat
      /\ decode_queue \in Seq(Frames) /\ Len(decode_queue) \in Nat
  BY LenProperties DEF TypeOK
<1>a. videoFrame \in Frames /\ vpc \in {"pushR", "pushD"} /\ vpc' = "loop"
  BY DEF Owners, Holding, TypeOK
<1>b. videoFrame' = NoFrame /\ NoFrame \notin Frames
  BY DEF Frames, NoFrame
<1>c. CASE vpc = "pushR"
  <2>a. /\ receive_queue' = Append(receive_queue, videoFrame)
        /\ decode_queue' = decode_queue
    BY <1>c
  <2>b. /\ receive_queue' \in Seq(Frames)
        /\ Len(receive_queue') = Len(receive_queue) + 1
        /\ Range(receive_queue') = Range(receive_queue) \union {videoFrame}
        /\ IsInjective(receive_queue) /\ videoFrame \notin Range(receive_queue)
             => IsInjective(receive_queue')
    BY <2>a, <1>0, <1>a, AppendFacts
  <2>1. TypeOK'
    BY <1>0, <1>a, <1>b, <2>a, <2>b DEF TypeOK, Holding, Streaming, Ending
  <2>2. Owners'
    BY <1>a, <1>b DEF Owners, Holding
  <2>3. NotStarved'
    BY <1>0, <1>c, <2>a, <2>b DEF NotStarved
  <2>4. Backlog'
    BY <1>0, <1>a, <1>c, <2>a, <2>b, LimitAssumption DEF Backlog
  <2>5. Preparing'
    BY <1>a DEF Preparing
  <2>6. Pointers'
    BY <1>a DEF Pointers, Streaming, Holding
  <2>7. PoolConserved'
    <3>1. Held(videoFrame) = 1 /\ Held(videoFrame') = 0
      BY <1>a, <1>b DEF Held
    <3>2. Entries' = Entries
      BY <3>1, <1>0, <2>a, <2>b DEF Entries, Held
    <3>. QED  BY <3>2, <1>a DEF PoolConserved, Streaming, Holding
  <2>8. Leftovers'
    BY <1>a DEF Leftovers
  <2>9. CleanPrepare'
    BY <1>a DEF CleanPrepare
  <2>10. ExclusiveWhenClean'
    <3>. SUFFICES ASSUME stale = 0  PROVE OneOwner'
      BY DEF ExclusiveWhenClean
    <3>1. OneOwner
      BY <1>a DEF ExclusiveWhenClean, Streaming, Holding
    <3>2. NoFrame \notin Range(receive_queue) \union Range(decode_queue)
      BY <1>0, <1>b, RangeFacts
    <3>. QED  BY <3>1, <3>2, <1>a, <1>b, <2>a, <2>b DEF OneOwner
  <2>. QED  BY <2>1, <2>2, <2>3, <2>4, <2>5, <2>6, <2>7, <2>8, <2>9, <2>10
<1>d. CASE vpc = "pushD"
  <2>a. /\ decode_queue' = Append(decode_queue, videoFrame)
        /\ receive_queue' = receive_queue
    BY <1>d
  <2>b. /\ decode_queue' \in Seq(Frames)
        /\ Len(decode_queue') = Len(decode_queue) + 1
        /\ Range(decode_queue') = Range(decode_queue) \union {videoFrame}
        /\ IsInjective(decode_queue) /\ videoFrame \notin Range(decode_queue)
             => IsInjective(decode_queue')
    BY <2>a, <1>0, <1>a, AppendFacts
  <2>1. TypeOK'
    BY <1>0, <1>a, <1>b, <2>a, <2>b DEF TypeOK, Holding, Streaming, Ending
  <2>2. Owners'
    BY <1>a, <1>b DEF Owners, Holding
  <2>3. NotStarved'
    BY <1>0, <1>d, <2>a, <2>b DEF NotStarved
  <2>4. Backlog'
    BY <1>0, <1>a, <1>d, <2>a, <2>b, LimitAssumption DEF Backlog
  <2>5. Preparing'
    BY <1>a DEF Preparing
  <2>6. Pointers'
    BY <1>a DEF Pointers, Streaming, Holding
  <2>7. PoolConserved'
    <3>1. Held(videoFrame) = 1 /\ Held(videoFrame') = 0
      BY <1>a, <1>b DEF Held
    <3>2. Entries' = Entries
      BY <3>1, <1>0, <2>a, <2>b DEF Entries, Held
    <3>. QED  BY <3>2, <1>a DEF PoolConserved, Streaming, Holding
  <2>8. Leftovers'
    BY <1>a DEF Leftovers
  <2>9. CleanPrepare'
    BY <1>a DEF CleanPrepare
  <2>10. ExclusiveWhenClean'
    <3>. SUFFICES ASSUME stale = 0  PROVE OneOwner'
      BY DEF ExclusiveWhenClean
    <3>1. OneOwner
      BY <1>a DEF ExclusiveWhenClean, Streaming, Holding
    <3>2. NoFrame \notin Range(receive_queue) \union Range(decode_queue)
      BY <1>0, <1>b, RangeFacts
    <3>. QED  BY <3>1, <3>2, <1>a, <1>b, <2>a, <2>b DEF OneOwner
  <2>. QED  BY <2>1, <2>2, <2>3, <2>4, <2>5, <2>6, <2>7, <2>8, <2>9, <2>10
<1>. QED  BY <1>a, <1>c, <1>d

\* queue_clear(&receive_queue): what the decode thread holds, and what it can still
\* pull, are the leftovers.
LEMMA ClearReceiveInv ==
  ASSUME Inv, ClearReceive
  PROVE  Inv'
<1>. USE DEF Inv, notVpc, pool, videoLocals, decodeVars, history, Goto, ClearReceive
<1>0. /\ receive_queue \in Seq(Frames) /\ Len(receive_queue) \in Nat
      /\ decode_queue \in Seq(Frames) /\ Len(decode_queue) \in Nat
  BY LenProperties DEF TypeOK
<1>a. <<>> \in Seq(Frames) /\ Len(<<>>) = 0
  BY EmptyFacts
<1>1. TypeOK'
  BY <1>0, <1>a DEF TypeOK, Holding, Streaming, Ending
<1>2. Owners'
  BY DEF Owners, Holding
<1>3. NotStarved'
  BY DEF NotStarved
<1>4. Backlog'
  BY DEF Backlog
<1>5. Preparing'
  BY DEF Preparing
<1>6. Pointers'
  BY DEF Pointers, Streaming, Holding
<1>7. PoolConserved'
  BY DEF PoolConserved, Entries, Held, Streaming, Holding
<1>8. Leftovers'
  <2>1. Pullable \in Nat /\ Pullable <= 1
    BY <1>0, LimitAssumption DEF Backlog, Pullable
  <2>2. Held(decodeFrame) \in Nat /\ Held(decodeFrame) <= 1
    BY DEF Held
  <2>3. Len(receive_queue') + Held(decodeFrame) + Pullable <= 2
    BY <1>a, <2>1, <2>2
  <2>. QED  BY <2>3 DEF Leftovers, Pullable, Held
<1>9. CleanPrepare'
  BY DEF CleanPrepare
<1>10. ExclusiveWhenClean'
  BY DEF ExclusiveWhenClean, OneOwner, Streaming, Holding
<1>. QED  BY <1>1, <1>2, <1>3, <1>4, <1>5, <1>6, <1>7, <1>8, <1>9, <1>10

\* queue_clear(&decode_queue) leaves what the decode thread put back or holds.
LEMMA ClearDecodeInv ==
  ASSUME Inv, ClearDecode
  PROVE  Inv'
<1>. USE DEF Inv, notVpc, pool, videoLocals, decodeVars, history, Goto, ClearDecode
<1>0. /\ receive_queue \in Seq(Frames) /\ Len(receive_queue) \in Nat
      /\ decode_queue \in Seq(Frames) /\ Len(decode_queue) \in Nat
  BY LenProperties DEF TypeOK
<1>a. <<>> \in Seq(Frames) /\ Len(<<>>) = 0
  BY EmptyFacts
<1>1. TypeOK'
  <2>1. stale' \in Nat
    BY <1>0
  <2>. QED  BY <1>0, <1>a, <2>1 DEF TypeOK, Holding, Streaming, Ending
<1>2. Owners'
  BY DEF Owners, Holding
<1>3. NotStarved'
  BY DEF NotStarved
<1>4. Backlog'
  BY <1>a, LimitAssumption DEF Backlog
<1>5. Preparing'
  BY DEF Preparing
<1>6. Pointers'
  BY DEF Pointers, Streaming, Holding
<1>7. PoolConserved'
  <2>1. videoFrame = NoFrame
    BY DEF Owners, Holding
  <2>. QED  BY <2>1, <1>0, <1>a DEF PoolConserved, Entries, Held, Streaming, Holding
<1>8. Leftovers'
  <2>1. Pullable \in Nat
    BY <1>0, LimitAssumption DEF Pullable
  <2>2. stale' = Len(receive_queue) + Held(decodeFrame) /\ Held(decodeFrame) \in Nat
    BY DEF Held
  <2>3. stale' <= 2
    BY <1>0, <2>1, <2>2 DEF Leftovers
  <2>. QED  BY <2>3 DEF Leftovers
<1>9. CleanPrepare'
  BY DEF CleanPrepare
<1>10. ExclusiveWhenClean'
  BY DEF ExclusiveWhenClean, OneOwner, Streaming, Holding
<1>. QED  BY <1>1, <1>2, <1>3, <1>4, <1>5, <1>6, <1>7, <1>8, <1>9, <1>10

\* The decode thread pulls a frame.
LEMMA PullReadyInv ==
  ASSUME Inv, PullReady
  PROVE  Inv'
<1>. USE DEF Inv, notVpc, pool, videoLocals, decodeVars, history, Goto, PullReady
<1>0. /\ receive_queue \in Seq(Frames) /\ Len(receive_queue) \in Nat
      /\ decode_queue \in Seq(Frames) /\ Len(decode_queue) \in Nat
  BY LenProperties DEF TypeOK
<1>a. /\ Len(decode_queue) > m_BufferLimit /\ Len(decode_queue) > 0
      /\ decodeFrame = NoFrame
      /\ decodeFrame' = Head(decode_queue) /\ decode_queue' = Tail(decode_queue)
  BY <1>0, LimitAssumption DEF Owners
<1>t. /\ Head(decode_queue) \in Frames /\ Tail(decode_queue) \in Seq(Frames)
      /\ Len(Tail(decode_queue)) = Len(decode_queue) - 1
      /\ Range(decode_queue)
           = {Head(decode_queue)} \union Range(Tail(decode_queue))
      /\ IsInjective(decode_queue) =>
           /\ IsInjective(Tail(decode_queue))
           /\ Head(decode_queue) \notin Range(Tail(decode_queue))
  BY <1>0, <1>a, TailFacts
<1>b. /\ decodeFrame' \in Frames /\ decodeFrame' # NoFrame
      /\ decode_queue' \in Seq(Frames)
      /\ Len(decode_queue') = Len(decode_queue) - 1
      /\ Range(decode_queue) = {decodeFrame'} \union Range(decode_queue')
      /\ IsInjective(decode_queue) =>
           IsInjective(decode_queue') /\ decodeFrame' \notin Range(decode_queue')
  BY <1>a, <1>t DEF Frames, NoFrame
<1>1. TypeOK'
  <2>1. decodeBuf' \in Nat
    BY <1>b DEF TypeOK
  <2>. QED  BY <1>b, <2>1 DEF TypeOK
<1>2. Owners'
  BY <1>b DEF Owners, Holding
<1>3. NotStarved'
  BY DEF NotStarved
<1>4. Backlog'
  BY <1>0, <1>b, LimitAssumption DEF Backlog
<1>5. Preparing'
  BY DEF Preparing
<1>6. Pointers'
  BY <1>b DEF Pointers
<1>7. PoolConserved'
  <2>1. Len(decode_queue') = Len(decode_queue) - 1
    BY <1>b
  <2>2. Entries' = Entries
    BY <2>1, <1>0, <1>a, <1>b DEF Entries, Held
  <2>. QED  BY <2>2 DEF PoolConserved
<1>8. Leftovers'
  <2>. SUFFICES ASSUME vpc = "clearD"
                PROVE  Len(receive_queue) + Held(decodeFrame') + Pullable' <= 2
    BY DEF Leftovers
  <2>1. Pullable = Len(decode_queue) - m_BufferLimit
    BY <1>a DEF Pullable
  <2>a. Pullable' = IF Len(decode_queue') > m_BufferLimit
                      THEN Len(decode_queue') - m_BufferLimit ELSE 0
    BY DEF Pullable
  <2>b. Len(decode_queue') = Len(decode_queue) - 1
    BY <1>b
  <2>2. Pullable' = Pullable - 1
    BY <2>1, <2>a, <2>b, <1>0, <1>a, LimitAssumption
  <2>3. Len(receive_queue) + Pullable <= 2
    BY <1>0, <1>a, <2>1, LimitAssumption DEF Leftovers, Held
  <2>. QED  BY <2>1, <2>2, <2>3, <1>0, <1>b, LimitAssumption DEF Held
<1>9. CleanPrepare'
  <2>1. ~(vpc = "prepare" /\ stale = 0)
    BY <1>a DEF CleanPrepare
  <2>. QED  BY <2>1 DEF CleanPrepare
<1>10. ExclusiveWhenClean'
  <2>. SUFFICES ASSUME vpc \in Streaming, stale = 0  PROVE OneOwner'
    BY DEF ExclusiveWhenClean
  <2>1. OneOwner
    BY DEF ExclusiveWhenClean
  <2>. QED  BY <2>1, <1>b DEF OneOwner
<1>. QED  BY <1>1, <1>2, <1>3, <1>4, <1>5, <1>6, <1>7, <1>8, <1>9, <1>10

\* The decoded frame goes back to the receive queue.
LEMMA ReturnFrameInv ==
  ASSUME Inv, ReturnFrame
  PROVE  Inv'
<1>. USE DEF Inv, notVpc, pool, videoLocals, decodeVars, history, Goto, ReturnFrame
<1>0. /\ receive_queue \in Seq(Frames) /\ Len(receive_queue) \in Nat
      /\ decode_queue \in Seq(Frames) /\ Len(decode_queue) \in Nat
  BY LenProperties DEF TypeOK
<1>a. decodeFrame \in Frames /\ decodeFrame # NoFrame /\ decodeFrame' = NoFrame
  BY DEF Owners, TypeOK
<1>b. /\ receive_queue' \in Seq(Frames)
      /\ Len(receive_queue') = Len(receive_queue) + 1
      /\ Range(receive_queue') = Range(receive_queue) \union {decodeFrame}
      /\ IsInjective(receive_queue) /\ decodeFrame \notin Range(receive_queue)
           => IsInjective(receive_queue')
  BY <1>0, <1>a, AppendFacts
<1>1. TypeOK'
  BY <1>a, <1>b DEF TypeOK
<1>2. Owners'
  BY <1>a DEF Owners
<1>3. NotStarved'
  BY <1>0, <1>b DEF NotStarved
<1>4. Backlog'
  BY DEF Backlog
<1>5. Preparing'
  BY DEF Preparing
<1>6. Pointers'
  BY DEF Pointers
<1>7. PoolConserved'
  <2>1. Entries' = Entries
    BY <1>0, <1>a, <1>b DEF Entries, Held
  <2>. QED  BY <2>1 DEF PoolConserved
<1>8. Leftovers'
  BY <1>0, <1>a, <1>b DEF Leftovers, Pullable, Held
<1>9. CleanPrepare'
  <2>1. ~(vpc = "prepare" /\ stale = 0)
    BY <1>a DEF CleanPrepare
  <2>. QED  BY <2>1 DEF CleanPrepare
<1>10. ExclusiveWhenClean'
  <2>. SUFFICES ASSUME vpc \in Streaming, stale = 0  PROVE OneOwner'
    BY DEF ExclusiveWhenClean
  <2>1. OneOwner
    BY DEF ExclusiveWhenClean
  <2>2. NoFrame \notin Frames
    BY DEF Frames, NoFrame
  <2>3. NoFrame \notin Range(receive_queue) \union Range(decode_queue)
    BY <1>0, <2>2, RangeFacts
  <2>. QED  BY <2>1, <2>3, <1>a, <1>b DEF OneOwner
<1>. QED  BY <1>1, <1>2, <1>3, <1>4, <1>5, <1>6, <1>7, <1>8, <1>9, <1>10

\* decoder_fini, after both threads have ended.
LEMMA FiniInv ==
  ASSUME Inv, Fini
  PROVE  Inv'
<1>. USE DEF Inv, notVpc, pool, videoLocals, decodeVars, history, Goto, Fini
<1>a. <<>> \in Seq(Frames) /\ Len(<<>>) = 0
  BY EmptyFacts
<1>b. /\ vpc = "done" /\ videoFrame = NoFrame /\ decodeFrame = NoFrame
  BY DEF Owners, Holding
<1>1. TypeOK'
  BY <1>a, <1>b DEF TypeOK, Holding, Streaming, Ending
<1>2. Owners'
  BY DEF Owners, Holding
<1>3. NotStarved'
  BY <1>b DEF NotStarved
<1>4. Backlog'
  BY <1>a, <1>b, LimitAssumption DEF Backlog
<1>5. Preparing'
  BY <1>b DEF Preparing
<1>6. Pointers'
  BY <1>b DEF Pointers, Streaming, Holding
<1>7. PoolConserved'
  BY <1>a, <1>b DEF PoolConserved, Entries, Held, Streaming, Holding
<1>8. Leftovers'
  BY <1>b DEF Leftovers
<1>9. CleanPrepare'
  BY <1>b DEF CleanPrepare
<1>10. ExclusiveWhenClean'
  BY <1>b DEF ExclusiveWhenClean, Streaming, Holding
<1>. QED  BY <1>1, <1>2, <1>3, <1>4, <1>5, <1>6, <1>7, <1>8, <1>9, <1>10

\* Every step of the system preserves the invariant.
LEMMA NextInv == Inv /\ [Next]_vars => Inv'
<1>. SUFFICES ASSUME Inv, [Next]_vars  PROVE Inv'
  OBVIOUS
<1>1. CASE VideoStep
  BY <1>1, MoveInv, PrepareFrameInv, PullEmptyInv, PushAddInv, EarlyOutInv,
     FreeInv, ClearReceiveInv, ClearDecodeInv DEF VideoStep
<1>2. CASE PeerStep
  BY <1>2, MoveInv, AcceptInv, ReplyInv, BodyInv, RecvFailsInv DEF PeerStep
<1>3. CASE DecodeStep
  BY <1>3, PullReadyInv, DecodeEndsInv, ProcessInv, ReturnFrameInv DEF DecodeStep
<1>4. CASE Start \/ Stop \/ Join \/ Fini
  BY <1>4, StartInv, StopInv, JoinInv, FiniInv
<1>5. CASE UNCHANGED vars
  BY <1>5 DEF vars, notVpc, pool, videoLocals, decodeVars, history, Inv, TypeOK,
     Owners, NotStarved, Backlog, Preparing, Pointers, PoolConserved, Entries,
     Leftovers, Pullable, CleanPrepare, ExclusiveWhenClean, OneOwner
<1>. QED  BY <1>1, <1>2, <1>3, <1>4, <1>5 DEF Next

\* The inductive invariant holds in every reachable state.
THEOREM Invariance == Spec => []Inv
  BY InitInv, NextInv, PTL DEF Spec

-----------------------------------------------------------------------------
(* The properties.                                                         *)

\* Every variable keeps its type, for every pool size and limit.
THEOREM TypeCorrect == Spec => []TypeOK
  BY Invariance, PTL DEF Inv

\* The video thread never fills a NULL frame, though pull_empty_jpg_frame's
\* result is not tested.
THEOREM NeverNull == Spec => []PullNeverNull
<1>1. Inv => PullNeverNull
  BY DEF Inv, Owners, TypeOK, PullNeverNull
<1>. QED  BY <1>1, Invariance, PTL

\* No entry of the frame pool is lost or invented while a session streams.
THEOREM Conservation == Spec => []PoolConserved
  BY Invariance, PTL DEF Inv

\* At most two entries outlive a cleanup, in any number of sessions.
THEOREM LeftoverBound == Spec => []StaleBounded
<1>1. Inv => StaleBounded
  BY DEF Inv, Leftovers, StaleBounded
<1>. QED  BY <1>1, Invariance, PTL

\* The unlocked size test still bounds the decode queue.
THEOREM BacklogBound == Spec => []BacklogBounded
<1>1. Inv => BacklogBounded
  BY DEF Inv, Backlog, BacklogBounded
<1>. QED  BY <1>1, Invariance, PTL

\* In a session without leftovers, every frame has one owner.
THEOREM Exclusivity == Spec => []ExclusiveWhenClean
  BY Invariance, PTL DEF Inv

\* recv fills, and a clean decode thread reads, the current session's buffer.
THEOREM BuffersLive == Spec => []LiveBuffers
<1>1. Inv => LiveBuffers
  BY DEF Inv, Owners, TypeOK, Pointers, LiveBuffers, Streaming
<1>. QED  BY <1>1, Invariance, PTL

\* No step replaces the JPEG that a clean decode thread is reading: the one
\* step that writes a frame, RecvBody, writes the one the video thread owns.
THEOREM NeverTorn == Spec => NotTorn
<1>. DEFINE Same == dpc = "process" /\ stale = 0
                      => content'[decodeFrame] = content[decodeFrame]
<1>1. Inv /\ [Next]_vars => [Same]_vars
  <2>. SUFFICES ASSUME Inv, Next  PROVE Same
    OBVIOUS
  <2>1. CASE RecvBody
    <3>. SUFFICES ASSUME dpc = "process", stale = 0
                  PROVE  content'[decodeFrame] = content[decodeFrame]
      OBVIOUS
    <3>1. videoFrame # NoFrame /\ OneOwner
      BY <2>1 DEF RecvBody, Goto, Inv, Owners, ExclusiveWhenClean, Streaming,
                  Holding
    <3>2. videoFrame # decodeFrame /\ decodeFrame \in Frames
      BY <3>1 DEF OneOwner, Inv, Owners, TypeOK
    <3>. QED  BY <2>1, <3>2 DEF RecvBody, Inv, TypeOK
  <2>2. CASE ~RecvBody
    <3>1. content' = content
      BY <2>2
      DEF Next, VideoStep, PeerStep, DecodeStep, Start, Stop, Join, Fini,
          AcceptFails, SendRequest, PrepareFrame, PullEmpty, LoopEnds,
          PushReadReceive, PushReadDecode, PushAdd, EarlyOut, FreeBuffers,
          ClearReceive, ClearDecode, AgainOrEnd, Accept, RecvReply, RecvHeader,
          RecvFails, PullReady, DecodeEnds, ProcessFrame, ReturnFrame,
          notVpc, history
    <3>. QED  BY <3>1
  <2>. QED  BY <2>1, <2>2
<1>. QED  BY <1>1, Invariance, PTL DEF Spec, NotTorn

-----------------------------------------------------------------------------
(* The refinement of FrameChannel.                                         *)

Pushing == {"push", "push2", "pushR", "pushD"}

\* The variables of the channel, as ImplementsChannel gives them.
JpegsIn(queue, jpegs) == [i \in DOMAIN queue |-> jpegs[queue[i]]]
Fresh    == IF vpc \in Pushing THEN serial ELSE 0
Pending  == JpegsIn(decode_queue, content)
Decoding == IF dpc = "process" THEN content[decodeFrame] ELSE 0

\* The JPEG just received is in the frame about to be queued, and no frame
\* goes to the decoder before a JPEG was received into it.
Filled ==
  /\ vpc \in Pushing => serial # 0 /\ content[videoFrame] = serial
  /\ \A f \in Range(decode_queue) : content[f] # 0
  /\ decodeFrame # NoFrame => content[decodeFrame] # 0

\* The JPEGs in a queue follow it.
LEMMA JpegsFacts ==
  ASSUME NEW S, NEW s \in Seq(S), NEW c \in [S -> Nat]
  PROVE  /\ JpegsIn(s, c) \in Seq(Nat) /\ Len(JpegsIn(s, c)) = Len(s)
         /\ \A i \in 1 .. Len(s) : JpegsIn(s, c)[i] = c[s[i]]
<1>1. Len(s) \in Nat /\ DOMAIN s = 1 .. Len(s) /\ \A i \in 1 .. Len(s) : s[i] \in S
  BY LenProperties, ElementOfSeq
<1>2. JpegsIn(s, c) = [i \in 1 .. Len(s) |-> c[s[i]]]
  BY <1>1 DEF JpegsIn
<1>3. \A i \in 1 .. Len(s) : c[s[i]] \in Nat
  BY <1>1
<1>. QED  BY <1>1, <1>2, <1>3

\* A frame added brings its JPEG.
LEMMA JpegsAppend ==
  ASSUME NEW S, NEW s \in Seq(S), NEW x \in S, NEW c \in [S -> Nat]
  PROVE  JpegsIn(Append(s, x), c) = Append(JpegsIn(s, c), c[x])
<1>. DEFINE t == Append(s, x)
            q == JpegsIn(s, c)
            r == JpegsIn(t, c)
<1>1. /\ t \in Seq(S) /\ Len(t) = Len(s) + 1 /\ t[Len(s) + 1] = x
      /\ \A i \in 1 .. Len(s) : t[i] = s[i]
  BY AppendProperties
<1>2. /\ q \in Seq(Nat) /\ Len(q) = Len(s)
      /\ \A i \in 1 .. Len(s) : q[i] = c[s[i]]
  BY JpegsFacts
<1>. HIDE DEF t
<1>3. /\ r \in Seq(Nat) /\ Len(r) = Len(t)
      /\ \A i \in 1 .. Len(t) : r[i] = c[t[i]]
  BY <1>1, JpegsFacts
<1>. HIDE DEF q, r
<1>4. /\ Append(q, c[x]) \in Seq(Nat) /\ Len(Append(q, c[x])) = Len(q) + 1
      /\ \A i \in 1 .. Len(q) : Append(q, c[x])[i] = q[i]
      /\ Append(q, c[x])[Len(q) + 1] = c[x]
  BY <1>2, AppendProperties
<1>5. /\ Len(s) \in Nat /\ Len(t) = Len(s) + 1
      /\ Len(r) = Len(t) /\ Len(Append(q, c[x])) = Len(t)
  BY <1>1, <1>2, <1>3, <1>4, LenProperties
<1>6. ASSUME NEW i \in 1 .. Len(r)  PROVE r[i] = Append(q, c[x])[i]
  <2>1. i \in 1 .. Len(t) /\ (i \in 1 .. Len(s) \/ i = Len(s) + 1)
    BY <1>5
  <2>2. r[i] = c[t[i]]
    BY <1>3, <2>1
  <2>3. CASE i \in 1 .. Len(s)
    BY <1>1, <1>2, <1>4, <2>2, <2>3
  <2>4. CASE i = Len(s) + 1
    BY <1>1, <1>2, <1>4, <2>2, <2>4
  <2>. QED  BY <2>1, <2>3, <2>4
<1>7. r = Append(q, c[x])
  BY <1>3, <1>4, <1>5, <1>6, SeqEqual
<1>. QED  BY <1>7 DEF q, r, t

\* A frame taken takes its JPEG along.
LEMMA JpegsTail ==
  ASSUME NEW S, NEW s \in Seq(S), NEW c \in [S -> Nat], Len(s) > 0
  PROVE  /\ JpegsIn(Tail(s), c) = Tail(JpegsIn(s, c))
         /\ Head(JpegsIn(s, c)) = c[Head(s)]
<1>. DEFINE t == Tail(s)
            q == JpegsIn(s, c)
            r == JpegsIn(t, c)
<1>1. /\ t \in Seq(S) /\ Len(t) = Len(s) - 1 /\ Head(s) = s[1]
      /\ Len(s) \in Nat /\ \A i \in 1 .. Len(t) : t[i] = s[i + 1]
  BY HeadTailProperties, LenProperties, EmptySeq
<1>2. /\ q \in Seq(Nat) /\ Len(q) = Len(s)
      /\ \A i \in 1 .. Len(s) : q[i] = c[s[i]]
  BY JpegsFacts
<1>. HIDE DEF t
<1>3. /\ r \in Seq(Nat) /\ Len(r) = Len(t)
      /\ \A i \in 1 .. Len(t) : r[i] = c[t[i]]
  BY <1>1, JpegsFacts
<1>. HIDE DEF q, r
<1>4. /\ Tail(q) \in Seq(Nat) /\ Len(Tail(q)) = Len(q) - 1
      /\ Head(q) = q[1] /\ \A i \in 1 .. Len(Tail(q)) : Tail(q)[i] = q[i + 1]
  BY <1>2, HeadTailProperties, EmptySeq
<1>5. /\ Len(s) \in Nat /\ Len(t) = Len(s) - 1
      /\ Len(r) = Len(t) /\ Len(Tail(q)) = Len(t)
  BY <1>1, <1>2, <1>3, <1>4
<1>6. ASSUME NEW i \in 1 .. Len(r)  PROVE r[i] = Tail(q)[i]
  <2>1. i + 1 \in 1 .. Len(s) /\ i \in 1 .. Len(t) /\ i \in 1 .. Len(Tail(q))
    BY <1>5
  <2>2. r[i] = c[s[i + 1]]
    BY <1>1, <1>3, <2>1
  <2>3. Tail(q)[i] = c[s[i + 1]]
    BY <1>2, <1>4, <2>1
  <2>. QED  BY <2>2, <2>3
<1>7. r = Tail(q)
  BY <1>3, <1>4, <1>5, <1>6, SeqEqual
<1>8. Head(q) = c[Head(s)]
  BY <1>1, <1>2, <1>4
<1>. QED  BY <1>7, <1>8 DEF q, r, t

\* Receiving into a frame that is not queued changes no queued JPEG.
LEMMA JpegsElsewhere ==
  ASSUME NEW S, NEW s \in Seq(S), NEW c, NEW d,
         \A f \in Range(s) : c[f] = d[f]
  PROVE  JpegsIn(s, c) = JpegsIn(s, d)
<1>1. \A i \in DOMAIN s : c[s[i]] = d[s[i]]
  BY DEF Range
<1>. QED  BY <1>1 DEF JpegsIn

\* Every step keeps the frames of the decoder filled.
LEMMA FilledNext ==
  ASSUME Inv, Inv', Filled, [Next]_vars  PROVE Filled'
<1>. DEFINE Same == UNCHANGED <<serial, content, decode_queue, decodeFrame>>
<1>0. /\ decode_queue \in Seq(Frames) /\ receive_queue \in Seq(Frames)
      /\ serial \in Nat /\ content \in [Frames -> Nat] /\ m_BufferLimit \in Nat
  BY LimitAssumption DEF Inv, TypeOK
<1>1. ASSUME Same, vpc' \in Pushing => vpc \in Pushing /\ videoFrame' = videoFrame
      PROVE  Filled'
  BY <1>1 DEF Filled
<1>2. CASE RecvBody
  <2>1. videoFrame \in Frames
    BY <1>2 DEF RecvBody, Goto, Inv, Owners, TypeOK, Holding
  <2>2. /\ serial' = serial + 1 /\ content' = [content EXCEPT ![videoFrame] = serial']
        /\ UNCHANGED <<videoFrame, decode_queue, decodeFrame>>
    BY <1>2 DEF RecvBody, pool, videoLocals, decodeVars
  <2>3. serial' # 0 /\ content'[videoFrame] = serial'
    BY <1>0, <2>1, <2>2
  <2>4. \A f \in Frames : content[f] # 0 => content'[f] # 0
    BY <1>0, <2>1, <2>2, <2>3
  <2>5. Range(decode_queue) \subseteq Frames
    BY <1>0, RangeFacts
  <2>6. decodeFrame # NoFrame => decodeFrame \in Frames
    BY DEF Inv, TypeOK
  <2>. QED  BY <2>2, <2>3, <2>4, <2>5, <2>6 DEF Filled
<1>3. CASE PushAdd
  <2>1. /\ vpc \in Pushing /\ vpc' \notin Pushing
        /\ UNCHANGED <<serial, content, decodeFrame>>
        /\ decode_queue' \in {decode_queue, Append(decode_queue, videoFrame)}
    BY <1>3 DEF PushAdd, Goto, Pushing, decodeVars, history
  <2>2. videoFrame \in Frames
    BY <2>1 DEF Inv, Owners, TypeOK, Holding, Pushing
  <2>3. Range(decode_queue') \subseteq Range(decode_queue) \union {videoFrame}
    BY <1>0, <2>1, <2>2, AppendFacts
  <2>. QED  BY <2>1, <2>3 DEF Filled
<1>4. CASE PullReady
  <2>1. /\ vpc' = vpc /\ UNCHANGED <<serial, content, videoFrame>>
        /\ Len(decode_queue) > m_BufferLimit
        /\ decodeFrame' = Head(decode_queue) /\ decode_queue' = Tail(decode_queue)
    BY <1>4 DEF PullReady, videoLocals, history
  <2>2. Len(decode_queue) > 0
    BY <1>0, <2>1, LenProperties
  <2>3. Range(decode_queue) = {decodeFrame'} \union Range(decode_queue')
    BY <1>0, <2>1, <2>2, TailFacts
  <2>. QED  BY <2>1, <2>3 DEF Filled
<1>5. CASE ReturnFrame
  BY <1>5 DEF ReturnFrame, Filled, videoLocals, history
<1>6. CASE ClearDecode \/ Fini
  <2>1. /\ vpc' \notin Pushing /\ UNCHANGED <<serial, content, decodeFrame>>
        /\ decode_queue' = <<>>
    BY <1>6 DEF ClearDecode, Fini, Goto, Pushing, Inv, Owners, decodeVars, history
  <2>2. Range(decode_queue') = {}
    BY <2>1, EmptyFacts
  <2>. QED  BY <2>1, <2>2 DEF Filled
<1>7. CASE PullEmpty \/ RecvFails \/ Start
  <2>1. Same /\ vpc' \notin Pushing
    BY <1>7 DEF PullEmpty, RecvFails, Start, Goto, Pushing, decodeVars, history, pool
  <2>. QED  BY <1>1, <2>1
<1>8. CASE \/ AcceptFails \/ SendRequest \/ LoopEnds \/ AgainOrEnd \/ Accept
           \/ RecvReply \/ RecvHeader \/ PrepareFrame \/ EarlyOut \/ FreeBuffers
           \/ ClearReceive
  <2>1. Same /\ vpc' \notin Pushing
    BY <1>8
    DEF AcceptFails, SendRequest, LoopEnds, AgainOrEnd, Accept, RecvReply,
        RecvHeader, PrepareFrame, EarlyOut, FreeBuffers, ClearReceive, Goto,
        Pushing, notVpc, pool, decodeVars, history
  <2>. QED  BY <1>1, <2>1
<1>9. CASE \/ PushReadReceive \/ PushReadDecode \/ DecodeEnds \/ ProcessFrame
           \/ Stop \/ Join \/ UNCHANGED vars
  <2>1. /\ Same /\ videoFrame' = videoFrame
        /\ vpc' \in Pushing => vpc \in Pushing
    BY <1>9
    DEF PushReadReceive, PushReadDecode, DecodeEnds, ProcessFrame, Stop, Join,
        Pushing, vars, notVpc, pool, videoLocals, decodeVars, history
  <2>. QED  BY <1>1, <2>1
<1>. QED
  BY <1>2, <1>3, <1>4, <1>5, <1>6, <1>7, <1>8, <1>9
  DEF Next, VideoStep, PeerStep, DecodeStep

\* Frames are filled before they are queued and decoded, always.
LEMMA FilledAlways == Spec => []Filled
<1>1. Init => Filled
  <2>1. Range(<<>>) = {}
    BY EmptyFacts
  <2>. QED  BY <2>1 DEF Init, Filled, Pushing
<1>2. Inv /\ Inv' /\ Filled /\ [Next]_vars => Filled'
  BY FilledNext
<1>. QED  BY <1>1, <1>2, Invariance, PTL DEF Spec

\* A step that leaves JPEGs, their queue and what is displayed alone, and does
\* not bring the video thread into or out of push_jpg_frame.
LEMMA ChannelRests ==
  ASSUME UNCHANGED <<serial, content, decode_queue, shown>>,
         vpc \in Pushing <=> vpc' \in Pushing,
         \/ UNCHANGED <<dpc, decodeFrame>>
         \/ dpc # "process" /\ dpc' # "process"
  PROVE  UNCHANGED <<serial, Fresh, Pending, Decoding, shown>>
BY DEF Fresh, Pending, Decoding

\* In a session without leftovers every step is one of the channel, or none.
LEMMA ChannelStep ==
  ASSUME Inv, Filled, Next, stale = 0
  PROVE  \/ /\ Fresh = 0 /\ serial' = serial + 1 /\ Fresh' = serial'
            /\ UNCHANGED <<Pending, Decoding, shown>>
         \/ /\ Fresh # 0 /\ Len(Pending) <= m_BufferLimit
            /\ Pending' = Append(Pending, Fresh) /\ Fresh' = 0
            /\ UNCHANGED <<serial, Decoding, shown>>
         \/ /\ Fresh # 0 /\ Fresh' = 0
            /\ UNCHANGED <<serial, Pending, Decoding, shown>>
         \/ /\ Decoding = 0 /\ Len(Pending) > m_BufferLimit
            /\ Decoding' = Head(Pending) /\ Pending' = Tail(Pending)
            /\ UNCHANGED <<serial, Fresh, shown>>
         \/ /\ Decoding # 0 /\ shown' \in {shown, Decoding} /\ Decoding' = 0
            /\ UNCHANGED <<serial, Fresh, Pending>>
         \/ /\ Fresh = 0 /\ Pending' = <<>>
            /\ UNCHANGED <<serial, Fresh, Decoding, shown>>
         \/ UNCHANGED <<serial, Fresh, Pending, Decoding, shown>>
<1>0. /\ decode_queue \in Seq(Frames) /\ Len(decode_queue) \in Nat
      /\ serial \in Nat /\ content \in [Frames -> Nat] /\ m_BufferLimit \in Nat
  BY LimitAssumption, LenProperties DEF Inv, TypeOK
<1>1. Pending \in Seq(Nat) /\ Len(Pending) = Len(decode_queue)
  BY <1>0, JpegsFacts DEF Pending
<1>2. CASE RecvBody
  <2>1. /\ vpc = "body" /\ vpc' = "push" /\ serial' = serial + 1
        /\ content' = [content EXCEPT ![videoFrame] = serial']
        /\ UNCHANGED <<decode_queue, dpc, decodeFrame, shown>>
    BY <1>2 DEF RecvBody, Goto, pool, decodeVars
  <2>2. videoFrame \in Frames /\ OneOwner
    BY <2>1 DEF Inv, Owners, TypeOK, Holding, ExclusiveWhenClean, Streaming
  <2>3. \A f \in Frames \ {videoFrame} : content'[f] = content[f]
    BY <1>0, <2>1, <2>2
  <2>4. Range(decode_queue) \subseteq Frames \ {videoFrame}
    BY <1>0, <2>2, RangeFacts DEF OneOwner
  <2>5. Pending' = Pending
    <3>1. \A f \in Range(decode_queue) : content'[f] = content[f]
      BY <2>3, <2>4
    <3>. QED  BY <1>0, <2>1, <3>1, JpegsElsewhere DEF Pending
  <2>6. Decoding' = Decoding
    <3>1. dpc = "process" => decodeFrame \in Frames \ {videoFrame}
      BY <2>2 DEF OneOwner, Inv, Owners, TypeOK
    <3>. QED  BY <2>1, <2>3, <3>1 DEF Decoding
  <2>7. Fresh = 0 /\ Fresh' = serial'
    BY <2>1 DEF Fresh, Pushing
  <2>. QED  BY <2>1, <2>5, <2>6, <2>7
<1>3. CASE PushAdd
  <2>1. /\ vpc \in Pushing /\ vpc' \notin Pushing
        /\ UNCHANGED <<serial, content, dpc, decodeFrame, shown>>
    BY <1>3 DEF PushAdd, Goto, Pushing, decodeVars, history
  <2>2. Fresh # 0 /\ Fresh = content[videoFrame] /\ Fresh' = 0
    BY <2>1 DEF Fresh, Filled
  <2>3. Decoding' = Decoding
    BY <2>1 DEF Decoding
  <2>4. CASE decode_queue' = decode_queue
    <3>1. Pending' = Pending
      BY <2>1, <2>4 DEF Pending
    <3>. QED  BY <2>1, <2>2, <2>3, <3>1
  <2>5. CASE decode_queue' # decode_queue
    <3>1. vpc = "pushD" /\ decode_queue' = Append(decode_queue, videoFrame)
      BY <1>3, <2>5 DEF PushAdd, Goto
    <3>2. Len(decode_queue) <= m_BufferLimit
      BY <3>1 DEF Inv, Backlog
    <3>3. videoFrame \in Frames
      BY <3>1 DEF Inv, Owners, TypeOK, Holding
    <3>4. Pending' = Append(Pending, Fresh)
      BY <1>0, <2>1, <2>2, <3>1, <3>3, JpegsAppend DEF Pending
    <3>. QED  BY <1>1, <2>1, <2>2, <2>3, <3>2, <3>4
  <2>. QED  BY <2>4, <2>5
<1>4. CASE PullReady
  <2>1. /\ dpc = "poll" /\ dpc' = "process" /\ Len(decode_queue) > m_BufferLimit
        /\ decodeFrame' = Head(decode_queue) /\ decode_queue' = Tail(decode_queue)
        /\ UNCHANGED <<vpc, serial, content, shown>>
    BY <1>4 DEF PullReady, history
  <2>2. Len(decode_queue) > 0
    BY <1>0, <2>1
  <2>3. /\ JpegsIn(Tail(decode_queue), content) = Tail(Pending)
        /\ content[Head(decode_queue)] = Head(Pending)
    BY <1>0, <2>2, JpegsTail DEF Pending
  <2>4. Pending' = Tail(Pending) /\ Decoding' = Head(Pending)
    BY <2>1, <2>3 DEF Pending, Decoding
  <2>5. Decoding = 0 /\ Fresh' = Fresh
    BY <2>1 DEF Decoding, Fresh
  <2>. QED  BY <1>1, <2>1, <2>4, <2>5
<1>5. CASE ProcessFrame
  <2>1. /\ dpc = "process" /\ dpc' = "return"
        /\ shown' \in {shown, content[decodeFrame]}
        /\ UNCHANGED <<vpc, serial, content, decode_queue>>
    BY <1>5 DEF ProcessFrame, pool
  <2>2. Decoding = content[decodeFrame] /\ Decoding # 0 /\ Decoding' = 0
    BY <2>1 DEF Decoding, Filled, Inv, Owners
  <2>3. Fresh' = Fresh /\ Pending' = Pending
    BY <2>1 DEF Fresh, Pending
  <2>. QED  BY <2>1, <2>2, <2>3
<1>6. CASE ClearDecode \/ Fini
  <2>1. /\ vpc \notin Pushing /\ vpc' \notin Pushing /\ decode_queue' = <<>>
        /\ UNCHANGED <<serial, content, dpc, decodeFrame, shown>>
    BY <1>6 DEF ClearDecode, Fini, Goto, Pushing, Inv, Owners, decodeVars, history
  <2>2. Fresh = 0 /\ Fresh' = 0 /\ Decoding' = Decoding
    BY <2>1 DEF Fresh, Decoding
  <2>3. Pending' = <<>>
    BY <2>1 DEF Pending, JpegsIn
  <2>. QED  BY <2>1, <2>2, <2>3
<1>7. CASE \/ AcceptFails \/ SendRequest \/ LoopEnds \/ AgainOrEnd \/ Accept
           \/ RecvReply \/ RecvHeader \/ RecvFails \/ PrepareFrame \/ PullEmpty
           \/ PushReadReceive \/ PushReadDecode \/ EarlyOut \/ FreeBuffers
           \/ ClearReceive \/ Stop \/ Join
  <2>1. /\ UNCHANGED <<serial, content, decode_queue, shown, dpc, decodeFrame>>
        /\ vpc \in Pushing <=> vpc' \in Pushing
    BY <1>7
    DEF AcceptFails, SendRequest, LoopEnds, AgainOrEnd, Accept, RecvReply,
        RecvHeader, RecvFails, PrepareFrame, PullEmpty, PushReadReceive,
        PushReadDecode, EarlyOut, FreeBuffers, ClearReceive, Stop, Join, Goto,
        Pushing, notVpc, pool, decodeVars, history
  <2>. QED  BY <2>1, ChannelRests
<1>8. CASE DecodeEnds \/ ReturnFrame
  <2>1. /\ UNCHANGED <<serial, content, decode_queue, shown, vpc>>
        /\ dpc # "process" /\ dpc' # "process"
    BY <1>8 DEF DecodeEnds, ReturnFrame, pool, history
  <2>. QED  BY <2>1, ChannelRests
<1>9. CASE Start
  <2>1. /\ UNCHANGED <<serial, content, decode_queue, shown>>
        /\ vpc \notin Pushing /\ vpc' \notin Pushing
        /\ dpc # "process" /\ dpc' # "process"
    BY <1>9 DEF Start, Pushing, Inv, Owners, pool
  <2>. QED  BY <2>1, ChannelRests
<1>. QED
  BY <1>2, <1>3, <1>4, <1>5, <1>6, <1>7, <1>8, <1>9
  DEF Next, VideoStep, PeerStep, DecodeStep

\* A session without leftovers is the lossy, bounded first-in first-out channel
\* of FrameChannel: each step of the threads is one step of it or none.
THEOREM SessionIsChannel == Spec => ImplementsChannel
<1>1. Init => Channel!ChanInit
  BY DEF Init, Channel!ChanInit, Channel!None
<1>2. ASSUME Inv, Filled, [Next]_vars
      PROVE  [Channel!ChanNext]_Channel!chan
  <2>1. CASE Next /\ stale = 0
    BY <1>2, <2>1, ChannelStep
    DEF Fresh, Pending, Decoding, JpegsIn, Pushing, Channel!ChanNext,
        Channel!Receive, Channel!Queue, Channel!Drop, Channel!Take,
        Channel!Display, Channel!Close, Channel!None, Channel!chan
  <2>2. CASE stale # 0
    BY <2>2 DEF Channel!ChanNext
  <2>3. CASE UNCHANGED vars
    BY <2>3 DEF vars, notVpc, pool, decodeVars, history, Channel!chan
  <2>. QED  BY <1>2, <2>1, <2>2, <2>3
<1>. QED
  BY <1>1, <1>2, Invariance, FilledAlways, PTL
  DEF Spec, ImplementsChannel, Channel!ChanSpec

=============================================================================
