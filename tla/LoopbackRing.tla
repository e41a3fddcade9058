----------------------------- MODULE LoopbackRing -----------------------------
(***************************************************************************)
(* The buffers of the webcam driver (v4l2loopback-dc.c): one producer puts *)
(* frames into used_buffers inner buffers, with write() as DroidCam does   *)
(* or with queued buffers, and any number of readers take them out at      *)
(* their own pace.  Sections under dev->lock are single steps; what the    *)
(* driver does outside the lock is a step of its own, each element of a    *)
(* list that is walked too.                                                *)
(*                                                                         *)
(* Opening, formats and allocation are in LoopbackDevice: here the device  *)
(* is ready_for_capture.  A producer that queues buffers holds one at a    *)
(* time.                                                                   *)
(***************************************************************************)
EXTENDS Integers, SequencesExt

CONSTANTS
  Readers,
  MAX_BUFFERS,  \* buffers_number
  Producers,    \* how it may hand over frames: of "write" and "stream"
  Timers,       \* timers enabled by controls: subset of {"sustain", "timeout"}
  Calls,        \* how readers wait: of "read", "nonblock" and "poll"
  QuietSetup,   \* TRUE: VIDIOC_REQBUFS overlaps neither a frame being written
                \* nor another VIDIOC_REQBUFS; no lock of the driver sees to it
  MaxFrames,    \* bound: frames written
  MaxTicks      \* bound: timer callbacks and signals

ASSUME BuffersAssumption == MAX_BUFFERS \in Nat \ {0}
ASSUME ProducersAssumption == Producers \subseteq {"write", "stream"}
ASSUME TimersAssumption == Timers \subseteq {"sustain", "timeout"}
ASSUME CallsAssumption == Calls \subseteq {"read", "nonblock", "poll"}
ASSUME QuietAssumption == QuietSetup \in BOOLEAN

Buffers == 0 .. MAX_BUFFERS - 1
Unwhole == 0   \* content of a buffer that holds no whole frame
End == -1      \* the head of outbufs_list, where a walk ends

VARIABLES
  write_position, used_buffers, outbufs_list, bufpos2index,
  mapped,                         \* buffers flagged V4L2_BUF_FLAG_MAPPED
  reread_count, timeout_happened, \* of the device
  armed,                          \* pending timers
  frame,             \* what each buffer holds: the n-th frame, or Unwhole
  imaged,            \* buffers that dev->timeout_image was copied into since
                     \* they were last filled
  how, wpc, write_index,  \* producer: how it hands frames over, where it is,
                          \* the buffer it fills
  pc,                \* of each reader
  call,              \* its call: "none", "read" or "poll"; with O_NONBLOCK,
                     \* what it was let in for: "frame" or "timeout"
  read_position, opener_reread,   \* opener->read_position, ->reread_count
  buffers_number,    \* opener->buffers_number
  pos, timeout,      \* locals of get_capture_buffer
  request,           \* b->count of a VIDIOC_REQBUFS under way
  at, place,         \* its walks: the element to come, and i
  due,               \* history: the frame the reader picked
  late,              \* history: frames begun since it picked
  own,               \* history: has it mapped its buffers, and no REQBUFS since
  mark,              \* history: write_position of the last remapping
  ticks              \* timer callbacks and signals so far

device   == <<write_position, used_buffers, outbufs_list, bufpos2index>>
counters == <<reread_count, timeout_happened, armed>>
producer == <<how, wpc, write_index>>
opener   == <<call, read_position, opener_reread, buffers_number, pos, timeout,
              request, at, place>>
contents == <<frame, imaged>>
history  == <<due, late, own, mark, ticks>>
vars == <<device, mapped, counters, contents, producer, pc, opener, history>>

InSetup == {"shrink", "remap", "test", "store"}   \* inside vidioc_reqbufs
Quiet == \A o \in Readers : pc[o] \notin InSetup

\* v4l2_loopback_init; bufpos2index is zeroed, not the identity.
Init ==
  /\ write_position = 0 /\ used_buffers = MAX_BUFFERS
  /\ outbufs_list = [i \in 1 .. MAX_BUFFERS |-> i - 1]
  /\ bufpos2index = [b \in Buffers |-> 0]
  /\ mapped = {} /\ reread_count = 0 /\ timeout_happened = 0 /\ armed = {}
  /\ frame = [b \in Buffers |-> Unwhole] /\ imaged = {}
  /\ how \in Producers /\ wpc = "idle" /\ write_index = 0
  /\ pc = [o \in Readers |-> "closed"]
  /\ call = [o \in Readers |-> "none"]
  /\ read_position = [o \in Readers |-> 0]
  /\ opener_reread = [o \in Readers |-> 0]
  /\ buffers_number = [o \in Readers |-> 0]
  /\ pos = [o \in Readers |-> 0] /\ timeout = [o \in Readers |-> 0]
  /\ request = [o \in Readers |-> 0]
  /\ at = [o \in Readers |-> 0] /\ place = [o \in Readers |-> 0]
  /\ due = [o \in Readers |-> 0] /\ late = [o \in Readers |-> 0]
  /\ own = [o \in Readers |-> FALSE] /\ mark = 0 /\ ticks = 0

Goto(o, from, to) == pc[o] = from /\ pc' = [pc EXCEPT ![o] = to]

\* list_del, list_move_tail and the element after another; the element must
\* be on the list.
IndexOf(list, b) == CHOOSE i \in DOMAIN list : list[i] = b
Del(list, b) == RemoveAt(list, IndexOf(list, b))
MoveTail(list, b) == Append(Del(list, b), b)
After(list, b) ==
  IF IndexOf(list, b) = Len(list) THEN End ELSE list[IndexOf(list, b) + 1]

-----------------------------------------------------------------------------
(* The producer.                                                           *)

\* Filling buffer b begins: write() copies, an mmap producer draws.  A frame
\* begun again after it failed is not one more.
Fill(b) ==
  /\ wpc \in {"idle", "failed"} /\ wpc' = "fill"
  /\ write_position < MaxFrames
  /\ QuietSetup => Quiet
  /\ write_index' = b
  /\ frame' = [frame EXCEPT ![b] = Unwhole]
  /\ imaged' = IF \E o \in Readers : pc[o] = "copy" /\ pos[o] = b
                 THEN imaged ELSE imaged \ {b}
  /\ late' = [o \in Readers |->
                late[o] + (IF pc[o] = "picked" /\ wpc = "idle" THEN 1 ELSE 0)]

\* v4l2_loopback_write, up to copy_from_user.
WriteBegin ==
  /\ how = "write"
  /\ Fill(write_position % used_buffers)
  /\ UNCHANGED <<how, device, mapped, counters, pc, opener, due, own, mark,
                 ticks>>

\* vidioc_dqbuf of an output buffer.
OutputDqbuf ==
  /\ how = "stream"
  /\ Fill(Head(outbufs_list))
  /\ outbufs_list' = MoveTail(outbufs_list, Head(outbufs_list))
  /\ UNCHANGED <<how, write_position, used_buffers, bufpos2index, mapped,
                 counters, pc, opener, due, own, mark, ticks>>

\* copy_from_user fails: EFAULT, the buffer is spoilt and the position stays.
WriteFails ==
  /\ how = "write"
  /\ wpc = "fill" /\ wpc' = "failed"
  /\ write_index' = 0
  /\ UNCHANGED <<how, device, mapped, counters, contents, pc, opener, history>>

\* buffer_written(b).  If REQBUFS took b off the list meanwhile, moving it
\* follows poisoned pointers and the kernel stops there, holding dev->lock.
buffer_written(b) ==
  /\ Contains(outbufs_list, b)
  /\ bufpos2index' =
       [bufpos2index EXCEPT ![write_position % used_buffers] = b]
  /\ outbufs_list' = MoveTail(outbufs_list, b)
  /\ write_position' = write_position + 1
  /\ reread_count' = 0
  /\ armed' = Timers
  /\ UNCHANGED <<used_buffers, timeout_happened>>

\* The end of write(), or vidioc_qbuf of the output buffer just filled.
FrameWritten ==
  /\ wpc = "fill" /\ wpc' = "wake"
  /\ write_index' = 0
  /\ frame' = [frame EXCEPT ![write_index] = write_position + 1]
  /\ buffer_written(IF how = "write" THEN write_index
                    ELSE write_index % used_buffers)
  /\ UNCHANGED <<how, mapped, imaged, pc, opener, history>>

WakeReaders ==
  pc' = [o \in Readers |-> IF pc[o] = "sleep" THEN "wait" ELSE pc[o]]

\* Mutant: nobody is woken.
WakeAll_Forgotten ==
  /\ wpc = "wake" /\ wpc' = "idle"
  /\ UNCHANGED <<device, mapped, counters, contents, how, write_index, pc, opener,
                 history>>

\* wake_up_all(&dev->read_event), after the lock is released.
WakeAll ==
  /\ wpc = "wake" /\ wpc' = "idle"
  /\ WakeReaders
  /\ UNCHANGED <<device, mapped, counters, contents, how, write_index, opener,
                 history>>

-----------------------------------------------------------------------------
(* A reader.                                                               *)

\* kzalloc of the opener.
Open(o) ==
  /\ Goto(o, "closed", "idle")
  /\ UNCHANGED <<device, mapped, counters, contents, producer, opener, history>>

\* kfree of the opener; what it held is forgotten.
Close(o) ==
  /\ Goto(o, "idle", "closed")
  /\ read_position' = [read_position EXCEPT ![o] = 0]
  /\ opener_reread' = [opener_reread EXCEPT ![o] = 0]
  /\ buffers_number' = [buffers_number EXCEPT ![o] = 0]
  /\ own' = [own EXCEPT ![o] = FALSE]
  /\ UNCHANGED <<device, mapped, counters, contents, producer, call, pos, timeout,
                 request, at, place, due, late, mark, ticks>>

\* vidioc_reqbufs: init_buffers clears the flags of every buffer, and the
\* list, which is never empty, is walked if used_buffers will be less.
ReqbufsBegin(o, count) ==
  /\ pc[o] = "idle"
  /\ QuietSetup => wpc # "fill" /\ Quiet
  /\ pc' = [pc EXCEPT ![o] = IF count = 0 THEN "idle"
                             ELSE IF count < used_buffers THEN "shrink"
                             ELSE "test"]
  /\ request' = [request EXCEPT ![o] = count]
  /\ at' = [at EXCEPT ![o] = IF count \in 1 .. used_buffers - 1
                                THEN Head(outbufs_list) ELSE 0]
  /\ mapped' = {}
  /\ own' = [p \in Readers |-> FALSE]
  /\ UNCHANGED <<device, counters, contents, producer, call, read_position,
                 opener_reread, buffers_number, pos, timeout, place, due, late,
                 mark, ticks>>

\* Mutant: off by one.
ReqbufsShrink_OneMore(o) ==
  /\ pc[o] = "shrink" /\ Contains(outbufs_list, at[o])
  /\ outbufs_list' = IF at[o] > request[o] THEN Del(outbufs_list, at[o])
                     ELSE outbufs_list
  /\ LET next == After(outbufs_list, at[o])
     IN /\ at' = [at EXCEPT ![o] = IF next # End THEN next ELSE Head(outbufs_list')]
        /\ pc' = [pc EXCEPT ![o] = IF next # End THEN "shrink" ELSE "remap"]
        /\ place' = [place EXCEPT ![o] = IF next # End THEN 0 ELSE write_position]
        /\ mark' = IF next # End THEN mark ELSE write_position
  /\ UNCHANGED <<write_position, used_buffers, bufpos2index, mapped, counters,
                 contents, producer, call, read_position, opener_reread,
                 buffers_number, pos, timeout, request, due, late, own, ticks>>

\* One element of list_for_each_entry_safe: a buffer that is out of range is
\* taken off the list.  After the last one i is set for the second walk.
ReqbufsShrink(o) ==
  /\ pc[o] = "shrink" /\ Contains(outbufs_list, at[o])
  /\ outbufs_list' = IF at[o] >= request[o] THEN Del(outbufs_list, at[o])
                     ELSE outbufs_list
  /\ LET next == After(outbufs_list, at[o])
     IN /\ at' = [at EXCEPT ![o] = IF next # End THEN next ELSE Head(outbufs_list')]
        /\ pc' = [pc EXCEPT ![o] = IF next # End THEN "shrink" ELSE "remap"]
        /\ place' = [place EXCEPT ![o] = IF next # End THEN 0 ELSE write_position]
        /\ mark' = IF next # End THEN mark ELSE write_position
  /\ UNCHANGED <<write_position, used_buffers, bufpos2index, mapped, counters,
                 contents, producer, call, read_position, opener_reread,
                 buffers_number, pos, timeout, request, due, late, own, ticks>>

\* One element of the second walk: the buffers that are left take the
\* positions from write_position on.
ReqbufsRemap(o) ==
  /\ pc[o] = "remap" /\ Contains(outbufs_list, at[o])
  /\ bufpos2index' = [bufpos2index EXCEPT ![place[o] % request[o]] = at[o]]
  /\ LET next == After(outbufs_list, at[o])
     IN /\ at' = [at EXCEPT ![o] = IF next # End THEN next ELSE 0]
        /\ pc' = [pc EXCEPT ![o] = IF next # End THEN "remap" ELSE "test"]
        /\ place' = [place EXCEPT ![o] = IF next # End THEN @ + 1 ELSE 0]
  /\ UNCHANGED <<write_position, used_buffers, outbufs_list, mapped, counters,
                 contents, producer, call, read_position, opener_reread,
                 buffers_number, pos, timeout, request, history>>

\* Mutant: the test is forgotten.
ReqbufsTest_Always(o) ==
  /\ Goto(o, "test", "store")
  /\ buffers_number' = [buffers_number EXCEPT ![o] = request[o]]
  /\ UNCHANGED <<device, mapped, counters, contents, producer, call,
                 read_position, opener_reread, pos, timeout, request, at, place,
                 history>>

\* The opener gets what it asked for; used_buffers is tested ...
ReqbufsTest(o) ==
  /\ Goto(o, "test", IF request[o] < used_buffers THEN "store" ELSE "idle")
  /\ buffers_number' = [buffers_number EXCEPT ![o] = request[o]]
  /\ request' = [request EXCEPT ![o] = IF @ < used_buffers THEN @ ELSE 0]
  /\ UNCHANGED <<device, mapped, counters, contents, producer, call,
                 read_position, opener_reread, pos, timeout, at, place, history>>

\* ... and stored.
ReqbufsStore(o) ==
  /\ Goto(o, "store", "idle")
  /\ used_buffers' = request[o]
  /\ request' = [request EXCEPT ![o] = 0]
  /\ UNCHANGED <<write_position, outbufs_list, bufpos2index, mapped, counters,
                 contents, producer, call, read_position, opener_reread,
                 buffers_number, pos, timeout, at, place, history>>

\* What vidioc_querybuf returns for the buffers the application was granted.
Queried(o) == {i % used_buffers : i \in 0 .. buffers_number[o] - 1}

\* mmap of all of them.
Mmap(o) ==
  /\ pc[o] = "idle"
  /\ buffers_number[o] > 0
  /\ mapped' = mapped \union Queried(o)
  /\ own' = [own EXCEPT ![o] = Quiet]
  /\ UNCHANGED <<device, counters, contents, producer, pc, opener, due, late,
                 mark, ticks>>

Readable(o) ==
  \/ write_position > read_position[o]
  \/ reread_count > opener_reread[o]
  \/ timeout_happened = 1

\* Reader o enters wait_event_interruptible.
Called(o, kind) ==
  /\ Goto(o, "idle", "wait")
  /\ call' = [call EXCEPT ![o] = kind]
  /\ UNCHANGED <<device, mapped, counters, contents, producer, read_position,
                 opener_reread, buffers_number, pos, timeout, request, at,
                 place, history>>

\* read() or vidioc_dqbuf of a capture buffer.
GetCaptureBuffer(o) == "read" \in Calls /\ Called(o, "read")

\* Mutant: off by one.
GetNonblocking_OneLess(o) ==
  /\ "nonblock" \in Calls
  /\ \/ write_position >= read_position[o] /\ Called(o, "frame")
     \/ /\ write_position < read_position[o] /\ timeout_happened = 1
        /\ Called(o, "timeout")

\* The same with O_NONBLOCK, which tests without the lock and waits afterwards
\* all the same; EAGAIN changes nothing.
GetNonblocking(o) ==
  /\ "nonblock" \in Calls /\ Readable(o)
  /\ LET new == \/ write_position > read_position[o]
                \/ reread_count > opener_reread[o]
     IN Called(o, IF new THEN "frame" ELSE "timeout")

\* v4l2_loopback_poll of a reader.
Poll(o) == "poll" \in Calls /\ Called(o, "poll")

\* wait_event_interruptible evaluates can_read, which starts the timers.
CanRead(o) ==
  /\ pc[o] = "wait"
  /\ pc' = [pc EXCEPT ![o] = IF ~Readable(o) THEN "sleep"
                             ELSE IF call[o] = "poll" THEN "idle" ELSE "pick"]
  /\ call' = [call EXCEPT ![o] = IF Readable(o) THEN "none" ELSE @]
  /\ armed' = Timers
  /\ UNCHANGED <<device, mapped, reread_count, timeout_happened, contents,
                 producer, read_position, opener_reread, buffers_number, pos,
                 timeout, request, at, place, history>>

\* A signal ends the wait too: the result of waiting is not looked at.
Interrupted(o) ==
  /\ Goto(o, "sleep", IF call[o] = "poll" THEN "idle" ELSE "pick")
  /\ ticks < MaxTicks /\ ticks' = ticks + 1
  /\ call' = [call EXCEPT ![o] = "none"]
  /\ UNCHANGED <<device, mapped, counters, contents, producer, read_position,
                 opener_reread, buffers_number, pos, timeout, request, at, place,
                 due, late, own, mark>>

\* The last frame again, because of a timer, a signal or another reader that
\* was quicker.
Reread(o) ==
  /\ read_position[o] = write_position
  /\ opener_reread' =
       [opener_reread EXCEPT
          ![o] = (IF reread_count > @ + 2 THEN reread_count - 1 ELSE @) + 1]
  /\ pos' = [pos EXCEPT
               ![o] = (read_position[o] + used_buffers - 1) % used_buffers]
  /\ due' = [due EXCEPT ![o] = read_position[o]]
  /\ UNCHANGED read_position

\* Mutant: a slow reader does not catch up.
ReadNext_NoSkip(o) ==
  /\ read_position[o] # write_position
  /\ pos' = [pos EXCEPT ![o] = read_position[o] % used_buffers]
  /\ read_position' = [read_position EXCEPT ![o] = @ + 1]
  /\ due' = [due EXCEPT ![o] = read_position[o] + 1]
  /\ opener_reread' = [opener_reread EXCEPT ![o] = 0]

\* The next frame, or the newest one for a reader more than two behind.
ReadNext(o) ==
  /\ read_position[o] # write_position
  /\ LET from == IF write_position > read_position[o] + 2
                   THEN write_position - 1 ELSE read_position[o]
     IN /\ pos' = [pos EXCEPT ![o] = from % used_buffers]
        /\ read_position' = [read_position EXCEPT ![o] = from + 1]
        /\ due' = [due EXCEPT ![o] = from + 1]
  /\ opener_reread' = [opener_reread EXCEPT ![o] = 0]

\* The locked section of get_capture_buffer.
Pick(o) ==
  /\ Goto(o, "pick", "picked")
  /\ Reread(o) \/ ReadNext(o)
  /\ timeout' = [timeout EXCEPT ![o] = timeout_happened]
  /\ timeout_happened' = 0
  /\ late' = [late EXCEPT ![o] = IF wpc \in {"fill", "failed"} THEN 1 ELSE 0]
  /\ UNCHANGED <<device, mapped, reread_count, armed, contents, producer, call,
                 buffers_number, request, at, place, own, mark, ticks>>

\* The buffer is looked up, without the lock, and handed to the reader or, if
\* it is not mapped, refused with EINVAL; the locals are dead afterwards.
Deliver(o) ==
  /\ timeout[o] = 0
  /\ Goto(o, "picked", "idle")
  /\ pos' = [pos EXCEPT ![o] = 0]
  /\ due' = [due EXCEPT ![o] = 0] /\ late' = [late EXCEPT ![o] = 0]
  /\ UNCHANGED <<device, mapped, counters, contents, producer, call,
                 read_position, opener_reread, buffers_number, timeout, request,
                 at, place, own, mark, ticks>>

\* After a timeout its image is copied into the buffer first, whoever else is
\* reading or filling it.  From here on pos is the buffer.
CopyTimeoutImage(o) ==
  /\ timeout[o] = 1
  /\ Goto(o, "picked", "copy")
  /\ pos' = [pos EXCEPT ![o] = bufpos2index[pos[o]]]
  /\ frame' = [frame EXCEPT ![bufpos2index[pos[o]]] = Unwhole]
  /\ imaged' = imaged \union {bufpos2index[pos[o]]}
  /\ due' = [due EXCEPT ![o] = 0] /\ late' = [late EXCEPT ![o] = 0]
  /\ UNCHANGED <<device, mapped, counters, producer, call, read_position,
                 opener_reread, buffers_number, timeout, request, at, place, own,
                 mark, ticks>>

\* The memcpy ends, and the buffer is handed over.
TimeoutImageCopied(o) ==
  /\ Goto(o, "copy", "idle")
  /\ pos' = [pos EXCEPT ![o] = 0] /\ timeout' = [timeout EXCEPT ![o] = 0]
  /\ UNCHANGED <<device, mapped, counters, contents, producer, call,
                 read_position, opener_reread, buffers_number, request, at,
                 place, history>>

-----------------------------------------------------------------------------
(* Timers, and the life of the device.                                     *)

SustainTimer ==
  /\ "sustain" \in armed
  /\ ticks < MaxTicks /\ ticks' = ticks + 1
  /\ reread_count' = reread_count + 1
  /\ WakeReaders
  /\ UNCHANGED <<device, mapped, timeout_happened, armed, contents, producer,
                 opener, due, late, own, mark>>

TimeoutTimer ==
  /\ "timeout" \in armed
  /\ ticks < MaxTicks /\ ticks' = ticks + 1
  /\ timeout_happened' = 1
  /\ WakeReaders
  /\ UNCHANGED <<device, mapped, reread_count, armed, contents, producer, opener,
                 due, late, own, mark>>

\* Everybody closes the device, which stops the timers, frees the buffers and
\* goes back to position 0, but keeps used_buffers, the list and bufpos2index;
\* then a producer of the same kind opens it and buffers are allocated anew.
LastClose ==
  /\ wpc \in {"idle", "failed"} /\ wpc' = "idle"
  /\ \A o \in Readers : pc[o] = "closed"
  /\ write_position' = 0 /\ armed' = {}
  /\ frame' = [b \in Buffers |-> Unwhole] /\ imaged' = {} /\ mapped' = {}
  /\ mark' = 0
  /\ UNCHANGED <<used_buffers, outbufs_list, bufpos2index, reread_count,
                 timeout_happened, how, write_index, pc, opener, due, late, own,
                 ticks>>

-----------------------------------------------------------------------------
ReaderCall(o) ==
  \/ Open(o) \/ Close(o) \/ GetCaptureBuffer(o) \/ GetNonblocking(o) \/ Poll(o)
  \/ Interrupted(o)
  \/ \E count \in 0 .. MAX_BUFFERS : ReqbufsBegin(o, count)
  \/ Mmap(o)

ReaderStep(o) ==
  \/ ReqbufsShrink(o) \/ ReqbufsRemap(o) \/ ReqbufsTest(o) \/ ReqbufsStore(o)
  \/ CanRead(o) \/ Pick(o) \/ Deliver(o)
  \/ CopyTimeoutImage(o) \/ TimeoutImageCopied(o)

Next ==
  \/ WriteBegin \/ OutputDqbuf \/ WriteFails \/ FrameWritten \/ WakeAll
  \/ \E o \in Readers : ReaderCall(o) \/ ReaderStep(o)
  \/ SustainTimer \/ TimeoutTimer \/ LastClose

\* A process inside a system call runs on; nothing obliges it to make one.
Fairness ==
  /\ WF_vars(FrameWritten) /\ WF_vars(WakeAll)
  /\ \A o \in Readers : WF_vars(ReaderStep(o))

Spec == Init /\ [][Next]_vars /\ Fairness

-----------------------------------------------------------------------------
(* Properties.                                                             *)

TypeOK ==
  /\ how \in Producers
  /\ write_position \in Nat /\ used_buffers \in 1 .. MAX_BUFFERS
  /\ outbufs_list \in Seq(Buffers) /\ bufpos2index \in [Buffers -> Buffers]
  /\ mapped \subseteq Buffers /\ armed \subseteq Timers
  /\ reread_count \in Nat /\ timeout_happened \in {0, 1}
  /\ frame \in [Buffers -> Nat] /\ imaged \subseteq Buffers
  /\ wpc \in {"idle", "fill", "failed", "wake"} /\ write_index \in Buffers
  /\ pc \in [Readers -> {"closed", "idle", "wait", "sleep", "pick", "picked",
                          "copy"} \union InSetup]
  /\ call \in [Readers -> {"none", "read", "poll", "frame", "timeout"}]
  /\ read_position \in [Readers -> Nat] /\ opener_reread \in [Readers -> Nat]
  /\ buffers_number \in [Readers -> 0 .. MAX_BUFFERS]
  /\ request \in [Readers -> 0 .. MAX_BUFFERS]
  /\ at \in [Readers -> Buffers] /\ place \in [Readers -> Nat]
  /\ pos \in [Readers -> Buffers] /\ timeout \in [Readers -> {0, 1}]
  /\ due \in [Readers -> Nat] /\ late \in [Readers -> Nat]
  /\ own \in [Readers -> BOOLEAN] /\ mark \in Nat /\ ticks \in Nat

\* "outbufs_list contains buffers from 0 to used_buffers-1"
\* (v4l2loopback-dc.c:1461), each once, and the positions in use map to them,
\* whenever no REQBUFS is under way; if none overlapped another, or a frame
\* being written (QuietSetup).  Two that overlap break it: one that asked for
\* more stores used_buffers after the other has shortened the list.
ListExact ==
  /\ TypeOK
  /\ Quiet =>
       /\ ToSet(outbufs_list) = 0 .. used_buffers - 1
       /\ Len(outbufs_list) = used_buffers
       /\ \A p \in 0 .. used_buffers - 1 : bufpos2index[p] < used_buffers

\* "after we update dev->used_buffers, buffers in outbufs_list will correspond
\* to dev->write_position + [0;b->count-1] range" (v4l2loopback-dc.c:1478).
RemapHolds ==
  \A o \in Readers :
    pc[o] = "store" /\ request[o] < used_buffers =>
      \A i \in DOMAIN outbufs_list :
        bufpos2index[(write_position + i - 1) % request[o]] = outbufs_list[i]

\* A reader picks a position under the lock but looks its buffer up, and
\* reads it, after the lock is released.  The buffer still holds the frame it
\* picked, whole, unless the producer has begun used_buffers - 1 more frames
\* since, the frame is older than the last remapping by a REQBUFS, or a reader
\* that saw a timeout copied the timeout image over it; under QuietSetup.
DeliversPicked ==
  \A o \in Readers :
    pc[o] = "picked" /\ late[o] <= used_buffers - 2 /\ due[o] > mark =>
      \/ frame[bufpos2index[pos[o]]] = due[o]
      \/ bufpos2index[pos[o]] \in imaged

\* A reader that mapped all the buffers it was granted, while no REQBUFS was
\* under way, gets EINVAL for an unmapped buffer only after someone's REQBUFS
\* cleared the flags of all; under QuietSetup, without which used_buffers may
\* grow beyond what it was granted.
MappedUnlessReset ==
  \A o \in Readers :
    pc[o] = "picked" /\ own[o] => bufpos2index[pos[o]] \in mapped

\* With O_NONBLOCK a reader that was let in for a frame, new or repeated, does
\* not sleep, although the test is made without the lock and both counters may
\* change before the wait (v4l2loopback-dc.c:1612-1617).  One let in for a
\* timeout may: another reader can take the timeout image first.
NonblockReturns == \A o \in Readers : call[o] = "frame" => pc[o] # "sleep"

\* No wakeup is lost: a reader that waits, in a read or in poll, while there is
\* a frame it has not seen gets on.
FrameReaches ==
  \A o \in Readers :
    (pc[o] \in {"wait", "sleep"} /\ write_position > read_position[o])
      ~> (pc[o] = "idle")

=============================================================================
