---------------------------- MODULE LoopbackDevice ----------------------------
(***************************************************************************)
(* The life of the webcam device (v4l2loopback-dc.c): processes open and   *)
(* close it, the first opener fixes the format and has the buffers         *)
(* allocated, the last one frees them, controls keep the format, start     *)
(* timers and ask for the timeout image.  Only the timers are under        *)
(* dev->lock and the allocations sleep, so that outside of it no step      *)
(* stores more than one of the fields, and none tests a field and stores   *)
(* it: what a process has read may have changed when it acts on it.        *)
(***************************************************************************)
EXTENDS Integers, FiniteSets

CONSTANTS
  Openers,       \* processes, each with one file descriptor
  Formats,       \* pixel formats with their sizes
  FormatSize,    \* PAGE_ALIGN(sizeimage) of each
  ModuleFormat,  \* YUV420 in the module's width and height
  MAX_OPENERS,   \* dev->max_openers after loading
  Loads,         \* "calm": opens, closes and sysfs writes do not overlap and
                 \* no allocation fails; "stress": they may, and it may
  Controls,      \* for each load, those that are set, of "keep_format",
                 \* "sustain", "timeout" and "timeout_image_io",
  Limits         \* and the values that are written to max_openers

NoFormat == "none"  \* pix_format of width 0 after loading
NULL == 0           \* sizes of allocations; none

ASSUME FormatAssumption ==
  /\ FormatSize \in [Formats -> Nat \ {0}]
  /\ ModuleFormat \in Formats /\ NoFormat \notin Formats
ASSUME OpenersAssumption == IsFiniteSet(Openers)
ASSUME LimitsAssumption == MAX_OPENERS \in Nat /\ Limits \in [Loads -> SUBSET Nat]
ASSUME LoadsAssumption == Loads \subseteq {"calm", "stress"}

VARIABLES
  load,          \* of this behaviour
  open_count, max_openers,
  pix_format, buffer_size, ready_for_capture, keep_format,
  image, imagesize, timeout_image,  \* sizes; imagesize per buffer
  timeout_jiffies, timeout_image_io, timeout_happened, sustain_framerate,
  armed,         \* pending timers
  call, pc,      \* of each process, the system call it is in and how far
  local,         \* opener->timeout_image_io, or the size to allocate
  dangling,      \* history, while calm: of the two images, those that have been
                 \* freed and are still pointed to
  damage         \* history, while calm: those of which a block was lost, with
                 \* nothing pointing to it, or freed twice

count    == <<open_count, max_openers>>
format   == <<pix_format, buffer_size, ready_for_capture>>
memory   == <<image, imagesize, timeout_image, dangling, damage>>
controls == <<keep_format, timeout_jiffies, timeout_image_io,
              sustain_framerate>>
timers   == <<armed, timeout_happened>>
process  == <<call, pc, local>>
vars == <<load, count, format, memory, controls, timers, process>>

Calls == {"none", "open", "close", "try_fmt", "s_fmt", "streamon", "write", "mmap",
          "keep_format", "timeout"}
Points == {"closed", "open",
           "count", "hand", "clear", "handimage", "handvzalloc",
           "try_fmt", "store", "size", "setsize",
           "alloc", "imagesize", "vmalloc", "jiffies", "image", "vzalloc", "check",
           "ready", "written", "copy",
           "timers", "sustain", "timeout", "test",
           "free", "unset", "free2", "unset2", "freed", "unready", "unsize"}

\* v4l2_loopback_init; allocate_buffers fails there, the size being 0.
Init ==
  /\ load \in Loads
  /\ open_count = 0 /\ max_openers = MAX_OPENERS
  /\ pix_format = NoFormat /\ buffer_size = 0
  /\ ready_for_capture = 0 /\ keep_format = 0
  /\ image = NULL /\ imagesize = 0 /\ timeout_image = NULL
  /\ timeout_jiffies = 0 /\ timeout_image_io = 0 /\ timeout_happened = 0
  /\ sustain_framerate = 0 /\ armed = {}
  /\ call = [o \in Openers |-> "none"] /\ pc = [o \in Openers |-> "closed"]
  /\ local = [o \in Openers |-> NULL]
  /\ dangling = {} /\ damage = {}

\* o goes on; a call that has returned is over.
Goto(o, from, to) ==
  /\ pc[o] = from /\ pc' = [pc EXCEPT ![o] = to]
  /\ call' = [call EXCEPT ![o] = IF to \in {"closed", "open"} THEN "none" ELSE @]

Call(o, from, which, to) ==
  /\ pc[o] = from /\ pc' = [pc EXCEPT ![o] = to]
  /\ call' = [call EXCEPT ![o] = which]

Alone == load = "calm" => \A o \in Openers : call[o] \notin {"open", "close"}

-----------------------------------------------------------------------------
(* Memory.                                                                 *)

\* What vmalloc and vzalloc may return.
Got(size) == {size} \union (IF load = "stress" THEN {NULL} ELSE {})

\* A store to one of the images drops the block that it pointed to.
Overwrite(which, old) ==
  /\ damage' = damage \union
       {w \in {which} \ dangling : load = "calm" /\ old # NULL}
  /\ dangling' = dangling \ {which}

vfree(which) ==
  /\ damage' = damage \union (dangling \intersect {which})
  /\ dangling' = dangling \union {w \in {which} : load = "calm"}

\* Where a call goes on after allocate_buffers; open and S_FMT ignore an error.
AfterAllocate(o, ok) ==
  IF call[o] = "open" \/ (call[o] \in {"streamon", "write"} /\ ok) THEN "ready" ELSE "open"

\* allocate_buffers: its tests,
AllocateTest(o) ==
  /\ LET same == image # NULL /\ buffer_size = imagesize
         ours == image = NULL \/ open_count = 1
     IN \/ buffer_size # 0 /\ same /\ Goto(o, "alloc", AfterAllocate(o, TRUE))
        \/ /\ buffer_size = 0 \/ (~same /\ ~ours)
           /\ Goto(o, "alloc", AfterAllocate(o, FALSE))
        \/ /\ buffer_size # 0 /\ ~same /\ ours
           /\ Goto(o, "alloc", IF image = NULL THEN "imagesize" ELSE "free")
  /\ UNCHANGED <<count, format, memory, controls, timers, local>>

\* the size,
AllocateSize(o) ==
  /\ Goto(o, "imagesize", "vmalloc")
  /\ imagesize' = buffer_size /\ local' = [local EXCEPT ![o] = buffer_size]
  /\ UNCHANGED <<count, format, image, timeout_image, dangling, damage, controls,
                 timers>>

\* the buffers,
AllocateImage(o) ==
  /\ Goto(o, "vmalloc", "jiffies")
  /\ image' \in Got(local[o]) /\ Overwrite("image", image)
  /\ local' = [local EXCEPT ![o] = NULL]
  /\ UNCHANGED <<count, format, imagesize, timeout_image, controls, timers>>

\* a timeout image if there is a timeout,
AllocateTimeout(o) ==
  /\ Goto(o, "jiffies", IF timeout_jiffies > 0 THEN "image" ELSE "check")
  /\ UNCHANGED <<count, format, memory, controls, timers, local>>

\* and the test for ENOMEM.
AllocateCheck(o) ==
  /\ Goto(o, "check", AfterAllocate(o, image # NULL))
  /\ UNCHANGED <<count, format, memory, controls, timers, local>>

\* allocate_timeout_image: its tests,
ImageTest(o, from, alloc, ok, error) ==
  /\ Goto(o, from, IF buffer_size = 0 THEN error
                   ELSE IF timeout_image = NULL THEN alloc ELSE ok)
  /\ local' = [local EXCEPT ![o] = IF pc'[o] = alloc THEN buffer_size ELSE NULL]
  /\ UNCHANGED <<count, format, memory, controls, timers>>

\* and the allocation.
ImageAllocate(o, from, ok, error) ==
  /\ timeout_image' \in Got(local[o]) /\ Overwrite("timeout", timeout_image)
  /\ Goto(o, from, IF timeout_image' = NULL THEN error ELSE ok)
  /\ local' = [local EXCEPT ![o] = NULL]
  /\ UNCHANGED <<count, format, image, imagesize, controls, timers>>

\* For a timeout; a failure is ignored.
TimeoutImage(o) ==
  LET next == IF call[o] = "timeout" THEN "open" ELSE "check"
  IN ImageTest(o, "image", "vzalloc", next, next)
       \/ ImageAllocate(o, "vzalloc", next, next)

\* free_buffers: each image is freed if there is one,
Free(o) ==
  /\ \/ image # NULL /\ Goto(o, "free", "unset") /\ vfree("image")
     \/ image = NULL /\ Goto(o, "free", "free2") /\ UNCHANGED <<dangling, damage>>
     \/ timeout_image # NULL /\ Goto(o, "free2", "unset2") /\ vfree("timeout")
     \/ timeout_image = NULL /\ Goto(o, "free2", "freed") /\ UNCHANGED <<dangling, damage>>
  /\ UNCHANGED <<count, format, image, imagesize, timeout_image, controls, timers, local>>

\* and set to NULL,
Unset(o) ==
  /\ \/ /\ Goto(o, "unset", "free2")
        /\ image' = NULL /\ Overwrite("image", image) /\ UNCHANGED timeout_image
     \/ /\ Goto(o, "unset2", "freed")
        /\ timeout_image' = NULL /\ Overwrite("timeout", timeout_image) /\ UNCHANGED image
  /\ UNCHANGED <<count, format, imagesize, controls, timers, local>>

\* and the size is reset; in allocate_buffers, another one follows.
Freed(o) ==
  /\ Goto(o, "freed",
          IF call[o] \in {"close", "keep_format"} THEN "unready" ELSE "imagesize")
  /\ imagesize' = 0
  /\ UNCHANGED <<count, format, image, timeout_image, dangling, damage, controls,
                 timers, local>>

\* Mutant: keep_format is not looked at.
CloseTest_IgnoresKeep(o) ==
  /\ Goto(o, "test", IF open_count = 0 THEN "free"
                     ELSE IF call[o] = "close" THEN "closed" ELSE "open")
  /\ UNCHANGED <<count, format, memory, controls, timers, local>>

\* try_free_buffers: its test,
CloseTest(o) ==
  /\ Goto(o, "test", IF open_count = 0 /\ keep_format = 0 THEN "free"
                     ELSE IF call[o] = "close" THEN "closed" ELSE "open")
  /\ UNCHANGED <<count, format, memory, controls, timers, local>>

\* Mutant: the device stays ready.
CloseFree_StaysReady(o) ==
  /\ \/ Goto(o, "unready", "unsize") /\ UNCHANGED buffer_size
     \/ /\ Goto(o, "unsize", IF call[o] = "close" THEN "closed" ELSE "open")
        /\ buffer_size' = 0
  /\ UNCHANGED <<count, pix_format, ready_for_capture, memory, controls, timers, local>>

\* and what follows free_buffers.
CloseFree(o) ==
  /\ \/ Goto(o, "unready", "unsize") /\ ready_for_capture' = 0 /\ UNCHANGED buffer_size
     \/ /\ Goto(o, "unsize", IF call[o] = "close" THEN "closed" ELSE "open")
        /\ buffer_size' = 0 /\ UNCHANGED ready_for_capture
  /\ UNCHANGED <<count, pix_format, memory, controls, timers, local>>

\* check_timers, given the values of the fields it reads.
check_timers(ready, jiffies, sustain) ==
  armed' = armed \union
    (IF ready = 0 THEN {}
     ELSE (IF jiffies > 0 THEN {"timeout"} ELSE {})
            \union (IF sustain = 1 THEN {"sustain"} ELSE {}))

-----------------------------------------------------------------------------
(* v4l2_loopback_open.                                                     *)

\* EBUSY and ENOMEM change nothing.
OpenCheck(o) ==
  /\ Call(o, "closed", "open", "count")
  /\ Alone
  /\ open_count < max_openers
  /\ UNCHANGED <<count, format, memory, controls, timers, local>>

OpenCount(o) ==
  /\ Goto(o, "count", "hand")
  /\ open_count' = open_count + 1
  /\ UNCHANGED <<max_openers, format, memory, controls, timers, local>>

\* The opener takes timeout_image_io over.
OpenHand(o) ==
  /\ Goto(o, "hand", "clear")
  /\ local' = [local EXCEPT ![o] = timeout_image_io]
  /\ UNCHANGED <<count, format, memory, controls, timers>>

OpenClear(o) ==
  /\ Goto(o, "clear", IF local[o] = 1 THEN "handimage" ELSE "try_fmt")
  /\ timeout_image_io' = 0 /\ local' = [local EXCEPT ![o] = NULL]
  /\ UNCHANGED <<count, format, memory, keep_format, timeout_jiffies,
                 sustain_framerate, timers>>

\* If the timeout image cannot be allocated, open fails without undoing the
\* count.
OpenImage(o) ==
  \/ ImageTest(o, "handimage", "handvzalloc", "try_fmt", "closed")
  \/ ImageAllocate(o, "handvzalloc", "try_fmt", "closed")

\* Mutant: a negotiated format is replaced.
try_fmt_out_Always(o) ==
  /\ Goto(o, "try_fmt", "store")
  /\ UNCHANGED <<count, format, memory, controls, timers, local>>

AfterTry(o) == IF call[o] = "try_fmt" THEN "open" ELSE "size"

\* vidioc_try_fmt_out: the test,
try_fmt_out(o) ==
  /\ Goto(o, "try_fmt", IF ready_for_capture = 1 THEN AfterTry(o) ELSE "store")
  /\ UNCHANGED <<count, format, memory, controls, timers, local>>

\* and the store; open asks for the module's format.
TryStore(o) ==
  /\ Goto(o, "store", AfterTry(o))
  /\ pix_format' \in IF call[o] = "open" THEN {ModuleFormat} ELSE Formats
  /\ UNCHANGED <<count, buffer_size, ready_for_capture, memory, controls, timers, local>>

\* vidioc_s_fmt_out goes on with a test of its own,
SFmtTest(o) ==
  /\ Goto(o, "size", IF ready_for_capture = 1 THEN AfterAllocate(o, TRUE) ELSE "setsize")
  /\ UNCHANGED <<count, format, memory, controls, timers, local>>

\* and, before it allocates, the size of what is then the format.
SFmtSize(o) ==
  /\ Goto(o, "setsize", "alloc")
  /\ buffer_size' = IF pix_format = NoFormat THEN 0 ELSE FormatSize[pix_format]
  /\ UNCHANGED <<count, pix_format, ready_for_capture, memory, controls, timers, local>>

\* Of open, STREAMON and write().
SetReady(o) ==
  /\ Goto(o, "ready", IF call[o] = "write" THEN "written" ELSE "open")
  /\ ready_for_capture' = 1
  /\ UNCHANGED <<count, pix_format, buffer_size, memory, controls, timers, local>>

-----------------------------------------------------------------------------
(* v4l2_loopback_close.                                                    *)

CloseCount(o) ==
  /\ Call(o, "open", "close", "timers")
  /\ Alone
  /\ open_count' = open_count - 1
  /\ UNCHANGED <<max_openers, format, memory, controls, timers, local>>

CloseLast(o) ==
  /\ Goto(o, "timers", IF open_count = 0 THEN "sustain" ELSE "test")
  /\ UNCHANGED <<count, format, memory, controls, timers, local>>

\* Mutant: the timeout timer runs on.
CloseTimers_Skipped(o) ==
  /\ \/ Goto(o, "sustain", "timeout") /\ armed' = armed \ {"sustain"}
     \/ Goto(o, "timeout", "test") /\ UNCHANGED armed
  /\ UNCHANGED <<count, format, memory, controls, timeout_happened, local>>

\* timer_delete_sync.
CloseTimers(o) ==
  /\ \/ Goto(o, "sustain", "timeout") /\ armed' = armed \ {"sustain"}
     \/ Goto(o, "timeout", "test") /\ armed' = armed \ {"timeout"}
  /\ UNCHANGED <<count, format, memory, controls, timeout_happened, local>>

-----------------------------------------------------------------------------
(* ioctls, read, write and mmap of an open file.                           *)

SetFormat(o) ==
  /\ Call(o, "open", "try_fmt", "try_fmt") \/ Call(o, "open", "s_fmt", "try_fmt")
  /\ UNCHANGED <<count, format, memory, controls, timers, local>>

\* vidioc_streamon for output allocates if nobody has.
StreamonOutput(o) ==
  /\ ready_for_capture = 0
  /\ Call(o, "open", "streamon", "alloc")
  /\ UNCHANGED <<count, format, memory, controls, timers, local>>

\* So does v4l2_loopback_write,
Write(o) ==
  /\ Call(o, "open", "write", IF ready_for_capture = 1 THEN "written" ELSE "alloc")
  /\ UNCHANGED <<count, format, memory, controls, timers, local>>

\* and buffer_written restarts the timers.
Written(o) ==
  /\ Goto(o, "written", "open")
  /\ check_timers(ready_for_capture, timeout_jiffies, sustain_framerate)
  /\ UNCHANGED <<count, format, memory, controls, timeout_happened, local>>

\* v4l2_loopback_mmap allocates too, but does not make the device ready.
Mmap(o) ==
  /\ image = NULL
  /\ Call(o, "open", "mmap", "alloc")
  /\ UNCHANGED <<count, format, memory, controls, timers, local>>

\* get_capture_buffer: can_read checks the timers; a timeout that happened is
\* taken, and its image copied after the lock is released.
GetCaptureBuffer(o) ==
  /\ Goto(o, "open", IF timeout_happened = 1 THEN "copy" ELSE "open")
  /\ check_timers(ready_for_capture, timeout_jiffies, sustain_framerate)
  /\ timeout_happened' = 0
  /\ UNCHANGED <<count, format, memory, controls, local>>

CopyTimeoutImage(o) ==
  /\ Goto(o, "copy", "open")
  /\ UNCHANGED <<count, format, memory, controls, timers, local>>

-----------------------------------------------------------------------------
(* vidioc_s_ctrl.                                                          *)

SetKeepFormat(o, value) ==
  /\ Call(o, "open", "keep_format", "test")
  /\ keep_format' = value
  /\ UNCHANGED <<count, format, memory, timeout_jiffies, timeout_image_io,
                 sustain_framerate, timers, local>>

SetSustain(o, value) ==
  /\ pc[o] = "open"
  /\ sustain_framerate' = value
  /\ check_timers(ready_for_capture, timeout_jiffies, value)
  /\ UNCHANGED <<count, format, memory, keep_format, timeout_jiffies,
                 timeout_image_io, timeout_happened, process>>

\* The timer is started first, under the lock; the image follows.
SetTimeout(o, value) ==
  /\ Call(o, "open", "timeout", "image")
  /\ timeout_jiffies' = value
  /\ check_timers(ready_for_capture, value, sustain_framerate)
  /\ UNCHANGED <<count, format, memory, keep_format, timeout_image_io,
                 sustain_framerate, timeout_happened, local>>

SetTimeoutImageIo(o, value) ==
  /\ pc[o] = "open"
  /\ timeout_image_io' = value
  /\ UNCHANGED <<count, format, memory, keep_format, timeout_jiffies,
                 sustain_framerate, timers, process>>

-----------------------------------------------------------------------------
(* Timer callbacks and sysfs.                                              *)

\* Each callback starts its timer again unless its control was switched off.
TimeoutTimer ==
  /\ "timeout" \in armed
  /\ IF timeout_jiffies > 0
       THEN timeout_happened' = 1 /\ UNCHANGED armed
       ELSE armed' = armed \ {"timeout"} /\ UNCHANGED timeout_happened
  /\ UNCHANGED <<count, format, memory, controls, process>>

SustainTimer ==
  /\ "sustain" \in armed
  /\ sustain_framerate = 0
  /\ armed' = armed \ {"sustain"}
  /\ UNCHANGED <<count, format, memory, controls, timeout_happened, process>>

\* The test against open_count may have been made long ago, at worst before the
\* first open, but not where nothing overlaps.
attr_store_maxopeners(curr) ==
  /\ Alone
  /\ load = "calm" => open_count <= curr
  /\ max_openers' = curr
  /\ UNCHANGED <<open_count, format, memory, controls, timers, process>>

-----------------------------------------------------------------------------
Allocation(o) ==
  \/ AllocateTest(o) \/ AllocateSize(o) \/ AllocateImage(o)
  \/ AllocateTimeout(o) \/ AllocateCheck(o) \/ TimeoutImage(o)
  \/ Free(o) \/ Unset(o) \/ Freed(o)

OpenClose(o) ==
  \/ OpenCheck(o) \/ OpenCount(o) \/ OpenHand(o) \/ OpenClear(o) \/ OpenImage(o)
  \/ try_fmt_out(o) \/ TryStore(o) \/ SFmtTest(o) \/ SFmtSize(o) \/ SetReady(o)
  \/ CloseCount(o) \/ CloseLast(o) \/ CloseTimers(o) \/ CloseTest(o) \/ CloseFree(o)

Use(o) ==
  \/ SetFormat(o) \/ StreamonOutput(o) \/ Write(o) \/ Written(o) \/ Mmap(o)
  \/ GetCaptureBuffer(o) \/ CopyTimeoutImage(o)

Control(o) ==
  \E value \in {0, 1} :
    \/ "keep_format" \in Controls[load] /\ SetKeepFormat(o, value)
    \/ "sustain" \in Controls[load] /\ SetSustain(o, value)
    \/ "timeout" \in Controls[load] /\ SetTimeout(o, value)
    \/ "timeout_image_io" \in Controls[load] /\ SetTimeoutImageIo(o, value)

Next ==
  /\ \/ \E o \in Openers : OpenClose(o) \/ Allocation(o) \/ Use(o) \/ Control(o)
     \/ TimeoutTimer \/ SustainTimer
     \/ \E curr \in Limits[load] : attr_store_maxopeners(curr)
  /\ UNCHANGED load

Spec == Init /\ [][Next]_vars

-----------------------------------------------------------------------------
(* Properties.                                                             *)

TypeOK ==
  /\ load \in Loads
  /\ open_count \in Nat /\ max_openers \in Nat
  /\ pix_format \in Formats \union {NoFormat} /\ buffer_size \in Nat
  /\ {ready_for_capture, keep_format, timeout_jiffies, timeout_image_io,
      timeout_happened, sustain_framerate} \subseteq {0, 1}
  /\ {image, imagesize, timeout_image} \subseteq Nat
  /\ armed \subseteq {"timeout", "sustain"}
  /\ call \in [Openers -> Calls] /\ pc \in [Openers -> Points]
  /\ local \in [Openers -> Nat]
  /\ dangling \subseteq {"image", "timeout"} /\ damage \subseteq {"image", "timeout"}

HasOpen(o) == pc[o] # "closed" /\ call[o] \notin {"open", "close"}
Frees(o) == call[o] = "close" /\ pc[o] \in {"unset", "free2", "unset2", "freed", "unready"}

\* If opens and closes do not overlap and memory does not run out, a device
\* that is ready, and not just being freed, has buffers of the size of its
\* format, the ones write() and read() use untested, and a timeout image of the
\* size that is copied, neither of them freed.
ReadyHasBuffers ==
  /\ TypeOK
  /\ load = "calm" /\ ready_for_capture = 1 /\ ~(\E o \in Openers : Frees(o)) =>
       /\ pix_format \in Formats
       /\ buffer_size = FormatSize[pix_format] /\ image = buffer_size
       /\ imagesize = buffer_size
       /\ timeout_image \in {NULL, buffer_size}
       /\ dangling = {}

\* The format, and with it the buffers that readers have mapped, stays as it
\* is while anybody has the device open, whatever a writer asks for, unless an
\* open overlaps the last close.
FormatFixed ==
  [][load = "calm" /\ (\E o \in Openers : HasOpen(o))
       => pix_format' = pix_format /\ buffer_size' = buffer_size
            /\ image' = image]_vars

\* "stay ready_for_capture even when all openers close() the device"
\* (struct v4l2_loopback_device, keep_format), and keep the buffers.
KeepFormatKeeps ==
  [][load = "calm" /\ keep_format = 1 /\ ready_for_capture = 1
       => ready_for_capture' = 1 /\ image' = image]_vars

\* "how many times a device can be opened" (v4l2loopback-dc.c:115): no more
\* than max_openers.
OpenersBounded == open_count <= max_openers

\* However opens and closes overlap, and whatever allocation fails, the last
\* close leaves no timer running and, unless the format is kept, nothing
\* allocated that the device still points to and a device that is not ready.
\* Where they do not overlap, no buffers were lost or freed twice on the way.
FreedWhenUnused ==
  /\ (\A o \in Openers : pc[o] = "closed") /\ open_count = 0 =>
       /\ armed = {}
       /\ keep_format = 0 =>
            image = NULL /\ timeout_image = NULL /\ ready_for_capture = 0
  /\ load = "calm" => "image" \notin damage

=============================================================================
