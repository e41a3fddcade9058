# TLA+ models and proofs for the DroidCam Linux client

DroidCam turns a phone into a webcam. The phone runs an app; the Linux side,
which is this repository, is a client (a GTK program and a command line
program) that receives JPEG frames and speex audio over a socket, and a kernel
module, a fork of v4l2loopback, into which the client writes decoded pictures
and from which any application reads them as from a camera.

This directory holds models of the parts where order and timing decide whether
the program is right: the threads of the client and what they share, and the
driver and the processes that have it open. The models are checked with TLC on
small instances, and all their safety properties, and the refinements between
them, are proved with TLAPS for every size. Paths below are those of the repository (`av.c` is
`src/av.c`, `v4l2loopback-dc.c` is `v4l2loopback/v4l2loopback-dc.c`).
`PROJECT.json` maps each definition to the lines it models.

Contents: [inventory](#inventory) - [modules](#modules) - [runs](#runs) -
[fairness](#fairness) - [proofs](#proofs) - [findings](#findings) -
[observations](#observations) - [not modelled](#not-modelled) - [plan](#plan)

## Inventory

| component | files | state | operations | talks to |
|---|---|---|---|---|
| frame queue | `queue.c` | singly linked list `first`, `last`, `size`, a mutex | `queue_init`, `queue_add`, `queue_next`, `queue_clear`, `queue_destroy` | called by the frame pool from two threads |
| frame pool, JPEG decoding | `decoder.c` | `jpg_frames[JPG_BACKBUF_MAX]` (3), `receive_queue`, `decode_queue`, `m_inBuf` and the picture buffers, `m_BufferLimit`, the transform | `decoder_init/fini`, `decoder_prepare_video`, `decoder_cleanup`, `pull_empty_jpg_frame`, `push_jpg_frame`, `pull_ready_jpg_frame`, `process_frame`, speex | video and decode threads; writes pictures to the driver |
| picture flips | `decoder.c` | `jpg_decoder.transform.op`, `WEBCAM_W`, `WEBCAM_H` | `decoder_horizontal_flip`, `decoder_vertical_flip`, the rotation in `decoder_prepare_video` | main thread, video thread, settings |
| video and decode threads | `av.c` | `v_running`, `v_active`, `thread_cmd` | `VideoThreadProc`, `DecodeThreadProc` | phone (socket), frame pool, main thread (flags, mailbox) |
| audio thread | `av.c` | `a_running`, `a_active`, `decode_buf` | `AudioThreadProc`: wait for video, UDP tries, TCP, streaming loop | phone, ALSA transfer, main thread |
| ALSA transfer | `decoder_snd.c` | `transfer.first`, `transfer.frames`, period and buffer size | `snd_transfer_check`, `snd_transfer_commit`, `xrun_recovery`, `find_snd_device` | sound card (`snd-aloop`) |
| battery thread | `av.c` | the battery label | `BatteryThreadProc` | phone, GUI label |
| connections | `connection.c` | the server socket | `Connect`, `accept_connection`, `disconnect`, `RecvAll`, UDP | all threads |
| GUI controller | `droidcam.c` | widgets, `g_settings`, the threads | `Start`, `Stop`, `the_callback`, `controls_callback`, `wb_callback` | threads by flags and joins |
| command line client | `droidcam-cli.c` | as the GUI, without widgets | `main`, `wait_command`, `sig_handler` | threads |
| settings | `settings.c` | the settings file, in four versions | `LoadSettings`, `SaveSettings` | GUI |
| USB helpers | `usb.c` | none | adb and usbmuxd calls | GUI |
| device discovery | `decoder_v4l2.c` | the format of the device found | `find_v4l2_device`, `query_v4l_device` | `decoder_init`, driver |
| driver: frames | `v4l2loopback-dc.c` | `outbufs_list`, `bufpos2index`, `used_buffers`, `write_position`, per opener `read_position` | write, read, QBUF, DQBUF, REQBUFS, QUERYBUF, mmap, both timers | client writes, applications read |
| driver: open, close, formats, controls | `v4l2loopback-dc.c` | `open_count`, `ready_for_capture`, `pix_format`, image and timeout image memory, controls | open, close, S_FMT, STREAMON, four controls, sysfs `max_openers` | all processes that have the device open |

What is hard in each, and what makes it right:

- **Frame pool.** Two threads hand three buffers back and forth through two
  queues. Each queue operation locks, but `push_jpg_frame` reads both sizes
  without the lock and acts on them afterwards, the result of
  `pull_empty_jpg_frame` is used untested, and `decoder_cleanup` runs while the
  decode thread may still hold a frame. Right means: the pull never yields
  NULL, no entry is lost or invented, the backlog stays bounded, a buffer that
  is being decoded is not being received into, and a frame left from an earlier
  session never leads to freed memory.
- **Queue.** Allocation happens outside the mutex, freeing inside, the fields
  are updated one by one. Right means: outside the critical sections it is an
  atomic FIFO queue, nothing leaks, and the size read without the lock is exact.
- **Sessions.** Up to four threads with flags and joins; sockets with and
  without timeouts; mode buttons that stay usable during a session. Right
  means: Stop returns and leaves no thread, socket, flag or label behind.
- **Command mailbox.** One place, no lock, cleared after sending. Right means:
  a command is sent as given, once, in order, and the GUI loses none.
- **Video stream.** `RecvAll` may return a part of what was asked for, and every
  positive result counts as all of it. Right means: the frames pushed are those
  sent unless that happened, and a closed connection ends the loop even then.
- **Settings, flips, device.** The transform is read and written by two threads
  without a lock and outlives the session, the settings file is truncated
  before it is written and comes in four versions, and the device found may
  have another format than the one asked for. Right means: settings and flips
  survive, a portrait device's picture is rotated, pictures have
  the size of the device.
- **Audio.** Under-runs and suspends turn up in any ALSA call; decoded samples
  are carried over between periods, and a read returns any number of bytes. Right
  means: the samples of a packet read whole arrive in order and once, the device is started again after every recovery, Stop is seen.
- **Driver frames.** Readers pick a position under the lock and use it after
  the unlock, while the producer goes on and other readers, without the lock,
  shrink the set of buffers. Right means: the picked frame is the one delivered, whole, and no
  wakeup is lost.
- **Driver open and close.** No lock covers an open, a close or an allocation,
  which sleeps between its test and its store. Right means:
  the device is ready exactly with buffers of its format, the format does not
  change under anybody, and the last close frees everything.

The hazards, each at its line, are in `PROJECT.json`.

## Modules

    FrameChannel  <-- refined by --  VideoSession  -- proofs --> VideoSessionProof
                                        | its queues are sequences, as shown by
    FifoQueue     <-- refined by --  LinkedQueue

    CommandMailbox   thread_cmd between main thread and video thread
        ^ refined by
    VideoStream      (MCVideoStream)      the bytes of the video connection in between

    ClientSession    the same threads seen from the main thread, all sessions
    Preferences      (MCPreferences)      settings, flips and rotation over program runs
        uses VideoDevice                  which device is found, and its format
    AudioTransfer    the streaming loop of the audio thread and the sound device

    LoopbackRing     (MCLoopbackRing)     buffers and frames of a ready device
    LoopbackDevice   (MCLoopbackDevice)   open, close, formats and controls

`XProof` holds the theorems about `X`: there are `VideoSessionProof`,
`LinkedQueueProof`, `VideoStreamProof` (which proves about `CommandMailbox`, too),
`ClientSessionProof`, `PreferencesProof`, `LoopbackRingProof`,
`LoopbackDeviceProof` and `AudioTransferProof`.

Variables carry the names of the source. Each thread has a program counter
(`vpc` the video thread's, `dpc` decode, `apc` audio, `bpc` battery, `ctl` or
`cpc` the main thread, `pc` otherwise); a step runs from one access of shared
state to the next. Definitions named `X_Something`, headed "Mutant", are `X`
with a plausible slip; they are not part of any specification and serve to show
that a property depends on `X`.

### VideoSession

`receive_queue` and `decode_queue` are sequences of frame numbers; `data[f]` is
the buffer `jpg_frames[f].data` points into, named by the session that allocated
it, `inBuf` the current `m_inBuf`, `decodeBuf` the pointer `process_frame`
reads. `content[f]` is the JPEG in a frame, numbered as received, `shown` the
last one displayed. `stale` counts the entries that outlived the last
`decoder_cleanup`.

| code | actions |
|---|---|
| `VideoThreadProc` up to the loop | `Accept`, `AcceptFails`, `SendRequest`, `RecvReply`, `PrepareFrame` |
| its loop | `PullEmpty`, `LoopEnds`, `RecvHeader`, `RecvBody`, `RecvFails` |
| `push_jpg_frame` from the video thread | `PushReadReceive`, `PushReadDecode` (the unlocked reads), `PushAdd` |
| `early_out` and `decoder_cleanup` | `EarlyOut`, `FreeBuffers`, `ClearReceive`, `ClearDecode`, `AgainOrEnd` |
| `DecodeThreadProc` | `PullReady`, `DecodeEnds`, `ProcessFrame`, `ReturnFrame` |
| `Start`, `Stop`, `decoder_fini` | `Start`, `Stop`, `Join`, `Fini` |

The unlocked reads are steps of their own because that is where the other
thread gets in. `RecvBody` is one step, but the property `NotTorn` looks at
the whole time a frame is being decoded. Each frame has a buffer of its own that
its JPEG fits into: see the observations. `process_frame` may fail at any
JPEG: then the previous picture stays.

### LinkedQueue and FifoQueue

Every store of `queue_add`, `queue_next` and `queue_clear` is a step; `heap` is
the set of allocated elements, and a freed address may be handed out again by
the next `calloc`. `queue_clear` is run by the thread named `v` only, as in the
client. `Chain` is the one sequence of elements that `first` and `next` lead
along; it is chosen, not computed, so that it can be proved about. The
refinement mapping counts an element from the increment of
`size` on until the decrement, so that an unlocked reader of `size` sees the
abstract queue's length at each moment.

### ClientSession

The threads of the GUI over several presses of the start button in the
modes wifi, adb, ios and server, with the window that may be closed at any time
(`Quit`), or those of the command line client, which has one session and no
battery thread, and stops on a signal. `socket[t]` says over what thread t is
connected. Only sockets from `Connect` have a receive timeout
(`connection.c:63-87`); those from usbmuxd and `accept` have none.

### CommandMailbox and VideoStream

`issued` and `sent` are the histories the properties compare. `client`, chosen
at the start, tells the GUI, whose callbacks do nothing while a command waits,
from the command line client, whose keys overwrite it. `CommandMailbox` leaves
the receiving abstract (`RecvFrame`: it succeeds or it does not);
`VideoStream` extends it with the bytes: the answer of `HeaderSize`, then frames, each a
length and a JPEG. The phone sends the JPEGs of `FrameLengths` over and over,
`at` is the position in one such round, `need` the length that was read.
`RecvAll(n, got)` may return less than `n` when the connection ends or when its
timeout passes (`connection.c:63-92`: only `Connect` sets one). A length field
that is incomplete or out of step says any number of `Garbage`. `short`,
`last` and `damaged` are history: whether any result was short, the last good
frame pushed, and how many were pushed that are not what the phone sent.

### Preferences and VideoDevice

A settings file is a record of its version and the lines it has; a line that does not
parse is one it does not have. `LoadSettings` and `SavedFile` are the two
conversions, `SaveSettings` is two steps (`GuiQuit` truncates, `SaveEnds`
writes), and `Killed` may come anywhere between. `machine` is a sequence of
video devices; `decoder_init` (`FindDevice`) chooses one and may set its format.
`op` is the transform, which a flip reads (`FlipRead`) and writes (`FlipWrite`)
in the main thread, while `Prepare` (`decoder_prepare_video`) in the video
thread sets the rotation; `wanted` is the history of what the user asked for.
The command line client applies its flip options when its threads run already
(`droidcam-cli.c:293`). The pictures themselves are left out: a transform is the
set of axes it flips.

### AudioTransfer

The stream is a sequence of encoded chunks of `Pieces` pieces, and a read
(`Receive`) may end after any piece, as one of a TCP stream may end after any
byte: `stream_buf` keeps what earlier reads left behind a short one, and of a long
one the last packet's worth is decoded, wherever it begins (`av.c:287-307`).
Pieces and samples are numbered. A chunk that is decoded from its own pieces yields
its samples; any other pieces yield some number of frames, or none, of nothing in particular
(0). `decode_buf` and the copy of `av.c:322-331` are modelled sample by sample, the
device by its state, the free room `avail` and the write pointer `appl`. An
error may turn up in each ALSA call when the device has under-run or been
suspended; `Recover` is `xrun_recovery` called from there. The assumption that
the buffer is two frames is what `decoder_snd.c:290` (`find_snd_device`) insists
on; of the period nothing is assumed. `PlayedInOrder` speaks of packets read whole
(`start`) and of periods that hold a decoded frame, which nothing in the code
insists on: see the observations.

### LoopbackRing

A device that is ready for capture, one producer and readers. The producer uses
`write()` as DroidCam does, or QBUF and DQBUF of output buffers; `how` says
which, chosen at the start. `outbufs_list` is the list of buffers in the
order in which they are to be written, `bufpos2index` the map from positions to
buffers; `frame[b]` is the frame a buffer holds, `mapped` the MAPPED flags.
`write()` is split in filling, which may fail, `buffer_written` (atomic: spinlock)
and the wakeup; REQBUFS, which runs without the lock, in a step for each element
of its two walks over the list, the test of `used_buffers` and the store; DQBUF of a reader in the test, the sleep, the pick (atomic:
spinlock) and the access afterwards. A reader reads, reads with `O_NONBLOCK` or
polls (`Calls`, and `call` while it does): `O_NONBLOCK` tests without the lock and
then waits like any other call, `poll` waits and takes nothing. The timeout image is copied into the
buffer in a time of its own (`CopyTimeoutImage`, `TimeoutImageCopied`). `due`,
`late`, `own` and `mark` are history: the frame a reader picked, the frames begun
since, whether it has mapped its buffers since the last reset, and the position
of the last remapping. `imaged` are the buffers that the timeout image was
copied into. `own` counts a mapping only if it was made while no REQBUFS was under
way: one may map between another's reset of the flags and its change of
`used_buffers`. `LastClose` is the end of `try_free_buffers`, after which positions
start at 0 again while the list and the map stay as they are. `QuietSetup` keeps
REQBUFS from overlapping a frame that is being written or another REQBUFS; no lock of
the driver does. The run `ring_race` shows what happens in the first case, the
observations tell of the second.

### LoopbackDevice

Processes open, set formats, stream, write, read, set controls and close.
Only the timers are under the lock. Outside of it no step stores more than one of
the device's fields, and none tests a field and stores it, so that what a process has
read may have changed when it acts on it: `allocate_buffers` is its tests
(`AllocateTest`), the store of the size, `vmalloc` with the store of the image, the
timeout image likewise (`ImageTest`, `ImageAllocate`), and the test for `ENOMEM`;
`free_buffers` frees each image in one step and forgets it in the next (`Free`,
`Unset`, `Freed`); `try_fmt_out` and `s_fmt_out` are tests and stores of their own,
inside open too. `call[o]` is the system call a process is in and `pc[o]` how far,
`local[o]` what it has read. `image`, `timeout_image` are the sizes of the allocated
memory, `NULL` if none. `load`, chosen at the start, tells calm behaviours, in
which opens, closes and sysfs writes follow one another and memory suffices, from
those under stress, in which they overlap and allocations may fail. In calm
behaviours `dangling` is the history of pointers to freed memory and `damage` of
blocks lost or freed twice; under stress the code does both (see the observations),
and the properties speak of what the device still points to.
`opener->type` and `opener->timeout_image_io` are left out, since nothing
modelled here reads them after the open.

## Runs

All runs finish within five minutes with two workers. Deadlock is checked only
in `linked_queue`: everywhere else the program may stop, be it that the user
presses no button or that a bound is reached. The longest, `ring`, has 3.5 million
states; it and `audio` take about two minutes, the others less.

| run | shows | bounds, and why they are enough |
|---|---|---|
| `video_pool` | `TypeOK`, `PullNeverNull`, `PoolConserved`, `StaleBounded`, `BacklogBounded`, `ExclusiveWhenClean`, `LiveBuffers`, `NotTorn`: the hand-over of buffers between the threads, over restarts; `BacklogDrains`, `ServerAcceptsAgain`; and `ImplementsChannel`: a clean session is a lossy bounded FIFO channel | 3 frames, as in the code (`JPG_BACKBUF_MAX`), 4 JPEGs, 3 sessions: the third session is the first that inherits from one that inherited. The theorems lift all three bounds |
| `linked_queue` | `Consistent`, `NoLeak`, `SizeExact`, and `ImplementsFifo`: the list is an atomic FIFO queue | 2 threads as in the client, 3 addresses, so that an address is reused while another element is linked |
| `session` | `NothingLeft`, `SameConnection`, `StopHangsOnlyInRecv` over all threads and modes, for both programs | 2 sessions, so that the second starts from what the first left; one click; the GUI may quit in any state |
| `stream` | `SentAsIssued`, `NoneLost`, `CommandTaken` of the mailbox for both programs; `FramesAsSent`, `DamagedIsLast`, `CloseEndsLoop` of the frames | 3 commands over 2 sessions, one of which may wait across the Stop; a header and a length of 2 bytes, JPEGs of 2 and 3, so that a receive may be short by any number of bytes and a length may be read across a JPEG and the next length; garbage lengths of 0, of less and of more than the next JPEG |
| `preferences` | `SettingsKept`, `FlipsKept`, `RotatedUntilFlipped`, `DeviceMatches` | 2 runs of either program, the least in which one reads what another saved, 3 changes per behaviour, a file of each version, seven machines (`MCPreferences`), among them drivers that take, refuse and adjust a format, to a size the client cannot use as well |
| `audio` | `PlayedInOrder`, `StopSeen`, `UnderrunRestarts` | the code's ratios (packet of two chunks, ring of two frames), chunks of 2 pieces, so that a read may end inside one, and a buffer of 3 chunks, so that one may be longer than a packet; 8 pieces, a suspend, under-runs without bound; 2 tries to resume instead of 60000 |
| `audio_suspend` | finding: `PlaybackStarts` fails | one suspend |
| `ring` | `ListExact`, `DeliversPicked`, `MappedUnlessReset` with two readers that shrink and map, one REQBUFS at a time and none while a frame is written | 3 buffers, 3 frames: buffers are used again after a REQBUFS, positions wrap around and a slow reader is lapped; the timers are off, `ring_wake` has them. One of the readers at a time takes frames out (`OneReads`), which with the timers off changes only that reader's own state; the other opens, requests, maps, waits and closes |
| `ring_wake` | `FrameReaches`, and `NonblockReturns`: `read`, `O_NONBLOCK` and `poll` with both timers | one reader, so that no other reader's wakeup can help it; 2 buffers, 3 frames, one timer callback or signal |
| `ring_race` | finding: `RemapHolds` fails | one reader, REQBUFS free to overlap a write |
| `device` | `ReadyHasBuffers`, `FormatFixed`, `KeepFormatKeeps`, `FreedWhenUnused` | two processes are enough for every overlap of an open or close with another; two sizes; calm: all four controls and sysfs; stress: `keep_format` and the timeout, on which freeing depends |
| `device_max_openers` | finding: `OpenersBounded` fails | one opener allowed, two openers |

Symmetry is used in `ring` and `device` only, whose properties are safety
properties that name no process.

What each property says, and of which lines, is in the comment above it. Each
is broken by at least one of the mutants; `PROJECT.json` pairs them.

## Fairness

Only what the code relies on:

- Every thread of the client that can go on without its peer or the user does
  (`VideoStep`, `DecodeStep`, `AudioStep`, `BatteryStep`, `LocalStep`, `Join`,
  `StopEnds`): the threads are ordinary pthreads with sleeps.
- A receive returns if its socket has a timeout (`connection.c:63-87` sets five
  seconds) or its connection is closed (`WF_vars(TimedSocket /\ Recv)`,
  `WF_streamVars((Timed \/ closed) /\ Recv)`). No
  fairness is assumed of the peer, so a silent phone on any other socket is a
  behaviour, and the reason why `StopHangsOnlyInRecv` is not stronger.
- The user is under no obligation: neither Start, Stop nor any command is fair.
- The sound device plays once it is started (`WF_vars(Play)`); nothing is
  assumed about suspends and about whether resuming works.
- In the driver a `write()` that has begun ends and wakes, and a woken reader
  runs. Timers are not fair: no property relies on one.

All are weak fairness: no thread competes for anything it could lose for ever,
but for the queue's mutex, which `linked_queue` (safety only) does not need to be fair.

## Proofs

`VideoSessionProof` proves, for every `JPG_BACKBUF_MAX > 0`, every
`m_BufferLimit`, every set of modes, and with no bound on JPEGs and sessions
(`MaxSerial` and `MaxSessions` may be any value):

| theorem | property |
|---|---|
| `Invariance` | `Inv`, below |
| `TypeCorrect` | `TypeOK` |
| `NeverNull` | `PullNeverNull`: the pull whose result `av.c:167` does not test never yields NULL |
| `Conservation` | `PoolConserved` |
| `LeftoverBound` | `StaleBounded`: two entries at most outlive a cleanup |
| `BacklogBound` | `BacklogBounded` |
| `Exclusivity` | `ExclusiveWhenClean` |
| `BuffersLive` | `LiveBuffers` |
| `NeverTorn` | `NotTorn`, an action property |
| `SessionIsChannel` | `ImplementsChannel`: each step in a session without leftovers is one of `FrameChannel` or none |

The assumptions are `PoolAssumption`, `LimitAssumption` and `ModesAssumption` of
`VideoSession`, which TLC evaluates in the runs of that module.

None of these properties is inductive. `PullNeverNull` needs the receive queue to
be non-empty at the loop test, and that needs it to have been non-empty in
`push_jpg_frame` after the unlocked read of its size; since the decode thread
only adds to that queue, what was read remains true (`NotStarved`).
`BacklogBounded` needs the same argument with the other queue, which the decode
thread only shrinks (`Backlog`). `StaleBounded` needs to know, between the two
`queue_clear` calls, what the decode thread has put back, holds, and can still
pull (`Leftovers`). `ExclusiveWhenClean` needs to know that while a session
without leftovers prepares there is nothing but the frames added so far
(`CleanPrepare`), and `LiveBuffers` which of them already point into the new
buffer (`Preparing`, `Pointers`). `Inv` is the conjunction of these, of `Owners`
(a thread holds a frame exactly where its program counter says so) and of the
properties. There is one lemma per action, joined in `NextInv`; queue
operations enter through `AppendFacts` and `TailFacts`.

The refinement needs besides that a frame was filled before it is queued
(`Filled`). Then the queue of frames, read through `content`, is a queue of
JPEGs: receiving changes none of them since the frame in hand is not queued
(`ExclusiveWhenClean`), and adding and taking frames adds and takes their JPEGs
(`JpegsAppend`, `JpegsTail`).

The other proof modules follow the same pattern: `Inv` with named parts, one
lemma per action or group of actions that disturb the same parts, `NextInv`,
and the theorems.

| module | theorems | argument |
|---|---|---|
| `LinkedQueueProof` | `QueueConsistent`, `NothingLeaks`, `SizeIsExact`, and `QueueIsFifo`: the refinement | There is a sequence `s` of `n` elements along which `first` and `next` lead (`Leads`), which with the elements in the threads' hands is all that is allocated (`Accounted`), and of which `size` and `last` say what the owner of the mutex has left them to say (`Sized`, `Ended`). The list is quantified, so that no induction over it is needed. For any set of threads, finite set of addresses, payloads and `Backbuffer` |
| `VideoStreamProof` | `StreamImplementsMailbox`: the stream's steps are steps of `CommandMailbox` or none; `CommandsAsIssued`, `NoCommandLost`; `FramesInStep`, `DamageEndsStream` | What waits is what was issued last (`LastIssued`), and unless it is just being cleared it is newer than all that was sent (`Unsent`): between send and clear the mailbox holds a command that is no longer waiting. Until a `RecvAll` is short the thread is at the start of the frame after the last one pushed, or behind its length (`Begins`, `InStep`), and in a mode without timeout a short one means that the connection is closed (`CutByEnd`). That frames follow one another without overlap comes from the recursion of `FrameStart`. For any commands, values, frames and number of sessions |
| `ClientSessionProof` | `StopLeavesNothing`, `ConnectionOfTheSession` | What a thread may own where it is (`VideoOwns`, `AudioOwns`, `BatteryOwns`), so that one that is done owns nothing; a thread that has not passed its UDP attempt may still lose a socket (`LeaksBounded`). For any number of sessions and clicks |
| `PreferencesProof` | `SettingsSurvive`, `FlipsSurvive`, `PortraitIsRotated`, `PicturesFitDevice` | Between the read and the write of a flip the transform is the one read unless the picture is a portrait (`FlipPending`), and what has been applied of the user's wishes depends on how far the command line client is (`FlipsApplied`). The device that is open has the size the client took from it, whatever its driver made of the format asked for, and YUV420 unless the driver adjusted that (`DeviceKnown`). For any files, machines, options, formats adjusted to, and number of runs |
| `LoopbackRingProof` | `TypeCorrect`, `NonblockReturning`, `WakeupPending`, however REQBUFS overlap; `ListIsExact`, `RemapHoldsIfQuiet`, `MappedUntilReset`, `DeliversWhatWasPicked` under `QuietSetup` | Five invariants, each inductive given the ones before. `TypeInv`: whatever overlaps, the list holds no buffer twice and always buffer 0. `WaitInv`: no reader is ahead of the producer, what a reader was let in for does not go away, who sleeps with something to read is about to be woken. `ListInv`: a REQBUFS has taken the buffers out of range off the list up to the element it comes to (`Shrinks`), or given the buffers left their positions up to there (`Remaps`); while none has a list to shorten, the list is what `used_buffers` says (`Full`). `MapInv`: one that mapped all it was granted has mapped all that is in use. `FrameInv`: the newest `used_buffers` frames since the last remapping are whole, or overwritten by the timeout image, and at their positions (`Whole`), where the producer's next buffer is none of theirs (`WritePlace`, `StreamPlace`), and what a reader picked is one of them until it is lapped (`Picked`). For any number of readers, buffers and frames |
| `LoopbackDeviceProof` | `UnusedIsFree`, under overlap and failing allocations for what the device points to, in calm behaviours for what was lost, too; `BuffersWhenReady`, `FormatStays`, `KeepFormatStays` of calm behaviours | `open_count` is at least the number of processes it stands for (`CountEnough`), so that nobody who could allocate is left when a close finds it zero, and what is left to free is left to a process that is closing (`LastCloses`), at each step of `free_buffers`. In calm behaviours one process at a time opens or closes, and finds format and buffers as the one before left them (`Opened`, `Used`, `Closed`), so that it allocates where nothing is allocated. For any finite set of processes and any formats |
| `AudioTransferProof` | `SamplesInOrder` | There is room wherever samples are about to be written, whatever is recovered there (`Room`), and if a period holds a frame, for a frame in one piece (`Piece`), so that frames are taken whole, `decode_buf` holds none, the second or both of what was decoded last (`Stored`), and what was copied last is what precedes them (`Taken`). A packet read whole is newer than all that had arrived before it (`Known`), whatever reads there were. For any sizes, any number of reads of any length, and of suspends |

Assumptions are the `ASSUME`s of the modules proved about, which TLC evaluates in
the runs: sizes are positive, sets of modes, programs and clients are those of
the code, the sets of processes and of addresses are finite, markers such as
`NULL` are no elements.

What is said of the ring's buffers and positions assumes `QuietSetup`, as the runs
`ring` and `ring_wake` do: that no REQBUFS overlaps a frame being written or another
REQBUFS. The driver does not enforce it (`vdev->lock` is not set, so that ioctls
are not serialized); applications that ask for buffers one after the other, before the
producer starts or between two of its frames, keep to it. What becomes of the
positions otherwise is finding 1, what becomes of `used_buffers` an observation.
What is said of waiting has no such assumption.

Two theorems bound the findings, by saying that the overlap they exhibit is
what it takes: `RemapHoldsIfQuiet`, that with any number of readers the
comment that `ring_race` refutes is right if REQBUFS is quiet, and `BoundedWhenCalm`, that
`open_count` stays within `max_openers` while opens and closes do not overlap.

Induction is done with the set of numbers for which a formula holds instead of
with a predicate (`SetInduction`, from the well-foundedness of `<` on the
naturals). It shows that the recursive function `FrameStart` of the stream is
defined up to the last frame (`StartsExist`), and thereby that each frame starts
where the one before it ends (`FrameEnds`).

Only model-checked, and for good, since they are out of the prover's reach, are the
properties under fairness: `BacklogDrains`, `ServerAcceptsAgain`,
`CloseEndsLoop`, `CommandTaken`, `StopHangsOnlyInRecv`, `StopSeen`, `UnderrunRestarts` and
`FrameReaches`. Of the last, the safety part is proved: `WakeupPending` says
that a reader never sleeps on a frame without a wakeup that is due. No
module uses a `RECURSIVE` operator.

## Findings

Disagreements between what the code does and what it says of itself, each with a
run that ends in a counterexample:

1. `ring_race`: a reader's REQBUFS rewrites `bufpos2index` and `used_buffers`
   without `dev->lock` (`v4l2loopback-dc.c:1469-1490`). A `write()` in between
   uses the old `used_buffers`, so that two positions name one buffer, against
   the comment at line 1478.
2. `device_max_openers`: `open_count` is compared with `max_openers` and
   incremented in two steps (lines 1908 and 1918). Two opens both pass, against
   the parameter's description at line 115.
3. `audio_suspend`: when a suspend is found by `snd_transfer_check`
   (`decoder_snd.c:178-184`) and resuming fails, the device is prepared but
   `transfer->first` is not set, as it is after every other recovery. The device
   is never started again, against the comment at line 118.

## Observations

Made while modelling; the code contradicts no comment or test here, so no run
checks them.

Client: the length of a JPEG is received as it is (`av.c:171`) and not compared
with the size of the frame's slice of `m_inBuf`, on which the next frame's slice
follows (`decoder.c:258`); `VideoSession` takes it to fit. `decoder_cleanup` frees `m_inBuf` and the picture buffers while the decode thread may be in
`process_frame`; up to two pool entries survive into the next session, in which
one frame may then be in both threads' hands. `MSG_WAITALL` with a timeout may
return a part of a frame, which is taken as the whole, and everything after it on
that connection is out of step: what was a JPEG is read as a length. Stop may hang in a join
when the socket is an accepted one or usbmuxd's. The UDP socket is lost
when audio falls back to TCP. When Stop clears `v_running` during the audio
thread's wait for video, that thread still connects and sends its request. A
mode clicked in a session changes the connection audio and battery use from
then on. In a session without video the mode buttons set the start
button's label, so that a running session shows "Connect". `v_running` stays 1
when the video thread has ended by itself. A command waiting at Stop is sent in
the next session; one whose Send fails is lost; the command line client
overwrites waiting commands, or has one erased between send and clear. That
client also keeps running after its connection is lost, until a signal.

Settings and pictures: a program killed while it saves loses every setting,
since `fopen` truncates the file first. `adb_auto_start` is loaded but never
saved. A session over adb puts 127.0.0.1 into the saved address. `-size` is not
validated: a size that cannot be used is saved and falls back to the default
when it is loaded. A `-dev` that cannot be opened yields descriptor 0, so that
`decoder_init` fails instead of looking for another device. S_FMT is taken to have
set the pixel format whenever it succeeds, while drivers may adjust it and report
success (this repository's does, `v4l2loopback-dc.c:924-940`): the size is then the
device's, the format need not be (`DeviceMatches` says so). A flip while the picture is rotated by 90 degrees
replaces the rotation while width and height stay exchanged, and saved flips
are lost to the rotation in each session of a portrait device.

Audio: the `memmove` of `av.c:328` moves as many samples as were played, which
is right only if the period holds a decoded frame; `set_hwparams` asks for 20 ms
"or near", and `find_snd_device` insists on the buffer size, not on the period
granted. With frames of 4 samples, a period of 3 and a ring of 8 TLC finds samples
that are played twice. After a recovered error of
`snd_pcm_mmap_begin` the transfer uses the area of an earlier call. A read that is
shorter than a packet is decoded together with what the buffer held before, and after
excess data that is no multiple of a chunk decoding begins inside one; either
takes the stream out of step, and what is played until a read ends with a chunk again is
noise. `PlayedInOrder` claims nothing of it.

Driver: `STREAMON` makes every caller a writer although the comment above
`v4l2_loopback_open` speaks of limiting them by a "writer field", and
`open()` itself sets `ready_for_capture`, although line 219 says that a writer
does. The timeout timer is started before its image is allocated, and the copy
does not test it. An opener that is to use the timeout image fails when it is
the first one, leaving `open_count` incremented. A failing `allocate_buffers`
goes unnoticed in `s_fmt_out`. A close and an open that overlap may free the
buffers under the new opener. Two first opens that overlap both find no image, both
allocate one, and one block is lost; two calls in `free_buffers` may both free the same one;
and two processes that both need the timeout image may both allocate it, even where no open
or close overlaps another. Of two REQBUFS that overlap, one that asked for more
may pass the test of `used_buffers`, the other shorten the list and store its number, and the
first store its own (`v4l2loopback-dc.c:1488-1489`): with 2 and 1 of 3 buffers, `used_buffers` is then 2
and the list holds buffer 0 only, against the comment at line 1461, so that a producer that queues
buffers puts two frames into one, and a reader that had mapped its one buffer is given an unmapped one.
A walk over the list while the producer or another REQBUFS moves its elements may skip some or
follow one that is gone. `used_buffers` only decreases; REQBUFS of a second
reader clears the MAPPED flags of all. The result of `wait_event_interruptible`
is ignored. `timeout_happened` is not cleared by a new frame. `write_position`
overflows after 2^31 frames. `vidioc_s_parm` takes a
frame rate as it is, while the sysfs attribute checks it. A `write()` that overlaps a REQBUFS may move a
buffer that is no longer on the list, which stops the kernel.

## Not modelled

- Pixels and samples: turbojpeg, scaling, speex. Pure computation in libraries.
- The wording of the protocol: requests, the contents of the 9 byte header, the
  battery answer, UDP datagrams and keep-alive messages.
- `usb.c` (adb and usbmuxd): calls and process output without state of their own; their
  results are choices in `VideoSession` and `ClientSession`. `find_snd_device`
  and the parameters it sets: calls into ALSA; what the code insists on is an
  assumption of `AudioTransfer`.
- Window layout, the tray indicator, the confirmation dialog, `resources.c`
  (generated), the install scripts and `v4l2loopback/test.c` (a manual test).
- Driver ioctls that only read the device's fields (enumeration, G_FMT, G_PARM, capability
  queries), and the frame rate, which no other code path reads but the
  sustain timer's period. Registration and unloading of the module.
- Exits of the program on a failing mutex or `calloc` in `queue.c`.

## Plan

Done: all the modules above; proofs of every safety property that a run checks,
of the refinements of `FrameChannel`, `FifoQueue` and `CommandMailbox`, and of
what bounds the findings `ring_race` and `device_max_openers`.

Left, in the order of what it would settle:

1. The threads' view of the queue: `VideoSession` with the linked list in place
   of its sequences, as one composition, instead of two refinements that meet
   in the meaning of a queue operation.
2. `LoopbackRing`: what readers get when REQBUFS does overlap a write or another
   REQBUFS: which of the positions stay right.
3. The safety part of the other liveness properties, as `WakeupPending` is that of
   `FrameReaches`: for each state in which a thread waits, who will end the wait.
