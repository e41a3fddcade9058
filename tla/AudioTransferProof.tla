-------------------------- MODULE AudioTransferProof --------------------------
(***************************************************************************)
(* The audio transfer, proved for every size of frame, period and ring, for *)
(* reads of any length and for any number of reads and suspends.           *)
(*                                                                         *)
(* Everything rests on frames being taken whole, which a period that holds *)
(* one ensures: the device then has room for a frame, in one piece, between *)
(* the test and the commit, whatever is recovered there (Room, Piece).  So  *)
(* decode_buf holds none, the second or both frames of what was decoded     *)
(* last (Stored), what was copied last is what comes before them (Taken),   *)
(* and a packet that was read whole is newer than all that had arrived      *)
(* before (Known).                                                          *)
(***************************************************************************)
EXTENDS AudioTransfer, SequenceTheorems, WellFoundedInduction, TLAPS

-----------------------------------------------------------------------------
(* The inductive invariant.                                                *)

DeviceTypes ==
  /\ a_running \in {0, 1} /\ first \in {0, 1}
  /\ pc \in {"loop", "recv", "check", "update", "wait", "begin", "copy",
             "commit", "resume", "out"}
  /\ frames \in 0 .. period_size
  /\ after \in {"loop", "update", "copy"} /\ limit \in 0 .. ResumeLimit
  /\ state \in {"prepared", "running", "xrun", "suspended"}
  /\ avail \in 0 .. buffer_size /\ appl \in 0 .. buffer_size - 1
  /\ suspends \in Nat

\* Where a frame is about to be written there is room for what was granted.
Room ==
  /\ state \in {"running", "suspended"} => avail < buffer_size
  /\ pc = "resume" => state = "suspended"
  /\ pc = "begin" => avail >= period_size
  /\ pc \in {"copy", "commit"} => avail >= frames
  /\ pc = "resume" /\ after = "copy" => avail >= frames

\* With a period that holds a frame, that is a frame in one piece.
Holds == period_size >= frame_size
Piece ==
  /\ appl \in {0, frame_size}
  /\ pc = "copy" => frames >= frame_size
  /\ pc = "resume" /\ after = "copy" => frames >= frame_size
  /\ pc = "commit" => frames = frame_size

DeviceInv == DeviceTypes /\ Room /\ (Holds => Piece)

\* The samples of the chunks that have arrived.
Arrived(r) == (r \div Pieces) * frame_size

DataTypes ==
  /\ stream_buf \in [1 .. STREAM_BUF_SIZE -> Nat] /\ received \in Nat
  /\ decode_buf \in [1 .. Packet -> Nat] /\ decode_buf_used \in Int
  /\ start \in Nat /\ before \in Nat /\ copied \in Seq(Nat)

\* Nothing is heard before it arrives.
Known ==
  /\ \A i \in 1 .. STREAM_BUF_SIZE : stream_buf[i] <= received
  /\ \A i \in 1 .. Packet : decode_buf[i] <= Arrived(received)
  /\ before <= Arrived(received)
  /\ \A i \in 1 .. Len(copied) : copied[i] <= Arrived(received)

\* The newest sample that has been taken from decode_buf, if frames are whole.
Gone == start + Packet - decode_buf_used - 1

Stored ==
  /\ decode_buf_used \in {0, frame_size, Packet}
  /\ start # 0 => \A i \in 1 .. decode_buf_used : decode_buf[i] = Gone + i

Taken ==
  start # 0 =>
    /\ Newest <= Gone
    /\ decode_buf_used = frame_size => Newest = Gone

Order ==
  start # 0 /\ copied # <<>> =>
    /\ Len(copied) = frame_size
    /\ \A i \in 1 .. frame_size : copied[i] = copied[1] + i - 1
    /\ copied[1] > before /\ copied[1] \in {start, before + 1}

DataInv == DataTypes /\ Known /\ (Holds => Stored /\ Taken /\ Order)

Inv == DeviceInv /\ DataInv

-----------------------------------------------------------------------------
(* Arithmetic.                                                             *)

\* The sizes, spelled out.
LEMMA Sizes ==
  /\ frame_size \in Nat /\ frame_size >= 1
  /\ period_size \in Nat /\ period_size >= 1 /\ period_size <= buffer_size
  /\ ResumeLimit \in Nat /\ ResumeLimit >= 1
  /\ Pieces \in Nat /\ Pieces >= 1
  /\ buffer_size = 2 * frame_size /\ buffer_size \in Nat
  /\ Packet = 2 * frame_size /\ Packet \in Nat
  /\ bytes_per_packet = 2 * Pieces /\ bytes_per_packet \in Nat
<1>1. frame_size \in Nat \ {0} /\ period_size \in Nat \ {0} /\ ResumeLimit \in Nat \ {0}
      /\ Pieces \in Nat \ {0} /\ buffer_size = 2 * frame_size /\ period_size <= buffer_size
  BY SizesAssumption
<1>. QED  BY <1>1 DEF Packet, bytes_per_packet, CHUNKS_PER_PACKET

\* stream_buf holds a packet.
LEMMA BufferSize ==
  STREAM_BUF_SIZE \in Nat /\ STREAM_BUF_SIZE >= bytes_per_packet
<1>1. STREAM_CHUNKS \in Nat /\ STREAM_CHUNKS >= 2
  BY SizesAssumption DEF CHUNKS_PER_PACKET
<1>2. STREAM_CHUNKS * Pieces \in Nat /\ STREAM_CHUNKS * Pieces >= 2 * Pieces
  BY <1>1, Sizes
<1>. QED  BY <1>2, Sizes DEF STREAM_BUF_SIZE

\* Quotient and remainder.
LEMMA DivMod ==
  ASSUME NEW a \in Nat, NEW n \in Nat \ {0}
  PROVE  a % n \in 0 .. n - 1 /\ a \div n \in Nat /\ a = n * (a \div n) + (a % n)
  OBVIOUS

\* Multiples of n are n apart.
LEMMA Mono ==
  ASSUME NEW q \in Int, NEW p \in Int, NEW n \in Nat \ {0}, q < p
  PROVE  n * q + n <= n * p
  OBVIOUS

\* A chunk that is all there counts.
LEMMA DivAtLeast ==
  ASSUME NEW a \in Nat, NEW n \in Nat \ {0}, NEW q \in Int, n * q <= a
  PROVE  q <= a \div n
<1>. DEFINE p == a \div n
<1>1. p \in Int /\ a < n * p + n
  BY DivMod
<1>. HIDE DEF p
<1>2. ~(p < q)
  <2>. SUFFICES ASSUME p < q  PROVE FALSE
    OBVIOUS
  <2>. QED  BY <1>1, Mono
<1>. QED  BY <1>1, <1>2 DEF p

\* One that is not does not.
LEMMA DivAtMost ==
  ASSUME NEW a \in Nat, NEW n \in Nat \ {0}, NEW q \in Int, a < n * q + n
  PROVE  a \div n <= q
<1>. DEFINE p == a \div n
<1>1. p \in Int /\ n * p <= a
  BY DivMod
<1>. HIDE DEF p
<1>2. ~(q < p)
  <2>. SUFFICES ASSUME q < p  PROVE FALSE
    OBVIOUS
  <2>. QED  BY <1>1, Mono
<1>. QED  BY <1>1, <1>2 DEF p

\* A multiple is divided without rest.
LEMMA DivExact ==
  ASSUME NEW q \in Nat, NEW n \in Nat \ {0}
  PROVE  (q * n) \div n = q
<1>. DEFINE a == q * n
<1>1. a \in Nat /\ n * q <= a /\ a < n * q + n
  OBVIOUS
<1>. HIDE DEF a
<1>2. q <= a \div n
  BY <1>1, DivAtLeast
<1>3. a \div n <= q
  BY <1>1, DivAtMost
<1>4. a \div n \in Nat
  BY <1>1, DivMod
<1>5. a \div n = q
  BY <1>2, <1>3, <1>4
<1>. QED  BY <1>5 DEF a

\* Samples are counted by chunks that are all there.
LEMMA ArrivedFacts ==
  ASSUME NEW r \in Nat
  PROVE  /\ Arrived(r) \in Nat /\ r \div Pieces \in Nat
         /\ Arrived(r) = (r \div Pieces) * frame_size
         /\ Pieces * (r \div Pieces) <= r /\ r < Pieces * (r \div Pieces) + Pieces
<1>. DEFINE p == r \div Pieces
<1>. Pieces \in Nat \ {0} /\ frame_size \in Nat
  BY Sizes
<1>1. /\ r % Pieces \in 0 .. Pieces - 1 /\ p \in Nat
      /\ r = Pieces * p + (r % Pieces)
  BY DivMod
<1>. HIDE DEF p
<1>2. p * frame_size \in Nat
  BY <1>1
<1>. QED  BY <1>1, <1>2 DEF Arrived, p

\* More chunks give more samples.
LEMMA MoreChunks ==
  ASSUME NEW x \in Int, NEW y \in Int, x <= y
  PROVE  x * frame_size <= y * frame_size
  BY Sizes

\* If q chunks are there, so are their samples.
LEMMA ArrivedAtLeast ==
  ASSUME NEW r \in Nat, NEW q \in Int, Pieces * q <= r
  PROVE  q * frame_size <= Arrived(r)
<1>. Pieces \in Nat \ {0}
  BY Sizes
<1>. DEFINE p == r \div Pieces
<1>1. q <= p
  BY DivAtLeast
<1>2. p \in Int /\ Arrived(r) = p * frame_size
  BY ArrivedFacts
<1>. HIDE DEF p
<1>3. q * frame_size <= p * frame_size
  BY <1>1, <1>2, MoreChunks
<1>. QED  BY <1>2, <1>3

\* If one more is not, no more are.
LEMMA ArrivedAtMost ==
  ASSUME NEW r \in Nat, NEW q \in Int, r < Pieces * q + Pieces
  PROVE  Arrived(r) <= q * frame_size
<1>. Pieces \in Nat \ {0}
  BY Sizes
<1>. DEFINE p == r \div Pieces
<1>1. p <= q
  BY DivAtMost
<1>2. p \in Int /\ Arrived(r) = p * frame_size
  BY ArrivedFacts
<1>. HIDE DEF p
<1>3. p * frame_size <= q * frame_size
  BY <1>1, <1>2, MoreChunks
<1>. QED  BY <1>2, <1>3

\* What has arrived is not lost.
LEMMA ArrivedGrows ==
  ASSUME NEW r \in Nat, NEW t \in Nat, r <= t
  PROVE  Arrived(r) <= Arrived(t)
<1>. DEFINE p == r \div Pieces
<1>1. p \in Nat /\ Pieces * p <= r /\ Arrived(r) = p * frame_size
  BY ArrivedFacts
<1>. HIDE DEF p
<1>2. Pieces * p <= t
  BY <1>1, Sizes
<1>3. p * frame_size <= Arrived(t)
  BY <1>1, <1>2, ArrivedAtLeast
<1>. QED  BY <1>1, <1>3

\* The least of three numbers.
LEMMA Least ==
  ASSUME NEW a \in Nat, NEW b \in Nat, NEW c \in Nat
  PROVE  /\ Min({a, b, c}) \in {a, b, c}
         /\ Min({a, b, c}) <= a /\ Min({a, b, c}) <= b /\ Min({a, b, c}) <= c
<1>1. \E x \in {a, b, c} : \A y \in {a, b, c} : x <= y
  <2>1. CASE a <= b /\ a <= c  BY <2>1
  <2>2. CASE b <= a /\ b <= c  BY <2>2
  <2>3. CASE c <= a /\ c <= b  BY <2>3
  <2>. QED  BY <2>1, <2>2, <2>3
<1>. QED  BY <1>1 DEF Min

\* The greatest of bounded numbers is one of them.
LEMMA Greatest ==
  ASSUME NEW B \in Nat, NEW S \in SUBSET (0 .. B), S # {}
  PROVE  Max(S) \in S /\ \A y \in S : Max(S) >= y
<1>. DEFINE R == {ss \in Nat \X Nat : ss[1] < ss[2]}
            T == {B - x : x \in S}
<1>1. IsWellFoundedOn(R, Nat)
  BY NatLessThanWellFounded DEF OpToRel
<1>2. \A y \in Nat, x \in Nat : y < x => <<y, x>> \in R
  OBVIOUS
<1>3. T \in SUBSET Nat /\ T # {}
  <2>1. \A x \in S : B - x \in Nat
    OBVIOUS
  <2>2. PICK x \in S : TRUE
    OBVIOUS
  <2>3. B - x \in T
    BY Zenon
  <2>4. T \subseteq Nat
    <3>. SUFFICES ASSUME NEW y \in T  PROVE y \in Nat
      OBVIOUS
    <3>1. PICK z \in S : y = B - z
      BY Zenon
    <3>. QED  BY <2>1, <3>1
  <2>. QED  BY <2>3, <2>4
<1>. HIDE DEF R
<1>4. PICK x \in T : \A y \in T : <<y, x>> \notin R
  BY <1>1, <1>3, WFMin
<1>5. PICK z \in S : x = B - z
  BY <1>4
<1>6. ASSUME NEW y \in S  PROVE z >= y
  <2>1. B - y \in T /\ B - y \in Nat /\ B - z \in Nat
    OBVIOUS
  <2>2. ~(B - y < B - z)
    BY <1>2, <1>4, <1>5, <2>1
  <2>3. y \in Int /\ z \in Int
    OBVIOUS
  <2>. QED  BY <2>2, <2>3
<1>. QED  BY <1>6 DEF Max

-----------------------------------------------------------------------------
(* The device.                                                             *)

\* xrun_recovery leaves the device to be used where the transfer goes on.
LEMMA RecoverRoom ==
  ASSUME DeviceInv, NEW from, NEW to \in {"loop", "update", "copy"}, Recover(from, to),
         UNCHANGED <<a_running, suspends>>,
         frames' \in 0 .. period_size,
         to = "copy" => frames' = period_size /\ from = "begin"
  PROVE  DeviceInv'
<1>1. CASE state = "xrun" /\ state' = "prepared"
  <2>1. /\ pc = from /\ pc' = to /\ avail' = buffer_size /\ appl' = 0 /\ first' = 1
        /\ UNCHANGED <<after, limit>>
    BY <1>1 DEF Recover, Prepare, Goto, device, recovery
  <2>. QED  BY <1>1, <2>1, Sizes DEF DeviceInv, DeviceTypes, Room, Piece, Holds
<1>2. CASE state = "xrun" /\ state' # "prepared"
  <2>1. pc = from /\ pc' = "out" /\ UNCHANGED <<state, avail, appl, first, after, limit>>
    BY <1>2 DEF Recover, Prepare, Goto, device, recovery
  <2>. QED  BY <1>2, <2>1, Sizes DEF DeviceInv, DeviceTypes, Room, Piece, Holds
<1>3. CASE state = "suspended"
  <2>1. /\ pc = from /\ pc' = "resume" /\ after' = to /\ limit' = ResumeLimit
        /\ UNCHANGED <<state, avail, appl, first>>
    BY <1>3 DEF Recover, Goto, device
  <2>. QED  BY <1>3, <2>1, Sizes DEF DeviceInv, DeviceTypes, Room, Piece, Holds
<1>. QED  BY <1>1, <1>2, <1>3 DEF Recover

\* Where the thread goes on without touching the device nothing is disturbed.
LEMMA GotoRoom ==
  ASSUME DeviceInv, NEW from, NEW to \in {"loop", "recv", "check", "update", "wait", "out"},
         Goto(from, to), UNCHANGED <<a_running, device, first, frames, recovery, suspends>>
  PROVE  DeviceInv'
  BY DEF DeviceInv, DeviceTypes, Room, Piece, Holds, Goto, device, recovery

\* The resume loop.
LEMMA ResumeRoom ==
  ASSUME DeviceInv, ResumeAgain \/ ResumeEnds
  PROVE  DeviceInv'
<1>1. CASE ResumeAgain
  BY <1>1, Sizes DEF ResumeAgain, DeviceInv, DeviceTypes, Room, Piece, Holds, transfer, device
<1>2. CASE ResumeEnds
  <2>. /\ pc = "resume" /\ limit' = 0 /\ first' = (IF after = "update" THEN first ELSE 1)
       /\ UNCHANGED <<a_running, frames, after, suspends>>
    BY <1>2 DEF ResumeEnds
  <2>1. CASE pc' = after /\ state' = "running" /\ UNCHANGED <<avail, appl>>
    BY <2>1, Sizes DEF DeviceInv, DeviceTypes, Room, Piece, Holds
  <2>2. CASE pc' = after /\ Prepare
    BY <2>2, Sizes DEF DeviceInv, DeviceTypes, Room, Piece, Holds, Prepare
  <2>3. CASE pc' = "out" /\ UNCHANGED device
    BY <2>3, Sizes DEF DeviceInv, DeviceTypes, Room, Piece, Holds, device
  <2>. QED  BY <1>2, <2>1, <2>2, <2>3 DEF ResumeEnds, Goto
<1>. QED  BY <1>1, <1>2

\* snd_transfer_check.
LEMMA CheckRoom ==
  ASSUME DeviceInv, CheckState \/ AvailUpdate \/ WaitRoom \/ MmapBegin
  PROVE  DeviceInv'
<1>. frames \in 0 .. period_size /\ period_size \in 0 .. period_size
  BY Sizes DEF DeviceInv, DeviceTypes
<1>1. CASE CheckState
  <2>. UNCHANGED <<a_running, frames, suspends>>
    BY <1>1 DEF CheckState
  <2>1. CASE Recover("check", "update")
    BY <2>1, RecoverRoom
  <2>2. CASE Goto("check", "update") /\ UNCHANGED <<device, first, recovery>>
    BY <2>2, GotoRoom
  <2>. QED  BY <1>1, <2>1, <2>2 DEF CheckState
<1>2. CASE AvailUpdate
  <2>. UNCHANGED <<a_running, frames, suspends>>
    BY <1>2 DEF AvailUpdate
  <2>1. CASE Recover("update", "loop")
    BY <2>1, RecoverRoom
  <2>2. CASE avail >= period_size /\ Goto("update", "begin")
             /\ UNCHANGED <<device, first, recovery>>
    BY <2>2, Sizes DEF DeviceInv, DeviceTypes, Room, Piece, Holds, Goto, device, recovery
  <2>3. CASE /\ state = "prepared" /\ state' = "running" /\ Goto("update", "loop")
             /\ avail < period_size /\ first' = 0 /\ UNCHANGED <<avail, appl, recovery>>
    BY <2>3, Sizes DEF DeviceInv, DeviceTypes, Room, Piece, Holds, Goto, recovery
  <2>4. CASE /\ UNCHANGED state /\ Goto("update", "out")
             /\ first' = 0 /\ UNCHANGED <<avail, appl, recovery>>
    BY <2>4, Sizes DEF DeviceInv, DeviceTypes, Room, Piece, Holds, Goto, recovery
  <2>5. CASE Goto("update", "wait") /\ UNCHANGED <<device, first, recovery>>
    BY <2>5, GotoRoom
  <2>. QED  BY <1>2, <2>1, <2>2, <2>3, <2>4, <2>5 DEF AvailUpdate
<1>3. CASE WaitRoom
  <2>. UNCHANGED <<a_running, frames, suspends>>
    BY <1>3 DEF WaitRoom
  <2>1. CASE Recover("wait", "loop")
    BY <2>1, RecoverRoom
  <2>2. CASE Goto("wait", "loop") /\ UNCHANGED <<device, first, recovery>>
    BY <2>2, GotoRoom
  <2>. QED  BY <1>3, <2>1, <2>2 DEF WaitRoom
<1>4. CASE MmapBegin
  <2>. UNCHANGED <<a_running, suspends>>
    BY <1>4 DEF MmapBegin
  <2>1. CASE Recover("begin", "copy") /\ frames' = period_size
    BY <2>1, RecoverRoom
  <2>2. CASE /\ Goto("begin", "copy")
             /\ frames' = Min({period_size, avail, buffer_size - appl})
             /\ UNCHANGED <<device, first, recovery>>
    <3>1. /\ avail \in Nat /\ avail >= period_size /\ buffer_size - appl \in Nat
          /\ Holds => buffer_size - appl >= frame_size
      BY <2>2, Sizes DEF DeviceInv, DeviceTypes, Room, Piece, Holds, Goto
    <3>2. /\ frames' \in Nat /\ frames' <= period_size /\ frames' <= avail
          /\ Holds => frames' >= frame_size
      BY <2>2, <3>1, Least, Sizes DEF Holds
    <3>. QED  BY <2>2, <3>1, <3>2, Sizes
              DEF DeviceInv, DeviceTypes, Room, Piece, Holds, Goto, device, recovery
  <2>. QED  BY <1>4, <2>1, <2>2 DEF MmapBegin
<1>. QED  BY <1>1, <1>2, <1>3, <1>4

\* Filling the period takes a frame of what mmap_begin granted, and
\* snd_transfer_commit has room for it.
LEMMA FillRoom ==
  ASSUME DeviceInv, Conceal \/ CopyFrame \/ Commit
  PROVE  DeviceInv'
<1>1. CASE Conceal \/ CopyFrame
  <2>1. /\ pc = "copy" /\ pc' = "commit" /\ frames' = Share(frames)
        /\ UNCHANGED <<a_running, first, after, limit, state, avail, appl, suspends>>
    BY <1>1 DEF Conceal, CopyFrame, Goto, device, recovery
  <2>2. frames' \in 0 .. frames /\ (Holds => frames' = frame_size)
    BY <2>1, Sizes DEF DeviceInv, DeviceTypes, Room, Piece, Holds, Share
  <2>. QED  BY <2>1, <2>2, Sizes DEF DeviceInv, DeviceTypes, Room, Piece, Holds
<1>2. CASE Commit
  <2>. UNCHANGED <<a_running, frames, suspends>>
    BY <1>2 DEF Commit
  <2>1. CASE Recover("commit", "loop")
    BY <2>1, RecoverRoom DEF DeviceInv, DeviceTypes
  <2>2. CASE /\ Goto("commit", "loop")
             /\ appl' = (appl + frames) % buffer_size /\ avail' = avail - frames
             /\ UNCHANGED <<state, first, recovery>>
    <3>1. pc = "commit" /\ pc' = "loop" /\ frames \in Nat /\ avail >= frames
      BY <2>2, Sizes DEF DeviceInv, DeviceTypes, Room, Goto
    <3>2. appl' \in 0 .. buffer_size - 1
      <4>1. appl + frames \in Nat /\ buffer_size \in Nat \ {0}
        BY <3>1, Sizes DEF DeviceInv, DeviceTypes
      <4>. QED  BY <2>2, <4>1, DivMod
    <3>3. ASSUME Holds  PROVE appl' \in {0, frame_size}
      <4>1. frames = frame_size /\ appl \in {0, frame_size}
        BY <3>1, <3>3 DEF DeviceInv, Piece
      <4>2. CASE appl = 0
        <5>1. appl' = frame_size % (2 * frame_size)
          BY <2>2, <4>1, <4>2, Sizes
        <5>. QED  BY <5>1, Sizes
      <4>3. CASE appl = frame_size
        <5>1. appl' = (2 * frame_size) % (2 * frame_size)
          BY <2>2, <4>1, <4>3, Sizes
        <5>. QED  BY <5>1, Sizes
      <4>. QED  BY <4>1, <4>2, <4>3
    <3>4. DeviceTypes' /\ Room'
      BY <2>2, <3>1, <3>2, Sizes DEF DeviceInv, DeviceTypes, Room, recovery
    <3>5. Holds => Piece'
      BY <3>1, <3>3 DEF Piece
    <3>. QED  BY <3>4, <3>5 DEF DeviceInv, Holds
  <2>. QED  BY <1>2, <2>1, <2>2 DEF Commit
<1>. QED  BY <1>1, <1>2

\* The device itself, the packets and Stop.
LEMMA OtherRoom ==
  ASSUME DeviceInv,
         \/ Play \/ Suspend \/ StopAudio \/ LoopTest \/ ReceiveNothing
         \/ \E n \in 1 .. STREAM_BUF_SIZE : Receive(n)
  PROVE  DeviceInv'
<1>1. CASE Play
  BY <1>1, Sizes DEF Play, DeviceInv, DeviceTypes, Room, Piece, Holds, transfer, recovery
<1>2. CASE Suspend
  BY <1>2, Sizes DEF Suspend, DeviceInv, DeviceTypes, Room, Piece, Holds, transfer, recovery
<1>3. CASE StopAudio
  BY <1>3 DEF StopAudio, DeviceInv, DeviceTypes, Room, Piece, Holds, transfer, recovery, device
<1>4. CASE LoopTest
  BY <1>4, GotoRoom DEF LoopTest, transfer
<1>5. CASE \E n \in 1 .. STREAM_BUF_SIZE : Receive(n)
  BY <1>5, GotoRoom DEF Receive, transfer
<1>6. CASE ReceiveNothing
  BY <1>6, GotoRoom DEF ReceiveNothing, transfer
<1>. QED  BY <1>1, <1>2, <1>3, <1>4, <1>5, <1>6

-----------------------------------------------------------------------------
(* The samples.                                                            *)

\* The newest of bounded samples is one of them.
LEMMA NewestOf ==
  ASSUME NEW B \in Nat, NEW b \in 0 .. B, NEW s \in Seq(Nat),
         \A i \in 1 .. Len(s) : s[i] <= B
  PROVE  LET m == Max({b} \union ToSet(s))
         IN /\ m \in Nat /\ m <= B /\ m >= b
            /\ \A i \in 1 .. Len(s) : m >= s[i]
            /\ m = b \/ \E i \in 1 .. Len(s) : m = s[i]
<1>. DEFINE S == {b} \union ToSet(s)  m == Max(S)
<1>1. DOMAIN s = 1 .. Len(s) /\ \A i \in 1 .. Len(s) : s[i] \in 0 .. B
  OBVIOUS
<1>2. \A y : y \in S <=> y = b \/ \E i \in 1 .. Len(s) : y = s[i]
  BY <1>1 DEF ToSet
<1>3. S \in SUBSET (0 .. B) /\ S # {}
  BY <1>1, <1>2
<1>. HIDE DEF S
<1>4. m \in S /\ \A y \in S : m >= y
  BY <1>3, Greatest
<1>. HIDE DEF m
<1>5. m \in 0 .. B
  BY <1>3, <1>4
<1>6. /\ m \in Nat /\ m <= B /\ m >= b
      /\ \A i \in 1 .. Len(s) : m >= s[i]
      /\ m = b \/ \E i \in 1 .. Len(s) : m = s[i]
  BY <1>2, <1>4, <1>5
<1>. QED  BY <1>6 DEF m, S

\* What has been copied is known, and the newest of it is one of it.
LEMMA NewestFacts ==
  ASSUME DataTypes, Known
  PROVE  /\ Newest \in Nat /\ Newest <= Arrived(received)
         /\ Newest >= before
         /\ \A i \in 1 .. Len(copied) : Newest >= copied[i]
         /\ Newest = before \/ \E i \in 1 .. Len(copied) : Newest = copied[i]
<1>1. /\ Arrived(received) \in Nat /\ before \in 0 .. Arrived(received)
      /\ copied \in Seq(Nat) /\ \A i \in 1 .. Len(copied) : copied[i] <= Arrived(received)
  BY ArrivedFacts DEF DataTypes, Known
<1>. QED  BY <1>1, NewestOf DEF Newest

\* The same after a step.
LEMMA NewestPrimed ==
  ASSUME DataTypes', Known'
  PROVE  /\ Newest' \in Nat /\ Newest' <= Arrived(received)'
         /\ Newest' >= before'
         /\ \A i \in 1 .. Len(copied') : Newest' >= copied'[i]
         /\ Newest' = before' \/ \E i \in 1 .. Len(copied') : Newest' = copied'[i]
<1>. DEFINE B == Arrived(received)'  b == before'  s == copied'
<1>1. /\ B \in Nat /\ b \in 0 .. B
      /\ s \in Seq(Nat) /\ \A i \in 1 .. Len(s) : s[i] <= B
  <2>1. received' \in Nat
    BY DEF DataTypes
  <2>2. Arrived(received') \in Nat
    BY <2>1, ArrivedFacts
  <2>. QED  BY <2>2 DEF DataTypes, Known, Arrived
<1>2. Newest' = Max({b} \union ToSet(s))
  BY DEF Newest
<1>. HIDE DEF B, b, s
<1>3. /\ Newest' \in Nat /\ Newest' <= B /\ Newest' >= b
      /\ \A i \in 1 .. Len(s) : Newest' >= s[i]
      /\ Newest' = b \/ \E i \in 1 .. Len(s) : Newest' = s[i]
  BY <1>1, <1>2, NewestOf
<1>. QED  BY <1>3 DEF B, b, s

\* With nothing copied it is the newest of before.
LEMMA NewestNone ==
  ASSUME NEW b \in Nat
  PROVE  Max({b} \union ToSet(<<>>)) = b
<1>1. {b} \union ToSet(<<>>) = {b}
  BY DEF ToSet
<1>. QED  BY <1>1 DEF Max

\* Most steps touch neither decode_buf nor what was copied.
LEMMA DataUnchanged ==
  ASSUME DataInv, UNCHANGED <<buffer, history>>
  PROVE  DataInv'
<1>1. UNCHANGED <<stream_buf, received, decode_buf, decode_buf_used, start, copied,
                  before>>
  BY DEF buffer, history
<1>2. UNCHANGED <<Newest, Gone>>
  BY <1>1 DEF Newest, Gone
<1>. QED
  BY <1>1, <1>2 DEF DataInv, DataTypes, Known, Stored, Taken, Order, Holds

\* A chunk gives samples that have arrived, if its pieces have.
LEMMA DecodedFacts ==
  ASSUME NEW r \in Nat, NEW pieces, pieces \in [1 .. Pieces -> 0 .. r],
         NEW d \in Decoded(pieces)
  PROVE  d \in Seq(Nat) /\ \A i \in 1 .. Len(d) : d[i] <= Arrived(r)
<1>. DEFINE c == (pieces[1] - 1) \div Pieces
<1>. /\ Pieces \in Nat \ {0} /\ frame_size \in Nat \ {0}
     /\ 1 \in 1 .. Pieces /\ Pieces \in 1 .. Pieces
  BY Sizes
<1>1. CASE pieces[1] > 0 /\ \A i \in 1 .. Pieces : pieces[i] = c * Pieces + i
  <2>1. d = [i \in 1 .. frame_size |-> c * frame_size + i]
    BY <1>1 DEF Decoded, Samples
  <2>2. c \in Nat
    <3>1. pieces[1] - 1 \in Nat
      BY <1>1
    <3>. QED  BY <3>1, DivMod
  <2>. HIDE DEF c
  <2>3. Pieces * (c + 1) <= r
    <3>1. pieces[Pieces] = c * Pieces + Pieces /\ pieces[Pieces] \in 0 .. r
      BY <1>1
    <3>. QED  BY <2>2, <3>1
  <2>4. (c + 1) * frame_size <= Arrived(r)
    <3>. DEFINE q == c + 1
    <3>1. q \in Int /\ Pieces * q <= r
      BY <2>2, <2>3
    <3>. HIDE DEF q
    <3>2. q * frame_size <= Arrived(r)
      BY <3>1, ArrivedAtLeast
    <3>. QED  BY <3>2 DEF q
  <2>5. (c + 1) * frame_size = c * frame_size + frame_size /\ c * frame_size \in Nat
    BY <2>2
  <2>6. Arrived(r) \in Nat
    BY ArrivedFacts
  <2>. DEFINE k == c * frame_size
  <2>. HIDE DEF k
  <2>7. d = [i \in 1 .. frame_size |-> k + i] /\ k \in Nat /\ k + frame_size <= Arrived(r)
    BY <2>1, <2>4, <2>5 DEF k
  <2>8. d \in [1 .. frame_size -> Nat]
    BY <2>7
  <2>9. d \in Seq(Nat) /\ Len(d) = frame_size
    BY <2>8, SeqDef
  <2>. QED  BY <2>6, <2>7, <2>9
<1>2. CASE ~(pieces[1] > 0 /\ \A i \in 1 .. Pieces : pieces[i] = c * Pieces + i)
  <2>1. PICK n \in 0 .. 2 : d = [i \in 1 .. n * frame_size |-> 0]
    BY <1>2 DEF Decoded, CHUNKS_PER_PACKET
  <2>. DEFINE k == n * frame_size
  <2>2. k \in Nat
    OBVIOUS
  <2>. HIDE DEF k
  <2>3. d = [i \in 1 .. k |-> 0]
    BY <2>1 DEF k
  <2>4. d \in [1 .. k -> Nat]
    BY <2>3
  <2>5. d \in Seq(Nat) /\ Len(d) = k
    BY <2>2, <2>4, SeqDef
  <2>6. Arrived(r) \in Nat
    BY ArrivedFacts
  <2>. QED  BY <2>2, <2>3, <2>5, <2>6
<1>. QED  BY <1>1, <1>2

\* A chunk from its own pieces gives its own samples.
LEMMA WholeChunk ==
  ASSUME NEW c \in Nat, NEW pieces,
         pieces = [i \in 1 .. Pieces |-> c * Pieces + i],
         NEW d \in Decoded(pieces)
  PROVE  d = [i \in 1 .. frame_size |-> c * frame_size + i]
<1>. Pieces \in Nat \ {0} /\ 1 \in 1 .. Pieces /\ c * Pieces \in Nat
  BY Sizes
<1>1. pieces[1] = c * Pieces + 1
  OBVIOUS
<1>2. (pieces[1] - 1) \div Pieces = c
  <2>1. pieces[1] - 1 = c * Pieces
    BY <1>1
  <2>. QED  BY <2>1, DivExact
<1>3. pieces[1] > 0 /\ \A i \in 1 .. Pieces : pieces[i] = c * Pieces + i
  BY <1>1
<1>. QED  BY <1>2, <1>3 DEF Decoded, Samples

\* What a read leaves in decode_buf.
LEMMA ReceiveBuffer ==
  ASSUME DataTypes, Known, NEW n \in 1 .. STREAM_BUF_SIZE, Receive(n)
  PROVE  /\ DataTypes' /\ Known'
         /\ start' # 0 =>
              /\ start' = Arrived(received') - Packet + 1
              /\ Arrived(received) < start'
              /\ \A i \in 1 .. Packet : decode_buf'[i] = start' - 1 + i
<1>. DEFINE idx == IF n > bytes_per_packet THEN n - bytes_per_packet ELSE 0
            one(i) == stream_buf'[idx + i]
            two(i) == stream_buf'[idx + Pieces + i]
            chunks == received' \div Pieces
<1>1. /\ received' = received + n /\ received' \in Nat /\ received \in Nat /\ n \in Nat
      /\ stream_buf' = [i \in 1 .. STREAM_BUF_SIZE |->
                          IF i <= n THEN received + i ELSE stream_buf[i]]
      /\ decode_buf_used' = Packet /\ copied' = <<>> /\ before' = Newest
      /\ start' = IF n >= bytes_per_packet /\ chunks * Pieces = received'
                    THEN (chunks - 2) * frame_size + 1 ELSE 0
  BY BufferSize DEF Receive, DataTypes, CHUNKS_PER_PACKET
<1>2. PICK d \in Decoded([i \in 1 .. Pieces |-> one(i)]),
           e \in Decoded([i \in 1 .. Pieces |-> two(i)]) :
        decode_buf' = [i \in 1 .. Packet |->
                        IF i <= Len(d \o e) THEN (d \o e)[i] ELSE decode_buf[i]]
  BY DEF Receive, decode_speex_frame
<1>3. /\ Pieces \in Nat \ {0} /\ frame_size \in Nat \ {0} /\ Packet = 2 * frame_size
      /\ Packet \in Nat /\ bytes_per_packet = 2 * Pieces
      /\ STREAM_BUF_SIZE \in Nat /\ STREAM_BUF_SIZE >= 2 * Pieces
  BY Sizes, BufferSize
<1>4. idx \in Nat /\ idx + 2 * Pieces <= STREAM_BUF_SIZE
  BY <1>1, <1>3
<1>5. \A i \in 1 .. STREAM_BUF_SIZE : stream_buf'[i] \in 0 .. received'
  <2>1. \A i \in 1 .. STREAM_BUF_SIZE : stream_buf[i] \in 0 .. received
    BY DEF DataTypes, Known
  <2>. QED  BY <1>1, <2>1
<1>6. Arrived(received) \in Nat /\ Arrived(received) <= Arrived(received')
      /\ Arrived(received') \in Nat /\ chunks \in Nat
  <2>. DEFINE r == received  s == received'
  <2>1. r \in Nat /\ s \in Nat /\ r <= s
    BY <1>1
  <2>. HIDE DEF r, s
  <2>2. /\ Arrived(r) \in Nat /\ Arrived(s) \in Nat /\ s \div Pieces \in Nat
        /\ Arrived(r) <= Arrived(s)
    BY <2>1, ArrivedFacts, ArrivedGrows
  <2>. QED  BY <2>2 DEF r, s
<1>7. /\ [i \in 1 .. Pieces |-> one(i)] \in [1 .. Pieces -> 0 .. received']
      /\ [i \in 1 .. Pieces |-> two(i)] \in [1 .. Pieces -> 0 .. received']
  <2>1. \A i \in 1 .. Pieces : idx + i \in 1 .. STREAM_BUF_SIZE
          /\ idx + Pieces + i \in 1 .. STREAM_BUF_SIZE
    BY <1>3, <1>4
  <2>. QED  BY <1>5, <2>1
<1>8. /\ d \in Seq(Nat) /\ \A i \in 1 .. Len(d) : d[i] <= Arrived(received')
      /\ e \in Seq(Nat) /\ \A i \in 1 .. Len(e) : e[i] <= Arrived(received')
  BY <1>1, <1>7, DecodedFacts
<1>9. /\ Len(d \o e) = Len(d) + Len(e) /\ Len(d) \in Nat /\ Len(e) \in Nat
      /\ \A i \in 1 .. Len(d) : (d \o e)[i] = d[i]
      /\ \A i \in Len(d) + 1 .. Len(d) + Len(e) :
           (d \o e)[i] = e[i - Len(d)] /\ i - Len(d) \in 1 .. Len(e)
  BY <1>8, ConcatProperties
<1>10. \A i \in 1 .. Packet : decode_buf'[i] \in Nat /\ decode_buf'[i] <= Arrived(received')
  <2>. SUFFICES ASSUME NEW i \in 1 .. Packet
                PROVE  decode_buf'[i] \in Nat /\ decode_buf'[i] <= Arrived(received')
    OBVIOUS
  <2>0. i \in Nat /\ i >= 1
    BY <1>3
  <2>1. CASE i <= Len(d)
    <3>1. i \in 1 .. Len(d) /\ i <= Len(d \o e)
      BY <1>9, <2>0, <2>1
    <3>2. decode_buf'[i] = d[i]
      BY <1>2, <1>9, <3>1
    <3>3. d[i] \in Nat
      BY <1>8, <3>1, ElementOfSeq
    <3>. QED  BY <1>8, <3>1, <3>2, <3>3
  <2>2. CASE i > Len(d) /\ i <= Len(d) + Len(e)
    <3>1. i \in Len(d) + 1 .. Len(d) + Len(e)
      BY <1>9, <2>0, <2>2
    <3>2. decode_buf'[i] = e[i - Len(d)] /\ i - Len(d) \in 1 .. Len(e)
      BY <1>2, <1>9, <2>2, <3>1
    <3>3. e[i - Len(d)] \in Nat
      BY <1>8, <3>2, ElementOfSeq
    <3>. QED  BY <1>8, <3>2, <3>3
  <2>3. CASE i > Len(d) + Len(e)
    <3>1. decode_buf'[i] = decode_buf[i]
      BY <1>2, <1>9, <2>0, <2>3
    <3>2. decode_buf[i] \in Nat /\ decode_buf[i] <= Arrived(received)
      BY DEF DataTypes, Known
    <3>. QED  BY <1>6, <3>1, <3>2
  <2>. QED  BY <1>9, <2>0, <2>1, <2>2, <2>3
<1>11. DataTypes' /\ Known'
  <2>1. Newest \in Nat /\ Newest <= Arrived(received)
    BY NewestFacts
  <2>2. stream_buf' \in [1 .. STREAM_BUF_SIZE -> Nat]
    BY <1>1, <1>5
  <2>3. decode_buf' \in [1 .. Packet -> Nat]
    BY <1>2, <1>10
  <2>4. start' \in Nat
    <3>1. CASE n >= bytes_per_packet /\ chunks * Pieces = received'
      <4>1. Pieces * chunks >= 2 * Pieces
        BY <1>1, <1>3, <1>6, <3>1
      <4>2. chunks >= 2
        <5>. DEFINE k == chunks
        <5>1. k \in Int /\ Pieces * k >= 2 * Pieces
          BY <1>6, <4>1
        <5>. HIDE DEF k
        <5>2. ~(k < 2)
          <6>. SUFFICES ASSUME k < 2  PROVE FALSE
            OBVIOUS
          <6>1. Pieces * k + Pieces <= Pieces * 2
            BY <1>3, <5>1, Mono
          <6>. QED  BY <1>3, <5>1, <6>1
        <5>. QED  BY <5>1, <5>2 DEF k
      <4>3. start' = (chunks - 2) * frame_size + 1 /\ chunks - 2 \in Nat
        BY <1>1, <1>6, <3>1, <4>2
      <4>. QED  BY <1>3, <4>3
    <3>2. CASE ~(n >= bytes_per_packet /\ chunks * Pieces = received')
      BY <1>1, <3>2
    <3>. QED  BY <3>1, <3>2
  <2>5. DataTypes'
    BY <1>1, <1>3, <2>1, <2>2, <2>3, <2>4 DEF DataTypes
  <2>6. Known'
    BY <1>1, <1>5, <1>6, <1>10, <2>1, EmptySeq DEF Known
  <2>. QED  BY <2>5, <2>6
<1>12. ASSUME start' # 0
       PROVE  /\ start' = Arrived(received') - Packet + 1
              /\ Arrived(received) < start'
              /\ \A i \in 1 .. Packet : decode_buf'[i] = start' - 1 + i
  <2>1. /\ n >= 2 * Pieces /\ chunks * Pieces = received'
        /\ start' = (chunks - 2) * frame_size + 1
    BY <1>1, <1>3, <1>12
  <2>2. Arrived(received') = chunks * frame_size
    BY DEF Arrived
  <2>3. chunks - 2 \in Nat /\ received < Pieces * (chunks - 2) + Pieces
    <3>. DEFINE k == chunks
    <3>0. k \in Nat /\ k * Pieces = received + n
      BY <1>1, <1>6, <2>1
    <3>. HIDE DEF k
    <3>1. k \in Nat /\ Pieces * k = received + n
      BY <1>3, <3>0
    <3>2. ~(k < 2)
      <4>. SUFFICES ASSUME k < 2  PROVE FALSE
        OBVIOUS
      <4>1. Pieces * k + Pieces <= Pieces * 2
        BY <1>3, <3>1, Mono
      <4>. QED  BY <1>1, <1>3, <2>1, <3>1, <4>1
    <3>3. Pieces * (k - 2) = Pieces * k - 2 * Pieces
      BY <1>3, <3>1
    <3>4. received < Pieces * (k - 2) + Pieces
      BY <1>1, <1>3, <2>1, <3>1, <3>3
    <3>. QED  BY <3>1, <3>2, <3>4 DEF k
  <2>. DEFINE c == chunks - 2
  <2>4. /\ c \in Nat /\ start' = c * frame_size + 1 /\ received < Pieces * c + Pieces
        /\ Arrived(received') = (c + 2) * frame_size /\ (c + 2) * Pieces = received'
    <3>1. chunks \in Nat /\ c + 2 = chunks
      BY <1>6
    <3>. QED  BY <2>1, <2>2, <2>3, <3>1
  <2>. HIDE DEF c, chunks
  <2>5. start' = Arrived(received') - Packet + 1
    BY <1>3, <2>4
  <2>6. Arrived(received) < start'
    <3>1. c \in Int /\ received \in Nat /\ received < Pieces * c + Pieces
      BY <1>1, <2>4
    <3>2. Arrived(received) <= c * frame_size
      BY <3>1, ArrivedAtMost
    <3>3. c * frame_size \in Nat
      BY <1>3, <2>4
    <3>. QED  BY <1>6, <2>4, <3>2, <3>3
  <2>7. idx = n - 2 * Pieces
    BY <1>1, <1>3, <2>1
  <2>8. \A i \in 1 .. 2 * Pieces : stream_buf'[idx + i] = c * Pieces + i
    <3>1. ASSUME NEW i \in 1 .. 2 * Pieces
          PROVE  stream_buf'[idx + i] = received + (idx + i)
      BY <1>1, <1>3, <1>4, <2>7
    <3>2. (c + 2) * Pieces = c * Pieces + 2 * Pieces /\ c * Pieces \in Nat
      BY <1>3, <2>4
    <3>3. idx = n - 2 * Pieces /\ received + n = c * Pieces + 2 * Pieces
      BY <1>1, <2>4, <2>7, <3>2
    <3>. HIDE DEF idx
    <3>. DEFINE k == c * Pieces
    <3>4. k \in Nat /\ received + n = k + 2 * Pieces
      BY <3>2, <3>3
    <3>. HIDE DEF k
    <3>5. ASSUME NEW i \in 1 .. 2 * Pieces  PROVE received + (idx + i) = k + i
      BY <1>1, <1>3, <3>3, <3>4
    <3>. QED  BY <3>1, <3>5 DEF k
  <2>. HIDE DEF idx
  <2>9. [i \in 1 .. Pieces |-> one(i)] = [i \in 1 .. Pieces |-> c * Pieces + i]
    <3>1. \A i \in 1 .. Pieces : i \in 1 .. 2 * Pieces
      BY <1>3
    <3>. QED  BY <2>8, <3>1
  <2>10. [i \in 1 .. Pieces |-> two(i)] = [i \in 1 .. Pieces |-> (c + 1) * Pieces + i]
    <3>1. ASSUME NEW i \in 1 .. Pieces  PROVE two(i) = (c + 1) * Pieces + i
      <4>1. Pieces + i \in 1 .. 2 * Pieces /\ idx + (Pieces + i) = idx + Pieces + i
        BY <1>3, <1>4 DEF idx
      <4>2. stream_buf'[idx + Pieces + i] = c * Pieces + (Pieces + i)
        BY <2>8, <4>1
      <4>3. c * Pieces + (Pieces + i) = (c + 1) * Pieces + i
        BY <1>3, <2>4
      <4>. QED  BY <4>2, <4>3
    <3>. QED  BY <3>1
  <2>11. d = [i \in 1 .. frame_size |-> c * frame_size + i]
    <3>. DEFINE f == [i \in 1 .. Pieces |-> one(i)]
    <3>1. d \in Decoded(f) /\ f = [i \in 1 .. Pieces |-> c * Pieces + i]
      BY <1>2, <2>9
    <3>. HIDE DEF f
    <3>. QED  BY <2>4, <3>1, WholeChunk
  <2>12. e = [i \in 1 .. frame_size |-> (c + 1) * frame_size + i]
    <3>. DEFINE f == [i \in 1 .. Pieces |-> two(i)]  k == c + 1
    <3>1. e \in Decoded(f) /\ f = [i \in 1 .. Pieces |-> k * Pieces + i] /\ k \in Nat
      BY <1>2, <2>4, <2>10
    <3>. HIDE DEF f, k
    <3>2. e = [i \in 1 .. frame_size |-> k * frame_size + i]
      BY <3>1, WholeChunk
    <3>. QED  BY <3>2 DEF k
  <2>13. Len(d) = frame_size /\ Len(e) = frame_size
    BY <1>3, <2>11, <2>12
  <2>14. ASSUME NEW i \in 1 .. Packet  PROVE decode_buf'[i] = c * frame_size + i
    <3>1. decode_buf'[i] = (d \o e)[i]
      BY <1>2, <1>3, <1>9, <2>13
    <3>2. CASE i <= frame_size
      BY <1>3, <1>9, <2>11, <2>13, <3>1, <3>2
    <3>3. CASE i > frame_size
      <4>1. i \in Len(d) + 1 .. Len(d) + Len(e) /\ i - frame_size \in 1 .. frame_size
        BY <1>3, <2>13, <3>3
      <4>2. decode_buf'[i] = (c + 1) * frame_size + (i - frame_size)
        BY <1>9, <2>12, <2>13, <3>1, <4>1
      <4>3. (c + 1) * frame_size = c * frame_size + frame_size /\ c * frame_size \in Nat
        BY <1>3, <2>4
      <4>. QED  BY <1>3, <4>2, <4>3
    <3>. QED  BY <1>3, <3>2, <3>3
  <2>15. c * frame_size \in Nat
    BY <1>3, <2>4
  <2>. QED  BY <2>4, <2>5, <2>6, <2>14, <2>15
<1>. QED  BY <1>11, <1>12

\* A packet replaces what is left.
LEMMA ReceiveData ==
  ASSUME DataInv, NEW n \in 1 .. STREAM_BUF_SIZE, Receive(n)
  PROVE  DataInv'
<1>1. DataTypes /\ Known
  BY DEF DataInv
<1>2. /\ DataTypes' /\ Known'
      /\ start' # 0 =>
           /\ Arrived(received) < start'
           /\ \A i \in 1 .. Packet : decode_buf'[i] = start' - 1 + i
  BY <1>1, ReceiveBuffer
<1>3. decode_buf_used' = Packet /\ copied' = <<>> /\ before' = Newest
  BY DEF Receive
<1>4. Newest \in Nat /\ Newest <= Arrived(received) /\ Arrived(received) \in Nat
  BY <1>1, NewestFacts, ArrivedFacts DEF DataTypes
<1>5. Newest' = Newest
  <2>1. Newest' = Max({Newest} \union ToSet(<<>>))
    BY <1>3 DEF Newest
  <2>. QED  BY <1>4, <2>1, NewestNone
<1>6. start' \in Nat /\ Gone' = start' - 1
  <2>1. start' \in Nat
    BY <1>2 DEF DataTypes
  <2>. QED  BY <1>3, <2>1, Sizes DEF Gone
<1>7. Stored'
  <2>1. start' # 0 => \A i \in 1 .. decode_buf_used' : decode_buf'[i] = Gone' + i
    <3>. SUFFICES ASSUME start' # 0, NEW i \in 1 .. decode_buf_used'
                  PROVE  decode_buf'[i] = Gone' + i
      OBVIOUS
    <3>. QED  BY <1>2, <1>3, <1>6
  <2>. QED  BY <1>3, <2>1 DEF Stored
<1>8. Taken'
  <2>1. start' # 0 => Newest' <= Gone'
    <3>. DEFINE g == Gone'  m == Newest'  s == start'
    <3>1. g = s - 1 /\ m = Newest /\ s \in Nat
      BY <1>5, <1>6
    <3>2. s # 0 => Arrived(received) < s
      BY <1>2
    <3>. HIDE DEF g, m, s
    <3>3. s # 0 => m <= g
      BY <1>4, <3>1, <3>2
    <3>. QED  BY <3>3 DEF g, m, s
  <2>2. decode_buf_used' # frame_size
    BY <1>3, Sizes
  <2>. QED  BY <2>1, <2>2 DEF Taken
<1>9. Order'
  BY <1>3 DEF Order
<1>. QED  BY <1>2, <1>7, <1>8, <1>9 DEF DataInv

\* Made-up sound is no sample of the phone.
LEMMA ConcealData ==
  ASSUME DataInv, Conceal
  PROVE  DataInv'
<1>1. /\ UNCHANGED <<stream_buf, received, decode_buf, decode_buf_used, start>>
      /\ copied' = <<>> /\ before' = Newest
  BY DEF Conceal, buffer
<1>2. Newest \in Nat /\ Newest <= Arrived(received)
  BY NewestFacts DEF DataInv
<1>3. Newest' = Newest /\ Gone' = Gone
  <2>1. Newest' = Max({Newest} \union ToSet(<<>>))
    BY <1>1 DEF Newest
  <2>. QED  BY <1>1, <1>2, <2>1, NewestNone DEF Gone
<1>4. DataTypes'
  BY <1>1, <1>2 DEF DataInv, DataTypes
<1>5. Known'
  BY <1>1, <1>2, EmptySeq DEF DataInv, Known
<1>. QED  BY <1>1, <1>3, <1>4, <1>5 DEF DataInv, Stored, Taken, Order, Holds

\* What is copied, and what is left, was there before.
LEMMA CopyBuffer ==
  ASSUME Inv, CopyFrame
  PROVE  /\ DataTypes' /\ Known'
         /\ frames' \in 0 .. frame_size
         /\ Len(copied') = frames'
         /\ \A i \in 1 .. frames' : copied'[i] = decode_buf[i]
<1>1. frames' \in 0 .. frame_size /\ frames' \in 0 .. Packet
  <2>1. frames \in Nat /\ frames' = Share(frames)
    BY Sizes DEF Inv, DeviceInv, DeviceTypes, CopyFrame
  <2>. QED  BY <2>1, Sizes DEF Share
<1>2. /\ UNCHANGED <<stream_buf, received, start>> /\ before' = Newest
      /\ copied' = SubSeq(decode_buf, 1, frames')
      /\ decode_buf_used' = decode_buf_used - frames'
      /\ decode_buf' = [i \in 1 .. Packet |->
                          IF i <= frames' THEN decode_buf[i + frames'] ELSE decode_buf[i]]
  BY DEF CopyFrame
<1>3. /\ decode_buf \in [1 .. Packet -> Nat] /\ decode_buf_used \in Int
      /\ \A i \in 1 .. Packet : decode_buf[i] <= Arrived(received)
  BY DEF Inv, DataInv, DataTypes, Known
<1>4. /\ copied' \in Seq(Nat) /\ Len(copied') = frames'
      /\ \A i \in 1 .. frames' : copied'[i] = decode_buf[i]
  <2>1. decode_buf \in Seq(Nat) /\ Len(decode_buf) = Packet
    BY <1>3, Sizes, SeqDef
  <2>. DEFINE k == frames'
  <2>2. k \in 0 .. Packet
    BY <1>1
  <2>. HIDE DEF k
  <2>3. /\ SubSeq(decode_buf, 1, k) \in Seq(Nat)
        /\ Len(SubSeq(decode_buf, 1, k)) = k
        /\ \A i \in 1 .. k : SubSeq(decode_buf, 1, k)[i] = decode_buf[i]
    BY <2>1, <2>2, Sizes, SubSeqProperties
  <2>. QED  BY <1>2, <2>3 DEF k
<1>5. \A i \in 1 .. Packet : decode_buf'[i] \in Nat /\ decode_buf'[i] <= Arrived(received)
  <2>. DEFINE k == frames'
  <2>0. k \in 0 .. frame_size
    BY <1>1
  <2>. HIDE DEF k
  <2>1. \A i \in 1 .. Packet : i <= k => i + k \in 1 .. Packet
    BY <2>0, Sizes
  <2>. SUFFICES ASSUME NEW i \in 1 .. Packet
                PROVE  decode_buf'[i] \in Nat /\ decode_buf'[i] <= Arrived(received)
    OBVIOUS
  <2>2. decode_buf'[i] \in {decode_buf[i]} \union
          {decode_buf[j] : j \in 1 .. Packet}
    BY <1>2, <2>1 DEF k
  <2>3. \E j \in 1 .. Packet : decode_buf'[i] = decode_buf[j]
    BY <2>2
  <2>. QED  BY <1>3, <2>3
<1>6. Newest \in Nat /\ Newest <= Arrived(received)
  BY NewestFacts DEF Inv, DataInv
<1>7. DataTypes'
  <2>1. decode_buf' \in [1 .. Packet -> Nat]
    BY <1>2, <1>5
  <2>2. decode_buf_used' \in Int
    BY <1>1, <1>2, <1>3
  <2>. QED  BY <1>2, <1>4, <1>6, <2>1, <2>2 DEF Inv, DataInv, DataTypes
<1>8. Known'
  <2>1. \A i \in 1 .. frames' : i \in 1 .. Packet
    BY <1>1, Sizes
  <2>2. \A i \in 1 .. Len(copied') : copied'[i] <= Arrived(received')
    BY <1>2, <1>3, <1>4, <2>1
  <2>. QED  BY <1>2, <1>5, <1>6, <2>2 DEF Inv, DataInv, Known
<1>. QED  BY <1>1, <1>4, <1>7, <1>8

\* The frame copied is the one that comes next, and so is what is moved up.
LEMMA CopyData ==
  ASSUME Inv, CopyFrame
  PROVE  DataInv'
<1>1. /\ DataTypes' /\ Known' /\ Len(copied') = frames'
      /\ \A i \in 1 .. frames' : copied'[i] = decode_buf[i]
  BY CopyBuffer
<1>2. ASSUME Holds  PROVE Stored' /\ Taken' /\ Order'
  <2>1. frames' = frame_size
    BY <1>2, Sizes DEF Inv, DeviceInv, DeviceTypes, Piece, CopyFrame, Share, Goto
  <2>2. /\ start' = start /\ before' = Newest /\ decode_buf_used # 0
        /\ decode_buf_used' = decode_buf_used - frame_size
        /\ decode_buf' = [i \in 1 .. Packet |->
                            IF i <= frame_size THEN decode_buf[i + frame_size]
                            ELSE decode_buf[i]]
    BY <2>1 DEF CopyFrame
  <2>3. /\ Packet \in Nat /\ frame_size \in Nat /\ frame_size >= 1
        /\ Packet = 2 * frame_size /\ start \in Nat /\ Newest \in Nat
        /\ decode_buf_used \in {frame_size, Packet}
    BY <1>2, <2>2, Sizes, NewestFacts DEF Inv, DataInv, DataTypes, Stored
  <2>4. Gone \in Int /\ Gone' = Gone + frame_size
    BY <2>2, <2>3 DEF Gone
  <2>0. ASSUME start = 0  PROVE Stored' /\ Taken' /\ Order'
    <3>1. decode_buf_used' \in {0, frame_size, Packet}
      BY <2>2, <2>3
    <3>. QED  BY <2>0, <2>2, <3>1 DEF Stored, Taken, Order
  <2>. SUFFICES ASSUME start # 0
                PROVE  Stored' /\ Taken' /\ Order'
    BY <2>0
  <2>5. /\ \A i \in 1 .. decode_buf_used : decode_buf[i] = Gone + i
        /\ Newest <= Gone
        /\ decode_buf_used = frame_size => Newest = Gone
    BY <1>2 DEF Inv, DataInv, Stored, Taken
  <2>6. Stored'
    BY <2>2, <2>3, <2>4, <2>5 DEF Stored
  <2>7. \A i \in 1 .. frame_size : copied'[i] = Gone + i
    <3>1. \A i \in 1 .. frame_size : i \in 1 .. decode_buf_used
      BY <2>3
    <3>. QED  BY <1>1, <2>1, <2>5, <3>1
  <2>8. copied' # <<>> /\ Len(copied') = frame_size
    <3>1. Len(copied') # Len(<<>>)
      BY <1>1, <2>1, <2>3, EmptySeq
    <3>. QED  BY <1>1, <2>1, <3>1
  <2>9. Newest' = Gone'
    <3>1. /\ Newest' \in Nat
          /\ Newest' >= before'
          /\ \A i \in 1 .. Len(copied') : Newest' >= copied'[i]
          /\ Newest' = before' \/ \E i \in 1 .. Len(copied') : Newest' = copied'[i]
      BY <1>1, NewestPrimed
    <3>2. frame_size \in 1 .. Len(copied') /\ copied'[frame_size] = Gone + frame_size
      BY <2>3, <2>7, <2>8
    <3>3. Newest' >= Gone + frame_size
      BY <3>1, <3>2
    <3>4. Newest' <= Gone + frame_size
      <4>1. CASE Newest' = before'
        BY <2>2, <2>3, <2>4, <2>5, <4>1
      <4>2. CASE \E i \in 1 .. Len(copied') : Newest' = copied'[i]
        BY <2>3, <2>4, <2>7, <2>8, <4>2
      <4>. QED  BY <3>1, <4>1, <4>2
    <3>. QED  BY <2>3, <2>4, <3>1, <3>3, <3>4
  <2>10. Taken'
    BY <2>4, <2>9 DEF Taken
  <2>11. copied'[1] = Gone + 1 /\ \A i \in 1 .. frame_size : copied'[i] = copied'[1] + i - 1
    BY <2>3, <2>4, <2>7
  <2>12. copied'[1] \in {start', before' + 1}
    <3>1. CASE decode_buf_used = frame_size
      BY <2>2, <2>5, <2>11, <3>1
    <3>2. CASE decode_buf_used = Packet
      BY <2>2, <2>3, <2>11, <3>2 DEF Gone
    <3>. QED  BY <2>3, <3>1, <3>2
  <2>13. copied'[1] > before'
    BY <2>2, <2>3, <2>4, <2>5, <2>11
  <2>14. Order'
    BY <2>8, <2>11, <2>12, <2>13 DEF Order
  <2>. QED  BY <2>6, <2>10, <2>14
<1>. QED  BY <1>1, <1>2 DEF DataInv, Holds

-----------------------------------------------------------------------------
(* The specification.                                                      *)

\* The first state.
LEMMA InitInv == Init => Inv
<1>. SUFFICES ASSUME Init PROVE Inv
  OBVIOUS
<1>1. DeviceInv
  BY Sizes DEF Init, DeviceInv, DeviceTypes, Room, Piece
<1>2. DataTypes /\ Known /\ Newest = 0
  <2>1. /\ stream_buf = [i \in 1 .. STREAM_BUF_SIZE |-> 0] /\ received = 0
        /\ decode_buf = [i \in 1 .. Packet |-> 0] /\ decode_buf_used = 0
        /\ start = 0 /\ copied = <<>> /\ before = 0
    BY DEF Init
  <2>2. Arrived(0) \in Nat
    BY ArrivedFacts
  <2>3. Newest = 0
    <3>1. Newest = Max({0} \union ToSet(<<>>))
      BY <2>1 DEF Newest
    <3>. QED  BY <3>1, NewestNone
  <2>. QED  BY <2>1, <2>2, <2>3, EmptySeq DEF DataTypes, Known
<1>3. DataInv
  BY <1>2 DEF Init, DataInv, Stored, Taken, Order
<1>. QED  BY <1>1, <1>3 DEF Inv

\* Every step.
LEMMA NextInv == Inv /\ [Next]_vars => Inv'
<1>. SUFFICES ASSUME Inv, [Next]_vars PROVE Inv'
  OBVIOUS
<1>. DeviceInv /\ DataInv
  BY DEF Inv
<1>1. CASE ResumeAgain \/ ResumeEnds
  <2>1. UNCHANGED <<buffer, history>>
    BY <1>1 DEF ResumeAgain, ResumeEnds, history
  <2>. QED  BY <1>1, <2>1, ResumeRoom, DataUnchanged DEF Inv
<1>2. CASE CheckState \/ AvailUpdate \/ WaitRoom \/ MmapBegin
  <2>1. UNCHANGED <<buffer, history>>
    BY <1>2 DEF CheckState, AvailUpdate, WaitRoom, MmapBegin, history
  <2>. QED  BY <1>2, <2>1, CheckRoom, DataUnchanged DEF Inv
<1>3. CASE \E n \in 1 .. STREAM_BUF_SIZE : Receive(n)
  BY <1>3, OtherRoom, ReceiveData DEF Inv
<1>4. CASE Conceal
  BY <1>4, FillRoom, ConcealData DEF Inv
<1>5. CASE CopyFrame
  BY <1>5, FillRoom, CopyData DEF Inv
<1>6. CASE Commit
  <2>1. UNCHANGED <<buffer, history>>
    BY <1>6 DEF Commit, history
  <2>. QED  BY <1>6, <2>1, FillRoom, DataUnchanged DEF Inv
<1>7. CASE LoopTest \/ ReceiveNothing \/ Play \/ Suspend \/ StopAudio
  <2>1. UNCHANGED <<buffer, history>>
    BY <1>7 DEF LoopTest, ReceiveNothing, Play, Suspend, StopAudio, history
  <2>. QED  BY <1>7, <2>1, OtherRoom, DataUnchanged DEF Inv
<1>8. CASE UNCHANGED vars
  <2>1. UNCHANGED <<buffer, history>>
    BY <1>8 DEF vars, history
  <2>2. DeviceInv'
    BY <1>8 DEF vars, transfer, recovery, device, DeviceInv, DeviceTypes, Room, Piece, Holds
  <2>. QED  BY <2>1, <2>2, DataUnchanged DEF Inv
<1>. QED  BY <1>1, <1>2, <1>3, <1>4, <1>5, <1>6, <1>7, <1>8 DEF Next, AudioStep

\* The inductive invariant holds in every behaviour, for all sizes, reads of any
\* length and any number of under-runs and suspends.
THEOREM TransferInvariance == Spec => []Inv
<1>. QED  BY InitInv, NextInv, PTL DEF Spec

\* The invariant of the model: of a packet read whole, what reaches the device is
\* in order, from its start and once (av.c:322-331), if the period granted holds
\* a decoded frame.
LEMMA InvImpliesOrder == Inv => PlayedInOrder
<1>. SUFFICES ASSUME Inv PROVE PlayedInOrder
  OBVIOUS
<1>1. TypeOK
  BY DEF Inv, DeviceInv, DeviceTypes, DataInv, DataTypes, TypeOK
<1>2. ASSUME start # 0, period_size >= frame_size
      PROVE  /\ decode_buf_used \in 0 .. Packet
             /\ copied # <<>> =>
                  /\ \A i \in DOMAIN copied : copied[i] = copied[1] + i - 1
                  /\ copied[1] > before /\ copied[1] \in {start, before + 1}
  <2>1. Stored /\ Order
    BY <1>2 DEF Inv, DataInv, Holds
  <2>2. decode_buf_used \in 0 .. Packet
    BY <2>1, Sizes DEF Stored
  <2>3. copied # <<>> => DOMAIN copied = 1 .. frame_size
    BY <1>2, <2>1 DEF Inv, DataInv, DataTypes, Order
  <2>. QED  BY <1>2, <2>1, <2>2, <2>3 DEF Order
<1>. QED  BY <1>1, <1>2 DEF PlayedInOrder

\* Of every packet that was read whole, after reads of any length, the samples
\* reach the sound device in order, from the packet's start and each once
\* (av.c:295-331), whatever is recovered on the way, if the period granted holds
\* a decoded frame; and every variable has its type.
THEOREM SamplesInOrder == Spec => []PlayedInOrder
<1>. QED  BY TransferInvariance, InvImpliesOrder, PTL

=============================================================================
