-------------------------- MODULE LoopbackDeviceProof --------------------------
(***************************************************************************)
(* The life of the webcam device, proved for every set of processes,       *)
(* formats, controls and limits.                                           *)
(*                                                                         *)
(* Everything rests on open_count: it is at least the number of processes  *)
(* that have the device open, more where an open failed after it counted,  *)
(* so that nobody has it open when a close finds it to be zero.            *)
(***************************************************************************)
EXTENDS LoopbackDevice, FiniteSetTheorems, TLAPS

-----------------------------------------------------------------------------
(* The inductive invariant.                                                *)

Types ==
  /\ load \in Loads
  /\ open_count \in Nat /\ max_openers \in Nat
  /\ pix_format \in Formats \union {NoFormat} /\ buffer_size \in Nat
  /\ ready_for_capture \in {0, 1} /\ keep_format \in {0, 1}
  /\ timeout_jiffies \in {0, 1} /\ timeout_image_io \in {0, 1}
  /\ timeout_happened \in {0, 1} /\ sustain_framerate \in {0, 1}
  /\ image \in Nat /\ imagesize \in Nat /\ timeout_image \in Nat
  /\ armed \subseteq {"timeout", "sustain"}
  /\ call \in [Openers -> Calls] /\ pc \in [Openers -> Points]
  /\ local \in [Openers -> Nat]
  /\ dangling \subseteq {"image", "timeout"} /\ damage \subseteq {"image", "timeout"}

\* Which calls get where.
Allocating == {"open", "s_fmt", "streamon", "write", "mmap"}
Place(o) ==
  /\ pc[o] \in {"closed", "open", "copy"} <=> call[o] = "none"
  /\ pc[o] \in {"count", "hand", "clear", "handimage", "handvzalloc"} => call[o] = "open"
  /\ pc[o] \in {"try_fmt", "store"} => call[o] \in {"open", "try_fmt", "s_fmt"}
  /\ pc[o] \in {"size", "setsize"} => call[o] \in {"open", "s_fmt"}
  /\ pc[o] \in {"alloc", "imagesize", "vmalloc", "jiffies", "check"} => call[o] \in Allocating
  /\ pc[o] \in {"image", "vzalloc"} => call[o] \in Allocating \union {"timeout"}
  /\ pc[o] = "ready" => call[o] \in {"open", "streamon", "write"}
  /\ pc[o] = "written" => call[o] = "write"
  /\ pc[o] \in {"timers", "sustain", "timeout"} => call[o] = "close"
  /\ pc[o] \in {"test", "unready", "unsize"} => call[o] \in {"close", "keep_format"}
  /\ pc[o] \in {"free", "unset", "free2", "unset2", "freed"}
       => call[o] \in Allocating \union {"close", "keep_format"}
Places == \A o \in Openers : Place(o)

\* The processes that open_count counts.
IsCounted(o) == pc[o] \notin {"closed", "count"} /\ call[o] # "close"
Counted == {o \in Openers : IsCounted(o)}
CountEnough == open_count >= Cardinality(Counted)

\* With nobody counted, whoever closed last has still to do what is left.
Closing(S) == \E o \in Openers : call[o] = "close" /\ pc[o] \in S
LastCloses ==
  open_count = 0 =>
    /\ "sustain" \in armed => Closing({"timers", "sustain"})
    /\ "timeout" \in armed => Closing({"timers", "sustain", "timeout"})
    /\ keep_format = 0 =>
         /\ image # NULL => Closing({"timers", "sustain", "timeout", "test", "free", "unset"})
         /\ timeout_image # NULL =>
              Closing({"timers", "sustain", "timeout", "test", "free", "unset", "free2",
                       "unset2"})
         /\ ready_for_capture = 1 =>
              Closing({"timers", "sustain", "timeout", "test", "free", "unset", "free2",
                       "unset2", "freed", "unready"})

\* In a calm behaviour one process at a time opens or closes.
Busy(o) == call[o] \in {"open", "close"}
OneBusy == \A o, p \in Openers : Busy(o) /\ Busy(p) => o = p

\* What it finds of the format and of the buffers.
Sized == pix_format \in Formats /\ buffer_size = FormatSize[pix_format]
Empty == image = NULL /\ timeout_image = NULL /\ dangling = {}
Buffered ==
  /\ Sized /\ image = buffer_size /\ imagesize = buffer_size
  /\ timeout_image \in {NULL, buffer_size} /\ dangling = {}
Ready  == ready_for_capture = 1 /\ Buffered
Unused == ready_for_capture = 0 /\ Empty /\ buffer_size = 0

\* The first open makes the device ready.
InSetup == {"alloc", "imagesize", "vmalloc", "jiffies", "image", "vzalloc", "check", "ready"}
Opened(o) ==
  call[o] = "open" =>
    /\ pc[o] \in {"count", "hand", "clear", "handimage", "handvzalloc", "try_fmt",
                  "store", "size", "setsize"} \union InSetup
    /\ pc[o] = "handvzalloc" => ready_for_capture = 1 /\ local[o] = buffer_size
    /\ pc[o] \in {"store", "setsize"} => ready_for_capture = 0
    /\ pc[o] \in {"size", "setsize"} => pix_format \in Formats
    /\ pc[o] \in InSetup \ {"ready"} => ready_for_capture = 0
    /\ pc[o] \in {"alloc", "imagesize", "vmalloc"} => Sized /\ Empty
    /\ pc[o] = "vmalloc" => imagesize = buffer_size /\ local[o] = buffer_size
    /\ pc[o] \in {"jiffies", "image", "vzalloc", "check", "ready"} => Buffered
    /\ pc[o] = "vzalloc" => local[o] = buffer_size

\* Whoever has the device open finds it ready, and has nothing to allocate but a
\* timeout image.
HasIt(o) == pc[o] # "closed" /\ ~Busy(o)
Used(o) ==
  HasIt(o) =>
    /\ ready_for_capture = 1
    /\ pc[o] \in {"open", "copy", "try_fmt", "size", "written", "image", "vzalloc", "test"}
    /\ pc[o] \in {"image", "vzalloc"} => call[o] = "timeout"
    /\ pc[o] = "vzalloc" => local[o] = buffer_size

\* The last close frees what nobody uses.
InFree == {"unset", "free2", "unset2", "freed", "unready", "unsize"}
Closed(o) ==
  call[o] = "close" =>
    /\ pc[o] \in {"timers", "sustain", "timeout", "test", "free"} \union InFree
    /\ pc[o] \in {"free"} \union InFree => open_count = 0 /\ keep_format = 0
    /\ ready_for_capture = IF pc[o] = "unsize" THEN 0 ELSE 1
    /\ pc[o] = "unset" => dangling = {"image"}
    /\ pc[o] = "unset2" => dangling = {"timeout"}
    /\ pc[o] \in {"free2", "freed", "unready", "unsize"} => dangling = {}
    /\ pc[o] \in {"free2", "unset2", "freed", "unready", "unsize"} => image = NULL
    /\ pc[o] \in {"freed", "unready", "unsize"} => timeout_image = NULL

Between(o) ==
  (call[o] = "open" /\ pc[o] \in InSetup) \/ (call[o] = "close" /\ pc[o] \in InFree)

Calm ==
  /\ OneBusy
  /\ \A o \in Openers : Opened(o) /\ Used(o) /\ Closed(o)
  /\ (\A o \in Openers : ~Between(o)) => Ready \/ Unused
  /\ "image" \notin damage

Inv == Types /\ Places /\ CountEnough /\ LastCloses /\ (load = "calm" => Calm)

-----------------------------------------------------------------------------
(* Types and places.                                                       *)

\* A step of one process.
Others(o) ==
  \A p \in Openers \ {o} : pc'[p] = pc[p] /\ call'[p] = call[p] /\ local'[p] = local[p]

\* Going on.
LEMMA GotoFacts ==
  ASSUME Types, NEW o \in Openers, NEW from, NEW to \in Points, Goto(o, from, to)
  PROVE  /\ pc[o] = from /\ pc'[o] = to
         /\ call'[o] = IF to \in {"closed", "open"} THEN "none" ELSE call[o]
         /\ \A p \in Openers \ {o} : pc'[p] = pc[p] /\ call'[p] = call[p]
         /\ pc' \in [Openers -> Points] /\ call' \in [Openers -> Calls]
<1>1. pc' \in [Openers -> Points]
  BY DEF Goto, Types
<1>2. call' \in [Openers -> Calls]
  BY DEF Goto, Types, Calls
<1>. QED  BY <1>1, <1>2 DEF Goto, Types

\* Beginning a call.
LEMMA CallFacts ==
  ASSUME Types, NEW o \in Openers, NEW from, NEW which \in Calls, NEW to \in Points,
         Call(o, from, which, to)
  PROVE  /\ pc[o] = from /\ pc'[o] = to /\ call'[o] = which
         /\ \A p \in Openers \ {o} : pc'[p] = pc[p] /\ call'[p] = call[p]
         /\ pc' \in [Openers -> Points] /\ call' \in [Openers -> Calls]
  BY DEF Call, Types

\* Places depend on the process alone.
LEMMA PlacesStep ==
  ASSUME Places, NEW o \in Openers, Others(o), Place(o)'
  PROVE  Places'
  BY DEF Places, Place, Others

\* What is left of the images.
LEMMA MemoryTypes ==
  ASSUME Types, NEW which \in {"image", "timeout"}, NEW old,
         Overwrite(which, old) \/ vfree(which)
  PROVE  dangling' \subseteq {"image", "timeout"} /\ damage' \subseteq {"image", "timeout"}
  BY DEF Types, Overwrite, vfree

\* The tests of allocate_timeout_image.
LEMMA ImageTestTypes ==
  ASSUME Types, NEW o \in Openers, NEW from, NEW alloc \in Points, NEW ok \in Points,
         NEW error \in Points, ImageTest(o, from, alloc, ok, error)
  PROVE  /\ Others(o) /\ local' \in [Openers -> Nat]
         /\ \E to \in {alloc, ok, error} : Goto(o, from, to)
  BY DEF ImageTest, Types, Others, Goto, NULL

\* Its allocation.
LEMMA ImageAllocateTypes ==
  ASSUME Types, NEW o \in Openers, NEW from, NEW ok \in Points, NEW error \in Points,
         ImageAllocate(o, from, ok, error)
  PROVE  /\ Others(o) /\ local' \in [Openers -> Nat] /\ timeout_image' \in Nat
         /\ dangling' \subseteq {"image", "timeout"} /\ damage' \subseteq {"image", "timeout"}
         /\ \E to \in {ok, error} : Goto(o, from, to)
<1>1. timeout_image' \in Nat
  BY DEF ImageAllocate, Types, Got, NULL
<1>2. dangling' \subseteq {"image", "timeout"} /\ damage' \subseteq {"image", "timeout"}
  BY MemoryTypes DEF ImageAllocate
<1>3. Others(o) /\ local' \in [Openers -> Nat]
  BY DEF ImageAllocate, Types, Others, Goto, NULL
<1>. QED  BY <1>1, <1>2, <1>3 DEF ImageAllocate

\* allocate_buffers and free_buffers.
LEMMA AllocationTypes ==
  ASSUME Types, Places, NEW o \in Openers, Allocation(o), UNCHANGED load
  PROVE  Types' /\ Places' /\ Others(o)
<1>. USE DEF count, format, memory, controls, timers
<1>a. Place(o)
  BY DEF Places
<1>1. CASE AllocateTest(o)
  <2>1. PICK to \in {"open", "ready", "imagesize", "free"} :
          /\ Goto(o, "alloc", to)
          /\ to = "ready" => call[o] \in {"open", "streamon", "write"}
    BY <1>1 DEF AllocateTest, AfterAllocate
  <2>2. Types' /\ Others(o)
    BY <1>1, <2>1, GotoFacts DEF AllocateTest, Types, Points, Others
  <2>3. Place(o)'
    BY <1>a, <2>1, GotoFacts DEF Place, Points, Allocating
  <2>. QED BY <2>2, <2>3, PlacesStep
<1>2. CASE AllocateSize(o)
  <2>1. Types' /\ Others(o)
    BY <1>2, GotoFacts DEF AllocateSize, Types, Points, Others
  <2>2. Place(o)'
    BY <1>a, <1>2, GotoFacts DEF AllocateSize, Place, Points, Allocating
  <2>. QED BY <2>1, <2>2, PlacesStep
<1>3. CASE AllocateImage(o)
  <2>1. image' \in Nat
    BY <1>3 DEF AllocateImage, Got, Types, NULL
  <2>2. Types' /\ Others(o)
    BY <1>3, <2>1, GotoFacts, MemoryTypes DEF AllocateImage, Types, Points, Others, NULL
  <2>3. Place(o)'
    BY <1>a, <1>3, GotoFacts DEF AllocateImage, Place, Points, Allocating
  <2>. QED BY <2>2, <2>3, PlacesStep
<1>4. CASE AllocateTimeout(o)
  <2>1. PICK to \in {"image", "check"} : Goto(o, "jiffies", to)
    BY <1>4 DEF AllocateTimeout
  <2>2. Types' /\ Others(o)
    BY <1>4, <2>1, GotoFacts DEF AllocateTimeout, Types, Points, Others
  <2>3. Place(o)'
    BY <1>a, <2>1, GotoFacts DEF Place, Points, Allocating
  <2>. QED BY <2>2, <2>3, PlacesStep
<1>5. CASE AllocateCheck(o)
  <2>1. PICK to \in {"open", "ready"} :
          /\ Goto(o, "check", to)
          /\ to = "ready" => call[o] \in {"open", "streamon", "write"}
    BY <1>5 DEF AllocateCheck, AfterAllocate
  <2>2. Types' /\ Others(o)
    BY <1>5, <2>1, GotoFacts DEF AllocateCheck, Types, Points, Others
  <2>3. Place(o)'
    BY <1>a, <2>1, GotoFacts DEF Place, Points, Allocating
  <2>. QED BY <2>2, <2>3, PlacesStep
<1>6. CASE TimeoutImage(o)
  <2>. DEFINE next == IF call[o] = "timeout" THEN "open" ELSE "check"
  <2>1. next \in Points /\ "vzalloc" \in Points
    BY DEF Points
  <2>2. CASE ImageTest(o, "image", "vzalloc", next, next)
    <3>1. /\ Others(o) /\ local' \in [Openers -> Nat]
          /\ \E to \in {"vzalloc", next} : Goto(o, "image", to)
      BY <2>1, <2>2, ImageTestTypes
    <3>2. Types'
      BY <2>1, <2>2, <3>1, GotoFacts DEF ImageTest, Types
    <3>3. Place(o)'
      BY <1>a, <2>1, <3>1, GotoFacts DEF Place, Allocating
    <3>. QED BY <3>1, <3>2, <3>3, PlacesStep
  <2>3. CASE ImageAllocate(o, "vzalloc", next, next)
    <3>1. /\ Others(o) /\ local' \in [Openers -> Nat] /\ timeout_image' \in Nat
          /\ dangling' \subseteq {"image", "timeout"}
          /\ damage' \subseteq {"image", "timeout"}
          /\ Goto(o, "vzalloc", next)
      BY <2>1, <2>3, ImageAllocateTypes
    <3>2. Types'
      BY <2>1, <2>3, <3>1, GotoFacts DEF ImageAllocate, Types
    <3>3. Place(o)'
      BY <1>a, <2>1, <3>1, GotoFacts DEF Place, Allocating
    <3>. QED BY <3>1, <3>2, <3>3, PlacesStep
  <2>. QED  BY <1>6, <2>2, <2>3 DEF TimeoutImage
<1>7. CASE Free(o)
  <2>1. PICK from \in {"free", "free2"}, to \in {"unset", "free2", "unset2", "freed"} :
          Goto(o, from, to)
    BY <1>7 DEF Free
  <2>2. dangling' \subseteq {"image", "timeout"} /\ damage' \subseteq {"image", "timeout"}
    BY <1>7, MemoryTypes DEF Free, Types
  <2>3. Types' /\ Others(o)
    BY <1>7, <2>1, <2>2, GotoFacts DEF Free, Types, Points, Others
  <2>4. Place(o)'
    BY <1>a, <2>1, GotoFacts DEF Place, Points, Allocating
  <2>. QED BY <2>3, <2>4, PlacesStep
<1>8. CASE Unset(o)
  <2>1. PICK from \in {"unset", "unset2"}, to \in {"free2", "freed"} : Goto(o, from, to)
    BY <1>8 DEF Unset
  <2>2. dangling' \subseteq {"image", "timeout"} /\ damage' \subseteq {"image", "timeout"}
    BY <1>8, MemoryTypes DEF Unset
  <2>3. Types' /\ Others(o)
    BY <1>8, <2>1, <2>2, GotoFacts DEF Unset, Types, Points, Others, NULL
  <2>4. Place(o)'
    BY <1>a, <2>1, GotoFacts DEF Place, Points, Allocating
  <2>. QED BY <2>3, <2>4, PlacesStep
<1>9. CASE Freed(o)
  <2>1. PICK to \in {"unready", "imagesize"} :
          /\ Goto(o, "freed", to)
          /\ to = "unready" <=> call[o] \in {"close", "keep_format"}
    BY <1>9 DEF Freed
  <2>2. Types' /\ Others(o)
    BY <1>9, <2>1, GotoFacts DEF Freed, Types, Points, Others
  <2>3. Place(o)'
    BY <1>a, <2>1, GotoFacts DEF Place, Points, Allocating
  <2>. QED BY <2>2, <2>3, PlacesStep
<1>. QED  BY <1>1, <1>2, <1>3, <1>4, <1>5, <1>6, <1>7, <1>8, <1>9 DEF Allocation

\* open() and close().
LEMMA OpenCloseTypes ==
  ASSUME Types, Places, NEW o \in Openers, OpenClose(o), UNCHANGED load,
         open_count \in Nat \ {0} \/ ~CloseCount(o)
  PROVE  Types' /\ Places' /\ Others(o)
<1>. USE DEF count, format, memory, controls, timers
<1>a. Place(o)
  BY DEF Places
<1>1. CASE OpenCheck(o)
  <2>1. Types' /\ Others(o)
    <3>1. "open" \in Calls /\ "count" \in Points
      BY DEF Calls, Points
    <3>. QED  BY <1>1, <3>1, CallFacts DEF OpenCheck, Types, Others
  <2>2. Place(o)'
    BY <1>1, CallFacts DEF OpenCheck, Place, Points, Calls
  <2>. QED BY <2>1, <2>2, PlacesStep
<1>2. CASE OpenCount(o)
  <2>1. Types' /\ Others(o)
    BY <1>2, GotoFacts DEF OpenCount, Types, Points, Others
  <2>2. Place(o)'
    BY <1>a, <1>2, GotoFacts DEF OpenCount, Place, Points
  <2>. QED BY <2>1, <2>2, PlacesStep
<1>3. CASE OpenHand(o)
  <2>1. Types' /\ Others(o)
    BY <1>3, GotoFacts DEF OpenHand, Types, Points, Others
  <2>2. Place(o)'
    BY <1>a, <1>3, GotoFacts DEF OpenHand, Place, Points
  <2>. QED BY <2>1, <2>2, PlacesStep
<1>4. CASE OpenClear(o)
  <2>1. PICK to \in {"handimage", "try_fmt"} : Goto(o, "clear", to)
    BY <1>4 DEF OpenClear
  <2>2. Types' /\ Others(o)
    BY <1>4, <2>1, GotoFacts DEF OpenClear, Types, Points, Others, NULL
  <2>3. Place(o)'
    BY <1>a, <2>1, GotoFacts DEF Place, Points
  <2>. QED BY <2>2, <2>3, PlacesStep
<1>5. CASE OpenImage(o)
  <2>1. "handvzalloc" \in Points /\ "try_fmt" \in Points /\ "closed" \in Points
    BY DEF Points
  <2>2. CASE ImageTest(o, "handimage", "handvzalloc", "try_fmt", "closed")
    <3>1. /\ Others(o) /\ local' \in [Openers -> Nat]
          /\ \E to \in {"handvzalloc", "try_fmt", "closed"} : Goto(o, "handimage", to)
      BY <2>1, <2>2, ImageTestTypes
    <3>2. Types'
      BY <2>1, <2>2, <3>1, GotoFacts DEF ImageTest, Types
    <3>3. Place(o)'
      BY <1>a, <2>1, <3>1, GotoFacts DEF Place
    <3>. QED BY <3>1, <3>2, <3>3, PlacesStep
  <2>3. CASE ImageAllocate(o, "handvzalloc", "try_fmt", "closed")
    <3>1. /\ Others(o) /\ local' \in [Openers -> Nat] /\ timeout_image' \in Nat
          /\ dangling' \subseteq {"image", "timeout"}
          /\ damage' \subseteq {"image", "timeout"}
      BY <2>1, <2>3, ImageAllocateTypes
    <3>. PICK to \in {"try_fmt", "closed"} : Goto(o, "handvzalloc", to)
      BY <2>3 DEF ImageAllocate
    <3>2. Types'
      BY <2>1, <2>3, <3>1, GotoFacts DEF ImageAllocate, Types
    <3>3. Place(o)'
      BY <1>a, <2>1, <3>1, GotoFacts DEF Place
    <3>. QED BY <3>1, <3>2, <3>3, PlacesStep
  <2>. QED  BY <1>5, <2>2, <2>3 DEF OpenImage
<1>6. CASE try_fmt_out(o)
  <2>1. PICK to \in {"open", "size", "store"} :
          /\ Goto(o, "try_fmt", to)
          /\ to = "size" => call[o] # "try_fmt"
    BY <1>6 DEF try_fmt_out, AfterTry
  <2>2. Types' /\ Others(o)
    BY <1>6, <2>1, GotoFacts DEF try_fmt_out, Types, Points, Others
  <2>3. Place(o)'
    BY <1>a, <2>1, GotoFacts DEF Place, Points
  <2>. QED BY <2>2, <2>3, PlacesStep
<1>7. CASE TryStore(o)
  <2>1. PICK to \in {"open", "size"} :
          /\ Goto(o, "store", to)
          /\ to = "size" => call[o] # "try_fmt"
    BY <1>7 DEF TryStore, AfterTry
  <2>2. pix_format' \in Formats
    BY <1>7, FormatAssumption DEF TryStore
  <2>3. Types' /\ Others(o)
    BY <1>7, <2>1, <2>2, GotoFacts DEF TryStore, Types, Points, Others
  <2>4. Place(o)'
    BY <1>a, <2>1, GotoFacts DEF Place, Points
  <2>. QED BY <2>3, <2>4, PlacesStep
<1>8. CASE SFmtTest(o)
  <2>1. PICK to \in {"open", "ready", "setsize"} :
          /\ Goto(o, "size", to)
          /\ to = "ready" => call[o] \in {"open", "streamon", "write"}
    BY <1>8 DEF SFmtTest, AfterAllocate
  <2>2. Types' /\ Others(o)
    BY <1>8, <2>1, GotoFacts DEF SFmtTest, Types, Points, Others
  <2>3. Place(o)'
    BY <1>a, <2>1, GotoFacts DEF Place, Points
  <2>. QED BY <2>2, <2>3, PlacesStep
<1>9. CASE SFmtSize(o)
  <2>1. buffer_size' \in Nat
    BY <1>9, FormatAssumption DEF SFmtSize, Types
  <2>2. Types' /\ Others(o)
    BY <1>9, <2>1, GotoFacts DEF SFmtSize, Types, Points, Others
  <2>3. Place(o)'
    BY <1>a, <1>9, GotoFacts DEF SFmtSize, Place, Points, Allocating
  <2>. QED BY <2>2, <2>3, PlacesStep
<1>10. CASE SetReady(o)
  <2>1. PICK to \in {"open", "written"} :
          /\ Goto(o, "ready", to)
          /\ to = "written" => call[o] = "write"
    BY <1>10 DEF SetReady
  <2>2. Types' /\ Others(o)
    BY <1>10, <2>1, GotoFacts DEF SetReady, Types, Points, Others
  <2>3. Place(o)'
    BY <1>a, <2>1, GotoFacts DEF Place, Points
  <2>. QED BY <2>2, <2>3, PlacesStep
<1>11. CASE CloseCount(o)
  <2>1. open_count' \in Nat
    BY <1>11 DEF CloseCount
  <2>2. Types' /\ Others(o)
    <3>1. "close" \in Calls /\ "timers" \in Points
      BY DEF Calls, Points
    <3>. QED  BY <1>11, <2>1, <3>1, CallFacts DEF CloseCount, Types, Others
  <2>3. Place(o)'
    BY <1>11, CallFacts DEF CloseCount, Place, Points, Calls
  <2>. QED BY <2>2, <2>3, PlacesStep
<1>12. CASE CloseLast(o)
  <2>1. PICK to \in {"sustain", "test"} : Goto(o, "timers", to)
    BY <1>12 DEF CloseLast
  <2>2. Types' /\ Others(o)
    BY <1>12, <2>1, GotoFacts DEF CloseLast, Types, Points, Others
  <2>3. Place(o)'
    BY <1>a, <2>1, GotoFacts DEF Place, Points
  <2>. QED BY <2>2, <2>3, PlacesStep
<1>13. CASE CloseTimers(o)
  <2>1. PICK from \in {"sustain", "timeout"}, to \in {"timeout", "test"} : Goto(o, from, to)
    BY <1>13 DEF CloseTimers
  <2>2. armed' \subseteq armed
    BY <1>13 DEF CloseTimers
  <2>3. Types' /\ Others(o)
    BY <1>13, <2>1, <2>2, GotoFacts DEF CloseTimers, Types, Points, Others
  <2>4. Place(o)'
    BY <1>a, <2>1, GotoFacts DEF Place, Points
  <2>. QED BY <2>3, <2>4, PlacesStep
<1>14. CASE CloseTest(o)
  <2>1. PICK to \in {"free", "closed", "open"} : Goto(o, "test", to)
    BY <1>14 DEF CloseTest
  <2>2. Types' /\ Others(o)
    BY <1>14, <2>1, GotoFacts DEF CloseTest, Types, Points, Others
  <2>3. Place(o)'
    BY <1>a, <2>1, GotoFacts DEF Place, Points
  <2>. QED BY <2>2, <2>3, PlacesStep
<1>15. CASE CloseFree(o)
  <2>1. PICK from \in {"unready", "unsize"}, to \in {"unsize", "closed", "open"} :
          Goto(o, from, to)
    BY <1>15 DEF CloseFree
  <2>2. buffer_size' \in Nat /\ ready_for_capture' \in {0, 1}
    BY <1>15 DEF CloseFree, Types
  <2>3. Types' /\ Others(o)
    BY <1>15, <2>1, <2>2, GotoFacts DEF CloseFree, Types, Points, Others
  <2>4. Place(o)'
    BY <1>a, <2>1, GotoFacts DEF Place, Points
  <2>. QED BY <2>3, <2>4, PlacesStep
<1>. QED
  BY <1>1, <1>2, <1>3, <1>4, <1>5, <1>6, <1>7, <1>8, <1>9, <1>10, <1>11, <1>12, <1>13,
     <1>14, <1>15
  DEF OpenClose

\* check_timers starts none but the two.
LEMMA TimersTypes ==
  ASSUME Types, NEW ready, NEW jiffies, NEW sustain, check_timers(ready, jiffies, sustain)
  PROVE  armed' \subseteq {"timeout", "sustain"}
  BY DEF Types, check_timers

\* The ioctls, read, write and mmap.
LEMMA UseTypes ==
  ASSUME Types, Places, NEW o \in Openers, Use(o), UNCHANGED load
  PROVE  Types' /\ Places' /\ Others(o)
<1>. USE DEF count, format, memory, controls, timers
<1>a. Place(o)
  BY DEF Places
<1>1. CASE SetFormat(o)
  <2>1. PICK which \in {"try_fmt", "s_fmt"} : Call(o, "open", which, "try_fmt")
    BY <1>1 DEF SetFormat
  <2>2. Types' /\ Others(o)
    <3>1. which \in Calls /\ "try_fmt" \in Points
      BY DEF Calls, Points
    <3>. QED  BY <1>1, <2>1, <3>1, CallFacts DEF SetFormat, Types, Others
  <2>3. Place(o)'
    BY <2>1, CallFacts DEF Place, Points, Calls
  <2>. QED BY <2>2, <2>3, PlacesStep
<1>2. CASE StreamonOutput(o) \/ Write(o) \/ Mmap(o)
  <2>1. PICK which \in {"streamon", "write", "mmap"}, to \in {"alloc", "written"} :
          /\ Call(o, "open", which, to)
          /\ to = "written" => which = "write"
    BY <1>2 DEF StreamonOutput, Write, Mmap
  <2>2. Types' /\ Others(o)
    <3>1. which \in Calls /\ to \in Points
      BY DEF Calls, Points
    <3>2. UNCHANGED <<count, format, memory, controls, timers, local>>
      BY <1>2 DEF StreamonOutput, Write, Mmap
    <3>. QED  BY <2>1, <3>1, <3>2, CallFacts DEF Types, Others
  <2>3. Place(o)'
    BY <2>1, CallFacts DEF Place, Points, Calls, Allocating
  <2>. QED BY <2>2, <2>3, PlacesStep
<1>3. CASE Written(o) \/ GetCaptureBuffer(o) \/ CopyTimeoutImage(o)
  <2>1. PICK from \in {"written", "open", "copy"}, to \in {"open", "copy"} :
          /\ Goto(o, from, to)
          /\ to = "copy" => from = "open"
    BY <1>3 DEF Written, GetCaptureBuffer, CopyTimeoutImage
  <2>2. armed' \subseteq {"timeout", "sustain"}
    BY <1>3, TimersTypes DEF Written, GetCaptureBuffer, CopyTimeoutImage, Types
  <2>3. timeout_happened' \in {0, 1} /\ UNCHANGED <<count, format, memory, controls, local>>
    BY <1>3 DEF Written, GetCaptureBuffer, CopyTimeoutImage, Types
  <2>4. Types' /\ Others(o)
    BY <2>1, <2>2, <2>3, GotoFacts DEF Types, Points, Others
  <2>5. Place(o)'
    BY <1>a, <2>1, GotoFacts DEF Place, Points
  <2>. QED BY <2>4, <2>5, PlacesStep
<1>. QED  BY <1>1, <1>2, <1>3 DEF Use

\* The controls.
LEMMA ControlTypes ==
  ASSUME Types, Places, NEW o \in Openers, Control(o), UNCHANGED load
  PROVE  Types' /\ Places' /\ Others(o)
<1>. USE DEF count, format, memory, controls, timers
<1>1. PICK value \in {0, 1} : SetKeepFormat(o, value) \/ SetSustain(o, value)
                              \/ SetTimeout(o, value) \/ SetTimeoutImageIo(o, value)
  BY DEF Control
<1>2. CASE SetKeepFormat(o, value)
  <2>1. Types' /\ Others(o)
    <3>1. "keep_format" \in Calls /\ "test" \in Points
      BY DEF Calls, Points
    <3>. QED  BY <1>2, <3>1, CallFacts DEF SetKeepFormat, Types, Others
  <2>2. Place(o)'
    BY <1>2, CallFacts DEF SetKeepFormat, Place, Points, Calls
  <2>. QED BY <2>1, <2>2, PlacesStep
<1>3. CASE SetSustain(o, value) \/ SetTimeoutImageIo(o, value)
  <2>1. armed' \subseteq {"timeout", "sustain"}
    BY <1>3, TimersTypes DEF SetSustain, SetTimeoutImageIo, Types
  <2>2. Types' /\ Others(o)
    BY <1>3, <2>1 DEF SetSustain, SetTimeoutImageIo, Types, Others, process
  <2>3. Places'
    BY <1>3 DEF SetSustain, SetTimeoutImageIo, Places, Place, process
  <2>. QED BY <2>2, <2>3
<1>4. CASE SetTimeout(o, value)
  <2>1. armed' \subseteq {"timeout", "sustain"}
    BY <1>4, TimersTypes DEF SetTimeout
  <2>2. Types' /\ Others(o)
    <3>1. "timeout" \in Calls /\ "image" \in Points
      BY DEF Calls, Points
    <3>. QED  BY <1>4, <2>1, <3>1, CallFacts DEF SetTimeout, Types, Others
  <2>3. Place(o)'
    BY <1>4, CallFacts DEF SetTimeout, Place, Points, Calls, Allocating
  <2>. QED BY <2>2, <2>3, PlacesStep
<1>. QED  BY <1>1, <1>2, <1>3, <1>4

-----------------------------------------------------------------------------
(* Counting.                                                               *)

\* Those counted are finitely many.
LEMMA CountedFinite ==
  ASSUME NEW S \in SUBSET Openers
  PROVE  IsFiniteSet(S) /\ Cardinality(S) \in Nat
  BY OpenersAssumption, FS_Subset, FS_CardinalityType

\* Nobody has the device open when open_count is zero.
LEMMA NobodyCounted ==
  ASSUME Types, CountEnough, NEW o \in Openers, IsCounted(o)
  PROVE  open_count \in Nat \ {0}
<1>1. o \in Counted
  BY DEF Counted
<1>2. IsFiniteSet(Counted) /\ Cardinality(Counted) \in Nat
  BY CountedFinite DEF Counted
<1>3. Cardinality(Counted) # 0
  BY <1>1, <1>2, FS_EmptySet
<1>. QED  BY <1>2, <1>3 DEF CountEnough, Types

\* A process that comes or goes changes the count by one at most.
LEMMA CountChange ==
  ASSUME NEW o \in Openers, Others(o)
  PROVE  /\ Cardinality(Counted) \in Nat /\ Cardinality(Counted') \in Nat
         /\ (IsCounted(o) <=> IsCounted(o)') => Cardinality(Counted') = Cardinality(Counted)
         /\ IsCounted(o) /\ ~IsCounted(o)' => Cardinality(Counted') = Cardinality(Counted) - 1
         /\ ~IsCounted(o) /\ IsCounted(o)' => Cardinality(Counted') = Cardinality(Counted) + 1
<1>1. \A p \in Openers \ {o} : IsCounted(p)' <=> IsCounted(p)
  BY DEF Others, IsCounted
<1>2. IsFiniteSet(Counted) /\ Cardinality(Counted) \in Nat
        /\ Cardinality(Counted') \in Nat
  BY CountedFinite DEF Counted
<1>3. CASE IsCounted(o) <=> IsCounted(o)'
  <2>1. Counted' = Counted
    BY <1>1, <1>3 DEF Counted
  <2>. QED  BY <1>2, <1>3, <2>1
<1>4. CASE IsCounted(o) /\ ~IsCounted(o)'
  <2>1. Counted' = Counted \ {o} /\ o \in Counted
    BY <1>1, <1>4 DEF Counted
  <2>. QED  BY <1>2, <1>4, <2>1, FS_RemoveElement
<1>5. CASE ~IsCounted(o) /\ IsCounted(o)'
  <2>1. Counted' = Counted \union {o} /\ o \notin Counted
    BY <1>1, <1>5 DEF Counted
  <2>. QED  BY <1>2, <1>5, <2>1, FS_AddElement
<1>. QED  BY <1>2, <1>3, <1>4, <1>5

\* A process that is counted leaves nothing to whoever closed last: nobody did.
LEMMA CountedStep ==
  ASSUME Inv, NEW o \in Openers, IsCounted(o), Others(o), open_count' = open_count
  PROVE  CountEnough' /\ LastCloses'
<1>1. open_count \in Nat \ {0}
  BY NobodyCounted DEF Inv
<1>2. CountEnough'
  BY <1>1, CountChange DEF Inv, CountEnough
<1>3. LastCloses'
  BY <1>1 DEF LastCloses
<1>. QED  BY <1>2, <1>3

\* Neither does one that is not counted, before or after, change the count.
LEMMA UncountedStep ==
  ASSUME Inv, NEW o \in Openers, ~IsCounted(o), ~IsCounted(o)', Others(o),
         open_count' = open_count
  PROVE  CountEnough'
  BY CountChange DEF Inv, CountEnough, Types

\* Whoever has something left to do at one of S, has it if o passes by,
LEMMA ClosingKept ==
  ASSUME NEW o \in Openers, Others(o), NEW S, Closing(S),
         ~(call[o] = "close" /\ pc[o] \in S)
  PROVE  Closing(S)'
  BY DEF Closing, Others

\* and o has it once there.
LEMMA ClosingHere ==
  ASSUME NEW o \in Openers, call'[o] = "close", NEW S, pc'[o] \in S
  PROVE  Closing(S)'
  BY DEF Closing

\* A process that closes and goes on leaves to itself what is left.
LEMMA CloseOn ==
  ASSUME Inv, NEW o \in Openers, call[o] = "close", Others(o),
         open_count' = open_count, keep_format' = keep_format,
         call'[o] = "close" \/ pc'[o] = "closed",
         \/ /\ pc[o] = "timers" /\ pc'[o] \in {"sustain", "test"}
            /\ open_count = 0 => pc'[o] = "sustain"
         \/ /\ pc[o] = "sustain" /\ pc'[o] = "timeout" /\ "sustain" \notin armed'
         \/ /\ pc[o] = "timeout" /\ pc'[o] = "test" /\ "timeout" \notin armed'
         \/ /\ pc[o] = "test" /\ pc'[o] \in {"free", "closed"}
            /\ open_count = 0 /\ keep_format = 0 => pc'[o] = "free"
         \/ /\ pc[o] = "free" /\ pc'[o] \in {"unset", "free2"}
            /\ pc'[o] = "free2" => image' = NULL
         \/ /\ pc[o] = "unset" /\ pc'[o] = "free2" /\ image' = NULL
         \/ /\ pc[o] = "free2" /\ pc'[o] \in {"unset2", "freed"}
            /\ pc'[o] = "freed" => timeout_image' = NULL
         \/ /\ pc[o] = "unset2" /\ pc'[o] = "freed" /\ timeout_image' = NULL
         \/ /\ pc[o] = "freed" /\ pc'[o] = "unready"
         \/ /\ pc[o] = "unready" /\ pc'[o] = "unsize" /\ ready_for_capture' = 0
         \/ /\ pc[o] = "unsize" /\ pc'[o] = "closed",
         armed' \subseteq armed, image' \in {image, NULL},
         timeout_image' \in {timeout_image, NULL},
         ready_for_capture' \in {ready_for_capture, 0}
  PROVE  CountEnough' /\ LastCloses'
<1>1. CountEnough'
  BY UncountedStep DEF IsCounted
<1>. SUFFICES ASSUME open_count = 0  PROVE LastCloses'
  BY <1>1 DEF LastCloses
<1>2. call'[o] = "close" \/ pc[o] \in {"test", "unsize"}
  OBVIOUS
<1>3. ASSUME "sustain" \in armed'  PROVE Closing({"timers", "sustain"})'
  <2>1. Closing({"timers", "sustain"})
    BY <1>3 DEF Inv, LastCloses
  <2>2. CASE pc[o] = "timers"
    BY <1>2, <2>2, ClosingHere
  <2>3. CASE pc[o] # "timers"
    BY <1>3, <2>1, <2>3, ClosingKept
  <2>. QED  BY <2>2, <2>3
<1>4. ASSUME "timeout" \in armed'  PROVE Closing({"timers", "sustain", "timeout"})'
  <2>1. Closing({"timers", "sustain", "timeout"})
    BY <1>4 DEF Inv, LastCloses
  <2>2. CASE pc[o] \in {"timers", "sustain"}
    BY <1>2, <2>2, ClosingHere
  <2>3. CASE pc[o] \notin {"timers", "sustain"}
    BY <1>4, <2>1, <2>3, ClosingKept
  <2>. QED  BY <2>2, <2>3
<1>5. ASSUME keep_format' = 0, image' # NULL
      PROVE  Closing({"timers", "sustain", "timeout", "test", "free", "unset"})'
  <2>1. Closing({"timers", "sustain", "timeout", "test", "free", "unset"})
    BY <1>5 DEF Inv, LastCloses
  <2>2. CASE pc[o] \in {"timers", "sustain", "timeout", "test", "free"}
    <3>1. pc'[o] \in {"timers", "sustain", "timeout", "test", "free", "unset"}
            /\ call'[o] = "close"
      BY <1>2, <1>5, <2>2
    <3>. QED  BY <3>1, ClosingHere
  <2>3. CASE pc[o] \notin {"timers", "sustain", "timeout", "test", "free"}
    BY <1>5, <2>1, <2>3, ClosingKept
  <2>. QED  BY <2>2, <2>3
<1>6. ASSUME keep_format' = 0, timeout_image' # NULL
      PROVE  Closing({"timers", "sustain", "timeout", "test", "free", "unset", "free2",
                      "unset2"})'
  <2>1. Closing({"timers", "sustain", "timeout", "test", "free", "unset", "free2", "unset2"})
    BY <1>6 DEF Inv, LastCloses
  <2>2. CASE pc[o] \in {"timers", "sustain", "timeout", "test", "free", "unset", "free2"}
    <3>1. pc'[o] \in {"timers", "sustain", "timeout", "test", "free", "unset", "free2",
                      "unset2"}
            /\ call'[o] = "close"
      BY <1>2, <1>6, <2>2
    <3>. QED  BY <3>1, ClosingHere
  <2>3. CASE pc[o] \notin {"timers", "sustain", "timeout", "test", "free", "unset", "free2"}
    BY <1>6, <2>1, <2>3, ClosingKept
  <2>. QED  BY <2>2, <2>3
<1>7. ASSUME keep_format' = 0, ready_for_capture' = 1
      PROVE  Closing({"timers", "sustain", "timeout", "test", "free", "unset", "free2",
                      "unset2", "freed", "unready"})'
  <2>1. Closing({"timers", "sustain", "timeout", "test", "free", "unset", "free2",
                 "unset2", "freed", "unready"})
    BY <1>7 DEF Inv, LastCloses
  <2>2. CASE pc[o] \in {"timers", "sustain", "timeout", "test", "free", "unset", "free2",
                        "unset2", "freed"}
    <3>1. pc'[o] \in {"timers", "sustain", "timeout", "test", "free", "unset", "free2",
                      "unset2", "freed", "unready"}
            /\ call'[o] = "close"
      BY <1>2, <1>7, <2>2
    <3>. QED  BY <3>1, ClosingHere
  <2>3. CASE pc[o] \notin {"timers", "sustain", "timeout", "test", "free", "unset", "free2",
                           "unset2", "freed"}
    BY <1>7, <2>1, <2>3, ClosingKept
  <2>. QED  BY <2>2, <2>3
<1>. QED  BY <1>3, <1>4, <1>5, <1>6, <1>7 DEF LastCloses

\* Who opens, or is about to, closes nothing.
LEMMA OpenersClosing ==
  ASSUME Inv, NEW o \in Openers, call[o] # "close", Others(o),
         UNCHANGED <<open_count, armed, keep_format, image, timeout_image,
                     ready_for_capture>>
  PROVE  LastCloses'
<1>1. ASSUME NEW S, Closing(S)  PROVE Closing(S)'
  BY <1>1, ClosingKept
<1>. QED  BY <1>1 DEF Inv, LastCloses

\* Every step of a process leaves the count and what is left to the last close
\* as it should be.
LEMMA AllocationCounts ==
  ASSUME Inv, NEW o \in Openers, Allocation(o), Others(o)
  PROVE  CountEnough' /\ LastCloses'
<1>. USE DEF count, format, memory, controls, timers
<1>a. Types /\ Place(o)
  BY DEF Inv, Places
<1>1. open_count' = open_count
  BY DEF Allocation, AllocateTest, AllocateSize, AllocateImage, AllocateTimeout,
         AllocateCheck, TimeoutImage, ImageTest, ImageAllocate, Free, Unset, Freed
<1>2. pc[o] \in {"alloc", "imagesize", "vmalloc", "jiffies", "image", "vzalloc", "check",
                 "free", "unset", "free2", "unset2", "freed"}
  BY DEF Allocation, AllocateTest, AllocateSize, AllocateImage, AllocateTimeout,
         AllocateCheck, TimeoutImage, ImageTest, ImageAllocate, Free, Unset, Freed, Goto
<1>3. CASE call[o] # "close"
  BY <1>1, <1>2, <1>3, CountedStep DEF IsCounted
<1>4. CASE call[o] = "close"
  <2>1. pc[o] \in {"free", "unset", "free2", "unset2", "freed"}
    BY <1>a, <1>2, <1>4 DEF Place, Allocating
  <2>2. Free(o) \/ Unset(o) \/ Freed(o)
    BY <2>1
    DEF Allocation, AllocateTest, AllocateSize, AllocateImage, AllocateTimeout,
        AllocateCheck, TimeoutImage, ImageTest, ImageAllocate, Goto
  <2>3. CASE Free(o)
    <3>1. PICK from, to \in Points :
            /\ Goto(o, from, to)
            /\ \/ from = "free" /\ to = "unset"
               \/ from = "free" /\ to = "free2" /\ image = NULL
               \/ from = "free2" /\ to = "unset2"
               \/ from = "free2" /\ to = "freed" /\ timeout_image = NULL
      BY <2>3 DEF Free, Points
    <3>. QED  BY <1>a, <1>1, <1>4, <2>3, <3>1, GotoFacts, CloseOn DEF Free
  <2>4. CASE Unset(o)
    <3>1. PICK from, to \in Points :
            /\ Goto(o, from, to)
            /\ \/ from = "unset" /\ to = "free2" /\ image' = NULL
               \/ from = "unset2" /\ to = "freed" /\ timeout_image' = NULL
      BY <2>4 DEF Unset, Points
    <3>2. image' \in {image, NULL} /\ timeout_image' \in {timeout_image, NULL}
      BY <2>4 DEF Unset
    <3>. QED  BY <1>a, <1>1, <1>4, <2>4, <3>1, <3>2, GotoFacts, CloseOn DEF Unset
  <2>5. CASE Freed(o)
    <3>1. Goto(o, "freed", "unready") /\ "unready" \in Points
      BY <1>4, <2>5 DEF Freed, Points
    <3>. QED  BY <1>a, <1>1, <1>4, <2>5, <3>1, GotoFacts, CloseOn DEF Freed
  <2>. QED  BY <2>2, <2>3, <2>4, <2>5
<1>. QED  BY <1>3, <1>4

\* open() and close().
LEMMA OpenCloseCounts ==
  ASSUME Inv, NEW o \in Openers, OpenClose(o), Others(o)
  PROVE  CountEnough' /\ LastCloses'
<1>. USE DEF count, format, memory, controls, timers
<1>a. Types /\ Place(o)
  BY DEF Inv, Places
<1>1. CASE OpenCheck(o)
  <2>1. "count" \in Points /\ "open" \in Calls
    BY DEF Points, Calls
  <2>2. ~IsCounted(o) /\ ~IsCounted(o)' /\ call[o] # "close"
    BY <1>a, <1>1, <2>1, CallFacts DEF OpenCheck, IsCounted, Place
  <2>3. UNCHANGED <<open_count, armed, keep_format, image, timeout_image, ready_for_capture>>
    BY <1>1 DEF OpenCheck
  <2>. QED  BY <2>2, <2>3, UncountedStep, OpenersClosing
<1>2. CASE OpenCount(o)
  <2>1. open_count' = open_count + 1 /\ open_count \in Nat
    BY <1>a, <1>2 DEF OpenCount, Types
  <2>2. ~IsCounted(o)
    BY <1>2 DEF OpenCount, Goto, IsCounted
  <2>3. CountEnough'
    BY <2>1, <2>2, CountChange DEF Inv, CountEnough
  <2>. QED  BY <2>1, <2>3 DEF LastCloses
<1>3. CASE CloseCount(o)
  <2>1. "timers" \in Points /\ "close" \in Calls
    BY DEF Points, Calls
  <2>2. /\ pc[o] = "open" /\ pc'[o] = "timers" /\ call'[o] = "close"
        /\ open_count' = open_count - 1
    BY <1>a, <1>3, <2>1, CallFacts DEF CloseCount
  <2>3. IsCounted(o) /\ ~IsCounted(o)'
    BY <1>a, <2>2 DEF IsCounted, Place
  <2>4. CountEnough'
    BY <1>a, <2>2, <2>3, CountChange DEF Inv, CountEnough, Types
  <2>5. LastCloses'
    BY <2>2, ClosingHere DEF LastCloses
  <2>. QED  BY <2>4, <2>5
<1>4. CASE CloseLast(o)
  <2>1. PICK to \in {"sustain", "test"} :
          Goto(o, "timers", to) /\ (open_count = 0 => to = "sustain")
    BY <1>4 DEF CloseLast
  <2>2. to \in Points
    BY DEF Points
  <2>3. call[o] = "close"
    BY <1>a, <2>1 DEF Goto, Place
  <2>. QED  BY <1>a, <1>4, <2>1, <2>2, <2>3, GotoFacts, CloseOn DEF CloseLast
<1>5. CASE CloseTimers(o)
  <2>1. PICK from, to \in Points :
          /\ Goto(o, from, to)
          /\ \/ from = "sustain" /\ to = "timeout" /\ "sustain" \notin armed'
             \/ from = "timeout" /\ to = "test" /\ "timeout" \notin armed'
    BY <1>5 DEF CloseTimers, Points
  <2>2. call[o] = "close"
    BY <1>a, <2>1 DEF Goto, Place
  <2>3. armed' \subseteq armed
    BY <1>5 DEF CloseTimers
  <2>. QED  BY <1>a, <1>5, <2>1, <2>2, <2>3, GotoFacts, CloseOn DEF CloseTimers
<1>6. CASE CloseTest(o) /\ call[o] = "close"
  <2>1. PICK to \in {"free", "closed"} :
          Goto(o, "test", to) /\ (open_count = 0 /\ keep_format = 0 => to = "free")
    BY <1>6 DEF CloseTest
  <2>2. to \in Points
    BY DEF Points
  <2>. QED  BY <1>a, <1>6, <2>1, <2>2, GotoFacts, CloseOn DEF CloseTest
<1>7. CASE CloseFree(o) /\ call[o] = "close"
  <2>1. PICK from, to \in Points :
          /\ Goto(o, from, to)
          /\ \/ from = "unready" /\ to = "unsize" /\ ready_for_capture' = 0
             \/ from = "unsize" /\ to = "closed"
    BY <1>7 DEF CloseFree, Points
  <2>2. ready_for_capture' \in {ready_for_capture, 0}
    BY <1>7 DEF CloseFree
  <2>. QED  BY <1>a, <1>7, <2>1, <2>2, GotoFacts, CloseOn DEF CloseFree
<1>8. CASE OpenHand(o) \/ OpenClear(o) \/ OpenImage(o) \/ try_fmt_out(o) \/ TryStore(o)
             \/ SFmtTest(o) \/ SFmtSize(o) \/ SetReady(o)
  <2>1. pc[o] \in {"hand", "clear", "handimage", "handvzalloc", "try_fmt", "store", "size",
                   "setsize", "ready"}
    BY <1>8 DEF OpenHand, OpenClear, OpenImage, ImageTest, ImageAllocate, try_fmt_out,
                TryStore, SFmtTest, SFmtSize, SetReady, Goto
  <2>2. IsCounted(o)
    BY <1>a, <2>1 DEF Place, IsCounted
  <2>3. open_count' = open_count
    BY <1>8 DEF OpenHand, OpenClear, OpenImage, ImageTest, ImageAllocate, try_fmt_out,
                TryStore, SFmtTest, SFmtSize, SetReady
  <2>. QED  BY <2>2, <2>3, CountedStep
<1>9. CASE (CloseTest(o) \/ CloseFree(o)) /\ call[o] # "close"
  BY <1>9, CountedStep DEF CloseTest, CloseFree, Goto, IsCounted
<1>. QED
  BY <1>1, <1>2, <1>3, <1>4, <1>5, <1>6, <1>7, <1>8, <1>9 DEF OpenClose

\* Whatever an open file is used for.
LEMMA UseCounts ==
  ASSUME Inv, NEW o \in Openers, Use(o) \/ Control(o), Others(o)
  PROVE  CountEnough' /\ LastCloses'
<1>. USE DEF count, format, memory, controls, timers
<1>1. pc[o] \in {"open", "written", "copy"} /\ open_count' = open_count
  BY DEF Use, SetFormat, StreamonOutput, Write, Written, Mmap, GetCaptureBuffer,
         CopyTimeoutImage, Control, SetKeepFormat, SetSustain, SetTimeout,
         SetTimeoutImageIo, Call, Goto
<1>2. call[o] # "close"
  BY <1>1 DEF Inv, Places, Place
<1>. QED  BY <1>1, <1>2, CountedStep DEF IsCounted

-----------------------------------------------------------------------------
(* Calm behaviours.                                                        *)

\* Whoever has the device open finds it ready, with its buffers.
LEMMA CalmInUse ==
  ASSUME Inv, load = "calm", NEW o \in Openers, HasIt(o)
  PROVE  Ready /\ image # NULL /\ open_count # 0
<1>1. Calm /\ Used(o) /\ ready_for_capture = 1
  BY DEF Inv, Calm, Used
<1>2. open_count # 0
  <2>1. IsCounted(o)
    BY DEF HasIt, Busy, IsCounted, Inv, Places, Place
  <2>. QED  BY <2>1, NobodyCounted DEF Inv
<1>3. Ready
  <2>1. CASE \E p \in Openers : Between(p)
    <3>1. PICK p \in Openers : Between(p)
      BY <2>1
    <3>2. Opened(p) /\ Closed(p)
      BY <1>1 DEF Calm
    <3>3. call[p] = "open" /\ pc[p] = "ready"
      BY <1>1, <1>2, <3>1, <3>2 DEF Between, Opened, Closed, InSetup
    <3>. QED  BY <1>1, <3>2, <3>3 DEF Opened, Ready
  <2>2. CASE ~ \E p \in Openers : Between(p)
    BY <1>1, <2>2 DEF Calm, Unused
  <2>. QED  BY <2>1, <2>2
<1>4. image # NULL
  BY <1>3, FormatAssumption DEF Ready, Buffered, Sized, NULL
<1>. QED  BY <1>2, <1>3, <1>4

\* A step that is part of the one open or close under way, or begins it.
LEMMA BusyStep ==
  ASSUME Inv, load = "calm", NEW o \in Openers, Others(o), Busy(o) \/ Alone,
         \/ ready_for_capture' \in {ready_for_capture, 1} /\ buffer_size' = buffer_size
         \/ ready_for_capture = 0
         \/ open_count = 0,
         Opened(o)', Used(o)', Closed(o)', Between(o)' \/ Ready' \/ Unused',
         "image" \notin damage'
  PROVE  Calm'
<1>1. \A p \in Openers \ {o} : ~Busy(p) /\ ~Busy(p)'
  BY DEF Inv, Calm, OneBusy, Alone, Busy, Others
<1>2. OneBusy'
  BY <1>1 DEF OneBusy
<1>3. ASSUME NEW p \in Openers \ {o}  PROVE Opened(p)' /\ Used(p)' /\ Closed(p)'
  <2>1. Opened(p)' /\ Closed(p)'
    BY <1>1 DEF Busy, Opened, Closed
  <2>2. CASE HasIt(p)
    <3>1. ready_for_capture = 1 /\ open_count # 0
      BY <2>2, CalmInUse DEF Ready
    <3>2. ready_for_capture' = 1 /\ buffer_size' = buffer_size
      BY <3>1
    <3>3. Used(p)
      BY DEF Inv, Calm
    <3>. QED  BY <2>1, <2>2, <3>2, <3>3 DEF Used, HasIt, Busy, Others
  <2>3. CASE ~HasIt(p)
    BY <1>1, <2>1, <2>3 DEF Used, HasIt, Others
  <2>. QED  BY <2>2, <2>3
<1>. QED  BY <1>2, <1>3 DEF Calm

\* A step of a process that has the device open, and keeps it open.
LEMMA UseStep ==
  ASSUME Inv, load = "calm", NEW o \in Openers, Others(o), HasIt(o), HasIt(o)',
         UNCHANGED <<open_count, format, image, imagesize>>,
         timeout_image' \in {timeout_image, buffer_size, NULL},
         dangling' = dangling, damage' \subseteq damage \union {"timeout"},
         Used(o)'
  PROVE  Calm'
<1>. USE DEF format
<1>1. Ready /\ open_count # 0
  BY CalmInUse
<1>2. Ready'
  BY <1>1 DEF Ready, Buffered, Sized
<1>3. OneBusy'
  BY DEF Inv, Calm, OneBusy, Others, HasIt, Busy
<1>4. Opened(o)' /\ Closed(o)'
  BY DEF HasIt, Busy, Opened, Closed
<1>5. ASSUME NEW p \in Openers \ {o}  PROVE Opened(p)' /\ Used(p)' /\ Closed(p)'
  <2>1. Opened(p) /\ Used(p) /\ Closed(p) /\ pc'[p] = pc[p] /\ call'[p] = call[p]
          /\ local'[p] = local[p]
    BY DEF Inv, Calm, Others
  <2>2. Opened(p)'
    BY <1>1, <1>2, <2>1 DEF Opened, Ready, InSetup
  <2>3. Used(p)'
    BY <2>1 DEF Used, HasIt, Busy
  <2>4. Closed(p)'
    BY <1>1, <2>1 DEF Closed, InFree
  <2>. QED  BY <2>2, <2>3, <2>4
<1>6. "image" \notin damage'
  BY DEF Inv, Calm
<1>. QED  BY <1>2, <1>3, <1>4, <1>5, <1>6 DEF Calm

\* Between the setup of the first open and the free of the last close, the
\* device is ready or there is nothing.
LEMMA ReadyOrUnused ==
  ASSUME Inv, load = "calm", NEW o \in Openers, Busy(o) \/ Alone, ~Between(o)
  PROVE  Ready \/ Unused
<1>1. \A p \in Openers \ {o} : ~Busy(p)
  BY DEF Inv, Calm, OneBusy, Alone, Busy
<1>2. \A p \in Openers : ~Between(p)
  BY <1>1 DEF Between, Busy
<1>. QED  BY <1>2 DEF Inv, Calm

\* The timeout image that is allocated fits the buffers.
LEMMA CalmTimeoutImage ==
  ASSUME Types, load = "calm", NEW o \in Openers, Buffered, local[o] = buffer_size,
         NEW from, NEW ok, NEW error, ImageAllocate(o, from, ok, error)
  PROVE  /\ timeout_image' = buffer_size /\ timeout_image' # NULL
         /\ dangling' = dangling /\ damage' \subseteq damage \union {"timeout"}
         /\ UNCHANGED <<count, format, image, imagesize, controls, timers>>
<1>1. buffer_size # 0
  BY FormatAssumption DEF Buffered, Sized
<1>2. timeout_image' = buffer_size
  BY DEF ImageAllocate, Got
<1>3. dangling' = dangling /\ damage' \subseteq damage \union {"timeout"}
  BY DEF ImageAllocate, Overwrite, Buffered
<1>. QED  BY <1>1, <1>2, <1>3 DEF ImageAllocate, NULL

\* open(), up to the setup.
LEMMA CalmOpen ==
  ASSUME Inv, Types', load = "calm", NEW o \in Openers, Others(o),
         call[o] = "open" \/ OpenCheck(o),
         OpenCheck(o) \/ OpenCount(o) \/ OpenHand(o) \/ OpenClear(o) \/ OpenImage(o)
           \/ try_fmt_out(o) \/ TryStore(o) \/ SFmtTest(o) \/ SFmtSize(o)
  PROVE  Calm'
<1>. USE DEF count, format, memory, controls, timers
<1>a. Types /\ Place(o) /\ Calm /\ Opened(o)
  BY DEF Inv, Places, Calm
<1>b. Busy(o) \/ Alone
  BY DEF Busy, OpenCheck
<1>c. ~Between(o)
  BY <1>a
  DEF OpenCheck, OpenCount, OpenHand, OpenClear, OpenImage, ImageTest, ImageAllocate,
      try_fmt_out, TryStore, SFmtTest, SFmtSize, Goto, Call, Between, InSetup, Place
<1>d. Ready \/ Unused
  BY <1>b, <1>c, ReadyOrUnused
<1>e. "image" \notin damage
  BY <1>a DEF Calm
<1>1. CASE OpenCheck(o)
  <2>1. "count" \in Points /\ "open" \in Calls
    BY DEF Points, Calls
  <2>2. pc'[o] = "count" /\ call'[o] = "open" /\ UNCHANGED <<count, format, memory>>
    BY <1>a, <1>1, <2>1, CallFacts DEF OpenCheck
  <2>3. Opened(o)' /\ Used(o)' /\ Closed(o)' /\ (Ready' \/ Unused')
    BY <1>d, <2>2
    DEF Opened, Used, Closed, HasIt, Busy, Ready, Unused, Buffered, Sized, Empty, InSetup
  <2>. QED  BY <1>b, <1>e, <2>2, <2>3, BusyStep
<1>2. CASE OpenCount(o) \/ OpenHand(o) \/ OpenClear(o)
  <2>1. PICK from \in Points, to \in {"hand", "clear", "handimage", "try_fmt"} :
          Goto(o, from, to)
    BY <1>2 DEF OpenCount, OpenHand, OpenClear, Points
  <2>2. UNCHANGED <<format, memory>>
    BY <1>2 DEF OpenCount, OpenHand, OpenClear
  <2>3. call[o] = "open"
    BY <1>2 DEF OpenCheck, OpenCount, OpenHand, OpenClear, Goto, Call
  <2>4. pc'[o] = to /\ call'[o] = "open"
    <3>1. to \in Points
      BY DEF Points
    <3>. QED  BY <1>a, <2>1, <2>3, <3>1, GotoFacts
  <2>5. Opened(o)' /\ Used(o)' /\ Closed(o)' /\ (Ready' \/ Unused')
    BY <1>d, <2>2, <2>4
    DEF Opened, Used, Closed, HasIt, Busy, Ready, Unused, Buffered, Sized, Empty, InSetup
  <2>. QED  BY <1>b, <1>e, <2>2, <2>5, BusyStep
<1>3. CASE OpenImage(o)
  <2>1. call[o] = "open"
    BY <1>3 DEF OpenCheck, OpenImage, ImageTest, ImageAllocate, Goto, Call
  <2>2. CASE ImageTest(o, "handimage", "handvzalloc", "try_fmt", "closed")
    <3>1. PICK to \in {"handvzalloc", "try_fmt", "closed"} :
            Goto(o, "handimage", to) /\ (to = "handvzalloc" => buffer_size # 0)
      BY <2>2 DEF ImageTest
    <3>2. to \in Points
      BY DEF Points
    <3>3. pc'[o] = to /\ call'[o] = IF to = "closed" THEN "none" ELSE "open"
      BY <1>a, <2>1, <3>1, <3>2, GotoFacts
    <3>4. UNCHANGED <<count, format, memory>>
            /\ (to = "handvzalloc" => local'[o] = buffer_size)
      BY <1>a, <2>2, <3>3 DEF ImageTest, Types
    <3>5. Opened(o)' /\ Used(o)' /\ Closed(o)' /\ (Ready' \/ Unused')
      BY <1>d, <3>1, <3>3, <3>4
      DEF Opened, Used, Closed, HasIt, Busy, Ready, Unused, Buffered, Sized, Empty, InSetup
    <3>. QED  BY <1>b, <1>e, <3>4, <3>5, BusyStep
  <2>3. CASE ImageAllocate(o, "handvzalloc", "try_fmt", "closed")
    <3>1. ready_for_capture = 1 /\ local[o] = buffer_size
      BY <1>a, <2>1, <2>3 DEF ImageAllocate, Goto, Opened
    <3>2. Ready
      BY <1>d, <3>1 DEF Unused
    <3>3. /\ timeout_image' = buffer_size /\ timeout_image' # NULL
          /\ dangling' = dangling /\ damage' \subseteq damage \union {"timeout"}
          /\ UNCHANGED <<count, format, image, imagesize, controls, timers>>
      BY <1>a, <2>3, <3>1, <3>2, CalmTimeoutImage DEF Ready
    <3>4. Goto(o, "handvzalloc", "try_fmt") /\ "try_fmt" \in Points
      BY <2>3, <3>3 DEF ImageAllocate, Points
    <3>5. pc'[o] = "try_fmt" /\ call'[o] = "open"
      BY <1>a, <2>1, <3>4, GotoFacts
    <3>6. Opened(o)' /\ Used(o)' /\ Closed(o)' /\ Ready'
      BY <3>2, <3>3, <3>5
      DEF Opened, Used, Closed, HasIt, Busy, Ready, Buffered, Sized, InSetup
    <3>. QED  BY <1>b, <1>e, <3>3, <3>6, BusyStep
  <2>. QED  BY <1>3, <2>2, <2>3 DEF OpenImage
<1>4. CASE try_fmt_out(o)
  <2>1. call[o] = "open"
    BY <1>4 DEF OpenCheck, try_fmt_out, Goto, Call
  <2>2. PICK to \in {"size", "store"} :
          /\ Goto(o, "try_fmt", to)
          /\ to = "size" => ready_for_capture = 1
          /\ to = "store" => ready_for_capture = 0
    BY <1>a, <1>4, <2>1 DEF try_fmt_out, AfterTry, Types
  <2>3. to \in Points
    BY DEF Points
  <2>4. pc'[o] = to /\ call'[o] = "open" /\ UNCHANGED <<count, format, memory>>
    BY <1>a, <1>4, <2>1, <2>2, <2>3, GotoFacts DEF try_fmt_out
  <2>5. Opened(o)' /\ Used(o)' /\ Closed(o)' /\ (Ready' \/ Unused')
    BY <1>d, <2>2, <2>4
    DEF Opened, Used, Closed, HasIt, Busy, Ready, Unused, Buffered, Sized, Empty, InSetup
  <2>. QED  BY <1>b, <1>e, <2>4, <2>5, BusyStep
<1>5. CASE TryStore(o)
  <2>1. call[o] = "open" /\ ready_for_capture = 0
    BY <1>a, <1>5 DEF OpenCheck, TryStore, Goto, Call, Opened
  <2>2. Goto(o, "store", "size") /\ "size" \in Points
    BY <1>5, <2>1 DEF TryStore, AfterTry, Points
  <2>3. pc'[o] = "size" /\ call'[o] = "open" /\ pix_format' \in Formats
          /\ UNCHANGED <<count, ready_for_capture, buffer_size, memory>>
    BY <1>a, <1>5, <2>1, <2>2, GotoFacts, FormatAssumption DEF TryStore
  <2>4. Unused /\ Unused'
    BY <1>d, <2>1, <2>3 DEF Ready, Unused, Empty
  <2>5. Opened(o)' /\ Used(o)' /\ Closed(o)'
    BY <2>1, <2>3 DEF Opened, Used, Closed, HasIt, Busy, InSetup
  <2>. QED  BY <1>b, <1>e, <2>3, <2>4, <2>5, BusyStep
<1>6. CASE SFmtTest(o)
  <2>1. call[o] = "open"
    BY <1>6 DEF OpenCheck, SFmtTest, Goto, Call
  <2>2. PICK to \in {"ready", "setsize"} :
          /\ Goto(o, "size", to)
          /\ to = "ready" => ready_for_capture = 1
          /\ to = "setsize" => ready_for_capture = 0
    BY <1>a, <1>6, <2>1 DEF SFmtTest, AfterAllocate, Types
  <2>3. to \in Points
    BY DEF Points
  <2>4. pc'[o] = to /\ call'[o] = "open" /\ UNCHANGED <<count, format, memory>>
    BY <1>a, <1>6, <2>1, <2>2, <2>3, GotoFacts DEF SFmtTest
  <2>5. Used(o)' /\ Closed(o)' /\ (Ready' \/ Unused')
    BY <1>d, <2>4
    DEF Used, Closed, HasIt, Busy, Ready, Unused, Buffered, Sized, Empty
  <2>6. pix_format \in Formats
    BY <1>a, <2>1, <2>2 DEF Goto, Opened
  <2>7. Opened(o)'
    BY <2>2, <2>4, <2>5, <2>6 DEF Opened, Ready, Unused, InSetup
  <2>. QED  BY <1>b, <1>e, <2>4, <2>5, <2>7, BusyStep
<1>7. CASE SFmtSize(o)
  <2>1. call[o] = "open" /\ ready_for_capture = 0 /\ pix_format \in Formats
    BY <1>a, <1>7 DEF OpenCheck, SFmtSize, Goto, Call, Opened
  <2>2. Unused
    BY <1>d, <2>1 DEF Ready
  <2>3. Goto(o, "setsize", "alloc") /\ "alloc" \in Points
    BY <1>7 DEF SFmtSize, Points
  <2>4. pc'[o] = "alloc" /\ call'[o] = "open"
    BY <1>a, <2>1, <2>3, GotoFacts
  <2>5. UNCHANGED <<count, ready_for_capture, memory>> /\ Sized'
    BY <1>7, <2>1, FormatAssumption DEF SFmtSize, Sized
  <2>6. Empty'
    BY <2>2, <2>5 DEF Unused, Empty
  <2>7. Opened(o)' /\ Used(o)' /\ Closed(o)' /\ Between(o)'
    BY <2>1, <2>4, <2>5, <2>6
    DEF Opened, Used, Closed, HasIt, Busy, InSetup, Between
  <2>. QED  BY <1>b, <1>e, <2>1, <2>5, <2>7, BusyStep
<1>. QED  BY <1>1, <1>2, <1>3, <1>4, <1>5, <1>6, <1>7

\* open(), from the allocation on.
LEMMA CalmSetup ==
  ASSUME Inv, Types', load = "calm", NEW o \in Openers, Others(o), call[o] = "open",
         Allocation(o) \/ SetReady(o)
  PROVE  Calm'
<1>. USE DEF count, format, memory, controls, timers
<1>a. Types /\ Place(o) /\ Calm /\ Opened(o)
  BY DEF Inv, Places, Calm
<1>b. Busy(o)
  BY DEF Busy
<1>c. "image" \notin damage
  BY <1>a DEF Calm
<1>d. ASSUME call'[o] = "open"  PROVE Used(o)' /\ Closed(o)'
  BY <1>d DEF Used, Closed, HasIt, Busy
<1>1. CASE AllocateTest(o)
  <2>1. pc[o] = "alloc"
    BY <1>1 DEF AllocateTest, Goto
  <2>2. Sized /\ Empty /\ ready_for_capture = 0 /\ buffer_size # 0
    BY <1>a, <2>1, FormatAssumption DEF Opened, Sized, InSetup
  <2>3. Goto(o, "alloc", "imagesize") /\ "imagesize" \in Points
    BY <1>1, <2>2 DEF AllocateTest, Empty, Points
  <2>4. pc'[o] = "imagesize" /\ call'[o] = "open" /\ UNCHANGED <<count, format, memory>>
    BY <1>a, <1>1, <2>3, GotoFacts DEF AllocateTest
  <2>5. Opened(o)' /\ Between(o)'
    BY <2>2, <2>4 DEF Opened, Sized, Empty, InSetup, Between
  <2>. QED  BY <1>b, <1>c, <1>d, <2>4, <2>5, BusyStep
<1>2. CASE AllocateSize(o)
  <2>1. pc[o] = "imagesize"
    BY <1>2 DEF AllocateSize, Goto
  <2>2. Sized /\ Empty /\ ready_for_capture = 0
    BY <1>a, <2>1 DEF Opened, InSetup
  <2>3. Goto(o, "imagesize", "vmalloc") /\ "vmalloc" \in Points
    BY <1>2 DEF AllocateSize, Points
  <2>4. /\ pc'[o] = "vmalloc" /\ call'[o] = "open"
        /\ imagesize' = buffer_size /\ local'[o] = buffer_size
        /\ UNCHANGED <<count, format, image, timeout_image, dangling, damage>>
    BY <1>a, <1>2, <2>3, GotoFacts DEF AllocateSize, Types
  <2>5. Opened(o)' /\ Between(o)'
    BY <2>2, <2>4 DEF Opened, Sized, Empty, InSetup, Between
  <2>. QED  BY <1>b, <1>c, <1>d, <2>4, <2>5, BusyStep
<1>3. CASE AllocateImage(o)
  <2>1. pc[o] = "vmalloc"
    BY <1>3 DEF AllocateImage, Goto
  <2>2. Sized /\ Empty /\ ready_for_capture = 0 /\ imagesize = buffer_size
          /\ local[o] = buffer_size
    BY <1>a, <2>1 DEF Opened, InSetup
  <2>3. Goto(o, "vmalloc", "jiffies") /\ "jiffies" \in Points
    BY <1>3 DEF AllocateImage, Points
  <2>4. /\ pc'[o] = "jiffies" /\ call'[o] = "open" /\ image' = buffer_size
        /\ UNCHANGED <<count, format, imagesize, timeout_image>>
    BY <1>a, <1>3, <2>2, <2>3, GotoFacts DEF AllocateImage, Got
  <2>5. damage' = damage /\ dangling' = {}
    BY <1>3, <2>2 DEF AllocateImage, Overwrite, Empty
  <2>6. Opened(o)' /\ Between(o)'
    BY <2>2, <2>4, <2>5 DEF Opened, Sized, Empty, Buffered, InSetup, Between
  <2>. QED  BY <1>b, <1>c, <1>d, <2>4, <2>5, <2>6, BusyStep
<1>4. CASE AllocateTimeout(o)
  <2>1. pc[o] = "jiffies"
    BY <1>4 DEF AllocateTimeout, Goto
  <2>2. Buffered /\ ready_for_capture = 0
    BY <1>a, <2>1 DEF Opened, InSetup
  <2>3. PICK to \in {"image", "check"} : Goto(o, "jiffies", to)
    BY <1>4 DEF AllocateTimeout
  <2>4. to \in Points
    BY DEF Points
  <2>5. pc'[o] = to /\ call'[o] = "open" /\ UNCHANGED <<count, format, memory>>
    BY <1>a, <1>4, <2>3, <2>4, GotoFacts DEF AllocateTimeout
  <2>6. Opened(o)' /\ Between(o)'
    BY <2>2, <2>5 DEF Opened, Sized, Buffered, InSetup, Between
  <2>. QED  BY <1>b, <1>c, <1>d, <2>5, <2>6, BusyStep
<1>5. CASE TimeoutImage(o)
  <2>. DEFINE next == IF call[o] = "timeout" THEN "open" ELSE "check"
  <2>1. next = "check" /\ "vzalloc" \in Points /\ "check" \in Points
    BY DEF Points
  <2>2. CASE ImageTest(o, "image", "vzalloc", next, next)
    <3>1. Buffered /\ ready_for_capture = 0
      BY <1>a, <2>2 DEF ImageTest, Goto, Opened, InSetup
    <3>2. PICK to \in {"vzalloc", "check"} : Goto(o, "image", to)
      BY <2>1, <2>2 DEF ImageTest
    <3>3. pc'[o] = to /\ call'[o] = "open"
      BY <1>a, <2>1, <3>2, GotoFacts
    <3>4. UNCHANGED <<count, format, memory>> /\ (to = "vzalloc" => local'[o] = buffer_size)
      BY <1>a, <2>2, <3>3 DEF ImageTest, Types
    <3>5. Opened(o)' /\ Between(o)'
      BY <3>1, <3>3, <3>4 DEF Opened, Sized, Buffered, InSetup, Between
    <3>. QED  BY <1>b, <1>c, <1>d, <3>3, <3>4, <3>5, BusyStep
  <2>3. CASE ImageAllocate(o, "vzalloc", next, next)
    <3>1. Buffered /\ ready_for_capture = 0 /\ local[o] = buffer_size
      BY <1>a, <2>3 DEF ImageAllocate, Goto, Opened, InSetup
    <3>2. /\ timeout_image' = buffer_size /\ timeout_image' # NULL
          /\ dangling' = dangling /\ damage' \subseteq damage \union {"timeout"}
          /\ UNCHANGED <<count, format, image, imagesize, controls, timers>>
      BY <1>a, <2>3, <3>1, CalmTimeoutImage
    <3>3. Goto(o, "vzalloc", "check")
      BY <2>1, <2>3 DEF ImageAllocate
    <3>4. pc'[o] = "check" /\ call'[o] = "open"
      BY <1>a, <2>1, <3>3, GotoFacts
    <3>5. Opened(o)' /\ Between(o)'
      BY <3>1, <3>2, <3>4 DEF Opened, Sized, Buffered, InSetup, Between
    <3>. QED  BY <1>b, <1>c, <1>d, <3>2, <3>4, <3>5, BusyStep
  <2>. QED  BY <1>5, <2>2, <2>3 DEF TimeoutImage
<1>6. CASE AllocateCheck(o)
  <2>1. pc[o] = "check"
    BY <1>6 DEF AllocateCheck, Goto
  <2>2. Buffered /\ ready_for_capture = 0
    BY <1>a, <2>1 DEF Opened, InSetup
  <2>3. Goto(o, "check", "ready") /\ "ready" \in Points
    BY <1>6 DEF AllocateCheck, AfterAllocate, Points
  <2>4. pc'[o] = "ready" /\ call'[o] = "open" /\ UNCHANGED <<count, format, memory>>
    BY <1>a, <1>6, <2>3, GotoFacts DEF AllocateCheck
  <2>5. Opened(o)' /\ Between(o)'
    BY <2>2, <2>4 DEF Opened, Sized, Buffered, InSetup, Between
  <2>. QED  BY <1>b, <1>c, <1>d, <2>4, <2>5, BusyStep
<1>7. CASE SetReady(o)
  <2>1. pc[o] = "ready"
    BY <1>7 DEF SetReady, Goto
  <2>2. Buffered
    BY <1>a, <2>1 DEF Opened, InSetup
  <2>3. Goto(o, "ready", "open") /\ "open" \in Points
    BY <1>7 DEF SetReady, Points
  <2>4. /\ pc'[o] = "open" /\ call'[o] = "none" /\ ready_for_capture' = 1
        /\ UNCHANGED <<count, pix_format, buffer_size, memory>>
    BY <1>a, <1>7, <2>3, GotoFacts DEF SetReady
  <2>5. Opened(o)' /\ Used(o)' /\ Closed(o)' /\ Ready'
    BY <2>2, <2>4 DEF Opened, Used, Closed, HasIt, Busy, Ready, Buffered, Sized
  <2>. QED  BY <1>b, <1>c, <2>4, <2>5, BusyStep
<1>8. ~Free(o) /\ ~Unset(o) /\ ~Freed(o)
  BY <1>a DEF Free, Unset, Freed, Goto, Opened, InSetup
<1>. QED  BY <1>1, <1>2, <1>3, <1>4, <1>5, <1>6, <1>7, <1>8 DEF Allocation

\* close().
LEMMA CalmClose ==
  ASSUME Inv, Types', load = "calm", NEW o \in Openers, Others(o),
         call[o] = "close" \/ CloseCount(o), Allocation(o) \/ OpenClose(o)
  PROVE  Calm'
<1>. USE DEF count, format, memory, controls, timers
<1>a. Types /\ Place(o) /\ Calm /\ Closed(o)
  BY DEF Inv, Places, Calm
<1>b. Busy(o) \/ Alone
  BY DEF Busy, CloseCount
<1>c. "image" \notin damage
  BY <1>a DEF Calm
<1>d. ASSUME call'[o] = "close"  PROVE Used(o)' /\ Opened(o)'
  BY <1>d DEF Used, Opened, HasIt, Busy
<1>e. ASSUME call'[o] = "none", pc'[o] = "closed"  PROVE Used(o)' /\ Opened(o)' /\ Closed(o)'
  BY <1>e DEF Used, Opened, Closed, HasIt
<1>1. CASE CloseCount(o)
  <2>1. "timers" \in Points /\ "close" \in Calls
    BY DEF Points, Calls
  <2>2. /\ pc[o] = "open" /\ pc'[o] = "timers" /\ call'[o] = "close"
        /\ UNCHANGED <<format, memory, controls>>
    BY <1>a, <1>1, <2>1, CallFacts DEF CloseCount
  <2>3. HasIt(o)
    BY <1>a, <2>2 DEF HasIt, Busy, Place
  <2>4. Ready
    BY <2>3, CalmInUse
  <2>5. Closed(o)' /\ Ready'
    BY <2>2, <2>4 DEF Closed, InFree, Ready, Buffered, Sized
  <2>. QED  BY <1>b, <1>c, <1>d, <2>2, <2>5, BusyStep
<1>2. CASE call[o] = "close" /\ (CloseLast(o) \/ CloseTimers(o) \/ CloseTest(o))
  <2>1. PICK from \in {"timers", "sustain", "timeout", "test"},
             to \in {"sustain", "timeout", "test", "free", "closed"} :
          /\ Goto(o, from, to)
          /\ to = "free" => open_count = 0 /\ keep_format = 0
    BY <1>2 DEF CloseLast, CloseTimers, CloseTest
  <2>2. UNCHANGED <<count, format, memory, controls>>
    BY <1>2 DEF CloseLast, CloseTimers, CloseTest
  <2>3. to \in Points
    BY DEF Points
  <2>4. pc[o] = from /\ pc'[o] = to /\ call'[o] = IF to = "closed" THEN "none" ELSE "close"
    BY <1>a, <1>2, <2>1, <2>3, GotoFacts
  <2>5. Ready \/ Unused
    BY <1>2, <2>4, ReadyOrUnused DEF Busy, Between, InFree
  <2>6. Ready' \/ Unused'
    BY <2>2, <2>5 DEF Ready, Unused, Buffered, Sized, Empty
  <2>7. Closed(o)'
    BY <1>a, <1>2, <2>1, <2>2, <2>4 DEF Closed, InFree
  <2>. QED  BY <1>b, <1>c, <1>d, <1>e, <2>2, <2>4, <2>6, <2>7, BusyStep
<1>3. CASE call[o] = "close" /\ Free(o)
  <2>1. PICK from \in {"free", "free2"}, to \in {"unset", "free2", "unset2", "freed"} :
          /\ Goto(o, from, to)
          /\ \/ from = "free" /\ to = "unset" /\ vfree("image")
             \/ /\ from = "free" /\ to = "free2" /\ image = NULL
                /\ UNCHANGED <<dangling, damage>>
             \/ from = "free2" /\ to = "unset2" /\ vfree("timeout")
             \/ /\ from = "free2" /\ to = "freed" /\ timeout_image = NULL
                /\ UNCHANGED <<dangling, damage>>
    BY <1>3 DEF Free
  <2>2. UNCHANGED <<count, format, image, imagesize, timeout_image, controls>>
    BY <1>3 DEF Free
  <2>3. to \in Points
    BY DEF Points
  <2>4. pc[o] = from /\ pc'[o] = to /\ call'[o] = "close"
    BY <1>a, <1>3, <2>1, <2>3, GotoFacts
  <2>5. dangling = {} /\ open_count = 0 /\ keep_format = 0 /\ ready_for_capture = 1
    <3>1. from = "free" => Ready
      BY <1>a, <1>3, <2>4, ReadyOrUnused DEF Busy, Between, InFree, Closed, Unused
    <3>. QED  BY <1>a, <1>3, <2>1, <2>4, <3>1 DEF Closed, InFree, Ready, Buffered
  <2>6. damage' = damage /\ (to = "unset" => dangling' = {"image"})
          /\ (to = "unset2" => dangling' = {"timeout"})
          /\ (to \in {"free2", "freed"} => dangling' = {})
    BY <2>1, <2>5 DEF vfree
  <2>7. to \in {"free2", "unset2", "freed"} => image' = NULL
    BY <1>a, <1>3, <2>1, <2>2, <2>4 DEF Closed
  <2>8. Closed(o)' /\ Between(o)'
    BY <2>1, <2>2, <2>4, <2>5, <2>6, <2>7 DEF Closed, InFree, Between
  <2>. QED  BY <1>b, <1>c, <1>d, <2>2, <2>4, <2>6, <2>8, BusyStep
<1>4. CASE call[o] = "close" /\ Unset(o)
  <2>1. PICK from \in {"unset", "unset2"}, to \in {"free2", "freed"} :
          /\ Goto(o, from, to)
          /\ \/ /\ from = "unset" /\ to = "free2"
                /\ image' = NULL /\ Overwrite("image", image)
             \/ /\ from = "unset2" /\ to = "freed" /\ image' = image
                /\ timeout_image' = NULL /\ Overwrite("timeout", timeout_image)
    BY <1>4 DEF Unset
  <2>2. UNCHANGED <<count, format, imagesize, controls>>
    BY <1>4 DEF Unset
  <2>3. to \in Points
    BY DEF Points
  <2>4. pc[o] = from /\ pc'[o] = to /\ call'[o] = "close"
    BY <1>a, <1>4, <2>1, <2>3, GotoFacts
  <2>5. /\ open_count = 0 /\ keep_format = 0 /\ ready_for_capture = 1
        /\ dangling = IF from = "unset" THEN {"image"} ELSE {"timeout"}
        /\ from = "unset2" => image = NULL
    BY <1>a, <1>4, <2>4 DEF Closed, InFree
  <2>6. damage' = damage /\ dangling' = {}
    BY <2>1, <2>5 DEF Overwrite
  <2>7. Closed(o)' /\ Between(o)'
    BY <2>1, <2>2, <2>4, <2>5, <2>6 DEF Closed, InFree, Between
  <2>. QED  BY <1>b, <1>c, <1>d, <2>2, <2>4, <2>6, <2>7, BusyStep
<1>5. CASE call[o] = "close" /\ Freed(o)
  <2>1. Goto(o, "freed", "unready") /\ "unready" \in Points
    BY <1>5 DEF Freed, Points
  <2>2. UNCHANGED <<count, format, image, timeout_image, dangling, damage, controls>>
    BY <1>5 DEF Freed
  <2>3. pc[o] = "freed" /\ pc'[o] = "unready" /\ call'[o] = "close"
    BY <1>a, <1>5, <2>1, GotoFacts
  <2>4. Closed(o)' /\ Between(o)'
    BY <1>a, <1>5, <2>2, <2>3 DEF Closed, InFree, Between
  <2>. QED  BY <1>b, <1>c, <1>d, <2>2, <2>3, <2>4, BusyStep
<1>6. CASE call[o] = "close" /\ CloseFree(o)
  <2>1. PICK from \in {"unready", "unsize"}, to \in {"unsize", "closed"} :
          /\ Goto(o, from, to)
          /\ \/ from = "unready" /\ to = "unsize" /\ ready_for_capture' = 0
             \/ /\ from = "unsize" /\ to = "closed" /\ buffer_size' = 0
                /\ UNCHANGED ready_for_capture
    BY <1>6 DEF CloseFree
  <2>2. UNCHANGED <<count, pix_format, memory, controls>>
    BY <1>6 DEF CloseFree
  <2>3. to \in Points
    BY DEF Points
  <2>4. pc[o] = from /\ pc'[o] = to /\ call'[o] = IF to = "closed" THEN "none" ELSE "close"
    BY <1>a, <1>6, <2>1, <2>3, GotoFacts
  <2>5. /\ open_count = 0 /\ keep_format = 0 /\ dangling = {}
        /\ image = NULL /\ timeout_image = NULL
        /\ from = "unsize" => ready_for_capture = 0
    BY <1>a, <1>6, <2>4 DEF Closed, InFree
  <2>6. CASE from = "unready"
    <3>1. Closed(o)' /\ Between(o)'
      BY <2>1, <2>2, <2>4, <2>5, <2>6 DEF Closed, InFree, Between
    <3>. QED  BY <1>b, <1>c, <1>d, <2>1, <2>2, <2>4, <2>5, <2>6, <3>1, BusyStep
  <2>7. CASE from = "unsize"
    <3>1. Unused'
      BY <2>1, <2>2, <2>5, <2>7 DEF Unused, Empty
    <3>. QED  BY <1>b, <1>c, <1>e, <2>1, <2>2, <2>4, <2>5, <2>7, <3>1, BusyStep
  <2>. QED  BY <2>6, <2>7
<1>7. CASE call[o] = "close" /\ Allocation(o) /\ ~Free(o) /\ ~Unset(o) /\ ~Freed(o)
  BY <1>a, <1>7
  DEF Allocation, AllocateTest, AllocateSize, AllocateImage, AllocateTimeout,
      AllocateCheck, TimeoutImage, ImageTest, ImageAllocate, Goto, Place, Allocating
<1>8. CASE /\ call[o] = "close" /\ OpenClose(o) /\ ~CloseCount(o)
           /\ ~CloseLast(o) /\ ~CloseTimers(o) /\ ~CloseTest(o) /\ ~CloseFree(o)
  BY <1>a, <1>8
  DEF OpenClose, OpenCheck, OpenCount, OpenHand, OpenClear, OpenImage, ImageTest,
      ImageAllocate, try_fmt_out, TryStore, SFmtTest, SFmtSize, SetReady, Goto, Call, Place
<1>. QED
  BY <1>1, <1>2, <1>3, <1>4, <1>5, <1>6, <1>7, <1>8

\* The calls on an open file.
LEMMA CalmUse ==
  ASSUME Inv, Types', Places', load = "calm", NEW o \in Openers, Others(o), HasIt(o),
         ~CloseCount(o),
         Allocation(o) \/ OpenClose(o) \/ Use(o) \/ Control(o)
  PROVE  Calm'
<1>. USE DEF count, format, memory, controls, timers
<1>a. Types /\ Place(o) /\ Used(o) /\ HasIt(o)
  BY DEF Inv, Places, Calm
<1>b. Ready /\ image # NULL /\ open_count # 0 /\ ready_for_capture = 1
  BY CalmInUse DEF Ready
<1>c. pc[o] \in {"open", "copy", "try_fmt", "size", "written", "image", "vzalloc", "test"}
  BY <1>a DEF Used
<1>d. ASSUME UNCHANGED <<open_count, format, memory>>,
             pc'[o] \in {"open", "copy", "try_fmt", "size", "written", "test"},
             call'[o] \notin {"open", "close"}
      PROVE  Calm'
  <2>1. HasIt(o)'
    BY <1>d DEF HasIt, Busy
  <2>2. Used(o)'
    BY <1>b, <1>d DEF Used
  <2>. QED  BY <1>a, <1>d, <2>1, <2>2, UseStep
<1>1. CASE Allocation(o)
  <2>1. call[o] = "timeout" /\ TimeoutImage(o)
    BY <1>a, <1>c, <1>1
    DEF Used, Allocation, AllocateTest, AllocateSize, AllocateImage, AllocateTimeout,
        AllocateCheck, TimeoutImage, ImageTest, ImageAllocate, Free, Unset, Freed, Goto
  <2>2. "vzalloc" \in Points /\ "open" \in Points
    BY DEF Points
  <2>3. CASE ImageTest(o, "image", "vzalloc", "open", "open")
    <3>1. PICK to \in {"vzalloc", "open"} : Goto(o, "image", to)
      BY <2>3 DEF ImageTest
    <3>2. pc'[o] = to /\ call'[o] = IF to = "open" THEN "none" ELSE "timeout"
      BY <1>a, <2>1, <2>2, <3>1, GotoFacts
    <3>3. UNCHANGED <<count, format, memory>> /\ (to = "vzalloc" => local'[o] = buffer_size)
      BY <1>a, <2>3, <3>2 DEF ImageTest, Types
    <3>4. HasIt(o)' /\ Used(o)'
      BY <1>b, <3>2, <3>3 DEF HasIt, Busy, Used
    <3>. QED  BY <1>a, <3>3, <3>4, UseStep
  <2>4. CASE ImageAllocate(o, "vzalloc", "open", "open")
    <3>1. local[o] = buffer_size
      BY <1>a, <2>4 DEF ImageAllocate, Goto, Used
    <3>2. /\ timeout_image' = buffer_size
          /\ dangling' = dangling /\ damage' \subseteq damage \union {"timeout"}
          /\ UNCHANGED <<count, format, image, imagesize, controls, timers>>
      BY <1>a, <1>b, <2>4, <3>1, CalmTimeoutImage DEF Ready
    <3>3. Goto(o, "vzalloc", "open")
      BY <2>4 DEF ImageAllocate
    <3>4. pc'[o] = "open" /\ call'[o] = "none"
      BY <1>a, <2>2, <3>3, GotoFacts
    <3>5. HasIt(o)' /\ Used(o)'
      BY <1>b, <3>2, <3>4 DEF HasIt, Busy, Used
    <3>. QED  BY <1>a, <3>2, <3>5, UseStep
  <2>. QED  BY <2>1, <2>3, <2>4 DEF TimeoutImage
<1>2. CASE OpenClose(o)
  <2>1. try_fmt_out(o) \/ SFmtTest(o) \/ CloseTest(o)
    BY <1>a, <1>c, <1>2
    DEF HasIt, OpenClose, OpenCheck, OpenCount, OpenHand, OpenClear, OpenImage, ImageTest,
        ImageAllocate, TryStore, SFmtSize, SetReady, CloseLast, CloseTimers, CloseFree,
        Goto, Call
  <2>2. PICK from \in Points, to \in {"open", "size"} : Goto(o, from, to)
    <3>1. CASE try_fmt_out(o)
      BY <1>b, <3>1 DEF try_fmt_out, AfterTry, Points
    <3>2. CASE SFmtTest(o)
      <4>1. call[o] = "s_fmt"
        BY <1>a, <3>2 DEF SFmtTest, Goto, Place, HasIt, Busy
      <4>. QED  BY <1>b, <3>2, <4>1 DEF SFmtTest, AfterAllocate, Points
    <3>3. CASE CloseTest(o)
      BY <1>a, <1>b, <3>3 DEF CloseTest, HasIt, Busy, Points
    <3>. QED  BY <2>1, <3>1, <3>2, <3>3
  <2>3. to \in Points
    BY DEF Points
  <2>4. pc'[o] = to /\ call'[o] \in {"none", call[o]}
    BY <1>a, <2>2, <2>3, GotoFacts
  <2>5. UNCHANGED <<count, format, memory>>
    BY <2>1 DEF try_fmt_out, SFmtTest, CloseTest
  <2>. QED  BY <1>a, <1>d, <2>4, <2>5 DEF HasIt, Busy
<1>3. CASE Use(o)
  <2>1. UNCHANGED <<count, format, memory>>
    BY <1>3 DEF Use, SetFormat, StreamonOutput, Write, Written, Mmap, GetCaptureBuffer,
                CopyTimeoutImage
  <2>2. CASE SetFormat(o) \/ Write(o)
    <3>1. PICK which \in {"try_fmt", "s_fmt", "write"}, to \in {"try_fmt", "written"} :
            Call(o, "open", which, to)
      BY <1>b, <2>2 DEF SetFormat, Write
    <3>2. which \in Calls /\ to \in Points
      BY DEF Calls, Points
    <3>3. pc'[o] = to /\ call'[o] = which
      BY <1>a, <3>1, <3>2, CallFacts
    <3>. QED  BY <1>d, <2>1, <3>3
  <2>3. CASE Written(o) \/ GetCaptureBuffer(o) \/ CopyTimeoutImage(o)
    <3>1. PICK from \in Points, to \in {"open", "copy"} : Goto(o, from, to)
      BY <2>3 DEF Written, GetCaptureBuffer, CopyTimeoutImage, Points
    <3>2. to \in Points
      BY DEF Points
    <3>3. pc'[o] = to /\ call'[o] \in {"none", call[o]}
      BY <1>a, <3>1, <3>2, GotoFacts
    <3>. QED  BY <1>a, <1>d, <2>1, <3>3 DEF HasIt, Busy
  <2>. QED  BY <1>b, <1>3, <2>2, <2>3 DEF Use, StreamonOutput, Mmap
<1>4. CASE Control(o)
  <2>1. PICK value \in {0, 1} : SetKeepFormat(o, value) \/ SetSustain(o, value)
                                \/ SetTimeout(o, value) \/ SetTimeoutImageIo(o, value)
    BY <1>4 DEF Control
  <2>2. UNCHANGED <<count, format, memory>>
    BY <2>1 DEF SetKeepFormat, SetSustain, SetTimeout, SetTimeoutImageIo
  <2>3. CASE SetKeepFormat(o, value)
    <3>1. "test" \in Points /\ "keep_format" \in Calls
      BY DEF Points, Calls
    <3>2. pc'[o] = "test" /\ call'[o] = "keep_format"
      BY <1>a, <2>3, <3>1, CallFacts DEF SetKeepFormat
    <3>. QED  BY <1>d, <2>2, <3>2
  <2>4. CASE SetSustain(o, value) \/ SetTimeoutImageIo(o, value)
    <3>1. pc'[o] = "open" /\ call'[o] = call[o]
      BY <2>4 DEF SetSustain, SetTimeoutImageIo, process
    <3>. QED  BY <1>a, <1>d, <2>2, <3>1 DEF HasIt, Busy
  <2>5. CASE SetTimeout(o, value)
    <3>1. "image" \in Points /\ "timeout" \in Calls
      BY DEF Points, Calls
    <3>2. pc'[o] = "image" /\ call'[o] = "timeout"
      BY <1>a, <2>5, <3>1, CallFacts DEF SetTimeout
    <3>3. HasIt(o)' /\ Used(o)'
      BY <1>b, <2>2, <3>2 DEF HasIt, Busy, Used
    <3>. QED  BY <1>a, <2>2, <3>3, UseStep
  <2>. QED  BY <2>1, <2>3, <2>4, <2>5
<1>. QED  BY <1>1, <1>2, <1>3, <1>4

-----------------------------------------------------------------------------
(* Every step keeps the invariant.                                         *)

\* Before anybody opens the device, there is nothing.
LEMMA InitInv ==
  ASSUME Init
  PROVE  Inv
<1>1. Types
  <2>1. "none" \in Calls /\ "closed" \in Points
    BY DEF Calls, Points
  <2>. QED  BY <2>1, LimitsAssumption DEF Init, Types, NULL
<1>2. Places
  BY DEF Init, Places, Place
<1>3. CountEnough
  <2>1. Counted = {}
    BY DEF Init, Counted, IsCounted
  <2>. QED  BY <2>1, FS_EmptySet DEF Init, CountEnough
<1>4. LastCloses
  BY DEF Init, LastCloses, NULL
<1>5. Calm
  BY DEF Init, Calm, OneBusy, Busy, Opened, Used, HasIt, Closed, Unused, Empty, NULL
<1>. QED  BY <1>1, <1>2, <1>3, <1>4, <1>5 DEF Inv

\* What a process does in a calm behaviour.
LEMMA CalmStep ==
  ASSUME Inv, Types', Places', load = "calm", NEW o \in Openers, Others(o),
         OpenClose(o) \/ Allocation(o) \/ Use(o) \/ Control(o)
  PROVE  Calm'
<1>a. Place(o)
  BY DEF Inv, Places
<1>1. CASE OpenCheck(o)
  BY <1>1, CalmOpen
<1>2. CASE CloseCount(o)
  BY <1>2, CalmClose DEF OpenClose
<1>3. CASE call[o] \in {"open", "close"}
  <2>1. ~Use(o) /\ ~Control(o)
    BY <1>a, <1>3
    DEF Use, SetFormat, StreamonOutput, Write, Written, Mmap, GetCaptureBuffer,
        CopyTimeoutImage, Control, SetKeepFormat, SetSustain, SetTimeout,
        SetTimeoutImageIo, Goto, Call, Place
  <2>2. CASE call[o] = "close"
    BY <2>1, <2>2, CalmClose
  <2>3. CASE call[o] = "open" /\ (Allocation(o) \/ SetReady(o))
    BY <2>3, CalmSetup
  <2>4. CASE call[o] = "open" /\ OpenClose(o) /\ ~SetReady(o)
    <3>1. ~CloseCount(o) /\ ~CloseLast(o) /\ ~CloseTimers(o) /\ ~CloseTest(o) /\ ~CloseFree(o)
      BY <1>a, <2>4
      DEF CloseCount, CloseLast, CloseTimers, CloseTest, CloseFree, Goto, Call, Place
    <3>. QED  BY <2>4, <3>1, CalmOpen DEF OpenClose
  <2>. QED  BY <1>3, <2>1, <2>2, <2>3, <2>4
<1>4. CASE call[o] \notin {"open", "close"} /\ ~OpenCheck(o) /\ ~CloseCount(o)
  <2>1. pc[o] # "closed"
    BY <1>4
    DEF OpenClose, OpenCheck, OpenCount, OpenHand, OpenClear, OpenImage, ImageTest,
        ImageAllocate, try_fmt_out, TryStore, SFmtTest, SFmtSize, SetReady, CloseLast,
        CloseTimers, CloseTest, CloseFree, Allocation, AllocateTest, AllocateSize,
        AllocateImage, AllocateTimeout, AllocateCheck, TimeoutImage, Free, Unset, Freed,
        Use, SetFormat, StreamonOutput, Write, Written, Mmap, GetCaptureBuffer,
        CopyTimeoutImage, Control, SetKeepFormat, SetSustain, SetTimeout,
        SetTimeoutImageIo, Goto, Call
  <2>2. HasIt(o)
    BY <1>4, <2>1 DEF HasIt, Busy
  <2>. QED  BY <1>4, <2>2, CalmUse
<1>. QED  BY <1>1, <1>2, <1>3, <1>4

\* The timers, and the limit that sysfs sets.
LEMMA TimersInv ==
  ASSUME Inv, UNCHANGED load,
         \/ TimeoutTimer \/ SustainTimer
         \/ \E curr \in Limits[load] : attr_store_maxopeners(curr)
  PROVE  Inv'
<1>1. UNCHANGED <<process, open_count, format, memory, controls>>
  BY DEF TimeoutTimer, SustainTimer, attr_store_maxopeners, count
<1>2. armed' \subseteq armed /\ timeout_happened' \in {0, 1} /\ max_openers' \in Nat
  BY LimitsAssumption
  DEF TimeoutTimer, SustainTimer, attr_store_maxopeners, count, timers, Inv, Types
<1>3. Types' /\ Places'
  BY <1>1, <1>2 DEF Inv, Types, Places, Place, process, format, memory, controls
<1>4. CountEnough'
  BY <1>1 DEF Inv, CountEnough, Counted, IsCounted, process
<1>5. LastCloses'
  BY <1>1, <1>2 DEF Inv, LastCloses, Closing, process, format, memory, controls
<1>6. load = "calm" => Calm'
  BY <1>1
  DEF Inv, Calm, OneBusy, Busy, Opened, Used, HasIt, Closed, Between, Ready, Unused,
      Buffered, Sized, Empty, process, format, memory, controls
<1>. QED  BY <1>3, <1>4, <1>5, <1>6 DEF Inv

\* Any step.
LEMMA NextInv ==
  ASSUME Inv, [Next]_vars
  PROVE  Inv'
<1>1. ASSUME NEW o \in Openers, UNCHANGED load,
             OpenClose(o) \/ Allocation(o) \/ Use(o) \/ Control(o)
      PROVE  Inv'
  <2>1. CloseCount(o) => open_count \in Nat \ {0}
    <3>1. CloseCount(o) => IsCounted(o)
      BY DEF CloseCount, Call, IsCounted, Inv, Places, Place
    <3>. QED  BY <3>1, NobodyCounted DEF Inv
  <2>2. Types' /\ Places' /\ Others(o)
    BY <1>1, <2>1, AllocationTypes, OpenCloseTypes, UseTypes, ControlTypes DEF Inv
  <2>3. CountEnough' /\ LastCloses'
    BY <1>1, <2>2, AllocationCounts, OpenCloseCounts, UseCounts
  <2>4. load = "calm" => Calm'
    BY <1>1, <2>2, CalmStep
  <2>. QED  BY <1>1, <2>2, <2>3, <2>4 DEF Inv
<1>2. ASSUME UNCHANGED vars  PROVE Inv'
  <2>. USE <1>2 DEF vars, count, format, memory, controls, timers, process
  <2>1. Types' /\ Places'
    BY DEF Inv, Types, Places, Place
  <2>2. CountEnough' /\ LastCloses'
    BY DEF Inv, CountEnough, Counted, IsCounted, LastCloses, Closing
  <2>3. load = "calm" => Calm'
    BY DEF Inv, Calm, OneBusy, Busy, Opened, Used, HasIt, Closed, Between, Ready, Unused,
           Buffered, Sized, Empty
  <2>. QED  BY <2>1, <2>2, <2>3 DEF Inv
<1>. QED  BY <1>1, <1>2, TimersInv DEF Next

-----------------------------------------------------------------------------
(* The theorems.                                                           *)

\* The count is never less than the openers it stands for, and the last close
\* leaves to nobody what it has to free; in a calm behaviour each step of an
\* open or a close finds the format and the buffers as the one before left them
\* (v4l2_loopback_open, v4l2_loopback_close, allocate_buffers, free_buffers).
THEOREM DeviceInvariance == Spec => []Inv
<1>1. Init => Inv
  BY InitInv
<1>2. Inv /\ [Next]_vars => Inv'
  BY NextInv
<1>. QED  BY <1>1, <1>2, PTL DEF Spec

\* Where opens and closes do not overlap and memory does not run out, a device
\* that is ready and not just being freed has buffers of the size of its format
\* (allocate_buffers, free_buffers, vidioc_s_fmt_out).
THEOREM BuffersWhenReady == Spec => []ReadyHasBuffers
<1>1. Inv => TypeOK
  BY DEF Inv, Types, TypeOK
<1>2. ASSUME Inv, load = "calm", ready_for_capture = 1, ~ \E o \in Openers : Frees(o)
      PROVE  Buffered
  <2>1. CASE \E o \in Openers : Between(o)
    <3>1. PICK o \in Openers : Between(o)
      BY <2>1
    <3>2. Opened(o) /\ Closed(o)
      BY <1>2 DEF Inv, Calm
    <3>3. call[o] = "open" /\ pc[o] = "ready"
      BY <1>2, <3>1, <3>2 DEF Between, Opened, Closed, InSetup, InFree, Frees
    <3>. QED  BY <3>2, <3>3 DEF Opened
  <2>2. CASE ~ \E o \in Openers : Between(o)
    BY <1>2, <2>2 DEF Inv, Calm, Ready, Unused
  <2>. QED  BY <2>1, <2>2
<1>3. Inv => ReadyHasBuffers
  BY <1>1, <1>2 DEF ReadyHasBuffers, Buffered, Sized
<1>. QED  BY <1>3, DeviceInvariance, PTL

\* However opens, closes and allocations overlap and fail, a device nobody has
\* open and whose count says so points to no memory, unless the format is kept,
\* and has no timer running; where they do not overlap no buffers were lost or
\* freed twice (try_free_buffers, free_buffers, allocate_buffers).
THEOREM UnusedIsFree == Spec => []FreedWhenUnused
<1>1. Inv => FreedWhenUnused
  <2>. SUFFICES ASSUME Inv  PROVE FreedWhenUnused
    OBVIOUS
  <2>1. ASSUME \A o \in Openers : pc[o] = "closed", NEW S  PROVE ~Closing(S)
    BY <2>1 DEF Inv, Places, Place, Closing
  <2>2. ASSUME \A o \in Openers : pc[o] = "closed", open_count = 0
        PROVE  /\ armed = {}
               /\ keep_format = 0 =>
                    image = NULL /\ timeout_image = NULL /\ ready_for_capture = 0
    BY <2>1, <2>2 DEF Inv, Types, LastCloses
  <2>3. load = "calm" => "image" \notin damage
    BY DEF Inv, Calm
  <2>. QED  BY <2>2, <2>3 DEF FreedWhenUnused
<1>. QED  BY <1>1, DeviceInvariance, PTL

-----------------------------------------------------------------------------
(* What a step may not do to a device that is in use, or that is kept.     *)

\* In a calm behaviour only the last close changes a ready device.
LEMMA ReadyStep ==
  ASSUME Inv, [Next]_vars, load = "calm", ready_for_capture = 1
  PROVE  \/ UNCHANGED <<pix_format, buffer_size, image, ready_for_capture>>
         \/ open_count = 0 /\ keep_format = 0
<1>. USE DEF format, memory
<1>1. ASSUME NEW o \in Openers, OpenClose(o) \/ Allocation(o) \/ Use(o) \/ Control(o)
      PROVE  \/ UNCHANGED <<pix_format, buffer_size, image, ready_for_capture>>
             \/ open_count = 0 /\ keep_format = 0
  <2>1. Place(o) /\ Opened(o) /\ Used(o) /\ Closed(o)
    BY DEF Inv, Places, Calm
  <2>2. pc[o] \notin {"store", "setsize", "vmalloc"}
    BY <2>1 DEF Place, Opened, Used, HasIt, Busy, InSetup, Allocating
  <2>3. pc[o] \in {"unset", "unset2", "unready", "unsize"}
          => open_count = 0 /\ keep_format = 0
    BY <2>1 DEF Place, Opened, Used, HasIt, Busy, Closed, InFree, InSetup, Allocating
  <2>4. CASE TryStore(o) \/ SFmtSize(o) \/ AllocateImage(o)
    BY <2>2, <2>4 DEF TryStore, SFmtSize, AllocateImage, Goto
  <2>5. CASE Unset(o) \/ CloseFree(o)
    BY <2>3, <2>5 DEF Unset, CloseFree, Goto
  <2>6. CASE OpenClose(o) /\ ~TryStore(o) /\ ~SFmtSize(o) /\ ~CloseFree(o)
    BY <2>6
    DEF OpenClose, OpenCheck, OpenCount, OpenHand, OpenClear, OpenImage, ImageTest,
        ImageAllocate, try_fmt_out, SFmtTest, SetReady, CloseCount, CloseLast,
        CloseTimers, CloseTest
  <2>7. CASE Allocation(o) /\ ~AllocateImage(o) /\ ~Unset(o)
    BY <2>7
    DEF Allocation, AllocateTest, AllocateSize, AllocateTimeout, AllocateCheck,
        TimeoutImage, ImageTest, ImageAllocate, Free, Freed
  <2>8. CASE Use(o)
    BY <2>8 DEF Use, SetFormat, StreamonOutput, Write, Written, Mmap, GetCaptureBuffer,
                CopyTimeoutImage
  <2>9. CASE Control(o)
    BY <2>9 DEF Control, SetKeepFormat, SetSustain, SetTimeout, SetTimeoutImageIo
  <2>. QED  BY <1>1, <2>4, <2>5, <2>6, <2>7, <2>8, <2>9
<1>2. CASE TimeoutTimer \/ SustainTimer
           \/ \E curr \in Limits[load] : attr_store_maxopeners(curr)
  BY <1>2 DEF TimeoutTimer, SustainTimer, attr_store_maxopeners
<1>3. CASE UNCHANGED vars
  BY <1>3 DEF vars
<1>. QED  BY <1>1, <1>2, <1>3 DEF Next

\* Whatever a writer asks for, the format and the buffers stay while anybody
\* has the device open (vidioc_try_fmt_out, vidioc_s_fmt_out, mmap).
THEOREM FormatStays == Spec => FormatFixed
<1>1. Inv /\ [Next]_vars =>
        [load = "calm" /\ (\E o \in Openers : HasOpen(o))
           => pix_format' = pix_format /\ buffer_size' = buffer_size
                /\ image' = image]_vars
  <2>. SUFFICES ASSUME Inv, [Next]_vars, load = "calm", NEW o \in Openers, HasOpen(o)
                PROVE  UNCHANGED <<pix_format, buffer_size, image>>
    OBVIOUS
  <2>1. HasIt(o)
    BY DEF HasOpen, HasIt, Busy
  <2>2. ready_for_capture = 1 /\ open_count # 0
    BY <2>1, CalmInUse DEF Ready
  <2>. QED  BY <2>2, ReadyStep
<1>. QED  BY <1>1, DeviceInvariance, PTL DEF Spec, FormatFixed

\* A device that keeps its format stays ready, with its buffers, through the
\* last close and the opens that follow it (V4L2_CID keep_format).
THEOREM KeepFormatStays == Spec => KeepFormatKeeps
<1>1. Inv /\ [Next]_vars =>
        [load = "calm" /\ keep_format = 1 /\ ready_for_capture = 1
           => ready_for_capture' = 1 /\ image' = image]_vars
  BY ReadyStep
<1>. QED  BY <1>1, DeviceInvariance, PTL DEF Spec, KeepFormatKeeps

-----------------------------------------------------------------------------
(* The number of openers.                                                  *)

\* The test for EBUSY still holds where the open is counted.
WithinLimit ==
  load = "calm" =>
    /\ open_count <= max_openers
    /\ \A o \in Openers : pc[o] = "count" => open_count < max_openers

\* Every step keeps the count within the limit.
LEMMA WithinLimitStep ==
  ASSUME Inv, WithinLimit, [Next]_vars
  PROVE  WithinLimit'
<1>. SUFFICES ASSUME load = "calm", load' = load  PROVE WithinLimit'
  BY DEF WithinLimit, Next, vars
<1>. USE DEF count
<1>a. Types /\ Places /\ OneBusy /\ open_count \in Nat /\ max_openers \in Nat
  BY DEF Inv, Types, Calm
<1>1. ASSUME UNCHANGED count, \A p \in Openers : pc'[p] = "count" => pc[p] = "count"
      PROVE  WithinLimit'
  BY <1>1 DEF WithinLimit
<1>2. ASSUME Alone, NEW p \in Openers  PROVE pc[p] # "count"
  BY <1>a, <1>2 DEF Alone, Places, Place
<1>3. ASSUME NEW o \in Openers, OpenClose(o) \/ Allocation(o) \/ Use(o) \/ Control(o)
      PROVE  WithinLimit'
  <2>1. CASE OpenCheck(o)
    BY <1>a, <2>1 DEF WithinLimit, OpenCheck
  <2>2. CASE OpenCount(o)
    <3>1. "hand" \in Points
      BY DEF Points
    <3>2. pc[o] = "count" /\ pc'[o] = "hand" /\ \A p \in Openers \ {o} : pc'[p] = pc[p]
      BY <1>a, <2>2, <3>1, GotoFacts DEF OpenCount
    <3>3. \A p \in Openers : pc[p] = "count" => p = o
      BY <1>a, <3>2 DEF OneBusy, Busy, Places, Place
    <3>4. open_count < max_openers
      BY <3>2 DEF WithinLimit
    <3>. QED  BY <1>a, <2>2, <3>2, <3>3, <3>4 DEF OpenCount, WithinLimit
  <2>3. CASE CloseCount(o)
    <3>1. "timers" \in Points /\ "close" \in Calls
      BY DEF Points, Calls
    <3>2. pc'[o] = "timers" /\ \A p \in Openers \ {o} : pc'[p] = pc[p]
      BY <1>a, <2>3, <3>1, CallFacts DEF CloseCount
    <3>3. \A p \in Openers : pc'[p] # "count"
      BY <1>2, <2>3, <3>2 DEF CloseCount
    <3>. QED  BY <1>a, <2>3, <3>3 DEF CloseCount, WithinLimit
  <2>4. CASE ~OpenCheck(o) /\ ~OpenCount(o) /\ ~CloseCount(o)
    <3>1. PICK to \in Points \ {"count"} :
            pc' = [pc EXCEPT ![o] = to] \/ (pc' = pc /\ pc[o] = "open")
      BY <1>3, <2>4
      DEF OpenClose, OpenHand, OpenClear, OpenImage, ImageTest, ImageAllocate,
          try_fmt_out, AfterTry, TryStore, SFmtTest, SFmtSize, SetReady, CloseLast,
          CloseTimers, CloseTest, CloseFree, Allocation, AllocateTest, AfterAllocate,
          AllocateSize, AllocateImage, AllocateTimeout, AllocateCheck, TimeoutImage, Free,
          Unset, Freed, Use, SetFormat, StreamonOutput, Write, Written, Mmap,
          GetCaptureBuffer, CopyTimeoutImage, Control, SetKeepFormat, SetSustain,
          SetTimeout, SetTimeoutImageIo, Goto, Call, Points, process
    <3>2. \A p \in Openers : pc'[p] = "count" => pc[p] = "count"
      BY <1>a, <3>1 DEF Types
    <3>3. UNCHANGED count
      BY <1>3, <2>4
      DEF OpenClose, OpenHand, OpenClear, OpenImage, ImageTest, ImageAllocate,
          try_fmt_out, TryStore, SFmtTest, SFmtSize, SetReady, CloseLast, CloseTimers,
          CloseTest, CloseFree, Allocation, AllocateTest, AllocateSize, AllocateImage,
          AllocateTimeout, AllocateCheck, TimeoutImage, Free, Unset, Freed, Use,
          SetFormat, StreamonOutput, Write, Written, Mmap, GetCaptureBuffer,
          CopyTimeoutImage, Control, SetKeepFormat, SetSustain, SetTimeout,
          SetTimeoutImageIo
    <3>. QED  BY <1>1, <3>2, <3>3
  <2>. QED  BY <2>1, <2>2, <2>3, <2>4
<1>4. ASSUME NEW curr \in Limits[load], attr_store_maxopeners(curr)
      PROVE  WithinLimit'
  <2>1. \A p \in Openers : pc'[p] # "count"
    BY <1>2, <1>4 DEF attr_store_maxopeners, process
  <2>. QED  BY <1>4, <2>1 DEF attr_store_maxopeners, WithinLimit
<1>5. CASE TimeoutTimer \/ SustainTimer \/ UNCHANGED vars
  BY <1>1, <1>5 DEF TimeoutTimer, SustainTimer, vars, process
<1>. QED  BY <1>3, <1>4, <1>5 DEF Next

\* Without opens and closes that overlap, the two steps in which open() tests
\* and counts keep the promise of v4l2loopback-dc.c:115.
THEOREM BoundedWhenCalm == Spec => [](load = "calm" => OpenersBounded)
<1>1. Init => WithinLimit
  BY LimitsAssumption DEF Init, WithinLimit
<1>2. Inv /\ WithinLimit /\ [Next]_vars => WithinLimit'
  BY WithinLimitStep
<1>3. WithinLimit => (load = "calm" => OpenersBounded)
  BY DEF WithinLimit, OpenersBounded
<1>. QED  BY <1>1, <1>2, <1>3, DeviceInvariance, PTL DEF Spec

=============================================================================
