----------------------------- MODULE Preferences -----------------------------
(***************************************************************************)
(* What the user has set, over the runs of the client: the settings file   *)
(* (settings.c), which the GUI loads at its start and saves at its end,    *)
(* the options of the command line client, and the orientation of the      *)
(* picture (the transform of decoder.c), which the main thread flips and   *)
(* the video thread rotates for a portrait device.                         *)
(***************************************************************************)
EXTENDS VideoDevice

CONSTANTS
  Programs,    \* "gui" (droidcam.c), "cli" (droidcam-cli.c)
  Files,       \* settings files found at the first start
  Machines,    \* the video devices there are
  Adjusted,    \* formats that drivers adjust the one they are asked for to
  SizeOptions, \* -size options; NoSize: none given
  DevOptions,  \* -dev options; 0: none given
  MaxRuns,     \* bound: program starts
  MaxChanges   \* bound: widgets used, sessions and flips

ASSUME DataAssumption ==
  /\ Programs \subseteq {"gui", "cli"}
  /\ Machines \subseteq Seq(Devices)
  /\ Adjusted \subseteq Formats
  /\ SizeOptions \subseteq Int \X Int
  /\ \A f \in Files : "size" \in DOMAIN f => f.size \in Int \X Int

VARIABLES
  machine, file,
  program, at,       \* the program; "off", or where its main thread is
  settings,          \* g_settings
  fd, webcam,        \* droidcam_device_fd; WEBCAM_W and WEBCAM_H
  op,                \* jpg_decoder.transform.op
  v_running,
  thread,            \* video thread: "none", "waiting" or "prepared"
  flip,              \* inside a flip: the axis and the new op, else NoFlip
  runs, changes,
  saved,             \* history: the settings last saved
  wanted,            \* history: the axes the user has the picture flipped on
  turned             \* history: flipped since decoder_prepare_video

decoder == <<fd, webcam, op>>
vars == <<machine, file, program, at, settings, decoder, v_running, thread,
          flip, runs, changes, saved, wanted, turned>>

-----------------------------------------------------------------------------
(* settings.c.  A file is a record of its version and the lines it has;    *)
(* "none" is version 0, like a file that was truncated.                    *)

Defaults ==
  [ip |-> "", port |-> 4747, audio |-> 0, video |-> 1, size |-> <<640, 480>>,
   connection |-> "wifi", adb_auto_start |-> 0, confirm_close |-> 1,
   vertical_flip |-> 0, horizontal_flip |-> 0]

NoFile == [version |-> 0]

\* Versions 1 to 3 keep the line feed of the address, which %16s of version 4
\* skips.
WithLineFeed(ip) == IF ip = "phone" THEN "phone\n" ELSE ip
Trimmed(ip) == IF ip = "phone\n" THEN "phone" ELSE ip

\* The fields that a version's file has.
FieldsOf(version) ==
  CASE version = 1 -> {"ip", "port"}
    [] version = 2 -> {"ip", "port", "audio", "connection"}
    [] version = 3 -> {"ip", "port", "audio", "video", "connection"}
    [] version = 4 -> DOMAIN Defaults
    [] OTHER -> {}

\* A size counts only if both of its numbers are positive.
Usable(size) == size[1] > 0 /\ size[2] > 0

LoadSettings(f) ==
  [field \in DOMAIN Defaults |->
     IF /\ field \in FieldsOf(f.version) \intersect DOMAIN f
        /\ field = "size" => Usable(f.size)
       THEN CASE field = "ip" /\ f.version < 4 -> WithLineFeed(f.ip)
              [] field = "ip" /\ f.version = 4 -> Trimmed(f.ip)
              [] OTHER -> f[field]
       ELSE Defaults[field]]

\* Mutant: the horizontal flip is not written.
SavedFile_NoFlip(s) ==
  [field \in (DOMAIN s \ {"adb_auto_start", "horizontal_flip"}) \union {"version"} |->
     IF field = "version" THEN 4 ELSE s[field]]

\* SaveSettings does not write adb_auto_start.
SavedFile(s) ==
  [field \in (DOMAIN s \ {"adb_auto_start"}) \union {"version"} |->
     IF field = "version" THEN 4 ELSE s[field]]

-----------------------------------------------------------------------------
(* decoder.c.                                                              *)

NoFlip == [axis |-> "none", op |-> "none"]

\* The axes a transform flips the picture on.
Axes(o) ==
  CASE o = "hflip" -> {"h"} [] o = "vflip" -> {"v"} [] o = "rot180" -> {"h", "v"}
    [] OTHER -> {}

\* decoder_horizontal_flip and decoder_vertical_flip.
Flipped(axis, o) ==
  LET this  == IF axis = "h" THEN "hflip" ELSE "vflip"
      other == IF axis = "h" THEN "vflip" ELSE "hflip"
  IN IF o \in {this, "rot180"}
       THEN (IF o = "rot180" THEN other ELSE "none")
       ELSE (IF o = other THEN "rot180" ELSE this)

invert == webcam[1] < webcam[2]

\* decoder_init finds the device; without one it goes on with none.
FindDevice(v4l2_dev, size) ==
  LET chosen == ChosenDevice(machine, v4l2_dev)
  IN IF chosen < 0 THEN fd' = 0 /\ webcam' = Small /\ UNCHANGED machine
     ELSE /\ fd' = chosen
          /\ IF IsAsked(machine, chosen)
               THEN \E format \in S_FMT(machine[chosen], size, Adjusted) :
                      machine' = Formatted(machine, chosen, format)
               ELSE UNCHANGED machine
          /\ webcam' = query_v4l_device(machine', chosen)

\* A size other than these decoder_init calls an error.
SizeKnown == \A i \in {1, 2} : webcam'[i] >= 2 /\ webcam'[i] <= 9999

Init ==
  /\ machine \in Machines /\ file \in Files
  /\ program \in Programs /\ at = "off"
  /\ settings = Defaults
  /\ fd = 0 /\ webcam = Small /\ op = "none"
  /\ v_running = 0 /\ thread = "none" /\ flip = NoFlip
  /\ runs = 0 /\ changes = 0
  /\ saved = LoadSettings(file) /\ wanted = {} /\ turned = FALSE

\* The process is gone, and its memory with it.
Exit ==
  /\ at' = "off"
  /\ settings' = Defaults
  /\ fd' = 0 /\ webcam' = Small /\ op' = "none"
  /\ v_running' = 0 /\ thread' = "none" /\ flip' = NoFlip
  /\ changes' = 0 /\ wanted' = {} /\ turned' = FALSE

-----------------------------------------------------------------------------
(* main of droidcam.c.                                                     *)

FlipsOf(s) ==
  (IF s.horizontal_flip = 1 THEN {"h"} ELSE {})
    \union (IF s.vertical_flip = 1 THEN {"v"} ELSE {})

WithSize(s, size) == IF size = NoSize THEN s ELSE [s EXCEPT !.size = size]

\* "re-load flip values from last run": horizontal, then vertical.
Reloaded(s) ==
  LET h == IF s.horizontal_flip = 1 THEN Flipped("h", "none") ELSE "none"
  IN IF s.vertical_flip = 1 THEN Flipped("v", h) ELSE h

\* LoadSettings, parse_args, decoder_init, the flips.  A start that fails ends
\* the program, which saves nothing.
GuiStart(v4l2_dev, size) ==
  /\ program = "gui" /\ at = "off" /\ at' = "running"
  /\ runs < MaxRuns /\ runs' = runs + 1
  /\ settings' = WithSize(LoadSettings(file), size)
  /\ FindDevice(v4l2_dev, settings'.size) /\ SizeKnown
  /\ op' = Reloaded(settings') /\ wanted' = FlipsOf(saved)
  /\ UNCHANGED <<file, program, v_running, thread, flip, changes, saved, turned>>

\* The main thread is in none of its callbacks, of which Stop joins the thread.
MainIsFree ==
  at = "running" /\ flip = NoFlip /\ (v_running = 0 => thread = "none")

Change == changes < MaxChanges /\ changes' = changes + 1

\* The check boxes and the mode buttons (the_callback).
Widget ==
  /\ program = "gui" /\ MainIsFree /\ Change
  /\ \/ \E box \in {"audio", "video"} :
          v_running = 0 /\ settings' = [settings EXCEPT ![box] = 1 - @]
     \/ \E m \in {"wifi", "adb", "server"} \ {settings.connection} :
          settings' = [settings EXCEPT !.connection = m]
  /\ UNCHANGED <<machine, file, program, at, decoder, v_running, thread, flip,
                 runs, saved, wanted, turned>>

\* Start with video.  The address is the one in its field, or that of adb.
GuiSession ==
  /\ program = "gui" /\ MainIsFree /\ Change
  /\ v_running = 0 /\ v_running' = 1 /\ thread' = "waiting"
  /\ settings.video = 1 \/ settings.connection = "server"
  /\ \E ip \in {"phone", settings.ip} \ {""} :
       settings' = [settings EXCEPT
         !.ip = CASE settings.connection = "wifi" -> ip
                  [] settings.connection = "adb" -> "localhost"
                  [] OTHER -> settings.ip]
  /\ UNCHANGED <<machine, file, program, at, decoder, flip, runs, saved, wanted,
                 turned>>

\* Stop, of the GUI or of sig_handler.
Stop ==
  /\ v_running = 1 /\ v_running' = 0
  /\ program = "gui" => MainIsFree
  /\ UNCHANGED <<machine, file, program, at, settings, decoder, thread, flip,
                 runs, changes, saved, wanted, turned>>

\* gtk_main has ended: after Stop and decoder_fini, SaveSettings opens the
\* file, which truncates it.
GuiQuit ==
  /\ program = "gui" /\ MainIsFree /\ v_running = 0
  /\ at' = "saving" /\ file' = NoFile
  /\ fd' = 0
  /\ UNCHANGED <<machine, program, settings, webcam, op, v_running, thread, flip,
                 runs, changes, saved, wanted, turned>>

\* fclose writes it; it is shorter than a buffer.
SaveEnds ==
  /\ at = "saving" /\ Exit
  /\ file' = SavedFile(settings)
  /\ saved' = settings
  /\ UNCHANGED <<machine, program, runs>>

\* The program is killed, or the machine stops, or the file cannot be opened.
Killed ==
  /\ at # "off" /\ Exit
  /\ saved' = IF at = "saving" THEN Defaults ELSE saved
  /\ UNCHANGED <<machine, file, program, runs>>

-----------------------------------------------------------------------------
(* main of droidcam-cli.c.                                                 *)

\* parse_args, decoder_init, the connection and the threads.
CliStart(v4l2_dev, size, flips) ==
  /\ program = "cli" /\ at = "off" /\ at' = "vflip"
  /\ runs < MaxRuns /\ runs' = runs + 1
  /\ settings' = [Defaults EXCEPT
       !.vertical_flip = IF "v" \in flips THEN 1 ELSE 0,
       !.horizontal_flip = IF "h" \in flips THEN 1 ELSE 0]
  /\ FindDevice(v4l2_dev, IF size = NoSize THEN Defaults.size ELSE size) /\ SizeKnown
  /\ v_running' = 1 /\ thread' = "waiting" /\ wanted' = flips
  /\ UNCHANGED <<file, program, op, flip, changes, saved, turned>>

\* The options are applied, vertical first, when the threads run already.
CliNoFlip ==
  /\ flip = NoFlip
  /\ \/ at = "vflip" /\ settings.vertical_flip = 0 /\ at' = "hflip"
     \/ at = "hflip" /\ settings.horizontal_flip = 0 /\ at' = "running"
  /\ UNCHANGED <<machine, file, program, settings, decoder, v_running, thread,
                 flip, runs, changes, saved, wanted, turned>>

CliEnds ==
  /\ program = "cli" /\ MainIsFree /\ v_running = 0 /\ Exit
  /\ UNCHANGED <<machine, file, program, runs, saved>>

-----------------------------------------------------------------------------
(* Flips and rotation, by two threads without a lock.                      *)

\* A menu item or key; controls_callback and wait_command ask for v_running,
\* and the former does nothing while a command waits in the mailbox.
UserFlips == at = "running" /\ v_running = 1 /\ Change

\* A flip option of the command line client.
OptionFlips(axis) ==
  /\ \/ at = "vflip" /\ axis = "v" /\ settings.vertical_flip = 1
     \/ at = "hflip" /\ axis = "h" /\ settings.horizontal_flip = 1
  /\ UNCHANGED changes

\* The op is read ...
FlipRead(axis) ==
  /\ flip = NoFlip
  /\ UserFlips \/ OptionFlips(axis)
  /\ flip' = [axis |-> axis, op |-> Flipped(axis, op)]
  /\ UNCHANGED <<machine, file, program, at, settings, decoder, v_running,
                 thread, runs, saved, wanted, turned>>

\* ... and written; the GUI notes the setting of this axis.
FlipWrite ==
  LET now == IF flip.axis \in Axes(flip.op) THEN 1 ELSE 0
  IN /\ flip # NoFlip /\ flip' = NoFlip
     /\ op' = flip.op /\ turned' = TRUE
     /\ settings' =
          IF program = "cli" THEN settings
          ELSE IF flip.axis = "h" THEN [settings EXCEPT !.horizontal_flip = now]
          ELSE [settings EXCEPT !.vertical_flip = now]
     /\ IF at = "running"
          THEN /\ wanted' = (wanted \ {flip.axis}) \union ({flip.axis} \ wanted)
               /\ UNCHANGED at
          ELSE /\ at' = IF at = "vflip" THEN "hflip" ELSE "running"
               /\ UNCHANGED wanted
     /\ UNCHANGED <<machine, file, program, fd, webcam, v_running, thread,
                    runs, changes, saved>>

\* Mutants: a landscape picture loses its flips; a flipped one is not rotated.
Prepare_Resets ==
  /\ thread = "waiting" /\ fd > 0
  /\ thread' = "prepared" /\ turned' = FALSE
  /\ op' = IF invert THEN "rot90" ELSE "none"
  /\ UNCHANGED <<machine, file, program, at, settings, fd, webcam, v_running,
                 flip, runs, changes, saved, wanted>>

Prepare_KeepsFlips ==
  /\ thread = "waiting" /\ fd > 0
  /\ thread' = "prepared" /\ turned' = FALSE
  /\ op' = IF invert /\ op = "none" THEN "rot90" ELSE op
  /\ UNCHANGED <<machine, file, program, at, settings, fd, webcam, v_running,
                 flip, runs, changes, saved, wanted>>

\* decoder_prepare_video, for the header the phone sent.
Prepare ==
  /\ thread = "waiting" /\ fd > 0
  /\ thread' = "prepared" /\ turned' = FALSE
  /\ op' = IF invert THEN "rot90" ELSE op
  /\ UNCHANGED <<machine, file, program, at, settings, fd, webcam, v_running,
                 flip, runs, changes, saved, wanted>>

\* early_out: the buffers go, the transform stays; a server waits again.
ThreadEnds ==
  /\ thread # "none"
  /\ thread' \in (IF v_running = 1 THEN {"none", "waiting"} ELSE {"none"})
  /\ UNCHANGED <<machine, file, program, at, settings, decoder, v_running, flip,
                 runs, changes, saved, wanted, turned>>

Next ==
  \/ \E v4l2_dev \in DevOptions, size \in SizeOptions :
       \/ GuiStart(v4l2_dev, size)
       \/ \E flips \in SUBSET {"h", "v"} : CliStart(v4l2_dev, size, flips)
  \/ Widget \/ GuiSession \/ Stop \/ GuiQuit \/ SaveEnds \/ Killed
  \/ CliNoFlip \/ CliEnds
  \/ \E axis \in {"h", "v"} : FlipRead(axis)
  \/ FlipWrite \/ Prepare \/ ThreadEnds

Spec == Init /\ [][Next]_vars

-----------------------------------------------------------------------------
(* Properties.                                                             *)

Kept(s) ==
  [s EXCEPT !.ip = Trimmed(@), !.adb_auto_start = 0,
            !.size = IF Usable(@) THEN @ ELSE Defaults.size]

\* What a run finds in the file is what an earlier one saved last, but for the
\* end of the address, adb_auto_start and a size no picture can have, or the
\* defaults if that one was killed while it saved: never a mix of two versions
\* (settings.c:31, 131).
SettingsKept ==
  Kept(LoadSettings(file)) = Kept(IF at = "saving" THEN Defaults ELSE saved)

\* A landscape picture is flipped as the user last had it, in this run or in
\* the one whose settings were kept, whatever sessions began and ended since,
\* and the options of the command line are applied whenever the video thread
\* prepares its decoder (decoder.c:207, 423-449, droidcam.c:694, cli:293).
FlipsKept ==
  at = "running" /\ flip = NoFlip /\ ~invert =>
    /\ Axes(op) = wanted
    /\ program = "gui" => FlipsOf(settings) = wanted

\* The picture of a portrait device is rotated in every session until the user
\* flips it, and no other picture ever is (decoder.c:204-207).
RotatedUntilFlipped ==
  /\ op = "rot90" => invert
  /\ thread = "prepared" /\ invert /\ ~turned => op = "rot90"

\* Pictures have the size of the device they are written to, whatever size was
\* asked for and whatever the driver made of it, and the device expects YUV420
\* pictures unless its driver adjusted the format and reported success, which
\* the client does not notice (decoder_v4l2.c:155-207).
DeviceMatches ==
  at = "running" /\ fd > 0 =>
    /\ webcam = machine[fd].size
    /\ machine[fd].yuv \/ machine[fd].s_fmt = "adjusts"

=============================================================================
