--------------------------- MODULE PreferencesProof ---------------------------
(***************************************************************************)
(* The settings and the picture's orientation, proved for every set of     *)
(* files, machines and options, and any number of runs and changes.        *)
(*                                                                         *)
(* The flips need the most: between the read and the write of a flip the   *)
(* transform is still the one that was read, unless the video thread has   *)
(* rotated the picture, and the command line client is part of the way     *)
(* through its options.                                                    *)
(***************************************************************************)
EXTENDS Preferences, WellFoundedInduction, TLAPS

-----------------------------------------------------------------------------
(* The inductive invariant.                                                *)

Fields == DOMAIN Defaults
IsSettings(s) == DOMAIN s = Fields /\ s.size \in Int \X Int

Types ==
  /\ machine \in Seq(Devices)
  /\ program \in {"gui", "cli"}
  /\ at \in {"off", "vflip", "hflip", "running", "saving"}
  /\ at \in {"vflip", "hflip"} => program = "cli"
  /\ v_running \in {0, 1} /\ thread \in {"none", "waiting", "prepared"}
  /\ op \in {"none", "hflip", "vflip", "rot180", "rot90"}
  /\ wanted \subseteq {"h", "v"} /\ turned \in BOOLEAN

SettingsTypes ==
  /\ IsSettings(settings) /\ IsSettings(saved)
  /\ "size" \in DOMAIN file => file.size \in Int \X Int
  /\ at = "saving" => file = NoFile

\* Before a program starts nothing has been prepared or turned.
OffClean ==
  at = "off" =>
    op = "none" /\ flip = NoFlip /\ v_running = 0 /\ thread = "none" /\ ~invert

\* Nothing runs any more while the settings are saved.
SavingIdle == at = "saving" => thread = "none" /\ v_running = 0 /\ flip = NoFlip

\* The device that is open has the size the client believes it has, and its
\* format, unless the driver adjusted that.
DeviceKnown ==
  fd > 0 => /\ fd \in DOMAIN machine
            /\ webcam = machine[fd].size
            /\ machine[fd].yuv \/ machine[fd].s_fmt = "adjusts"

\* A flip in progress: of which axis, and from what.
FlipPending ==
  flip # NoFlip =>
    /\ flip.axis \in {"h", "v"}
    /\ flip.op \in {"none", "hflip", "vflip", "rot180"}
    /\ at = "vflip" => flip.axis = "v" /\ settings.vertical_flip = 1
    /\ at = "hflip" => flip.axis = "h" /\ settings.horizontal_flip = 1
    /\ ~invert => flip.op = Flipped(flip.axis, op)

\* What has been applied so far of what the user wants.
Applied ==
  CASE at = "vflip" -> {} [] at = "hflip" -> wanted \intersect {"v"}
    [] OTHER -> wanted

FlipsApplied ==
  at \in {"vflip", "hflip", "running"} /\ ~invert =>
    /\ Axes(op) = Applied /\ op # "rot90"
    /\ at # "running" => FlipsOf(settings) = wanted
    /\ program = "gui" => FlipsOf(settings) = wanted

Inv ==
  /\ Types /\ SettingsTypes /\ OffClean /\ SavingIdle /\ DeviceKnown
  /\ FlipPending /\ FlipsApplied /\ SettingsKept /\ RotatedUntilFlipped

-----------------------------------------------------------------------------
(* Devices.                                                                *)

\* A set of natural numbers that is not empty has a least element.
LEMMA MinIsMember ==
  ASSUME NEW S \in SUBSET Nat, S # {}
  PROVE  Min(S) \in S
<1>. DEFINE R == {ss \in Nat \X Nat : ss[1] < ss[2]}
<1>1. IsWellFoundedOn(R, Nat)
  BY NatLessThanWellFounded DEF OpToRel
<1>2. \A y \in Nat, x \in Nat : y < x => <<y, x>> \in R
  OBVIOUS
<1>. HIDE DEF R
<1>3. PICK x \in S : \A y \in S : <<y, x>> \notin R
  BY <1>1, WFMin
<1>4. ASSUME NEW y \in S  PROVE x <= y
  <2>1. x \in Nat /\ y \in Nat /\ ~(y < x)
    BY <1>2, <1>3
  <2>. QED  BY <2>1
<1>. QED  BY <1>4 DEF Min

\* The descriptor that was found is that of a device.
LEMMA ChosenExists ==
  ASSUME NEW m \in Seq(Devices), NEW d, ChosenDevice(m, d) > 0
  PROVE  ChosenDevice(m, d) \in DOMAIN m
<1>1. ASSUME NEW bus, find_v4l2_device(m, bus) > 0
      PROVE  find_v4l2_device(m, bus) \in DOMAIN m
  <2>. DEFINE found == {e \in DOMAIN m : m[e].opens /\ m[e].bus \in Buses(bus)}
  <2>1. found # {}
    BY <1>1 DEF find_v4l2_device
  <2>2. found \in SUBSET Nat
    OBVIOUS
  <2>3. Min(found) \in found
    BY <2>1, <2>2, MinIsMember
  <2>. QED  BY <2>1, <2>3 DEF find_v4l2_device
<1>. QED  BY <1>1 DEF ChosenDevice, open_v4l2_device

\* A driver leaves its device with a format, and with that asked for if it
\* takes formats.
LEMMA AnswerFormat ==
  ASSUME NEW device \in Devices, NEW asked \in Int \X Int,
         NEW format \in S_FMT(device, asked, Adjusted)
  PROVE  /\ format \in Formats
         /\ device.s_fmt = "takes" => format.yuv
         /\ device.s_fmt = "refuses" => format.yuv = device.yuv
<1>1. device.s_fmt \in {"takes", "adjusts", "refuses"}
        /\ device.size \in Int \X Int /\ device.yuv \in BOOLEAN
  BY DEF Devices
<1>2. CASE device.s_fmt = "takes"
  <2>1. format = [size |-> asked, yuv |-> TRUE]
    BY <1>2 DEF S_FMT
  <2>. QED  BY <1>2, <2>1 DEF Formats
<1>3. CASE device.s_fmt = "adjusts"
  BY <1>3, DataAssumption DEF S_FMT
<1>4. CASE device.s_fmt = "refuses"
  BY <1>1, <1>4 DEF S_FMT, Formats
<1>. QED  BY <1>1, <1>2, <1>3, <1>4

\* A device that was given a format has it, and is otherwise as it was.
LEMMA FormattedDevice ==
  ASSUME NEW m \in Seq(Devices), NEW d \in DOMAIN m, NEW format \in Formats
  PROVE  /\ Formatted(m, d, format) \in Seq(Devices)
         /\ d \in DOMAIN Formatted(m, d, format)
         /\ Formatted(m, d, format)[d].size = format.size
         /\ Formatted(m, d, format)[d].yuv = format.yuv
         /\ Formatted(m, d, format)[d].bus = m[d].bus
         /\ Formatted(m, d, format)[d].s_fmt = m[d].s_fmt
<1>. DEFINE new == [m[d] EXCEPT !.size = format.size, !.yuv = format.yuv]
<1>1. m[d] \in Devices
  OBVIOUS
<1>2. Formatted(m, d, format) = [m EXCEPT ![d] = new]
  BY <1>1 DEF Formatted, Devices
<1>3. /\ new \in Devices /\ new.size = format.size /\ new.yuv = format.yuv
      /\ new.bus = m[d].bus /\ new.s_fmt = m[d].s_fmt
  BY <1>1 DEF Devices, Formats
<1>. HIDE DEF new
<1>. QED  BY <1>2, <1>3

\* A size that is no error is one.
LEMMA SizeKnownIsSize == ASSUME SizeKnown  PROVE webcam' # NoSize
  BY DEF SizeKnown, NoSize

\* What the client believes of the device it opened is so.
LEMMA FoundInv ==
  ASSUME machine \in Seq(Devices), NEW d, NEW size \in Int \X Int,
         FindDevice(d, size), SizeKnown
  PROVE  machine' \in Seq(Devices) /\ DeviceKnown'
<1>. DEFINE chosen == ChosenDevice(machine, d)
<1>1. CASE chosen > 0
  <2>1. chosen \in DOMAIN machine /\ fd' = chosen /\ ~(chosen < 0) /\ chosen # 0
    BY <1>1, ChosenExists DEF FindDevice
  <2>2. machine[chosen] \in Devices
    BY <2>1
  <2>3. webcam' = query_v4l_device(machine', chosen) /\ webcam' # NoSize
    BY <2>1, SizeKnownIsSize DEF FindDevice
  <2>4. CASE IsAsked(machine, chosen)
    <3>1. PICK format \in S_FMT(machine[chosen], size, Adjusted) :
            machine' = Formatted(machine, chosen, format)
      BY <2>1, <2>4 DEF FindDevice
    <3>2. /\ format \in Formats
          /\ machine[chosen].s_fmt = "takes" => format.yuv
      BY <2>2, AnswerFormat
    <3>. HIDE DEF chosen
    <3>3. /\ machine' \in Seq(Devices) /\ chosen \in DOMAIN machine'
          /\ machine'[chosen].yuv = format.yuv
          /\ machine'[chosen].bus = machine[chosen].bus
          /\ machine'[chosen].s_fmt = machine[chosen].s_fmt
      BY <2>1, <3>1, <3>2, FormattedDevice
    <3>4. machine[chosen].s_fmt \in {"takes", "adjusts", "refuses"}
      BY <2>2 DEF Devices
    <3>5. webcam' = machine'[chosen].size
      BY <2>1, <2>3 DEF query_v4l_device
    <3>6. machine'[chosen].yuv \/ machine'[chosen].s_fmt = "adjusts"
      BY <2>3, <3>2, <3>3, <3>4 DEF query_v4l_device
    <3>. QED  BY <2>1, <3>3, <3>5, <3>6 DEF DeviceKnown
  <2>5. CASE ~IsAsked(machine, chosen)
    <3>1. machine' = machine
      BY <2>1, <2>5 DEF FindDevice
    <3>2. webcam' = machine[chosen].size /\ machine[chosen].yuv
      BY <2>3, <2>5, <3>1 DEF query_v4l_device
    <3>. QED  BY <3>1, <3>2, <2>1 DEF DeviceKnown
  <2>. QED  BY <2>4, <2>5
<1>2. CASE ~(chosen > 0)
  <2>1. machine' = machine
    BY <1>2 DEF FindDevice, IsAsked
  <2>2. ~(fd' > 0)
    BY <1>2 DEF FindDevice
  <2>. QED  BY <2>1, <2>2 DEF DeviceKnown
<1>. QED  BY <1>1, <1>2

-----------------------------------------------------------------------------
(* Settings.                                                               *)

\* What is loaded is complete.
LEMMA LoadedIsSettings ==
  ASSUME NEW f, "size" \in DOMAIN f => f.size \in Int \X Int
  PROVE  IsSettings(LoadSettings(f))
<1>1. DOMAIN LoadSettings(f) = Fields
  BY DEF LoadSettings, Fields
<1>2. "size" \in Fields /\ Defaults.size \in Int \X Int
  BY DEF Fields, Defaults
<1>3. LoadSettings(f).size \in {f.size, Defaults.size}
        /\ ("size" \notin DOMAIN f => LoadSettings(f).size = Defaults.size)
  BY <1>2 DEF LoadSettings, Fields
<1>. QED  BY <1>1, <1>2, <1>3 DEF IsSettings

\* The defaults are settings.
LEMMA DefaultsAreSettings == IsSettings(Defaults)
  BY DEF IsSettings, Fields, Defaults

\* Settings with the same fields are kept as the same.
LEMMA KeptPointwise ==
  ASSUME NEW s, NEW t, DOMAIN s = Fields, DOMAIN t = Fields,
         \A field \in Fields : s[field] = t[field]
  PROVE  Kept(s) = Kept(t)
<1>1. {"ip", "size", "adb_auto_start"} \subseteq Fields
  BY DEF Fields, Defaults
<1>2. DOMAIN Kept(s) = Fields /\ DOMAIN Kept(t) = Fields
        /\ \A field \in Fields : Kept(s)[field] = Kept(t)[field]
  BY <1>1 DEF Kept
<1>3. Kept(s) = [field \in Fields |-> Kept(s)[field]]
        /\ Kept(t) = [field \in Fields |-> Kept(t)[field]]
  BY DEF Kept
<1>. QED  BY <1>2, <1>3

\* A file that was truncated gives the defaults.
LEMMA LoadedNothing == Kept(LoadSettings(NoFile)) = Kept(Defaults)
<1>1. NoFile.version = 0 /\ FieldsOf(0) = {}
  BY DEF NoFile, FieldsOf
<1>2. DOMAIN LoadSettings(NoFile) = Fields
        /\ \A field \in Fields : LoadSettings(NoFile)[field] = Defaults[field]
  BY <1>1 DEF LoadSettings, Fields
<1>. QED  BY <1>2, KeptPointwise DEF Fields

\* What is saved is what is loaded, but for what Kept leaves out.
LEMMA RoundTrip ==
  ASSUME NEW s, IsSettings(s)
  PROVE  Kept(LoadSettings(SavedFile(s))) = Kept(s)
<1>. DEFINE f == SavedFile(s)
            l == LoadSettings(f)
<1>1. Fields = {"ip", "port", "audio", "video", "size", "connection",
                "adb_auto_start", "confirm_close", "vertical_flip",
                "horizontal_flip"}
  BY DEF Fields, Defaults
<1>2. DOMAIN s = Fields
  BY DEF IsSettings
<1>3. /\ f.version = 4
      /\ DOMAIN f = (Fields \ {"adb_auto_start"}) \union {"version"}
      /\ \A field \in Fields \ {"adb_auto_start"} : f[field] = s[field]
  BY <1>1, <1>2 DEF SavedFile
<1>4. FieldsOf(4) \intersect DOMAIN f = Fields \ {"adb_auto_start"}
  BY <1>1, <1>3 DEF FieldsOf, Fields
<1>. HIDE DEF f
<1>5. /\ DOMAIN l = Fields
      /\ l.adb_auto_start = 0
      /\ l.ip = Trimmed(s.ip)
      /\ l.size = IF Usable(s.size) THEN s.size ELSE Defaults.size
      /\ \A field \in Fields \ {"ip", "size", "adb_auto_start"} : l[field] = s[field]
  <2>1. DOMAIN l = Fields
    BY DEF LoadSettings, Fields
  <2>2. "adb_auto_start" \in Fields /\ "ip" \in Fields /\ "size" \in Fields
    BY <1>1
  <2>3. l.adb_auto_start = 0
    BY <1>1, <1>3, <1>4 DEF LoadSettings, Fields, Defaults
  <2>4. l.ip = Trimmed(s.ip)
    BY <1>1, <1>3, <1>4 DEF LoadSettings, Fields
  <2>5. l.size = IF Usable(s.size) THEN s.size ELSE Defaults.size
    BY <1>1, <1>3, <1>4 DEF LoadSettings, Fields
  <2>6. ASSUME NEW field \in Fields \ {"ip", "size", "adb_auto_start"}
        PROVE  l[field] = s[field]
    BY <1>1, <1>3, <1>4, <2>6 DEF LoadSettings, Fields
  <2>. QED  BY <2>1, <2>3, <2>4, <2>5, <2>6
<1>. HIDE DEF l
<1>6. \A ip : Trimmed(Trimmed(ip)) = Trimmed(ip)
  BY DEF Trimmed
<1>7. Usable(Defaults.size)
  BY DEF Usable, Defaults
<1>8. DOMAIN Kept(l) = Fields /\ DOMAIN Kept(s) = Fields
  BY <1>2, <1>5 DEF Kept
<1>9. ASSUME NEW field \in Fields  PROVE Kept(l)[field] = Kept(s)[field]
  <2>1. CASE field = "ip"
    BY <1>1, <1>2, <1>5, <1>6, <2>1 DEF Kept
  <2>2. CASE field = "size"
    BY <1>1, <1>2, <1>5, <1>7, <2>2 DEF Kept
  <2>3. CASE field = "adb_auto_start"
    BY <1>1, <1>2, <1>5, <2>3 DEF Kept
  <2>4. CASE field \in Fields \ {"ip", "size", "adb_auto_start"}
    BY <1>1, <1>2, <1>5, <2>4 DEF Kept
  <2>. QED  BY <2>1, <2>2, <2>3, <2>4
<1>10. Kept(l) = [field \in Fields |-> Kept(l)[field]]
         /\ Kept(s) = [field \in Fields |-> Kept(s)[field]]
  BY <1>2, <1>5 DEF Kept
<1>11. Kept(l) = Kept(s)
  BY <1>9, <1>10
<1>. QED  BY <1>11 DEF l, f

\* Settings that were kept have the same flips.
LEMMA KeptFlips ==
  ASSUME NEW s, NEW t, IsSettings(s), IsSettings(t), Kept(s) = Kept(t)
  PROVE  FlipsOf(s) = FlipsOf(t)
<1>1. {"vertical_flip", "horizontal_flip"} \subseteq Fields
  BY DEF Fields, Defaults
<1>2. \A u : IsSettings(u) => /\ Kept(u).vertical_flip = u.vertical_flip
                              /\ Kept(u).horizontal_flip = u.horizontal_flip
  BY <1>1 DEF Kept, IsSettings
<1>. QED  BY <1>2 DEF FlipsOf

-----------------------------------------------------------------------------
(* Flips.                                                                  *)

FlipOps == {"none", "hflip", "vflip", "rot180"}

\* A flip toggles its axis and leaves the other one alone.
LEMMA FlipToggles ==
  ASSUME NEW axis \in {"h", "v"}, NEW o \in FlipOps
  PROVE  /\ Flipped(axis, o) \in FlipOps
         /\ Axes(Flipped(axis, o)) = (Axes(o) \ {axis}) \union ({axis} \ Axes(o))
  BY DEF FlipOps, Flipped, Axes

\* From any transform a flip leads to one that does not rotate.
LEMMA FlipNeverRotates ==
  ASSUME NEW axis \in {"h", "v"}, NEW o \in FlipOps \union {"rot90"}
  PROVE  Flipped(axis, o) \in FlipOps
  BY DEF FlipOps, Flipped

\* The flips of the last run are all reloaded.
LEMMA ReloadedFlips ==
  ASSUME NEW s
  PROVE  Reloaded(s) \in FlipOps /\ Axes(Reloaded(s)) = FlipsOf(s)
  BY DEF Reloaded, Flipped, FlipOps, Axes, FlipsOf

-----------------------------------------------------------------------------
(* Steps.                                                                  *)

\* The invariant holds at the start.
LEMMA InitInv == Init => Inv
<1>. SUFFICES ASSUME Init  PROVE Inv
  OBVIOUS
<1>1. Types
  BY DataAssumption DEF Init, Types
<1>2. SettingsTypes
  BY DataAssumption, DefaultsAreSettings, LoadedIsSettings DEF Init, SettingsTypes
<1>3. ~invert
  BY DEF Init, invert, Small
<1>4. OffClean /\ SavingIdle /\ DeviceKnown /\ FlipPending /\ FlipsApplied
  BY <1>3 DEF Init, OffClean, SavingIdle, DeviceKnown, FlipPending, FlipsApplied
<1>5. SettingsKept /\ RotatedUntilFlipped
  BY DEF Init, SettingsKept, RotatedUntilFlipped
<1>. QED  BY <1>1, <1>2, <1>4, <1>5 DEF Inv

\* A program that ends leaves only the file and the devices.
LEMMA ExitInv ==
  ASSUME Inv, Exit, UNCHANGED <<machine, program>>, IsSettings(saved'),
         "size" \in DOMAIN file' => file'.size \in Int \X Int,
         Kept(LoadSettings(file')) = Kept(saved')
  PROVE  Inv'
<1>1. Types'
  BY DEF Exit, Inv, Types
<1>2. SettingsTypes'
  BY DefaultsAreSettings DEF Exit, SettingsTypes
<1>3. ~invert'
  BY DEF Exit, invert, Small
<1>4. OffClean' /\ SavingIdle' /\ DeviceKnown' /\ FlipPending' /\ FlipsApplied'
  BY <1>3 DEF Exit, OffClean, SavingIdle, DeviceKnown, FlipPending, FlipsApplied
<1>5. SettingsKept' /\ RotatedUntilFlipped'
  BY DEF Exit, SettingsKept, RotatedUntilFlipped
<1>. QED  BY <1>1, <1>2, <1>4, <1>5 DEF Inv

\* A program that starts finds its device and has yet to apply its flips, or
\* has applied those of the settings.
LEMMA StartInv ==
  ASSUME Inv, at = "off", NEW d, NEW size \in Int \X Int,
         FindDevice(d, size), SizeKnown,
         UNCHANGED <<file, program, flip, saved, turned>>,
         v_running' \in {0, 1}, thread' \in {"none", "waiting"},
         IsSettings(settings'), wanted' \subseteq {"h", "v"},
         FlipsOf(settings') = wanted', op' \in FlipOps,
         \/ program = "gui" /\ at' = "running" /\ Axes(op') = wanted'
         \/ program = "cli" /\ at' = "vflip" /\ op' = "none"
  PROVE  Inv'
<1>1. machine' \in Seq(Devices) /\ DeviceKnown'
  BY FoundInv DEF Inv, Types
<1>2. Types'
  BY <1>1 DEF Inv, Types, FlipOps
<1>3. SettingsTypes' /\ SettingsKept'
  BY DEF Inv, SettingsTypes, SettingsKept
<1>4. OffClean' /\ SavingIdle' /\ FlipPending'
  BY DEF Inv, OffClean, SavingIdle, FlipPending
<1>5. FlipsApplied'
  BY DEF FlipsApplied, Applied, Axes, FlipOps
<1>6. RotatedUntilFlipped'
  BY DEF RotatedUntilFlipped, FlipOps
<1>. QED  BY <1>1, <1>2, <1>3, <1>4, <1>5, <1>6 DEF Inv

\* A step of a running program that leaves file and device alone.
LEMMA RunningInv ==
  ASSUME Inv, at \notin {"off", "saving"}, at' \in {"vflip", "hflip", "running"},
         UNCHANGED <<machine, file, program, fd, webcam, saved>>,
         Types', IsSettings(settings'),
         FlipPending', FlipsApplied', RotatedUntilFlipped'
  PROVE  Inv'
<1>1. SettingsTypes' /\ SettingsKept'
  BY DEF Inv, SettingsTypes, SettingsKept
<1>2. OffClean' /\ SavingIdle' /\ DeviceKnown'
  BY DEF Inv, OffClean, SavingIdle, DeviceKnown
<1>. QED  BY <1>1, <1>2 DEF Inv

\* LoadSettings and the flips of the GUI.
LEMMA GuiStartInv ==
  ASSUME Inv, NEW v4l2_dev, NEW size \in SizeOptions, GuiStart(v4l2_dev, size)
  PROVE  Inv'
<1>1. size \in Int \X Int
  BY DataAssumption
<1>2. IsSettings(LoadSettings(file))
  BY LoadedIsSettings DEF Inv, SettingsTypes
<1>3. IsSettings(settings') /\ FlipsOf(settings') = FlipsOf(LoadSettings(file))
  <2>1. settings' = WithSize(LoadSettings(file), size)
    BY DEF GuiStart
  <2>2. CASE size = NoSize
    BY <1>2, <2>1, <2>2 DEF WithSize
  <2>3. CASE size # NoSize
    <3>1. settings' = [LoadSettings(file) EXCEPT !.size = size]
      BY <2>1, <2>3 DEF WithSize
    <3>2. {"size", "vertical_flip", "horizontal_flip"} \subseteq Fields
      BY DEF Fields, Defaults
    <3>. QED  BY <1>1, <1>2, <3>1, <3>2 DEF IsSettings, FlipsOf
  <2>. QED  BY <2>2, <2>3
<1>4. FlipsOf(LoadSettings(file)) = FlipsOf(saved)
  BY <1>2, KeptFlips DEF Inv, SettingsTypes, SettingsKept, GuiStart
<1>5. wanted' = FlipsOf(settings') /\ wanted' \subseteq {"h", "v"}
  BY <1>3, <1>4 DEF GuiStart, FlipsOf
<1>6. op' \in FlipOps /\ Axes(op') = wanted'
  BY <1>5, ReloadedFlips DEF GuiStart
<1>7. settings'.size \in Int \X Int
  BY <1>3 DEF IsSettings
<1>8. thread = "none"
  BY DEF GuiStart, Inv, OffClean
<1>. QED
  BY <1>3, <1>5, <1>6, <1>7, <1>8, StartInv DEF GuiStart, Inv, Types

\* The options of the command line client.
LEMMA CliStartInv ==
  ASSUME Inv, NEW v4l2_dev, NEW size \in SizeOptions,
         NEW flips \in SUBSET {"h", "v"}, CliStart(v4l2_dev, size, flips)
  PROVE  Inv'
<1>1. (IF size = NoSize THEN Defaults.size ELSE size) \in Int \X Int
  BY DataAssumption DEF Defaults
<1>2. IsSettings(settings') /\ FlipsOf(settings') = flips
  <2>1. {"vertical_flip", "horizontal_flip", "size"} \subseteq Fields
    BY DEF Fields, Defaults
  <2>2. /\ DOMAIN settings' = Fields
        /\ settings'.size = Defaults.size
        /\ settings'.vertical_flip = IF "v" \in flips THEN 1 ELSE 0
        /\ settings'.horizontal_flip = IF "h" \in flips THEN 1 ELSE 0
    BY <2>1, DefaultsAreSettings DEF CliStart, IsSettings
  <2>3. IsSettings(settings')
    BY <2>2, DefaultsAreSettings DEF IsSettings
  <2>4. /\ settings'.vertical_flip = 1 <=> "v" \in flips
        /\ settings'.horizontal_flip = 1 <=> "h" \in flips
    BY <2>2
  <2>5. FlipsOf(settings') = flips
    BY <2>4 DEF FlipsOf
  <2>. QED  BY <2>3, <2>5
<1>3. op = "none"
  BY DEF CliStart, Inv, OffClean
<1>. QED
  BY <1>1, <1>2, <1>3, StartInv DEF CliStart, FlipOps

\* The widgets and the address set no flip.
LEMMA SettingInv ==
  ASSUME Inv, Widget \/ GuiSession
  PROVE  Inv'
<1>1. at = "running" /\ program = "gui" /\ flip = NoFlip
  BY DEF Widget, GuiSession, MainIsFree
<1>2. UNCHANGED <<machine, file, program, at, decoder, flip, saved, wanted, turned>>
  BY DEF Widget, GuiSession
<1>2a. PICK field \in {"audio", "video", "connection", "ip"} :
         \E value : settings' = [settings EXCEPT ![field] = value]
  BY DEF Widget, GuiSession
<1>3. PICK value : settings' = [settings EXCEPT ![field] = value]
  BY <1>2a
<1>4. IsSettings(settings') /\ FlipsOf(settings') = FlipsOf(settings)
  <2>1. {"size", "vertical_flip", "horizontal_flip"} \subseteq Fields
    BY DEF Fields, Defaults
  <2>. QED
    BY <1>3, <2>1 DEF Inv, SettingsTypes, IsSettings, FlipsOf
<1>5. thread' \in {thread, "waiting"} /\ v_running' \in {v_running, 1}
  BY DEF Widget, GuiSession
<1>6. Types'
  BY <1>2, <1>5 DEF Inv, Types, decoder
<1>7. FlipPending' /\ FlipsApplied' /\ RotatedUntilFlipped'
  BY <1>1, <1>2, <1>4, <1>5
  DEF Inv, FlipPending, FlipsApplied, Applied, RotatedUntilFlipped, decoder, invert
<1>. QED  BY <1>1, <1>2, <1>4, <1>6, <1>7, RunningInv DEF decoder

\* Flags and threads that come and go.
LEMMA ThreadInv ==
  ASSUME Inv, at \notin {"off", "saving"},
         UNCHANGED <<machine, file, program, at, settings, decoder, flip, saved,
                     wanted, turned>>,
         v_running' \in {0, 1}, thread' \in {thread, "none", "waiting"}
  PROVE  Inv'
<1>1. Types'
  BY DEF Inv, Types, decoder
<1>2. FlipPending' /\ FlipsApplied' /\ RotatedUntilFlipped'
  BY DEF Inv, FlipPending, FlipsApplied, Applied, RotatedUntilFlipped, decoder, invert
<1>. QED
  BY <1>1, <1>2, RunningInv DEF Inv, Types, SettingsTypes, decoder

\* A flip is read.
LEMMA FlipReadInv ==
  ASSUME Inv, NEW axis \in {"h", "v"}, FlipRead(axis)
  PROVE  Inv'
<1>1. /\ flip' = [axis |-> axis, op |-> Flipped(axis, op)]
      /\ UNCHANGED <<machine, file, program, at, settings, decoder, v_running,
                     thread, runs, saved, wanted, turned>>
      /\ at \in {"vflip", "hflip", "running"}
      /\ at = "vflip" => axis = "v" /\ settings.vertical_flip = 1
      /\ at = "hflip" => axis = "h" /\ settings.horizontal_flip = 1
  BY DEF FlipRead, UserFlips, OptionFlips
<1>2. flip'.axis = axis /\ flip'.op = Flipped(axis, op)
  BY <1>1
<1>3. Flipped(axis, op) \in FlipOps
  BY FlipNeverRotates DEF Inv, Types, FlipOps
<1>4. FlipPending'
  BY <1>1, <1>2, <1>3 DEF FlipPending, FlipOps, decoder
<1>5. Types' /\ FlipsApplied' /\ RotatedUntilFlipped'
  BY <1>1
  DEF Inv, Types, FlipsApplied, Applied, RotatedUntilFlipped, decoder, invert
<1>. QED
  BY <1>1, <1>4, <1>5, RunningInv DEF Inv, SettingsTypes, decoder

\* A flip is written, with the setting of its axis.
LEMMA FlipWriteInv == ASSUME Inv, FlipWrite  PROVE Inv'
<1>. DEFINE axis == flip.axis
            now == IF axis \in Axes(flip.op) THEN 1 ELSE 0
<1>1. /\ flip' = NoFlip /\ op' = flip.op /\ turned' = TRUE
      /\ UNCHANGED <<machine, file, program, fd, webcam, v_running, thread, saved>>
      /\ axis \in {"h", "v"} /\ flip.op \in FlipOps
      /\ at \in {"vflip", "hflip", "running"}
      /\ at' \in {"hflip", "running"} /\ (at' = "hflip" => at = "vflip")
      /\ at \in {"vflip", "hflip"} => program = "cli"
  BY DEF FlipWrite, Inv, Types, FlipPending, OffClean, SavingIdle, FlipOps
<1>2. wanted' \subseteq {"h", "v"}
  BY <1>1 DEF FlipWrite, Inv, Types
<1>3. Types'
  BY <1>1, <1>2 DEF Inv, Types, FlipOps
<1>4. /\ IsSettings(settings')
      /\ program = "gui" => FlipsOf(settings') =
           (FlipsOf(settings) \ {axis}) \union ({axis} \intersect Axes(flip.op))
      /\ program = "cli" => settings' = settings
  <2>1. {"size", "vertical_flip", "horizontal_flip"} \subseteq Fields
    BY DEF Fields, Defaults
  <2>2. IsSettings(settings)
    BY DEF Inv, SettingsTypes
  <2>3. CASE program = "cli"
    BY <2>2, <2>3 DEF FlipWrite
  <2>4. CASE program # "cli"
    <3>1. \/ axis = "h" /\ settings' = [settings EXCEPT !.horizontal_flip = now]
          \/ axis = "v" /\ settings' = [settings EXCEPT !.vertical_flip = now]
      BY <1>1, <2>4 DEF FlipWrite
    <3>2. now \in {0, 1} /\ (now = 1 <=> axis \in Axes(flip.op))
      OBVIOUS
    <3>. HIDE DEF now, axis
    <3>3. CASE axis = "h" /\ settings' = [settings EXCEPT !.horizontal_flip = now]
      <4>1. IsSettings(settings') /\ settings'.horizontal_flip = now
              /\ settings'.vertical_flip = settings.vertical_flip
        BY <2>1, <2>2, <3>3 DEF IsSettings
      <4>. QED  BY <4>1, <3>2, <3>3, <2>4 DEF FlipsOf
    <3>4. CASE axis = "v" /\ settings' = [settings EXCEPT !.vertical_flip = now]
      <4>1. IsSettings(settings') /\ settings'.vertical_flip = now
              /\ settings'.horizontal_flip = settings.horizontal_flip
        BY <2>1, <2>2, <3>4 DEF IsSettings
      <4>. QED  BY <4>1, <3>2, <3>4, <2>4 DEF FlipsOf
    <3>. QED  BY <3>1, <3>3, <3>4
  <2>. QED  BY <2>3, <2>4
<1>5. FlipPending' /\ RotatedUntilFlipped'
  BY <1>1 DEF FlipPending, RotatedUntilFlipped, FlipOps
<1>6. FlipsApplied'
  <2>. SUFFICES ASSUME ~invert
                PROVE  /\ Axes(op') = Applied' /\ op' # "rot90"
                       /\ at' # "running" => FlipsOf(settings') = wanted'
                       /\ program = "gui" => FlipsOf(settings') = wanted'
    BY <1>1 DEF FlipsApplied, invert
  <2>1. /\ op' = Flipped(axis, op) /\ op \in FlipOps
        /\ Axes(op) = Applied
        /\ at # "running" => FlipsOf(settings) = wanted
        /\ program = "gui" => FlipsOf(settings) = wanted
    BY <1>1 DEF Inv, Types, FlipPending, FlipsApplied, FlipOps, FlipWrite
  <2>2. Axes(op') = (Axes(op) \ {axis}) \union ({axis} \ Axes(op)) /\ op' # "rot90"
    BY <1>1, <2>1, FlipToggles DEF FlipOps
  <2>. HIDE DEF axis, now
  <2>3. CASE at = "running"
    <3>1. wanted' = (wanted \ {axis}) \union ({axis} \ wanted) /\ at' = "running"
      BY <2>3 DEF FlipWrite, axis
    <3>2. Axes(op) = wanted /\ Axes(op') = wanted'
      BY <2>1, <2>2, <2>3, <3>1 DEF Applied
    <3>3. axis \in Axes(flip.op) <=> axis \notin wanted
      BY <1>1, <2>2, <3>2
    <3>4. program = "gui" => FlipsOf(settings') = wanted'
      BY <1>4, <2>1, <3>1, <3>3
    <3>. QED
      BY <2>2, <3>1, <3>2, <3>4 DEF Applied
  <2>4. CASE at = "vflip"
    <3>1. wanted' = wanted /\ at' = "hflip" /\ axis = "v" /\ program = "cli"
            /\ "v" \in wanted
      BY <1>1, <2>1, <2>4 DEF FlipWrite, Inv, FlipPending, FlipsOf, axis
    <3>2. Axes(op) = {}
      BY <2>1, <2>4 DEF Applied
    <3>3. Applied' = wanted \intersect {"v"} /\ Axes(op') = {"v"}
      BY <2>2, <3>1, <3>2 DEF Applied
    <3>. QED
      BY <1>4, <2>1, <2>2, <2>4, <3>1, <3>3
  <2>5. CASE at = "hflip"
    <3>1. wanted' = wanted /\ at' = "running" /\ axis = "h" /\ program = "cli"
            /\ "h" \in wanted /\ wanted \subseteq {"h", "v"}
      BY <1>1, <2>1, <2>5 DEF FlipWrite, Inv, Types, FlipPending, FlipsOf, axis
    <3>2. Axes(op) = wanted \intersect {"v"}
      BY <2>1, <2>5 DEF Applied
    <3>3. Applied' = wanted /\ Axes(op') = wanted
      BY <2>2, <3>1, <3>2 DEF Applied
    <3>. QED
      BY <1>4, <2>1, <2>2, <2>5, <3>1, <3>3
  <2>. QED  BY <1>1, <2>3, <2>4, <2>5
<1>. QED  BY <1>1, <1>3, <1>4, <1>5, <1>6, RunningInv

\* An option of the command line that is not given flips nothing.
LEMMA CliNoFlipInv == ASSUME Inv, CliNoFlip  PROVE Inv'
<1>1. /\ flip = NoFlip
      /\ UNCHANGED <<machine, file, program, settings, decoder, v_running, thread,
                     flip, runs, changes, saved, wanted, turned>>
      /\ \/ at = "vflip" /\ settings.vertical_flip = 0 /\ at' = "hflip"
         \/ at = "hflip" /\ settings.horizontal_flip = 0 /\ at' = "running"
      /\ program = "cli"
  BY DEF CliNoFlip, Inv, Types
<1>2. Types' /\ FlipPending' /\ RotatedUntilFlipped'
  BY <1>1 DEF Inv, Types, FlipPending, RotatedUntilFlipped, decoder, invert
<1>3. FlipsApplied'
  <2>1. wanted \subseteq {"h", "v"}
    BY DEF Inv, Types
  <2>2. ~invert => Applied' = Applied
    BY <1>1, <2>1 DEF Inv, FlipsApplied, Applied, FlipsOf
  <2>. QED
    BY <1>1, <2>2 DEF Inv, FlipsApplied, invert, decoder
<1>. QED
  BY <1>1, <1>2, <1>3, RunningInv DEF Inv, SettingsTypes, decoder

\* The video thread rotates the picture of a portrait device, and no other.
LEMMA PrepareInv == ASSUME Inv, Prepare  PROVE Inv'
<1>1. /\ UNCHANGED <<machine, file, program, at, settings, fd, webcam, v_running,
                     flip, saved, wanted>>
      /\ thread' = "prepared" /\ turned' = FALSE
      /\ op' = IF invert THEN "rot90" ELSE op
      /\ thread = "waiting"
  BY DEF Prepare
<1>2. at \notin {"off", "saving"}
  BY <1>1 DEF Prepare, Inv, OffClean, SavingIdle
<1>3. Types' /\ FlipPending' /\ FlipsApplied' /\ RotatedUntilFlipped'
  BY <1>1
  DEF Inv, Types, FlipPending, FlipsApplied, Applied, RotatedUntilFlipped, invert
<1>. QED
  BY <1>1, <1>2, <1>3, RunningInv DEF Inv, Types, SettingsTypes

\* The window has closed and the file is open for writing.
LEMMA GuiQuitInv == ASSUME Inv, GuiQuit  PROVE Inv'
<1>1. /\ at' = "saving" /\ file' = NoFile /\ fd' = 0 /\ flip = NoFlip
      /\ thread = "none" /\ v_running = 0
      /\ UNCHANGED <<machine, program, settings, webcam, op, v_running, thread,
                     flip, saved, wanted, turned>>
  BY DEF GuiQuit, MainIsFree
<1>2. SettingsTypes'
  BY <1>1 DEF Inv, SettingsTypes, NoFile
<1>3. SettingsKept'
  BY <1>1, LoadedNothing DEF SettingsKept
<1>4. Types'
  BY <1>1 DEF Inv, Types
<1>5. OffClean' /\ SavingIdle' /\ DeviceKnown' /\ FlipPending' /\ FlipsApplied'
  BY <1>1 DEF OffClean, SavingIdle, DeviceKnown, FlipPending, FlipsApplied
<1>6. RotatedUntilFlipped'
  BY <1>1 DEF Inv, RotatedUntilFlipped, invert
<1>. QED  BY <1>2, <1>3, <1>4, <1>5, <1>6 DEF Inv

\* The invariant is inductive.
LEMMA NextInv == Inv /\ [Next]_vars => Inv'
<1>. SUFFICES ASSUME Inv, [Next]_vars  PROVE Inv'
  OBVIOUS
<1>1. CASE \E v4l2_dev \in DevOptions, size \in SizeOptions :
             \/ GuiStart(v4l2_dev, size)
             \/ \E flips \in SUBSET {"h", "v"} : CliStart(v4l2_dev, size, flips)
  BY <1>1, GuiStartInv, CliStartInv
<1>2. CASE Widget \/ GuiSession
  BY <1>2, SettingInv
<1>3. CASE Stop
  <2>1. at \notin {"off", "saving"}
    BY <1>3 DEF Stop, MainIsFree, Inv, Types, OffClean, SavingIdle
  <2>. QED  BY <1>3, <2>1, ThreadInv DEF Stop
<1>4. CASE GuiQuit
  BY <1>4, GuiQuitInv
<1>5. CASE SaveEnds
  <2>1. IsSettings(settings)
    BY DEF Inv, SettingsTypes
  <2>2. "size" \in DOMAIN file' => file'.size \in Int \X Int
    BY <1>5, <2>1 DEF SaveEnds, SavedFile, IsSettings, Fields, Defaults
  <2>. QED
    BY <1>5, <2>1, <2>2, RoundTrip, ExitInv DEF SaveEnds
<1>6. CASE Killed
  BY <1>6, DefaultsAreSettings, ExitInv DEF Killed, Inv, SettingsTypes, SettingsKept
<1>7. CASE CliNoFlip
  BY <1>7, CliNoFlipInv
<1>8. CASE CliEnds
  <2>1. Kept(LoadSettings(file)) = Kept(saved)
    BY <1>8 DEF CliEnds, MainIsFree, Inv, SettingsKept
  <2>. QED
    BY <1>8, <2>1, ExitInv DEF CliEnds, Inv, SettingsTypes
<1>9. CASE \E axis \in {"h", "v"} : FlipRead(axis)
  BY <1>9, FlipReadInv
<1>10. CASE FlipWrite
  BY <1>10, FlipWriteInv
<1>11. CASE Prepare
  BY <1>11, PrepareInv
<1>12. CASE ThreadEnds
  <2>1. at \notin {"off", "saving"}
    BY <1>12 DEF ThreadEnds, Inv, OffClean, SavingIdle
  <2>. QED  BY <1>12, <2>1, ThreadInv DEF ThreadEnds, Inv, Types
<1>13. CASE UNCHANGED vars
  BY <1>13
  DEF vars, decoder, Inv, Types, SettingsTypes, OffClean, SavingIdle, DeviceKnown,
      FlipPending, FlipsApplied, Applied, SettingsKept, RotatedUntilFlipped, invert
<1>. QED
  BY <1>1, <1>2, <1>3, <1>4, <1>5, <1>6, <1>7, <1>8, <1>9, <1>10, <1>11, <1>12,
     <1>13 DEF Next

-----------------------------------------------------------------------------
(* Theorems.                                                               *)

\* The invariant holds in every state.
THEOREM PreferencesInvariance == Spec => []Inv
  BY InitInv, NextInv, PTL DEF Spec

\* Settings survive from run to run as they were saved last, or as the defaults
\* after a crash, whatever version the first file had (settings.c:31-166).
THEOREM SettingsSurvive == Spec => []SettingsKept
<1>1. Inv => SettingsKept
  BY DEF Inv
<1>. QED  BY <1>1, PreferencesInvariance, PTL

\* No flip of a landscape picture is lost, although the main thread and the
\* video thread change the transform without a lock (decoder.c:207, 423-449).
THEOREM FlipsSurvive == Spec => []FlipsKept
<1>1. Inv => FlipsKept
  BY DEF Inv, FlipsApplied, Applied, FlipsKept
<1>. QED  BY <1>1, PreferencesInvariance, PTL

\* The picture of a portrait device is rotated in every session, and no other.
THEOREM PortraitIsRotated == Spec => []RotatedUntilFlipped
<1>1. Inv => RotatedUntilFlipped
  BY DEF Inv
<1>. QED  BY <1>1, PreferencesInvariance, PTL

\* Pictures have the size of the device they are written to, and its format
\* unless the driver adjusted that, on every machine with any number of devices
\* and whatever formats its drivers adjust to (decoder_v4l2.c:136-207).
THEOREM PicturesFitDevice == Spec => []DeviceMatches
<1>1. Inv => DeviceMatches
  BY DEF Inv, DeviceKnown, DeviceMatches
<1>. QED  BY <1>1, PreferencesInvariance, PTL

=============================================================================
