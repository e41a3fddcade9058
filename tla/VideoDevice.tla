----------------------------- MODULE VideoDevice -----------------------------
(***************************************************************************)
(* How the client finds the device it writes to and learns its size        *)
(* (decoder_v4l2.c and decoder_init in decoder.c).  A machine is a sequence *)
(* of devices, /dev/video0 first; a device is a record                     *)
(*   [bus, opens, yuv, size, s_fmt]                                        *)
(* with the driver that reports it, whether it can be opened, whether its  *)
(* format is YUV420, its size, and what VIDIOC_S_FMT does: the driver      *)
(* takes the format it is asked for, adjusts it (v4l2loopback-dc.c:900-940 *)
(* is one that does) and reports success all the same, or refuses it.  A   *)
(* descriptor is the index of the device, 0 a device that did not open.    *)
(***************************************************************************)
EXTENDS Integers, Sequences, FiniteSetsExt

Dc      == "dc"        \* the driver of this repository, v4l2loopback_dc
Generic == "generic"   \* v4l2loopback
Other   == "other"     \* a camera, or something that is none

Devices ==
  [bus : {Dc, Generic, Other}, opens : BOOLEAN, yuv : BOOLEAN,
   size : Int \X Int, s_fmt : {"takes", "adjusts", "refuses"}]

Formats == [size : Int \X Int, yuv : BOOLEAN]

NoSize  == <<0, 0>>
Small   == <<320, 240>>   \* without a device

open_v4l2_device(machine, d) ==
  IF d \in DOMAIN machine /\ machine[d].opens THEN d ELSE 0

\* The bus name is compared as a prefix, and that of v4l2loopback is one of
\* v4l2loopback_dc's.
Buses(bus) == IF bus = Generic THEN {Generic, Dc} ELSE {bus}

\* The first device of the bus that opens; the others are closed again.
find_v4l2_device(machine, bus) ==
  LET found == {d \in DOMAIN machine : machine[d].opens /\ machine[d].bus \in Buses(bus)}
  IN IF found = {} THEN -1 ELSE Min(found)

\* A device other than the driver's own is asked for the wanted size.
IsAsked(machine, fd) == fd > 0 /\ machine[fd].bus = Generic

\* The formats in which S_FMT may leave the device; a driver that adjusts
\* chooses among those given.
S_FMT(device, asked, adjusted) ==
  CASE device.s_fmt = "takes" -> {[size |-> asked, yuv |-> TRUE]}
    [] device.s_fmt = "adjusts" -> adjusted
    [] OTHER -> {[size |-> device.size, yuv |-> device.yuv]}

\* Mutant: a device that is never asked has any format.
query_v4l_device_NoTest(machine, fd) ==
  IF fd = 0 \/ (fd > 0 /\ machine[fd].bus = Other) THEN NoSize
  ELSE machine[fd].size

\* The size the client takes from the device, which has been asked.  A driver
\* that reported success is believed, one that kept its format has to have the
\* right one.  Standard input, which descriptor 0 is, is no device.
query_v4l_device(machine, fd) ==
  IF fd = 0 \/ (fd > 0 /\ machine[fd].bus = Other) THEN NoSize
  ELSE IF IsAsked(machine, fd) /\ machine[fd].s_fmt # "refuses" THEN machine[fd].size
  ELSE IF machine[fd].yuv THEN machine[fd].size
  ELSE NoSize

\* The device of -dev, else one of the driver's own, else one of v4l2loopback.
ChosenDevice(machine, v4l2_dev) ==
  LET own == find_v4l2_device(machine, Dc)
  IN IF v4l2_dev # 0 THEN open_v4l2_device(machine, v4l2_dev)
     ELSE IF own > 0 THEN own
     ELSE find_v4l2_device(machine, Generic)

\* The machine after the device fd was asked for a size and given a format.
Formatted(machine, fd, format) ==
  [machine EXCEPT ![fd].size = format.size, ![fd].yuv = format.yuv]

=============================================================================
