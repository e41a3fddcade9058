--------------------------- MODULE MCPreferences ---------------------------
(* The instance of Preferences that Preferences.cfg checks. *)
EXTENDS Preferences

Landscape == <<640, 480>>
Portrait  == <<480, 640>>

Device(bus, opens, yuv, size, s_fmt) ==
  [bus |-> bus, opens |-> opens, yuv |-> yuv, size |-> size, s_fmt |-> s_fmt]

Camera == Device(Other, TRUE, FALSE, Landscape, "refuses")
Busy   == Device(Dc, FALSE, TRUE, Landscape, "refuses")

\* The driver's device, of either shape, in the wrong format, behind a camera,
\* busy; and devices of v4l2loopback that take a format, keep one or adjust it.
MCMachines ==
  {<<Device(Dc, TRUE, TRUE, Landscape, "refuses")>>,
   <<Camera, Device(Dc, TRUE, TRUE, Portrait, "refuses")>>,
   <<Device(Dc, TRUE, FALSE, Landscape, "refuses")>>,
   <<Busy, Device(Generic, TRUE, FALSE, Portrait, "takes")>>,
   <<Device(Generic, TRUE, TRUE, Portrait, "refuses"), Busy>>,
   <<Device(Generic, TRUE, FALSE, Portrait, "adjusts")>>,
   <<Camera>>}

\* No file, one of each version, and one of version 4 with an unusable size.
MCFiles ==
  {NoFile,
   [version |-> 1, ip |-> "phone", port |-> 5000],
   [version |-> 2, ip |-> "phone", port |-> 5000, audio |-> 1, connection |-> "adb"],
   [version |-> 3, ip |-> "", port |-> 4747, audio |-> 1, video |-> 0,
    connection |-> "wifi"],
   [version |-> 4, ip |-> "phone", port |-> 5000, audio |-> 0, video |-> 1,
    size |-> <<0, 480>>, connection |-> "server", adb_auto_start |-> 1,
    confirm_close |-> 0, vertical_flip |-> 1, horizontal_flip |-> 1]}

\* A size of the driver's own, too large for the client too, or a pixel format.
MCAdjusted ==
  {[size |-> Portrait, yuv |-> TRUE], [size |-> Landscape, yuv |-> FALSE],
   [size |-> <<10000, 480>>, yuv |-> TRUE]}

\* -size is not checked until a device is asked for it.
MCSizeOptions == {NoSize, Portrait, <<0, 480>>}

=============================================================================
