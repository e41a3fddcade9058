----------------------------- MODULE ClientSession -----------------------------
(***************************************************************************)
(* The threads of a client over its sessions (droidcam.c, droidcam-cli.c,  *)
(* av.c): the main thread of the GUI runs the_callback, Start and Stop, and *)
(* that of the command line client main and sig_handler for one session.   *)
(* A session has a video thread, an audio thread and, in the GUI, a battery *)
(* thread, which talk through the flags v_running, a_running, v_active and *)
(* a_active and open connections of their own.  VideoSession has the inside *)
(* of the video thread and the decode thread, which ends as soon as        *)
(* v_running is 0.                                                         *)
(***************************************************************************)
EXTENDS Integers

CONSTANTS
  Programs,     \* "gui" (droidcam.c), "cli" (droidcam-cli.c)
  Modes,        \* what the user can connect with
  MaxSessions,  \* bound: presses of the start button
  MaxClicks     \* bound: clicks on the mode buttons during a session

ASSUME ProgramsAssumption == Programs \subseteq {"gui", "cli"}
ASSUME ModesAssumption == Modes \subseteq {"wifi", "adb", "ios", "server"}

VARIABLES
  program, closing,            \* closing: gtk_main has ended
  connection, ip, audio, video,    \* g_settings
  keep_waiting,                \* of the video thread
  v_running, a_running, v_active, a_active,
  ctl, vpc, apc, bpc,          \* main, video, audio and battery thread
  socket,                      \* of each thread: how it is connected
  label, button,               \* battery label (whose session), start button
  session, mode, clicks,       \* sessions started, the current one's mode
  leaked                       \* UDP sockets nobody closes any more

settings == <<program, connection, ip, audio, video>>
flags    == <<v_running, a_running, v_active, a_active>>
pcs      == <<ctl, vpc, apc, bpc>>
widgets  == <<label, button>>
history  == <<session, mode, clicks, leaked>>
vars == <<settings, closing, keep_waiting, flags, pcs, socket, widgets, history>>

Threads == {"video", "audio", "battery"}
None == "none"

\* The text of the start button, which is idle.
Label(m) == IF m = "server" THEN "Prepare" ELSE "Connect"

\* The address in the saved settings is that of a phone.
Init ==
  /\ program \in Programs /\ closing = FALSE
  /\ connection \in Modes /\ ip = "wifi" /\ keep_waiting = 0
  /\ audio \in BOOLEAN /\ video \in BOOLEAN
  /\ v_running = 0 /\ a_running = 0 /\ v_active = 0 /\ a_active = 0
  /\ ctl = "idle" /\ vpc = "done" /\ apc = "done" /\ bpc = "done"
  /\ socket = [t \in Threads |-> None]
  /\ label = 0 /\ button = Label(connection)
  /\ session = 0 /\ mode = connection /\ clicks = 0 /\ leaked = 0

-----------------------------------------------------------------------------
(* The main thread.                                                        *)

\* A mode button; it is sensitive also during a session.
Radio(m) ==
  /\ program = "gui" /\ ~closing
  /\ ctl \in {"idle", "running"} /\ m # connection
  /\ ctl = "running" => clicks < MaxClicks
  /\ connection' = m
  /\ clicks' = IF ctl = "running" THEN clicks + 1 ELSE clicks
  /\ button' = IF v_running = 0 THEN Label(m) ELSE button
  /\ UNCHANGED <<program, closing, ip, audio, video, keep_waiting, flags, pcs,
                 socket, label, session, mode, leaked>>

\* The audio and video boxes, sensitive under the label "Connect".
Checkbox ==
  /\ program = "gui" /\ ~closing
  /\ ctl \in {"idle", "running"} /\ button = "Connect"
  /\ audio' \in BOOLEAN /\ video' \in BOOLEAN
  /\ UNCHANGED <<program, closing, connection, ip, keep_waiting, flags, pcs, socket, widgets, history>>

\* The threads of a session; each only if its flag is set.
Connected(m, withVideo, withAudio) ==
  /\ ctl' = "running"
  /\ session' = session + 1 /\ mode' = m /\ clicks' = 0
  /\ keep_waiting' = 0
  /\ IF withVideo
       THEN /\ v_running' = 1
            /\ vpc' = IF m = "server" THEN "accept" ELSE "request"
            /\ socket' = IF m = "server" THEN socket
                         ELSE [socket EXCEPT !["video"] = m]
       ELSE UNCHANGED <<v_running, vpc, socket>>
  /\ IF withAudio
       THEN a_running' = 1 /\ apc' = "start"
       ELSE UNCHANGED <<a_running, apc>>

\* Start; a port, device or address that is refused changes nothing.
Start ==
  /\ program = "gui" /\ ~closing
  /\ ctl = "idle" /\ v_running = 0 /\ a_running = 0
  /\ session < MaxSessions
  /\ button' = "Stop"
  /\ \/ /\ connection = "server"
        /\ Connected("server", TRUE, FALSE)
        /\ UNCHANGED <<ip, bpc, v_active, a_active>>
     \/ /\ connection # "server" /\ (audio \/ video)
        /\ ip' = IF connection = "ios" THEN ip ELSE connection
        /\ Connected(connection, video, audio)
        /\ v_active' = IF video THEN 0 ELSE v_active
        /\ a_active' = IF audio THEN 0 ELSE a_active
        /\ bpc' = "check"
  /\ UNCHANGED <<program, closing, connection, audio, video, label, leaked>>

\* main of the command line client, up to wait_command: video unless only audio
\* is asked for, no audio for a server, and no battery thread.
CliStart ==
  /\ program = "cli" /\ ctl = "idle"
  /\ IF connection = "server"
       THEN Connected("server", TRUE, FALSE) /\ UNCHANGED ip
       ELSE /\ Connected(connection, video \/ ~audio, audio)
            /\ ip' = IF connection = "ios" THEN ip ELSE connection
  /\ UNCHANGED <<program, closing, connection, audio, video, v_active, a_active,
                 bpc, widgets, leaked>>

\* The window is destroyed, and main goes on to Stop whatever runs.
Quit ==
  /\ program = "gui" /\ ctl \in {"idle", "running"}
  /\ ~closing /\ closing' = TRUE
  /\ ctl' = "running"
  /\ UNCHANGED <<settings, keep_waiting, flags, vpc, apc, bpc, socket, widgets,
                 history>>

\* Stop, or sig_handler, in the same order: the flags, one after the other.
\* Then the joins; the command line client sees both flags first.
StopAudio ==
  /\ ctl = "running" /\ ctl' = "stopVideo"
  /\ a_running' = 0
  /\ UNCHANGED <<settings, closing, keep_waiting, v_running, v_active, a_active,
                 vpc, apc, bpc, socket, widgets, history>>

StopVideo ==
  /\ ctl = "stopVideo" /\ ctl' = "join"
  /\ v_running' = 0
  /\ UNCHANGED <<settings, closing, keep_waiting, a_running, v_active, a_active,
                 vpc, apc, bpc, socket, widgets, history>>

\* Mutant: the battery thread is not joined.
Joined_NotBattery == vpc = "done" /\ apc = "done"

Joined == vpc = "done" /\ apc = "done" /\ bpc = "done"

\* The end of Stop and of the_callback after it, or the end of main.
StopEnds ==
  /\ ctl = "join" /\ Joined
  /\ IF program = "cli"
       THEN ctl' = "gone" /\ UNCHANGED <<a_active, v_active, widgets>>
       ELSE /\ a_active' = 0 /\ v_active' = 0 /\ label' = 0
            /\ IF closing
                 THEN ctl' = "gone" /\ UNCHANGED button
                 ELSE ctl' = "idle" /\ button' = Label(connection)
  /\ UNCHANGED <<settings, closing, keep_waiting, v_running, a_running, vpc, apc,
                 bpc, socket, history>>

-----------------------------------------------------------------------------
(* Connections.                                                            *)

Close(t) == socket' = [socket EXCEPT ![t] = None]

\* Mutant: always over the network.
GetConnection_Ip(t) == socket' = [socket EXCEPT ![t] = ip]

\* GetConnection: usbmuxd for iOS, otherwise Connect to g_settings.ip.
GetConnection(t) ==
  socket' = [socket EXCEPT ![t] = IF connection = "ios" THEN "ios" ELSE ip]

\* Sockets of Connect have a receive timeout, those of usbmuxd and accept not.
Timed(t) == socket[t] \in {"wifi", "adb"}

-----------------------------------------------------------------------------
(* VideoThreadProc.                                                        *)

Video(from, to) ==
  /\ vpc = from /\ vpc' = to
  /\ UNCHANGED <<settings, closing, v_running, a_running, a_active, ctl, apc, bpc,
                 widgets, history>>

VideoAccept ==
  /\ \/ /\ Video("accept", "request") /\ v_running = 1
        /\ socket' = [socket EXCEPT !["video"] = "server"]
        /\ keep_waiting' = 1
     \/ Video("accept", "exit") /\ UNCHANGED <<keep_waiting, socket>>
  /\ UNCHANGED v_active

\* Request, then a blocking receive of the answer.
VideoReply ==
  /\ \/ Video("request", "stream") /\ v_active' = 1
     \/ Video("request", "exit") /\ UNCHANGED v_active
  /\ UNCHANGED <<keep_waiting, socket>>

VideoLost ==
  Video("stream", "exit") /\ UNCHANGED <<v_active, keep_waiting, socket>>

\* The loop ends when the frame being received does.
VideoStopped == v_running = 0 /\ VideoLost

\* Mutant: a server waits again after Stop.
VideoExit_IgnoresStop ==
  /\ IF keep_waiting = 1 THEN Video("exit", "accept") ELSE Video("exit", "done")
  /\ v_active' = 0
  /\ Close("video")
  /\ UNCHANGED keep_waiting

VideoExit ==
  /\ IF v_running = 1 /\ keep_waiting = 1
       THEN Video("exit", "accept") ELSE Video("exit", "done")
  /\ v_active' = 0
  /\ Close("video")
  /\ UNCHANGED keep_waiting

-----------------------------------------------------------------------------
(* AudioThreadProc.                                                        *)

Audio(from, to) ==
  /\ apc = from /\ apc' = to
  /\ UNCHANGED <<settings, closing, keep_waiting, v_running, a_running, v_active, ctl,
                 vpc, bpc, widgets, session, mode, clicks>>

AudioStart ==
  /\ Audio("start", "wait") \/ Audio("start", "done")  \* no audio device
  /\ UNCHANGED <<a_active, socket, leaked>>

\* Wait for video: the loop reads the three flags one after the other.
AudioWait ==
  /\ \/ Audio("wait", "choose") /\ v_running = 0
     \/ Audio("wait", "waitActive") /\ v_running = 1
     \/ Audio("waitActive", "choose") /\ v_active = 1
     \/ Audio("waitActive", "waitRunning") /\ v_active = 0
     \/ Audio("waitRunning", "wait") /\ a_running = 1
     \/ Audio("waitRunning", "done") /\ a_running = 0
  /\ UNCHANGED <<a_active, socket, leaked>>

\* iOS and the adb address go straight to TCP.
AudioChoose ==
  /\ \/ /\ connection # "ios" /\ ip # "adb"
        /\ Audio("choose", "udp")
        /\ socket' = [socket EXCEPT !["audio"] = "udp"]
     \/ Audio("choose", "tcp") /\ UNCHANGED socket  \* or socket() failed
  /\ UNCHANGED <<a_active, leaked>>

\* An answer, or none after three requests: then the socket is forgotten.
AudioUdp ==
  \/ /\ Audio("udp", "stream")
     /\ a_active' = 1
     /\ UNCHANGED <<socket, leaked>>
  \/ /\ Audio("udp", "tcp")
     /\ Close("audio") /\ leaked' = leaked + 1
     /\ UNCHANGED a_active

AudioTcp ==
  /\ \/ Audio("tcp", "request") /\ GetConnection("audio")
     \/ Audio("tcp", "done") /\ UNCHANGED socket
  /\ UNCHANGED <<a_active, leaked>>

\* Request, then a blocking receive of the answer.
AudioReply ==
  /\ \/ Audio("request", "stream") /\ a_active' = 1
     \/ Audio("request", "out") /\ UNCHANGED a_active
  /\ UNCHANGED <<socket, leaked>>

\* The streaming loop does not block; a socket or device error ends it.
AudioLost ==
  /\ Audio("stream", "out") /\ UNCHANGED <<a_active, socket, leaked>>

AudioStopped == a_running = 0 /\ AudioLost

AudioOut ==
  /\ Audio("out", "done")
  /\ a_active' = 0
  /\ Close("audio")
  /\ UNCHANGED leaked

-----------------------------------------------------------------------------
(* BatteryThreadProc.                                                      *)

Battery(from, to) ==
  /\ bpc = from /\ bpc' = to
  /\ UNCHANGED <<settings, closing, keep_waiting, flags, ctl, vpc, apc, button, history>>

BatteryCheck ==
  /\ \/ Battery("check", "done") /\ v_running = 0 /\ a_running = 0
          /\ UNCHANGED socket
     \/ /\ v_running = 1 \/ a_running = 1
        /\ v_active = 1 \/ a_active = 1
        /\ \/ Battery("check", "recv") /\ GetConnection("battery")
           \/ Battery("check", "pause") /\ UNCHANGED socket
  /\ UNCHANGED label

\* A blocking receive of 128 bytes, or until the phone closes.
BatteryRecv ==
  /\ \/ Battery("recv", "label")
     \/ Battery("recv", "pause")
  /\ UNCHANGED <<socket, label>>

BatteryLabel ==
  /\ Battery("label", "pause")
  /\ label' = session
  /\ UNCHANGED socket

\* disconnect, and a pause that Stop cuts short.
BatteryPause ==
  /\ Battery("pause", "check")
  /\ Close("battery")
  /\ UNCHANGED label

-----------------------------------------------------------------------------
\* Steps that wait for nobody.
VideoStep == (VideoAccept /\ v_running = 0) \/ VideoExit
AudioStep ==
  AudioStart \/ AudioWait \/ AudioChoose \/ AudioUdp \/ AudioTcp
    \/ AudioStopped \/ AudioOut
BatteryStep == BatteryCheck \/ BatteryLabel \/ BatteryPause

Next ==
  \/ \E m \in Modes : Radio(m)
  \/ Checkbox \/ Start \/ CliStart \/ Quit \/ StopAudio \/ StopVideo \/ StopEnds
  \/ VideoStep \/ VideoAccept \/ VideoReply \/ VideoLost
  \/ AudioStep \/ AudioReply \/ AudioLost
  \/ BatteryStep \/ BatteryRecv

\* The scheduler runs every thread, and a receive with a timeout returns.
Fairness ==
  /\ WF_vars(closing /\ StopAudio) /\ WF_vars(StopVideo) /\ WF_vars(StopEnds)
  /\ WF_vars(VideoStep) /\ WF_vars(AudioStep) /\ WF_vars(BatteryStep)
  /\ WF_vars(Timed("video") /\ (VideoReply \/ VideoStopped))
  /\ WF_vars(Timed("audio") /\ AudioReply)
  /\ WF_vars(Timed("battery") /\ BatteryRecv)

Spec == Init /\ [][Next]_vars /\ Fairness

-----------------------------------------------------------------------------
(* Properties.                                                             *)

TypeOK ==
  /\ program \in Programs /\ closing \in BOOLEAN
  /\ connection \in Modes /\ mode \in Modes /\ ip \in {"wifi", "adb"}
  /\ {audio, video} \subseteq BOOLEAN
  /\ {v_running, a_running, v_active, a_active, keep_waiting} \subseteq {0, 1}
  /\ ctl \in {"idle", "running", "stopVideo", "join", "gone"}
  /\ vpc \in {"done", "accept", "request", "stream", "exit"}
  /\ apc \in {"done", "start", "wait", "waitActive", "waitRunning", "choose",
              "udp", "tcp", "request", "stream", "out"}
  /\ bpc \in {"done", "check", "recv", "label", "pause"}
  /\ socket \in [Threads -> {None, "udp"} \union Modes \union {"wifi", "adb"}]
  /\ {label, session, clicks, leaked} \subseteq Nat
  /\ button \in {"Connect", "Prepare", "Stop"}

\* When Stop has returned, and when the program ends, nothing of the session is
\* left: no thread, no connection, no flag another thread would act on, and no
\* battery level, which the battery thread may still write while Stop runs.
\* The button offers what the mode, clicked meanwhile or not, does next; at most
\* one UDP socket per session is lost, where audio falls back to TCP (av.c:236,
\* 248).
NothingLeft ==
  ctl \in {"idle", "gone"} =>
    /\ Joined
    /\ socket = [t \in Threads |-> None]
    /\ v_active = 0 /\ a_active = 0 /\ label = 0
    /\ ctl = "idle" => button = Label(connection)
    /\ leaked <= session

\* Audio and battery use the connection of their session's video unless the
\* user clicked another mode meanwhile, although GetConnection reads
\* g_settings each time.
SameConnection ==
  clicks = 0 => \A t \in Threads : socket[t] \in {None, "udp", mode}

\* Whatever the connections and the audio, video and battery threads were
\* doing, Stop returns unless a thread is in a receive that has no timeout:
\* that of a frame or of an answer over usbmuxd or an accepted connection.
StopHangsOnlyInRecv ==
  <>[](ctl = "join") =>
    <>[](\/ vpc \in {"request", "stream"} /\ ~Timed("video")
         \/ apc = "request" /\ ~Timed("audio")
         \/ bpc = "recv" /\ ~Timed("battery"))

=============================================================================
