-------------------------- MODULE ClientSessionProof --------------------------
(***************************************************************************)
(* The threads of the client, proved for any number of sessions and clicks *)
(* and whatever modes there are: what Stop leaves behind, and which        *)
(* connection the threads of a session use.                                *)
(*                                                                         *)
(* Neither property is inductive: both follow from what each thread may    *)
(* own where it is, so that a thread that is done owns nothing, and from   *)
(* the modes clicked since the session began.                              *)
(***************************************************************************)
EXTENDS ClientSession, TLAPS

-----------------------------------------------------------------------------
(* The inductive invariant.                                                *)

Types ==
  /\ program \in Programs /\ closing \in BOOLEAN
  /\ connection \in Modes /\ mode \in Modes /\ ip \in {"wifi", "adb"}
  /\ audio \in BOOLEAN /\ video \in BOOLEAN
  /\ v_running \in {0, 1} /\ a_running \in {0, 1} /\ v_active \in {0, 1}
  /\ a_active \in {0, 1} /\ keep_waiting \in {0, 1}
  /\ ctl \in {"idle", "running", "stopVideo", "join", "gone"}
  /\ vpc \in {"done", "accept", "request", "stream", "exit"}
  /\ apc \in {"done", "start", "wait", "waitActive", "waitRunning", "choose",
              "udp", "tcp", "request", "stream", "out"}
  /\ bpc \in {"done", "check", "recv", "label", "pause"}
  /\ socket \in [Threads -> {None, "udp"} \union Modes \union {"wifi", "adb"}]
  /\ label \in Nat /\ session \in Nat /\ clicks \in Nat /\ leaked \in Nat
  /\ button \in {"Connect", "Prepare", "Stop"}

\* The main thread goes on when no thread is left, with the video flag down.
MainWaits ==
  /\ ctl \in {"idle", "gone"} => Joined /\ label = 0
  /\ ctl \in {"idle", "join", "gone"} => v_running = 0
  /\ ctl = "idle" => button = Label(connection)
  /\ program = "cli" => bpc = "done" /\ label = 0

\* Before a thread connects, and after it has closed, it has no socket, and its
\* flag is up at most while it streams.
VideoOwns ==
  /\ vpc \in {"done", "accept"} => socket["video"] = None
  /\ v_active = 1 => vpc \in {"stream", "exit"}

AudioOwns ==
  /\ apc \notin {"udp", "request", "stream", "out"} => socket["audio"] = None
  /\ a_active = 1 => apc \in {"stream", "out"}

BatteryOwns == bpc \in {"done", "check"} => socket["battery"] = None

\* An audio thread that has not lost its UDP socket yet may lose it.
MayLeak == apc \in {"start", "wait", "waitActive", "waitRunning", "choose", "udp"}
LeaksBounded == leaked + (IF MayLeak THEN 1 ELSE 0) <= session

\* Only the video thread of a server waits for clients, and while the mode is
\* not clicked GetConnection yields what the session began with.
ServerWaits == vpc = "accept" \/ keep_waiting = 1 => mode = "server"
SessionAddress ==
  clicks = 0 /\ (apc # "done" \/ bpc # "done") =>
    connection = mode /\ mode # "server" /\ (mode # "ios" => ip = mode)

Inv ==
  /\ Types /\ MainWaits
  /\ VideoOwns /\ AudioOwns /\ BatteryOwns /\ LeaksBounded
  /\ ServerWaits /\ SessionAddress /\ SameConnection

-----------------------------------------------------------------------------

\* The invariant holds at the start.
LEMMA InitInv == Init => Inv
<1>. SUFFICES ASSUME Init  PROVE Inv
  OBVIOUS
<1>1. Types
  BY DEF Init, Types, Label, None
<1>2. \A t \in Threads : socket[t] = None
  BY DEF Init
<1>3. MainWaits
  BY DEF Init, MainWaits, Joined
<1>4. VideoOwns /\ AudioOwns /\ BatteryOwns /\ SameConnection
  BY <1>2 DEF Init, VideoOwns, AudioOwns, BatteryOwns, SameConnection, Threads
<1>5. LeaksBounded /\ ServerWaits /\ SessionAddress
  BY DEF Init, LeaksBounded, MayLeak, ServerWaits, SessionAddress
<1>. QED
  BY <1>1, <1>3, <1>4, <1>5 DEF Inv

\* Clicks, which no thread sees but through GetConnection.
LEMMA WidgetInv ==
  ASSUME Inv, Checkbox \/ \E m \in Modes : Radio(m)
  PROVE  Inv'
<1>1. CASE Checkbox
  BY <1>1
  DEF Checkbox, Inv, Types, MainWaits, VideoOwns, AudioOwns, BatteryOwns,
      LeaksBounded, MayLeak, ServerWaits, SessionAddress, SameConnection, Joined,
      Label, flags, pcs, widgets, history
<1>2. CASE \E m \in Modes : Radio(m)
  <2>. PICK m \in Modes : Radio(m)
    BY <1>2
  <2>1. clicks' = 0 => ctl = "idle"
    BY DEF Radio, Inv, Types
  <2>2. ctl = "idle" => Joined /\ \A t \in Threads : socket[t] = None
    BY DEF Inv, MainWaits, VideoOwns, AudioOwns, BatteryOwns, Joined, Threads
  <2>3. Types' /\ MainWaits'
    BY DEF Radio, Inv, Types, MainWaits, Joined, Label, flags, pcs
  <2>4. SessionAddress' /\ SameConnection'
    BY <2>1, <2>2 DEF Radio, SessionAddress, SameConnection, Joined, pcs
  <2>. QED
    BY <2>3, <2>4
    DEF Radio, Inv, VideoOwns, AudioOwns, BatteryOwns, LeaksBounded, MayLeak,
        ServerWaits, flags, pcs
<1>. QED  BY <1>1, <1>2

\* A session begins with the connection of its mode, and with nothing open.
LEMMA ConnectedInv ==
  ASSUME Inv, ctl = "idle", closing' = closing,
         NEW withVideo \in BOOLEAN, NEW withAudio \in BOOLEAN,
         Connected(connection, withVideo, withAudio),
         withAudio => connection # "server",
         ip' = IF connection \in {"ios", "server"} THEN ip ELSE connection,
         v_active' \in {0, v_active}, a_active' \in {0, a_active},
         bpc' = bpc \/ (bpc' = "check" /\ connection # "server" /\ program # "cli"),
         button' \in {"Stop", button},
         UNCHANGED <<program, connection, audio, video, label, leaked>>
  PROVE  Inv'
<1>1. /\ vpc = "done" /\ apc = "done" /\ bpc = "done" /\ label = 0
      /\ \A t \in Threads : socket[t] = None
      /\ v_active = 0 /\ a_active = 0
  BY DEF Inv, Types, MainWaits, VideoOwns, AudioOwns, BatteryOwns, Joined, Threads
<1>2. connection \in {"wifi", "adb", "ios", "server"}
  BY ModesAssumption DEF Inv, Types
<1>3. /\ \A t \in Threads : socket'[t] \in {None, connection}
      /\ \A t \in Threads \ {"video"} : socket'[t] = None
      /\ vpc' \in {"done", "accept"} => socket'["video"] = None
      /\ socket' \in [Threads -> {None, "udp"} \union Modes \union {"wifi", "adb"}]
  BY <1>1 DEF Inv, Types, Connected, Threads
<1>4. Types'
  BY <1>1, <1>2, <1>3 DEF Inv, Types, Connected
<1>5. MainWaits' /\ ServerWaits'
  BY <1>1, <1>2 DEF Inv, MainWaits, ServerWaits, Connected
<1>6. VideoOwns' /\ AudioOwns' /\ BatteryOwns'
  BY <1>1, <1>3 DEF Inv, VideoOwns, AudioOwns, BatteryOwns, Connected, Threads
<1>7. LeaksBounded'
  BY <1>1 DEF Inv, Types, LeaksBounded, MayLeak, Connected
<1>8. SessionAddress' /\ SameConnection'
  BY <1>1, <1>2, <1>3 DEF SessionAddress, SameConnection, Connected
<1>. QED
  BY <1>4, <1>5, <1>6, <1>7, <1>8 DEF Inv

\* The main thread of either program.
LEMMA MainInv ==
  ASSUME Inv, Start \/ CliStart \/ Quit \/ StopAudio \/ StopVideo \/ StopEnds
  PROVE  Inv'
<1>0. connection \in {"wifi", "adb", "ios", "server"} /\ audio \in BOOLEAN
        /\ video \in BOOLEAN
  BY ModesAssumption DEF Inv, Types
<1>1. CASE Start
  <2>1. CASE connection = "server"
    BY <1>0, <1>1, <2>1, ConnectedInv DEF Start
  <2>2. CASE connection # "server"
    BY <1>0, <1>1, <2>2, ConnectedInv DEF Start
  <2>. QED  BY <2>1, <2>2
<1>2. CASE CliStart
  <2>1. CASE connection = "server"
    BY <1>0, <1>2, <2>1, ConnectedInv DEF CliStart, widgets
  <2>2. CASE connection # "server"
    <3>1. (video \/ ~audio) \in BOOLEAN
      OBVIOUS
    <3>. QED  BY <1>0, <1>2, <2>2, <3>1, ConnectedInv DEF CliStart, widgets
  <2>. QED  BY <2>1, <2>2
<1>3. CASE Quit
  BY <1>3
  DEF Quit, Inv, Types, MainWaits, VideoOwns, AudioOwns, BatteryOwns,
      LeaksBounded, MayLeak, ServerWaits, SessionAddress, SameConnection,
      settings, flags, widgets, history
<1>4. CASE StopAudio \/ StopVideo
  BY <1>4
  DEF StopAudio, StopVideo, Inv, Types, MainWaits, VideoOwns, AudioOwns,
      BatteryOwns, LeaksBounded, MayLeak, ServerWaits, SessionAddress,
      SameConnection, settings, widgets, history
<1>5. CASE StopEnds
  <2>1. Types' /\ MainWaits'
    BY <1>0, <1>5
    DEF StopEnds, Inv, Types, MainWaits, Joined, Label, settings, widgets, history
  <2>2. VideoOwns' /\ AudioOwns' /\ BatteryOwns'
    BY <1>5 DEF StopEnds, Inv, VideoOwns, AudioOwns, BatteryOwns
  <2>3. LeaksBounded' /\ ServerWaits' /\ SessionAddress' /\ SameConnection'
    BY <1>5
    DEF StopEnds, Inv, LeaksBounded, MayLeak, ServerWaits, SessionAddress,
        SameConnection, settings, history
  <2>. QED  BY <2>1, <2>2, <2>3 DEF Inv
<1>. QED  BY <1>1, <1>2, <1>3, <1>4, <1>5

\* The video thread opens and closes its own socket.
LEMMA VideoInv ==
  ASSUME Inv, VideoAccept \/ VideoReply \/ VideoLost \/ VideoExit
  PROVE  Inv'
<1>1. UNCHANGED <<settings, closing, v_running, a_running, a_active, ctl, apc, bpc,
                  widgets, history>>
        /\ vpc # "done"
  BY DEF VideoAccept, VideoReply, VideoLost, VideoExit, Video
<1>2. \A t \in Threads \ {"video"} : socket'[t] = socket[t]
  BY DEF Inv, Types, VideoAccept, VideoReply, VideoLost, VideoExit, Close, Threads
<1>3. socket'["video"] \in {socket["video"], None, mode}
  BY DEF Inv, Types, ServerWaits, VideoAccept, VideoReply, VideoLost, VideoExit,
         Video, Close, Threads
<1>4. Types'
  <2>1. socket' \in [Threads -> {None, "udp"} \union Modes \union {"wifi", "adb"}]
    BY <1>2, <1>3
    DEF Inv, Types, VideoAccept, VideoReply, VideoLost, VideoExit, Close, Threads
  <2>2. v_active' \in {0, 1} /\ keep_waiting' \in {0, 1}
          /\ vpc' \in {"done", "accept", "request", "stream", "exit"}
    BY DEF Inv, Types, VideoAccept, VideoReply, VideoLost, VideoExit, Video
  <2>. QED
    BY <1>1, <2>1, <2>2 DEF Inv, Types, settings, widgets, history
<1>5. VideoOwns' /\ ServerWaits'
  BY <1>1 DEF Inv, Types, VideoOwns, ServerWaits, VideoAccept, VideoReply, VideoLost,
         VideoExit, Video, Close, Threads, history
<1>6. MainWaits' /\ LeaksBounded' /\ SessionAddress'
  BY <1>1 DEF Inv, MainWaits, Joined, Label, LeaksBounded, MayLeak, SessionAddress,
         settings, widgets, history
<1>7. AudioOwns' /\ BatteryOwns' /\ SameConnection'
  BY <1>1, <1>2, <1>3
  DEF Inv, AudioOwns, BatteryOwns, SameConnection, Threads, history
<1>. QED  BY <1>4, <1>5, <1>6, <1>7 DEF Inv

\* GetConnection is only called by the threads of a session with a phone.
LEMMA Reconnects ==
  ASSUME Inv, NEW t \in {"audio", "battery"}, GetConnection(t),
         apc # "done" \/ bpc # "done"
  PROVE  /\ socket' \in [Threads -> {None, "udp"} \union Modes \union {"wifi", "adb"}]
         /\ \A u \in Threads \ {t} : socket'[u] = socket[u]
         /\ clicks = 0 => socket'[t] = mode
  BY DEF GetConnection, Inv, Types, SessionAddress, Threads

\* The audio thread opens and closes its own socket, or forgets it once.
LEMMA AudioInv ==
  ASSUME Inv, AudioStep \/ AudioReply \/ AudioLost
  PROVE  Inv'
<1>1. UNCHANGED <<settings, closing, keep_waiting, v_running, a_running, v_active,
                  ctl, vpc, bpc, widgets, session, mode, clicks>>
        /\ apc # "done"
  BY DEF AudioStep, AudioStart, AudioWait, AudioChoose, AudioUdp, AudioTcp,
         AudioStopped, AudioReply, AudioLost, AudioOut, Audio
<1>2. /\ socket' \in [Threads -> {None, "udp"} \union Modes \union {"wifi", "adb"}]
      /\ \A t \in Threads \ {"audio"} : socket'[t] = socket[t]
      /\ clicks = 0 => socket'["audio"] \in {None, "udp", mode, socket["audio"]}
  <2>1. CASE AudioTcp
    BY <1>1, <2>1, Reconnects DEF AudioTcp, Inv, Types
  <2>2. CASE ~AudioTcp
    BY <2>2
    DEF Inv, Types, AudioStep, AudioStart, AudioWait, AudioChoose, AudioUdp,
        AudioStopped, AudioReply, AudioLost, AudioOut, Close, Threads
  <2>. QED  BY <2>1, <2>2
<1>3. /\ a_active' \in {0, 1}
      /\ leaked' \in Nat
      /\ apc' \in {"done", "start", "wait", "waitActive", "waitRunning", "choose",
                   "udp", "tcp", "request", "stream", "out"}
  BY DEF Inv, Types, AudioStep, AudioStart, AudioWait, AudioChoose, AudioUdp,
         AudioTcp, AudioStopped, AudioReply, AudioLost, AudioOut, Audio
<1>4. Types'
  BY <1>1, <1>2, <1>3 DEF Inv, Types, settings, widgets
<1>5. AudioOwns'
  BY DEF Inv, Types, AudioOwns, AudioStep, AudioStart, AudioWait, AudioChoose,
         AudioUdp, AudioTcp, AudioStopped, AudioReply, AudioLost, AudioOut, Audio,
         GetConnection, Close, Threads
<1>6. LeaksBounded'
  BY <1>1 DEF Inv, Types, LeaksBounded, MayLeak, AudioStep, AudioStart, AudioWait,
         AudioChoose, AudioUdp, AudioTcp, AudioStopped, AudioReply, AudioLost,
         AudioOut, Audio
<1>7. MainWaits' /\ ServerWaits'
  BY <1>1 DEF Inv, MainWaits, ServerWaits, Joined, Label, settings, widgets
<1>8. VideoOwns' /\ BatteryOwns' /\ SessionAddress' /\ SameConnection'
  BY <1>1, <1>2
  DEF Inv, VideoOwns, BatteryOwns, SessionAddress, SameConnection, Threads, settings
<1>. QED  BY <1>4, <1>5, <1>6, <1>7, <1>8 DEF Inv

\* The battery thread of the GUI, which alone writes the label.
LEMMA BatteryInv ==
  ASSUME Inv, BatteryStep \/ BatteryRecv
  PROVE  Inv'
<1>1. UNCHANGED <<settings, closing, keep_waiting, flags, ctl, vpc, apc, button,
                  history>>
        /\ bpc # "done"
  BY DEF BatteryStep, BatteryCheck, BatteryLabel, BatteryPause, BatteryRecv, Battery
<1>2. /\ socket' \in [Threads -> {None, "udp"} \union Modes \union {"wifi", "adb"}]
      /\ \A t \in Threads \ {"battery"} : socket'[t] = socket[t]
      /\ clicks = 0 => socket'["battery"] \in {None, mode, socket["battery"]}
  <2>1. CASE BatteryCheck
    BY <1>1, <2>1, Reconnects DEF BatteryCheck, Inv, Types
  <2>2. CASE ~BatteryCheck
    BY <2>2
    DEF Inv, Types, BatteryStep, BatteryLabel, BatteryPause, BatteryRecv, Close,
        Threads
  <2>. QED  BY <2>1, <2>2
<1>3. Types'
  <2>1. label' \in Nat /\ bpc' \in {"done", "check", "recv", "label", "pause"}
    BY DEF Inv, Types, BatteryStep, BatteryCheck, BatteryLabel, BatteryPause,
           BatteryRecv, Battery
  <2>. QED  BY <1>1, <1>2, <2>1 DEF Inv, Types, settings, flags, history
<1>4. BatteryOwns'
  BY DEF Inv, Types, BatteryOwns, BatteryStep, BatteryCheck, BatteryLabel,
         BatteryPause, BatteryRecv, Battery, GetConnection, Close, Threads
<1>5. MainWaits'
  BY <1>1 DEF Inv, MainWaits, Joined, Label, settings, flags
<1>6. LeaksBounded' /\ ServerWaits' /\ SessionAddress'
  BY <1>1
  DEF Inv, LeaksBounded, MayLeak, ServerWaits, SessionAddress, settings, history
<1>7. VideoOwns' /\ AudioOwns' /\ SameConnection'
  BY <1>1, <1>2
  DEF Inv, VideoOwns, AudioOwns, SameConnection, Threads, flags, history
<1>. QED  BY <1>3, <1>4, <1>5, <1>6, <1>7 DEF Inv

\* The invariant is inductive.
LEMMA NextInv == Inv /\ [Next]_vars => Inv'
<1>. SUFFICES ASSUME Inv, [Next]_vars  PROVE Inv'
  OBVIOUS
<1>1. CASE UNCHANGED vars
  BY <1>1
  DEF vars, settings, flags, pcs, widgets, history, Inv, Types, MainWaits,
      VideoOwns, AudioOwns, BatteryOwns, LeaksBounded, MayLeak, ServerWaits,
      SessionAddress, SameConnection, Joined, Label
<1>2. CASE Next
  BY <1>2, WidgetInv, MainInv, VideoInv, AudioInv, BatteryInv DEF Next, VideoStep
<1>. QED  BY <1>1, <1>2

\* The invariant holds in every state.
THEOREM SessionInvariance == Spec => []Inv
  BY InitInv, NextInv, PTL DEF Spec

\* Every variable of the client keeps its type.
THEOREM SessionTypeCorrect == Spec => []TypeOK
<1>1. Inv => TypeOK
  BY DEF Inv, Types, TypeOK
<1>. QED  BY <1>1, SessionInvariance, PTL

\* Stop, of either program, leaves no thread, connection, flag or battery level,
\* however its session went (droidcam.c:124-168, droidcam-cli.c:44).
THEOREM StopLeavesNothing == Spec => []NothingLeft
<1>1. Inv => NothingLeft
  BY DEF Inv, Types, MainWaits, VideoOwns, AudioOwns, BatteryOwns, LeaksBounded,
         NothingLeft, Joined, Threads
<1>. QED  BY <1>1, SessionInvariance, PTL

\* The threads of a session all use the connection it began with, unless the
\* user clicked another mode (av.c:24, 250).
THEOREM ConnectionOfTheSession == Spec => []SameConnection
<1>1. Inv => SameConnection
  BY DEF Inv
<1>. QED  BY <1>1, SessionInvariance, PTL

=============================================================================
