---------------------------- MODULE CommandMailbox ----------------------------
(***************************************************************************)
(* The one-place mailbox thread_cmd through which the main thread asks the *)
(* video thread to send a camera control to the phone.  The GUI callbacks  *)
(* leave a command that is still there alone; the command line client      *)
(* writes over it.  No lock is involved: every access is a step.           *)
(***************************************************************************)
EXTENDS Integers, Sequences

CONSTANTS
  Clients,     \* programs: "gui" (droidcam.c) and "cli" (droidcam-cli.c)
  Modes,       \* connection modes: "wifi" (and adb), "ios", "server"
  Controls,    \* control commands without a value
  Values,      \* white balance values
  MaxIssued,   \* bound: commands accepted from the user
  MaxSessions  \* bound: sessions

ASSUME ClientsAssumption == Clients \subseteq {"gui", "cli"}

WB == "wb"          \* CB_CONTROL_WB
Empty == "empty"    \* thread_cmd = 0
NoValue == "none"
ASSUME ControlsAssumption ==
  /\ {WB, Empty} \intersect Controls = {}
  /\ NoValue \notin Values

VARIABLES
  client,       \* the program that runs
  thread_cmd, thread_cmd_val_str,
  v_running, vpc, mode, keep_waiting,
  cpc,          \* main thread: "ready", or inside wb_callback
  sessions,
  issued,       \* history: commands accepted, with their values
  sent          \* history: which of them were sent, and what was sent

mailbox == <<thread_cmd, thread_cmd_val_str>>
session == <<mode, keep_waiting, sessions>>
vars == <<client, mailbox, v_running, vpc, session, cpc, issued, sent>>

Init ==
  /\ client \in Clients
  /\ thread_cmd = Empty /\ thread_cmd_val_str = NoValue
  /\ v_running = 0 /\ vpc = "done" /\ cpc = "ready"
  /\ mode \in Modes /\ keep_waiting = 0
  /\ sessions = 0 /\ issued = <<>> /\ sent = <<>>

-----------------------------------------------------------------------------
(* The main thread.                                                        *)

\* Mutant: a command that waits is replaced.
Accepts_Always == cpc = "ready" /\ v_running = 1 /\ Len(issued) < MaxIssued

Accepts ==
  /\ cpc = "ready" /\ v_running = 1
  /\ client = "gui" => thread_cmd = Empty
  /\ Len(issued) < MaxIssued

\* controls_callback, the_callback(CB_BTN_EL), wait_command.
Command(c) ==
  /\ Accepts
  /\ thread_cmd' = c
  /\ issued' = Append(issued, <<c, NoValue>>)
  /\ UNCHANGED <<client, thread_cmd_val_str, v_running, vpc, session, cpc, sent>>

\* wb_callback, of the GUI only: the value first, then the command.
WbValue(value) ==
  /\ client = "gui" /\ Accepts
  /\ thread_cmd_val_str' = value
  /\ cpc' = "wb"
  /\ UNCHANGED <<client, thread_cmd, v_running, vpc, session, issued, sent>>

\* Mutant: the value is cleared when the command is set.
WbCommand_Clears ==
  /\ cpc = "wb" /\ cpc' = "ready"
  /\ thread_cmd' = WB
  /\ issued' = Append(issued, <<WB, thread_cmd_val_str>>)
  /\ thread_cmd_val_str' = NoValue
  /\ UNCHANGED <<client, v_running, vpc, session, sent>>

WbCommand ==
  /\ cpc = "wb" /\ cpc' = "ready"
  /\ thread_cmd' = WB
  /\ issued' = Append(issued, <<WB, thread_cmd_val_str>>)
  /\ UNCHANGED <<client, thread_cmd_val_str, v_running, vpc, session, sent>>

\* The command line client has one session.
Start ==
  /\ cpc = "ready" /\ v_running = 0 /\ vpc = "done"
  /\ sessions < (IF client = "cli" THEN 1 ELSE MaxSessions)
  /\ sessions' = sessions + 1
  /\ mode' \in Modes
  /\ v_running' = 1 /\ keep_waiting' = 0
  /\ vpc' = IF mode' = "server" THEN "accept" ELSE "negotiate"
  /\ UNCHANGED <<client, mailbox, cpc, issued, sent>>

\* Stop waits for the thread; what is in the mailbox stays there.
Stop ==
  /\ cpc = "ready" /\ v_running = 1
  /\ v_running' = 0
  /\ UNCHANGED <<client, mailbox, vpc, session, cpc, issued, sent>>

-----------------------------------------------------------------------------
(* VideoThreadProc.                                                        *)

Goto(from, to) == vpc = from /\ vpc' = to
NotMailbox == <<client, v_running, session, cpc, issued>>

\* accept_connection polls while v_running, or fails.
Accept ==
  /\ \/ Goto("accept", "negotiate") /\ v_running = 1 /\ keep_waiting' = 1
     \/ Goto("accept", "end") /\ UNCHANGED keep_waiting
  /\ UNCHANGED <<client, mailbox, v_running, mode, sessions, cpc, issued, sent>>

\* The first frame request is answered; otherwise the connection ends.
Negotiate ==
  /\ Goto("negotiate", "loop") \/ Goto("negotiate", "end")
  /\ UNCHANGED <<mailbox, NotMailbox, sent>>

\* Mutant: the loop does not look into the mailbox.
LoopTest_NoCommand ==
  /\ IF v_running = 0 THEN Goto("loop", "end") ELSE Goto("loop", "recv")
  /\ UNCHANGED <<mailbox, NotMailbox, sent>>

LoopTest ==
  /\ IF v_running = 0 THEN Goto("loop", "end")
     ELSE IF thread_cmd # Empty THEN Goto("loop", "send")
     ELSE Goto("loop", "recv")
  /\ UNCHANGED <<mailbox, NotMailbox, sent>>

\* Only the white balance is sent with its value; errors are ignored.
SendCommand ==
  /\ Goto("send", "clear")
  /\ sent' = Append(sent,
       <<Len(issued), thread_cmd,
         IF thread_cmd = WB THEN thread_cmd_val_str ELSE NoValue>>)
  /\ UNCHANGED <<mailbox, NotMailbox>>

ClearCommand ==
  /\ Goto("clear", "recv")
  /\ thread_cmd' = Empty
  /\ UNCHANGED <<thread_cmd_val_str, NotMailbox, sent>>

RecvFrame ==
  /\ Goto("recv", "loop") \/ Goto("recv", "end")
  /\ UNCHANGED <<mailbox, NotMailbox, sent>>

\* early_out: a server waits for the next client.
EarlyOut ==
  /\ IF v_running = 1 /\ keep_waiting = 1
       THEN Goto("end", "accept") ELSE Goto("end", "done")
  /\ UNCHANGED <<mailbox, NotMailbox, sent>>

Next ==
  \/ \E c \in Controls : Command(c)
  \/ \E value \in Values : WbValue(value)
  \/ WbCommand \/ Start \/ Stop
  \/ Accept \/ Negotiate \/ LoopTest \/ SendCommand \/ ClearCommand
  \/ RecvFrame \/ EarlyOut

\* VideoStream adds the receiving, and with it the fairness.
MailboxSpec == Init /\ [][Next]_vars

-----------------------------------------------------------------------------
(* Properties.                                                             *)

Commands == Controls \union {WB}

MailboxTypeOK ==
  /\ client \in Clients
  /\ thread_cmd \in Commands \union {Empty}
  /\ thread_cmd_val_str \in Values \union {NoValue}
  /\ v_running \in {0, 1} /\ keep_waiting \in {0, 1} /\ mode \in Modes
  /\ cpc \in {"ready", "wb"} /\ sessions \in Nat
  /\ vpc \in {"done", "accept", "negotiate", "loop", "send", "clear", "recv", "end"}
  /\ issued \in Seq(Commands \X (Values \union {NoValue}))
  /\ sent \in Seq(Nat \X Commands \X (Values \union {NoValue}))

\* What is sent is a command as the user gave it, value included, and never
\* the same one twice or an older one after a newer one (av.c:153-164).
SentAsIssued ==
  /\ \A i \in DOMAIN sent : <<sent[i][2], sent[i][3]>> = issued[sent[i][1]]
  /\ \A i, j \in DOMAIN sent : i < j => sent[i][1] < sent[j][1]

\* The GUI loses no command it accepted: all of them have been sent but for
\* the one in the mailbox, which a later session sends if need be.
NoneLost ==
  LET waiting == IF thread_cmd # Empty /\ vpc # "clear" THEN 1 ELSE 0
  IN client = "gui" => Len(sent) + waiting = Len(issued)

=============================================================================
