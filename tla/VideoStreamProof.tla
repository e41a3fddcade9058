--------------------------- MODULE VideoStreamProof ---------------------------
(***************************************************************************)
(* The command mailbox, proved for every set of commands and values, any   *)
(* number of sessions and either client, and that the video thread, with   *)
(* the receiving of frames in between, is one that CommandMailbox allows.  *)
(*                                                                         *)
(* What was sent and what waits is only known relative to where the video  *)
(* thread is: between SendCommand and ClearCommand the mailbox holds a     *)
(* command that has been sent already.                                     *)
(*                                                                         *)
(* Where the thread is in the stream is known until a RecvAll is short: at *)
(* the frame after the last one pushed, or behind its length.  That frames *)
(* do not overlap is proved from the recursion of FrameStart.              *)
(***************************************************************************)
EXTENDS VideoStream, SequenceTheorems, WellFoundedInduction, TLAPS

-----------------------------------------------------------------------------
(* The inductive invariant.                                                *)

\* The command in the mailbox, with the value it would be sent with.
Waiting == <<thread_cmd, IF thread_cmd = WB THEN thread_cmd_val_str ELSE NoValue>>

\* What waits is what the user gave last.
LastIssued ==
  thread_cmd # Empty => Len(issued) > 0 /\ issued[Len(issued)] = Waiting

\* The video thread never finds the mailbox empty while it sends or clears.
BeingSent == vpc \in {"send", "clear"} => thread_cmd # Empty

\* Nothing waits while the GUI stores a white balance value.
StoresValue == cpc = "wb" => client = "gui" /\ thread_cmd = Empty

\* Every record of a command sent is of one that was given, as it was given.
Faithful ==
  \A i \in DOMAIN sent :
    /\ sent[i][1] \in 1 .. Len(issued)
    /\ <<sent[i][2], sent[i][3]>> = issued[sent[i][1]]

Increasing == \A i, j \in DOMAIN sent : i < j => sent[i][1] < sent[j][1]

\* A command that waits, and is not just being cleared, has not been sent.
Unsent ==
  thread_cmd # Empty /\ vpc # "clear" =>
    \A i \in DOMAIN sent : sent[i][1] < Len(issued)

Inv ==
  /\ MailboxTypeOK /\ LastIssued /\ BeingSent /\ StoresValue
  /\ Faithful /\ Increasing /\ Unsent /\ NoneLost

-----------------------------------------------------------------------------
(* The mailbox.                                                            *)

\* What Append does to the histories.
LEMMA AppendFacts ==
  ASSUME NEW S, NEW s \in Seq(S), NEW x \in S
  PROVE  /\ Append(s, x) \in Seq(S)
         /\ Len(s) \in Nat /\ Len(Append(s, x)) = Len(s) + 1
         /\ DOMAIN s = 1 .. Len(s) /\ DOMAIN Append(s, x) = 1 .. Len(s) + 1
         /\ \A i \in 1 .. Len(s) : Append(s, x)[i] = s[i]
         /\ Append(s, x)[Len(s) + 1] = x
  BY AppendProperties, LenProperties

\* Nothing has been issued or sent at the start.
LEMMA InitInv == Init => Inv
<1>. SUFFICES ASSUME Init  PROVE Inv
  OBVIOUS
<1>1. issued \in Seq(Commands \X (Values \union {NoValue})) /\ Len(issued) = 0
  BY EmptySeq DEF Init
<1>2. sent \in Seq(Nat \X Commands \X (Values \union {NoValue}))
        /\ Len(sent) = 0 /\ DOMAIN sent = {}
  BY EmptySeq DEF Init
<1>3. MailboxTypeOK
  BY <1>1, <1>2 DEF Init, MailboxTypeOK
<1>. QED
  BY <1>1, <1>2, <1>3
  DEF Inv, Init, LastIssued, BeingSent, StoresValue, Faithful, Increasing,
      Unsent, NoneLost

\* A command given, by either client: the sent ones are all older.
LEMMA IssueInv ==
  ASSUME Inv, NEW c \in Commands, NEW v \in Values \union {NoValue},
         thread_cmd' = c, issued' = Append(issued, <<c, v>>),
         v = (IF c = WB THEN thread_cmd_val_str' ELSE NoValue),
         client = "gui" => thread_cmd = Empty,
         cpc' = "ready",
         UNCHANGED <<client, thread_cmd_val_str, v_running, vpc, session, sent>>
  PROVE  Inv'
<1>. DEFINE Type == Commands \X (Values \union {NoValue})
<1>1. issued \in Seq(Type) /\ <<c, v>> \in Type
  BY DEF Inv, MailboxTypeOK
<1>2. /\ issued' \in Seq(Type) /\ Len(issued) \in Nat
      /\ Len(issued') = Len(issued) + 1
      /\ \A i \in 1 .. Len(issued) : issued'[i] = issued[i]
      /\ issued'[Len(issued')] = <<c, v>>
  BY <1>1, AppendFacts
<1>3. c # Empty
  BY ControlsAssumption DEF Commands, WB, Empty
<1>4. MailboxTypeOK'
  BY <1>2 DEF Inv, MailboxTypeOK, session, Commands
<1>5. LastIssued' /\ BeingSent' /\ StoresValue'
  BY <1>2, <1>3 DEF LastIssued, Waiting, BeingSent, StoresValue
<1>6. Faithful' /\ Increasing'
  BY <1>2 DEF Inv, Faithful, Increasing
<1>7. Unsent'
  BY <1>2 DEF Inv, Faithful, Unsent
<1>8. NoneLost'
  <2>1. CASE client = "gui"
    <3>1. vpc # "clear" /\ thread_cmd = Empty
      BY <2>1 DEF Inv, BeingSent
    <3>2. Len(sent) = Len(issued)
      BY <2>1, <3>1 DEF Inv, NoneLost, MailboxTypeOK
    <3>. QED  BY <2>1, <3>1, <3>2, <1>2, <1>3 DEF NoneLost
  <2>2. CASE client # "gui"
    BY <2>2 DEF NoneLost
  <2>. QED  BY <2>1, <2>2
<1>. QED  BY <1>4, <1>5, <1>6, <1>7, <1>8 DEF Inv

\* The white balance value is stored while nothing waits that could use it.
LEMMA WbValueInv ==
  ASSUME Inv, NEW value \in Values, WbValue(value)
  PROVE  Inv'
<1>1. thread_cmd = Empty /\ client = "gui"
  BY DEF WbValue, Accepts
<1>. QED
  BY <1>1
  DEF WbValue, Inv, MailboxTypeOK, LastIssued, Waiting, BeingSent, StoresValue,
      Faithful, Increasing, Unsent, NoneLost, session

\* What is sent is the command that waits, which is newer than all sent before.
LEMMA SendInv == ASSUME Inv, SendCommand  PROVE Inv'
<1>. DEFINE Type == Nat \X Commands \X (Values \union {NoValue})
            x == <<Len(issued), thread_cmd,
                   IF thread_cmd = WB THEN thread_cmd_val_str ELSE NoValue>>
<1>1. thread_cmd # Empty /\ vpc = "send" /\ vpc' = "clear"
  BY DEF SendCommand, Goto, Inv, BeingSent
<1>2. Len(issued) \in Nat /\ issued \in Seq(Commands \X (Values \union {NoValue}))
  BY LenProperties DEF Inv, MailboxTypeOK
<1>3. sent \in Seq(Type) /\ x \in Type
  BY <1>1, <1>2 DEF Inv, MailboxTypeOK
<1>4. sent' = Append(sent, x)
  BY DEF SendCommand
<1>. HIDE DEF x
<1>5. /\ sent' \in Seq(Type) /\ Len(sent) \in Nat
      /\ Len(sent') = Len(sent) + 1
      /\ DOMAIN sent = 1 .. Len(sent) /\ DOMAIN sent' = 1 .. Len(sent) + 1
      /\ \A i \in 1 .. Len(sent) : sent'[i] = sent[i]
      /\ sent'[Len(sent) + 1] = x
  BY <1>3, <1>4, AppendFacts
<1>6. x[1] = Len(issued) /\ <<x[2], x[3]>> = Waiting
  BY DEF x, Waiting
<1>7. UNCHANGED <<client, mailbox, v_running, session, cpc, issued>>
  BY DEF SendCommand, NotMailbox
<1>8. MailboxTypeOK'
  BY <1>1, <1>5, <1>7 DEF Inv, MailboxTypeOK, mailbox, session
<1>9. LastIssued' /\ BeingSent' /\ StoresValue' /\ Unsent'
  BY <1>1, <1>7
  DEF Inv, LastIssued, Waiting, BeingSent, StoresValue, Unsent, mailbox
<1>10. Faithful'
  <2>1. x[1] \in 1 .. Len(issued) /\ <<x[2], x[3]>> = issued[x[1]]
    BY <1>1, <1>2, <1>6 DEF Inv, LastIssued
  <2>. QED  BY <2>1, <1>5, <1>7 DEF Inv, Faithful
<1>11. Increasing'
  <2>1. \A i \in DOMAIN sent : sent[i][1] < x[1]
    BY <1>1, <1>6 DEF Inv, Unsent
  <2>2. ASSUME NEW i \in DOMAIN sent', NEW j \in DOMAIN sent', i < j
        PROVE  sent'[i][1] < sent'[j][1]
    <3>1. i \in DOMAIN sent /\ sent'[i] = sent[i]
      BY <1>5, <2>2
    <3>2. CASE j \in DOMAIN sent
      BY <1>5, <2>2, <3>1, <3>2 DEF Inv, Increasing
    <3>3. CASE j \notin DOMAIN sent
      BY <1>5, <2>1, <2>2, <3>1, <3>3
    <3>. QED  BY <3>2, <3>3
  <2>. QED  BY <2>2 DEF Increasing
<1>12. NoneLost'
  BY <1>1, <1>2, <1>5, <1>7 DEF Inv, NoneLost, mailbox
<1>. QED  BY <1>8, <1>9, <1>10, <1>11, <1>12 DEF Inv

\* What is cleared has been sent, or the command line client wrote over it.
LEMMA ClearInv == ASSUME Inv, ClearCommand  PROVE Inv'
  BY DEF ClearCommand, Goto, NotMailbox, session, Inv, MailboxTypeOK, LastIssued,
         BeingSent, StoresValue, Faithful, Increasing, Unsent, NoneLost

\* All other steps leave the mailbox and the histories alone.
LEMMA MoveInv ==
  ASSUME Inv, MailboxTypeOK',
         UNCHANGED <<client, mailbox, cpc, issued, sent>>,
         vpc # "clear", vpc' # "clear",
         vpc' = "send" => thread_cmd # Empty
  PROVE  Inv'
  BY DEF Inv, LastIssued, Waiting, BeingSent, StoresValue, Faithful, Increasing,
         Unsent, NoneLost, mailbox

\* The invariant is inductive.
LEMMA NextInv == Inv /\ [Next]_vars => Inv'
<1>. SUFFICES ASSUME Inv, [Next]_vars  PROVE Inv'
  OBVIOUS
<1>0. MailboxTypeOK /\ WB \in Commands /\ Controls \subseteq Commands
        /\ WB \notin Controls
  BY ControlsAssumption DEF Inv, Commands
<1>1. CASE \E c \in Controls : Command(c)
  <2>. PICK c \in Controls : Command(c)
    BY <1>1
  <2>1. cpc' = "ready"
    BY DEF Command, Accepts
  <2>. QED  BY <1>0, <2>1, IssueInv DEF Command, Accepts
<1>2. CASE \E value \in Values : WbValue(value)
  BY <1>2, WbValueInv
<1>3. CASE WbCommand
  <2>1. thread_cmd = Empty /\ thread_cmd_val_str \in Values \union {NoValue}
    BY <1>3 DEF WbCommand, Inv, StoresValue, MailboxTypeOK
  <2>. QED  BY <1>0, <1>3, <2>1, IssueInv DEF WbCommand
<1>4. CASE SendCommand
  BY <1>4, SendInv
<1>5. CASE ClearCommand
  BY <1>5, ClearInv
<1>6. CASE Start
  <2>1. vpc = "done" /\ vpc' \in {"accept", "negotiate"}
    BY <1>6 DEF Start
  <2>2. MailboxTypeOK'
    BY <1>0, <1>6, <2>1 DEF Start, MailboxTypeOK, mailbox
  <2>. QED  BY <1>6, <2>1, <2>2, MoveInv DEF Start
<1>7. CASE Stop
  <2>1. MailboxTypeOK'
    BY <1>0, <1>7 DEF Stop, MailboxTypeOK, mailbox, session
  <2>2. UNCHANGED <<client, mailbox, vpc, cpc, issued, sent>>
    BY <1>7 DEF Stop
  <2>. QED
    BY <2>1, <2>2
    DEF Inv, LastIssued, Waiting, BeingSent, StoresValue, Faithful, Increasing,
        Unsent, NoneLost, mailbox
<1>8. CASE Accept
  <2>1. vpc = "accept" /\ vpc' \in {"negotiate", "end"} /\ keep_waiting' \in {0, 1}
    BY <1>0, <1>8 DEF Accept, Goto, MailboxTypeOK
  <2>2. MailboxTypeOK'
    BY <1>0, <1>8, <2>1 DEF Accept, MailboxTypeOK, mailbox
  <2>. QED  BY <1>8, <2>1, <2>2, MoveInv DEF Accept
<1>9. CASE Negotiate \/ LoopTest \/ RecvFrame \/ EarlyOut
  <2>1. /\ vpc \notin {"clear"} /\ vpc' \in {"done", "accept", "loop", "send", "recv", "end"}
        /\ vpc' = "send" => thread_cmd # Empty
    BY <1>9 DEF Negotiate, LoopTest, RecvFrame, EarlyOut, Goto
  <2>2. UNCHANGED <<client, mailbox, v_running, session, cpc, issued, sent>>
    BY <1>9 DEF Negotiate, LoopTest, RecvFrame, EarlyOut, NotMailbox
  <2>3. MailboxTypeOK'
    BY <1>0, <2>1, <2>2 DEF MailboxTypeOK, mailbox, session
  <2>. QED  BY <2>1, <2>2, <2>3, MoveInv
<1>10. CASE UNCHANGED vars
  BY <1>10
  DEF vars, mailbox, session, Inv, MailboxTypeOK, LastIssued, Waiting, BeingSent,
      StoresValue, Faithful, Increasing, Unsent, NoneLost
<1>. QED
  BY <1>1, <1>2, <1>3, <1>4, <1>5, <1>6, <1>7, <1>8, <1>9, <1>10 DEF Next

-----------------------------------------------------------------------------
(* The video thread.                                                       *)

\* Every step of the thread with its socket is one of the mailbox's or leaves
\* it alone: a body and its length are one RecvFrame.
LEMMA StreamStep == [StreamNext]_streamVars => [Next]_vars
<1>. SUFFICES ASSUME [StreamNext]_streamVars  PROVE [Next]_vars
  OBVIOUS
<1>1. CASE (LocalStep \/ UserStep) /\ UNCHANGED wire
  BY <1>1 DEF LocalStep, UserStep, Next
<1>2. CASE Connected
  BY <1>2 DEF Connected, Next
<1>3. CASE RecvHeader
  BY <1>3 DEF RecvHeader, Next
<1>4. CASE RecvLength
  BY <1>4 DEF RecvLength, Next
<1>5. CASE RecvBody
  BY <1>5 DEF RecvBody, Next
<1>6. CASE UNCHANGED streamVars
  BY <1>6 DEF streamVars
<1>. QED  BY <1>1, <1>2, <1>3, <1>4, <1>5, <1>6 DEF StreamNext, Recv

\* The video thread with its socket implements the mailbox (av.c:115-192).
THEOREM StreamImplementsMailbox == Spec => MailboxSpec
<1>1. StreamInit => Init
  BY DEF StreamInit
<1>. QED  BY <1>1, StreamStep, PTL DEF Spec, MailboxSpec

\* The mailbox keeps its invariant in every behaviour.
THEOREM MailboxInvariance == MailboxSpec => []Inv
  BY InitInv, NextInv, PTL DEF MailboxSpec

\* Every variable of the mailbox keeps its type.
THEOREM MailboxTypeCorrect == Spec => []MailboxTypeOK
<1>1. Inv => MailboxTypeOK
  BY DEF Inv
<1>. QED  BY <1>1, StreamImplementsMailbox, MailboxInvariance, PTL

\* Commands reach the phone as the user gave them, values included, once and in
\* order, although neither side of the mailbox takes a lock (av.c:153-164).
THEOREM CommandsAsIssued == Spec => []SentAsIssued
<1>1. Inv => SentAsIssued
  BY DEF Inv, Faithful, Increasing, SentAsIssued
<1>. QED  BY <1>1, StreamImplementsMailbox, MailboxInvariance, PTL

\* The GUI, which waits for an empty mailbox, loses no command (droidcam.c:330).
THEOREM NoCommandLost == Spec => []NoneLost
<1>1. Inv => NoneLost
  BY DEF Inv
<1>. QED  BY <1>1, StreamImplementsMailbox, MailboxInvariance, PTL

-----------------------------------------------------------------------------
(* Where the frames of a round begin.                                      *)

\* Induction over the natural numbers, for a set.
LEMMA SetInduction ==
  ASSUME NEW S, 0 \in S, \A n \in Nat : n \in S => n + 1 \in S
  PROVE  Nat \subseteq S
<1>. DEFINE out == Nat \ S
            R == {ss \in Nat \X Nat : ss[1] < ss[2]}
<1>1. IsWellFoundedOn(R, Nat)
  BY NatLessThanWellFounded DEF OpToRel
<1>2. \A y \in Nat, x \in Nat : y < x => <<y, x>> \in R
  OBVIOUS
<1>3. SUFFICES ASSUME out # {}  PROVE FALSE
  OBVIOUS
<1>4. out \subseteq Nat
  OBVIOUS
<1>. HIDE DEF R, out
<1>5. PICK x \in out : \A y \in out : <<y, x>> \notin R
  BY <1>1, <1>3, <1>4, WFMin
<1>6. x \in Nat /\ x \notin S /\ x # 0
  BY <1>4 DEF out
<1>7. x - 1 \in Nat /\ x - 1 < x /\ (x - 1) + 1 = x
  BY <1>6
<1>8. x - 1 \notin out
  BY <1>2, <1>5, <1>6, <1>7
<1>9. x - 1 \in S
  BY <1>7, <1>8 DEF out
<1>. QED  BY <1>6, <1>7, <1>9

\* The sizes of the stream.
LEMMA Lens ==
  /\ HeaderSize \in Nat \ {0} /\ LengthSize \in Nat \ {0}
  /\ Rounds \in Nat \ {0} /\ FrameLengths \in [1 .. Rounds -> Nat \ {0}]
  BY SizesAssumption, LenProperties, EmptySeq DEF Rounds

\* f says where the first n frames begin.
Starts(f, n) ==
  \A k \in 1 .. n :
    f[k] = IF k = 1 THEN HeaderSize ELSE f[k - 1] + LengthSize + FrameLengths[k - 1]

\* There is such a function for all of them.
LEMMA StartsExist ==
  ASSUME NEW n \in Nat, n <= Rounds + 1
  PROVE  \E f \in [1 .. n -> Nat] : Starts(f, n)
<1>. DEFINE S == {m \in Nat : m <= Rounds + 1 => \E f \in [1 .. m -> Nat] : Starts(f, m)}
<1>1. 0 \in S
  <2>. DEFINE f == [k \in 1 .. 0 |-> 0]
  <2>1. Starts(f, 0)
    BY DEF Starts
  <2>2. f \in [1 .. 0 -> Nat]
    OBVIOUS
  <2>. QED  BY <2>1, <2>2
<1>2. ASSUME NEW m \in Nat, m \in S  PROVE m + 1 \in S
  <2>. SUFFICES ASSUME m + 1 <= Rounds + 1
                PROVE  \E f \in [1 .. m + 1 -> Nat] : Starts(f, m + 1)
    OBVIOUS
  <2>1. PICK f \in [1 .. m -> Nat] : Starts(f, m)
    BY <1>2, Lens
  <2>. DEFINE g == [k \in 1 .. m + 1 |->
                      IF k <= m THEN f[k] ELSE IF k = 1 THEN HeaderSize
                      ELSE f[k - 1] + LengthSize + FrameLengths[k - 1]]
  <2>2. ASSUME NEW k \in 1 .. m + 1
        PROVE  /\ g[k] \in Nat
               /\ g[k] = IF k = 1 THEN HeaderSize
                         ELSE g[k - 1] + LengthSize + FrameLengths[k - 1]
    <3>1. CASE k <= m
      BY <2>1, <3>1 DEF Starts
    <3>2. CASE k = m + 1 /\ k = 1
      BY <3>2, Lens
    <3>3. CASE k = m + 1 /\ k # 1
      <4>1. k - 1 \in 1 .. m /\ k - 1 \in 1 .. Rounds
        BY <3>3, Lens
      <4>. QED  BY <3>3, <4>1, Lens
    <3>. QED  BY <3>1, <3>2, <3>3
  <2>3. g \in [1 .. m + 1 -> Nat]
    BY <2>2
  <2>. HIDE DEF g
  <2>4. Starts(g, m + 1)
    BY <2>2 DEF Starts
  <2>. QED  BY <2>3, <2>4
<1>. HIDE DEF S
<1>3. n \in S
  BY <1>1, <1>2, SetInduction
<1>. QED  BY <1>3 DEF S

\* FrameStart is such a function.
LEMMA FrameStartDef ==
  FrameStart = [k \in 1 .. Rounds + 1 |->
                  IF k = 1 THEN HeaderSize
                  ELSE FrameStart[k - 1] + LengthSize + FrameLengths[k - 1]]
<1>1. PICK f \in [1 .. Rounds + 1 -> Nat] : Starts(f, Rounds + 1)
  <2>1. Rounds + 1 \in Nat
    BY Lens
  <2>. QED  BY <2>1, StartsExist
<1>2. f = [k \in 1 .. Rounds + 1 |->
             IF k = 1 THEN HeaderSize
             ELSE f[k - 1] + LengthSize + FrameLengths[k - 1]]
  BY <1>1 DEF Starts
<1>. QED  BY <1>2 DEF FrameStart

\* A frame ends where the next one begins.
LEMMA FrameEnds ==
  /\ FrameStart[1] = HeaderSize
  /\ \A k \in 1 .. Rounds :
       FrameStart[k + 1] = FrameStart[k] + LengthSize + FrameLengths[k]
<1>1. 1 \in 1 .. Rounds + 1
  BY Lens
<1>2. FrameStart[1] = HeaderSize
  BY <1>1, FrameStartDef
<1>3. ASSUME NEW k \in 1 .. Rounds
      PROVE  FrameStart[k + 1] = FrameStart[k] + LengthSize + FrameLengths[k]
  <2>1. k + 1 \in 1 .. Rounds + 1 /\ k + 1 # 1 /\ (k + 1) - 1 = k
    BY Lens
  <2>2. FrameStart[k + 1] =
          FrameStart[(k + 1) - 1] + LengthSize + FrameLengths[(k + 1) - 1]
    BY <2>1, FrameStartDef
  <2>. QED  BY <2>1, <2>2
<1>. QED  BY <1>2, <1>3

\* Frames begin one after the other.
LEMMA FrameOrder ==
  /\ \A k \in 1 .. Rounds + 1 : FrameStart[k] \in Nat
  /\ \A k \in 1 .. Rounds + 1, j \in 1 .. Rounds :
       j < k => FrameStart[j + 1] <= FrameStart[k]
<1>. DEFINE S == {m \in Nat : m <= Rounds =>
                    /\ FrameStart[m + 1] \in Nat
                    /\ \A j \in 1 .. m : /\ FrameStart[j + 1] \in Nat
                                         /\ FrameStart[j + 1] <= FrameStart[m + 1]}
<1>1. 0 \in S
  <2>1. FrameStart[0 + 1] \in Nat
    BY FrameEnds, Lens
  <2>. QED  BY <2>1
<1>2. ASSUME NEW m \in Nat, m \in S  PROVE m + 1 \in S
  <2>. SUFFICES ASSUME m + 1 <= Rounds
                PROVE  /\ FrameStart[(m + 1) + 1] \in Nat
                       /\ \A j \in 1 .. m + 1 :
                            /\ FrameStart[j + 1] \in Nat
                            /\ FrameStart[j + 1] <= FrameStart[(m + 1) + 1]
    OBVIOUS
  <2>1. /\ FrameStart[m + 1] \in Nat
        /\ \A j \in 1 .. m : /\ FrameStart[j + 1] \in Nat
                             /\ FrameStart[j + 1] <= FrameStart[m + 1]
    BY <1>2, Lens
  <2>. DEFINE k == m + 1
  <2>2. k \in 1 .. Rounds /\ k \in Nat
    BY Lens
  <2>3. FrameStart[k + 1] = FrameStart[k] + LengthSize + FrameLengths[k]
    BY <2>2, FrameEnds
  <2>4. LengthSize \in Nat /\ FrameLengths[k] \in Nat /\ FrameStart[k] \in Nat
    BY <2>1, <2>2, Lens
  <2>5. FrameStart[k + 1] \in Nat /\ FrameStart[k] <= FrameStart[k + 1]
    BY <2>3, <2>4
  <2>6. ASSUME NEW j \in 1 .. k
        PROVE  FrameStart[j + 1] \in Nat /\ FrameStart[j + 1] <= FrameStart[k + 1]
    <3>1. CASE j = k
      BY <2>5, <3>1
    <3>2. CASE j # k
      <4>1. j \in 1 .. m
        BY <3>2
      <4>2. FrameStart[j + 1] \in Nat /\ FrameStart[j + 1] <= FrameStart[k]
        BY <2>1, <4>1
      <4>. QED  BY <2>4, <2>5, <4>2
    <3>. QED  BY <3>1, <3>2
  <2>. QED  BY <2>5, <2>6
<1>. HIDE DEF S
<1>3. Nat \subseteq S
  BY <1>1, <1>2, SetInduction
<1>4. ASSUME NEW k \in 1 .. Rounds + 1
      PROVE  /\ FrameStart[k] \in Nat
             /\ \A j \in 1 .. Rounds : j < k => FrameStart[j + 1] <= FrameStart[k]
  <2>1. k - 1 \in S /\ k - 1 <= Rounds /\ (k - 1) + 1 = k /\ k \in Nat
    BY <1>3, Lens
  <2>2. /\ FrameStart[k] \in Nat
        /\ \A j \in 1 .. k - 1 : FrameStart[j + 1] <= FrameStart[k]
    BY <2>1 DEF S
  <2>3. \A j \in 1 .. Rounds : j < k => j \in 1 .. k - 1
    BY <2>1, Lens
  <2>. QED  BY <2>2, <2>3
<1>. QED  BY <1>4

\* The offsets of a frame, whose length and body stay within the round.
LEMMA Offsets ==
  ASSUME NEW k \in 1 .. Rounds
  PROVE  /\ FrameStart[k] \in Nat /\ FrameStart[Rounds + 1] \in Nat
         /\ LengthSize \in Nat \ {0} /\ FrameLengths[k] \in Nat \ {0}
         /\ FrameStart[k] + LengthSize < FrameStart[Rounds + 1]
         /\ k < Rounds => /\ k + 1 \in 1 .. Rounds
                          /\ FrameStart[k + 1] < FrameStart[Rounds + 1]
         /\ \A j \in 1 .. Rounds : FrameStart[j] = FrameStart[k] => j = k
<1>1. /\ Rounds \in Nat \ {0} /\ k \in Nat /\ k + 1 \in 1 .. Rounds + 1
      /\ Rounds + 1 \in 1 .. Rounds + 1
      /\ \A j \in 1 .. Rounds : j \in 1 .. Rounds + 1 /\ j \in Nat
  BY Lens
<1>2. /\ \A j \in 1 .. Rounds + 1 : FrameStart[j] \in Nat
      /\ \A j \in 1 .. Rounds + 1, i \in 1 .. Rounds :
           i < j => FrameStart[i + 1] <= FrameStart[j]
  BY FrameOrder
<1>3. \A j \in 1 .. Rounds :
        /\ LengthSize \in Nat \ {0} /\ FrameLengths[j] \in Nat \ {0}
        /\ FrameStart[j] \in Nat /\ FrameStart[j + 1] \in Nat
        /\ FrameStart[j] + LengthSize < FrameStart[j + 1]
        /\ FrameStart[j] < FrameStart[j + 1]
  <2>. SUFFICES ASSUME NEW j \in 1 .. Rounds
                PROVE  /\ LengthSize \in Nat \ {0} /\ FrameLengths[j] \in Nat \ {0}
                       /\ FrameStart[j] \in Nat /\ FrameStart[j + 1] \in Nat
                       /\ FrameStart[j] + LengthSize < FrameStart[j + 1]
                       /\ FrameStart[j] < FrameStart[j + 1]
    OBVIOUS
  <2>1. LengthSize \in Nat \ {0} /\ FrameLengths[j] \in Nat \ {0}
    BY Lens
  <2>2. FrameStart[j] \in Nat
    BY <1>1, <1>2
  <2>3. FrameStart[j + 1] = FrameStart[j] + LengthSize + FrameLengths[j]
    BY FrameEnds
  <2>. QED  BY <2>1, <2>2, <2>3
<1>4. FrameStart[Rounds + 1] \in Nat /\ FrameStart[k + 1] <= FrameStart[Rounds + 1]
  BY <1>1, <1>2
<1>5. FrameStart[k] + LengthSize < FrameStart[Rounds + 1]
  BY <1>3, <1>4
<1>6. ASSUME k < Rounds
      PROVE  k + 1 \in 1 .. Rounds /\ FrameStart[k + 1] < FrameStart[Rounds + 1]
  <2>1. k + 1 \in 1 .. Rounds /\ k + 1 < Rounds + 1
    BY <1>1, <1>6
  <2>2. FrameStart[(k + 1) + 1] <= FrameStart[Rounds + 1]
    BY <1>1, <1>2, <2>1
  <2>. DEFINE i == k + 1
  <2>3. FrameStart[i] < FrameStart[i + 1] /\ FrameStart[i] \in Nat
          /\ FrameStart[i + 1] \in Nat
    BY <1>3, <2>1
  <2>. QED  BY <1>4, <2>1, <2>2, <2>3
<1>7. ASSUME NEW j \in 1 .. Rounds, FrameStart[j] = FrameStart[k]  PROVE j = k
  <2>1. CASE j < k
    <3>1. FrameStart[j + 1] <= FrameStart[k] /\ FrameStart[j] < FrameStart[j + 1]
            /\ FrameStart[j] \in Nat /\ FrameStart[j + 1] \in Nat
      BY <1>1, <1>2, <1>3, <2>1
    <3>. QED  BY <1>7, <3>1
  <2>2. CASE k < j
    <3>1. FrameStart[k + 1] <= FrameStart[j] /\ FrameStart[k] < FrameStart[k + 1]
            /\ FrameStart[k] \in Nat /\ FrameStart[k + 1] \in Nat
      BY <1>1, <1>2, <1>3, <2>2
    <3>. QED  BY <1>7, <3>1
  <2>. QED  BY <1>1, <2>1, <2>2
<1>. QED  BY <1>3, <1>4, <1>5, <1>6, <1>7

\* Positions stay within one round, which begins again after its last frame.
LEMMA AdvanceFacts ==
  ASSUME NEW p \in 0 .. FrameStart[Rounds + 1] - 1, NEW n \in Nat
  PROVE  /\ FrameStart[Rounds + 1] \in Nat
         /\ Advance(p, n) \in 0 .. FrameStart[Rounds + 1] - 1
         /\ p + n < FrameStart[Rounds + 1] => Advance(p, n) = p + n
         /\ p + n = FrameStart[Rounds + 1] => Advance(p, n) = FrameStart[1]
<1>. DEFINE e == FrameStart[Rounds + 1]
<1>1. HeaderSize \in Nat /\ e \in Nat /\ HeaderSize < e /\ FrameStart[1] = HeaderSize
  <2>1. 1 \in 1 .. Rounds /\ FrameStart[1] = HeaderSize /\ HeaderSize \in Nat
    BY Lens, FrameEnds
  <2>2. FrameStart[1] + LengthSize < e /\ LengthSize \in Nat /\ e \in Nat
    BY <2>1, Offsets
  <2>. QED  BY <2>1, <2>2
<1>. HIDE DEF e
<1>2. RoundSize = e - HeaderSize /\ RoundSize \in Nat \ {0}
  BY <1>1 DEF RoundSize, e
<1>3. p \in Nat /\ p < e /\ p + n \in Nat
  BY <1>1 DEF e
<1>4. CASE p + n < e
  BY <1>1, <1>3, <1>4 DEF Advance, e
<1>5. CASE ~(p + n < e)
  <2>. DEFINE x == p + n - HeaderSize
  <2>1. x \in Nat /\ (p + n = e => x = RoundSize)
    BY <1>1, <1>2, <1>3, <1>5
  <2>2. Advance(p, n) = HeaderSize + (x % RoundSize)
    BY <1>5 DEF Advance, e
  <2>. HIDE DEF x
  <2>3. x % RoundSize \in 0 .. RoundSize - 1
    BY <1>2, <2>1
  <2>4. RoundSize % RoundSize = 0
    BY <1>2
  <2>5. Advance(p, n) \in 0 .. e - 1
    BY <1>1, <1>2, <2>2, <2>3
  <2>6. p + n = e => Advance(p, n) = FrameStart[1]
    BY <1>1, <2>1, <2>2, <2>4
  <2>. QED  BY <1>1, <1>5, <2>5, <2>6 DEF e
<1>. QED  BY <1>4, <1>5

-----------------------------------------------------------------------------
(* The stream.                                                             *)

\* A connection begins at the header.
Begins ==
  /\ vpc = "negotiate" =>
       at = 0 /\ last = 0 /\ damaged = 0 /\ ~short /\ ~closed
  /\ need # NoLength => vpc = "recv"

\* Until a RecvAll is short the thread is at a frame, and knows its length
\* when it has read that.
InStep ==
  ~short =>
    /\ damaged = 0
    /\ vpc \in {"loop", "send", "clear", "recv"} =>
         at = FrameStart[NextFrame] + (IF need = NoLength THEN 0 ELSE LengthSize)
    /\ need # NoLength => need = FrameLengths[NextFrame]

\* Without a receive timeout a RecvAll is short once, at the end.
CutByEnd ==
  mode # "wifi" =>
    /\ short => closed
    /\ damaged # 0 => short /\ damaged = 1

WireInv == TypeOK /\ Begins /\ InStep /\ CutByEnd

\* The positions the invariant speaks of, and what a RecvAll does to them.
LEMMA RecvFacts ==
  ASSUME WireInv, NEW n \in Nat, NEW got \in 0 .. n, RecvAll(n, got)
  PROVE  /\ got \in Nat /\ got <= n
         /\ at' = Advance(at, got)
         /\ at' \in 0 .. FrameStart[Rounds + 1] - 1
         /\ got = 0 => at' = at
         /\ closed' \in BOOLEAN /\ short' \in BOOLEAN
         /\ closed => got = 0 /\ closed'
         /\ short' <=> short \/ (got # 0 /\ got # n)
         /\ mode # "wifi" /\ got # n => closed'
<1>1. at \in 0 .. FrameStart[Rounds + 1] - 1 /\ closed \in BOOLEAN /\ short \in BOOLEAN
  BY DEF WireInv, TypeOK
<1>2. at' = Advance(at, got) /\ got \in Nat
  BY DEF RecvAll
<1>3. at' \in 0 .. FrameStart[Rounds + 1] - 1
  BY <1>1, <1>2, AdvanceFacts
<1>4. got = 0 => at' = at
  <2>1. FrameStart[Rounds + 1] \in Nat
    BY <1>1, <1>2, AdvanceFacts
  <2>2. at + 0 = at /\ at < FrameStart[Rounds + 1]
    BY <1>1, <2>1
  <2>. QED  BY <1>1, <1>2, <2>2, AdvanceFacts
<1>5. /\ closed' \in BOOLEAN
      /\ closed => got = 0 /\ closed'
      /\ mode # "wifi" /\ got # n => closed'
  BY <1>1 DEF RecvAll, Timed
<1>6. short' \in BOOLEAN /\ (short' <=> short \/ (got # 0 /\ got # n))
  <2>1. got \in 1 .. n - 1 <=> got # 0 /\ got # n
    OBVIOUS
  <2>. QED  BY <1>1, <2>1 DEF RecvAll
<1>. QED  BY <1>2, <1>3, <1>4, <1>5, <1>6

\* The frame that is due.
LEMMA NextFrameFacts ==
  ASSUME last \in 0 .. Rounds
  PROVE  NextFrame \in 1 .. Rounds
<1>1. Rounds \in Nat \ {0} /\ last \in Nat
  BY Lens
<1>2. last % Rounds \in 0 .. Rounds - 1
  BY <1>1
<1>. QED  BY <1>1, <1>2 DEF NextFrame

\* The request is answered, or the connection ends.
LEMMA HeaderWire ==
  ASSUME WireInv, MailboxTypeOK', RecvHeader
  PROVE  WireInv'
<1>1. PICK got \in 0 .. HeaderSize :
        /\ RecvAll(HeaderSize, got) /\ Negotiate
        /\ Ended(got) => vpc' = "end"
  BY DEF RecvHeader
<1>2. UNCHANGED <<need, last, damaged, mode>>
  BY <1>1 DEF RecvHeader, Negotiate, NotMailbox, session
<1>3. /\ vpc = "negotiate" /\ vpc' \in {"loop", "end"} /\ need = NoLength
      /\ at = 0 /\ last = 0 /\ damaged = 0 /\ ~short /\ ~closed
      /\ got = 0 => vpc' = "end"
  BY <1>1 DEF Negotiate, Goto, WireInv, Begins, Ended
<1>4. /\ at' = Advance(at, got) /\ at' \in 0 .. FrameStart[Rounds + 1] - 1
      /\ closed' \in BOOLEAN /\ short' \in BOOLEAN
      /\ short' <=> short \/ (got # 0 /\ got # HeaderSize)
      /\ mode # "wifi" /\ got # HeaderSize => closed'
  BY <1>1, Lens, RecvFacts
<1>5. TypeOK'
  BY <1>2, <1>4 DEF WireInv, TypeOK
<1>6. Begins' /\ CutByEnd'
  BY <1>2, <1>3, <1>4 DEF Begins, CutByEnd
<1>7. got = HeaderSize => at' = FrameStart[NextFrame]
  <2>1. 1 \in 1 .. Rounds /\ HeaderSize \in Nat /\ Rounds \in Nat \ {0}
    BY Lens
  <2>2. FrameStart[1] = HeaderSize /\ FrameStart[1] + LengthSize < FrameStart[Rounds + 1]
          /\ LengthSize \in Nat /\ FrameStart[Rounds + 1] \in Nat
    BY <2>1, FrameEnds, Offsets
  <2>3. 0 \in 0 .. FrameStart[Rounds + 1] - 1 /\ 0 + HeaderSize = FrameStart[1]
          /\ 0 + HeaderSize < FrameStart[Rounds + 1]
    BY <2>1, <2>2
  <2>4. Advance(0, HeaderSize) = 0 + HeaderSize
    BY <2>1, <2>3, AdvanceFacts
  <2>5. NextFrame = 1
    BY <1>3, <2>1 DEF NextFrame
  <2>. QED  BY <1>3, <1>4, <2>3, <2>4, <2>5
<1>8. InStep'
  <2>. SUFFICES ASSUME vpc' = "loop", ~short'
                PROVE  at' = FrameStart[NextFrame] + 0
    BY <1>2, <1>3 DEF InStep, NextFrame
  <2>1. got = HeaderSize
    BY <1>3, <1>4
  <2>2. FrameStart[NextFrame] \in Nat
    BY <1>3, Lens, NextFrameFacts, Offsets
  <2>. QED  BY <1>7, <2>1, <2>2
<1>. QED  BY <1>5, <1>6, <1>8 DEF WireInv

\* In step, the length that is read is that of the frame that is due.
LEMMA LengthWire ==
  ASSUME WireInv, MailboxTypeOK', RecvLength
  PROVE  WireInv'
<1>. DEFINE k == NextFrame
<1>1. PICK got \in 0 .. LengthSize :
        /\ RecvAll(LengthSize, got)
        /\ IF Ended(got) THEN RecvFrame /\ vpc' = "end" /\ UNCHANGED need
           ELSE need' \in LengthRead(got) /\ UNCHANGED vars
  BY DEF RecvLength
<1>2. /\ vpc = "recv" /\ need = NoLength
      /\ UNCHANGED <<last, damaged>>
      /\ last \in 0 .. Rounds /\ damaged \in 0 .. 2
  BY DEF RecvLength, WireInv, TypeOK
<1>3. UNCHANGED mode
  BY <1>1 DEF RecvFrame, NotMailbox, vars, session
<1>4. /\ got \in Nat /\ at' = Advance(at, got)
      /\ at' \in 0 .. FrameStart[Rounds + 1] - 1
      /\ got = 0 => at' = at
      /\ closed' \in BOOLEAN /\ short' \in BOOLEAN
      /\ closed => got = 0 /\ closed'
      /\ short' <=> short \/ (got # 0 /\ got # LengthSize)
      /\ mode # "wifi" /\ got # LengthSize => closed'
  BY <1>1, Lens, RecvFacts
<1>5. k \in 1 .. Rounds /\ k' = k
  BY <1>2, NextFrameFacts DEF NextFrame
<1>6. CutByEnd'
  BY <1>2, <1>3, <1>4 DEF WireInv, CutByEnd
<1>7. CASE got = 0
  <2>1. vpc' = "end" /\ need' = NoLength
    BY <1>1, <1>2, <1>7 DEF Ended
  <2>2. TypeOK'
    BY <1>2, <1>4, <2>1 DEF TypeOK
  <2>3. Begins'
    BY <2>1 DEF Begins
  <2>4. InStep'
    BY <1>2, <1>4, <1>7, <2>1 DEF WireInv, InStep
  <2>. QED  BY <1>6, <2>2, <2>3, <2>4 DEF WireInv
<1>8. CASE got # 0
  <2>1. need' \in LengthRead(got) /\ vpc' = "recv"
    BY <1>1, <1>2, <1>8 DEF Ended, vars
  <2>2. LengthRead(got) \subseteq Nat
    <3>1. \A i \in 1 .. Rounds : FrameLengths[i] \in Nat
      BY Lens
    <3>. QED  BY <3>1, SizesAssumption DEF LengthRead
  <2>3. need' \in Nat /\ need' # NoLength
    BY <2>1, <2>2 DEF NoLength
  <2>4. TypeOK'
    BY <1>2, <1>4, <2>3 DEF TypeOK
  <2>5. Begins'
    BY <2>1 DEF Begins
  <2>6. ASSUME ~short'
        PROVE  damaged = 0 /\ at' = FrameStart[k] + LengthSize
                 /\ need' = FrameLengths[k]
    <3>1. got = LengthSize /\ ~short
      BY <1>4, <1>8, <2>6
    <3>2. /\ FrameStart[k] \in Nat /\ LengthSize \in Nat
          /\ FrameStart[k] + LengthSize < FrameStart[Rounds + 1]
          /\ \A j \in 1 .. Rounds : FrameStart[j] = FrameStart[k] => j = k
      BY <1>5, Offsets
    <3>3. damaged = 0 /\ at = FrameStart[k] + 0
      BY <1>2, <3>1 DEF WireInv, InStep
    <3>4. at = FrameStart[k]
      BY <3>2, <3>3
    <3>5. at' = FrameStart[k] + LengthSize
      <4>1. at \in 0 .. FrameStart[Rounds + 1] - 1
        BY DEF WireInv, TypeOK
      <4>. QED  BY <1>4, <3>1, <3>2, <3>4, <4>1, AdvanceFacts
    <3>6. (CHOOSE j \in 1 .. Rounds : at = FrameStart[j]) = k
      BY <1>5, <3>2, <3>4
    <3>7. need' = FrameLengths[k]
      BY <1>5, <2>1, <3>1, <3>4, <3>6 DEF LengthRead
    <3>. QED  BY <3>3, <3>5, <3>7
  <2>7. InStep'
    BY <1>2, <1>5, <2>3, <2>6 DEF InStep
  <2>. QED  BY <1>6, <2>4, <2>5, <2>7 DEF WireInv
<1>. QED  BY <1>7, <1>8

\* In step, the body that is read is that of the frame that is due; one that
\* is not, where there is no timeout, was cut by the end of the connection.
LEMMA BodyWire ==
  ASSUME WireInv, MailboxTypeOK', RecvBody
  PROVE  WireInv'
<1>. DEFINE k == NextFrame
<1>1. /\ vpc = "recv" /\ need \in Nat /\ need # NoLength /\ need' = NoLength
      /\ RecvFrame /\ last \in 0 .. Rounds /\ damaged \in 0 .. 2
  BY DEF RecvBody, WireInv, TypeOK
<1>2. PICK got \in 0 .. need :
        /\ RecvAll(need, got)
        /\ IF Ended(got)
             THEN vpc' = "end" /\ UNCHANGED <<last, damaged>>
             ELSE /\ vpc' = "loop"
                  /\ IF IsNextFrame(got)
                       THEN last' = NextFrame /\ UNCHANGED damaged
                       ELSE /\ damaged' = IF damaged < 2 THEN damaged + 1 ELSE 2
                            /\ UNCHANGED last
  BY DEF RecvBody
<1>3. UNCHANGED mode
  BY <1>1 DEF RecvFrame, NotMailbox, session
<1>4. /\ got \in Nat /\ at' = Advance(at, got)
      /\ at' \in 0 .. FrameStart[Rounds + 1] - 1
      /\ closed' \in BOOLEAN /\ short' \in BOOLEAN
      /\ closed => got = 0 /\ closed'
      /\ short' <=> short \/ (got # 0 /\ got # need)
      /\ mode # "wifi" /\ got # need => closed'
  BY <1>1, <1>2, RecvFacts
<1>5. k \in 1 .. Rounds
  BY <1>1, NextFrameFacts
<1>6. CASE got = 0
  <2>1. vpc' = "end" /\ UNCHANGED <<last, damaged>>
    BY <1>2, <1>6 DEF Ended
  <2>2. TypeOK'
    BY <1>1, <1>4, <2>1 DEF TypeOK
  <2>3. Begins' /\ InStep'
    BY <1>1, <1>4, <1>6, <2>1 DEF WireInv, Begins, InStep
  <2>4. CutByEnd'
    BY <1>3, <1>4, <1>6, <2>1 DEF WireInv, CutByEnd
  <2>. QED  BY <2>2, <2>3, <2>4 DEF WireInv
<1>7. CASE got # 0
  <2>1. /\ vpc' = "loop"
        /\ IF IsNextFrame(got)
             THEN last' = k /\ damaged' = damaged
             ELSE /\ damaged' = IF damaged < 2 THEN damaged + 1 ELSE 2
                  /\ last' = last
    BY <1>2, <1>7 DEF Ended
  <2>2. ~closed
    BY <1>4, <1>7
  <2>3. TypeOK'
    <3>1. last' \in 0 .. Rounds
      BY <1>1, <1>5, <2>1
    <3>2. damaged' \in 0 .. 2
      BY <1>1, <2>1
    <3>. QED  BY <1>1, <1>4, <3>1, <3>2 DEF TypeOK
  <2>4. Begins'
    BY <1>1, <2>1 DEF Begins
  <2>5. ~short => damaged = 0 /\ at = FrameStart[k] + LengthSize
                    /\ need = FrameLengths[k]
    BY <1>1 DEF WireInv, InStep
  <2>6. ~short /\ got = need => IsNextFrame(got)
    BY <2>5 DEF IsNextFrame
  <2>7. CutByEnd'
    <3>. SUFFICES ASSUME mode # "wifi"
                  PROVE  (short' => closed')
                           /\ (damaged' # 0 => short' /\ damaged' = 1)
      BY <1>3 DEF CutByEnd
    <3>1. ~short /\ damaged = 0
      BY <2>2, <2>5 DEF WireInv, CutByEnd
    <3>. QED  BY <1>4, <1>7, <2>1, <2>6, <3>1
  <2>8. InStep'
    <3>. SUFFICES ASSUME ~short'
                  PROVE  damaged' = 0 /\ at' = FrameStart[NextFrame'] + 0
      BY <1>1 DEF InStep, NextFrame
    <3>1. ~short /\ got = need
      BY <1>4, <1>7
    <3>2. damaged' = 0 /\ last' = k
      BY <2>1, <2>5, <2>6, <3>1
    <3>3. /\ FrameStart[k] \in Nat /\ LengthSize \in Nat /\ FrameLengths[k] \in Nat
          /\ FrameStart[Rounds + 1] \in Nat
          /\ FrameStart[k + 1] = FrameStart[k] + LengthSize + FrameLengths[k]
          /\ k < Rounds => k + 1 \in 1 .. Rounds
                             /\ FrameStart[k + 1] < FrameStart[Rounds + 1]
      BY <1>5, Offsets, FrameEnds
    <3>4. at + got = FrameStart[k + 1]
      BY <2>5, <3>1, <3>3
    <3>5. at \in 0 .. FrameStart[Rounds + 1] - 1
      BY DEF WireInv, TypeOK
    <3>6. NextFrame' = (k % Rounds) + 1
      BY <3>2 DEF NextFrame
    <3>. HIDE DEF k
    <3>7. CASE k < Rounds
      <4>1. NextFrame' = k + 1
        <5>1. k % Rounds = k
          BY <1>5, <3>7, Lens
        <5>. QED  BY <3>6, <5>1
      <4>2. at' = FrameStart[k + 1]
        BY <1>4, <3>3, <3>4, <3>5, <3>7, AdvanceFacts
      <4>3. FrameStart[k + 1] \in Nat
        BY <3>3
      <4>. QED  BY <3>2, <4>1, <4>2, <4>3
    <3>8. CASE k = Rounds
      <4>1. NextFrame' = 1
        <5>1. k % Rounds = 0
          BY <3>8, Lens
        <5>. QED  BY <3>6, <5>1
      <4>2. at' = FrameStart[1]
        BY <1>4, <3>4, <3>5, <3>8, AdvanceFacts
      <4>3. FrameStart[1] \in Nat
        BY Lens, FrameEnds
      <4>. QED  BY <3>2, <4>1, <4>2, <4>3
    <3>. QED  BY <1>5, <3>7, <3>8, Lens
  <2>. QED  BY <2>3, <2>4, <2>7, <2>8 DEF WireInv
<1>. QED  BY <1>6, <1>7

\* Every step keeps the position in the stream.
LEMMA StreamWire ==
  ASSUME WireInv, MailboxTypeOK', [StreamNext]_streamVars
  PROVE  WireInv'
<1>1. ASSUME UNCHANGED <<wire, mode>>, vpc' = "negotiate" => vpc = "negotiate",
             vpc = "recv" => vpc' = "recv",
             vpc' \in {"loop", "send", "clear", "recv"} =>
               vpc \in {"loop", "send", "clear", "recv"}
      PROVE  WireInv'
  BY <1>1 DEF WireInv, TypeOK, Begins, InStep, CutByEnd, NextFrame, wire
<1>2. CASE LocalStep /\ UNCHANGED wire
  BY <1>1, <1>2
  DEF LocalStep, LoopTest, SendCommand, ClearCommand, EarlyOut, Goto, NotMailbox,
      session
<1>3. CASE UserStep /\ UNCHANGED wire
  <2>1. UNCHANGED <<vpc, mode>>
    BY <1>3 DEF UserStep, Command, WbValue, WbCommand, Stop, session
  <2>. QED  BY <1>1, <1>3, <2>1
<1>4. CASE Connected
  <2>1. /\ at' = 0 /\ closed' = FALSE /\ need' = NoLength
        /\ short' = FALSE /\ last' = 0 /\ damaged' = 0
        /\ vpc' \in {"accept", "negotiate", "end"}
    BY <1>4 DEF Connected, Start, Accept, Goto
  <2>2. 0 \in 0 .. FrameStart[Rounds + 1] - 1 /\ 0 \in 0 .. Rounds
    <3>1. 1 \in 1 .. Rounds /\ Rounds \in Nat
      BY Lens
    <3>2. FrameStart[1] \in Nat /\ FrameStart[Rounds + 1] \in Nat
            /\ LengthSize \in Nat \ {0}
            /\ FrameStart[1] + LengthSize < FrameStart[Rounds + 1]
      BY <3>1, Offsets
    <3>. QED  BY <3>1, <3>2
  <2>3. closed' \in BOOLEAN /\ short' \in BOOLEAN
    BY <2>1, Zenon
  <2>4. TypeOK'
    BY <2>1, <2>2, <2>3 DEF TypeOK
  <2>. QED  BY <2>1, <2>4 DEF WireInv, Begins, InStep, CutByEnd
<1>5. CASE Recv
  BY <1>5, HeaderWire, LengthWire, BodyWire DEF Recv
<1>6. CASE UNCHANGED streamVars
  BY <1>1, <1>6 DEF streamVars, vars, session
<1>. QED  BY <1>2, <1>3, <1>4, <1>5, <1>6 DEF StreamNext

\* The position in the stream is known in every behaviour.
LEMMA WireAlways == Spec => []WireInv
<1>1. StreamInit /\ MailboxTypeOK => WireInv
  <2>. SUFFICES ASSUME StreamInit, MailboxTypeOK  PROVE WireInv
    OBVIOUS
  <2>1. 0 \in 0 .. FrameStart[Rounds + 1] - 1 /\ 0 \in 0 .. Rounds
    <3>1. 1 \in 1 .. Rounds /\ Rounds \in Nat
      BY Lens
    <3>2. FrameStart[1] \in Nat /\ FrameStart[Rounds + 1] \in Nat
            /\ LengthSize \in Nat \ {0}
            /\ FrameStart[1] + LengthSize < FrameStart[Rounds + 1]
      BY <3>1, Offsets
    <3>. QED  BY <3>1, <3>2
  <2>2. closed \in BOOLEAN /\ short \in BOOLEAN
    BY Zenon DEF StreamInit
  <2>3. TypeOK
    BY <2>1, <2>2 DEF StreamInit, TypeOK
  <2>. QED
    BY <2>3 DEF StreamInit, Init, WireInv, Begins, InStep, CutByEnd
<1>2. WireInv /\ MailboxTypeOK' /\ [StreamNext]_streamVars => WireInv'
  BY StreamWire
<1>. QED  BY <1>1, <1>2, MailboxTypeCorrect, PTL DEF Spec

\* Every variable keeps its type: offsets stay within one round of the stream.
THEOREM StreamTypeCorrect == Spec => []TypeOK
<1>1. WireInv => TypeOK
  BY DEF WireInv
<1>. QED  BY <1>1, WireAlways, PTL

\* As long as no RecvAll was short, the frames pushed are those the phone sent,
\* in order and whole, with the commands sent in between (av.c:152-176).
THEOREM FramesInStep == Spec => []FramesAsSent
<1>1. WireInv => FramesAsSent
  BY DEF WireInv, InStep, FramesAsSent
<1>. QED  BY <1>1, WireAlways, PTL

\* Without a receive timeout only the end of the connection cuts a RecvAll
\* short, and no frame follows a damaged one (connection.c:113).
THEOREM DamageEndsStream == Spec => []DamagedIsLast
<1>1. WireInv => DamagedIsLast
  BY DEF WireInv, CutByEnd, DamagedIsLast
<1>. QED  BY <1>1, WireAlways, PTL

=============================================================================
