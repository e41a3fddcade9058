--------------------------- MODULE LoopbackRingProof ---------------------------
(***************************************************************************)
(* The buffers of the driver, proved for any number of buffers, readers    *)
(* and frames.                                                             *)
(*                                                                         *)
(* TypeInv and WaitInv, about waiting, hold however calls of REQBUFS       *)
(* overlap.  The others need QuietSetup: ListInv says what outbufs_list    *)
(* and bufpos2index are at each element a REQBUFS walks over, MapInv what  *)
(* is mapped, and FrameInv locates the frames that are still whole.        *)
(***************************************************************************)
EXTENDS LoopbackRing, SequenceTheorems, FunctionTheorems, FiniteSetTheorems, TLAPS

-----------------------------------------------------------------------------
(* The inductive invariants.                                               *)

Listed == Len(outbufs_list)

\* A list that holds no buffer twice, and buffer 0, which no REQBUFS removes.
Proper(list) ==
  /\ list \in Seq(Buffers)
  /\ \A i, j \in 1 .. Len(list) : list[i] = list[j] => i = j
  /\ \E i \in 1 .. Len(list) : list[i] = 0

\* Nothing more is left when calls of REQBUFS overlap.
TypeInv ==
  /\ TypeOK /\ Proper(outbufs_list)
  /\ \A o \in Readers : pc[o] \in InSetup => request[o] >= 1

\* The list holds each of the buffers 0 .. n - 1.
Holds(list, n) == \A b \in 0 .. n - 1 : \E i \in 1 .. Len(list) : list[i] = b
\* It holds no others.
Within(list, n) == \A i \in 1 .. Len(list) : list[i] < n

\* The list is as used_buffers says.
Full == Within(outbufs_list, used_buffers) /\ Holds(outbufs_list, used_buffers)

\* The walks of a REQBUFS: up to the element to come, buffers out of range are
\* gone, or those that are left have their positions.
Shrinks(o) ==
  /\ request[o] < used_buffers
  /\ Within(outbufs_list, used_buffers) /\ Holds(outbufs_list, request[o])
  /\ \E k \in 1 .. Listed :
       /\ outbufs_list[k] = at[o]
       /\ \A j \in 1 .. k - 1 : outbufs_list[j] < request[o]

Placed(o, k) ==
  \A j \in 1 .. k :
    bufpos2index[(write_position + j - 1) % request[o]] = outbufs_list[j]

Shrunk(o) ==
  /\ request[o] < used_buffers
  /\ Within(outbufs_list, request[o]) /\ Holds(outbufs_list, request[o])
  /\ mark = write_position

Remaps(o) ==
  /\ Shrunk(o)
  /\ \E k \in 1 .. Listed :
       outbufs_list[k] = at[o] /\ place[o] = write_position + k - 1 /\ Placed(o, k - 1)

\* A REQBUFS that has no list to shorten, or none yet.
Waits(o) == pc[o] = "test" /\ request[o] >= used_buffers

Stage(o) ==
  /\ pc[o] = "shrink" => Shrinks(o)
  /\ pc[o] = "remap" => Remaps(o)
  /\ pc[o] = "store" => request[o] < used_buffers
  /\ pc[o] \in {"test", "store"} /\ request[o] < used_buffers
       => Shrunk(o) /\ Placed(o, Listed)

\* No REQBUFS has a list to shorten.
Calm == \A o \in Readers : pc[o] \in InSetup => Waits(o)

ListInv ==
  /\ TypeInv
  /\ wpc = "fill" => Quiet
  /\ \A o, p \in Readers : pc[o] \in InSetup /\ pc[p] \in InSetup => o = p
  /\ \A o \in Readers : Stage(o)
  /\ Calm => Full
  /\ \A p \in 0 .. used_buffers - 1 : bufpos2index[p] < used_buffers
  /\ mark <= write_position

\* used_buffers only gets smaller, so that querying a granted buffer, which is
\* reduced modulo used_buffers, reaches all of them.
Granted ==
  \A o \in Readers :
    /\ buffers_number[o] > 0 /\ pc[o] # "store" => used_buffers <= buffers_number[o]
    /\ pc[o] = "store" => buffers_number[o] = request[o]

Owned ==
  \A o \in Readers : own[o] =>
    /\ Quiet
    /\ 0 .. used_buffers - 1 \subseteq mapped
    /\ pc[o] = "picked" => pos[o] < used_buffers
    /\ pc[o] # "closed"

\* No reader is ahead of the producer, and one that opens starts at 0.
NotAhead ==
  \A o \in Readers :
    /\ read_position[o] <= write_position
    /\ pc[o] = "closed" => read_position[o] = 0

\* What a reader with O_NONBLOCK was let in for does not go away.
LetIn ==
  \A o \in Readers : call[o] = "frame" =>
    /\ pc[o] = "wait"
    /\ \/ write_position > read_position[o]
       \/ reread_count > opener_reread[o]

\* A reader sleeps with something to read only until the wakeup that is due.
NoLostWakeup ==
  \A o \in Readers : pc[o] = "sleep" /\ Readable(o) => wpc = "wake"

WaitInv == NotAhead /\ LetIn /\ NoLostWakeup
MapInv == Granted /\ Owned

\* Frames begun, the one being written included.
begun == write_position + (IF wpc \in {"fill", "failed"} THEN 1 ELSE 0)

\* Frame n is the newest one at its position, and that was not remapped since.
Fresh(n) == n > mark /\ n > begun - used_buffers
Slot(n) == bufpos2index[(n - 1) % used_buffers]

Whole ==
  \A n \in 1 .. write_position :
    Fresh(n) => frame[Slot(n)] = n \/ Slot(n) \in imaged

\* write() puts frame n into the buffer of its own position.
WritePlace ==
  how = "write" =>
    /\ \A n \in 1 .. write_position :
         Fresh(n) => Slot(n) = (n - 1) % used_buffers
    /\ wpc = "fill" => write_index = write_position % used_buffers

\* Queued buffers are used in the order of the list, the newest at its end.
StreamPlace ==
  how = "stream" =>
    /\ wpc # "failed"
    /\ \A n \in 1 .. write_position :
         Fresh(n) /\ Calm => Slot(n) = outbufs_list[used_buffers - (begun - n)]
    /\ wpc = "fill" => write_index = outbufs_list[Listed]

\* What a reader picked is at most one frame older than the newest then.
Picked ==
  \A o \in Readers : pc[o] = "picked" =>
    /\ due[o] <= write_position /\ begun <= due[o] + 1 + late[o]
    /\ due[o] > mark => pos[o] = (due[o] - 1) % used_buffers

FrameInv == Whole /\ WritePlace /\ StreamPlace /\ Picked

-----------------------------------------------------------------------------
(* Positions modulo a number of buffers.                                   *)

\* Quotient and remainder.
LEMMA DivMod ==
  ASSUME NEW a \in Nat, NEW n \in Nat \ {0}
  PROVE  a % n \in 0 .. n - 1 /\ a \div n \in Nat /\ a = n * (a \div n) + (a % n)
  OBVIOUS

\* Multiples of n are n apart.
LEMMA Mono ==
  ASSUME NEW q \in Int, NEW p \in Int, NEW n \in Nat \ {0}, q < p
  PROVE  n * q + n <= n * p
  OBVIOUS

\* The remainder is the only one there is.
LEMMA ModUnique ==
  ASSUME NEW a \in Nat, NEW n \in Nat \ {0}, NEW q \in Int, NEW r \in 0 .. n - 1,
         a = n * q + r
  PROVE  a % n = r
<1>. DEFINE p == a \div n  m == a % n
<1>1. m \in 0 .. n - 1 /\ p \in Int /\ a = n * p + m
  BY DivMod
<1>. HIDE DEF p, m
<1>2. ~(p < q)
  <2>. SUFFICES ASSUME p < q  PROVE FALSE
    OBVIOUS
  <2>. QED  BY <1>1, Mono
<1>3. ~(q < p)
  <2>. SUFFICES ASSUME q < p  PROVE FALSE
    OBVIOUS
  <2>. QED  BY <1>1, Mono
<1>4. CASE p = q
  <2>1. a = n * q + m
    BY <1>1, <1>4
  <2>. DEFINE k == n * q
  <2>2. k \in Int /\ a = k + r /\ a = k + m
    BY <2>1
  <2>. HIDE DEF k
  <2>3. m = r
    BY <1>1, <2>2
  <2>. QED  BY <2>3 DEF m
<1>5. p = q
  BY <1>1, <1>2, <1>3
<1>. QED  BY <1>4, <1>5

\* A position in use is its own remainder.
LEMMA ModSmall ==
  ASSUME NEW a \in Nat, NEW n \in Nat \ {0}, a < n
  PROVE  a % n = a
  OBVIOUS

\* Frames less than n apart have different positions.
LEMMA ModApart ==
  ASSUME NEW a \in Nat, NEW b \in Nat, NEW n \in Nat \ {0}, a < b, b - a < n
  PROVE  a % n # b % n
<1>. DEFINE p == a \div n  m == a % n  q == b \div n  k == b % n
<1>1. m \in 0 .. n - 1 /\ p \in Int /\ a = n * p + m
  BY DivMod
<1>2. k \in 0 .. n - 1 /\ q \in Int /\ b = n * q + k
  BY DivMod
<1>. HIDE DEF p, m, q, k
<1>3. SUFFICES ASSUME m = k  PROVE FALSE
  BY DEF m, k
<1>4. b - a = n * q - n * p
  BY <1>1, <1>2, <1>3
<1>5. CASE p < q
  BY <1>1, <1>2, <1>4, <1>5, Mono
<1>6. CASE q <= p
  <2>1. n * q <= n * p
    BY <1>1, <1>2, <1>6, Mono
  <2>. QED  BY <1>1, <1>2, <1>4, <2>1
<1>. QED  BY <1>1, <1>2, <1>5, <1>6

\* Adding n changes no remainder.
LEMMA ModShift ==
  ASSUME NEW a \in Nat, NEW n \in Nat \ {0}
  PROVE  (a + n) % n = a % n
<1>. DEFINE p == a \div n  m == a % n
<1>1. m \in 0 .. n - 1 /\ p \in Int /\ a = n * p + m
  BY DivMod
<1>. HIDE DEF p, m
<1>2. a + n = n * (p + 1) + m
  BY <1>1
<1>3. (a + n) % n = m
  BY <1>1, <1>2, ModUnique
<1>. QED  BY <1>3 DEF m

\* Any n positions in a row cover them all.
LEMMA ModCover ==
  ASSUME NEW w \in Nat, NEW n \in Nat \ {0}, NEW p \in 0 .. n - 1
  PROVE  \E i \in 1 .. n : (w + i - 1) % n = p
<1>. DEFINE q == w \div n
            m == w % n
            i == IF m <= p THEN p - m + 1 ELSE p - m + n + 1
<1>1. m \in 0 .. n - 1 /\ q \in Int /\ w = n * q + m
  BY DivMod
<1>. HIDE DEF q, m
<1>2. i \in 1 .. n
  BY <1>1
<1>3. CASE m <= p
  <2>1. w + i - 1 = n * q + p
    BY <1>1, <1>3
  <2>2. w + i - 1 \in Nat
    BY <1>2
  <2>. QED  BY <1>1, <1>2, <2>1, <2>2, ModUnique
<1>4. CASE ~(m <= p)
  <2>1. w + i - 1 = n * (q + 1) + p
    BY <1>1, <1>4
  <2>2. w + i - 1 \in Nat
    BY <1>2
  <2>3. q + 1 \in Int
    BY <1>1
  <2>4. (w + i - 1) % n = p
    BY <2>1, <2>2, <2>3, ModUnique
  <2>. QED  BY <1>2, <2>4
<1>. QED  BY <1>3, <1>4

-----------------------------------------------------------------------------
(* Lists: taking an element off, and moving it to the end.                 *)

\* A slice of a sequence.
LEMMA Slice ==
  ASSUME NEW s \in Seq(Buffers), NEW n \in Nat, n = Len(s),
         NEW m \in 0 .. n, NEW k \in 0 .. n - m
  PROVE  /\ SubSeq(s, m + 1, m + k) \in Seq(Buffers)
         /\ Len(SubSeq(s, m + 1, m + k)) = k
         /\ \A i \in 1 .. k : SubSeq(s, m + 1, m + k)[i] = s[m + i]
<1>. DEFINE from == m + 1  to == m + k  t == SubSeq(s, from, to)
<1>1. from \in Int /\ to \in Int /\ to - from + 1 = k /\ (from <= to <=> k >= 1)
  OBVIOUS
<1>2. \A i \in from .. to : s[i] \in Buffers
  BY LenProperties, ElementOfSeq
<1>3. /\ t \in Seq(Buffers)
      /\ Len(t) = IF from <= to THEN to - from + 1 ELSE 0
      /\ \A i \in 1 .. to - from + 1 : t[i] = s[from + i - 1]
  <2>. HIDE DEF from, to
  <2>. QED  BY <1>1, <1>2, SubSeqProperties
<1>4. ASSUME NEW i \in 1 .. k  PROVE t[i] = s[m + i]
  <2>1. from + i - 1 = m + i /\ i \in 1 .. to - from + 1
    OBVIOUS
  <2>. QED  BY <1>3, <2>1
<1>5. Len(t) = k
  BY <1>1, <1>3
<1>. QED  BY <1>3, <1>4, <1>5

\* In a list that holds nothing twice a buffer is found where it is, and what
\* follows it is the next one.
LEMMA IndexFacts ==
  ASSUME NEW s, Proper(s), NEW n \in Nat, n = Len(s), NEW k \in 1 .. n
  PROVE  /\ IndexOf(s, s[k]) = k
         /\ After(s, s[k]) = IF k = n THEN End ELSE s[k + 1]
<1>1. s \in Seq(Buffers) /\ DOMAIN s = 1 .. n
  BY LenProperties DEF Proper
<1>2. IndexOf(s, s[k]) = k
  BY <1>1 DEF IndexOf, Proper
<1>. QED  BY <1>2 DEF After

\* The elements behind one that is taken off move up.
LEMMA DelFacts ==
  ASSUME NEW s, Proper(s), NEW n \in Nat, n = Len(s), NEW k \in 1 .. n
  PROVE  /\ Del(s, s[k]) \in Seq(Buffers) /\ Len(Del(s, s[k])) = n - 1
         /\ \A i \in 1 .. n - 1 :
              Del(s, s[k])[i] = IF i < k THEN s[i] ELSE s[i + 1]
<1>. DEFINE a == SubSeq(s, 1, k - 1)
            b == SubSeq(s, k + 1, n)
            c == Del(s, s[k])
<1>1. s \in Seq(Buffers) /\ k \in 1 .. n
  BY DEF Proper
<1>2. c = a \o b
  BY IndexFacts DEF Del, RemoveAt
<1>4. /\ a \in Seq(Buffers) /\ Len(a) = k - 1
      /\ \A i \in 1 .. k - 1 : a[i] = s[i]
  <2>1. 0 \in 0 .. n /\ k - 1 \in 0 .. n - 0 /\ 0 + 1 = 1 /\ 0 + (k - 1) = k - 1
          /\ \A i \in 1 .. k - 1 : 0 + i = i
    OBVIOUS
  <2>. QED  BY <1>1, <2>1, Slice
<1>5. /\ b \in Seq(Buffers) /\ Len(b) = n - k
      /\ \A i \in 1 .. n - k : b[i] = s[k + i]
  <2>1. k \in 0 .. n /\ n - k \in 0 .. n - k /\ k + (n - k) = n
    OBVIOUS
  <2>. QED  BY <1>1, <2>1, Slice
<1>. HIDE DEF a, b, c
<1>6. /\ c \in Seq(Buffers) /\ Len(c) = n - 1
      /\ \A i \in 1 .. n - 1 :
           c[i] = IF i <= k - 1 THEN a[i] ELSE b[i - (k - 1)]
  <2>1. Len(a) + Len(b) = n - 1
    BY <1>4, <1>5
  <2>2. /\ c \in Seq(Buffers) /\ Len(c) = Len(a) + Len(b)
        /\ \A i \in 1 .. Len(a) + Len(b) :
             c[i] = IF i <= Len(a) THEN a[i] ELSE b[i - Len(a)]
    BY <1>2, <1>4, <1>5, ConcatProperties
  <2>. QED  BY <1>4, <2>1, <2>2
<1>7. ASSUME NEW i \in 1 .. n - 1
      PROVE  c[i] = IF i < k THEN s[i] ELSE s[i + 1]
  <2>1. CASE i < k
    <3>1. i <= k - 1 /\ i \in 1 .. k - 1
      BY <2>1
    <3>. QED  BY <1>4, <1>6, <2>1, <3>1
  <2>2. CASE ~(i < k)
    <3>1. ~(i <= k - 1) /\ i - (k - 1) \in 1 .. n - k /\ k + (i - (k - 1)) = i + 1
      BY <2>2
    <3>2. c[i] = b[i - (k - 1)]
      BY <1>6, <3>1
    <3>3. b[i - (k - 1)] = s[k + (i - (k - 1))]
      BY <1>5, <3>1
    <3>. QED  BY <2>2, <3>1, <3>2, <3>3
  <2>. QED  BY <2>1, <2>2
<1>. QED  BY <1>6, <1>7 DEF c

\* An element moved to the end: those behind it move up.
LEMMA MoveTailFacts ==
  ASSUME NEW s, Proper(s), NEW n \in Nat, n = Len(s), NEW k \in 1 .. n
  PROVE  /\ MoveTail(s, s[k]) \in Seq(Buffers) /\ Len(MoveTail(s, s[k])) = n
         /\ \A i \in 1 .. n :
              MoveTail(s, s[k])[i] =
                IF i < k THEN s[i] ELSE IF i < n THEN s[i + 1] ELSE s[k]
<1>. DEFINE c == Del(s, s[k])
            t == MoveTail(s, s[k])
            x == s[k]
<1>1. /\ c \in Seq(Buffers) /\ Len(c) = n - 1
      /\ \A i \in 1 .. n - 1 : c[i] = IF i < k THEN s[i] ELSE s[i + 1]
  BY DelFacts
<1>2. x \in Buffers
  BY ElementOfSeq DEF Proper
<1>3. t = Append(c, x)
  BY DEF MoveTail
<1>. HIDE DEF c, t, x
<1>4. /\ Append(c, x) \in Seq(Buffers)
      /\ Len(Append(c, x)) = Len(c) + 1
      /\ \A i \in 1 .. Len(c) : Append(c, x)[i] = c[i]
      /\ Append(c, x)[Len(c) + 1] = x
  BY <1>1, <1>2, AppendProperties
<1>5. /\ t \in Seq(Buffers) /\ Len(t) = n
      /\ \A i \in 1 .. n - 1 : t[i] = c[i]
      /\ t[n] = x
  <2>1. Len(c) + 1 = n
    BY <1>1
  <2>. QED  BY <1>1, <1>3, <1>4, <2>1
<1>6. ASSUME NEW i \in 1 .. n
      PROVE  t[i] = IF i < k THEN s[i] ELSE IF i < n THEN s[i + 1] ELSE x
  <2>1. CASE i < n
    <3>1. i \in 1 .. n - 1
      BY <2>1
    <3>. QED  BY <1>1, <1>5, <2>1, <3>1
  <2>2. CASE ~(i < n)
    <3>1. i = n /\ ~(i < k)
      BY <2>2
    <3>. QED  BY <1>5, <2>2, <3>1
  <2>. QED  BY <2>1, <2>2
<1>. QED  BY <1>5, <1>6 DEF t, x

\* Taking an element off leaves the others, each once.
LEMMA DelElements ==
  ASSUME NEW s, Proper(s), NEW n \in Nat, n = Len(s), NEW k \in 1 .. n
  PROVE  /\ \A i \in 1 .. n - 1 : \E m \in 1 .. n : m # k /\ Del(s, s[k])[i] = s[m]
         /\ \A m \in 1 .. n : m # k => \E i \in 1 .. n - 1 : Del(s, s[k])[i] = s[m]
         /\ s[k] # 0 => Proper(Del(s, s[k]))
<1>. DEFINE t == Del(s, s[k])
            old(i) == IF i < k THEN i ELSE i + 1
<1>1. /\ t \in Seq(Buffers) /\ Len(t) = n - 1
      /\ \A i \in 1 .. n - 1 : t[i] = IF i < k THEN s[i] ELSE s[i + 1]
  BY DelFacts
<1>. HIDE DEF t
<1>2. ASSUME NEW i \in 1 .. n - 1  PROVE old(i) \in 1 .. n /\ old(i) # k /\ t[i] = s[old(i)]
  BY <1>1
<1>3. ASSUME NEW i \in 1 .. n - 1, NEW j \in 1 .. n - 1, old(i) = old(j)  PROVE i = j
  BY <1>3
<1>4. ASSUME NEW m \in 1 .. n, m # k  PROVE \E i \in 1 .. n - 1 : old(i) = m
  <2>. DEFINE i == IF m < k THEN m ELSE m - 1
  <2>1. i \in 1 .. n - 1 /\ old(i) = m
    BY <1>4
  <2>. QED  BY <2>1
<1>. HIDE DEF old
<1>5. \A i \in 1 .. n - 1 : \E m \in 1 .. n : m # k /\ t[i] = s[m]
  BY <1>2
<1>6. \A m \in 1 .. n : m # k => \E i \in 1 .. n - 1 : t[i] = s[m]
  BY <1>2, <1>4
<1>7. ASSUME s[k] # 0  PROVE Proper(t)
  <2>1. /\ \A i, j \in 1 .. n : s[i] = s[j] => i = j
        /\ \E m \in 1 .. n : s[m] = 0
    BY DEF Proper
  <2>2. ASSUME NEW i \in 1 .. n - 1, NEW j \in 1 .. n - 1, t[i] = t[j]  PROVE i = j
    <3>1. /\ old(i) \in 1 .. n /\ t[i] = s[old(i)]
          /\ old(j) \in 1 .. n /\ t[j] = s[old(j)]
      BY <1>2
    <3>2. old(i) = old(j)
      BY <2>1, <2>2, <3>1
    <3>. QED  BY <1>3, <3>2
  <2>3. \E i \in 1 .. n - 1 : t[i] = 0
    BY <1>6, <1>7, <2>1
  <2>. QED  BY <1>1, <2>2, <2>3 DEF Proper
<1>. QED  BY <1>5, <1>6, <1>7 DEF t

\* Moving to the end leaves all of them, each once.
LEMMA MoveElements ==
  ASSUME NEW s, Proper(s), NEW n \in Nat, n = Len(s), NEW k \in 1 .. n
  PROVE  /\ \A i \in 1 .. n : \E m \in 1 .. n : MoveTail(s, s[k])[i] = s[m]
         /\ \A m \in 1 .. n : \E i \in 1 .. n : MoveTail(s, s[k])[i] = s[m]
         /\ Proper(MoveTail(s, s[k]))
<1>. DEFINE t == MoveTail(s, s[k])
            old(i) == IF i < k THEN i ELSE IF i < n THEN i + 1 ELSE k
<1>1. /\ t \in Seq(Buffers) /\ Len(t) = n
      /\ \A i \in 1 .. n :
           t[i] = IF i < k THEN s[i] ELSE IF i < n THEN s[i + 1] ELSE s[k]
  BY MoveTailFacts
<1>. HIDE DEF t
<1>2. ASSUME NEW i \in 1 .. n  PROVE old(i) \in 1 .. n /\ t[i] = s[old(i)]
  BY <1>1
<1>3. ASSUME NEW i \in 1 .. n, NEW j \in 1 .. n, old(i) = old(j)  PROVE i = j
  BY <1>3
<1>4. ASSUME NEW m \in 1 .. n  PROVE \E i \in 1 .. n : old(i) = m
  <2>. DEFINE i == IF m < k THEN m ELSE IF m = k THEN n ELSE m - 1
  <2>1. i \in 1 .. n /\ old(i) = m
    OBVIOUS
  <2>. QED  BY <2>1
<1>. HIDE DEF old
<1>5. \A i \in 1 .. n : \E m \in 1 .. n : t[i] = s[m]
  BY <1>2
<1>6. \A m \in 1 .. n : \E i \in 1 .. n : t[i] = s[m]
  BY <1>2, <1>4
<1>7. Proper(t)
  <2>1. /\ \A i, j \in 1 .. n : s[i] = s[j] => i = j
        /\ \E m \in 1 .. n : s[m] = 0
    BY DEF Proper
  <2>2. ASSUME NEW i \in 1 .. n, NEW j \in 1 .. n, t[i] = t[j]  PROVE i = j
    <3>1. /\ old(i) \in 1 .. n /\ t[i] = s[old(i)]
          /\ old(j) \in 1 .. n /\ t[j] = s[old(j)]
      BY <1>2
    <3>2. old(i) = old(j)
      BY <2>1, <2>2, <3>1
    <3>. QED  BY <1>3, <3>2
  <2>3. \E i \in 1 .. n : t[i] = 0
    BY <1>6, <2>1
  <2>. QED  BY <1>1, <2>2, <2>3 DEF Proper
<1>. QED  BY <1>5, <1>6, <1>7 DEF t

\* A list of the buffers 0 .. n - 1, each once, has n elements.
LEMMA ExactLength ==
  ASSUME NEW s, Proper(s), NEW n \in Nat, Within(s, n), Holds(s, n)
  PROVE  Len(s) = n
<1>. DEFINE l == Len(s)
            f == [i \in 1 .. l |-> s[i]]
<1>1. /\ l \in Nat
      /\ \A i \in 1 .. l : s[i] \in Buffers
      /\ \A i, j \in 1 .. l : s[i] = s[j] => i = j
  BY LenProperties, ElementOfSeq DEF Proper
<1>2. \A i \in 1 .. l : s[i] \in 0 .. n - 1
  BY <1>1 DEF Within, Buffers
<1>3. \A b \in 0 .. n - 1 : \E i \in 1 .. l : s[i] = b
  BY DEF Holds
<1>. HIDE DEF l
<1>4. IsFiniteSet(0 .. n - 1) /\ Cardinality(0 .. n - 1) = n
  <2>1. 0 \in Int /\ n - 1 \in Int
    OBVIOUS
  <2>2. /\ IsFiniteSet(0 .. n - 1)
        /\ Cardinality(0 .. n - 1) = IF 0 > n - 1 THEN 0 ELSE n - 1 - 0 + 1
    BY <2>1, FS_Interval
  <2>. QED  BY <2>1, <2>2
<1>5. Cardinality(1 .. l) = l
  <2>1. 1 \in Int /\ l \in Int
    BY <1>1
  <2>2. Cardinality(1 .. l) = IF 1 > l THEN 0 ELSE l - 1 + 1
    BY <2>1, FS_Interval
  <2>. QED  BY <1>1, <2>2
<1>6. f \in Injection(1 .. l, 0 .. n - 1)
  <2>1. f \in [1 .. l -> 0 .. n - 1]
    BY <1>2
  <2>. QED  BY <1>1, <2>1, Fun_IsInj
<1>7. f \in Surjection(1 .. l, 0 .. n - 1)
  <2>1. f \in [1 .. l -> 0 .. n - 1]
    BY <1>2
  <2>2. \A b \in 0 .. n - 1 : \E i \in 1 .. l : f[i] = b
    BY <1>3
  <2>. QED  BY <2>1, <2>2, Fun_IsSurj
<1>. HIDE DEF f
<1>8. Cardinality(1 .. l) = Cardinality(0 .. n - 1)
  BY <1>4, <1>6, <1>7, FS_Injection
<1>. QED  BY <1>4, <1>5, <1>8 DEF l

-----------------------------------------------------------------------------
(* Types, whatever overlaps.                                               *)

\* The invariant as the proofs use it.
LEMMA Basics ==
  ASSUME TypeInv
  PROVE  /\ TypeOK /\ MAX_BUFFERS \in Nat \ {0} /\ Buffers = 0 .. MAX_BUFFERS - 1
         /\ used_buffers \in 1 .. MAX_BUFFERS /\ used_buffers \in Nat \ {0}
         /\ used_buffers <= MAX_BUFFERS
         /\ Listed \in Nat \ {0} /\ write_position \in Nat
         /\ \A i \in 1 .. Listed : outbufs_list[i] \in Buffers
         /\ DOMAIN outbufs_list = 1 .. Listed
         /\ Head(outbufs_list) = outbufs_list[1]
         /\ 0 \in Buffers /\ \A b \in Buffers : b \in Nat
<1>1. TypeOK /\ MAX_BUFFERS \in Nat \ {0} /\ Buffers = 0 .. MAX_BUFFERS - 1
        /\ outbufs_list \in Seq(Buffers)
  BY BuffersAssumption DEF TypeInv, Buffers, TypeOK
<1>2. used_buffers \in 1 .. MAX_BUFFERS /\ write_position \in Nat
  BY <1>1 DEF TypeOK
<1>3. Listed \in Nat \ {0}
  <2>1. Listed \in Nat
    BY <1>1, LenProperties DEF Listed
  <2>2. \E i \in 1 .. Listed : outbufs_list[i] = 0
    BY DEF TypeInv, Proper, Listed
  <2>. QED  BY <2>1, <2>2
<1>4. /\ \A i \in 1 .. Listed : outbufs_list[i] \in Buffers
      /\ DOMAIN outbufs_list = 1 .. Listed
  BY <1>1, LenProperties, ElementOfSeq DEF Listed
<1>5. Head(outbufs_list) = outbufs_list[1]
  <2>1. outbufs_list # <<>>
    BY <1>1, <1>3, EmptySeq DEF Listed
  <2>. QED  BY <1>1, <2>1, HeadTailProperties
<1>. QED  BY <1>1, <1>2, <1>3, <1>4, <1>5

\* The numbers a reader keeps.
LEMMA Numbers ==
  ASSUME TypeInv
  PROVE  /\ TypeOK
         /\ \A o \in Readers :
              /\ request[o] \in Nat /\ request[o] <= MAX_BUFFERS
              /\ buffers_number[o] \in Nat
              /\ read_position[o] \in Nat /\ opener_reread[o] \in Nat
              /\ due[o] \in Nat /\ late[o] \in Nat
              /\ at[o] \in Buffers /\ pos[o] \in Nat /\ place[o] \in Nat
              /\ pc[o] \in InSetup => request[o] >= 1
<1>1. TypeOK /\ MAX_BUFFERS \in Nat
  BY Basics
<1>2. \A i \in 0 .. MAX_BUFFERS : i \in Nat /\ i <= MAX_BUFFERS
  BY <1>1
<1>3. \A i \in Buffers : i \in Nat
  BY Basics
<1>. QED  BY <1>1, <1>2, <1>3 DEF TypeOK, TypeInv

\* A listed buffer, by where it is on the list.
LEMMA ListedFacts ==
  ASSUME TypeInv, NEW b, Contains(outbufs_list, b)
  PROVE  \E k \in 1 .. Listed :
           /\ outbufs_list[k] = b /\ b \in Buffers /\ Proper(outbufs_list)
           /\ Listed = Len(outbufs_list)
           /\ After(outbufs_list, b) =
                IF k = Listed THEN End ELSE outbufs_list[k + 1]
           /\ After(outbufs_list, b) # End =>
                /\ k + 1 \in 1 .. Listed
                /\ After(outbufs_list, b) = outbufs_list[k + 1]
                /\ After(outbufs_list, b) \in Buffers
           /\ After(outbufs_list, b) = End => k = Listed
<1>1. PICK k \in 1 .. Listed : outbufs_list[k] = b
  BY Basics DEF Contains
<1>2. Proper(outbufs_list) /\ Listed \in Nat /\ Listed = Len(outbufs_list)
  BY Basics DEF TypeInv, Listed
<1>3. After(outbufs_list, b) = IF k = Listed THEN End ELSE outbufs_list[k + 1]
  BY <1>1, <1>2, IndexFacts
<1>4. k # Listed => k + 1 \in 1 .. Listed /\ outbufs_list[k + 1] # End
                    /\ outbufs_list[k + 1] \in Buffers
  <2>. SUFFICES ASSUME k # Listed
                PROVE  k + 1 \in 1 .. Listed /\ outbufs_list[k + 1] # End
                       /\ outbufs_list[k + 1] \in Buffers
    OBVIOUS
  <2>1. k + 1 \in 1 .. Listed
    BY <1>2
  <2>2. outbufs_list[k + 1] \in Buffers
    BY <2>1, Basics
  <2>3. outbufs_list[k + 1] \in Nat
    BY <2>2, Basics
  <2>. QED  BY <2>1, <2>2, <2>3 DEF End
<1>. QED  BY <1>1, <1>2, <1>3, <1>4, Basics

\* Where readers may be.
Places == {"closed", "idle", "wait", "sleep", "pick", "picked", "copy"} \union InSetup

\* Where Goto leads.
LEMMA GotoFacts ==
  ASSUME TypeOK, NEW o \in Readers, NEW from, NEW to \in Places, Goto(o, from, to)
  PROVE  /\ pc[o] = from /\ pc'[o] = to
         /\ \A p \in Readers : p # o => pc'[p] = pc[p]
         /\ pc' \in [Readers -> Places]
<1>1. pc \in [Readers -> Places]
  BY DEF TypeOK, Places
<1>. QED  BY <1>1 DEF Goto

\* At the start all buffers are listed.
LEMMA InitType == Init => TypeInv /\ ListInv
<1>. SUFFICES ASSUME Init  PROVE TypeInv /\ ListInv
  OBVIOUS
<1>. DEFINE list == [i \in 1 .. MAX_BUFFERS |-> i - 1]
<1>1. MAX_BUFFERS \in Nat /\ MAX_BUFFERS >= 1 /\ 0 \in Buffers
  BY BuffersAssumption DEF Buffers
<1>2. list \in Seq(Buffers) /\ Len(list) = MAX_BUFFERS
  <2>1. \A i \in 1 .. MAX_BUFFERS : i - 1 \in Buffers
    BY <1>1 DEF Buffers
  <2>. QED  BY <1>1, <2>1, IsASeq
<1>3. outbufs_list = list
  BY DEF Init
<1>4. \A b \in 0 .. MAX_BUFFERS - 1 : b + 1 \in 1 .. MAX_BUFFERS /\ list[b + 1] = b
  BY <1>1
<1>5. Proper(outbufs_list)
  <2>1. \A i, j \in 1 .. MAX_BUFFERS : list[i] = list[j] => i = j
    OBVIOUS
  <2>2. 1 \in 1 .. MAX_BUFFERS /\ list[1] = 0
    BY <1>1
  <2>. QED  BY <1>2, <1>3, <2>1, <2>2 DEF Proper
<1>6. TypeOK
  <2>1. /\ how \in Producers /\ write_position \in Nat
        /\ used_buffers \in 1 .. MAX_BUFFERS /\ mapped \subseteq Buffers
        /\ armed \subseteq Timers /\ reread_count \in Nat
        /\ timeout_happened \in {0, 1} /\ mark \in Nat /\ ticks \in Nat
        /\ wpc \in {"idle", "fill", "failed", "wake"} /\ write_index \in Buffers
        /\ imaged \subseteq Buffers
    BY <1>1 DEF Init
  <2>2. /\ outbufs_list \in Seq(Buffers)
        /\ bufpos2index \in [Buffers -> Buffers]
        /\ frame \in [Buffers -> Nat]
    BY <1>1, <1>2, <1>3 DEF Init, Unwhole
  <2>3. /\ buffers_number \in [Readers -> 0 .. MAX_BUFFERS]
        /\ request \in [Readers -> 0 .. MAX_BUFFERS]
        /\ pos \in [Readers -> Buffers] /\ at \in [Readers -> Buffers]
    <3>1. 0 \in 0 .. MAX_BUFFERS
      BY <1>1
    <3>. QED  BY <1>1, <3>1 DEF Init
  <2>4. /\ pc \in [Readers -> Places]
        /\ call \in [Readers -> {"none", "read", "poll", "frame", "timeout"}]
        /\ own \in [Readers -> BOOLEAN]
    BY DEF Init, Places
  <2>5. /\ read_position \in [Readers -> Nat] /\ opener_reread \in [Readers -> Nat]
        /\ timeout \in [Readers -> {0, 1}] /\ place \in [Readers -> Nat]
        /\ due \in [Readers -> Nat] /\ late \in [Readers -> Nat]
    BY DEF Init
  <2>. QED  BY <2>1, <2>2, <2>3, <2>4, <2>5 DEF TypeOK, Places
<1>7. /\ \A o \in Readers : pc[o] = "closed" /\ pc[o] \notin InSetup
      /\ used_buffers = MAX_BUFFERS /\ wpc = "idle"
      /\ \A p \in Buffers : bufpos2index[p] = 0
      /\ mark = 0 /\ write_position = 0
  BY DEF Init, InSetup
<1>8. TypeInv
  BY <1>5, <1>6, <1>7 DEF TypeInv
<1>9. Full
  <2>1. Within(outbufs_list, used_buffers)
    BY <1>1, <1>2, <1>3, <1>7 DEF Within
  <2>2. Holds(outbufs_list, used_buffers)
    BY <1>2, <1>3, <1>4, <1>7 DEF Holds
  <2>. QED  BY <2>1, <2>2 DEF Full
<1>10. \A p \in 0 .. used_buffers - 1 : bufpos2index[p] < used_buffers
  BY <1>1, <1>7 DEF Buffers
<1>11. \A o \in Readers : Stage(o)
  BY <1>7 DEF Stage
<1>. QED  BY <1>7, <1>8, <1>9, <1>10, <1>11 DEF ListInv

\* Steps that leave the list and the requests alone.
LEMMA TypeFrame ==
  ASSUME TypeInv, TypeOK', UNCHANGED <<outbufs_list, request>>,
         \A o \in Readers : pc'[o] \in InSetup => pc[o] \in InSetup
  PROVE  TypeInv'
<1>1. Proper(outbufs_list)'
  BY DEF TypeInv, Proper
<1>. QED  BY <1>1 DEF TypeInv

\* Begin of a REQBUFS.
LEMMA BeginType ==
  ASSUME TypeInv, NEW o \in Readers, NEW count \in 0 .. MAX_BUFFERS,
         ReqbufsBegin(o, count)
  PROVE  TypeInv'
<1>1. TypeOK /\ Head(outbufs_list) \in Buffers /\ 0 \in Buffers
  <2>1. 1 \in 1 .. Listed
    BY Basics
  <2>. QED  BY <2>1, Basics
<1>2. /\ pc' \in [Readers -> Places] /\ request' \in [Readers -> 0 .. MAX_BUFFERS]
      /\ at' \in [Readers -> Buffers] /\ own' \in [Readers -> BOOLEAN]
  BY <1>1 DEF ReqbufsBegin, TypeOK, Places, InSetup
<1>3. TypeOK'
  BY <1>1, <1>2 DEF ReqbufsBegin, TypeOK, Places, device, counters, contents, producer
<1>4. Proper(outbufs_list)'
  BY DEF ReqbufsBegin, device, TypeInv, Proper
<1>5. ASSUME NEW p \in Readers, pc'[p] \in InSetup  PROVE request'[p] >= 1
  <2>1. CASE p = o
    <3>1. request'[p] = count /\ count # 0
      BY <1>1, <1>5, <2>1 DEF ReqbufsBegin, TypeOK, InSetup
    <3>. QED  BY <3>1
  <2>2. CASE p # o
    <3>1. request'[p] = request[p] /\ pc'[p] = pc[p]
      BY <1>1, <2>2 DEF ReqbufsBegin, TypeOK
    <3>. QED  BY <1>5, <3>1, Numbers
  <2>. QED  BY <2>1, <2>2
<1>. QED  BY <1>3, <1>4, <1>5 DEF TypeInv

\* Buffer 0 is never out of range, so that something is left on the list.
LEMMA ShrinkType ==
  ASSUME TypeInv, NEW o \in Readers, ReqbufsShrink(o)
  PROVE  TypeInv'
<1>. DEFINE next == After(outbufs_list, at[o])
            t == outbufs_list'
            to == IF next # End THEN "shrink" ELSE "remap"
<1>1. pc[o] = "shrink" /\ Contains(outbufs_list, at[o])
        /\ t = IF at[o] >= request[o] THEN Del(outbufs_list, at[o]) ELSE outbufs_list
  BY DEF ReqbufsShrink
<1>2. TypeOK /\ request[o] \in Nat /\ request[o] >= 1 /\ at[o] \in Nat
        /\ write_position \in Nat
  <2>1. at[o] \in Buffers
    BY Numbers
  <2>. QED  BY <1>1, <2>1, Numbers, Basics DEF InSetup
<1>3. PICK k \in 1 .. Listed :
        /\ outbufs_list[k] = at[o] /\ Proper(outbufs_list)
        /\ Listed = Len(outbufs_list)
        /\ next # End => next \in Buffers
  BY <1>1, ListedFacts
<1>. HIDE DEF t
<1>4. Proper(t)
  <2>1. CASE at[o] >= request[o]
    <3>1. outbufs_list[k] # 0
      BY <1>2, <1>3, <2>1
    <3>2. Listed \in Nat
      BY Basics
    <3>3. Proper(Del(outbufs_list, outbufs_list[k]))
      BY <1>3, <3>1, <3>2, DelElements
    <3>4. t = Del(outbufs_list, outbufs_list[k])
      BY <1>1, <1>3, <2>1
    <3>. QED  BY <3>3, <3>4, Zenon
  <2>2. CASE ~(at[o] >= request[o])
    BY <1>1, <1>3, <2>2
  <2>. QED  BY <2>1, <2>2
<1>5. Head(t) \in Buffers /\ t \in Seq(Buffers)
  <2>1. t \in Seq(Buffers) /\ \E i \in 1 .. Len(t) : t[i] = 0
    BY <1>4 DEF Proper
  <2>2. t # <<>>
    BY <2>1, EmptySeq
  <2>. QED  BY <2>1, <2>2, HeadTailProperties
<1>. HIDE DEF next
<1>6. /\ at' \in [Readers -> Buffers] /\ place' \in [Readers -> Nat] /\ mark' \in Nat
  <2>1. /\ at' = [at EXCEPT ![o] = IF next # End THEN next ELSE Head(t)]
        /\ place' = [place EXCEPT ![o] = IF next # End THEN 0 ELSE write_position]
        /\ mark' = IF next # End THEN mark ELSE write_position
    BY DEF ReqbufsShrink, next, t
  <2>2. (IF next # End THEN next ELSE Head(t)) \in Buffers
    BY <1>3, <1>5
  <2>. QED  BY <1>2, <2>1, <2>2 DEF TypeOK
<1>7. /\ pc' \in [Readers -> Places]
      /\ \A p \in Readers : pc'[p] \in InSetup => pc[p] \in InSetup
  <2>1. pc' = [pc EXCEPT ![o] = to] /\ to \in {"shrink", "remap"}
    BY DEF ReqbufsShrink, next
  <2>. HIDE DEF to
  <2>. QED  BY <1>1, <1>2, <2>1 DEF TypeOK, Places, InSetup
<1>8. UNCHANGED <<write_position, used_buffers, bufpos2index, mapped, counters,
                  contents, producer, call, read_position, opener_reread,
                  buffers_number, pos, timeout, request, due, late, own, ticks>>
  BY DEF ReqbufsShrink
<1>9. TypeOK'
  BY <1>2, <1>5, <1>6, <1>7, <1>8 DEF TypeOK, Places, counters, contents, producer, t
<1>10. Proper(outbufs_list')
  BY <1>4 DEF t
<1>11. Proper(outbufs_list)'
  <2>. DEFINE u == outbufs_list'
  <2>1. Proper(u)
    BY <1>10
  <2>. QED  BY <2>1 DEF Proper
<1>12. \A p \in Readers : pc'[p] \in InSetup => request'[p] >= 1
  BY <1>7, <1>8, Numbers
<1>. QED  BY <1>9, <1>11, <1>12 DEF TypeInv

\* Positions map to buffers.
LEMMA RemapType ==
  ASSUME TypeInv, NEW o \in Readers, ReqbufsRemap(o)
  PROVE  TypeInv'
<1>. DEFINE next == After(outbufs_list, at[o])
            to == IF next # End THEN "remap" ELSE "test"
<1>1. pc[o] = "remap" /\ Contains(outbufs_list, at[o]) /\ TypeOK
  BY Basics DEF ReqbufsRemap
<1>2. next # End => next \in Buffers
  BY <1>1, ListedFacts
<1>. HIDE DEF next
<1>3. /\ bufpos2index' \in [Buffers -> Buffers]
      /\ at' \in [Readers -> Buffers] /\ place' \in [Readers -> Nat]
  <2>1. /\ bufpos2index' = [bufpos2index EXCEPT ![place[o] % request[o]] = at[o]]
        /\ at' = [at EXCEPT ![o] = IF next # End THEN next ELSE 0]
        /\ place' = [place EXCEPT ![o] = IF next # End THEN @ + 1 ELSE 0]
    BY DEF ReqbufsRemap, next
  <2>2. at[o] \in Buffers /\ 0 \in Buffers
    BY Numbers, Basics
  <2>3. bufpos2index' \in [Buffers -> Buffers]
    <3>. DEFINE x == place[o] % request[o]
    <3>1. bufpos2index' = [bufpos2index EXCEPT ![x] = at[o]]
      BY <2>1
    <3>. HIDE DEF x
    <3>. QED  BY <1>1, <2>2, <3>1 DEF TypeOK
  <2>. QED  BY <1>1, <1>2, <2>1, <2>2, <2>3 DEF TypeOK
<1>4. /\ pc' \in [Readers -> Places]
      /\ \A p \in Readers : pc'[p] \in InSetup => pc[p] \in InSetup
  <2>1. pc' = [pc EXCEPT ![o] = to] /\ to \in {"remap", "test"}
    BY DEF ReqbufsRemap, next
  <2>. HIDE DEF to
  <2>. QED  BY <1>1, <2>1 DEF TypeOK, Places, InSetup
<1>5. UNCHANGED <<write_position, used_buffers, outbufs_list, mapped, counters,
                  contents, producer, call, read_position, opener_reread,
                  buffers_number, pos, timeout, request, history>>
  BY DEF ReqbufsRemap
<1>6. TypeOK'
  BY <1>1, <1>3, <1>4, <1>5 DEF TypeOK, Places, counters, contents, producer, history
<1>. QED  BY <1>4, <1>5, <1>6, TypeFrame

\* used_buffers is tested and stored: a request in range.
LEMMA UsedType ==
  ASSUME TypeInv, NEW o \in Readers, ReqbufsTest(o) \/ ReqbufsStore(o)
  PROVE  TypeInv'
<1>1. TypeOK /\ request[o] \in Nat /\ request[o] <= MAX_BUFFERS /\ MAX_BUFFERS \in Nat
        /\ 0 \in 0 .. MAX_BUFFERS /\ used_buffers \in Nat
  <2>1. 0 \in 0 .. MAX_BUFFERS
    BY Basics
  <2>. QED  BY <2>1, Numbers, Basics
<1>2. Proper(outbufs_list)'
  BY DEF ReqbufsTest, ReqbufsStore, device, TypeInv, Proper
<1>3. CASE ReqbufsTest(o)
  <2>. DEFINE to == IF request[o] < used_buffers THEN "store" ELSE "idle"
  <2>1. Goto(o, "test", to) /\ to \in Places
    BY <1>3 DEF ReqbufsTest, Places, InSetup
  <2>. HIDE DEF to
  <2>2. /\ pc' \in [Readers -> Places] /\ pc[o] = "test" /\ pc'[o] = to
        /\ \A p \in Readers : p # o => pc'[p] = pc[p]
    BY <1>1, <2>1, GotoFacts
  <2>3. /\ buffers_number' \in [Readers -> 0 .. MAX_BUFFERS]
        /\ request' \in [Readers -> 0 .. MAX_BUFFERS]
        /\ \A p \in Readers : p # o => request'[p] = request[p]
        /\ pc'[o] = "store" => request'[o] = request[o]
    BY <1>1, <1>3, <2>2 DEF ReqbufsTest, TypeOK, to
  <2>4. TypeOK'
    BY <1>1, <1>3, <2>2, <2>3
    DEF ReqbufsTest, TypeOK, Places, device, counters, contents, producer, history
  <2>5. ASSUME NEW p \in Readers, pc'[p] \in InSetup  PROVE request'[p] >= 1
    <3>1. request'[p] = request[p] /\ pc[p] \in InSetup
      BY <2>2, <2>3, <2>5 DEF to, InSetup
    <3>. QED  BY <3>1, Numbers
  <2>. QED  BY <1>2, <2>4, <2>5 DEF TypeInv
<1>4. CASE ReqbufsStore(o)
  <2>1. Goto(o, "store", "idle") /\ "idle" \in Places
    BY <1>4 DEF ReqbufsStore, Places
  <2>2. /\ pc' \in [Readers -> Places] /\ pc[o] = "store" /\ pc'[o] = "idle"
        /\ \A p \in Readers : p # o => pc'[p] = pc[p]
    BY <1>1, <2>1, GotoFacts
  <2>3. /\ request' \in [Readers -> 0 .. MAX_BUFFERS]
        /\ \A p \in Readers : p # o => request'[p] = request[p]
    BY <1>1, <1>4 DEF ReqbufsStore, TypeOK
  <2>4. used_buffers' \in 1 .. MAX_BUFFERS
    <3>1. request[o] >= 1
      BY <2>2, Numbers DEF InSetup
    <3>. QED  BY <1>1, <1>4, <3>1 DEF ReqbufsStore
  <2>5. TypeOK'
    BY <1>1, <1>4, <2>2, <2>3, <2>4
    DEF ReqbufsStore, TypeOK, Places, counters, contents, producer, history
  <2>6. ASSUME NEW p \in Readers, pc'[p] \in InSetup  PROVE request'[p] >= 1
    <3>1. p # o /\ request'[p] = request[p] /\ pc[p] \in InSetup
      BY <2>2, <2>3, <2>6 DEF InSetup
    <3>. QED  BY <3>1, Numbers
  <2>. QED  BY <1>2, <2>5, <2>6 DEF TypeInv
<1>. QED  BY <1>3, <1>4

\* A frame is begun, in a buffer.
LEMMA FillType ==
  ASSUME TypeInv, NEW b \in Buffers, Fill(b)
  PROVE  /\ frame' \in [Buffers -> Nat] /\ imaged' \subseteq Buffers
         /\ wpc' = "fill" /\ write_index' \in Buffers
         /\ late' \in [Readers -> Nat]
<1>1. TypeOK
  BY Basics
<1>2. late' \in [Readers -> Nat]
  <2>1. \A o \in Readers :
          late[o] + (IF pc[o] = "picked" /\ wpc = "idle" THEN 1 ELSE 0) \in Nat
    BY Numbers
  <2>. QED  BY <2>1 DEF Fill
<1>3. frame' \in [Buffers -> Nat] /\ imaged' \subseteq Buffers
        /\ wpc' = "fill" /\ write_index' \in Buffers
  BY <1>1 DEF Fill, TypeOK, Unwhole
<1>. QED  BY <1>2, <1>3

\* The producer begins a frame, fails, puts a finished one at the end, and
\* wakes the readers.
LEMMA ProducerType ==
  ASSUME TypeInv,
         WriteBegin \/ OutputDqbuf \/ WriteFails \/ FrameWritten \/ WakeAll
  PROVE  TypeInv'
<1>1. /\ TypeOK /\ Proper(outbufs_list) /\ Listed = Len(outbufs_list) /\ Listed \in Nat
      /\ write_position \in Nat /\ 0 \in Buffers
      /\ write_position % used_buffers \in Buffers
  <2>1. write_position % used_buffers \in 0 .. used_buffers - 1
    BY Basics
  <2>2. write_position % used_buffers \in Buffers
    BY <2>1, Basics
  <2>. QED  BY <2>2, Basics DEF TypeInv, Listed
<1>2. ASSUME NEW k \in 1 .. Listed,
             outbufs_list' = MoveTail(outbufs_list, outbufs_list[k]),
             UNCHANGED <<pc, request>>,
             outbufs_list' \in Seq(Buffers) => TypeOK'
      PROVE  TypeInv'
  <2>1. Proper(MoveTail(outbufs_list, outbufs_list[k]))
    BY <1>1, MoveElements
  <2>. DEFINE t == outbufs_list'
  <2>2. Proper(t)
    BY <1>2, <2>1, Zenon
  <2>3. Proper(outbufs_list)'
    BY <2>2 DEF Proper
  <2>4. TypeOK'
    BY <1>2, <2>2 DEF Proper
  <2>. QED  BY <1>2, <2>3, <2>4 DEF TypeInv
<1>3. CASE WriteBegin
  <2>. DEFINE b == write_position % used_buffers
  <2>1. Fill(b) /\ b \in Buffers
    BY <1>1, <1>3 DEF WriteBegin
  <2>2. UNCHANGED <<how, device, mapped, counters, pc, opener, due, own, mark, ticks>>
    BY <1>3 DEF WriteBegin
  <2>. HIDE DEF b
  <2>3. /\ frame' \in [Buffers -> Nat] /\ imaged' \subseteq Buffers
        /\ wpc' = "fill" /\ write_index' \in Buffers
        /\ late' \in [Readers -> Nat]
    BY <2>1, FillType
  <2>4. TypeOK'
    BY <1>1, <2>2, <2>3 DEF TypeOK, InSetup, device, counters, opener
  <2>. QED  BY <2>2, <2>4, TypeFrame DEF device, opener
<1>4. CASE OutputDqbuf
  <2>1. 1 \in 1 .. Listed /\ Head(outbufs_list) = outbufs_list[1]
          /\ outbufs_list[1] \in Buffers
    BY Basics
  <2>2. Fill(Head(outbufs_list))
          /\ outbufs_list' = MoveTail(outbufs_list, outbufs_list[1])
    BY <1>4, <2>1 DEF OutputDqbuf
  <2>3. /\ frame' \in [Buffers -> Nat] /\ imaged' \subseteq Buffers
        /\ wpc' = "fill" /\ write_index' \in Buffers
        /\ late' \in [Readers -> Nat]
    BY <2>1, <2>2, FillType
  <2>4. UNCHANGED <<how, write_position, used_buffers, bufpos2index, mapped, counters,
                    pc, opener, due, own, mark, ticks>>
    BY <1>4 DEF OutputDqbuf
  <2>5. outbufs_list' \in Seq(Buffers) => TypeOK'
    BY <1>1, <2>3, <2>4 DEF TypeOK, InSetup, counters, opener
  <2>. QED  BY <1>2, <2>1, <2>2, <2>4, <2>5 DEF opener
<1>5. CASE WriteFails
  <2>1. TypeOK'
    BY <1>1, <1>5
    DEF WriteFails, TypeOK, InSetup, device, counters, contents, opener, history
  <2>. QED  BY <1>5, <2>1, TypeFrame DEF WriteFails, device, opener
<1>6. CASE FrameWritten
  <2>. DEFINE b == IF how = "write" THEN write_index ELSE write_index % used_buffers
  <2>1. /\ buffer_written(b) /\ frame' = [frame EXCEPT ![write_index] = write_position + 1]
        /\ wpc' = "wake" /\ write_index' = 0
        /\ UNCHANGED <<how, mapped, imaged, pc, opener, history>>
    BY <1>6 DEF FrameWritten
  <2>. HIDE DEF b
  <2>2. PICK k \in 1 .. Listed : outbufs_list[k] = b /\ b \in Buffers
    BY <2>1, ListedFacts DEF buffer_written
  <2>3. bufpos2index' \in [Buffers -> Buffers]
    <3>. DEFINE x == write_position % used_buffers
    <3>1. bufpos2index' = [bufpos2index EXCEPT ![x] = b]
      BY <2>1 DEF buffer_written
    <3>. HIDE DEF x
    <3>. QED  BY <1>1, <2>2, <3>1 DEF TypeOK
  <2>4. frame' \in [Buffers -> Nat]
    BY <1>1, <2>1 DEF TypeOK
  <2>5. write_position' \in Nat /\ reread_count' = 0 /\ armed' = Timers
          /\ UNCHANGED <<used_buffers, timeout_happened>>
          /\ outbufs_list' = MoveTail(outbufs_list, outbufs_list[k])
    BY <1>1, <2>1, <2>2 DEF buffer_written
  <2>6. outbufs_list' \in Seq(Buffers) => TypeOK'
    BY <1>1, <2>1, <2>3, <2>4, <2>5 DEF TypeOK, opener, history, InSetup
  <2>. QED  BY <1>2, <2>1, <2>5, <2>6 DEF opener
<1>7. CASE WakeAll
  <2>1. pc' = [o \in Readers |-> IF pc[o] = "sleep" THEN "wait" ELSE pc[o]]
    BY <1>7 DEF WakeAll, WakeReaders
  <2>2. pc' \in [Readers -> Places] /\ \A o \in Readers : pc'[o] \in InSetup => pc[o] \in InSetup
    BY <1>1, <2>1 DEF TypeOK, Places, InSetup
  <2>3. TypeOK'
    BY <1>1, <1>7, <2>2
    DEF WakeAll, TypeOK, Places, device, counters, contents, opener, history
  <2>. QED  BY <1>7, <2>2, <2>3, TypeFrame DEF WakeAll, device, opener
<1>. QED  BY <1>3, <1>4, <1>5, <1>6, <1>7

\* Everything else readers do leaves the list alone.
LEMMA ReaderType ==
  ASSUME TypeInv, NEW o \in Readers,
         \/ Open(o) \/ Close(o) \/ Mmap(o) \/ GetCaptureBuffer(o)
         \/ GetNonblocking(o) \/ Poll(o) \/ CanRead(o) \/ Interrupted(o)
         \/ Pick(o) \/ Deliver(o) \/ CopyTimeoutImage(o) \/ TimeoutImageCopied(o)
  PROVE  TypeInv'
<1>1. /\ TypeOK /\ used_buffers \in Nat \ {0} /\ used_buffers <= MAX_BUFFERS
      /\ MAX_BUFFERS \in Nat /\ write_position \in Nat /\ 0 \in Buffers
      /\ Buffers = 0 .. MAX_BUFFERS - 1
  BY Basics
<1>2. ASSUME NEW from, NEW to, Goto(o, from, to),
             to \in {"closed", "idle", "wait", "sleep", "pick", "picked", "copy"}
      PROVE  /\ pc' \in [Readers -> Places]
             /\ \A p \in Readers : pc'[p] \in InSetup => pc[p] \in InSetup
  <2>1. to \in Places /\ to \notin InSetup
    BY <1>2 DEF Places, InSetup
  <2>2. /\ pc'[o] = to /\ \A p \in Readers : p # o => pc'[p] = pc[p]
        /\ pc' \in [Readers -> Places]
    BY <1>1, <1>2, <2>1, GotoFacts
  <2>. QED  BY <2>1, <2>2
<1>3. CASE Open(o)
  <2>1. TypeOK'
    BY <1>1, <1>2, <1>3
    DEF Open, TypeOK, Places, device, counters, contents, producer, opener, history
  <2>. QED  BY <1>2, <1>3, <2>1, TypeFrame DEF Open, device, opener
<1>4. CASE Close(o)
  <2>1. /\ read_position' \in [Readers -> Nat] /\ opener_reread' \in [Readers -> Nat]
        /\ buffers_number' \in [Readers -> 0 .. MAX_BUFFERS]
        /\ own' \in [Readers -> BOOLEAN]
    <3>1. 0 \in 0 .. MAX_BUFFERS
      BY <1>1
    <3>. QED  BY <1>1, <1>4, <3>1 DEF Close, TypeOK
  <2>2. TypeOK'
    BY <1>1, <1>2, <1>4, <2>1
    DEF Close, TypeOK, Places, device, counters, contents, producer
  <2>. QED  BY <1>2, <1>4, <2>2, TypeFrame DEF Close, device
<1>5. CASE Mmap(o)
  <2>1. Queried(o) \subseteq Buffers
    <3>1. ASSUME NEW i \in 0 .. buffers_number[o] - 1
          PROVE  i % used_buffers \in 0 .. used_buffers - 1
      <4>1. i \in Nat
        BY Numbers
      <4>. QED  BY <1>1, <4>1
    <3>. QED  BY <1>1, <3>1 DEF Queried
  <2>2. mapped' \subseteq Buffers
    BY <1>1, <1>5, <2>1 DEF Mmap, TypeOK
  <2>3. own' \in [Readers -> BOOLEAN]
    <3>1. Quiet \in BOOLEAN
      BY DEF Quiet
    <3>. QED  BY <1>1, <1>5, <3>1 DEF Mmap, TypeOK
  <2>4. TypeOK'
    BY <1>1, <1>5, <2>2, <2>3
    DEF Mmap, TypeOK, InSetup, device, counters, contents, producer, opener
  <2>. QED  BY <1>5, <2>4, TypeFrame DEF Mmap, device, opener
<1>6. ASSUME NEW kind \in {"read", "poll", "frame", "timeout"}, Called(o, kind)
      PROVE  TypeInv'
  <2>1. call' \in [Readers -> {"none", "read", "poll", "frame", "timeout"}]
    BY <1>1, <1>6 DEF Called, TypeOK
  <2>2. TypeOK'
    BY <1>1, <1>2, <1>6, <2>1
    DEF Called, TypeOK, Places, device, counters, contents, producer, history
  <2>. QED  BY <1>2, <1>6, <2>2, TypeFrame DEF Called, device
<1>7. CASE GetCaptureBuffer(o) \/ GetNonblocking(o) \/ Poll(o)
  BY <1>6, <1>7 DEF GetCaptureBuffer, GetNonblocking, Poll
<1>8. CASE CanRead(o)
  <2>. DEFINE to == IF ~Readable(o) THEN "sleep"
                    ELSE IF call[o] = "poll" THEN "idle" ELSE "pick"
  <2>1. Goto(o, "wait", to) /\ to \in {"sleep", "idle", "pick"}
    BY <1>8 DEF CanRead, Goto
  <2>. HIDE DEF to
  <2>2. call' \in [Readers -> {"none", "read", "poll", "frame", "timeout"}]
    BY <1>1, <1>8 DEF CanRead, TypeOK
  <2>3. armed' \subseteq Timers
    BY <1>8 DEF CanRead
  <2>4. /\ pc' \in [Readers -> Places]
        /\ \A p \in Readers : pc'[p] \in InSetup => pc[p] \in InSetup
    BY <1>2, <2>1
  <2>5. TypeOK'
    BY <1>1, <1>8, <2>2, <2>3, <2>4
    DEF CanRead, TypeOK, Places, device, contents, producer, history
  <2>. QED  BY <1>8, <2>4, <2>5, TypeFrame DEF CanRead, device
<1>9. CASE Interrupted(o)
  <2>. DEFINE to == IF call[o] = "poll" THEN "idle" ELSE "pick"
  <2>1. Goto(o, "sleep", to) /\ to \in {"idle", "pick"}
    BY <1>9 DEF Interrupted
  <2>. HIDE DEF to
  <2>2. /\ call' \in [Readers -> {"none", "read", "poll", "frame", "timeout"}]
        /\ ticks' \in Nat
    BY <1>1, <1>9 DEF Interrupted, TypeOK
  <2>3. /\ pc' \in [Readers -> Places]
        /\ \A p \in Readers : pc'[p] \in InSetup => pc[p] \in InSetup
    BY <1>2, <2>1
  <2>4. TypeOK'
    BY <1>1, <1>9, <2>2, <2>3
    DEF Interrupted, TypeOK, Places, device, counters, contents, producer
  <2>. QED  BY <1>9, <2>3, <2>4, TypeFrame DEF Interrupted, device
<1>10. CASE Pick(o)
  <2>1. /\ pos' \in [Readers -> Buffers] /\ due' \in [Readers -> Nat]
        /\ read_position' \in [Readers -> Nat]
        /\ opener_reread' \in [Readers -> Nat]
    <3>0. \A i \in Int : i % used_buffers \in Buffers
      BY <1>1
    <3>1. CASE Reread(o)
      <4>1. /\ read_position[o] \in Nat /\ opener_reread[o] \in Nat
            /\ reread_count \in Nat
        BY <1>1 DEF TypeOK
      <4>. DEFINE x == (read_position[o] + used_buffers - 1) % used_buffers
                  c == opener_reread[o]
                  seen == (IF reread_count > c + 2 THEN reread_count - 1 ELSE c) + 1
      <4>2. x \in Buffers
        <5>1. used_buffers \in Nat
          BY <1>1
        <5>2. read_position[o] + used_buffers - 1 \in Int
          BY <4>1, <5>1
        <5>. QED  BY <3>0, <5>2
      <4>3. seen \in Nat
        BY <4>1
      <4>4. /\ pos' = [pos EXCEPT ![o] = x]
            /\ opener_reread' = [opener_reread EXCEPT ![o] = seen]
            /\ due' = [due EXCEPT ![o] = read_position[o]]
            /\ UNCHANGED read_position
        BY <1>1, <3>1 DEF Reread, TypeOK
      <4>. HIDE DEF x, seen
      <4>. QED  BY <1>1, <4>1, <4>2, <4>3, <4>4 DEF TypeOK
    <3>2. CASE ReadNext(o)
      <4>. DEFINE x == IF write_position > read_position[o] + 2
                         THEN write_position - 1 ELSE read_position[o]
      <4>1. x \in Nat
        BY <1>1 DEF TypeOK
      <4>2. /\ pos' = [pos EXCEPT ![o] = x % used_buffers]
            /\ read_position' = [read_position EXCEPT ![o] = x + 1]
            /\ due' = [due EXCEPT ![o] = x + 1]
            /\ opener_reread' = [opener_reread EXCEPT ![o] = 0]
        BY <3>2 DEF ReadNext
      <4>. HIDE DEF x
      <4>3. x % used_buffers \in Buffers /\ x + 1 \in Nat
        BY <3>0, <4>1
      <4>. QED  BY <1>1, <4>2, <4>3 DEF TypeOK
    <3>. QED  BY <1>10, <3>1, <3>2 DEF Pick
  <2>2. /\ timeout' \in [Readers -> {0, 1}] /\ timeout_happened' = 0
        /\ late' \in [Readers -> Nat]
    BY <1>1, <1>10 DEF Pick, TypeOK
  <2>3. TypeOK'
    BY <1>1, <1>2, <1>10, <2>1, <2>2
    DEF Pick, TypeOK, Places, device, contents, producer
  <2>. QED  BY <1>2, <1>10, <2>3, TypeFrame DEF Pick, device
<1>11. CASE Deliver(o)
  <2>1. /\ pos' \in [Readers -> Buffers]
        /\ due' \in [Readers -> Nat] /\ late' \in [Readers -> Nat]
    BY <1>1, <1>11 DEF Deliver, TypeOK
  <2>2. TypeOK'
    BY <1>1, <1>2, <1>11, <2>1
    DEF Deliver, TypeOK, Places, device, counters, contents, producer
  <2>. QED  BY <1>2, <1>11, <2>2, TypeFrame DEF Deliver, device
<1>12. CASE CopyTimeoutImage(o)
  <2>1. bufpos2index[pos[o]] \in Buffers
    BY <1>1 DEF TypeOK
  <2>2. /\ pos' \in [Readers -> Buffers] /\ frame' \in [Buffers -> Nat]
        /\ imaged' \subseteq Buffers
        /\ due' \in [Readers -> Nat] /\ late' \in [Readers -> Nat]
    <3>. DEFINE x == bufpos2index[pos[o]]
    <3>1. /\ pos' = [pos EXCEPT ![o] = x] /\ frame' = [frame EXCEPT ![x] = Unwhole]
          /\ imaged' = imaged \union {x}
          /\ due' = [due EXCEPT ![o] = 0] /\ late' = [late EXCEPT ![o] = 0]
      BY <1>12 DEF CopyTimeoutImage
    <3>2. x \in Buffers
      BY <2>1
    <3>. HIDE DEF x
    <3>. QED  BY <1>1, <3>1, <3>2 DEF TypeOK, Unwhole
  <2>3. TypeOK'
    BY <1>1, <1>2, <1>12, <2>2
    DEF CopyTimeoutImage, TypeOK, Places, device, counters, producer
  <2>. QED  BY <1>2, <1>12, <2>3, TypeFrame DEF CopyTimeoutImage, device
<1>13. CASE TimeoutImageCopied(o)
  <2>1. pos' \in [Readers -> Buffers] /\ timeout' \in [Readers -> {0, 1}]
    BY <1>1, <1>13 DEF TimeoutImageCopied, TypeOK
  <2>2. TypeOK'
    BY <1>1, <1>2, <1>13, <2>1
    DEF TimeoutImageCopied, TypeOK, Places, device, counters, contents, producer, history
  <2>. QED  BY <1>2, <1>13, <2>2, TypeFrame DEF TimeoutImageCopied, device
<1>. QED
  BY <1>3, <1>4, <1>5, <1>7, <1>8, <1>9, <1>10, <1>11, <1>12, <1>13

\* Nor do the timers and the last close.
LEMMA OtherType ==
  ASSUME TypeInv, SustainTimer \/ TimeoutTimer \/ LastClose \/ UNCHANGED vars
  PROVE  TypeInv'
<1>1. TypeOK
  BY Basics
<1>2. CASE SustainTimer \/ TimeoutTimer
  <2>1. pc' = [p \in Readers |-> IF pc[p] = "sleep" THEN "wait" ELSE pc[p]]
    BY <1>2 DEF SustainTimer, TimeoutTimer, WakeReaders
  <2>2. /\ pc' \in [Readers -> Places]
        /\ \A p \in Readers : pc'[p] \in InSetup => pc[p] \in InSetup
    BY <1>1, <2>1 DEF TypeOK, Places, InSetup
  <2>3. reread_count' \in Nat /\ timeout_happened' \in {0, 1} /\ ticks' \in Nat
    BY <1>1, <1>2 DEF SustainTimer, TimeoutTimer, TypeOK
  <2>4. TypeOK'
    BY <1>1, <1>2, <2>2, <2>3
    DEF SustainTimer, TimeoutTimer, TypeOK, Places, device, contents, producer, opener
  <2>. QED  BY <1>2, <2>2, <2>4, TypeFrame DEF SustainTimer, TimeoutTimer, device, opener
<1>3. CASE LastClose
  <2>1. TypeOK'
    BY <1>1, <1>3, Basics DEF LastClose, TypeOK, InSetup, opener, Unwhole
  <2>. QED  BY <1>3, <2>1, TypeFrame DEF LastClose, opener
<1>4. CASE UNCHANGED vars
  <2>1. TypeOK'
    BY <1>1, <1>4
    DEF vars, device, counters, contents, producer, opener, history, TypeOK, InSetup
  <2>. QED  BY <1>4, <2>1, TypeFrame DEF vars, device, opener
<1>. QED  BY <1>2, <1>3, <1>4

\* Every step keeps the types.
LEMMA TypeStep == TypeInv /\ [Next]_vars => TypeInv'
<1>. SUFFICES ASSUME TypeInv, [Next]_vars  PROVE TypeInv'
  OBVIOUS
<1>1. CASE WriteBegin \/ OutputDqbuf \/ WriteFails \/ FrameWritten \/ WakeAll
  BY <1>1, ProducerType
<1>2. ASSUME NEW o \in Readers, ReaderCall(o)  PROVE TypeInv'
  BY <1>2, BeginType, ReaderType DEF ReaderCall
<1>3. ASSUME NEW o \in Readers, ReaderStep(o)  PROVE TypeInv'
  BY <1>3, ShrinkType, RemapType, UsedType, ReaderType DEF ReaderStep
<1>4. CASE SustainTimer \/ TimeoutTimer \/ LastClose \/ UNCHANGED vars
  BY <1>4, OtherType
<1>. QED  BY <1>1, <1>2, <1>3, <1>4 DEF Next

\* The types hold always, and so does what is left of the list.
LEMMA TypeAlways == Spec => []TypeInv
<1>1. Init => TypeInv
  BY InitType
<1>. QED  BY <1>1, TypeStep, PTL DEF Spec

\* Every variable keeps to its type, however calls of REQBUFS overlap.
THEOREM TypeCorrect == Spec => []TypeOK
<1>1. TypeInv => TypeOK
  BY DEF TypeInv
<1>. QED  BY <1>1, TypeAlways, PTL

-----------------------------------------------------------------------------
(* Waiting.                                                                *)

\* What a reader's step leaves to the producer and to the other readers.
LEMMA OneReader ==
  ASSUME TypeInv, NEW o \in Readers, ReaderCall(o) \/ ReaderStep(o)
  PROVE  /\ UNCHANGED <<write_position, reread_count, how, wpc, write_index>>
         /\ timeout_happened' \in {0, timeout_happened}
         /\ used_buffers' = used_buffers \/ ReqbufsStore(o)
         /\ \A p \in Readers : p # o =>
              /\ pc'[p] = pc[p] /\ call'[p] = call[p]
              /\ read_position'[p] = read_position[p]
              /\ opener_reread'[p] = opener_reread[p]
              /\ buffers_number'[p] = buffers_number[p]
              /\ request'[p] = request[p]
              /\ pos'[p] = pos[p] /\ due'[p] = due[p] /\ late'[p] = late[p]
<1>1. TypeOK
  BY Basics
<1>3. CASE Open(o) \/ Close(o) \/ Mmap(o) \/ Interrupted(o)
  BY <1>1, <1>3
  DEF Open, Close, Mmap, Interrupted, Goto, TypeOK, device, counters, producer,
      opener, history
<1>4. CASE GetCaptureBuffer(o) \/ GetNonblocking(o) \/ Poll(o)
  <2>1. PICK kind : Called(o, kind)
    BY <1>4 DEF GetCaptureBuffer, GetNonblocking, Poll
  <2>. QED  BY <1>1, <2>1 DEF Called, Goto, TypeOK, device, counters, producer, history
<1>5. CASE \E count \in 0 .. MAX_BUFFERS : ReqbufsBegin(o, count)
  BY <1>1, <1>5 DEF ReqbufsBegin, TypeOK, device, counters, producer
<1>6. CASE ReqbufsShrink(o) \/ ReqbufsRemap(o)
  BY <1>1, <1>6
  DEF ReqbufsShrink, ReqbufsRemap, TypeOK, counters, producer, history
<1>7. CASE ReqbufsTest(o) \/ ReqbufsStore(o)
  BY <1>1, <1>7
  DEF ReqbufsTest, ReqbufsStore, Goto, TypeOK, device, counters, producer, history
<1>8. CASE CanRead(o)
  BY <1>1, <1>8 DEF CanRead, TypeOK, device, producer, history
<1>9. CASE Pick(o)
  <2>1. CASE Reread(o)
    BY <1>1, <1>9, <2>1 DEF Pick, Goto, Reread, TypeOK, device, producer
  <2>2. CASE ReadNext(o)
    BY <1>1, <1>9, <2>2 DEF Pick, Goto, ReadNext, TypeOK, device, producer
  <2>. QED  BY <1>9, <2>1, <2>2 DEF Pick
<1>10. CASE Deliver(o) \/ CopyTimeoutImage(o) \/ TimeoutImageCopied(o)
  BY <1>1, <1>10
  DEF Deliver, CopyTimeoutImage, TimeoutImageCopied, Goto, TypeOK, device,
      counters, producer, history
<1>. QED
  BY <1>3, <1>4, <1>5, <1>6, <1>7, <1>8, <1>9, <1>10 DEF ReaderCall, ReaderStep

\* The positions a reader picks, and how far it gets.
LEMMA PickFacts ==
  ASSUME TypeInv, NotAhead, NEW o \in Readers, Pick(o)
  PROVE  /\ pos'[o] = (due'[o] - 1) % used_buffers \/ due'[o] = 0
         /\ pos'[o] \in 0 .. used_buffers - 1
         /\ due'[o] = read_position'[o]
         /\ due'[o] \in Nat /\ due'[o] <= write_position
         /\ write_position <= due'[o] + 1
<1>. DEFINE w == write_position  rp == read_position[o]  n == used_buffers
<1>1. /\ w \in Nat /\ n \in Nat \ {0} /\ rp \in Nat /\ rp <= w /\ TypeOK
      /\ \A i \in Nat : i % n \in 0 .. n - 1
  <2>1. \A i \in Nat : i % n \in 0 .. n - 1
    BY Basics
  <2>. QED  BY <2>1, Basics, Numbers DEF NotAhead
<1>2. CASE Reread(o)
  <2>1. /\ rp = w /\ pos'[o] = (rp + n - 1) % n /\ due'[o] = rp
        /\ read_position'[o] = rp
    BY <1>1, <1>2 DEF Reread, TypeOK
  <2>. HIDE DEF rp, w, n
  <2>2. rp + n - 1 \in Nat
    BY <1>1
  <2>3. CASE rp = 0
    BY <1>1, <2>1, <2>2, <2>3 DEF n, w
  <2>4. CASE rp # 0
    <3>1. rp - 1 \in Nat /\ rp + n - 1 = (rp - 1) + n
      BY <1>1, <2>4
    <3>2. (rp + n - 1) % n = (rp - 1) % n
      BY <1>1, <3>1, ModShift
    <3>. QED  BY <1>1, <2>1, <2>2, <3>2 DEF n, w
  <2>. QED  BY <2>3, <2>4
<1>3. CASE ReadNext(o)
  <2>. DEFINE x == IF w > rp + 2 THEN w - 1 ELSE rp
  <2>1. /\ rp # w /\ pos'[o] = x % n /\ due'[o] = x + 1
        /\ read_position'[o] = x + 1
    BY <1>1, <1>3 DEF ReadNext, TypeOK
  <2>2. x \in Nat /\ x + 1 <= w /\ w <= x + 1 + 1
    BY <1>1, <2>1
  <2>. HIDE DEF x, n, w
  <2>3. (x + 1) - 1 = x /\ x % n \in 0 .. n - 1
    BY <1>1, <2>2
  <2>. QED  BY <2>1, <2>2, <2>3 DEF n, w
<1>. QED  BY <1>2, <1>3 DEF Pick

\* A reader never overtakes the producer.
LEMMA NotAheadStep == TypeInv /\ NotAhead /\ [Next]_vars => NotAhead'
<1>. SUFFICES ASSUME TypeInv, NotAhead, [Next]_vars  PROVE NotAhead'
  OBVIOUS
<1>1. TypeOK /\ write_position \in Nat /\ \A p \in Readers : read_position[p] \in Nat
  BY Basics DEF TypeOK
<1>2. ASSUME NEW o \in Readers, ReaderCall(o) \/ ReaderStep(o)
      PROVE  NotAhead'
  <2>1. /\ write_position' = write_position
        /\ \A p \in Readers : p # o =>
             read_position'[p] = read_position[p] /\ pc'[p] = pc[p]
    BY <1>2, OneReader
  <2>2. CASE Close(o)
    <3>1. pc'[o] = "closed" /\ read_position'[o] = 0
      BY <1>1, <2>2 DEF Close, Goto, TypeOK
    <3>. QED  BY <1>1, <2>1, <3>1 DEF NotAhead
  <2>3. CASE Pick(o)
    <3>1. pc'[o] = "picked"
      BY <1>1, <2>3 DEF Pick, Goto, TypeOK
    <3>2. read_position'[o] <= write_position
      BY <2>3, PickFacts
    <3>. QED  BY <1>1, <2>1, <3>1, <3>2 DEF NotAhead
  <2>4. CASE ~Close(o) /\ ~Pick(o)
    <3>1. read_position' = read_position
      BY <1>2, <2>4
      DEF ReaderCall, ReaderStep, Open, Mmap, Interrupted, GetCaptureBuffer,
          GetNonblocking, Poll, Called, ReqbufsBegin, ReqbufsShrink, ReqbufsRemap,
          ReqbufsTest, ReqbufsStore, CanRead, Deliver, CopyTimeoutImage,
          TimeoutImageCopied, opener
    <3>2. pc'[o] = "closed" => pc[o] = "closed"
      <4>1. CASE Mmap(o)
        BY <4>1 DEF Mmap
      <4>2. CASE ~Mmap(o)
        BY <1>1, <1>2, <2>4, <4>2
        DEF ReaderCall, ReaderStep, Open, Interrupted, GetCaptureBuffer,
            GetNonblocking, Poll, Called, ReqbufsBegin, ReqbufsShrink, ReqbufsRemap,
            ReqbufsTest, ReqbufsStore, CanRead, Deliver, CopyTimeoutImage,
            TimeoutImageCopied, Goto, TypeOK
      <4>. QED  BY <4>1, <4>2
    <3>. QED  BY <1>1, <2>1, <3>1, <3>2 DEF NotAhead
  <2>. QED  BY <2>2, <2>3, <2>4
<1>3. ASSUME UNCHANGED read_position,
             \A p \in Readers : pc'[p] = "closed" => pc[p] = "closed",
             write_position' \in {write_position, write_position + 1}
      PROVE  NotAhead'
  BY <1>1, <1>3 DEF NotAhead
<1>4. WakeReaders => \A p \in Readers : pc'[p] = "closed" => pc[p] = "closed"
  BY DEF WakeReaders
<1>5. CASE LastClose
  <2>1. UNCHANGED <<read_position, pc>> /\ write_position' = 0
          /\ \A p \in Readers : pc[p] = "closed"
    BY <1>5 DEF LastClose, opener
  <2>2. \A p \in Readers : read_position[p] = 0
    BY <2>1 DEF NotAhead
  <2>. QED  BY <2>1, <2>2 DEF NotAhead
<1>6. CASE WriteBegin \/ OutputDqbuf \/ WriteFails \/ FrameWritten \/ UNCHANGED vars
  BY <1>3, <1>6
  DEF WriteBegin, OutputDqbuf, WriteFails, FrameWritten, buffer_written, vars,
      device, opener
<1>7. CASE WakeAll \/ SustainTimer \/ TimeoutTimer
  BY <1>3, <1>4, <1>7 DEF WakeAll, SustainTimer, TimeoutTimer, device, opener
<1>. QED  BY <1>2, <1>5, <1>6, <1>7 DEF Next

\* What the test without the lock saw is still there when the wait begins.
LEMMA LetInStep ==
  TypeInv /\ NotAhead /\ LetIn /\ [Next]_vars => LetIn'
<1>. SUFFICES ASSUME TypeInv, NotAhead, LetIn, [Next]_vars  PROVE LetIn'
  OBVIOUS
<1>1. /\ TypeOK /\ write_position \in Nat /\ reread_count \in Nat
      /\ \A p \in Readers : read_position[p] \in Nat /\ opener_reread[p] \in Nat
  BY Basics DEF TypeOK
<1>2. ASSUME NEW o \in Readers, ReaderCall(o) \/ ReaderStep(o)
      PROVE  LetIn'
  <2>1. /\ UNCHANGED <<write_position, reread_count>>
        /\ \A p \in Readers : p # o =>
             /\ pc'[p] = pc[p] /\ call'[p] = call[p]
             /\ read_position'[p] = read_position[p]
             /\ opener_reread'[p] = opener_reread[p]
    BY <1>2, OneReader
  <2>2. ASSUME call'[o] = "frame"
        PROVE  /\ pc'[o] = "wait"
               /\ \/ write_position > read_position'[o]
                  \/ reread_count > opener_reread'[o]
    <3>1. CASE GetNonblocking(o)
      BY <1>1, <2>2, <3>1 DEF GetNonblocking, Called, Goto, TypeOK, Readable
    <3>2. CASE GetCaptureBuffer(o) \/ Poll(o)
      BY <1>1, <2>2, <3>2 DEF GetCaptureBuffer, Poll, Called, TypeOK
    <3>3. CASE CanRead(o)
      BY <1>1, <2>2, <3>3 DEF CanRead, LetIn, Readable, TypeOK
    <3>4. CASE Interrupted(o)
      BY <1>1, <2>2, <3>4 DEF Interrupted, TypeOK
    <3>5. CASE call'[o] = call[o] /\ pc[o] # "wait"
      BY <2>2, <3>5 DEF LetIn
    <3>. QED
      BY <1>1, <1>2, <3>1, <3>2, <3>3, <3>4, <3>5
      DEF ReaderCall, ReaderStep, Open, Close, Mmap, ReqbufsBegin, ReqbufsShrink,
          ReqbufsRemap, ReqbufsTest, ReqbufsStore, Pick, Deliver, CopyTimeoutImage,
          TimeoutImageCopied, Goto, TypeOK, opener
  <2>. QED  BY <2>1, <2>2 DEF LetIn
<1>3. ASSUME UNCHANGED <<read_position, opener_reread, call>>,
             \A p \in Readers : pc[p] = "wait" => pc'[p] = "wait",
             \/ write_position' = write_position /\ reread_count' >= reread_count
             \/ write_position' = write_position + 1
      PROVE  LetIn'
  <2>. SUFFICES ASSUME NEW p \in Readers, call[p] = "frame"
                PROVE  /\ pc'[p] = "wait"
                       /\ \/ write_position' > read_position[p]
                          \/ reread_count' > opener_reread[p]
    BY <1>3 DEF LetIn
  <2>1. pc[p] = "wait" /\ \/ write_position > read_position[p]
                          \/ reread_count > opener_reread[p]
    BY DEF LetIn
  <2>2. read_position[p] <= write_position
    BY DEF NotAhead
  <2>3. CASE write_position' = write_position + 1
    BY <1>1, <1>3, <2>1, <2>2, <2>3
  <2>4. CASE write_position' = write_position /\ reread_count' >= reread_count
    <3>1. reread_count' \in Nat
      BY TypeStep DEF TypeInv, TypeOK
    <3>. QED  BY <1>1, <1>3, <2>1, <2>4, <3>1
  <2>. QED  BY <1>3, <2>3, <2>4
<1>4. WakeReaders => \A p \in Readers : pc[p] = "wait" => pc'[p] = "wait"
  BY DEF WakeReaders
<1>5. reread_count >= reread_count /\ reread_count + 1 >= reread_count
  BY <1>1
<1>6. CASE WriteBegin \/ OutputDqbuf \/ WriteFails \/ FrameWritten \/ UNCHANGED vars
  BY <1>3, <1>5, <1>6
  DEF WriteBegin, OutputDqbuf, WriteFails, FrameWritten, buffer_written, vars,
      device, counters, opener
<1>7. CASE WakeAll \/ SustainTimer \/ TimeoutTimer
  BY <1>3, <1>4, <1>5, <1>7
  DEF WakeAll, SustainTimer, TimeoutTimer, device, counters, opener
<1>8. CASE LastClose
  <2>1. UNCHANGED call /\ \A p \in Readers : pc[p] = "closed"
    BY <1>8 DEF LastClose, opener
  <2>. QED  BY <2>1 DEF LetIn
<1>. QED  BY <1>2, <1>6, <1>7, <1>8 DEF Next

\* A frame that comes after a reader looked is followed by a wakeup.
LEMMA WakeupStep ==
  TypeInv /\ NotAhead /\ NoLostWakeup /\ [Next]_vars => NoLostWakeup'
<1>. SUFFICES ASSUME TypeInv, NotAhead, NoLostWakeup, [Next]_vars
              PROVE  NoLostWakeup'
  OBVIOUS
<1>1. TypeOK
  BY Basics
<1>2. ASSUME NEW o \in Readers, ReaderCall(o) \/ ReaderStep(o)
      PROVE  NoLostWakeup'
  <2>1. /\ UNCHANGED <<write_position, reread_count, wpc>>
        /\ timeout_happened' \in {0, timeout_happened}
        /\ \A p \in Readers : p # o =>
             /\ pc'[p] = pc[p]
             /\ read_position'[p] = read_position[p]
             /\ opener_reread'[p] = opener_reread[p]
    BY <1>2, OneReader
  <2>2. pc'[o] # "sleep" \/ CanRead(o)
    <3>1. CASE Mmap(o)
      BY <3>1 DEF Mmap
    <3>2. CASE Interrupted(o)
      BY <1>1, <3>2 DEF Interrupted, Goto, TypeOK
    <3>3. CASE ~Mmap(o) /\ ~Interrupted(o) /\ ~CanRead(o)
      BY <1>1, <1>2, <3>3
      DEF ReaderCall, ReaderStep, Open, Close, GetCaptureBuffer,
          GetNonblocking, Poll, Called, ReqbufsBegin, ReqbufsShrink, ReqbufsRemap,
          ReqbufsTest, ReqbufsStore, Pick, Deliver, CopyTimeoutImage,
          TimeoutImageCopied, Goto, TypeOK
    <3>. QED  BY <3>1, <3>2, <3>3
  <2>3. CanRead(o) /\ pc'[o] = "sleep" => ~Readable(o)'
    BY <1>1 DEF CanRead, TypeOK, Readable, device
  <2>4. \A p \in Readers : p # o /\ Readable(p)' => Readable(p)
    BY <2>1 DEF Readable
  <2>5. ASSUME NEW p \in Readers, pc'[p] = "sleep", Readable(p)'
        PROVE  wpc' = "wake"
    <3>1. p # o
      BY <2>2, <2>3, <2>5
    <3>2. pc[p] = "sleep" /\ Readable(p)
      BY <2>1, <2>4, <2>5, <3>1
    <3>. QED  BY <2>1, <3>2 DEF NoLostWakeup
  <2>. QED  BY <2>5 DEF NoLostWakeup
<1>3. WakeReaders => NoLostWakeup'
  BY <1>1 DEF WakeReaders, NoLostWakeup, TypeOK
<1>4. CASE WriteBegin \/ OutputDqbuf \/ WriteFails
  <2>1. wpc # "wake"
    BY <1>4 DEF WriteBegin, OutputDqbuf, WriteFails, Fill
  <2>2. UNCHANGED <<write_position, counters, pc, read_position, opener_reread>>
    BY <1>4 DEF WriteBegin, OutputDqbuf, WriteFails, device, opener
  <2>. QED  BY <2>1, <2>2 DEF NoLostWakeup, Readable, counters
<1>5. CASE FrameWritten
  BY <1>5 DEF FrameWritten, NoLostWakeup
<1>6. CASE UNCHANGED vars
  BY <1>6 DEF vars, device, counters, producer, opener, NoLostWakeup, Readable
<1>7. CASE LastClose
  BY <1>7 DEF LastClose, NoLostWakeup
<1>. QED
  BY <1>2, <1>3, <1>4, <1>5, <1>6, <1>7 DEF Next, WakeAll, SustainTimer, TimeoutTimer

\* The invariant of the waiting readers holds always.
LEMMA WaitAlways == Spec => []WaitInv
<1>1. Init => WaitInv
  BY DEF Init, WaitInv, NotAhead, LetIn, NoLostWakeup
<1>2. TypeInv /\ WaitInv /\ [Next]_vars => WaitInv'
  BY NotAheadStep, LetInStep, WakeupStep DEF WaitInv
<1>. QED  BY <1>1, <1>2, TypeAlways, PTL DEF Spec

\* A reader with O_NONBLOCK that was let in for a frame does not sleep, although
\* the test is made without the lock, and whatever calls of REQBUFS overlap.
THEOREM NonblockReturning == Spec => []NonblockReturns
<1>1. WaitInv => NonblockReturns
  BY DEF WaitInv, LetIn, NonblockReturns
<1>. QED  BY <1>1, WaitAlways, PTL

\* No wakeup is lost: a reader sleeps while there is something to read only
\* until the producer, which is past the lock, wakes all.
THEOREM WakeupPending == Spec => []NoLostWakeup
<1>1. WaitInv => NoLostWakeup
  BY DEF WaitInv
<1>. QED  BY <1>1, WaitAlways, PTL

-----------------------------------------------------------------------------
(* The list.  From here on REQBUFS overlaps neither a frame that is being  *)
(* written nor another REQBUFS.                                            *)

\* While nobody is shortening the list, it is as long as used_buffers says.
LEMMA CalmList ==
  ASSUME ListInv, Calm
  PROVE  /\ Within(outbufs_list, used_buffers) /\ Holds(outbufs_list, used_buffers)
         /\ Listed = used_buffers
<1>1. Full /\ Proper(outbufs_list) /\ used_buffers \in Nat
  BY Basics DEF ListInv, TypeInv
<1>. QED  BY <1>1, ExactLength DEF Full, Listed

\* If nobody is in a REQBUFS nobody is shortening the list.
LEMMA QuietCalm == Quiet => Calm
<1>. QED  BY DEF Quiet, Calm

\* Steps while nobody is in a REQBUFS.
LEMMA QuietFrame ==
  ASSUME ListInv, TypeInv', Quiet, UNCHANGED used_buffers,
         \A o \in Readers : pc'[o] \in InSetup => pc[o] \in InSetup,
         Full', \A p \in 0 .. used_buffers - 1 : bufpos2index'[p] < used_buffers,
         mark' <= write_position'
  PROVE  ListInv'
<1>1. \A o \in Readers : pc'[o] \notin InSetup
  BY DEF Quiet
<1>2. Quiet' /\ \A o \in Readers : Stage(o)'
  BY <1>1 DEF Quiet, Stage, InSetup
<1>. QED  BY <1>1, <1>2 DEF ListInv

\* Steps that leave the list, the positions and the REQBUFS alone.
LEMMA ListFrame ==
  ASSUME ListInv, TypeInv', wpc' = "fill" => wpc = "fill",
         UNCHANGED <<write_position, used_buffers, outbufs_list, bufpos2index,
                     request, at, place, mark>>,
         \A o \in Readers :
           pc[o] \in InSetup \/ pc'[o] \in InSetup => pc'[o] = pc[o]
  PROVE  ListInv'
<1>1. /\ Quiet' <=> Quiet
      /\ \A o \in Readers : Waits(o)' <=> Waits(o)
  BY DEF Quiet, Waits, InSetup
<1>2. Calm' <=> Calm
  BY <1>1 DEF Calm
<1>3. Full' <=> Full
  BY DEF Full, Within, Holds
<1>4. ASSUME NEW o \in Readers  PROVE Stage(o)'
  <2>1. Stage(o)
    BY DEF ListInv
  <2>2. (Shrinks(o)' <=> Shrinks(o)) /\ (Remaps(o)' <=> Remaps(o))
          /\ (Shrunk(o)' <=> Shrunk(o))
          /\ (Placed(o, Listed)' <=> Placed(o, Listed))
    BY DEF Shrinks, Remaps, Shrunk, Placed, Within, Holds, Listed
  <2>. QED  BY <2>1, <2>2 DEF Stage, InSetup
<1>. QED  BY <1>1, <1>2, <1>3, <1>4 DEF ListInv, InSetup

\* The only REQBUFS there is leaves the stages of others alone: they are not in
\* one.
LEMMA OnlyOne ==
  ASSUME ListInv, NEW o \in Readers, pc[o] \in InSetup,
         \A p \in Readers : p # o => pc'[p] = pc[p]
  PROVE  /\ wpc # "fill"
         /\ \A p \in Readers : p # o => pc[p] \notin InSetup /\ pc'[p] \notin InSetup
         /\ \A p \in Readers : p # o => Stage(p)'
<1>1. wpc # "fill"
  BY DEF ListInv, Quiet
<1>2. \A p \in Readers : p # o => pc[p] \notin InSetup /\ pc'[p] \notin InSetup
  BY DEF ListInv
<1>. QED  BY <1>1, <1>2 DEF Stage, InSetup

\* A buffer other than 0 that is taken off the list.
LEMMA DelListed ==
  ASSUME TypeInv, NEW k \in 1 .. Listed, outbufs_list[k] # 0
  PROVE  LET d == Del(outbufs_list, outbufs_list[k])
         IN /\ Len(d) = Listed - 1
            /\ \A i \in 1 .. Listed - 1 :
                 d[i] = IF i < k THEN outbufs_list[i] ELSE outbufs_list[i + 1]
            /\ \A i \in 1 .. Listed - 1 :
                 \E m \in 1 .. Listed : m # k /\ d[i] = outbufs_list[m]
            /\ \A m \in 1 .. Listed :
                 m # k => \E i \in 1 .. Listed - 1 : d[i] = outbufs_list[m]
            /\ Proper(d)
<1>. DEFINE s == outbufs_list  n == Listed
<1>1. Proper(s) /\ n \in Nat /\ n = Len(s) /\ k \in 1 .. n /\ s[k] # 0
  BY Basics DEF TypeInv, Listed
<1>. HIDE DEF s, n
<1>2. /\ Len(Del(s, s[k])) = n - 1
      /\ \A i \in 1 .. n - 1 : Del(s, s[k])[i] = IF i < k THEN s[i] ELSE s[i + 1]
  BY <1>1, DelFacts
<1>3. /\ \A i \in 1 .. n - 1 : \E m \in 1 .. n : m # k /\ Del(s, s[k])[i] = s[m]
      /\ \A m \in 1 .. n : m # k => \E i \in 1 .. n - 1 : Del(s, s[k])[i] = s[m]
      /\ Proper(Del(s, s[k]))
  BY <1>1, DelElements
<1>. QED  BY <1>2, <1>3 DEF s, n

\* Begin of a REQBUFS.
LEMMA BeginList ==
  ASSUME QuietSetup = TRUE, ListInv, NEW o \in Readers, NEW count \in 0 .. MAX_BUFFERS,
         ReqbufsBegin(o, count)
  PROVE  ListInv'
<1>1. TypeInv /\ TypeInv' /\ TypeOK /\ used_buffers \in Nat /\ count \in Nat
        /\ MAX_BUFFERS \in Nat
  BY BeginType, Basics DEF ListInv
<1>2. /\ Quiet /\ wpc # "fill" /\ pc[o] = "idle"
      /\ \A p \in Readers : p # o => pc'[p] = pc[p]
      /\ pc'[o] = IF count = 0 THEN "idle"
                  ELSE IF count < used_buffers THEN "shrink" ELSE "test"
      /\ request'[o] = count
      /\ at'[o] = IF count \in 1 .. used_buffers - 1 THEN Head(outbufs_list) ELSE 0
      /\ UNCHANGED <<write_position, used_buffers, outbufs_list, bufpos2index,
                     wpc, mark>>
  BY <1>1 DEF ReqbufsBegin, TypeOK, device, producer
<1>3. /\ Full /\ Within(outbufs_list, used_buffers) /\ Holds(outbufs_list, used_buffers)
      /\ Listed = used_buffers
  BY <1>2, CalmList, QuietCalm DEF Full
<1>4. Full' /\ Listed' = Listed
  BY <1>2, <1>3 DEF Full, Within, Holds, Listed
<1>5. \A p \in Readers : p # o => pc'[p] \notin InSetup
  BY <1>2 DEF Quiet
<1>6. \A p \in Readers : p # o => Stage(p)'
  BY <1>5 DEF Stage, InSetup
<1>7. Stage(o)'
  <2>1. CASE pc'[o] = "shrink"
    <3>1. count < used_buffers /\ count >= 1 /\ at'[o] = Head(outbufs_list)
      BY <1>1, <1>2, <2>1
    <3>2. 1 \in 1 .. Listed /\ Head(outbufs_list) = outbufs_list[1]
      BY <1>1, Basics
    <3>3. Holds(outbufs_list, count)
      BY <1>1, <1>3, <3>1 DEF Holds
    <3>4. Within(outbufs_list, used_buffers)' /\ Holds(outbufs_list, request[o])'
      BY <1>2, <1>3, <3>3 DEF Within, Holds
    <3>5. \E k \in 1 .. Listed :
            /\ outbufs_list[k] = at'[o]
            /\ \A j \in 1 .. k - 1 : outbufs_list[j] < count
      BY <3>1, <3>2
    <3>6. Shrinks(o)'
      BY <1>2, <1>4, <3>1, <3>4, <3>5 DEF Shrinks
    <3>. QED  BY <2>1, <3>6 DEF Stage
  <2>2. CASE pc'[o] = "test"
    <3>1. ~(request'[o] < used_buffers)
      BY <1>2, <2>2
    <3>. QED  BY <1>2, <2>2, <3>1 DEF Stage
  <2>3. CASE pc'[o] = "idle"
    BY <2>3 DEF Stage
  <2>. QED  BY <1>2, <2>1, <2>2, <2>3
<1>. QED  BY <1>1, <1>2, <1>4, <1>5, <1>6, <1>7 DEF ListInv

\* One element of the first walk.
LEMMA ShrinkList ==
  ASSUME ListInv, NEW o \in Readers, ReqbufsShrink(o)
  PROVE  ListInv'
<1>. DEFINE s == outbufs_list  n == Listed  r == request[o]
            next == After(outbufs_list, at[o])
            t == outbufs_list'
            to == IF next # End THEN "shrink" ELSE "remap"
<1>1. TypeInv /\ TypeInv' /\ TypeOK /\ pc[o] = "shrink" /\ n \in Nat /\ r \in Nat
        /\ n = Len(s) /\ at[o] \in Nat /\ r >= 1
  <2>1. TypeInv /\ TypeInv' /\ pc[o] = "shrink"
    BY ShrinkType DEF ListInv, ReqbufsShrink
  <2>2. at[o] \in Buffers
    BY <2>1, Numbers
  <2>. QED  BY <2>1, <2>2, Numbers, Basics DEF Listed, InSetup
<1>2. /\ Contains(s, at[o])
      /\ t = IF at[o] >= r THEN Del(s, at[o]) ELSE s
      /\ at'[o] = IF next # End THEN next ELSE Head(t)
      /\ pc'[o] = to /\ \A p \in Readers : p # o => pc'[p] = pc[p]
      /\ place'[o] = IF next # End THEN 0 ELSE write_position
      /\ mark' = IF next # End THEN mark ELSE write_position
      /\ UNCHANGED <<write_position, used_buffers, bufpos2index, request, wpc>>
  BY <1>1 DEF ReqbufsShrink, TypeOK, producer
<1>3. Shrinks(o) /\ r < used_buffers
  BY <1>1 DEF ListInv, Stage, Shrinks
<1>4. PICK k \in 1 .. n :
        /\ s[k] = at[o] /\ Proper(s)
        /\ next # End => k + 1 \in 1 .. n /\ next = s[k + 1]
        /\ next = End => k = n
  BY <1>1, <1>2, ListedFacts
<1>5. \A j \in 1 .. k - 1 : s[j] < r
  <2>1. PICK m \in 1 .. n : s[m] = at[o] /\ \A j \in 1 .. m - 1 : s[j] < r
    BY <1>3 DEF Shrinks
  <2>2. m = k
    BY <1>1, <1>4, <2>1 DEF Proper
  <2>. QED  BY <2>1, <2>2
<1>6. /\ \A i \in 1 .. n : s[i] < used_buffers
      /\ \A b \in 0 .. r - 1 : \E i \in 1 .. n : s[i] = b
  BY <1>1, <1>3 DEF Shrinks, Within, Holds
\* Where the walk is afterwards, and what it has left behind.
<1>7. \E l \in 0 .. Len(t) :
        /\ Proper(t) /\ Len(t) \in Nat
        /\ \A j \in 1 .. l : t[j] < r
        /\ next # End => l + 1 \in 1 .. Len(t) /\ next = t[l + 1]
        /\ next = End => l = Len(t)
        /\ \A i \in 1 .. Len(t) : t[i] < used_buffers
        /\ \A b \in 0 .. r - 1 : \E i \in 1 .. Len(t) : t[i] = b
  <2>1. CASE ~(at[o] >= r)
    <3>1. t = s /\ s[k] < r
      BY <1>1, <1>2, <1>4, <2>1
    <3>2. \A j \in 1 .. k : s[j] < r
      <4>1. \A j \in 1 .. k : j \in 1 .. k - 1 \/ j = k
        OBVIOUS
      <4>. QED  BY <1>5, <3>1, <4>1
    <3>3. k \in 0 .. n
      BY <1>1
    <3>. HIDE DEF t, next
    <3>. QED  BY <1>1, <1>4, <1>6, <3>1, <3>2, <3>3
  <2>2. CASE at[o] >= r
    <3>1. t = Del(s, s[k])
      BY <1>2, <1>4, <2>2
    <3>2. s[k] # 0
      BY <1>1, <1>4, <2>2
    <3>. DEFINE d == Del(s, s[k])
    <3>a. /\ Len(d) = n - 1
          /\ \A i \in 1 .. n - 1 : d[i] = IF i < k THEN s[i] ELSE s[i + 1]
          /\ \A i \in 1 .. n - 1 : \E m \in 1 .. n : m # k /\ d[i] = s[m]
          /\ \A m \in 1 .. n : m # k => \E i \in 1 .. n - 1 : d[i] = s[m]
          /\ Proper(d)
      BY <1>1, <3>2, DelListed
    <3>. HIDE DEF t, next, d
    <3>c. t = d
      BY <3>1 DEF d
    <3>3. /\ Len(t) = n - 1
          /\ \A i \in 1 .. n - 1 : t[i] = IF i < k THEN s[i] ELSE s[i + 1]
      BY <3>a, <3>c
    <3>4. /\ \A i \in 1 .. n - 1 : \E m \in 1 .. n : t[i] = s[m]
          /\ \A m \in 1 .. n : m # k => \E i \in 1 .. n - 1 : t[i] = s[m]
          /\ Proper(t)
      BY <3>a, <3>c
    <3>5. \A j \in 1 .. k - 1 : t[j] < r
      <4>1. \A j \in 1 .. k - 1 : j \in 1 .. n - 1 /\ j < k
        BY <1>1
      <4>. QED  BY <1>5, <3>3, <4>1
    <3>6. \A b \in 0 .. r - 1 : \E i \in 1 .. n - 1 : t[i] = b
      <4>1. ASSUME NEW b \in 0 .. r - 1  PROVE \E i \in 1 .. n - 1 : t[i] = b
        <5>1. PICK m \in 1 .. n : s[m] = b
          BY <1>6
        <5>2. m # k
          BY <1>1, <1>4, <2>2, <5>1
        <5>. QED  BY <3>4, <5>1, <5>2
      <4>. QED  BY <4>1
    <3>7. \A i \in 1 .. n - 1 : t[i] < used_buffers
      BY <1>6, <3>4
    <3>8. next # End => (k - 1) + 1 \in 1 .. n - 1 /\ next = t[(k - 1) + 1]
      <4>. SUFFICES ASSUME next # End
                    PROVE  (k - 1) + 1 \in 1 .. n - 1 /\ next = t[(k - 1) + 1]
        OBVIOUS
      <4>1. (k - 1) + 1 = k /\ k \in 1 .. n - 1 /\ ~(k < k) /\ next = s[k + 1]
        BY <1>1, <1>4
      <4>. QED  BY <3>3, <4>1
    <3>9. k - 1 \in 0 .. n - 1 /\ (next = End => k - 1 = n - 1) /\ n - 1 \in Nat
      BY <1>1, <1>4
    <3>. DEFINE l == k - 1
    <3>10. l \in 0 .. Len(t)
      BY <3>3, <3>9
    <3>. QED  BY <3>3, <3>4, <3>5, <3>6, <3>7, <3>8, <3>9, <3>10
  <2>. QED  BY <2>1, <2>2
<1>8. PICK l \in 0 .. Len(t) :
        /\ Proper(t) /\ Len(t) \in Nat
        /\ \A j \in 1 .. l : t[j] < r
        /\ next # End => l + 1 \in 1 .. Len(t) /\ next = t[l + 1]
        /\ next = End => l = Len(t)
        /\ \A i \in 1 .. Len(t) : t[i] < used_buffers
        /\ \A b \in 0 .. r - 1 : \E i \in 1 .. Len(t) : t[i] = b
  BY <1>7
<1>9. Listed' = Len(t) /\ pc[o] \in InSetup
  BY <1>1 DEF Listed, InSetup
<1>10. /\ wpc # "fill"
       /\ \A p \in Readers : p # o => pc[p] \notin InSetup /\ pc'[p] \notin InSetup
       /\ \A p \in Readers : p # o => Stage(p)'
  BY <1>2, <1>9, OnlyOne
<1>11. Stage(o)'
  <2>1. CASE next # End
    <3>1. pc'[o] = "shrink" /\ at'[o] = next
      BY <1>2, <2>1
    <3>2. \E m \in 1 .. Len(t) : t[m] = at'[o] /\ \A j \in 1 .. m - 1 : t[j] < r
      <4>1. l + 1 \in 1 .. Len(t) /\ t[l + 1] = at'[o] /\ (l + 1) - 1 = l
        BY <1>8, <2>1, <3>1
      <4>. QED  BY <1>8, <4>1
    <3>3. Shrinks(o)'
      BY <1>2, <1>3, <1>8, <1>9, <3>2 DEF Shrinks, Within, Holds
    <3>. QED  BY <3>1, <3>3 DEF Stage
  <2>2. CASE next = End
    <3>1. pc'[o] = "remap" /\ at'[o] = Head(t) /\ place'[o] = write_position
            /\ mark' = write_position /\ l = Len(t)
      BY <1>2, <1>8, <2>2
    <3>2. 1 \in 1 .. Listed' /\ Head(t) = t[1]
      <4>1. t \in Seq(Buffers) /\ Len(t) \in Nat /\ \E i \in 1 .. Len(t) : t[i] = 0
        BY <1>8 DEF Proper
      <4>. HIDE DEF t
      <4>2. 1 \in 1 .. Len(t) /\ t # <<>>
        BY <4>1, EmptySeq
      <4>. QED  BY <1>9, <4>1, <4>2, HeadTailProperties
    <3>3. Within(outbufs_list, request[o])' /\ Holds(outbufs_list, request[o])'
      BY <1>2, <1>8, <3>1 DEF Within, Holds
    <3>4. Shrunk(o)'
      BY <1>2, <1>3, <3>1, <3>3 DEF Shrunk
    <3>5. place'[o] = write_position + 1 - 1 /\ \A j \in 1 .. 1 - 1 : FALSE
      BY <1>1, <3>1, Basics
    <3>6. Placed(o, 1 - 1)'
      BY <3>5 DEF Placed
    <3>7. Remaps(o)'
      BY <1>2, <3>1, <3>2, <3>4, <3>5, <3>6 DEF Remaps
    <3>. QED  BY <3>1, <3>7 DEF Stage
  <2>. QED  BY <2>1, <2>2
<1>12. ~Calm'
  BY <1>2, <1>1 DEF Calm, Waits, InSetup
<1>13. mark' <= write_position' /\ write_position \in Nat
  <2>1. mark <= write_position /\ write_position \in Nat
    BY <1>1, Basics DEF ListInv
  <2>. QED  BY <1>2, <2>1
<1>14. \A p \in 0 .. used_buffers - 1 : bufpos2index[p] < used_buffers
  BY DEF ListInv
<1>. QED  BY <1>1, <1>2, <1>10, <1>11, <1>12, <1>13, <1>14 DEF ListInv

\* One element of the second walk.
LEMMA RemapList ==
  ASSUME ListInv, NEW o \in Readers, ReqbufsRemap(o)
  PROVE  ListInv'
<1>. DEFINE n == Listed  r == request[o]  w == write_position
            next == After(outbufs_list, at[o])
            to == IF next # End THEN "remap" ELSE "test"
<1>1. TypeInv /\ TypeInv' /\ TypeOK /\ pc[o] = "remap" /\ n \in Nat /\ r \in Nat \ {0}
        /\ w \in Nat /\ Remaps(o) /\ used_buffers \in Nat /\ used_buffers <= MAX_BUFFERS
        /\ MAX_BUFFERS \in Nat /\ Buffers = 0 .. MAX_BUFFERS - 1
        /\ \A i \in 1 .. n : outbufs_list[i] \in Nat
  <2>1. TypeInv /\ TypeInv' /\ pc[o] = "remap"
    BY RemapType DEF ListInv, ReqbufsRemap
  <2>2. Remaps(o)
    BY <2>1 DEF ListInv, Stage
  <2>3. r >= 1 /\ r \in Nat
    BY <2>1, Numbers DEF InSetup
  <2>. QED  BY <2>1, <2>2, <2>3, Basics
<1>2. /\ Contains(outbufs_list, at[o])
      /\ bufpos2index' = [bufpos2index EXCEPT ![place[o] % r] = at[o]]
      /\ at'[o] = IF next # End THEN next ELSE 0
      /\ pc'[o] = to /\ \A p \in Readers : p # o => pc'[p] = pc[p]
      /\ place'[o] = IF next # End THEN place[o] + 1 ELSE 0
      /\ UNCHANGED <<write_position, used_buffers, outbufs_list, request, wpc, mark>>
  BY <1>1 DEF ReqbufsRemap, TypeOK, producer, history
<1>3. /\ Shrunk(o) /\ r < used_buffers
      /\ \A i \in 1 .. n : outbufs_list[i] < r
      /\ n = r
  <2>1. Shrunk(o)
    BY <1>1 DEF Remaps
  <2>2. Len(outbufs_list) = r
    BY <1>1, <2>1, ExactLength DEF Shrunk, TypeInv
  <2>. QED  BY <2>1, <2>2 DEF Shrunk, Within, Listed
<1>4. PICK k \in 1 .. n :
        /\ outbufs_list[k] = at[o] /\ place[o] = w + k - 1 /\ Placed(o, k - 1)
        /\ next # End => k + 1 \in 1 .. n /\ next = outbufs_list[k + 1]
        /\ next = End => k = n
  <2>1. PICK i \in 1 .. n :
          /\ outbufs_list[i] = at[o] /\ Proper(outbufs_list) /\ n = Len(outbufs_list)
          /\ next # End => i + 1 \in 1 .. n /\ next = outbufs_list[i + 1]
          /\ next = End => i = n
    BY <1>1, <1>2, ListedFacts
  <2>2. PICK k \in 1 .. n :
          outbufs_list[k] = at[o] /\ place[o] = w + k - 1 /\ Placed(o, k - 1)
    BY <1>1 DEF Remaps
  <2>3. i = k
    BY <2>1, <2>2 DEF Proper
  <2>. QED  BY <2>1, <2>2, <2>3
<1>. HIDE DEF next
<1>5. ASSUME NEW j \in 1 .. k
      PROVE  /\ (w + j - 1) % r \in Buffers
             /\ j # k => (w + j - 1) % r # place[o] % r
  <2>. DEFINE a == w + j - 1  b == w + k - 1
  <2>1. a \in Nat /\ b \in Nat /\ (j # k => a < b /\ b - a < r) /\ b = place[o]
    <3>1. w \in Nat /\ r \in Nat /\ n = r
      BY <1>1, <1>3
    <3>2. b = place[o]
      BY <1>4
    <3>. HIDE DEF w, r, n
    <3>3. k \in Nat /\ j \in Nat /\ j >= 1 /\ j <= k /\ k <= r
      BY <3>1
    <3>. QED  BY <3>1, <3>2, <3>3
  <2>. HIDE DEF a, b
  <2>2. a % r \in 0 .. r - 1
    BY <1>1, <2>1, DivMod
  <2>3. 0 .. r - 1 \subseteq Buffers
    BY <1>1, <1>3
  <2>4. j # k => a % r # b % r
    BY <1>1, <2>1, ModApart
  <2>. QED  BY <2>1, <2>2, <2>3, <2>4 DEF a
<1>6. \A j \in 1 .. k : bufpos2index'[(w + j - 1) % r] = outbufs_list[j]
  <2>1. ASSUME NEW j \in 1 .. k  PROVE bufpos2index'[(w + j - 1) % r] = outbufs_list[j]
    <3>. DEFINE x == (w + j - 1) % r  y == place[o] % r
    <3>1. x \in Buffers /\ (j # k => x # y)
      BY <1>5
    <3>2. bufpos2index \in [Buffers -> Buffers]
      BY <1>1 DEF TypeOK
    <3>3. CASE j = k
      <4>1. x = y
        BY <1>4, <3>3
      <4>. HIDE DEF x, y
      <4>2. bufpos2index'[x] = at[o]
        BY <1>2, <3>1, <3>2, <4>1 DEF y
      <4>. QED  BY <1>4, <3>3, <4>2 DEF x
    <3>4. CASE j # k
      <4>1. j \in 1 .. k - 1
        BY <3>4
      <4>2. bufpos2index[x] = outbufs_list[j]
        BY <1>4, <4>1 DEF Placed
      <4>. HIDE DEF x, y
      <4>3. bufpos2index'[x] = bufpos2index[x]
        BY <1>2, <3>1, <3>2, <3>4 DEF y
      <4>. QED  BY <4>2, <4>3 DEF x
    <3>. QED  BY <3>3, <3>4
  <2>. QED  BY <2>1
<1>7. \A p \in 0 .. used_buffers - 1 : bufpos2index'[p] < used_buffers
  <2>. SUFFICES ASSUME NEW p \in 0 .. used_buffers - 1
                PROVE  bufpos2index'[p] < used_buffers
    OBVIOUS
  <2>. DEFINE y == place[o] % r
  <2>0. p \in Buffers
    BY <1>1
  <2>1. bufpos2index' = [bufpos2index EXCEPT ![y] = at[o]]
          /\ bufpos2index \in [Buffers -> Buffers]
    BY <1>1, <1>2 DEF TypeOK
  <2>. HIDE DEF y
  <2>2. bufpos2index'[p] = bufpos2index[p] \/ bufpos2index'[p] = at[o]
    BY <2>0, <2>1
  <2>3. bufpos2index[p] < used_buffers
    BY DEF ListInv
  <2>4. at[o] < used_buffers
    <3>1. at[o] < r /\ at[o] \in Nat
      BY <1>1, <1>3, <1>4
    <3>. QED  BY <1>1, <1>3, <3>1
  <2>. QED  BY <2>2, <2>3, <2>4
<1>8. Listed' = n /\ pc[o] \in InSetup
  BY <1>1, <1>2 DEF Listed, InSetup
<1>9. /\ wpc # "fill"
      /\ \A p \in Readers : p # o => pc[p] \notin InSetup /\ pc'[p] \notin InSetup
      /\ \A p \in Readers : p # o => Stage(p)'
  BY <1>2, <1>8, OnlyOne
<1>10. Shrunk(o)'
  BY <1>2, <1>3 DEF Shrunk, Within, Holds
<1>11. Placed(o, k)'
  BY <1>2, <1>6 DEF Placed
<1>12. Stage(o)'
  <2>1. CASE next # End
    <3>1. pc'[o] = "remap" /\ at'[o] = next /\ place'[o] = place[o] + 1
            /\ k + 1 \in 1 .. n /\ next = outbufs_list[k + 1]
      BY <1>2, <1>4, <2>1
    <3>2. place'[o] = w + (k + 1) - 1 /\ (k + 1) - 1 = k
      BY <1>1, <1>4, <3>1
    <3>3. Placed(o, (k + 1) - 1)'
      BY <1>11, <3>2
    <3>4. outbufs_list'[k + 1] = at'[o] /\ k + 1 \in 1 .. Listed'
            /\ place'[o] = write_position' + (k + 1) - 1
      BY <1>2, <1>8, <3>1, <3>2
    <3>5. Remaps(o)'
      BY <1>10, <3>3, <3>4 DEF Remaps
    <3>. QED  BY <3>1, <3>5 DEF Stage
  <2>2. CASE next = End
    <3>1. pc'[o] = "test" /\ k = n
      BY <1>2, <1>4, <2>2
    <3>2. Placed(o, Listed)'
      BY <1>8, <1>11, <3>1 DEF Placed
    <3>. QED  BY <1>10, <3>1, <3>2 DEF Stage
  <2>. QED  BY <2>1, <2>2
<1>13. ~Calm'
  <2>1. pc'[o] \in InSetup /\ ~(request'[o] >= used_buffers')
    BY <1>1, <1>2, <1>3 DEF InSetup
  <2>. QED  BY <2>1 DEF Calm, Waits
<1>14. mark <= write_position
  BY DEF ListInv
<1>. QED  BY <1>1, <1>2, <1>7, <1>9, <1>12, <1>13, <1>14 DEF ListInv

\* used_buffers is tested: nothing changes yet.
LEMMA TestList ==
  ASSUME ListInv, NEW o \in Readers, ReqbufsTest(o)
  PROVE  ListInv'
<1>1. TypeInv /\ TypeInv' /\ TypeOK /\ request[o] \in Nat /\ used_buffers \in Nat
  BY UsedType, Basics, Numbers DEF ListInv
<1>2. /\ pc[o] = "test" /\ pc[o] \in InSetup
      /\ pc'[o] = IF request[o] < used_buffers THEN "store" ELSE "idle"
      /\ \A p \in Readers : p # o => pc'[p] = pc[p]
      /\ request[o] < used_buffers => request'[o] = request[o]
      /\ UNCHANGED <<write_position, used_buffers, outbufs_list, bufpos2index, wpc, mark>>
  BY <1>1 DEF ReqbufsTest, Goto, TypeOK, InSetup, device, producer, history
<1>3. /\ wpc # "fill"
      /\ \A p \in Readers : p # o => pc[p] \notin InSetup /\ pc'[p] \notin InSetup
      /\ \A p \in Readers : p # o => Stage(p)'
  BY <1>2, OnlyOne
<1>4. Full' <=> Full
  BY <1>2 DEF Full, Within, Holds
<1>5. CASE request[o] < used_buffers
  <2>1. Shrunk(o) /\ Placed(o, Listed)
    BY <1>2, <1>5 DEF ListInv, Stage
  <2>2. Shrunk(o)' /\ Placed(o, Listed)'
    BY <1>2, <1>5, <2>1 DEF Shrunk, Placed, Within, Holds, Listed
  <2>3. Stage(o)' /\ ~Calm'
    BY <1>2, <1>5, <2>2 DEF Stage, Calm, Waits, InSetup
  <2>. QED  BY <1>1, <1>2, <1>3, <2>3 DEF ListInv
<1>6. CASE ~(request[o] < used_buffers)
  <2>1. Waits(o)
    BY <1>1, <1>2, <1>6 DEF Waits
  <2>2. Calm
    BY <1>3, <2>1 DEF Calm
  <2>3. Full'
    BY <1>4, <2>2 DEF ListInv
  <2>4. pc'[o] \notin InSetup /\ Stage(o)'
    BY <1>2, <1>6 DEF Stage, InSetup
  <2>. QED  BY <1>1, <1>2, <1>3, <2>3, <2>4 DEF ListInv
<1>. QED  BY <1>5, <1>6

\* used_buffers follows the list.
LEMMA StoreList ==
  ASSUME ListInv, NEW o \in Readers, ReqbufsStore(o)
  PROVE  ListInv'
<1>. DEFINE r == request[o]  w == write_position
<1>1. TypeInv /\ TypeInv' /\ TypeOK /\ r \in Nat /\ w \in Nat
        /\ \A b \in Buffers : b \in Nat
  BY UsedType, Basics, Numbers DEF ListInv
<1>2. /\ pc[o] = "store" /\ pc[o] \in InSetup /\ pc'[o] = "idle"
      /\ \A p \in Readers : p # o => pc'[p] = pc[p]
      /\ used_buffers' = r
      /\ UNCHANGED <<write_position, outbufs_list, bufpos2index, wpc, mark>>
  BY <1>1 DEF ReqbufsStore, Goto, TypeOK, InSetup, producer, history
<1>3. /\ wpc # "fill"
      /\ \A p \in Readers : p # o => pc[p] \notin InSetup /\ pc'[p] \notin InSetup
      /\ \A p \in Readers : p # o => Stage(p)'
  BY <1>2, OnlyOne
<1>4. Shrunk(o) /\ Placed(o, Listed) /\ r >= 1
  BY <1>1, <1>2, Numbers DEF ListInv, Stage
<1>5. Listed = r
  BY <1>1, <1>4, ExactLength DEF Shrunk, TypeInv, Listed
<1>6. Full'
  BY <1>2, <1>4 DEF Full, Shrunk, Within, Holds
<1>7. ASSUME NEW p \in 0 .. r - 1  PROVE bufpos2index[p] < r
  <2>0. r \in Nat \ {0} /\ w \in Nat
    BY <1>1, <1>4
  <2>1. PICK i \in 1 .. r : (w + i - 1) % r = p
    BY <2>0, ModCover
  <2>2. bufpos2index[p] = outbufs_list[i]
    BY <1>4, <1>5, <2>1 DEF Placed
  <2>3. outbufs_list[i] < r
    BY <1>4, <1>5, <2>1 DEF Shrunk, Within, Listed
  <2>. QED  BY <2>2, <2>3
<1>8. Stage(o)' /\ pc'[o] \notin InSetup
  BY <1>2 DEF Stage, InSetup
<1>9. mark <= write_position
  BY DEF ListInv
<1>. QED  BY <1>1, <1>2, <1>3, <1>6, <1>7, <1>8, <1>9 DEF ListInv

\* A listed buffer that moves to the end leaves the list full.
LEMMA MoveFull ==
  ASSUME ListInv, Full, NEW k \in 1 .. Listed, UNCHANGED used_buffers,
         outbufs_list' = MoveTail(outbufs_list, outbufs_list[k])
  PROVE  Full'
<1>1. Proper(outbufs_list) /\ Listed \in Nat /\ Listed = Len(outbufs_list)
  BY Basics DEF ListInv, TypeInv, Listed
<1>. DEFINE s == outbufs_list  n == Listed  t == outbufs_list'
<1>. DEFINE u == MoveTail(s, s[k])
<1>a. /\ \A i \in 1 .. n : \E m \in 1 .. n : u[i] = s[m]
      /\ \A m \in 1 .. n : \E i \in 1 .. n : u[i] = s[m]
      /\ Len(u) = n
  BY <1>1, MoveElements, MoveTailFacts
<1>b. t = u
  OBVIOUS
<1>. HIDE DEF t, u
<1>2. /\ \A i \in 1 .. n : \E m \in 1 .. n : t[i] = s[m]
      /\ \A m \in 1 .. n : \E i \in 1 .. n : t[i] = s[m]
      /\ Len(t) = n
  BY <1>a, <1>b
<1>3. /\ \A m \in 1 .. n : s[m] < used_buffers
      /\ \A b \in 0 .. used_buffers - 1 : \E m \in 1 .. n : s[m] = b
  BY <1>1 DEF Full, Within, Holds
<1>4. ASSUME NEW i \in 1 .. n  PROVE t[i] < used_buffers
  <2>1. PICK m \in 1 .. n : t[i] = s[m]
    BY <1>2
  <2>. QED  BY <1>3, <2>1
<1>5. ASSUME NEW b \in 0 .. used_buffers - 1  PROVE \E i \in 1 .. n : t[i] = b
  <2>1. PICK m \in 1 .. n : s[m] = b
    BY <1>3
  <2>. QED  BY <1>2, <2>1
<1>. QED  BY <1>2, <1>4, <1>5 DEF Full, Within, Holds, t

\* The producer moves buffers while nobody is in a REQBUFS.
LEMMA ProducerList ==
  ASSUME QuietSetup = TRUE, ListInv,
         WriteBegin \/ OutputDqbuf \/ WriteFails \/ FrameWritten \/ WakeAll
  PROVE  ListInv'
<1>1. TypeInv /\ TypeInv' /\ TypeOK
  BY ProducerType, Basics DEF ListInv
<1>2. /\ mark \in Nat /\ mark <= write_position /\ write_position \in Nat
      /\ \A p \in 0 .. used_buffers - 1 : bufpos2index[p] < used_buffers
  BY <1>1, Basics DEF ListInv, TypeOK
<1>3. CASE WriteBegin
  <2>1. Quiet /\ UNCHANGED <<write_position, used_buffers, outbufs_list,
                             bufpos2index, pc, mark>>
    BY <1>3 DEF WriteBegin, Fill, device
  <2>2. Full /\ (Full' <=> Full)
    BY <2>1, CalmList, QuietCalm DEF Full, Within, Holds
  <2>. QED  BY <1>1, <1>2, <2>1, <2>2, QuietFrame
<1>4. CASE OutputDqbuf
  <2>1. Quiet /\ UNCHANGED <<write_position, used_buffers, bufpos2index, pc, mark>>
          /\ outbufs_list' = MoveTail(outbufs_list, Head(outbufs_list))
    BY <1>4 DEF OutputDqbuf, Fill
  <2>2. 1 \in 1 .. Listed /\ Head(outbufs_list) = outbufs_list[1]
    BY <1>1, Basics
  <2>3. Full
    BY <2>1, CalmList, QuietCalm DEF Full
  <2>4. Full'
    BY <2>1, <2>2, <2>3, MoveFull
  <2>. QED  BY <1>1, <1>2, <2>1, <2>4, QuietFrame
<1>5. CASE WriteFails
  <2>1. /\ UNCHANGED <<write_position, used_buffers, outbufs_list, bufpos2index,
                       request, at, place, mark, pc>>
        /\ wpc' = "failed"
    BY <1>5 DEF WriteFails, device, opener, history
  <2>. QED  BY <1>1, <2>1, ListFrame
<1>6. CASE FrameWritten
  <2>. DEFINE b == IF how = "write" THEN write_index ELSE write_index % used_buffers
  <2>1. /\ buffer_written(b) /\ wpc = "fill" /\ UNCHANGED <<pc, mark>>
    BY <1>6 DEF FrameWritten, history
  <2>. HIDE DEF b
  <2>2. PICK k \in 1 .. Listed : outbufs_list[k] = b /\ b \in Buffers
    BY <1>1, <2>1, ListedFacts DEF buffer_written
  <2>3. Quiet
    BY <2>1 DEF ListInv
  <2>4. Full
    BY <2>3, CalmList, QuietCalm DEF Full
  <2>5. /\ UNCHANGED used_buffers /\ write_position' = write_position + 1
        /\ outbufs_list' = MoveTail(outbufs_list, outbufs_list[k])
        /\ bufpos2index' = [bufpos2index EXCEPT ![write_position % used_buffers] = b]
    BY <2>1, <2>2 DEF buffer_written
  <2>6. Full'
    BY <2>4, <2>5, MoveFull
  <2>7. ASSUME NEW p \in 0 .. used_buffers - 1  PROVE bufpos2index'[p] < used_buffers
    <3>. DEFINE y == write_position % used_buffers
    <3>1. p \in Buffers /\ bufpos2index \in [Buffers -> Buffers]
      <4>1. p \in Buffers
        BY <1>1, Basics
      <4>. QED  BY <1>1, <4>1 DEF TypeOK
    <3>2. bufpos2index' = [bufpos2index EXCEPT ![y] = b]
      BY <2>5
    <3>. HIDE DEF y
    <3>3. bufpos2index'[p] = bufpos2index[p] \/ bufpos2index'[p] = b
      BY <3>1, <3>2
    <3>4. b < used_buffers
      BY <2>2, <2>4 DEF Full, Within, Listed
    <3>. QED  BY <1>2, <3>3, <3>4
  <2>8. mark' <= write_position'
    BY <1>2, <2>1, <2>5
  <2>. QED  BY <1>1, <2>1, <2>3, <2>5, <2>6, <2>7, <2>8, QuietFrame
<1>7. CASE WakeAll
  <2>1. /\ UNCHANGED <<write_position, used_buffers, outbufs_list, bufpos2index,
                       request, at, place, mark>>
        /\ wpc' = "idle"
        /\ pc' = [o \in Readers |-> IF pc[o] = "sleep" THEN "wait" ELSE pc[o]]
    BY <1>7 DEF WakeAll, WakeReaders, device, opener, history
  <2>2. \A o \in Readers : pc[o] \in InSetup \/ pc'[o] \in InSetup => pc'[o] = pc[o]
    BY <2>1 DEF InSetup
  <2>. QED  BY <1>1, <2>1, <2>2, ListFrame
<1>. QED  BY <1>3, <1>4, <1>5, <1>6, <1>7

\* What else a reader does.
LEMMA ReaderList ==
  ASSUME ListInv, NEW o \in Readers,
         \/ Open(o) \/ Close(o) \/ Mmap(o) \/ GetCaptureBuffer(o)
         \/ GetNonblocking(o) \/ Poll(o) \/ CanRead(o) \/ Interrupted(o)
         \/ Pick(o) \/ Deliver(o) \/ CopyTimeoutImage(o) \/ TimeoutImageCopied(o)
  PROVE  ListInv'
<1>1. TypeInv /\ TypeInv' /\ TypeOK
  BY ReaderType, Basics DEF ListInv
<1>2. /\ UNCHANGED <<write_position, wpc>>
      /\ \A p \in Readers : p # o => pc'[p] = pc[p]
  BY <1>1, OneReader DEF ReaderCall, ReaderStep
<1>3. CASE Open(o) \/ Close(o) \/ CanRead(o) \/ Interrupted(o)
  <2>1. UNCHANGED <<used_buffers, outbufs_list, bufpos2index, request, at, place, mark>>
    BY <1>3 DEF Open, Close, CanRead, Interrupted, device, opener, history
  <2>2. pc[o] \notin InSetup /\ pc'[o] \notin InSetup
    BY <1>1, <1>3 DEF Open, Close, CanRead, Interrupted, Goto, TypeOK, InSetup
  <2>. QED  BY <1>1, <1>2, <2>1, <2>2, ListFrame
<1>4. CASE GetCaptureBuffer(o) \/ GetNonblocking(o) \/ Poll(o)
  <2>1. PICK kind : Called(o, kind)
    BY <1>4 DEF GetCaptureBuffer, GetNonblocking, Poll
  <2>2. UNCHANGED <<used_buffers, outbufs_list, bufpos2index, request, at, place, mark>>
    BY <2>1 DEF Called, device, history
  <2>3. pc[o] \notin InSetup /\ pc'[o] \notin InSetup
    BY <1>1, <2>1 DEF Called, Goto, TypeOK, InSetup
  <2>. QED  BY <1>1, <1>2, <2>2, <2>3, ListFrame
<1>5. CASE Pick(o) \/ Deliver(o) \/ CopyTimeoutImage(o) \/ TimeoutImageCopied(o)
  <2>1. UNCHANGED <<used_buffers, outbufs_list, bufpos2index, request, at, place, mark>>
    BY <1>5 DEF Pick, Deliver, CopyTimeoutImage, TimeoutImageCopied, device, history
  <2>2. pc[o] \notin InSetup /\ pc'[o] \notin InSetup
    BY <1>1, <1>5
    DEF Pick, Deliver, CopyTimeoutImage, TimeoutImageCopied, Goto, TypeOK, InSetup
  <2>. QED  BY <1>1, <1>2, <2>1, <2>2, ListFrame
<1>6. CASE Mmap(o)
  <2>1. UNCHANGED <<used_buffers, outbufs_list, bufpos2index, request, at, place,
                    mark, pc>>
    BY <1>6 DEF Mmap, device, opener
  <2>. QED  BY <1>1, <1>2, <2>1, ListFrame
<1>. QED  BY <1>3, <1>4, <1>5, <1>6

\* Timers do not touch the list, and the last close keeps it.
LEMMA OtherList ==
  ASSUME ListInv, SustainTimer \/ TimeoutTimer \/ LastClose \/ UNCHANGED vars
  PROVE  ListInv'
<1>1. TypeInv /\ TypeInv'
  BY OtherType DEF ListInv
<1>2. CASE SustainTimer \/ TimeoutTimer
  <2>1. /\ UNCHANGED <<write_position, used_buffers, outbufs_list, bufpos2index,
                       request, at, place, mark, wpc>>
        /\ pc' = [p \in Readers |-> IF pc[p] = "sleep" THEN "wait" ELSE pc[p]]
    BY <1>2 DEF SustainTimer, TimeoutTimer, WakeReaders, device, producer, opener
  <2>2. \A o \in Readers : pc[o] \in InSetup \/ pc'[o] \in InSetup => pc'[o] = pc[o]
    BY <2>1 DEF InSetup
  <2>. QED  BY <1>1, <2>1, <2>2, ListFrame
<1>3. CASE LastClose
  <2>1. /\ UNCHANGED <<used_buffers, outbufs_list, bufpos2index, pc>>
        /\ write_position' = 0 /\ mark' = 0 /\ \A o \in Readers : pc[o] = "closed"
    BY <1>3 DEF LastClose
  <2>2. Quiet
    BY <2>1 DEF Quiet, InSetup
  <2>3. Full /\ (Full' <=> Full)
    BY <2>1, <2>2, CalmList, QuietCalm DEF Full, Within, Holds
  <2>4. \A p \in 0 .. used_buffers - 1 : bufpos2index'[p] < used_buffers
    BY <2>1 DEF ListInv
  <2>. QED  BY <1>1, <2>1, <2>2, <2>3, <2>4, QuietFrame
<1>4. CASE UNCHANGED vars
  <2>1. UNCHANGED <<write_position, used_buffers, outbufs_list, bufpos2index,
                    request, at, place, mark, wpc, pc>>
    BY <1>4 DEF vars, device, producer, opener, history
  <2>. QED  BY <1>1, <2>1, ListFrame
<1>. QED  BY <1>2, <1>3, <1>4

\* Every step keeps the list and the positions.
LEMMA ListStep ==
  ASSUME QuietSetup = TRUE  PROVE ListInv /\ [Next]_vars => ListInv'
<1>. SUFFICES ASSUME ListInv, [Next]_vars  PROVE ListInv'
  OBVIOUS
<1>1. CASE WriteBegin \/ OutputDqbuf \/ WriteFails \/ FrameWritten \/ WakeAll
  BY <1>1, ProducerList
<1>2. ASSUME NEW o \in Readers, ReaderCall(o)  PROVE ListInv'
  BY <1>2, BeginList, ReaderList DEF ReaderCall
<1>3. ASSUME NEW o \in Readers, ReaderStep(o)  PROVE ListInv'
  BY <1>3, ShrinkList, RemapList, TestList, StoreList, ReaderList DEF ReaderStep
<1>4. CASE SustainTimer \/ TimeoutTimer \/ LastClose \/ UNCHANGED vars
  BY <1>4, OtherList
<1>. QED  BY <1>1, <1>2, <1>3, <1>4 DEF Next

\* The invariant of list and positions holds always.
LEMMA ListAlways == ASSUME QuietSetup = TRUE  PROVE Spec => []ListInv
<1>1. Init => ListInv
  BY InitType
<1>. QED  BY <1>1, ListStep, PTL DEF Spec

\* Where no REQBUFS overlaps another, or a frame being written, the list holds
\* the buffers in use, each once, whenever none is under way, and every position
\* in use maps to one of them.
THEOREM ListIsExact == ASSUME QuietSetup = TRUE  PROVE Spec => []ListExact
<1>1. ListInv => ListExact
  <2>. SUFFICES ASSUME ListInv, Quiet
                PROVE  /\ ToSet(outbufs_list) = 0 .. used_buffers - 1
                       /\ Len(outbufs_list) = used_buffers
                       /\ \A p \in 0 .. used_buffers - 1 :
                            bufpos2index[p] < used_buffers
    BY DEF ListInv, TypeInv, ListExact
  <2>1. /\ Within(outbufs_list, used_buffers) /\ Holds(outbufs_list, used_buffers)
        /\ Listed = used_buffers
    BY CalmList, QuietCalm
  <2>2. \A p \in 0 .. used_buffers - 1 : bufpos2index[p] < used_buffers
    BY DEF ListInv
  <2>3. TypeInv
    BY DEF ListInv
  <2>4. ToSet(outbufs_list) = {outbufs_list[i] : i \in 1 .. Listed}
    BY <2>3, Basics DEF ToSet
  <2>5. {outbufs_list[i] : i \in 1 .. Listed} = 0 .. used_buffers - 1
    <3>1. \A i \in 1 .. Listed : outbufs_list[i] \in 0 .. used_buffers - 1
      <4>1. \A i \in 1 .. Listed : outbufs_list[i] \in Buffers /\ outbufs_list[i] \in Nat
        BY <2>3, Basics
      <4>2. used_buffers \in Nat
        BY <2>3, Basics
      <4>. QED  BY <2>1, <4>1, <4>2 DEF Within, Listed
    <3>2. \A b \in 0 .. used_buffers - 1 : \E i \in 1 .. Listed : outbufs_list[i] = b
      BY <2>1 DEF Holds, Listed
    <3>. HIDE DEF Listed
    <3>. QED  BY <3>1, <3>2
  <2>. QED  BY <2>1, <2>2, <2>4, <2>5 DEF Listed
<1>. QED  BY <1>1, ListAlways, PTL

\* Where no REQBUFS overlaps another, or a frame being written, the comment at
\* v4l2loopback-dc.c:1478 is right, for any number of readers: before
\* used_buffers changes, the listed buffers have the positions from
\* write_position on.
THEOREM RemapHoldsIfQuiet ==
  ASSUME QuietSetup = TRUE  PROVE Spec => []RemapHolds
<1>1. ListInv => RemapHolds
  <2>. SUFFICES ASSUME ListInv, NEW o \in Readers, pc[o] = "store",
                       request[o] < used_buffers, NEW i \in DOMAIN outbufs_list
                PROVE  bufpos2index[(write_position + i - 1) % request[o]]
                         = outbufs_list[i]
    BY DEF RemapHolds
  <2>1. Placed(o, Listed)
    BY DEF ListInv, Stage
  <2>2. i \in 1 .. Listed
    BY Basics DEF ListInv
  <2>. QED  BY <2>1, <2>2 DEF Placed
<1>. QED  BY <1>1, ListAlways, PTL

-----------------------------------------------------------------------------
(* What is mapped.                                                         *)

\* Steps that are no part of REQBUFS leave the grants alone or forget one.
LEMMA GrantedFrame ==
  ASSUME TypeInv, Granted, UNCHANGED <<used_buffers, request>>,
         \A p \in Readers : pc'[p] = pc[p] \/ "store" \notin {pc[p], pc'[p]},
         \A p \in Readers :
           \/ buffers_number'[p] = buffers_number[p]
           \/ buffers_number'[p] = 0 /\ pc'[p] # "store"
  PROVE  Granted'
<1>1. ASSUME NEW p \in Readers
      PROVE  /\ buffers_number'[p] > 0 /\ pc'[p] # "store"
                  => used_buffers <= buffers_number'[p]
             /\ pc'[p] = "store" => buffers_number'[p] = request[p]
  BY DEF Granted
<1>. QED  BY <1>1 DEF Granted

\* The number of buffers in use never exceeds what an application was granted.
LEMMA GrantedStep ==
  ASSUME QuietSetup = TRUE  PROVE ListInv /\ Granted /\ [Next]_vars => Granted'
<1>. SUFFICES ASSUME ListInv, Granted, [Next]_vars  PROVE Granted'
  OBVIOUS
<1>1. TypeInv /\ TypeOK /\ used_buffers \in Nat
  BY Basics DEF ListInv
<1>2. ASSUME NEW o \in Readers, ReaderCall(o) \/ ReaderStep(o)
      PROVE  Granted'
  <2>1. \A p \in Readers : p # o =>
          /\ buffers_number'[p] = buffers_number[p] /\ pc'[p] = pc[p]
          /\ request'[p] = request[p]
    BY <1>1, <1>2, OneReader
  <2>2. CASE \/ Open(o) \/ Close(o) \/ Mmap(o) \/ GetCaptureBuffer(o)
             \/ GetNonblocking(o) \/ Poll(o) \/ CanRead(o) \/ Interrupted(o)
             \/ Pick(o) \/ Deliver(o) \/ CopyTimeoutImage(o)
             \/ TimeoutImageCopied(o)
    <3>1. /\ UNCHANGED <<used_buffers, request>>
          /\ pc'[o] # "store" /\ pc[o] # "store"
          /\ buffers_number'[o] = buffers_number[o] \/ buffers_number'[o] = 0
      <4>1. CASE Open(o) \/ Close(o) \/ Mmap(o) \/ CanRead(o) \/ Interrupted(o)
        BY <1>1, <4>1
        DEF Open, Close, Mmap, CanRead, Interrupted, Goto, TypeOK, device, opener
      <4>2. CASE GetCaptureBuffer(o) \/ GetNonblocking(o) \/ Poll(o)
        <5>1. PICK kind : Called(o, kind)
          BY <4>2 DEF GetCaptureBuffer, GetNonblocking, Poll
        <5>. QED  BY <1>1, <5>1 DEF Called, Goto, TypeOK, device
      <4>3. CASE Pick(o) \/ Deliver(o) \/ CopyTimeoutImage(o) \/ TimeoutImageCopied(o)
        BY <1>1, <4>3
        DEF Pick, Deliver, CopyTimeoutImage, TimeoutImageCopied, Goto, TypeOK, device
      <4>. QED  BY <2>2, <4>1, <4>2, <4>3
    <3>2. /\ \A p \in Readers : pc'[p] = pc[p] \/ "store" \notin {pc[p], pc'[p]}
          /\ \A p \in Readers :
               \/ buffers_number'[p] = buffers_number[p]
               \/ buffers_number'[p] = 0 /\ pc'[p] # "store"
      BY <2>1, <3>1
    <3>. QED  BY <1>1, <3>1, <3>2, GrantedFrame
  <2>3. CASE \/ \E count \in 0 .. MAX_BUFFERS : ReqbufsBegin(o, count)
             \/ ReqbufsShrink(o) \/ ReqbufsRemap(o)
    <3>1. /\ UNCHANGED <<used_buffers, buffers_number>>
          /\ pc'[o] # "store" /\ pc[o] # "store"
      BY <1>1, <2>3 DEF ReqbufsBegin, ReqbufsShrink, ReqbufsRemap, TypeOK, device
    <3>. QED  BY <2>1, <3>1 DEF Granted
  <2>4. CASE ReqbufsTest(o)
    <3>1. /\ pc[o] = "test" /\ UNCHANGED used_buffers
          /\ pc'[o] = IF request[o] < used_buffers THEN "store" ELSE "idle"
          /\ buffers_number'[o] = request[o]
          /\ request[o] < used_buffers => request'[o] = request[o]
      BY <1>1, <2>4 DEF ReqbufsTest, Goto, TypeOK, device
    <3>2. request[o] \in Nat
      BY <1>1, Numbers
    <3>. QED  BY <1>1, <2>1, <3>1, <3>2 DEF Granted
  <2>5. CASE ReqbufsStore(o)
    <3>1. /\ pc[o] = "store" /\ pc'[o] = "idle" /\ used_buffers' = request[o]
          /\ UNCHANGED buffers_number
      BY <1>1, <2>5 DEF ReqbufsStore, Goto, TypeOK
    <3>2. /\ buffers_number[o] = request[o] /\ request[o] < used_buffers
          /\ request[o] \in Nat /\ \A p \in Readers : buffers_number[p] \in Nat
      BY <1>1, <3>1, Numbers DEF Granted, ListInv, Stage
    <3>3. \A p \in Readers : p # o => pc'[p] = pc[p] /\ pc[p] # "store"
      BY <2>1, <3>1 DEF ListInv, InSetup
    <3>4. ASSUME NEW p \in Readers, buffers_number[p] > 0
          PROVE  request[o] <= buffers_number[p]
      <4>1. CASE p = o
        BY <3>2, <4>1
      <4>2. CASE p # o
        <5>1. used_buffers <= buffers_number[p] /\ buffers_number[p] \in Nat
          BY <3>2, <3>3, <3>4, <4>2 DEF Granted
        <5>. QED  BY <1>1, <3>2, <5>1
      <4>. QED  BY <4>1, <4>2
    <3>. QED  BY <3>1, <3>3, <3>4 DEF Granted
  <2>. QED  BY <1>2, <2>2, <2>3, <2>4, <2>5 DEF ReaderCall, ReaderStep
<1>3. CASE \/ WriteBegin \/ OutputDqbuf \/ WriteFails \/ FrameWritten \/ LastClose
           \/ UNCHANGED vars
  <2>1. UNCHANGED <<used_buffers, request, buffers_number, pc>>
    BY <1>3
    DEF WriteBegin, OutputDqbuf, WriteFails, FrameWritten, buffer_written,
        LastClose, vars, device, opener
  <2>. QED  BY <1>1, <2>1, GrantedFrame
<1>4. CASE WakeAll \/ SustainTimer \/ TimeoutTimer
  <2>1. /\ UNCHANGED <<used_buffers, request, buffers_number>>
        /\ pc' = [p \in Readers |-> IF pc[p] = "sleep" THEN "wait" ELSE pc[p]]
    BY <1>4 DEF WakeAll, SustainTimer, TimeoutTimer, WakeReaders, device, opener
  <2>2. \A p \in Readers : pc'[p] = pc[p] \/ "store" \notin {pc[p], pc'[p]}
    BY <2>1
  <2>. QED  BY <1>1, <2>1, <2>2, GrantedFrame
<1>. QED  BY <1>2, <1>3, <1>4 DEF Next

\* Querying every granted buffer finds every buffer in use.
LEMMA QueriedAll ==
  ASSUME TypeInv, Granted, NEW o \in Readers, buffers_number[o] > 0, pc[o] # "store"
  PROVE  0 .. used_buffers - 1 \subseteq Queried(o)
<1>1. used_buffers \in Nat \ {0} /\ buffers_number[o] \in Nat
        /\ used_buffers <= buffers_number[o]
  BY Basics, Numbers DEF Granted
<1>2. ASSUME NEW p \in 0 .. used_buffers - 1  PROVE p \in Queried(o)
  <2>1. p \in Nat /\ p < used_buffers /\ p \in 0 .. buffers_number[o] - 1
    BY <1>1
  <2>2. p % used_buffers = p
    BY <1>1, <2>1, ModSmall
  <2>. QED  BY <2>1, <2>2 DEF Queried
<1>. QED  BY <1>2

\* Steps outside REQBUFS, mmap, close and the picking of a position.
LEMMA OwnedFrame ==
  ASSUME Owned, UNCHANGED <<used_buffers, mapped, own>>,
         \A p \in Readers : pc'[p] \in InSetup => pc[p] \in InSetup,
         \A p \in Readers : pc'[p] = "closed" => pc[p] = "closed",
         \A p \in Readers : pc'[p] = "picked" =>
           \/ pc[p] = "picked" /\ pos'[p] = pos[p]
           \/ pos'[p] < used_buffers
  PROVE  Owned'
<1>. SUFFICES ASSUME NEW p \in Readers, own[p]
              PROVE  /\ \A r \in Readers : pc'[r] \notin InSetup
                     /\ 0 .. used_buffers - 1 \subseteq mapped
                     /\ pc'[p] = "picked" => pos'[p] < used_buffers
                     /\ pc'[p] # "closed"
  BY DEF Owned, Quiet
<1>. QED  BY DEF Owned, Quiet

\* A mapping made while no REQBUFS is under way is complete until the next one.
LEMMA OwnedStep ==
  ListInv /\ Granted /\ NotAhead /\ Owned /\ [Next]_vars => Owned'
<1>. SUFFICES ASSUME ListInv, Granted, NotAhead, Owned, [Next]_vars
              PROVE  Owned'
  OBVIOUS
<1>1. TypeInv /\ TypeOK
  BY Basics DEF ListInv
<1>3. ASSUME NEW o \in Readers, ReaderCall(o) \/ ReaderStep(o)
      PROVE  Owned'
  <2>1. \A p \in Readers : p # o => pc'[p] = pc[p] /\ pos'[p] = pos[p]
    BY <1>1, <1>3, OneReader
  <2>2. ASSUME pc[o] \in InSetup, own' = own  PROVE Owned'
    <3>1. \A p \in Readers : own[p] # TRUE
      BY <2>2 DEF Owned, Quiet
    <3>. QED  BY <2>2, <3>1 DEF Owned
  <2>3. CASE \/ Open(o) \/ Interrupted(o) \/ CanRead(o) \/ Deliver(o)
             \/ CopyTimeoutImage(o) \/ TimeoutImageCopied(o)
    <3>1. UNCHANGED <<used_buffers, mapped, own>>
      BY <2>3
      DEF Open, Interrupted, CanRead, Deliver, CopyTimeoutImage,
          TimeoutImageCopied, device, history
    <3>2. pc'[o] \notin InSetup \union {"picked", "closed"}
      BY <1>1, <2>3
      DEF Open, Interrupted, CanRead, Deliver, CopyTimeoutImage,
          TimeoutImageCopied, Goto, TypeOK, InSetup
    <3>. QED  BY <2>1, <3>1, <3>2, OwnedFrame
  <2>4. CASE GetCaptureBuffer(o) \/ GetNonblocking(o) \/ Poll(o)
    <3>1. PICK kind : Called(o, kind)
      BY <2>4 DEF GetCaptureBuffer, GetNonblocking, Poll
    <3>2. UNCHANGED <<used_buffers, mapped, own>>
      BY <3>1 DEF Called, device, history
    <3>3. pc'[o] \notin InSetup \union {"picked", "closed"}
      BY <1>1, <3>1 DEF Called, Goto, TypeOK, InSetup
    <3>. QED  BY <2>1, <3>2, <3>3, OwnedFrame
  <2>5. CASE Close(o)
    <3>1. UNCHANGED <<used_buffers, mapped>> /\ own' = [own EXCEPT ![o] = FALSE]
      BY <2>5 DEF Close, device
    <3>2. pc'[o] = "closed"
      BY <1>1, <2>5 DEF Close, Goto, TypeOK
    <3>3. \A p \in Readers : own'[p] => p # o /\ own[p]
      BY <1>1, <3>1 DEF TypeOK
    <3>4. \A p \in Readers : pc[p] \notin InSetup => pc'[p] \notin InSetup
      BY <2>1, <3>2 DEF InSetup
    <3>. QED  BY <2>1, <3>1, <3>3, <3>4 DEF Owned, Quiet
  <2>6. CASE Mmap(o)
    <3>1. /\ pc[o] = "idle" /\ buffers_number[o] > 0
          /\ mapped' = mapped \union Queried(o)
          /\ own' = [own EXCEPT ![o] = Quiet]
          /\ UNCHANGED <<used_buffers, pc, pos>>
      BY <2>6 DEF Mmap, device, opener
    <3>2. 0 .. used_buffers - 1 \subseteq Queried(o)
      BY <1>1, <3>1, QueriedAll
    <3>3. ASSUME NEW p \in Readers, own'[p]
          PROVE  /\ Quiet
                 /\ 0 .. used_buffers - 1 \subseteq mapped'
                 /\ pc[p] = "picked" => pos[p] < used_buffers
                 /\ pc[p] # "closed"
      <4>1. CASE p = o
        <5>1. own'[p] = Quiet
          BY <1>1, <3>1, <4>1 DEF TypeOK
        <5>. QED  BY <3>1, <3>2, <3>3, <4>1, <5>1
      <4>2. CASE p # o
        <5>1. own[p]
          BY <1>1, <3>1, <3>3, <4>2 DEF TypeOK
        <5>. QED  BY <3>1, <5>1 DEF Owned
      <4>. QED  BY <4>1, <4>2
    <3>4. Quiet' <=> Quiet
      BY <3>1 DEF Quiet
    <3>. QED  BY <3>1, <3>3, <3>4 DEF Owned
  <2>7. CASE \E count \in 0 .. MAX_BUFFERS : ReqbufsBegin(o, count)
    BY <2>7 DEF ReqbufsBegin, Owned
  <2>8. CASE ReqbufsShrink(o) \/ ReqbufsRemap(o) \/ ReqbufsTest(o) \/ ReqbufsStore(o)
    BY <2>2, <2>8
    DEF ReqbufsShrink, ReqbufsRemap, ReqbufsTest, ReqbufsStore, Goto, InSetup, history
  <2>9. CASE Pick(o)
    <3>1. UNCHANGED <<used_buffers, mapped, own>>
      BY <2>9 DEF Pick, device
    <3>2. pc'[o] = "picked"
      BY <1>1, <2>9 DEF Pick, Goto, TypeOK
    <3>3. pos'[o] < used_buffers
      <4>1. pos'[o] \in 0 .. used_buffers - 1 /\ used_buffers \in Nat
        BY <1>1, <2>9, PickFacts, Basics
      <4>. QED  BY <4>1
    <3>4. \A p \in Readers : pc'[p] \in InSetup => pc[p] \in InSetup
      BY <2>1, <3>2 DEF InSetup
    <3>. QED  BY <2>1, <3>1, <3>2, <3>3, <3>4, OwnedFrame
  <2>. QED
    BY <1>3, <2>3, <2>4, <2>5, <2>6, <2>7, <2>8, <2>9 DEF ReaderCall, ReaderStep
<1>4. CASE WriteBegin \/ OutputDqbuf \/ WriteFails \/ FrameWritten \/ UNCHANGED vars
  <2>1. UNCHANGED <<used_buffers, mapped, own, pc, pos>>
    BY <1>4
    DEF WriteBegin, OutputDqbuf, WriteFails, FrameWritten, buffer_written, vars,
        device, opener, history
  <2>. QED  BY <2>1, OwnedFrame
<1>5. CASE WakeAll \/ SustainTimer \/ TimeoutTimer
  <2>1. pc' = [p \in Readers |-> IF pc[p] = "sleep" THEN "wait" ELSE pc[p]]
          /\ UNCHANGED <<used_buffers, mapped, own, pos>>
    BY <1>5
    DEF WakeAll, SustainTimer, TimeoutTimer, WakeReaders, device, opener, history
  <2>. QED  BY <2>1, OwnedFrame DEF InSetup
<1>6. CASE LastClose
  <2>1. \A p \in Readers : own[p] # TRUE
    BY <1>6 DEF LastClose, Owned
  <2>. QED  BY <1>6, <2>1 DEF LastClose, Owned
<1>. QED  BY <1>3, <1>4, <1>5, <1>6 DEF Next

\* The invariant of grants and mappings holds always.
LEMMA MapAlways == ASSUME QuietSetup = TRUE  PROVE Spec => []MapInv
<1>1. Init => MapInv
  BY DEF Init, MapInv, Granted, Owned
<1>2. ListInv /\ WaitInv /\ MapInv /\ [Next]_vars => MapInv'
  BY GrantedStep, OwnedStep DEF MapInv, WaitInv
<1>. QED  BY <1>1, <1>2, ListAlways, WaitAlways, PTL DEF Spec

\* Where no REQBUFS overlaps another, or a frame being written, what a reader
\* that mapped all its buffers is handed is mapped, until someone's REQBUFS
\* clears the flags of all.
THEOREM MappedUntilReset ==
  ASSUME QuietSetup = TRUE  PROVE Spec => []MappedUnlessReset
<1>1. ListInv /\ MapInv => MappedUnlessReset
  <2>. SUFFICES ASSUME ListInv, MapInv, NEW o \in Readers,
                       pc[o] = "picked", own[o]
                PROVE  bufpos2index[pos[o]] \in mapped
    BY DEF MappedUnlessReset
  <2>1. /\ 0 .. used_buffers - 1 \subseteq mapped
        /\ pos[o] < used_buffers
    BY DEF MapInv, Owned
  <2>2. TypeInv /\ used_buffers \in Nat /\ pos[o] \in Nat /\ pos[o] \in Buffers
    BY Basics, Numbers DEF ListInv, TypeOK
  <2>3. pos[o] \in 0 .. used_buffers - 1
    BY <2>1, <2>2
  <2>4. bufpos2index[pos[o]] \in Nat
    <3>1. bufpos2index[pos[o]] \in Buffers
      BY <2>2, Numbers DEF TypeOK
    <3>. QED  BY <2>2, <3>1, Basics
  <2>5. bufpos2index[pos[o]] \in 0 .. used_buffers - 1
    <3>1. bufpos2index[pos[o]] < used_buffers
      BY <2>3 DEF ListInv
    <3>. QED  BY <2>2, <2>4, <3>1
  <2>. QED  BY <2>1, <2>5
<1>. QED  BY <1>1, ListAlways, MapAlways, PTL

-----------------------------------------------------------------------------
(* Frames.                                                                 *)

\* The frames that are fresh, and the positions they are at.
LEMMA FreshFacts ==
  ASSUME TypeInv, NEW k \in 1 .. write_position
  PROVE  /\ k \in Nat /\ k - 1 \in Nat /\ begun \in Nat /\ write_position <= begun
         /\ (k - 1) % used_buffers \in 0 .. used_buffers - 1
         /\ (k - 1) % used_buffers \in Buffers
         /\ Slot(k) \in Buffers
         /\ Fresh(k) => /\ begun - k \in 0 .. used_buffers - 1
                        /\ used_buffers - (begun - k) \in 1 .. used_buffers
<1>1. /\ write_position \in Nat /\ used_buffers \in Nat \ {0} /\ TypeOK
      /\ used_buffers <= MAX_BUFFERS /\ Buffers = 0 .. MAX_BUFFERS - 1
      /\ MAX_BUFFERS \in Nat
      /\ \A i \in Nat : i % used_buffers \in 0 .. used_buffers - 1
  <2>1. \A i \in Nat : i % used_buffers \in 0 .. used_buffers - 1
    BY Basics
  <2>. QED  BY <2>1, Basics
<1>2. k \in Nat /\ k - 1 \in Nat /\ begun \in Nat /\ write_position <= begun
  BY <1>1 DEF begun
<1>3. (k - 1) % used_buffers \in 0 .. used_buffers - 1
  BY <1>1, <1>2
<1>4. (k - 1) % used_buffers \in Buffers
  BY <1>1, <1>3
<1>5. Slot(k) \in Buffers
  BY <1>1, <1>4 DEF Slot, TypeOK
<1>6. Fresh(k) => begun - k \in 0 .. used_buffers - 1
  BY <1>1, <1>2 DEF Fresh
<1>. QED  BY <1>1, <1>2, <1>3, <1>4, <1>5, <1>6

\* Nobody starts or ends a REQBUFS.
LEMMA CalmFrame ==
  ASSUME UNCHANGED <<request, used_buffers>>,
         \A o \in Readers :
           pc[o] \in InSetup \/ pc'[o] \in InSetup => pc'[o] = pc[o]
  PROVE  Calm' => Calm
<1>1. ASSUME Calm', NEW o \in Readers, pc[o] \in InSetup  PROVE Waits(o)
  <2>1. pc'[o] = pc[o]
    BY <1>1
  <2>2. Waits(o)'
    BY <1>1, <2>1 DEF Calm
  <2>. QED  BY <2>1, <2>2 DEF Waits
<1>. QED  BY <1>1 DEF Calm

\* Steps that at most put the timeout image into a buffer.
LEMMA FrameFrame ==
  ASSUME TypeInv, FrameInv,
         UNCHANGED <<write_position, used_buffers, outbufs_list, bufpos2index, how,
                     write_index, mark>>,
         begun' = begun, wpc' = "fill" => wpc = "fill",
         how = "stream" => wpc' # "failed", Calm' => Calm,
         \A b \in Buffers : frame'[b] = frame[b] \/ b \in imaged',
         imaged \subseteq imaged',
         Picked'
  PROVE  FrameInv'
<1>1. Listed' = Listed
  BY DEF Listed
<1>2. \A k \in 1 .. write_position : (Fresh(k)' <=> Fresh(k)) /\ Slot(k)' = Slot(k)
  BY DEF Fresh, Slot
<1>3. Whole'
  BY <1>2, FreshFacts DEF FrameInv, Whole
<1>4. WritePlace'
  BY <1>2 DEF FrameInv, WritePlace
<1>5. StreamPlace'
  BY <1>1, <1>2 DEF FrameInv, StreamPlace
<1>. QED  BY <1>3, <1>4, <1>5 DEF FrameInv

\* After the positions were remapped nothing counts as fresh.
LEMMA NoneFresh ==
  ASSUME TypeInv, FrameInv, mark' = write_position, wpc # "fill",
         UNCHANGED <<write_position, how, wpc, due, late>>,
         \A p \in Readers : pc'[p] = "picked" => pc[p] = "picked"
  PROVE  FrameInv'
<1>1. /\ write_position \in Nat
      /\ \A p \in Readers : due[p] \in Nat
  BY Basics, Numbers
<1>2. \A k \in 1 .. write_position : ~Fresh(k)'
  BY <1>1 DEF Fresh
<1>3. Whole' /\ WritePlace' /\ StreamPlace'
  BY <1>2 DEF Whole, WritePlace, StreamPlace, FrameInv
<1>4. begun' = begun
  BY DEF begun
<1>5. \A p \in Readers : pc[p] = "picked" => ~(due[p] > write_position)
  BY <1>1 DEF FrameInv, Picked
<1>6. Picked'
  BY <1>4, <1>5 DEF FrameInv, Picked
<1>. QED  BY <1>3, <1>6 DEF FrameInv

\* A frame is begun in a buffer that holds none of those still fresh.
LEMMA FillFrame ==
  ASSUME QuietSetup = TRUE, ListInv, FrameInv, WriteBegin \/ OutputDqbuf
  PROVE  FrameInv'
<1>. DEFINE w == write_position  n == used_buffers
            b == IF how = "write" THEN w % n ELSE Head(outbufs_list)
<1>0. TypeInv
  BY DEF ListInv
<1>1. /\ w \in Nat /\ n \in Nat \ {0} /\ TypeOK
      /\ how \in {"write", "stream"} /\ Buffers = 0 .. MAX_BUFFERS - 1
  <2>1. how \in {"write", "stream"}
    BY <1>0, Basics, ProducersAssumption DEF TypeOK
  <2>. QED  BY <1>0, <2>1, Basics
<1>2. /\ Fill(b) /\ wpc \in {"idle", "failed"} /\ wpc' = "fill" /\ write_index' = b
      /\ frame' = [frame EXCEPT ![b] = Unwhole]
      /\ imaged \ {b} \subseteq imaged'
      /\ late' = [o \in Readers |->
                    late[o] + (IF pc[o] = "picked" /\ wpc = "idle" THEN 1 ELSE 0)]
      /\ UNCHANGED <<how, write_position, used_buffers, bufpos2index, pc, pos, due,
                     mark, request>>
      /\ how = "write" => outbufs_list' = outbufs_list
      /\ how = "stream" => outbufs_list' = MoveTail(outbufs_list, b)
  BY DEF WriteBegin, OutputDqbuf, Fill, device, opener
<1>3. Quiet
  BY <1>2 DEF Fill
<1>4. Listed = n
  BY <1>3, QuietCalm, CalmList
<1>5. /\ begun' = w + 1 /\ begun = IF wpc = "idle" THEN w ELSE w + 1
      /\ how = "stream" => begun = w
  <2>1. how = "stream" => wpc = "idle"
    BY <1>2 DEF FrameInv, StreamPlace
  <2>. QED  BY <1>1, <1>2, <2>1 DEF begun
<1>6. ASSUME NEW k \in 1 .. w, Fresh(k)'
      PROVE  /\ Fresh(k) /\ w + 1 - k \in 0 .. n - 1 /\ k \in Nat
             /\ Slot(k)' = Slot(k)
  <2>1. mark \in Nat /\ k > mark /\ k > w + 1 - n
    BY <1>1, <1>2, <1>5, <1>6 DEF Fresh, TypeOK
  <2>2. k > begun - n
    BY <1>1, <1>5, <2>1
  <2>. QED  BY <1>1, <1>2, <2>1, <2>2 DEF Fresh, Slot
<1>7. how = "stream" => b = outbufs_list[1] /\ 1 \in 1 .. n
  BY <1>0, <1>1, Basics
<1>8. how = "stream" =>
        /\ Len(outbufs_list') = n
        /\ \A i \in 1 .. n :
             outbufs_list'[i] = IF i < n THEN outbufs_list[i + 1] ELSE b
  <2>. SUFFICES ASSUME how = "stream"
                PROVE  /\ Len(outbufs_list') = n
                       /\ \A i \in 1 .. n : outbufs_list'[i] =
                            IF i < n THEN outbufs_list[i + 1] ELSE b
    OBVIOUS
  <2>. DEFINE s == outbufs_list  t == outbufs_list'  u == MoveTail(s, s[1])
  <2>1. Proper(s) /\ n = Len(s) /\ 1 \in 1 .. n /\ n \in Nat
    BY <1>0, <1>1, <1>4 DEF TypeInv, Listed
  <2>2. t = u /\ b = s[1]
    BY <1>2, <1>7
  <2>. HIDE DEF s, t, n, b
  <2>3. /\ Len(u) = n
        /\ \A i \in 1 .. n :
             u[i] = IF i < 1 THEN s[i] ELSE IF i < n THEN s[i + 1] ELSE s[1]
    BY <2>1, MoveTailFacts
  <2>. HIDE DEF u
  <2>4. \A i \in 1 .. n : ~(i < 1)
    BY <2>1
  <2>5. Len(t) = n /\ \A i \in 1 .. n : t[i] = IF i < n THEN s[i + 1] ELSE b
    BY <2>2, <2>3, <2>4
  <2>. QED  BY <2>5 DEF s, t, n
<1>. HIDE DEF b
<1>9. ASSUME NEW k \in 1 .. w, Fresh(k)'
      PROVE  /\ Slot(k) # b
             /\ how = "write" => Slot(k) = (k - 1) % n
             /\ how = "stream" =>
                  Slot(k) = outbufs_list'[n - (w + 1 - k)]
  <2>1. CASE how = "write"
    <3>1. Slot(k) = (k - 1) % n
      BY <1>6, <1>9, <2>1 DEF FrameInv, WritePlace
    <3>2. k - 1 \in Nat /\ k - 1 < w /\ w - (k - 1) < n
      BY <1>1, <1>6, <1>9
    <3>3. (k - 1) % n # w % n
      BY <1>1, <3>2, ModApart
    <3>. QED  BY <2>1, <3>1, <3>3 DEF b
  <2>2. CASE how = "stream"
    <3>. DEFINE i == n - (w + 1 - k)
    <3>1. i \in 1 .. n /\ i < n /\ i + 1 \in 1 .. n /\ i + 1 # 1
            /\ n - (w - k) = i + 1 /\ 1 \in 1 .. n
      BY <1>1, <1>6, <1>9
    <3>2. Slot(k) = outbufs_list[n - (w - k)]
      <4>1. Calm
        BY <1>3, QuietCalm
      <4>. QED  BY <1>5, <1>6, <1>9, <2>2, <4>1 DEF FrameInv, StreamPlace
    <3>. HIDE DEF i
    <3>3. Slot(k) = outbufs_list[i + 1] /\ outbufs_list'[i] = outbufs_list[i + 1]
      BY <1>8, <2>2, <3>1, <3>2
    <3>4. outbufs_list[i + 1] # outbufs_list[1]
      BY <1>0, <1>4, <3>1 DEF TypeInv, Proper, Listed
    <3>. QED  BY <1>7, <2>2, <3>3, <3>4 DEF i
  <2>. QED  BY <1>1, <2>1, <2>2
<1>10. Whole'
  <2>. SUFFICES ASSUME NEW k \in 1 .. w, Fresh(k)'
                PROVE  frame'[Slot(k)] = k \/ Slot(k) \in imaged'
    BY <1>2, <1>6 DEF Whole
  <2>1. Slot(k) \in Buffers /\ Slot(k) # b /\ Fresh(k)
    BY <1>0, <1>6, <1>9, FreshFacts
  <2>2. frame'[Slot(k)] = frame[Slot(k)]
    BY <1>1, <1>2, <2>1 DEF TypeOK
  <2>3. frame[Slot(k)] = k \/ Slot(k) \in imaged
    BY <2>1 DEF FrameInv, Whole
  <2>. QED  BY <1>2, <2>1, <2>2, <2>3
<1>11. WritePlace'
  BY <1>2, <1>6, <1>9 DEF WritePlace, b
<1>12. StreamPlace'
  <2>1. how = "stream" => Listed' = n /\ outbufs_list'[n] = b
    BY <1>1, <1>8 DEF Listed
  <2>2. ASSUME how = "stream", NEW k \in 1 .. w, Fresh(k)'
        PROVE  Slot(k)' = outbufs_list'[n - (begun' - k)]
    <3>1. Slot(k)' = outbufs_list'[n - (w + 1 - k)]
      BY <1>6, <1>9, <2>2
    <3>2. k \in Nat
      BY <1>6, <2>2
    <3>3. n - (begun' - k) = n - (w + 1 - k)
      BY <1>1, <1>5, <3>2
    <3>. QED  BY <3>1, <3>3, Zenon
  <2>. QED  BY <1>2, <2>1, <2>2 DEF StreamPlace
<1>14. Picked'
  <2>. SUFFICES ASSUME NEW o \in Readers, pc[o] = "picked"
                PROVE  /\ due[o] <= w /\ w + 1 <= due[o] + 1 + late'[o]
                       /\ due[o] > mark => pos[o] = (due[o] - 1) % n
    BY <1>2, <1>5 DEF Picked
  <2>1. late'[o] = late[o] + (IF wpc = "idle" THEN 1 ELSE 0)
          /\ late[o] \in Nat /\ due[o] \in Nat
    BY <1>0, <1>2, Numbers
  <2>. QED  BY <1>1, <1>5, <2>1 DEF Picked, FrameInv
<1>. QED  BY <1>10, <1>11, <1>12, <1>14 DEF FrameInv

\* The frame that is finished joins the fresh ones at a position of its own.
LEMMA WrittenFrame ==
  ASSUME ListInv, FrameInv, FrameWritten
  PROVE  FrameInv'
<1>. DEFINE w == write_position  n == used_buffers  b == write_index
<1>0. TypeInv
  BY DEF ListInv
<1>1. /\ w \in Nat /\ n \in Nat \ {0} /\ TypeOK /\ b \in Buffers
      /\ how \in {"write", "stream"} /\ Buffers = 0 .. MAX_BUFFERS - 1
      /\ w % n \in 0 .. n - 1 /\ w % n \in Buffers
  <2>1. how \in {"write", "stream"}
    BY <1>0, Basics, ProducersAssumption DEF TypeOK
  <2>2. w % n \in 0 .. n - 1
    BY <1>0, Basics
  <2>3. w % n \in Buffers
    BY <1>0, <2>2, Basics
  <2>. QED  BY <1>0, <2>1, <2>2, <2>3, Basics DEF TypeOK
<1>2. /\ wpc = "fill" /\ wpc' = "wake" /\ write_position' = w + 1
      /\ frame' = [frame EXCEPT ![b] = w + 1]
      /\ UNCHANGED <<how, used_buffers, pc, pos, due, late, mark, request, imaged>>
  BY DEF FrameWritten, buffer_written, opener, history
<1>3. Quiet /\ Calm
  BY <1>2, QuietCalm DEF ListInv
<1>4. Listed = n /\ Within(outbufs_list, n)
  BY <1>3, CalmList
<1>5. begun = w + 1 /\ begun' = w + 1
  BY <1>1, <1>2 DEF begun
<1>6. /\ how = "write" => b = w % n
      /\ how = "stream" => b = outbufs_list[n]
  BY <1>2, <1>4 DEF FrameInv, WritePlace, StreamPlace
<1>7. b \in 0 .. n - 1 /\ b % n = b
  <2>1. n \in 1 .. n /\ n = Len(outbufs_list)
    BY <1>1, <1>4 DEF Listed
  <2>2. outbufs_list[n] \in 0 .. n - 1
    <3>1. outbufs_list[n] \in Nat
      <4>1. n \in 1 .. Listed
        BY <1>4, <2>1
      <4>2. outbufs_list[n] \in Buffers
        BY <1>0, <4>1, Basics
      <4>. QED  BY <1>0, <4>2, Basics
    <3>. QED  BY <1>1, <1>4, <2>1, <3>1 DEF Within
  <2>3. b \in 0 .. n - 1
    BY <1>1, <1>6, <2>2
  <2>. QED  BY <1>1, <2>3, ModSmall
<1>8. /\ bufpos2index' = [bufpos2index EXCEPT ![w % n] = b]
      /\ outbufs_list' = MoveTail(outbufs_list, b)
  BY <1>7 DEF FrameWritten, buffer_written
<1>9. how = "stream" =>
        /\ Len(outbufs_list') = n
        /\ \A i \in 1 .. n : outbufs_list'[i] = outbufs_list[i]
  <2>. SUFFICES ASSUME how = "stream"
                PROVE  /\ Len(outbufs_list') = n
                       /\ \A i \in 1 .. n : outbufs_list'[i] = outbufs_list[i]
    OBVIOUS
  <2>. DEFINE s == outbufs_list  t == outbufs_list'  u == MoveTail(s, s[n])
  <2>1. Proper(s) /\ n = Len(s) /\ n \in 1 .. n /\ n \in Nat
    BY <1>0, <1>1, <1>4 DEF TypeInv, Listed
  <2>2. t = u
    BY <1>6, <1>8
  <2>. HIDE DEF s, t, n
  <2>3. /\ Len(u) = n
        /\ \A i \in 1 .. n :
             u[i] = IF i < n THEN s[i] ELSE IF i < n THEN s[i + 1] ELSE s[n]
    BY <2>1, MoveTailFacts
  <2>. HIDE DEF u
  <2>4. \A i \in 1 .. n : i < n \/ i = n
    BY <2>1
  <2>5. Len(t) = n /\ \A i \in 1 .. n : t[i] = s[i]
    BY <2>2, <2>3, <2>4
  <2>. QED  BY <2>5 DEF s, t, n
<1>. HIDE DEF w, n, b
\* What was fresh stays where it was.
<1>10. ASSUME NEW k \in 1 .. w, Fresh(k)
       PROVE  /\ w + 1 - k \in 0 .. n - 1 /\ k \in Nat /\ Slot(k) \in Buffers
              /\ Slot(k)' = Slot(k) /\ Slot(k) # b
  <2>1. /\ w + 1 - k \in 0 .. n - 1 /\ k \in Nat /\ k - 1 \in Nat
        /\ Slot(k) \in Buffers /\ (k - 1) % n \in Buffers
    <3>1. /\ begun - k \in 0 .. n - 1 /\ k \in Nat /\ k - 1 \in Nat
          /\ Slot(k) \in Buffers /\ (k - 1) % n \in Buffers
      BY <1>0, <1>10, FreshFacts DEF w, n
    <3>2. begun - k = w + 1 - k
      BY <1>1, <1>5, <3>1
    <3>. QED  BY <3>1, <3>2, Zenon
  <2>2. (k - 1) % n # w % n
    <3>1. k - 1 < w /\ w - (k - 1) < n
      BY <1>1, <2>1
    <3>. QED  BY <1>1, <2>1, <3>1, ModApart
  <2>3. Slot(k)' = Slot(k)
    BY <1>1, <1>2, <1>8, <2>1, <2>2 DEF Slot, TypeOK, n
  <2>4. CASE how = "write"
    BY <1>6, <1>10, <2>1, <2>2, <2>3, <2>4 DEF FrameInv, WritePlace, w, n
  <2>5. CASE how = "stream"
    <3>. DEFINE i == n - (w + 1 - k)
    <3>1. i \in 1 .. n /\ i # n /\ n \in 1 .. n
      BY <1>1, <2>1
    <3>2. Slot(k) = outbufs_list[i]
      <4>1. Slot(k) = outbufs_list[n - (begun - k)]
        BY <1>3, <1>10, <2>5 DEF FrameInv, StreamPlace, w, n
      <4>2. n - (begun - k) = i
        BY <1>1, <1>5, <2>1
      <4>. QED  BY <4>1, <4>2, Zenon
    <3>. HIDE DEF i
    <3>3. outbufs_list[i] # outbufs_list[n]
      BY <1>0, <1>4, <3>1 DEF TypeInv, Proper, Listed
    <3>. QED  BY <1>6, <2>1, <2>3, <2>5, <3>2, <3>3
  <2>. QED  BY <1>1, <2>4, <2>5
<1>11. ASSUME NEW k \in 1 .. w + 1, k = w + 1  PROVE Slot(k)' = b
  <2>1. k - 1 = w
    BY <1>1, <1>11
  <2>2. bufpos2index'[w % n] = b
    BY <1>1, <1>8 DEF TypeOK
  <2>. QED  BY <1>2, <2>1, <2>2 DEF Slot, n
<1>12. ASSUME NEW k \in 1 .. w + 1
       PROVE  /\ Fresh(k)' <=> Fresh(k)
              /\ k = w + 1 \/ k \in 1 .. w
  BY <1>1, <1>2, <1>5 DEF Fresh
<1>13. Whole'
  <2>. SUFFICES ASSUME NEW k \in 1 .. w + 1, Fresh(k)
                PROVE  frame'[Slot(k)'] = k \/ Slot(k)' \in imaged
    BY <1>2, <1>12 DEF Whole
  <2>1. CASE k = w + 1
    BY <1>1, <1>2, <1>11, <2>1 DEF TypeOK
  <2>2. CASE k \in 1 .. w
    <3>1. frame'[Slot(k)'] = frame[Slot(k)] /\ Slot(k)' = Slot(k)
      BY <1>1, <1>2, <1>10, <2>2 DEF TypeOK
    <3>. QED  BY <2>2, <3>1 DEF FrameInv, Whole, w
  <2>. QED  BY <1>12, <2>1, <2>2
<1>14. WritePlace'
  <2>. SUFFICES ASSUME how = "write", NEW k \in 1 .. w + 1, Fresh(k)
                PROVE  Slot(k)' = (k - 1) % n
    BY <1>2, <1>12 DEF WritePlace, n
  <2>1. CASE k = w + 1
    <3>1. k - 1 = w
      BY <1>1, <2>1
    <3>. QED  BY <1>6, <1>11, <2>1, <3>1
  <2>2. CASE k \in 1 .. w
    BY <1>10, <2>2 DEF FrameInv, WritePlace, w, n
  <2>. QED  BY <1>12, <2>1, <2>2
<1>15. StreamPlace'
  <2>. SUFFICES ASSUME how = "stream", NEW k \in 1 .. w + 1, Fresh(k)
                PROVE  Slot(k)' = outbufs_list'[n - ((w + 1) - k)]
    BY <1>2, <1>5, <1>12 DEF StreamPlace, n
  <2>1. CASE k = w + 1
    <3>1. n - ((w + 1) - k) = n /\ n \in 1 .. n
      BY <1>1, <2>1
    <3>. QED  BY <1>6, <1>9, <1>11, <2>1, <3>1
  <2>2. CASE k \in 1 .. w
    <3>1. n - ((w + 1) - k) \in 1 .. n
      BY <1>1, <1>10, <2>2
    <3>2. Slot(k) = outbufs_list[n - ((w + 1) - k)]
      <4>1. Slot(k) = outbufs_list[n - (begun - k)]
        BY <1>3, <2>2 DEF FrameInv, StreamPlace, w, n
      <4>. QED  BY <1>5, <4>1
    <3>. QED  BY <1>9, <1>10, <2>2, <3>1, <3>2
  <2>. QED  BY <1>12, <2>1, <2>2
<1>17. Picked'
  <2>. SUFFICES ASSUME NEW o \in Readers, pc[o] = "picked"
                PROVE  /\ due[o] <= w + 1 /\ w + 1 <= due[o] + 1 + late[o]
                       /\ due[o] > mark => pos[o] = (due[o] - 1) % n
    BY <1>2, <1>5 DEF Picked, n
  <2>1. due[o] \in Nat /\ due[o] <= w
    BY <1>0, Numbers DEF Picked, FrameInv, w
  <2>. QED  BY <1>1, <1>5, <2>1 DEF Picked, FrameInv, n
<1>. QED  BY <1>13, <1>14, <1>15, <1>17 DEF FrameInv

\* REQBUFS.
LEMMA SetupFrame ==
  ASSUME QuietSetup = TRUE, ListInv, FrameInv, NEW o \in Readers,
         \/ \E count \in 0 .. MAX_BUFFERS : ReqbufsBegin(o, count)
         \/ ReqbufsShrink(o) \/ ReqbufsRemap(o) \/ ReqbufsTest(o) \/ ReqbufsStore(o)
  PROVE  FrameInv'
<1>1. TypeInv /\ TypeOK
  BY Basics DEF ListInv
<1>2. /\ \A p \in Readers : p # o =>
           /\ pc'[p] = pc[p] /\ pos'[p] = pos[p]
           /\ due'[p] = due[p] /\ late'[p] = late[p] /\ request'[p] = request[p]
      /\ UNCHANGED <<write_position, how, wpc, write_index>>
  BY <1>1, OneReader DEF ReaderCall, ReaderStep
<1>3. wpc # "fill"
  <2>1. CASE pc[o] \in InSetup
    BY <2>1 DEF ListInv, Quiet
  <2>2. CASE \E count \in 0 .. MAX_BUFFERS : ReqbufsBegin(o, count)
    BY <2>2 DEF ReqbufsBegin
  <2>. QED
    BY <2>1, <2>2
    DEF ReqbufsShrink, ReqbufsRemap, ReqbufsTest, ReqbufsStore, Goto, InSetup
<1>4. /\ pc'[o] # "picked" /\ UNCHANGED <<frame, imaged, due, late, pos>>
  <2>1. CASE \E count \in 0 .. MAX_BUFFERS : ReqbufsBegin(o, count)
    BY <1>1, <2>1 DEF ReqbufsBegin, TypeOK, contents
  <2>2. CASE ReqbufsShrink(o) \/ ReqbufsRemap(o)
    BY <1>1, <2>2 DEF ReqbufsShrink, ReqbufsRemap, TypeOK, contents, history
  <2>3. CASE ReqbufsTest(o) \/ ReqbufsStore(o)
    BY <1>1, <2>3
    DEF ReqbufsTest, ReqbufsStore, Goto, TypeOK, contents, history
  <2>. QED  BY <2>1, <2>2, <2>3
<1>5. \A p \in Readers : pc'[p] = "picked" => pc[p] = "picked"
  BY <1>2, <1>4
<1>6. mark' = write_position => FrameInv'
  BY <1>1, <1>2, <1>3, <1>4, <1>5, NoneFresh
\* Where nothing but the stage of this REQBUFS changes.
<1>7. ASSUME UNCHANGED <<used_buffers, outbufs_list, bufpos2index, mark>>, Calm' => Calm
      PROVE  FrameInv'
  <2>1. begun' = begun
    BY <1>2 DEF begun
  <2>2. Picked'
    BY <1>2, <1>4, <1>5, <1>7, <2>1 DEF FrameInv, Picked
  <2>3. how = "stream" => wpc' # "failed"
    BY <1>2 DEF FrameInv, StreamPlace
  <2>. QED  BY <1>1, <1>2, <1>4, <1>7, <2>1, <2>2, <2>3, FrameFrame
<1>8. CASE \E count \in 0 .. MAX_BUFFERS : ReqbufsBegin(o, count)
  <2>1. UNCHANGED <<used_buffers, outbufs_list, bufpos2index, mark>> /\ Quiet
    BY <1>8 DEF ReqbufsBegin, device
  <2>. QED  BY <1>7, <2>1, QuietCalm
<1>9. CASE ReqbufsShrink(o)
  <2>. DEFINE next == After(outbufs_list, at[o])
  <2>1. /\ pc[o] = "shrink"
        /\ pc'[o] = IF next # End THEN "shrink" ELSE "remap"
        /\ mark' = IF next # End THEN mark ELSE write_position
        /\ UNCHANGED <<used_buffers, bufpos2index>>
    BY <1>1, <1>9 DEF ReqbufsShrink, TypeOK
  <2>2. CASE next = End
    BY <1>6, <2>1, <2>2
  <2>3. CASE next # End
    <3>1. ~Calm'
      BY <2>1, <2>3 DEF Calm, Waits, InSetup
    <3>2. begun' = begun
      BY <1>2 DEF begun
    <3>3. mark' = mark
      BY <2>1, <2>3
    <3>4. \A k \in 1 .. write_position : (Fresh(k)' <=> Fresh(k)) /\ Slot(k)' = Slot(k)
      BY <2>1, <3>2, <3>3 DEF Fresh, Slot
    <3>5. Whole' /\ WritePlace'
      BY <1>2, <1>3, <1>4, <2>1, <3>4 DEF FrameInv, Whole, WritePlace
    <3>6. StreamPlace'
      BY <1>2, <1>3, <3>1 DEF FrameInv, StreamPlace
    <3>7. Picked'
      BY <1>2, <1>4, <1>5, <2>1, <3>2, <3>3 DEF FrameInv, Picked
    <3>. QED  BY <3>5, <3>6, <3>7 DEF FrameInv
  <2>. QED  BY <2>2, <2>3
<1>10. CASE ReqbufsRemap(o)
  <2>1. pc[o] = "remap" /\ mark' = mark
    BY <1>10 DEF ReqbufsRemap, history
  <2>2. mark = write_position
    BY <2>1 DEF ListInv, Stage, Remaps, Shrunk
  <2>. QED  BY <1>6, <2>1, <2>2
<1>11. CASE ReqbufsTest(o)
  <2>1. /\ pc[o] = "test" /\ UNCHANGED <<used_buffers, outbufs_list, bufpos2index, mark>>
    BY <1>11 DEF ReqbufsTest, Goto, device, history
  <2>2. CASE request[o] < used_buffers
    <3>1. mark = write_position
      BY <2>1, <2>2 DEF ListInv, Stage, Shrunk
    <3>. QED  BY <1>6, <2>1, <3>1
  <2>3. CASE ~(request[o] < used_buffers)
    <3>1. request[o] \in Nat /\ used_buffers \in Nat
      BY <1>1, Numbers, Basics
    <3>2. Waits(o)
      BY <2>1, <2>3, <3>1 DEF Waits
    <3>3. Calm
      BY <2>1, <3>2 DEF Calm, ListInv, InSetup
    <3>. QED  BY <1>7, <2>1, <3>3
  <2>. QED  BY <2>2, <2>3
<1>12. CASE ReqbufsStore(o)
  <2>1. pc[o] = "store" /\ mark' = mark
    BY <1>12 DEF ReqbufsStore, Goto, history
  <2>2. mark = write_position
    BY <2>1 DEF ListInv, Stage, Shrunk
  <2>. QED  BY <1>6, <2>1, <2>2
<1>. QED  BY <1>8, <1>9, <1>10, <1>11, <1>12

\* A reader picks one of the last two frames, or the last one once more.
LEMMA PickFrame ==
  ASSUME TypeInv, NotAhead, FrameInv, NEW o \in Readers, Pick(o)
  PROVE  FrameInv'
<1>1. /\ TypeOK /\ write_position \in Nat /\ mark \in Nat
  BY Basics DEF TypeOK
<1>2. \A p \in Readers : p # o =>
        pc'[p] = pc[p] /\ pos'[p] = pos[p] /\ due'[p] = due[p] /\ late'[p] = late[p]
  BY OneReader DEF ReaderStep
<1>3. /\ pc'[o] = "picked" /\ pc[o] = "pick"
      /\ late'[o] = (IF wpc \in {"fill", "failed"} THEN 1 ELSE 0)
      /\ UNCHANGED <<device, contents, producer, mark>>
  BY <1>1 DEF Pick, Goto, TypeOK
<1>a. request' = request
  BY DEF Pick
<1>4. /\ pos'[o] = (due'[o] - 1) % used_buffers \/ due'[o] = 0
      /\ due'[o] \in Nat /\ due'[o] <= write_position
      /\ write_position <= due'[o] + 1
  BY PickFacts
<1>5. begun' = begun
  BY <1>3 DEF begun, device, producer
<1>6. /\ begun <= due'[o] + 1 + late'[o]
      /\ due'[o] > mark => pos'[o] = (due'[o] - 1) % used_buffers
  BY <1>1, <1>3, <1>4 DEF begun
<1>7. Picked'
  BY <1>2, <1>3, <1>4, <1>5, <1>6 DEF FrameInv, Picked, device
<1>8. Calm' => Calm
  <2>1. \A p \in Readers : pc[p] \in InSetup \/ pc'[p] \in InSetup => pc'[p] = pc[p]
    BY <1>2, <1>3 DEF InSetup
  <2>. QED  BY <1>3, <1>a, <2>1, CalmFrame DEF device
<1>9. how = "stream" => wpc' # "failed"
  BY <1>3 DEF FrameInv, StreamPlace, producer
<1>. QED
  BY <1>3, <1>5, <1>7, <1>8, <1>9, FrameFrame DEF device, producer, contents

\* The other steps that leave positions and buffers alone but for the timeout
\* image.
LEMMA StillFrame ==
  ASSUME TypeInv, FrameInv,
         UNCHANGED <<device, how, write_index, mark, request>>,
         wpc' = wpc \/ (wpc = "wake" /\ wpc' = "idle"),
         \A b \in Buffers : frame'[b] = frame[b] \/ b \in imaged',
         imaged \subseteq imaged',
         \A p \in Readers : pc[p] \in InSetup => pc'[p] = pc[p],
         \A p \in Readers : pc'[p] \in InSetup \union {"picked"} =>
           /\ pc'[p] = pc[p]
           /\ pos'[p] = pos[p] /\ due'[p] = due[p] /\ late'[p] = late[p]
  PROVE  FrameInv'
<1>1. begun' = begun
  BY DEF begun, device
<1>2. Picked'
  BY <1>1 DEF FrameInv, Picked, device
<1>3. Calm' => Calm
  <2>1. \A p \in Readers : pc[p] \in InSetup \/ pc'[p] \in InSetup => pc'[p] = pc[p]
    OBVIOUS
  <2>. QED  BY <2>1, CalmFrame DEF device
<1>4. /\ wpc' = "fill" => wpc = "fill"
      /\ how = "stream" => wpc' # "failed"
  BY DEF FrameInv, StreamPlace
<1>. QED  BY <1>1, <1>2, <1>3, <1>4, FrameFrame DEF device

\* What else the producer and the timers do.
LEMMA IdleFrame ==
  ASSUME ListInv, FrameInv,
         \/ WriteFails \/ WakeAll \/ SustainTimer \/ TimeoutTimer \/ LastClose
         \/ UNCHANGED vars
  PROVE  FrameInv'
<1>1. TypeInv
  BY DEF ListInv
<1>2. CASE WriteFails \/ UNCHANGED vars
  <2>1. /\ UNCHANGED <<device, how, mark, request, pc, pos, due, late, contents>>
        /\ \/ wpc' = wpc
           \/ how = "write" /\ wpc = "fill" /\ wpc' = "failed"
    BY <1>2 DEF WriteFails, vars, producer, opener, history
  <2>2. begun' = begun
    BY <2>1 DEF begun, device
  <2>3. Picked'
    BY <2>1, <2>2 DEF FrameInv, Picked, device
  <2>4. \A k \in 1 .. write_position : (Fresh(k)' <=> Fresh(k)) /\ Slot(k)' = Slot(k)
    BY <2>1, <2>2 DEF Fresh, Slot, device
  <2>5. write_index' = write_index \/ wpc' = "failed"
    BY <1>2 DEF WriteFails, vars, producer
  <2>6. Calm' => Calm
    BY <2>1, CalmFrame DEF device
  <2>7. Whole' /\ WritePlace' /\ StreamPlace'
    BY <2>1, <2>2, <2>4, <2>5, <2>6
    DEF FrameInv, Whole, WritePlace, StreamPlace, Listed, device, contents
  <2>. QED  BY <2>3, <2>7 DEF FrameInv
<1>3. CASE WakeAll \/ SustainTimer \/ TimeoutTimer
  <2>1. /\ UNCHANGED <<device, how, write_index, mark, request, contents, pos, due, late>>
        /\ wpc' = wpc \/ (wpc = "wake" /\ wpc' = "idle")
        /\ pc' = [p \in Readers |-> IF pc[p] = "sleep" THEN "wait" ELSE pc[p]]
    BY <1>3
    DEF WakeAll, SustainTimer, TimeoutTimer, WakeReaders, producer, opener, history
  <2>2. /\ \A p \in Readers : pc[p] \in InSetup => pc'[p] = pc[p]
        /\ \A p \in Readers : pc'[p] \in InSetup \union {"picked"} =>
             /\ pc'[p] = pc[p]
             /\ pos'[p] = pos[p] /\ due'[p] = due[p] /\ late'[p] = late[p]
    BY <2>1 DEF InSetup
  <2>. QED  BY <1>1, <2>1, <2>2, StillFrame DEF contents
<1>4. CASE LastClose
  <2>1. /\ write_position' = 0 /\ wpc' = "idle"
        /\ \A p \in Readers : pc'[p] = "closed"
    BY <1>4 DEF LastClose
  <2>2. \A k \in 1 .. write_position' : FALSE
    BY <2>1
  <2>. QED  BY <2>1, <2>2 DEF FrameInv, Whole, WritePlace, StreamPlace, Picked
<1>. QED  BY <1>2, <1>3, <1>4

\* What else a reader does.
LEMMA ReaderFrame ==
  ASSUME ListInv, FrameInv, NEW o \in Readers,
         \/ Open(o) \/ Close(o) \/ Mmap(o) \/ GetCaptureBuffer(o)
         \/ GetNonblocking(o) \/ Poll(o) \/ CanRead(o) \/ Interrupted(o)
         \/ Deliver(o) \/ CopyTimeoutImage(o) \/ TimeoutImageCopied(o)
  PROVE  FrameInv'
<1>1. TypeInv /\ TypeOK
  BY Basics DEF ListInv
<1>2. \A p \in Readers : p # o =>
        pc'[p] = pc[p] /\ pos'[p] = pos[p] /\ due'[p] = due[p] /\ late'[p] = late[p]
  BY <1>1, OneReader DEF ReaderCall, ReaderStep
<1>3. ASSUME UNCHANGED <<device, producer, mark, request>>,
             pc[o] \notin InSetup, pc'[o] \notin InSetup \union {"picked"},
             \A b \in Buffers : frame'[b] = frame[b] \/ b \in imaged',
             imaged \subseteq imaged'
      PROVE  FrameInv'
  <2>1. \A p \in Readers : pc[p] \in InSetup => pc'[p] = pc[p]
    BY <1>2, <1>3
  <2>2. \A p \in Readers : pc'[p] \in InSetup \union {"picked"} =>
          /\ pc'[p] = pc[p]
          /\ pos'[p] = pos[p] /\ due'[p] = due[p] /\ late'[p] = late[p]
    BY <1>2, <1>3
  <2>. QED  BY <1>1, <1>3, <2>1, <2>2, StillFrame DEF producer
<1>4. CASE \/ Open(o) \/ Close(o) \/ CanRead(o) \/ Interrupted(o) \/ Deliver(o)
           \/ TimeoutImageCopied(o)
  <2>1. UNCHANGED <<device, producer, mark, request, contents>>
    BY <1>4
    DEF Open, Close, CanRead, Interrupted, Deliver, TimeoutImageCopied, opener,
        history
  <2>2. pc[o] \notin InSetup /\ pc'[o] \notin InSetup \union {"picked"}
    BY <1>1, <1>4
    DEF Open, Close, CanRead, Interrupted, Deliver, TimeoutImageCopied, Goto,
        TypeOK, InSetup
  <2>. QED  BY <1>3, <2>1, <2>2 DEF contents
<1>5. CASE GetCaptureBuffer(o) \/ GetNonblocking(o) \/ Poll(o)
  <2>1. PICK kind : Called(o, kind)
    BY <1>5 DEF GetCaptureBuffer, GetNonblocking, Poll
  <2>2. UNCHANGED <<device, producer, mark, request, contents>>
    BY <2>1 DEF Called, history
  <2>3. pc[o] \notin InSetup /\ pc'[o] \notin InSetup \union {"picked"}
    BY <1>1, <2>1 DEF Called, Goto, TypeOK, InSetup
  <2>. QED  BY <1>3, <2>2, <2>3 DEF contents
<1>6. CASE Mmap(o)
  <2>1. UNCHANGED <<device, producer, mark, request, contents>> /\ pc[o] = "idle"
          /\ pc' = pc
    BY <1>6 DEF Mmap, opener
  <2>. QED  BY <1>3, <2>1 DEF contents, InSetup
<1>7. CASE CopyTimeoutImage(o)
  <2>. DEFINE b == bufpos2index[pos[o]]
  <2>1. UNCHANGED <<device, producer, mark, request>>
    BY <1>7 DEF CopyTimeoutImage
  <2>2. pc[o] \notin InSetup /\ pc'[o] \notin InSetup \union {"picked"}
    BY <1>1, <1>7 DEF CopyTimeoutImage, Goto, TypeOK, InSetup
  <2>3. frame' = [frame EXCEPT ![b] = Unwhole] /\ imaged' = imaged \union {b}
    BY <1>7 DEF CopyTimeoutImage
  <2>. HIDE DEF b
  <2>4. \A c \in Buffers : frame'[c] = frame[c] \/ c \in imaged'
    BY <1>1, <2>3 DEF TypeOK
  <2>. QED  BY <1>3, <2>1, <2>2, <2>3, <2>4
<1>. QED  BY <1>4, <1>5, <1>6, <1>7

\* The invariant of the frames holds always.
LEMMA FrameAlways == ASSUME QuietSetup = TRUE  PROVE Spec => []FrameInv
<1>1. Init => FrameInv
  <2>. SUFFICES ASSUME Init  PROVE FrameInv
    OBVIOUS
  <2>1. \A k \in 1 .. write_position : FALSE
    BY DEF Init
  <2>. QED
    BY <2>1 DEF Init, FrameInv, Whole, WritePlace, StreamPlace, Picked
<1>2. ListInv /\ WaitInv /\ FrameInv /\ [Next]_vars => FrameInv'
  <2>. SUFFICES ASSUME ListInv, WaitInv, FrameInv, [Next]_vars  PROVE FrameInv'
    OBVIOUS
  <2>1. TypeInv /\ NotAhead
    BY DEF ListInv, WaitInv
  <2>2. ASSUME NEW o \in Readers, ReaderCall(o)  PROVE FrameInv'
    BY <2>2, SetupFrame, ReaderFrame DEF ReaderCall
  <2>3. ASSUME NEW o \in Readers, ReaderStep(o)  PROVE FrameInv'
    BY <2>1, <2>3, SetupFrame, PickFrame, ReaderFrame DEF ReaderStep
  <2>. QED  BY <2>2, <2>3, FillFrame, WrittenFrame, IdleFrame DEF Next
<1>. QED  BY <1>1, <1>2, ListAlways, WaitAlways, PTL DEF Spec

\* Where no REQBUFS overlaps another, or a frame being written, a reader is
\* handed the frame it picked, whole, unless the producer has begun
\* used_buffers - 1 more since, the frame is older than the last remapping, or
\* the timeout image was copied over it.
THEOREM DeliversWhatWasPicked ==
  ASSUME QuietSetup = TRUE  PROVE Spec => []DeliversPicked
<1>1. ListInv /\ FrameInv => DeliversPicked
  <2>. SUFFICES ASSUME ListInv, FrameInv, NEW o \in Readers, pc[o] = "picked",
                       late[o] <= used_buffers - 2, due[o] > mark
                PROVE  \/ frame[bufpos2index[pos[o]]] = due[o]
                       \/ bufpos2index[pos[o]] \in imaged
    BY DEF DeliversPicked
  <2>1. /\ due[o] <= write_position /\ begun <= due[o] + 1 + late[o]
        /\ pos[o] = (due[o] - 1) % used_buffers
    BY DEF FrameInv, Picked
  <2>2. /\ due[o] \in Nat /\ late[o] \in Nat /\ mark \in Nat /\ begun \in Nat
        /\ used_buffers \in Nat /\ write_position \in Nat
    <3>0. TypeInv
      BY DEF ListInv
    <3>1. mark \in Nat /\ write_position \in Nat /\ used_buffers \in Nat
      BY <3>0, Basics DEF TypeOK
    <3>2. begun \in Nat
      BY <3>1 DEF begun
    <3>. QED  BY <3>0, <3>1, <3>2, Numbers
  <2>3. due[o] \in 1 .. write_position /\ Fresh(due[o])
    BY <2>1, <2>2 DEF Fresh
  <2>. QED  BY <2>1, <2>3 DEF FrameInv, Whole, Slot
<1>. QED  BY <1>1, ListAlways, FrameAlways, PTL

=============================================================================
