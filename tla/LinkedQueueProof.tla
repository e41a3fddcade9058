---------------------------- MODULE LinkedQueueProof ----------------------------
(***************************************************************************)
(* The linked list of queue.c, proved for every set of threads, payloads   *)
(* and addresses: the pointers stay those of a list, nothing leaks, size   *)
(* is exact, and the operations are those of the atomic queue FifoQueue.   *)
(*                                                                         *)
(* The invariant names the list: there is a sequence s of n elements that  *)
(* first and next lead along, and depending on where the owner of the      *)
(* mutex is, size and last say what they should of it.  No recursion is    *)
(* needed, only that first and next lead along one sequence.               *)
(***************************************************************************)
EXTENDS LinkedQueue, FiniteSetTheorems, SequenceTheorems, WellFoundedInduction, TLAPS

-----------------------------------------------------------------------------
(* The inductive invariant.                                                *)

\* Where a thread that does not own the mutex is, and where its owner is.
Outside == {"idle", "addLock"}
Inside == {"addLink", "addLast", "addSize", "nextTest", "nextFree", "nextLast",
           "clear", "clearFirst", "unlock"}

Placed == pc \in [Threads -> Outside \union Inside]
Types == TypeOK /\ Placed
Exclusive == \A t \in Threads : pc[t] \in Inside <=> mutex = t

\* Elements that are allocated but not yet in the list, each of one thread.
IsPending(t) == pc[t] \in {"addLock", "addLink"}
Pending == {elem[t] : t \in {u \in Threads : IsPending(u)}}
PendingReady ==
  /\ \A t \in Threads : IsPending(t) => elem[t] \in Elems /\ next[elem[t]] = NULL
  /\ \A t, u \in Threads : IsPending(t) /\ IsPending(u) /\ elem[t] = elem[u] => t = u

\* The element that queue_next has taken out and not yet freed.
Popped == IF Owner = "nextFree" THEN {elem[mutex]} ELSE {}

\* Where the elements that are still to be freed begin.
Start ==
  CASE Owner = "clear"      -> elem[mutex]
    [] Owner = "clearFirst" -> NULL
    [] OTHER                -> first

\* From Start, next leads along the n elements of s, none of them twice.
Elements(s, n) == {s[i] : i \in 1 .. n}
Leads(s, n) ==
  /\ Start = IF n = 0 THEN NULL ELSE s[1]
  /\ \A i \in 1 .. n : next[s[i]] = IF i = n THEN NULL ELSE s[i + 1]
  /\ \A i, j \in 1 .. n : s[i] = s[j] => i = j

\* What is allocated is in the list, pending or popped, and only one of these.
Accounted(s, n) ==
  /\ heap = Elements(s, n) \union Pending \union Popped
  /\ Elements(s, n) \intersect Pending = {}
  /\ Popped \intersect (Elements(s, n) \union Pending) = {}

\* What size and last say of the list, while the owner changes them.
Sized(n) ==
  /\ Owner \in {"none", "addLink", "nextTest", "nextLast", "unlock"} => size = n
  /\ Owner \in {"addLast", "addSize"} => n = size + 1
  /\ Owner = "nextFree" => size = n + 1 /\ size > Backbuffer
  /\ Owner = "clearFirst" => size = 0
Ended(s, n) ==
  /\ Owner \in {"none", "addLink", "nextTest", "unlock"} =>
       last = IF n = 0 THEN NULL ELSE s[n]
  /\ Owner \in {"addSize", "nextFree", "nextLast"} /\ n > 0 => last = s[n]
  /\ Owner \in {"addLast", "addSize"} => n > 0 /\ elem[mutex] = s[n]

List(s, n) == Leads(s, n) /\ Accounted(s, n) /\ Sized(n) /\ Ended(s, n)
Paid == \A e \in heap : payload[e] \in Items

Inv ==
  /\ Types /\ Exclusive /\ PendingReady /\ Paid
  /\ \E n \in Nat : \E s \in [1 .. n -> Elems] : List(s, n)

\* The sequences after queue_add has linked e, and after the first is gone.
Grown(s, n, e) == [i \in 1 .. n + 1 |-> IF i = n + 1 THEN e ELSE s[i]]
Rest(s, n) == [i \in 1 .. n - 1 |-> s[i + 1]]

-----------------------------------------------------------------------------
(* Who owns the mutex.                                                     *)

\* A thread inside owns the mutex; one outside does not.
LEMMA OwnerInside ==
  ASSUME Types, Exclusive, NEW t \in Threads
  PROVE  /\ pc[t] \in Inside => mutex = t /\ Owner = pc[t]
         /\ pc[t] \in Outside => mutex # t
         /\ mutex = NULL <=> Owner = "none"
         /\ Owner \in Inside \union {"none"}
<1>1. NULL \notin Threads
  BY NullAssumption
<1>2. pc[t] \in Inside => mutex = t /\ Owner = pc[t]
  BY <1>1 DEF Exclusive, Owner
<1>3. Inside \intersect Outside = {}
  BY DEF Inside, Outside
<1>4. "none" \notin Inside
  BY DEF Inside
<1>5. mutex # NULL => mutex \in Threads /\ pc[mutex] \in Inside
  <2>1. mutex \in Threads \union {NULL}
    BY DEF Types, Placed, TypeOK
  <2>. QED  BY <2>1 DEF Exclusive
<1>6. pc[t] \in Outside => mutex # t
  BY <1>3 DEF Exclusive
<1>7. mutex = NULL => Owner = "none"
  BY DEF Owner
<1>8. mutex # NULL => Owner \in Inside
  BY <1>5 DEF Owner
<1>. QED  BY <1>2, <1>4, <1>6, <1>7, <1>8

\* A thread inside moves on inside.
LEMMA InsideStep ==
  ASSUME Types, Exclusive, NEW t \in Threads, pc[t] \in Inside, pc'[t] \in Inside,
         \A u \in Threads \ {t} : pc'[u] = pc[u], mutex' = mutex
  PROVE  /\ Exclusive'
         /\ mutex = t /\ mutex' = t /\ Owner = pc[t] /\ Owner' = pc'[t]
         /\ \A u \in Threads \ {t} : pc[u] \in Outside
<1>1. mutex = t /\ Owner = pc[t] /\ t # NULL
  BY OwnerInside, NullAssumption
<1>2. \A u \in Threads \ {t} : pc[u] \in Outside
  BY <1>1 DEF Types, Placed, Exclusive
<1>3. Exclusive'
  BY <1>1, <1>2 DEF Exclusive, Inside, Outside
<1>. QED  BY <1>1, <1>2, <1>3 DEF Owner

\* The same for the steps, which name the two places.
LEMMA GotoInside ==
  ASSUME Types, Exclusive, NEW t \in Threads, NEW from \in Inside, NEW to \in Inside,
         Goto(t, from, to), mutex' = mutex
  PROVE  /\ Exclusive' /\ Placed'
         /\ mutex = t /\ mutex' = t /\ pc[t] = from /\ pc'[t] = to
         /\ Owner = from /\ Owner' = to
         /\ \A u \in Threads \ {t} : pc'[u] = pc[u] /\ pc[u] \in Outside
<1>1. pc[t] = from /\ pc'[t] = to /\ \A u \in Threads \ {t} : pc'[u] = pc[u]
  BY DEF Goto, Types, Placed
<1>2. Placed'
  BY DEF Goto, Types, Placed
<1>. QED  BY <1>1, <1>2, InsideStep

-----------------------------------------------------------------------------
(* The sequences of a list.                                                *)

\* The list with e at its end.
LEMMA GrownList ==
  ASSUME NEW n \in Nat, NEW s \in [1 .. n -> Elems], NEW e \in Elems
  PROVE  /\ Grown(s, n, e) \in [1 .. n + 1 -> Elems]
         /\ \A i \in 1 .. n : Grown(s, n, e)[i] = s[i]
         /\ Grown(s, n, e)[n + 1] = e
         /\ \A f : f \in Elements(Grown(s, n, e), n + 1) <=> f \in Elements(s, n) \/ f = e
<1>1. /\ Grown(s, n, e) \in [1 .. n + 1 -> Elems]
      /\ \A i \in 1 .. n : Grown(s, n, e)[i] = s[i]
      /\ Grown(s, n, e)[n + 1] = e
  BY DEF Grown
<1>2. 1 .. n + 1 = (1 .. n) \union {n + 1}
  OBVIOUS
<1>3. \A f : f \in Elements(Grown(s, n, e), n + 1) <=> f \in Elements(s, n) \/ f = e
  BY <1>1, <1>2 DEF Elements
<1>. QED  BY <1>1, <1>3

\* The list without its first element.
LEMMA RestList ==
  ASSUME NEW n \in Nat \ {0}, NEW s \in [1 .. n -> Elems],
         \A i, j \in 1 .. n : s[i] = s[j] => i = j
  PROVE  /\ Rest(s, n) \in [1 .. n - 1 -> Elems]
         /\ \A i \in 1 .. n - 1 : Rest(s, n)[i] = s[i + 1]
         /\ \A f : f \in Elements(Rest(s, n), n - 1) <=> f \in Elements(s, n) /\ f # s[1]
         /\ s[1] \in Elements(s, n)
<1>1. /\ Rest(s, n) \in [1 .. n - 1 -> Elems]
      /\ \A i \in 1 .. n - 1 : Rest(s, n)[i] = s[i + 1]
  BY DEF Rest
<1>2. ASSUME NEW e \in Elements(Rest(s, n), n - 1)  PROVE e \in Elements(s, n) \ {s[1]}
  <2>1. PICK i \in 1 .. n - 1 : e = s[i + 1]
    BY <1>1, <1>2 DEF Elements
  <2>2. i + 1 \in 1 .. n /\ 1 \in 1 .. n /\ i + 1 # 1
    OBVIOUS
  <2>. QED  BY <2>1, <2>2 DEF Elements
<1>3. ASSUME NEW e \in Elements(s, n) \ {s[1]}  PROVE e \in Elements(Rest(s, n), n - 1)
  <2>1. PICK i \in 1 .. n : e = s[i]
    BY <1>3 DEF Elements
  <2>2. i - 1 \in 1 .. n - 1 /\ i = (i - 1) + 1
    BY <1>3, <2>1
  <2>3. Rest(s, n)[i - 1] = s[i]
    BY <1>1, <2>2
  <2>. QED  BY <2>1, <2>2, <2>3 DEF Elements
<1>4. s[1] \in Elements(s, n)
  BY DEF Elements
<1>. QED  BY <1>1, <1>2, <1>3, <1>4

\* The last element of a list is one of its elements.
LEMMA LastElement ==
  ASSUME NEW n \in Nat \ {0}, NEW s \in [1 .. n -> Elems]
  PROVE  s[n] \in Elements(s, n) /\ s[1] \in Elements(s, n) /\ s[n] \in Elems
           /\ s[1] \in Elems /\ Elements(s, n) \subseteq Elems
  BY DEF Elements

\* The elements that wait in a step of a thread that is not pending.
LEMMA PendingSame ==
  ASSUME Types, PendingReady, NEW t \in Threads, ~IsPending(t), ~IsPending(t)',
         \A u \in Threads \ {t} : pc'[u] = pc[u] /\ elem'[u] = elem[u],
         \A e \in Pending : next'[e] = next[e]
  PROVE  Pending' = Pending /\ PendingReady'
<1>1. \A u \in Threads : IsPending(u)' <=> IsPending(u)
  BY DEF IsPending
<1>2. \A u \in Threads : IsPending(u) => u # t /\ elem'[u] = elem[u] /\ elem[u] \in Pending
  BY DEF Pending
<1>3. Pending' = Pending
  BY <1>1, <1>2 DEF Pending
<1>4. PendingReady'
  BY <1>1, <1>2 DEF PendingReady
<1>. QED  BY <1>3, <1>4

-----------------------------------------------------------------------------
(* queue_add.                                                              *)

\* The new element is nobody's, whatever list is being freed meanwhile.
LEMMA AddAllocList ==
  ASSUME Inv, NEW t \in Threads, AddAlloc(t)
  PROVE  /\ Types' /\ Exclusive' /\ PendingReady' /\ Paid'
         /\ \A n \in Nat : \A s \in [1 .. n -> Elems] : List(s, n) => List(s, n)'
         /\ Owner' = Owner /\ pc[t] \in Outside
<1>1. PICK e \in Elems \ heap, x \in Items :
        /\ pc[t] = "idle" /\ pc' = [pc EXCEPT ![t] = "addLock"]
        /\ heap' = heap \union {e}
        /\ elem' = [elem EXCEPT ![t] = e]
        /\ payload' = [payload EXCEPT ![e] = x]
        /\ next' = [next EXCEPT ![e] = NULL]
        /\ UNCHANGED <<list, mutex, ret>>
  BY DEF AddAlloc, Goto
<1>2. pc[t] \in Outside /\ mutex # t
  BY <1>1, OwnerInside DEF Outside, Inv
<1>3. pc'[t] = "addLock" /\ elem'[t] = e
        /\ \A u \in Threads \ {t} : pc'[u] = pc[u] /\ elem'[u] = elem[u]
  BY <1>1 DEF Inv, Types, Placed, TypeOK
<1>4. Types'
  BY <1>1 DEF Inv, Types, Placed, TypeOK, Outside, list
<1>5. Exclusive'
  BY <1>1, <1>2, <1>3 DEF Inv, Exclusive, Inside
<1>6. mutex' = mutex /\ (mutex # NULL => pc'[mutex] = pc[mutex] /\ elem'[mutex] = elem[mutex])
  <2>1. mutex \in Threads \union {NULL}
    BY DEF Inv, Types, Placed, TypeOK
  <2>. QED  BY <1>1, <1>2, <1>3, <2>1
<1>7. Owner' = Owner /\ Popped' = Popped /\ Start' = Start
  BY <1>1, <1>6 DEF Owner, Popped, Start, list
<1>8. \A u \in Threads : IsPending(u)' <=> u = t \/ IsPending(u)
  BY <1>1, <1>3 DEF IsPending
<1>9. ~IsPending(t)
  BY <1>1 DEF IsPending
<1>10. Pending' = Pending \union {e}
  BY <1>3, <1>8, <1>9 DEF Pending
<1>11. Pending \subseteq heap
  BY DEF Inv, List, Accounted
<1>12. PendingReady'
  <2>1. \A u \in Threads : IsPending(u) => elem[u] \in heap /\ elem[u] # e
    BY <1>1, <1>11 DEF Pending
  <2>2. \A f \in Elems : next'[f] = IF f = e THEN NULL ELSE next[f]
    BY <1>1 DEF Inv, Types, Placed, TypeOK
  <2>. QED  BY <1>3, <1>8, <1>9, <2>1, <2>2 DEF Inv, PendingReady
<1>13. Paid'
  <2>1. \A f \in Elems : payload'[f] = IF f = e THEN x ELSE payload[f]
    BY <1>1 DEF Inv, Types, Placed, TypeOK
  <2>. QED  BY <1>1, <2>1 DEF Inv, Paid, Types, Placed, TypeOK
<1>14. ASSUME NEW n \in Nat, NEW s \in [1 .. n -> Elems], List(s, n)
       PROVE  List(s, n)'
  <2>1. e \notin Elements(s, n) /\ e \notin Popped
    BY <1>1, <1>14 DEF List, Accounted
  <2>2. \A i \in 1 .. n : s[i] \in Elems /\ s[i] # e /\ next'[s[i]] = next[s[i]]
    BY <1>1, <2>1 DEF Elements, Inv, Types, Placed, TypeOK
  <2>3. Leads(s, n)'
    BY <1>7, <1>14, <2>2 DEF List, Leads
  <2>4. Accounted(s, n)'
    BY <1>1, <1>7, <1>10, <1>14, <2>1 DEF List, Accounted, Elements
  <2>5. Sized(n)'
    BY <1>1, <1>7, <1>14 DEF List, Sized, list
  <2>6. Owner = "none" <=> mutex = NULL
    BY OwnerInside DEF Inv
  <2>7. Ended(s, n)'
    BY <1>1, <1>6, <1>7, <1>14, <2>6 DEF List, Ended, list
  <2>. QED  BY <2>3, <2>4, <2>5, <2>7 DEF List
<1>. QED  BY <1>2, <1>4, <1>5, <1>7, <1>12, <1>13, <1>14

\* Taking the mutex is not yet changing anything, whatever it is taken for.
LEMMA LockSteps ==
  ASSUME Inv, NEW t \in Threads, AddLock(t) \/ NextLock(t) \/ ClearLock(t)
  PROVE  /\ Types' /\ Exclusive' /\ PendingReady' /\ Paid'
         /\ \A n \in Nat : \A s \in [1 .. n -> Elems] : List(s, n) => List(s, n)'
         /\ Owner = "none"
         /\ Owner' = IF pc[t] = "addLock" THEN "addLink" ELSE pc'[t]
         /\ pc'[t] \in {"addLink", "nextTest", "clear"}
         /\ ClearLock(t) => Owner' = "clear"
<1>1. /\ mutex = NULL /\ mutex' = t
      /\ UNCHANGED <<list, fields, heap, ret>>
      /\ pc' = [pc EXCEPT ![t] = pc'[t]]
      /\ \/ pc[t] = "addLock" /\ pc'[t] = "addLink" /\ elem' = elem
         \/ pc[t] = "idle" /\ pc'[t] = "nextTest" /\ elem' = elem
         \/ pc[t] = "idle" /\ pc'[t] = "clear" /\ elem' = [elem EXCEPT ![t] = first]
  BY DEF AddLock, NextLock, ClearLock, Goto, Lock, Inv, Types, Placed
<1>2. Owner = "none" /\ Owner' = pc'[t]
  BY <1>1, NullAssumption DEF Owner
<1>3. \A u \in Threads \ {t} : pc'[u] = pc[u] /\ elem'[u] = elem[u]
  BY <1>1 DEF Inv, Types, Placed, TypeOK
<1>4. Types'
  BY <1>1 DEF Inv, Types, Placed, TypeOK, Inside, list, fields
<1>5. Exclusive'
  <2>1. \A u \in Threads : pc[u] \notin Inside
    BY <1>1, NullAssumption DEF Inv, Exclusive
  <2>. QED  BY <1>1, <1>3, <2>1 DEF Exclusive, Inside
<1>6. Pending' = Pending /\ PendingReady'
  <2>1. \A u \in Threads : IsPending(u)' <=> IsPending(u)
    BY <1>1, <1>3 DEF IsPending
  <2>2. \A u \in Threads : IsPending(u) => elem'[u] = elem[u]
    BY <1>1, <1>3 DEF IsPending
  <2>3. Pending' = Pending
    BY <2>1, <2>2 DEF Pending
  <2>4. PendingReady'
    BY <1>1, <2>1, <2>2 DEF Inv, PendingReady, fields
  <2>. QED  BY <2>3, <2>4
<1>7. Paid'
  BY <1>1 DEF Inv, Paid, fields
<1>8. Popped = {} /\ Popped' = {}
  BY <1>1, <1>2 DEF Popped
<1>9. Start = first /\ Start' = first
  <2>1. Start = first
    BY <1>2 DEF Start
  <2>2. CASE pc'[t] = "clear"
    BY <1>1, <1>2, <2>2 DEF Start, Inv, Types, Placed, TypeOK
  <2>3. CASE pc'[t] # "clear"
    BY <1>1, <1>2, <2>3 DEF Start, list
  <2>. QED  BY <2>1, <2>2, <2>3
<1>10. ASSUME NEW n \in Nat, NEW s \in [1 .. n -> Elems], List(s, n)
       PROVE  List(s, n)'
  <2>1. Leads(s, n)'
    BY <1>1, <1>9, <1>10 DEF List, Leads, fields
  <2>2. Accounted(s, n)'
    BY <1>1, <1>6, <1>8, <1>10 DEF List, Accounted, Elements
  <2>3. Sized(n)' /\ Ended(s, n)'
    BY <1>1, <1>2, <1>10 DEF List, Sized, Ended, list
  <2>. QED  BY <2>1, <2>2, <2>3 DEF List
<1>11. ClearLock(t) => pc'[t] = "clear"
  BY DEF ClearLock, Goto, Inv, Types, Placed
<1>. QED  BY <1>1, <1>2, <1>4, <1>5, <1>6, <1>7, <1>10, <1>11

\* The new element becomes the last of the list.
LEMMA AddLinkList ==
  ASSUME Inv, NEW t \in Threads, AddLink(t), NEW e \in Elems, e = elem[t]
  PROVE  /\ Types' /\ Exclusive' /\ PendingReady' /\ Paid'
         /\ \A n \in Nat : \A s \in [1 .. n -> Elems] :
              List(s, n) => List(Grown(s, n, e), n + 1)'
         /\ Owner = "addLink" /\ Owner' = "addLast"
<1>1. /\ pc[t] = "addLink" /\ pc' = [pc EXCEPT ![t] = "addLast"]
      /\ IF first = NULL
           THEN first' = e /\ UNCHANGED next
           ELSE next' = [next EXCEPT ![last] = e] /\ UNCHANGED first
      /\ UNCHANGED <<last, size, mutex, payload, heap, elem, ret>>
  BY DEF AddLink, Goto
<1>2. /\ Exclusive' /\ Placed' /\ pc'[t] = "addLast"
      /\ mutex = t /\ mutex' = t /\ Owner = "addLink" /\ Owner' = "addLast"
      /\ \A u \in Threads \ {t} : pc'[u] = pc[u] /\ pc[u] \in Outside
  <2>1. Types /\ Exclusive /\ mutex' = mutex /\ Goto(t, "addLink", "addLast")
    BY DEF Inv, AddLink
  <2>2. "addLink" \in Inside /\ "addLast" \in Inside
    BY DEF Inside
  <2>. QED  BY <2>1, <2>2, GotoInside
<1>3. IsPending(t) /\ ~IsPending(t)' /\ \A u \in Threads \ {t} : IsPending(u)' <=> IsPending(u)
  BY <1>1, <1>2 DEF IsPending, Inv, Types, Placed
<1>4. next[e] = NULL /\ e \in Pending
  BY <1>3 DEF Inv, PendingReady, Pending
<1>5. Pending' = Pending \ {e}
  BY <1>1, <1>3 DEF Pending, Inv, PendingReady
<1>6. Types'
  <2>1. TypeOK
    BY DEF Inv, Types, Placed
  <2>2. /\ {first', last'} \subseteq Elems \union {NULL}
        /\ next' \in [Elems -> Elems \union {NULL}]
    BY <1>1, <2>1 DEF TypeOK
  <2>. QED  BY <1>1, <1>2, <2>1, <2>2 DEF Types, TypeOK
<1>7. Paid'
  BY <1>1 DEF Inv, Paid
<1>8. ASSUME NEW n \in Nat, NEW s \in [1 .. n -> Elems], List(s, n)
      PROVE  List(Grown(s, n, e), n + 1)' /\ PendingReady'
  <2>1. (first = NULL <=> n = 0) /\ (n > 0 => last = s[n])
    <3>1. n > 0 => s[1] \in Elems /\ s[1] # NULL
      BY NullAssumption
    <3>. QED  BY <1>2, <1>8, <3>1 DEF List, Leads, Start, Ended
  <2>2. e \notin Elements(s, n)
    BY <1>4, <1>8 DEF List, Accounted
  <2>3. \A f \in Elems : next'[f] = IF n > 0 /\ f = s[n] THEN e ELSE next[f]
    BY <1>1, <2>1 DEF Inv, Types, Placed, TypeOK
  <2>4. \A f \in Pending : f \in Elems => next'[f] = next[f]
    <3>1. n > 0 => s[n] \notin Pending
      BY <1>8, LastElement DEF List, Accounted
    <3>. QED  BY <2>3, <3>1
  <2>5. PendingReady'
    <3>1. \A u \in Threads : IsPending(u) => elem[u] \in Pending
      BY DEF Pending
    <3>. QED  BY <1>1, <1>3, <2>4, <3>1 DEF Inv, PendingReady
  <2>. DEFINE g == Grown(s, n, e)
  <2>. HIDE DEF g
  <2>6. /\ g \in [1 .. n + 1 -> Elems]
        /\ \A i \in 1 .. n : g[i] = s[i]
        /\ g[n + 1] = e
        /\ \A f : f \in Elements(g, n + 1) <=> f \in Elements(s, n) \/ f = e
    BY GrownList DEF g
  <2>7. Leads(g, n + 1)'
    <3>1. Start' = g[1]
      <4>1. Start' = first'
        BY <1>2 DEF Start
      <4>2. n = 0 => first' = g[1]
        BY <1>1, <2>1, <2>6
      <4>3. n > 0 => first' = g[1]
        BY <1>1, <1>2, <1>8, <2>1, <2>6 DEF List, Leads, Start
      <4>. QED  BY <4>1, <4>2, <4>3
    <3>2. \A i \in 1 .. n : next'[g[i]] = g[i + 1]
      <4>1. \A i \in 1 .. n : s[i] = s[n] => i = n
        BY <1>8 DEF List, Leads
      <4>. QED  BY <1>8, <2>3, <2>6, <4>1 DEF List, Leads
    <3>3. next'[g[n + 1]] = NULL
      BY <1>4, <2>4, <2>6
    <3>4. \A i, j \in 1 .. n + 1 : g[i] = g[j] => i = j
      BY <1>8, <2>2, <2>6 DEF List, Leads, Elements
    <3>. QED  BY <3>1, <3>2, <3>3, <3>4 DEF Leads
  <2>8. Accounted(g, n + 1)'
    <3>1. Popped = {} /\ Popped' = {}
      BY <1>2 DEF Popped
    <3>. QED  BY <1>1, <1>4, <1>5, <1>8, <2>2, <2>6, <3>1 DEF List, Accounted
  <2>9. Sized(n + 1)'
    BY <1>1, <1>2, <1>8 DEF List, Sized, Inv, Types, Placed, TypeOK
  <2>10. Ended(g, n + 1)'
    BY <1>1, <1>2, <2>6 DEF Ended
  <2>. QED  BY <2>5, <2>7, <2>8, <2>9, <2>10 DEF List, g
<1>9. PendingReady'
  BY <1>8 DEF Inv
<1>. QED  BY <1>2, <1>4, <1>6, <1>7, <1>8, <1>9

-----------------------------------------------------------------------------
(* Steps of the owner that leave the elements linked as they are.          *)

\* In such a step nothing changes for the threads that are pending.
LEMMA OwnerStep ==
  ASSUME Inv, NEW t \in Threads, NEW from \in Inside \ {"addLink"},
         NEW to \in Inside \ {"addLink"}, Goto(t, from, to), mutex' = mutex,
         next' = next, \A u \in Threads \ {t} : elem'[u] = elem[u]
  PROVE  /\ Exclusive' /\ Placed' /\ PendingReady' /\ Pending' = Pending
         /\ mutex = t /\ mutex' = t /\ Owner = from /\ Owner' = to
<1>1. Types /\ Exclusive
  BY DEF Inv
<1>2. /\ Exclusive' /\ Placed'
      /\ mutex = t /\ mutex' = t /\ pc[t] = from /\ pc'[t] = to
      /\ Owner = from /\ Owner' = to
      /\ \A u \in Threads \ {t} : pc'[u] = pc[u] /\ pc[u] \in Outside
  BY <1>1, GotoInside
<1>3. ~IsPending(t) /\ ~IsPending(t)'
  BY <1>2 DEF IsPending, Inside
<1>4. Pending' = Pending /\ PendingReady'
  <2>1. PendingReady
    BY DEF Inv
  <2>. QED  BY <1>1, <1>2, <1>3, <2>1, PendingSame
<1>. QED  BY <1>2, <1>4

\* queue_add goes on: last, and then size, catch up with the list.
LEMMA AddOnList ==
  ASSUME Inv, NEW t \in Threads, AddLast(t) \/ AddSize(t)
  PROVE  /\ Types' /\ Exclusive' /\ PendingReady' /\ Paid'
         /\ \A n \in Nat : \A s \in [1 .. n -> Elems] : List(s, n) => List(s, n)'
         /\ Owner = pc[t] /\ Owner' = pc'[t]
<1>1. PICK from, to :
        /\ Goto(t, from, to)
        /\ \/ from = "addLast" /\ to = "addSize" /\ AddLast(t)
           \/ from = "addSize" /\ to = "unlock" /\ AddSize(t)
  BY DEF AddLast, AddSize
<1>2. UNCHANGED <<first, mutex, next, payload, heap, ret>>
        /\ \A u \in Threads \ {t} : elem'[u] = elem[u]
  BY DEF AddLast, AddSize, fields, Inv, Types, TypeOK
<1>3. from \in Inside \ {"addLink"} /\ to \in Inside \ {"addLink"}
  BY <1>1 DEF Inside
<1>4. /\ Exclusive' /\ Placed' /\ PendingReady' /\ Pending' = Pending
      /\ mutex = t /\ mutex' = t /\ Owner = from /\ Owner' = to
  BY <1>1, <1>2, <1>3, OwnerStep
<1>5. Types'
  <2>1. TypeOK
    BY DEF Inv, Types
  <2>2. TypeOK'
    BY <1>2, <2>1 DEF AddLast, AddSize, TypeOK
  <2>. QED  BY <1>4, <2>2 DEF Types
<1>6. Paid'
  BY <1>2 DEF Inv, Paid
<1>7. Popped = {} /\ Popped' = {} /\ Start = first /\ Start' = first
  BY <1>1, <1>2, <1>4 DEF Popped, Start
<1>8. ASSUME NEW n \in Nat, NEW s \in [1 .. n -> Elems], List(s, n)
      PROVE  List(s, n)'
  <2>1. Leads(s, n)'
    BY <1>2, <1>7, <1>8 DEF List, Leads
  <2>2. Accounted(s, n)'
    BY <1>2, <1>4, <1>7, <1>8 DEF List, Accounted, Elements
  <2>3. Sized(n)'
    BY <1>1, <1>4, <1>8 DEF List, Sized, AddLast, AddSize, Inv, Types, TypeOK
  <2>4. Ended(s, n)'
    BY <1>1, <1>4, <1>8 DEF List, Ended, AddLast, AddSize
  <2>. QED  BY <2>1, <2>2, <2>3, <2>4 DEF List
<1>9. pc[t] = from /\ pc'[t] = to
  BY <1>1 DEF Goto, Inv, Types, Placed
<1>. QED  BY <1>4, <1>5, <1>6, <1>8, <1>9

\* queue_next finds too little, or puts last right; queue_clear puts size,
\* first and last right after its last free().
LEMMA SettleList ==
  ASSUME Inv, NEW t \in Threads,
         NextNone(t) \/ NextLast(t) \/ ClearSize(t) \/ ClearFirst(t)
  PROVE  /\ Types' /\ Exclusive' /\ PendingReady' /\ Paid'
         /\ \A n \in Nat : \A s \in [1 .. n -> Elems] : List(s, n) => List(s, n)'
         /\ Owner = pc[t] /\ Owner' = pc'[t]
<1>1. PICK from, to :
        /\ Goto(t, from, to)
        /\ \/ from = "nextTest" /\ to = "unlock" /\ NextNone(t)
           \/ from = "nextLast" /\ to = "unlock" /\ NextLast(t)
           \/ from = "clear" /\ to = "clearFirst" /\ ClearSize(t)
           \/ from = "clearFirst" /\ to = "unlock" /\ ClearFirst(t)
  BY DEF NextNone, NextLast, ClearSize, ClearFirst
<1>2. UNCHANGED <<mutex, next, payload, heap, elem>>
  BY DEF NextNone, NextLast, ClearSize, ClearFirst, fields
<1>3. from \in Inside \ {"addLink"} /\ to \in Inside \ {"addLink"}
  BY <1>1 DEF Inside
<1>4. /\ Exclusive' /\ Placed' /\ PendingReady' /\ Pending' = Pending
      /\ mutex = t /\ mutex' = t /\ Owner = from /\ Owner' = to
  BY <1>1, <1>2, <1>3, OwnerStep
<1>5. Types'
  <2>1. TypeOK
    BY DEF Inv, Types
  <2>2. TypeOK'
    BY <1>2, <2>1 DEF NextNone, NextLast, ClearSize, ClearFirst, list, TypeOK
  <2>. QED  BY <1>4, <2>2 DEF Types
<1>6. Paid'
  BY <1>2 DEF Inv, Paid
<1>7. Popped = {} /\ Popped' = {}
  BY <1>1, <1>4 DEF Popped
<1>8. ASSUME NEW n \in Nat, NEW s \in [1 .. n -> Elems], List(s, n)
      PROVE  List(s, n)'
  <2>1. Start = NULL => n = 0
    BY <1>8, NullAssumption DEF List, Leads
  <2>2. Start' = Start
    <3>1. CASE NextNone(t) \/ NextLast(t)
      BY <1>1, <1>4, <3>1 DEF Start, NextNone, NextLast, ClearSize, ClearFirst, list
    <3>2. CASE ClearSize(t)
      BY <1>1, <1>4, <3>2 DEF Start, NextNone, NextLast, ClearSize, ClearFirst, Goto
    <3>3. CASE ClearFirst(t)
      BY <1>1, <1>4, <3>3 DEF Start, NextNone, NextLast, ClearSize, ClearFirst, Goto
    <3>. QED  BY <1>1, <3>1, <3>2, <3>3
  <2>3. Leads(s, n)'
    BY <1>2, <1>8, <2>2 DEF List, Leads
  <2>4. Accounted(s, n)'
    BY <1>2, <1>4, <1>7, <1>8 DEF List, Accounted, Elements
  <2>5. Sized(n)' /\ Ended(s, n)'
    <3>1. CASE from = "nextTest" /\ to = "unlock" /\ NextNone(t)
      BY <1>4, <1>8, <3>1 DEF List, Sized, Ended, NextNone, list
    <3>2. CASE from = "nextLast" /\ to = "unlock" /\ NextLast(t)
      <4>1. Start = first
        BY <1>4, <3>2 DEF Start
      <4>2. first = NULL <=> n = 0
        BY <1>8, <2>1, <4>1, NullAssumption DEF List, Leads
      <4>. QED  BY <1>4, <1>8, <3>2, <4>2 DEF List, Sized, Ended, NextLast
    <3>3. CASE from = "clear" /\ to = "clearFirst" /\ ClearSize(t)
      BY <1>4, <1>8, <3>3 DEF List, Sized, Ended, ClearSize
    <3>4. CASE from = "clearFirst" /\ to = "unlock" /\ ClearFirst(t)
      <4>1. n = 0
        BY <1>4, <2>1, <3>4 DEF Start
      <4>. QED  BY <1>4, <1>8, <3>4, <4>1 DEF List, Sized, Ended, ClearFirst
    <3>. QED  BY <1>1, <3>1, <3>2, <3>3, <3>4
  <2>. QED  BY <2>3, <2>4, <2>5 DEF List
<1>9. pc[t] = from /\ pc'[t] = to
  BY <1>1 DEF Goto, Inv, Types, Placed
<1>. QED  BY <1>4, <1>5, <1>6, <1>8, <1>9

\* queue_next frees what it has taken out, after it has read the payload.
LEMMA NextFreeList ==
  ASSUME Inv, NEW t \in Threads, NextFree(t)
  PROVE  /\ Types' /\ Exclusive' /\ PendingReady' /\ Paid'
         /\ \A n \in Nat : \A s \in [1 .. n -> Elems] : List(s, n) => List(s, n)'
         /\ mutex = t /\ Owner = "nextFree" /\ Owner' = "nextLast"
         /\ elem[t] \in Elems /\ payload[elem[t]] \in Items
<1>1. /\ Goto(t, "nextFree", "nextLast")
      /\ heap' = heap \ {elem[t]}
      /\ elem' = [elem EXCEPT ![t] = NULL]
      /\ ret' = [ret EXCEPT ![t] = payload[elem[t]]]
      /\ size' = size - 1
      /\ UNCHANGED <<first, last, mutex, next, payload>>
  BY DEF NextFree, fields
<1>2. /\ Exclusive' /\ Placed' /\ PendingReady' /\ Pending' = Pending
      /\ mutex = t /\ mutex' = t /\ Owner = "nextFree" /\ Owner' = "nextLast"
  <2>1. \A u \in Threads \ {t} : elem'[u] = elem[u]
    BY <1>1 DEF Inv, Types, TypeOK
  <2>2. "nextFree" \in Inside \ {"addLink"} /\ "nextLast" \in Inside \ {"addLink"}
    BY DEF Inside
  <2>. QED  BY <1>1, <2>1, <2>2, OwnerStep
<1>3. Popped = {elem[t]} /\ Popped' = {}
  BY <1>2 DEF Popped
<1>4. PICK m \in Nat : \E r \in [1 .. m -> Elems] : List(r, m)
  BY DEF Inv
<1>5. elem[t] \in heap /\ elem[t] \in Elems /\ payload[elem[t]] \in Items /\ size \in Nat \ {0}
  BY <1>2, <1>3, <1>4 DEF List, Accounted, Sized, Inv, Paid, Types, TypeOK
<1>6. Types'
  <2>1. TypeOK
    BY DEF Inv, Types
  <2>2. TypeOK'
    BY <1>1, <1>5, <2>1 DEF TypeOK
  <2>. QED  BY <1>2, <2>2 DEF Types
<1>7. Paid'
  BY <1>1 DEF Inv, Paid
<1>8. ASSUME NEW n \in Nat, NEW s \in [1 .. n -> Elems], List(s, n)
      PROVE  List(s, n)'
  <2>1. Start = first /\ Start' = first
    BY <1>1, <1>2 DEF Start
  <2>2. Leads(s, n)'
    BY <1>1, <1>8, <2>1 DEF List, Leads
  <2>3. Accounted(s, n)'
    BY <1>1, <1>2, <1>3, <1>8 DEF List, Accounted, Elements
  <2>4. Sized(n)' /\ Ended(s, n)'
    BY <1>1, <1>2, <1>8 DEF List, Sized, Ended
  <2>. QED  BY <2>2, <2>3, <2>4 DEF List
<1>. QED  BY <1>2, <1>5, <1>6, <1>7, <1>8

\* The mutex is given back.
LEMMA ReturnList ==
  ASSUME Inv, NEW t \in Threads, Return(t)
  PROVE  /\ Types' /\ Exclusive' /\ PendingReady' /\ Paid'
         /\ \A n \in Nat : \A s \in [1 .. n -> Elems] : List(s, n) => List(s, n)'
         /\ Owner = "unlock" /\ Owner' = "none"
<1>1. /\ pc[t] = "unlock" /\ pc' = [pc EXCEPT ![t] = "idle"] /\ mutex' = NULL
      /\ UNCHANGED <<list, fields, heap, elem, ret>>
  BY DEF Return, Goto, Unlock
<1>2. mutex = t /\ Owner = "unlock" /\ Owner' = "none"
  <2>1. pc[t] \in Inside
    BY <1>1 DEF Inside
  <2>. QED  BY <1>1, <2>1, OwnerInside DEF Inv, Owner
<1>3. pc'[t] = "idle" /\ \A u \in Threads \ {t} : pc'[u] = pc[u]
  BY <1>1 DEF Inv, Types, Placed
<1>4. Types'
  <2>1. Placed'
    BY <1>1 DEF Inv, Types, Placed, Outside
  <2>2. TypeOK'
    BY <1>1 DEF Inv, Types, TypeOK, list, fields
  <2>. QED  BY <2>1, <2>2 DEF Types
<1>5. Exclusive'
  BY <1>1, <1>2, <1>3, NullAssumption DEF Inv, Exclusive, Inside
<1>6. Pending' = Pending /\ PendingReady'
  <2>1. ~IsPending(t) /\ ~IsPending(t)'
    BY <1>1, <1>3 DEF IsPending
  <2>. QED  BY <1>1, <1>3, <2>1, PendingSame DEF Inv, fields
<1>7. Paid'
  BY <1>1 DEF Inv, Paid, fields
<1>8. ASSUME NEW n \in Nat, NEW s \in [1 .. n -> Elems], List(s, n)
      PROVE  List(s, n)'
  <2>1. Start = first /\ Start' = first /\ Popped = {} /\ Popped' = {}
    BY <1>1, <1>2 DEF Start, Popped, list
  <2>2. Leads(s, n)'
    BY <1>1, <1>8, <2>1 DEF List, Leads, fields
  <2>3. Accounted(s, n)'
    BY <1>1, <1>6, <1>8, <2>1 DEF List, Accounted, Elements
  <2>4. Sized(n)' /\ Ended(s, n)'
    BY <1>1, <1>2, <1>8 DEF List, Sized, Ended, list
  <2>. QED  BY <2>2, <2>3, <2>4 DEF List
<1>. QED  BY <1>2, <1>4, <1>5, <1>6, <1>7, <1>8

-----------------------------------------------------------------------------
(* Steps that take the first element.                                      *)

\* What leads along s leads from its second element along the rest.
LEMMA RestLeads ==
  ASSUME NEW n \in Nat \ {0}, NEW s \in [1 .. n -> Elems], Leads(s, n),
         next' = next, Start' = next[s[1]]
  PROVE  Leads(Rest(s, n), n - 1)'
<1>. DEFINE r == Rest(s, n)
<1>0. \A i, j \in 1 .. n : s[i] = s[j] => i = j
  BY DEF Leads
<1>1. r \in [1 .. n - 1 -> Elems] /\ \A i \in 1 .. n - 1 : r[i] = s[i + 1]
  BY <1>0, RestList
<1>. HIDE DEF r
<1>2. Start' = IF n - 1 = 0 THEN NULL ELSE r[1]
  BY <1>1 DEF Leads
<1>3. ASSUME NEW i \in 1 .. n - 1
      PROVE  next'[r[i]] = IF i = n - 1 THEN NULL ELSE r[i + 1]
  <2>1. i + 1 \in 1 .. n /\ r[i] = s[i + 1]
    BY <1>1
  <2>2. next[s[i + 1]] = IF i + 1 = n THEN NULL ELSE s[(i + 1) + 1]
    BY <2>1 DEF Leads
  <2>3. i # n - 1 => i + 1 \in 1 .. n - 1 /\ r[i + 1] = s[(i + 1) + 1]
    BY <1>1
  <2>. QED  BY <2>1, <2>2, <2>3
<1>4. \A i, j \in 1 .. n - 1 : r[i] = r[j] => i = j
  BY <1>1 DEF Leads
<1>5. Leads(r, n - 1)'
  BY <1>2, <1>3, <1>4 DEF Leads
<1>. QED  BY <1>5 DEF r

\* queue_next takes the first element out.
LEMMA NextPopList ==
  ASSUME Inv, NEW t \in Threads, NextPop(t)
  PROVE  /\ Types' /\ Exclusive' /\ PendingReady' /\ Paid'
         /\ \A n \in Nat : \A s \in [1 .. n -> Elems] :
              List(s, n) => n > 0 /\ elem'[t] = s[1] /\ List(Rest(s, n), n - 1)'
         /\ mutex' = t /\ Owner = "nextTest" /\ Owner' = "nextFree"
<1>1. /\ Goto(t, "nextTest", "nextFree")
      /\ size > Backbuffer
      /\ elem' = [elem EXCEPT ![t] = first]
      /\ first' = next[first]
      /\ UNCHANGED <<last, size, mutex, next, payload, heap, ret>>
  BY DEF NextPop, fields
<1>2. /\ Exclusive' /\ Placed' /\ PendingReady' /\ Pending' = Pending
      /\ mutex = t /\ mutex' = t /\ Owner = "nextTest" /\ Owner' = "nextFree"
  <2>1. \A u \in Threads \ {t} : elem'[u] = elem[u]
    BY <1>1 DEF Inv, Types, TypeOK
  <2>2. "nextTest" \in Inside \ {"addLink"} /\ "nextFree" \in Inside \ {"addLink"}
    BY DEF Inside
  <2>. QED  BY <1>1, <2>1, <2>2, OwnerStep
<1>3. TypeOK
  BY DEF Inv, Types
<1>4. elem'[t] = first
  BY <1>1, <1>3 DEF TypeOK
<1>5. Start = first /\ Start' = next[first] /\ Popped = {} /\ Popped' = {first}
  BY <1>1, <1>2, <1>4 DEF Start, Popped
<1>6. ASSUME NEW n \in Nat, NEW s \in [1 .. n -> Elems], List(s, n)
      PROVE  n > 0 /\ first = s[1] /\ s[1] \in Elems /\ List(Rest(s, n), n - 1)'
  <2>1. size = n /\ n > 0
    BY <1>1, <1>2, <1>6, SizesAssumption DEF List, Sized
  <2>2. first = s[1] /\ s[1] \in Elems
    BY <1>5, <1>6, <2>1 DEF List, Leads
  <2>. DEFINE r == Rest(s, n)
  <2>3. /\ \A i \in 1 .. n - 1 : r[i] = s[i + 1]
        /\ \A f : f \in Elements(r, n - 1) <=> f \in Elements(s, n) /\ f # s[1]
        /\ s[1] \in Elements(s, n)
    <3>1. n \in Nat \ {0} /\ \A i, j \in 1 .. n : s[i] = s[j] => i = j
      BY <1>6, <2>1 DEF List, Leads
    <3>. QED  BY <1>6, <3>1, RestList
  <2>4. Leads(r, n - 1)'
    BY <1>1, <1>5, <1>6, <2>1, <2>2, RestLeads DEF List
  <2>. HIDE DEF r
  <2>5. Accounted(r, n - 1)'
    <3>1. \A f : f \in Elements(r, n - 1)' <=> f \in Elements(r, n - 1)
      BY DEF Elements
    <3>. QED  BY <1>1, <1>2, <1>5, <1>6, <2>2, <2>3, <3>1 DEF List, Accounted
  <2>6. Sized(n - 1)'
    BY <1>1, <1>2, <2>1 DEF Sized
  <2>7. Ended(r, n - 1)'
    <3>1. last = s[n]
      BY <1>2, <1>6, <2>1 DEF List, Ended
    <3>2. n - 1 > 0 => r[n - 1] = s[n]
      BY <2>1, <2>3
    <3>. QED  BY <1>1, <1>2, <3>1, <3>2 DEF Ended
  <2>8. List(r, n - 1)'
    BY <2>4, <2>5, <2>6, <2>7 DEF List
  <2>. QED  BY <2>1, <2>2, <2>8 DEF r
<1>7. first \in Elems
  BY <1>6 DEF Inv
<1>8. Types'
  <2>1. TypeOK'
    BY <1>1, <1>3, <1>7 DEF TypeOK
  <2>. QED  BY <1>2, <2>1 DEF Types
<1>9. Paid'
  BY <1>1 DEF Inv, Paid
<1>. QED  BY <1>2, <1>4, <1>6, <1>8, <1>9

\* queue_clear frees the first of those that are left.
LEMMA ClearFreeList ==
  ASSUME Inv, NEW t \in Threads, ClearFree(t)
  PROVE  /\ Types' /\ Exclusive' /\ PendingReady' /\ Paid'
         /\ \A n \in Nat : \A s \in [1 .. n -> Elems] :
              List(s, n) => n > 0 /\ List(Rest(s, n), n - 1)'
         /\ Owner = "clear" /\ Owner' = "clear"
<1>1. /\ pc[t] = "clear" /\ elem[t] # NULL
      /\ elem' = [elem EXCEPT ![t] = next[elem[t]]]
      /\ heap' = heap \ {elem[t]}
      /\ UNCHANGED <<first, last, size, mutex, next, payload, pc, ret>>
  BY DEF ClearFree, fields, list
<1>2. Types /\ Exclusive /\ TypeOK
  BY DEF Inv, Types
<1>3. mutex = t /\ mutex' = t /\ Owner = "clear" /\ Owner' = "clear"
        /\ Exclusive' /\ Placed'
  <2>1. pc[t] \in Inside
    BY <1>1 DEF Inside
  <2>2. mutex = t /\ Owner = "clear"
    BY <1>1, <1>2, <2>1, OwnerInside
  <2>. QED  BY <1>1, <1>2, <2>2 DEF Owner, Exclusive, Types, Placed
<1>4. Pending' = Pending /\ PendingReady'
  <2>1. ~IsPending(t) /\ ~IsPending(t)'
    BY <1>1 DEF IsPending
  <2>2. \A u \in Threads \ {t} : elem'[u] = elem[u]
    BY <1>1, <1>2 DEF TypeOK
  <2>3. PendingReady
    BY DEF Inv
  <2>. QED  BY <1>1, <1>2, <2>1, <2>2, <2>3, PendingSame
<1>5. elem'[t] = next[elem[t]]
  BY <1>1, <1>2 DEF TypeOK
<1>6. Start = elem[t] /\ Start' = next[elem[t]] /\ Popped = {} /\ Popped' = {}
  BY <1>3, <1>5 DEF Start, Popped
<1>7. ASSUME NEW n \in Nat, NEW s \in [1 .. n -> Elems], List(s, n)
      PROVE  n > 0 /\ elem[t] = s[1] /\ s[1] \in Elems /\ List(Rest(s, n), n - 1)'
  <2>1. n > 0 /\ elem[t] = s[1]
    BY <1>1, <1>6, <1>7 DEF List, Leads
  <2>2. s[1] \in Elems
    BY <2>1
  <2>. DEFINE r == Rest(s, n)
  <2>3. /\ \A f : f \in Elements(r, n - 1) <=> f \in Elements(s, n) /\ f # s[1]
        /\ s[1] \in Elements(s, n)
    <3>1. n \in Nat \ {0} /\ \A i, j \in 1 .. n : s[i] = s[j] => i = j
      BY <1>7, <2>1 DEF List, Leads
    <3>. QED  BY <3>1, RestList
  <2>4. Leads(r, n - 1)'
    BY <1>1, <1>6, <1>7, <2>1, RestLeads DEF List
  <2>. HIDE DEF r
  <2>5. Accounted(r, n - 1)'
    <3>1. \A f : f \in Elements(r, n - 1)' <=> f \in Elements(r, n - 1)
      BY DEF Elements
    <3>. QED  BY <1>1, <1>4, <1>6, <1>7, <2>1, <2>3, <3>1 DEF List, Accounted
  <2>6. Sized(n - 1)' /\ Ended(r, n - 1)'
    BY <1>3 DEF Sized, Ended
  <2>7. List(r, n - 1)'
    BY <2>4, <2>5, <2>6 DEF List
  <2>. QED  BY <2>1, <2>2, <2>7 DEF r
<1>8. elem[t] \in Elems
  BY <1>7 DEF Inv
<1>9. Types'
  <2>1. TypeOK'
    BY <1>1, <1>2, <1>8 DEF TypeOK
  <2>. QED  BY <1>3, <2>1 DEF Types
<1>10. Paid'
  BY <1>1 DEF Inv, Paid
<1>. QED  BY <1>3, <1>4, <1>7, <1>9, <1>10

-----------------------------------------------------------------------------
(* The invariant.                                                          *)

\* An empty list to begin with.
LEMMA InitInv ==
  ASSUME Init
  PROVE  Inv
<1>1. Types
  BY SizesAssumption, NullAssumption DEF Init, Types, Placed, TypeOK, Outside
<1>2. Exclusive
  BY NullAssumption DEF Init, Exclusive, Inside
<1>3. Pending = {} /\ PendingReady
  BY DEF Init, Pending, PendingReady, IsPending
<1>4. Paid
  BY DEF Init, Paid
<1>5. Owner = "none" /\ Popped = {} /\ Start = NULL
  BY DEF Init, Owner, Popped, Start
<1>6. \A s \in [1 .. 0 -> Elems] : List(s, 0)
  BY <1>3, <1>5 DEF Init, List, Leads, Accounted, Elements, Sized, Ended
<1>7. [i \in 1 .. 0 |-> NULL] \in [1 .. 0 -> Elems]
  OBVIOUS
<1>. QED  BY <1>1, <1>2, <1>3, <1>4, <1>6, <1>7 DEF Inv

\* Every step keeps the list, or makes it one longer or one shorter.
LEMMA NextInv ==
  ASSUME Inv, [Next]_vars
  PROVE  Inv'
<1>1. PICK n \in Nat : \E s \in [1 .. n -> Elems] : List(s, n)
  BY DEF Inv
<1>2. PICK s \in [1 .. n -> Elems] : List(s, n)
  BY <1>1
<1>3. ASSUME NEW t \in Threads, AddLink(t)  PROVE Inv'
  <2>1. elem[t] \in Elems
    BY <1>3 DEF AddLink, Goto, IsPending, Inv, PendingReady
  <2>2. PICK e \in Elems : e = elem[t]
    BY <2>1
  <2>3. Types' /\ Exclusive' /\ PendingReady' /\ Paid' /\ List(Grown(s, n, e), n + 1)'
    BY <1>2, <1>3, <2>2, AddLinkList
  <2>4. Grown(s, n, e) \in [1 .. n + 1 -> Elems] /\ n + 1 \in Nat
    BY GrownList
  <2>. QED  BY <2>3, <2>4 DEF Inv
<1>4. ASSUME NEW t \in Threads, NextPop(t) \/ ClearFree(t)  PROVE Inv'
  <2>1. /\ Types' /\ Exclusive' /\ PendingReady' /\ Paid'
        /\ n > 0 /\ List(Rest(s, n), n - 1)'
    BY <1>2, <1>4, NextPopList, ClearFreeList
  <2>2. Rest(s, n) \in [1 .. n - 1 -> Elems] /\ n - 1 \in Nat
    <3>1. n \in Nat \ {0} /\ \A i, j \in 1 .. n : s[i] = s[j] => i = j
      BY <1>2, <2>1 DEF List, Leads
    <3>. QED  BY <3>1, RestList
  <2>. QED  BY <2>1, <2>2 DEF Inv
<1>5. ASSUME NEW t \in Threads, Step(t), ~AddLink(t), ~NextPop(t), ~ClearFree(t)
      PROVE  Inv'
  <2>1. Types' /\ Exclusive' /\ PendingReady' /\ Paid' /\ List(s, n)'
    <3>1. CASE AddAlloc(t)
      BY <1>2, <3>1, AddAllocList
    <3>2. CASE AddLock(t) \/ NextLock(t) \/ ClearLock(t)
      BY <1>2, <3>2, LockSteps
    <3>3. CASE AddLast(t) \/ AddSize(t)
      BY <1>2, <3>3, AddOnList
    <3>4. CASE NextNone(t) \/ NextLast(t) \/ ClearSize(t) \/ ClearFirst(t)
      BY <1>2, <3>4, SettleList
    <3>5. CASE NextFree(t)
      BY <1>2, <3>5, NextFreeList
    <3>6. CASE Return(t)
      BY <1>2, <3>6, ReturnList
    <3>. QED  BY <1>5, <3>1, <3>2, <3>3, <3>4, <3>5, <3>6 DEF Step
  <2>. QED  BY <2>1 DEF Inv
<1>6. ASSUME UNCHANGED vars  PROVE Inv'
  <2>1. UNCHANGED <<first, last, size, mutex, next, payload, heap, pc, elem, ret>>
    BY <1>6 DEF vars, list, fields, locals
  <2>2. Types' /\ Exclusive' /\ Paid'
    BY <2>1 DEF Inv, Types, Placed, TypeOK, Exclusive, Paid
  <2>3. PendingReady' /\ Pending' = Pending
    BY <2>1 DEF Inv, PendingReady, Pending, IsPending
  <2>4. Owner' = Owner /\ Popped' = Popped /\ Start' = Start
    BY <2>1 DEF Owner, Popped, Start
  <2>5. List(s, n)'
    BY <1>2, <2>1, <2>3, <2>4 DEF List, Leads, Accounted, Elements, Sized, Ended
  <2>. QED  BY <2>2, <2>3, <2>5 DEF Inv
<1>. QED  BY <1>3, <1>4, <1>5, <1>6 DEF Next

\* The list and all that belongs to it, whatever threads do (queue.c).
THEOREM QueueInvariance == Spec => []Inv
<1>1. Init => Inv
  BY InitInv
<1>2. Inv /\ [Next]_vars => Inv'
  BY NextInv
<1>. QED  BY <1>1, <1>2, PTL DEF Spec

-----------------------------------------------------------------------------
(* The chain that the properties speak of is the list of the invariant.    *)

\* Sequences as functions.
LEMMA ListSeq ==
  ASSUME NEW S, NEW n \in Nat, NEW s \in [1 .. n -> S]
  PROVE  s \in Seq(S) /\ Len(s) = n /\ DOMAIN s = 1 .. n /\ (s = <<>> <=> n = 0)
<1>1. s \in Seq(S)
  BY SeqDef
<1>2. Len(s) = n /\ DOMAIN s = 1 .. n
  BY <1>1, LenProperties
<1>3. s = <<>> <=> n = 0
  BY <1>1, <1>2, EmptySeq
<1>. QED  BY <1>1, <1>2, <1>3

\* first and next lead along one sequence only: where two part for the first
\* time, next would lead two ways.
LEMMA OneWay ==
  ASSUME NEW n \in Nat, NEW a \in [1 .. n -> Elems],
         NEW m \in Nat, NEW b \in [1 .. m -> Elems],
         IsChain(a), IsChain(b)
  PROVE  n <= m /\ \A i \in 1 .. n : b[i] = a[i]
<1>1. /\ first = IF n = 0 THEN NULL ELSE a[1]
      /\ \A i \in 1 .. n : next[a[i]] = IF i = n THEN NULL ELSE a[i + 1]
  <2>1. Len(a) = n /\ DOMAIN a = 1 .. n /\ (a = <<>> <=> n = 0)
    BY ListSeq
  <2>. QED  BY <2>1 DEF IsChain
<1>2. /\ first = IF m = 0 THEN NULL ELSE b[1]
      /\ \A i \in 1 .. m : next[b[i]] = IF i = m THEN NULL ELSE b[i + 1]
  <2>1. Len(b) = m /\ DOMAIN b = 1 .. m /\ (b = <<>> <=> m = 0)
    BY ListSeq
  <2>. QED  BY <2>1 DEF IsChain
<1>. DEFINE parted == {i \in 1 .. n : ~(i <= m /\ b[i] = a[i])}
            R == {ss \in Nat \X Nat : ss[1] < ss[2]}
<1>3. parted = {}
  <2>1. SUFFICES ASSUME parted # {}  PROVE FALSE
    OBVIOUS
  <2>2. IsWellFoundedOn(R, Nat)
    BY NatLessThanWellFounded DEF OpToRel
  <2>3. \A y \in Nat, x \in Nat : y < x => <<y, x>> \in R
    OBVIOUS
  <2>4. parted \subseteq Nat
    OBVIOUS
  <2>. HIDE DEF R
  <2>5. PICK k \in parted : \A y \in parted : <<y, k>> \notin R
    BY <2>1, <2>2, <2>4, WFMin
  <2>6. k \in 1 .. n /\ ~(k <= m /\ b[k] = a[k])
    OBVIOUS
  <2>7. CASE k = 1
    <3>1. first = a[1] /\ a[1] # NULL
      BY <1>1, <2>6, NullAssumption
    <3>. QED  BY <1>2, <2>6, <2>7, <3>1
  <2>8. CASE k > 1
    <3>1. k - 1 \in 1 .. n /\ k - 1 < k
      BY <2>6, <2>8
    <3>2. k - 1 \notin parted
      BY <2>3, <2>4, <2>5, <3>1
    <3>3. k - 1 \in 1 .. m /\ b[k - 1] = a[k - 1]
      BY <3>1, <3>2
    <3>4. next[a[k - 1]] = a[k] /\ a[k] # NULL
      <4>1. k - 1 # n /\ (k - 1) + 1 = k
        BY <2>6
      <4>2. a[k] \in Elems
        BY <2>6
      <4>. QED  BY <1>1, <3>1, <4>1, <4>2, NullAssumption
    <3>5. k - 1 # m /\ (k - 1) + 1 = k
      BY <1>2, <2>6, <3>3, <3>4
    <3>6. b[k] = a[k]
      BY <1>2, <3>3, <3>4, <3>5
    <3>7. k <= m
      BY <3>3, <3>5
    <3>. QED  BY <2>6, <3>6, <3>7
  <2>. QED  BY <2>6, <2>7, <2>8
<1>4. \A i \in 1 .. n : i <= m /\ b[i] = a[i]
  BY <1>3
<1>5. n <= m
  <2>1. n = 0 \/ n \in 1 .. n
    OBVIOUS
  <2>. QED  BY <1>4, <2>1
<1>. QED  BY <1>4, <1>5

\* The sequence of the invariant is the chain, unless it is being cleared.
LEMMA ChainIs ==
  \A n \in Nat : \A s \in [1 .. n -> Elems] :
    List(s, n) /\ Owner \notin {"clear", "clearFirst"} => s \in Chains /\ Chain = s
<1>. SUFFICES ASSUME NEW n \in Nat, NEW s \in [1 .. n -> Elems], List(s, n),
                     Owner \notin {"clear", "clearFirst"}
              PROVE  s \in Chains /\ Chain = s
  OBVIOUS
<1>1. s \in Seq(Elems) /\ Len(s) = n /\ DOMAIN s = 1 .. n /\ (s = <<>> <=> n = 0)
  BY ListSeq
<1>2. IsChain(s)
  <2>1. Start = first
    BY DEF Start
  <2>. QED  BY <1>1, <2>1 DEF List, Leads, IsChain
<1>3. n <= Cardinality(Elems) /\ Cardinality(Elems) \in Nat
  <2>1. s \in Injection(1 .. n, Elems)
    BY DEF List, Leads, Injection, IsInjective
  <2>2. Cardinality(1 .. n) <= Cardinality(Elems)
    BY <2>1, FS_Injection, SizesAssumption
  <2>3. Cardinality(1 .. n) = n
    BY FS_Interval
  <2>. QED  BY <2>2, <2>3, FS_CardinalityType, SizesAssumption
<1>4. s \in Chains
  BY <1>2, <1>3 DEF Chains, SeqOf
<1>5. ASSUME NEW c \in Chains  PROVE c = s
  <2>1. PICK m \in Nat : c \in [1 .. m -> Elems]
    BY <1>3 DEF Chains, SeqOf
  <2>2. IsChain(c)
    BY DEF Chains
  <2>3. n <= m /\ m <= n /\ \A i \in 1 .. n : c[i] = s[i]
    BY <1>2, <2>1, <2>2, OneWay
  <2>. QED  BY <2>1, <2>3
<1>. QED  BY <1>4, <1>5 DEF Chain

\* What the queue holds, payload by payload.
Holds(s, n) ==
  /\ Contents \in Seq(Items)
  /\ Owner \in {"clear", "clearFirst"} => Contents = <<>>
  /\ Owner \in {"addLast", "addSize"} =>
       /\ n > 0 /\ Len(Contents) = n - 1
       /\ \A i \in 1 .. n - 1 : Contents[i] = payload[s[i]]
  /\ Owner = "nextFree" =>
       /\ Len(Contents) = n + 1 /\ Contents[1] = payload[elem[mutex]]
       /\ \A i \in 1 .. n : Contents[i + 1] = payload[s[i]]
  /\ Owner \notin {"clear", "clearFirst", "addLast", "addSize", "nextFree"} =>
       Len(Contents) = n /\ \A i \in 1 .. n : Contents[i] = payload[s[i]]
AlwaysHolds ==
  \A n \in Nat : \A s \in [1 .. n -> Elems] :
    TypeOK /\ Paid /\ List(s, n) => Holds(s, n)

\* It holds of every list there is.
LEMMA ContentsIs == AlwaysHolds
<1>. SUFFICES ASSUME NEW n \in Nat, NEW s \in [1 .. n -> Elems],
                     TypeOK, Paid, List(s, n)
              PROVE  Holds(s, n)
  BY DEF AlwaysHolds
<1>1. s \in Seq(Elems) /\ Len(s) = n /\ DOMAIN s = 1 .. n
  BY ListSeq
<1>2. \A i \in 1 .. n : s[i] \in heap /\ payload[s[i]] \in Items
  BY DEF List, Accounted, Elements, Paid
<1>3. ASSUME NEW k \in Nat, NEW c \in [1 .. k -> Elems], Counted = c,
             \A i \in 1 .. k : payload[c[i]] \in Items
      PROVE  /\ Contents \in Seq(Items) /\ Len(Contents) = k
             /\ \A i \in 1 .. k : Contents[i] = payload[c[i]]
  <2>1. DOMAIN c = 1 .. k
    OBVIOUS
  <2>2. Contents = [i \in 1 .. k |-> payload[c[i]]]
    BY <1>3, <2>1 DEF Contents
  <2>3. Contents \in [1 .. k -> Items]
    BY <1>3, <2>2
  <2>. QED  BY <2>2, <2>3, ListSeq
<1>4. CASE Owner \in {"clear", "clearFirst"}
  <2>1. Counted = <<>>
    BY <1>4 DEF Counted
  <2>2. Contents = <<>>
    BY <2>1 DEF Contents
  <2>. QED  BY <1>4, <2>2 DEF Holds
<1>5. CASE Owner \in {"addLast", "addSize"}
  <2>1. n > 0
    BY <1>5 DEF List, Ended
  <2>2. Chain = s
    BY <1>5, ChainIs
  <2>3. Counted = SubSeq(s, 1, n - 1)
    BY <1>1, <1>5, <2>2 DEF Counted, Front
  <2>4. SubSeq(s, 1, n - 1) = [i \in 1 .. n - 1 |-> s[i]]
    BY <1>1, <2>1
  <2>5. [i \in 1 .. n - 1 |-> s[i]] \in [1 .. n - 1 -> Elems] /\ n - 1 \in Nat
    BY <2>1
  <2>6. \A i \in 1 .. n - 1 : payload[[j \in 1 .. n - 1 |-> s[j]][i]] \in Items
    BY <1>2
  <2>7. /\ Contents \in Seq(Items) /\ Len(Contents) = n - 1
        /\ \A i \in 1 .. n - 1 : Contents[i] = payload[[j \in 1 .. n - 1 |-> s[j]][i]]
    BY <1>3, <2>3, <2>4, <2>5, <2>6
  <2>. QED  BY <1>5, <2>1, <2>7 DEF Holds
<1>6. CASE Owner = "nextFree"
  <2>. DEFINE c == [i \in 1 .. n + 1 |-> IF i = 1 THEN elem[mutex] ELSE s[i - 1]]
  <2>1. elem[mutex] \in heap /\ elem[mutex] \in Elems
    BY <1>6 DEF List, Accounted, Popped, TypeOK
  <2>2. Chain = s
    BY <1>6, ChainIs
  <2>3. Counted = <<elem[mutex]>> \o s
    BY <1>6, <2>2 DEF Counted
  <2>4. <<elem[mutex]>> \o s = c
    BY <1>1, <2>1
  <2>5. c \in [1 .. n + 1 -> Elems] /\ n + 1 \in Nat
    BY <2>1
  <2>6. c[1] = elem[mutex] /\ \A i \in 1 .. n : c[i + 1] = s[i]
    OBVIOUS
  <2>7. \A i \in 1 .. n + 1 : payload[c[i]] \in Items
    <3>1. payload[elem[mutex]] \in Items
      BY <2>1 DEF Paid
    <3>. QED  BY <1>2, <3>1
  <2>. HIDE DEF c
  <2>8. /\ Contents \in Seq(Items) /\ Len(Contents) = n + 1
        /\ \A i \in 1 .. n + 1 : Contents[i] = payload[c[i]]
    BY <1>3, <2>3, <2>4, <2>5, <2>7
  <2>. QED  BY <1>6, <2>6, <2>8 DEF Holds
<1>7. CASE Owner \notin {"clear", "clearFirst", "addLast", "addSize", "nextFree"}
  <2>1. Counted = s
    BY <1>7, ChainIs DEF Counted
  <2>. QED  BY <1>2, <1>3, <1>7, <2>1 DEF Holds
<1>. QED  BY <1>4, <1>5, <1>6, <1>7

-----------------------------------------------------------------------------
(* The theorems.                                                           *)

\* Whenever the mutex is free, first, last, next and size describe one list
\* (queue_add, queue_next, queue_clear).
THEOREM QueueConsistent == Spec => []Consistent
<1>1. Inv => Consistent
  <2>. SUFFICES ASSUME Inv  PROVE Consistent
    OBVIOUS
  <2>1. PICK n \in Nat : \E s \in [1 .. n -> Elems] : List(s, n)
    BY DEF Inv
  <2>2. PICK s \in [1 .. n -> Elems] : List(s, n)
    BY <2>1
  <2>3. ASSUME mutex = NULL
        PROVE  s \in Chains /\ size = Len(s) /\ last = IF s = <<>> THEN NULL ELSE s[Len(s)]
    <3>1. Owner = "none"
      BY <2>3 DEF Owner
    <3>2. Len(s) = n /\ (s = <<>> <=> n = 0)
      BY ListSeq
    <3>. QED  BY <2>2, <3>1, <3>2, ChainIs DEF List, Sized, Ended
  <2>. QED  BY <2>3 DEF Consistent, Inv, Types
<1>. QED  BY <1>1, QueueInvariance, PTL

\* No element is lost or freed while it is linked (queue_next, queue_clear).
THEOREM NothingLeaks == Spec => []NoLeak
<1>1. Inv => NoLeak
  <2>. SUFFICES ASSUME Inv, mutex = NULL
                PROVE  heap = Linked \union
                         {elem[t] : t \in {u \in Threads : pc[u] = "addLock"}}
    BY DEF NoLeak
  <2>1. PICK n \in Nat : \E s \in [1 .. n -> Elems] : List(s, n)
    BY DEF Inv
  <2>2. PICK s \in [1 .. n -> Elems] : List(s, n)
    BY <2>1
  <2>3. Owner = "none" /\ Popped = {}
    BY DEF Owner, Popped
  <2>4. Linked = Elements(s, n)
    <3>1. Chain = s /\ DOMAIN s = 1 .. n
      BY <2>2, <2>3, ChainIs, ListSeq
    <3>. QED  BY <3>1 DEF Linked, Elements
  <2>5. Pending = {elem[t] : t \in {u \in Threads : pc[u] = "addLock"}}
    <3>1. \A u \in Threads : pc[u] # "addLink"
      BY NullAssumption DEF Inv, Exclusive, Inside
    <3>. QED  BY <3>1 DEF Pending, IsPending
  <2>. QED  BY <2>2, <2>3, <2>4, <2>5 DEF List, Accounted
<1>. QED  BY <1>1, QueueInvariance, PTL

\* The size that push_jpg_frame reads without the mutex is the length of the
\* queue (decoder.c:401).
THEOREM SizeIsExact == Spec => []SizeExact
<1>1. Inv => SizeExact
  <2>. SUFFICES ASSUME Inv, Owner \notin {"clear", "clearFirst"}
                PROVE  size = Len(Contents)
    BY DEF SizeExact
  <2>1. PICK n \in Nat : \E s \in [1 .. n -> Elems] : List(s, n)
    BY DEF Inv
  <2>2. PICK s \in [1 .. n -> Elems] : List(s, n)
    BY <2>1
  <2>3. Owner \in Inside \union {"none"}
    <3>1. mutex \in Threads \union {NULL}
      BY DEF Inv, Types, TypeOK
    <3>. QED  BY <3>1 DEF Owner, Inv, Exclusive
  <2>4. TypeOK /\ Paid /\ size \in Nat
    BY DEF Inv, Types, TypeOK
  <2>5. CASE Owner \in {"addLast", "addSize"}
    BY <2>2, <2>4, <2>5, ContentsIs DEF AlwaysHolds, Holds, List, Sized
  <2>6. CASE Owner = "nextFree"
    BY <2>2, <2>4, <2>6, ContentsIs DEF AlwaysHolds, Holds, List, Sized
  <2>7. CASE Owner \notin {"addLast", "addSize", "nextFree"}
    <3>1. Len(Contents) = n
      BY <2>2, <2>4, <2>7, ContentsIs DEF AlwaysHolds, Holds
    <3>. QED  BY <2>2, <2>3, <2>7, <3>1 DEF List, Sized, Inside
  <2>. QED  BY <2>5, <2>6, <2>7
<1>. QED  BY <1>1, QueueInvariance, PTL

-----------------------------------------------------------------------------
(* The atomic queue.                                                       *)

\* The contents before and after a step.
LEMMA ContentsStep ==
  ASSUME Inv, Inv', NEW n \in Nat, NEW s \in [1 .. n -> Elems], List(s, n),
         NEW m \in Nat, NEW r \in [1 .. m -> Elems], List(r, m)'
  PROVE  Holds(s, n) /\ Holds(r, m)'
<1>1. AlwaysHolds /\ AlwaysHolds'
  BY ContentsIs, PTL
<1>2. TypeOK /\ Paid /\ TypeOK' /\ Paid'
  BY DEF Inv, Types
<1>3. Holds(s, n)
  BY <1>1, <1>2 DEF AlwaysHolds
<1>4. Holds(r, m)'
  BY <1>1, <1>2 DEF AlwaysHolds
<1>. QED  BY <1>3, <1>4

\* Steps that the atomic queue does not see.
LEMMA Unseen ==
  ASSUME Inv, Inv', NEW n \in Nat, NEW s \in [1 .. n -> Elems], List(s, n), List(s, n)',
         \A e \in heap : payload'[e] = payload[e],
         \/ Owner' = Owner /\ mutex' = mutex
              /\ (Owner = "nextFree" => elem'[mutex] = elem[mutex])
         \/ Owner \in {"clear", "clearFirst"} /\ Owner' \in {"clear", "clearFirst"}
         \/ /\ Owner \in {"none", "addLink", "nextTest", "nextLast", "unlock"}
            /\ Owner' \in {"none", "addLink", "nextTest", "nextLast", "unlock"}
         \/ Owner = "addLast" /\ Owner' = "addSize"
  PROVE  Contents' = Contents
<1>1. Holds(s, n) /\ Holds(s, n)'
  BY ContentsStep
<1>2. \A i \in 1 .. n : payload'[s[i]] = payload[s[i]]
  BY DEF List, Accounted, Elements
<1>3. Contents \in Seq(Items) /\ Contents' \in Seq(Items)
  BY <1>1 DEF Holds
<1>4. Len(Contents') = Len(Contents)
      /\ \A i \in 1 .. Len(Contents) : Contents'[i] = Contents[i]
  <2>1. CASE Owner \in {"clear", "clearFirst"}
    BY <1>1, <2>1 DEF Holds
  <2>2. CASE Owner \in {"addLast", "addSize"}
    BY <1>1, <1>2, <2>2 DEF Holds
  <2>3. CASE Owner \notin {"clear", "clearFirst", "addLast", "addSize", "nextFree"}
    BY <1>1, <1>2, <2>3 DEF Holds
  <2>4. CASE Owner = "nextFree"
    <3>1. Owner' = "nextFree" /\ mutex' = mutex /\ elem'[mutex] = elem[mutex]
      BY <2>4
    <3>2. elem[mutex] \in heap
      BY <2>4 DEF List, Accounted, Popped
    <3>3. /\ Len(Contents) = n + 1 /\ Len(Contents') = n + 1
          /\ Contents[1] = payload[elem[mutex]] /\ Contents'[1] = payload'[elem[mutex]]
          /\ \A i \in 1 .. n : Contents[i + 1] = payload[s[i]] /\ Contents'[i + 1] = payload'[s[i]]
      BY <1>1, <2>4, <3>1 DEF Holds
    <3>4. ASSUME NEW i \in 1 .. n + 1  PROVE Contents'[i] = Contents[i]
      <4>1. CASE i = 1
        BY <3>2, <3>3, <4>1
      <4>2. CASE i # 1
        <5>1. i - 1 \in 1 .. n /\ (i - 1) + 1 = i
          BY <4>2
        <5>. QED  BY <1>2, <3>3, <5>1
      <4>. QED  BY <4>1, <4>2
    <3>. QED  BY <3>3, <3>4
  <2>. QED  BY <2>1, <2>2, <2>3, <2>4
<1>. QED  BY <1>3, <1>4, SeqEqual

\* Steps that change the list or its size.
LEMMA Seen ==
  ASSUME Inv, Inv', NEW t \in Threads, NEW n \in Nat, NEW s \in [1 .. n -> Elems], List(s, n)
  PROVE  /\ AddLink(t) \/ NextPop(t) => Contents' = Contents
         /\ AddSize(t) => \E x \in Items : Contents' = Append(Contents, x)
         /\ NextFree(t) => /\ Len(Contents) > Backbuffer /\ Contents' = Tail(Contents)
                           /\ payload[elem[t]] = Head(Contents)
         /\ NextNone(t) => Len(Contents) <= Backbuffer
         /\ ClearLock(t) \/ ClearFree(t) => Contents' = <<>>
<1>1. Contents \in Seq(Items) /\ Contents' \in Seq(Items)
  <2>1. PICK m \in Nat : \E r \in [1 .. m -> Elems] : List(r, m)'
    BY DEF Inv
  <2>2. PICK r \in [1 .. m -> Elems] : List(r, m)'
    BY <2>1
  <2>. QED  BY <2>2, ContentsStep DEF Holds
<1>2. ASSUME AddLink(t)  PROVE Contents' = Contents
  <2>1. elem[t] \in Elems
    BY <1>2 DEF AddLink, Goto, IsPending, Inv, PendingReady
  <2>2. PICK e \in Elems : e = elem[t]
    BY <2>1
  <2>. DEFINE g == Grown(s, n, e)
  <2>3. List(g, n + 1)' /\ Owner = "addLink" /\ Owner' = "addLast"
    BY <1>2, <2>2, AddLinkList
  <2>4. g \in [1 .. n + 1 -> Elems] /\ \A i \in 1 .. n : g[i] = s[i]
    BY GrownList
  <2>. HIDE DEF g
  <2>5. Holds(s, n) /\ Holds(g, n + 1)'
    BY <2>3, <2>4, ContentsStep
  <2>6. payload' = payload
    BY <1>2 DEF AddLink
  <2>7. Len(Contents) = n /\ \A i \in 1 .. n : Contents[i] = payload[s[i]]
    BY <2>3, <2>5 DEF Holds
  <2>8. Len(Contents') = n /\ \A i \in 1 .. n : Contents'[i] = payload[s[i]]
    BY <2>3, <2>4, <2>5, <2>6 DEF Holds
  <2>. QED  BY <1>1, <2>7, <2>8, SeqEqual
<1>3. ASSUME NextPop(t)  PROVE Contents' = Contents
  <2>. DEFINE r == Rest(s, n)
  <2>1. n > 0 /\ elem'[t] = s[1] /\ List(r, n - 1)'
          /\ mutex' = t /\ Owner = "nextTest" /\ Owner' = "nextFree"
    BY <1>3, NextPopList
  <2>2. r \in [1 .. n - 1 -> Elems] /\ \A i \in 1 .. n - 1 : r[i] = s[i + 1]
    <3>1. n \in Nat \ {0} /\ \A i, j \in 1 .. n : s[i] = s[j] => i = j
      BY <2>1 DEF List, Leads
    <3>. QED  BY <3>1, RestList
  <2>. HIDE DEF r
  <2>3. Holds(s, n) /\ Holds(r, n - 1)'
    BY <2>1, <2>2, ContentsStep
  <2>4. payload' = payload
    BY <1>3 DEF NextPop, fields
  <2>5. Len(Contents) = n /\ \A i \in 1 .. n : Contents[i] = payload[s[i]]
    BY <2>1, <2>3 DEF Holds
  <2>6. /\ Len(Contents') = n /\ Contents'[1] = payload[s[1]]
        /\ \A i \in 1 .. n - 1 : Contents'[i + 1] = payload[s[i + 1]]
    <3>1. /\ Len(Contents') = (n - 1) + 1 /\ Contents'[1] = payload'[elem'[mutex']]
          /\ \A i \in 1 .. n - 1 : Contents'[i + 1] = payload'[r[i]]
      BY <2>1, <2>3 DEF Holds
    <3>2. Len(Contents') = n /\ Contents'[1] = payload[s[1]]
      BY <2>1, <2>4, <3>1
    <3>3. \A i \in 1 .. n - 1 : payload'[r[i]] = payload[s[i + 1]]
      BY <2>2, <2>4, Zenon
    <3>. QED  BY <3>1, <3>2, <3>3, Zenon
  <2>7. ASSUME NEW i \in 1 .. n  PROVE Contents'[i] = payload[s[i]]
    <3>1. CASE i = 1
      BY <2>6, <3>1
    <3>2. CASE i # 1
      <4>1. i - 1 \in 1 .. n - 1 /\ (i - 1) + 1 = i
        BY <3>2
      <4>. QED  BY <2>6, <4>1
    <3>. QED  BY <3>1, <3>2
  <2>. QED  BY <1>1, <2>5, <2>6, <2>7, SeqEqual
<1>4. ASSUME AddSize(t)  PROVE \E x \in Items : Contents' = Append(Contents, x)
  <2>1. pc[t] = "addSize" /\ pc'[t] = "unlock" /\ payload' = payload
    BY <1>4 DEF AddSize, Goto, fields, Inv, Types, Placed
  <2>2. List(s, n)' /\ Owner = "addSize" /\ Owner' = "unlock"
    BY <1>4, <2>1, AddOnList
  <2>3. Holds(s, n) /\ Holds(s, n)'
    BY <2>2, ContentsStep
  <2>4. n > 0 /\ Len(Contents) = n - 1 /\ \A i \in 1 .. n - 1 : Contents[i] = payload[s[i]]
    BY <2>2, <2>3 DEF Holds
  <2>5. Len(Contents') = n /\ \A i \in 1 .. n : Contents'[i] = payload[s[i]]
    BY <2>1, <2>2, <2>3 DEF Holds
  <2>6. payload[s[n]] \in Items
    BY <2>4, LastElement DEF List, Accounted, Inv, Paid
  <2>. DEFINE a == Append(Contents, payload[s[n]])
  <2>7. /\ a \in Seq(Items) /\ Len(a) = n /\ a[n] = payload[s[n]]
        /\ \A i \in 1 .. n - 1 : a[i] = payload[s[i]]
    BY <1>1, <2>4, <2>6, AppendProperties
  <2>. HIDE DEF a
  <2>8. Contents' = a
    BY <1>1, <2>5, <2>7, SeqEqual
  <2>. QED  BY <2>6, <2>8 DEF a
<1>5. ASSUME NextFree(t)
      PROVE  /\ Len(Contents) > Backbuffer /\ Contents' = Tail(Contents)
             /\ payload[elem[t]] = Head(Contents)
  <2>1. /\ List(s, n)' /\ Owner = "nextFree" /\ Owner' = "nextLast"
        /\ payload' = payload /\ mutex = t
    BY <1>5, NextFreeList DEF NextFree, fields
  <2>2. Holds(s, n) /\ Holds(s, n)'
    BY <2>1, ContentsStep
  <2>3. /\ Len(Contents) = n + 1 /\ Contents[1] = payload[elem[t]]
        /\ \A i \in 1 .. n : Contents[i + 1] = payload[s[i]]
    BY <2>1, <2>2 DEF Holds
  <2>4. Len(Contents') = n /\ \A i \in 1 .. n : Contents'[i] = payload[s[i]]
    BY <2>1, <2>2 DEF Holds
  <2>5. Contents # <<>>
    BY <2>3
  <2>. DEFINE r == Tail(Contents)
  <2>6. r \in Seq(Items) /\ Len(r) = n /\ \A i \in 1 .. n : r[i] = Contents[i + 1]
    BY <1>1, <2>3, <2>5, HeadTailProperties
  <2>. HIDE DEF r
  <2>7. Contents' = r
    BY <1>1, <2>3, <2>4, <2>6, SeqEqual
  <2>8. n + 1 > Backbuffer
    BY <2>1 DEF List, Sized
  <2>9. Head(Contents) = Contents[1]
    BY <2>5
  <2>. QED  BY <2>3, <2>7, <2>8, <2>9 DEF r
<1>6. ASSUME NextNone(t)  PROVE Len(Contents) <= Backbuffer
  <2>1. pc[t] = "nextTest" /\ size <= Backbuffer
    BY <1>6 DEF NextNone, Goto
  <2>2. List(s, n)' /\ Owner = "nextTest"
    BY <1>6, <2>1, SettleList
  <2>3. Len(Contents) = n /\ size = n
    BY <2>2, ContentsStep DEF Holds, List, Sized
  <2>. QED  BY <2>1, <2>3
<1>7. ASSUME ClearLock(t) \/ ClearFree(t)  PROVE Contents' = <<>>
  <2>1. Owner' = "clear"
    BY <1>7, LockSteps, ClearFreeList
  <2>2. PICK m \in Nat : \E r \in [1 .. m -> Elems] : List(r, m)'
    BY DEF Inv
  <2>3. PICK r \in [1 .. m -> Elems] : List(r, m)'
    BY <2>2
  <2>. QED  BY <2>1, <2>3, ContentsStep DEF Holds
<1>. QED  BY <1>2, <1>3, <1>4, <1>5, <1>6, <1>7

\* The other steps are none to the atomic queue.
LEMMA UnseenSteps ==
  ASSUME Inv, Inv', NEW t \in Threads,
         \/ AddAlloc(t) \/ AddLock(t) \/ AddLast(t)
         \/ NextLock(t) \/ NextNone(t) \/ NextLast(t)
         \/ ClearSize(t) \/ ClearFirst(t) \/ Return(t)
  PROVE  Contents' = Contents
<1>1. PICK n \in Nat : \E s \in [1 .. n -> Elems] : List(s, n)
  BY DEF Inv
<1>2. PICK s \in [1 .. n -> Elems] : List(s, n)
  BY <1>1
<1>3. CASE AddAlloc(t)
  <2>1. List(s, n)' /\ Owner' = Owner /\ pc[t] \in Outside
    BY <1>2, <1>3, AddAllocList
  <2>2. mutex' = mutex /\ \A e \in heap : payload'[e] = payload[e]
    BY <1>3 DEF AddAlloc, Inv, Types, TypeOK
  <2>3. Owner = "nextFree" => elem'[mutex] = elem[mutex]
    <3>1. mutex # t
      BY <2>1, OwnerInside DEF Inv
    <3>2. Owner = "nextFree" => mutex \in Threads
      BY DEF Owner, Inv, Types, TypeOK
    <3>. QED  BY <1>3, <3>1, <3>2 DEF AddAlloc, Inv, Types, TypeOK
  <2>. QED  BY <1>2, <2>1, <2>2, <2>3, Unseen
<1>4. CASE AddLock(t) \/ NextLock(t)
  <2>1. /\ List(s, n)' /\ Owner = "none" /\ payload' = payload
        /\ Owner' = IF pc[t] = "addLock" THEN "addLink" ELSE pc'[t]
    BY <1>2, <1>4, LockSteps DEF AddLock, NextLock, fields
  <2>2. Owner' \in {"addLink", "nextTest"}
    BY <1>4, <2>1 DEF AddLock, NextLock, Goto, Inv, Types, Placed
  <2>. QED  BY <1>2, <2>1, <2>2, Unseen
<1>5. CASE AddLast(t)
  <2>1. pc[t] = "addLast" /\ pc'[t] = "addSize" /\ payload' = payload
    BY <1>5 DEF AddLast, Goto, fields, Inv, Types, Placed
  <2>2. List(s, n)' /\ Owner = "addLast" /\ Owner' = "addSize"
    BY <1>2, <1>5, <2>1, AddOnList
  <2>. QED  BY <1>2, <2>1, <2>2, Unseen
<1>6. CASE NextNone(t) \/ NextLast(t) \/ ClearSize(t) \/ ClearFirst(t)
  <2>1. List(s, n)' /\ Owner = pc[t] /\ Owner' = pc'[t]
    BY <1>2, <1>6, SettleList
  <2>2. payload' = payload
    BY <1>6 DEF NextNone, NextLast, ClearSize, ClearFirst, fields
  <2>3. CASE NextNone(t) \/ NextLast(t)
    <3>1. pc[t] \in {"nextTest", "nextLast"} /\ pc'[t] = "unlock"
      BY <2>3 DEF NextNone, NextLast, Goto, Inv, Types, Placed
    <3>. QED  BY <1>2, <2>1, <2>2, <3>1, Unseen
  <2>4. CASE ClearSize(t)
    <3>1. pc[t] = "clear" /\ pc'[t] = "clearFirst"
      BY <2>4 DEF ClearSize, Goto, Inv, Types, Placed
    <3>. QED  BY <1>2, <2>1, <2>2, <3>1, Unseen
  <2>5. CASE ClearFirst(t)
    <3>1. pc[t] = "clearFirst" /\ pc'[t] = "unlock" /\ elem' = elem /\ first' = NULL
      BY <2>5 DEF ClearFirst, Goto, Inv, Types, Placed
    <3>2. n = 0
      <4>1. Start' = NULL
        BY <2>1, <3>1 DEF Start
      <4>. QED  BY <2>1, <4>1, NullAssumption DEF List, Leads
    <3>3. Holds(s, n) /\ Holds(s, n)'
      BY <1>2, <2>1, ContentsStep
    <3>4. Contents = <<>>
      BY <2>1, <3>1, <3>3 DEF Holds
    <3>5. Contents' \in Seq(Items) /\ Len(Contents') = 0
      BY <2>1, <3>1, <3>2, <3>3 DEF Holds
    <3>. QED  BY <3>4, <3>5, EmptySeq
  <2>. QED  BY <1>6, <2>3, <2>4, <2>5
<1>7. CASE Return(t)
  <2>1. List(s, n)' /\ Owner = "unlock" /\ Owner' = "none" /\ payload' = payload
    BY <1>2, <1>7, ReturnList DEF Return, fields
  <2>. QED  BY <1>2, <2>1, Unseen
<1>. QED  BY <1>3, <1>4, <1>5, <1>6, <1>7

\* Every operation of queue.c, however its steps interleave with those of other
\* threads, is one step of the atomic queue that queue.h promises.
THEOREM QueueIsFifo == Spec => ImplementsFifo
<1>1. Init => Fifo!FifoInit
  <2>. SUFFICES ASSUME Init  PROVE Contents = <<>> /\ ret = [t \in Threads |-> NULL]
    BY DEF Fifo!FifoInit
  <2>1. Inv /\ Owner = "none" /\ size = 0
    BY InitInv DEF Init, Owner
  <2>2. PICK n \in Nat : \E s \in [1 .. n -> Elems] : List(s, n)
    BY <2>1 DEF Inv
  <2>3. PICK s \in [1 .. n -> Elems] : List(s, n)
    BY <2>2
  <2>4. Holds(s, n)
    BY <2>1, <2>3, ContentsIs DEF AlwaysHolds, Inv, Types
  <2>5. Contents \in Seq(Items) /\ Len(Contents) = 0
    BY <2>1, <2>3, <2>4 DEF Holds, List, Sized
  <2>. QED  BY <2>5, EmptySeq DEF Init
<1>2. ASSUME Inv, Inv', [Next]_vars  PROVE [Fifo!FifoNext]_Fifo!fifo
  <2>1. PICK n \in Nat : \E s \in [1 .. n -> Elems] : List(s, n)
    BY <1>2 DEF Inv
  <2>2. PICK s \in [1 .. n -> Elems] : List(s, n)
    BY <2>1
  <2>3. ASSUME NEW t \in Threads, Step(t)  PROVE [Fifo!FifoNext]_Fifo!fifo
    <3>1. CASE AddSize(t)
      BY <1>2, <2>2, <3>1, Seen DEF AddSize, Fifo!FifoNext, Fifo!Put
    <3>2. CASE NextFree(t)
      <4>1. /\ Len(Contents) > Backbuffer /\ Contents' = Tail(Contents)
            /\ ret' = [ret EXCEPT ![t] = Head(Contents)]
        BY <1>2, <2>2, <3>2, Seen DEF NextFree
      <4>. QED  BY <4>1 DEF Fifo!FifoNext, Fifo!Take
    <3>3. CASE NextNone(t)
      <4>1. /\ Len(Contents) <= Backbuffer /\ Contents' = Contents
            /\ ret' = [ret EXCEPT ![t] = NULL]
        BY <1>2, <2>2, <3>3, Seen, UnseenSteps DEF NextNone
      <4>. QED  BY <4>1 DEF Fifo!FifoNext, Fifo!TakeNone
    <3>4. CASE ClearLock(t) \/ ClearFree(t)
      <4>1. Contents' = <<>> /\ ret' = ret
        BY <1>2, <2>2, <3>4, Seen DEF ClearLock, ClearFree
      <4>. QED  BY <4>1 DEF Fifo!FifoNext, Fifo!Clear
    <3>5. CASE AddLink(t) \/ NextPop(t)
      <4>1. Contents' = Contents /\ ret' = ret
        BY <1>2, <2>2, <3>5, Seen DEF AddLink, NextPop
      <4>. QED  BY <4>1 DEF Fifo!fifo
    <3>6. CASE \/ AddAlloc(t) \/ AddLock(t) \/ AddLast(t) \/ NextLock(t)
               \/ NextLast(t) \/ ClearSize(t) \/ ClearFirst(t) \/ Return(t)
      <4>1. Contents' = Contents
        BY <1>2, <3>6, UnseenSteps
      <4>2. ret' = ret
        BY <3>6 DEF AddAlloc, AddLock, AddLast, NextLock, NextLast, ClearSize,
                    ClearFirst, Return
      <4>. QED  BY <4>1, <4>2 DEF Fifo!fifo
    <3>. QED  BY <2>3, <3>1, <3>2, <3>3, <3>4, <3>5, <3>6 DEF Step
  <2>4. ASSUME UNCHANGED vars  PROVE [Fifo!FifoNext]_Fifo!fifo
    <3>1. UNCHANGED <<first, last, size, mutex, next, payload, heap, pc, elem, ret>>
      BY <2>4 DEF vars, list, fields, locals
    <3>2. Contents' = Contents
      BY <3>1 DEF Contents, Counted, Owner, Chain, Chains, IsChain
    <3>. QED  BY <3>1, <3>2 DEF Fifo!fifo
  <2>. QED  BY <1>2, <2>3, <2>4 DEF Next
<1>. QED  BY <1>1, <1>2, QueueInvariance, PTL DEF Spec, ImplementsFifo, Fifo!FifoSpec

=============================================================================
