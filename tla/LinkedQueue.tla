------------------------------ MODULE LinkedQueue ------------------------------
(***************************************************************************)
(* queue.c: a singly linked list with first and last pointers and a size,  *)
(* guarded by a mutex.  Elements are addresses that free() gives back and  *)
(* calloc() may hand out again.  Each store another thread could observe   *)
(* is a step; size is the one field read without the mutex                 *)
(* (push_jpg_frame).                                                       *)
(***************************************************************************)
EXTENDS Naturals, FiniteSets, SequencesExt

CONSTANTS
  Threads,
  Items,        \* payloads
  Backbuffer,   \* the argument of queue_next
  Elems,        \* addresses of queue_elem; their number bounds the queue
  NULL

ASSUME NullAssumption == NULL \notin Elems \union Items \union Threads
ASSUME SizesAssumption == IsFiniteSet(Elems) /\ Backbuffer \in Nat

VARIABLES
  first, last, size, mutex,
  next, payload,     \* the fields of each element
  heap,              \* allocated elements
  pc, elem, ret      \* of each thread: where it is, its elem, its result

list   == <<first, last, size>>
fields == <<next, payload>>
locals == <<pc, elem, ret>>
vars   == <<list, mutex, fields, heap, locals>>

Init ==
  /\ first = NULL /\ last = NULL /\ size = 0 /\ mutex = NULL
  /\ next = [e \in Elems |-> NULL] /\ payload = [e \in Elems |-> NULL]
  /\ heap = {}
  /\ pc = [t \in Threads |-> "idle"]
  /\ elem = [t \in Threads |-> NULL]
  /\ ret = [t \in Threads |-> NULL]

Goto(t, from, to) == pc[t] = from /\ pc' = [pc EXCEPT ![t] = to]

Lock(t) == mutex = NULL /\ mutex' = t
Unlock(t) == mutex' = NULL

-----------------------------------------------------------------------------
(* queue_add: the element is made before the mutex is taken.               *)

AddAlloc(t) ==
  \E e \in Elems \ heap, x \in Items :
    /\ Goto(t, "idle", "addLock")
    /\ heap' = heap \union {e}
    /\ elem' = [elem EXCEPT ![t] = e]
    /\ payload' = [payload EXCEPT ![e] = x]
    /\ next' = [next EXCEPT ![e] = NULL]
    /\ UNCHANGED <<list, mutex, ret>>

\* Mutant: the mutex is not taken.
AddLock_NoMutex(t) ==
  /\ Goto(t, "addLock", "addLink")
  /\ UNCHANGED <<list, mutex, fields, heap, elem, ret>>

AddLock(t) ==
  /\ Goto(t, "addLock", "addLink")
  /\ Lock(t)
  /\ UNCHANGED <<list, fields, heap, elem, ret>>

AddLink(t) ==
  /\ Goto(t, "addLink", "addLast")
  /\ IF first = NULL
       THEN first' = elem[t] /\ UNCHANGED next
       ELSE next' = [next EXCEPT ![last] = elem[t]] /\ UNCHANGED first
  /\ UNCHANGED <<last, size, mutex, payload, heap, elem, ret>>

AddLast(t) ==
  /\ Goto(t, "addLast", "addSize")
  /\ last' = elem[t]
  /\ UNCHANGED <<first, size, mutex, fields, heap, elem, ret>>

\* Mutant: size is not counted up.
AddSize_Skipped(t) ==
  /\ Goto(t, "addSize", "unlock")
  /\ elem' = [elem EXCEPT ![t] = NULL]
  /\ UNCHANGED <<list, mutex, fields, heap, ret>>

AddSize(t) ==
  /\ Goto(t, "addSize", "unlock")
  /\ size' = size + 1
  /\ elem' = [elem EXCEPT ![t] = NULL]
  /\ UNCHANGED <<first, last, mutex, fields, heap, ret>>

-----------------------------------------------------------------------------
(* queue_next.                                                             *)

NextLock(t) ==
  /\ Goto(t, "idle", "nextTest")
  /\ Lock(t)
  /\ UNCHANGED <<list, fields, heap, elem, ret>>

NextNone(t) ==
  /\ Goto(t, "nextTest", "unlock")
  /\ size <= Backbuffer
  /\ ret' = [ret EXCEPT ![t] = NULL]
  /\ UNCHANGED <<list, mutex, fields, heap, elem>>

NextPop(t) ==
  /\ Goto(t, "nextTest", "nextFree")
  /\ size > Backbuffer
  /\ elem' = [elem EXCEPT ![t] = first]
  /\ first' = next[first]
  /\ UNCHANGED <<last, size, mutex, fields, heap, ret>>

\* Mutant: the element is not freed.
NextFree_Leaks(t) ==
  /\ Goto(t, "nextFree", "nextLast")
  /\ elem' = [elem EXCEPT ![t] = NULL]
  /\ ret' = [ret EXCEPT ![t] = payload[elem[t]]]
  /\ size' = size - 1
  /\ UNCHANGED <<first, last, mutex, fields, heap>>

NextFree(t) ==
  /\ Goto(t, "nextFree", "nextLast")
  /\ heap' = heap \ {elem[t]}
  /\ elem' = [elem EXCEPT ![t] = NULL]
  /\ ret' = [ret EXCEPT ![t] = payload[elem[t]]]
  /\ size' = size - 1
  /\ UNCHANGED <<first, last, mutex, fields>>

\* Mutant: last is not reset when the list becomes empty.
NextLast_Kept(t) ==
  /\ Goto(t, "nextLast", "unlock")
  /\ UNCHANGED <<list, mutex, fields, heap, elem, ret>>

NextLast(t) ==
  /\ Goto(t, "nextLast", "unlock")
  /\ last' = IF first = NULL THEN NULL ELSE last
  /\ UNCHANGED <<first, size, mutex, fields, heap, elem, ret>>

-----------------------------------------------------------------------------
(* queue_clear.                                                            *)

ClearLock(t) ==
  /\ Goto(t, "idle", "clear")
  /\ Lock(t)
  /\ elem' = [elem EXCEPT ![t] = first]
  /\ UNCHANGED <<list, fields, heap, ret>>

ClearFree(t) ==
  /\ pc[t] = "clear"
  /\ elem[t] # NULL
  /\ elem' = [elem EXCEPT ![t] = next[elem[t]]]
  /\ heap' = heap \ {elem[t]}
  /\ UNCHANGED <<list, mutex, fields, pc, ret>>

ClearSize(t) ==
  /\ Goto(t, "clear", "clearFirst")
  /\ elem[t] = NULL
  /\ size' = 0
  /\ UNCHANGED <<first, last, mutex, fields, heap, elem, ret>>

ClearFirst(t) ==
  /\ Goto(t, "clearFirst", "unlock")
  /\ last' = NULL /\ first' = NULL
  /\ UNCHANGED <<size, mutex, fields, heap, elem, ret>>

Return(t) ==
  /\ Goto(t, "unlock", "idle")
  /\ Unlock(t)
  /\ UNCHANGED <<list, fields, heap, elem, ret>>

-----------------------------------------------------------------------------
Step(t) ==
  \/ AddAlloc(t) \/ AddLock(t) \/ AddLink(t) \/ AddLast(t) \/ AddSize(t)
  \/ NextLock(t) \/ NextNone(t) \/ NextPop(t) \/ NextFree(t) \/ NextLast(t)
  \/ ClearLock(t) \/ ClearFree(t) \/ ClearSize(t) \/ ClearFirst(t)
  \/ Return(t)

Next == \E t \in Threads : Step(t)

Spec == Init /\ [][Next]_vars

-----------------------------------------------------------------------------
(* Properties.                                                             *)

\* s lists the elements that first and next lead to; a list has one such s.
IsChain(s) ==
  /\ first = IF s = <<>> THEN NULL ELSE s[1]
  /\ \A i \in DOMAIN s : next[s[i]] = IF i = Len(s) THEN NULL ELSE s[i + 1]

Chains == {s \in SeqOf(Elems, Cardinality(Elems)) : IsChain(s)}
Chain == CHOOSE s \in Chains : TRUE

\* Where the owner of the mutex is.
Owner == IF mutex = NULL THEN "none" ELSE pc[mutex]

\* The elements the queue holds: an element being added counts from the
\* increment of size on, one being taken until the decrement.  queue_clear
\* empties the queue from its first free() on, since the elements it frees
\* stay linked while calloc may already reuse them.
Counted ==
  CASE Owner \in {"clear", "clearFirst"} -> <<>>
    [] Owner \in {"addLast", "addSize"}  -> Front(Chain)
    [] Owner = "nextFree"                -> <<elem[mutex]>> \o Chain
    [] OTHER                             -> Chain
Contents == [i \in DOMAIN Counted |-> payload[Counted[i]]]
Linked == {Chain[i] : i \in DOMAIN Chain}

TypeOK ==
  /\ {first, last} \subseteq Elems \union {NULL}
  /\ mutex \in Threads \union {NULL}
  /\ size \in Nat
  /\ next \in [Elems -> Elems \union {NULL}]
  /\ payload \in [Elems -> Items \union {NULL}]
  /\ heap \subseteq Elems
  /\ elem \in [Threads -> Elems \union {NULL}]
  /\ ret \in [Threads -> Items \union {NULL}]

\* Whenever the mutex is free the fields agree: first leads to NULL, size counts
\* the elements on the way, last is the last of them, and an empty queue has
\* neither end.
Consistent ==
  /\ TypeOK
  /\ mutex = NULL =>
       \E s \in Chains :
         /\ size = Len(s)
         /\ last = IF s = <<>> THEN NULL ELSE s[Len(s)]

\* No queue element leaks or dangles: when the mutex is free, the allocated
\* elements are the linked ones and those about to be added.
NoLeak ==
  mutex = NULL =>
    heap = Linked \union {elem[t] : t \in {u \in Threads : pc[u] = "addLock"}}

\* The size push_jpg_frame reads without the mutex is at every moment the
\* length of the queue: only queue_clear, which runs in the reading thread
\* itself, makes it wrong.
SizeExact == Owner \notin {"clear", "clearFirst"} => size = Len(Contents)

\* Refinement: the list is an atomic FIFO queue.
Fifo == INSTANCE FifoQueue WITH items <- Contents
ImplementsFifo == Fifo!FifoSpec

=============================================================================
