------------------------------- MODULE FifoQueue -------------------------------
(***************************************************************************)
(* What queue.h promises: queue_add puts an item behind the others,        *)
(* queue_next takes the oldest one if more than backbuffer are there and   *)
(* returns NULL otherwise, queue_clear drops them all; each of them is     *)
(* atomic.  VideoSession uses the queues in this form.                     *)
(***************************************************************************)
EXTENDS Naturals, Sequences

CONSTANTS Threads, Items, Backbuffer, NULL

VARIABLES items,   \* the queued items, oldest first
          ret      \* what each thread's last queue_next returned

fifo == <<items, ret>>

FifoInit == items = <<>> /\ ret = [t \in Threads |-> NULL]

Put(x) ==
  /\ items' = Append(items, x)
  /\ UNCHANGED ret

Take(t) ==
  /\ Len(items) > Backbuffer
  /\ items' = Tail(items)
  /\ ret' = [ret EXCEPT ![t] = Head(items)]

TakeNone(t) ==
  /\ Len(items) <= Backbuffer
  /\ ret' = [ret EXCEPT ![t] = NULL]
  /\ UNCHANGED items

Clear == items' = <<>> /\ UNCHANGED ret

FifoNext ==
  \/ \E x \in Items : Put(x)
  \/ \E t \in Threads : Take(t) \/ TakeNone(t)
  \/ Clear

FifoSpec == FifoInit /\ [][FifoNext]_fifo

=============================================================================
