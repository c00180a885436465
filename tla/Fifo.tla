--------------------------------- MODULE Fifo ---------------------------------
(***************************************************************************)
(* What a queue promises its users: the scheduler's run queue, the wait    *)
(* queues of futures, the sets of descriptors and roots, and backtraces.   *)
(***************************************************************************)
EXTENDS Naturals, Sequences, SequencesExt

CONSTANTS
  Word,   \* words that are enqueued
  None    \* no word

VARIABLES
  entries,  \* the words in the queue, oldest first
  result    \* what the last Dequeue returned

vars == <<entries, result>>

Init == entries = <<>> /\ result = None

Enqueue(w) ==
  /\ entries' = Append(entries, w)
  /\ UNCHANGED result

Dequeue ==
  /\ entries # <<>>
  /\ result' = Head(entries)
  /\ entries' = Tail(entries)

\* The oldest occurrence of w leaves the queue.
Withdraw(w) ==
  /\ \/ \E i \in DOMAIN entries :
          /\ entries[i] = w
          /\ \A j \in 1..(i - 1) : entries[j] # w
          /\ entries' = RemoveAt(entries, i)
     \/ /\ \A i \in DOMAIN entries : entries[i] # w
        /\ UNCHANGED entries
  /\ UNCHANGED result

WithdrawNth(n) ==
  /\ entries' = RemoveAt(entries, n + 1)
  /\ UNCHANGED result

Next ==
  \/ \E w \in Word : Enqueue(w) \/ Withdraw(w)
  \/ Dequeue
  \/ \E n \in 0..(Len(entries) - 1) : WithdrawNth(n)

Spec == Init /\ [][Next]_vars

=============================================================================
