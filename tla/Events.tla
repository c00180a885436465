------------------------------ MODULE Events ------------------------------
(* The loop of Scheduler::Run with signals, alarms and descriptors:      *)
(* between two threads, and when there is none to run, it looks for what *)
(* has happened outside.                                                 *)
EXTENDS Signals, Descriptors

CONSTANT Delays  \* the arguments of RegisterAlarm

ASSUME DelaysAssumption == Delays \subseteq Nat

vars == <<threads, status, signals, timers, descriptors>>

Init ==
    /\ queue = SetToSeq(Threads)
    /\ current = NoThread
    /\ pc = "dequeue"
    /\ terminated = {}
    /\ limit \in Limits
    /\ SignalsInit
    /\ DescriptorsInit

-----------------------------------------------------------------------------
(* The loop.                                                              *)

Dequeue ==
    /\ pc = "dequeue"
    /\ queue # <<>>
    /\ current' = Head(queue)
    /\ queue' = Tail(queue)
    /\ pc' = "run"
    /\ UNCHANGED <<terminated, limit, status, signals, timers, descriptors>>

QueueEmpty ==
    /\ pc = "dequeue"
    /\ queue = <<>>
    /\ pc' = "block"
    /\ UNCHANGED <<queue, current, terminated, limit, status, signals, timers, descriptors>>

(* Worker::PREEMPT and TERMINATE.                                        *)
Preempt ==
    /\ pc = "run"
    /\ operation = NoOperation
    /\ "preempt" \in status
    /\ queue' = Append(queue, current)
    /\ Leave
    /\ UNCHANGED <<terminated, limit, status, signals, timers, descriptors>>

Terminate ==
    /\ pc = "run"
    /\ operation = NoOperation
    /\ current \in Threads => retry[current] = 0
    /\ terminated' = terminated \cup {current}
    /\ Leave
    /\ UNCHANGED <<queue, limit, status, signals, timers, descriptors>>

CollectGarbage ==
    /\ pc = "gc"
    /\ pc' = "poll"
    /\ UNCHANGED <<queue, current, terminated, limit, status, signals, timers, descriptors>>

LoopStep ==
    \/ Dequeue \/ QueueEmpty \/ Preempt \/ CollectGarbage
    \/ (Poll \/ Block \/ EndSelect) /\ UNCHANGED <<status, signals, timers>>
    \/ (TestSignalStatus \/ HandlePendingSignals \/ ClearStatus) /\ UNCHANGED descriptors

-----------------------------------------------------------------------------
(* What threads do. A thread that was woken while it read or wrote does   *)
(* so again first.                                                        *)

Call(t) ==
    \/ /\ operation = NoOperation
       /\ t \in Threads => retry[t] = 0
       /\ \/ \E s \in SignalNames : RegisterSignal(s)
          \/ \E ms \in Delays : RegisterAlarm(ms)
          \/ t \in Threads /\ \E a \in DOMAIN due : Sleep(t, a)
       /\ UNCHANGED descriptors
    \/ /\ t \in Threads
       /\ \/ \E d \in Reachable \ {0} : ReadOrWrite(t, d)
          \/ WaitForDesc(t)
          \/ retry[t] = 0 /\ \/ \E dir \in {"reader", "writer"} : NewFromFD(dir)
                             \/ \E d \in reach : ReadOrWriteNonblocking(t, d) \/ DoBlock(t, d)
                                                 \/ WaitConnected(t, d)
                                                 \/ Close(d) \/ Forget(d)
       /\ UNCHANGED <<status, signals, timers>>

RunThread == \E t \in Threads \cup Handlers : Running(t) /\ Call(t)

Outside ==
    \/ (Tick \/ TimePasses \/ \E s \in SignalNames : Deliver(s)) /\ UNCHANGED descriptors
    \/ (\E f \in FDs : BecomeReady(f)) /\ UNCHANGED <<status, signals, timers>>

FinalizeSome == (\E d \in DOMAIN descs : Finalize(d)) /\ UNCHANGED <<status, signals, timers>>

Next == LoopStep \/ Terminate \/ RunThread \/ FinalizeSome \/ Outside

(* The loop goes on, a system call ends, and time passes. A thread that    *)
(* calls functions again and again tests in some of them whether it is to  *)
(* be preempted. The timer ticks, and is not in step with the loop: it     *)
(* does not tick only in the moment before the status word is cleared.     *)
Fairness ==
    /\ WF_vars(LoopStep)
    /\ SF_vars(Preempt)
    /\ WF_vars(RunThread /\ operation # NoOperation)
    /\ SF_vars(Tick /\ pc # "clear" /\ UNCHANGED descriptors)
    /\ WF_vars(TimePasses /\ UNCHANGED descriptors)

Spec == Init /\ [][Next]_vars /\ Fairness

-----------------------------------------------------------------------------
(* However events, closing and garbage collection interleave, a thread    *)
(* that has not terminated is in exactly one place: running, in the run   *)
(* queue, or in one wait queue that something will still empty. The same  *)
(* goes for the threads that call handlers.                               *)
Places(t) ==
    LET in(q) == Cardinality({i \in DOMAIN q : q[i] = t})
        sleeping == in(FlattenSeq([i \in DOMAIN alarms |-> sleepers[alarms[i]]]))
        waiting(s) == in(Waiters(sets[s]))
    IN  in(queue) + (IF current = t THEN 1 ELSE 0) + sleeping
        + waiting("Readable") + waiting("Writable") + waiting("Connected")

ThreadsAccounted ==
    /\ current # NoThread <=> pc = "run"
    /\ \A t \in Threads : Places(t) = (IF t \in terminated THEN 0 ELSE 1)
    /\ \A h \in Handlers : Places(h) = (IF h \in called \ terminated THEN 1 ELSE 0)

(* A file descriptor that threads wait for has one entry, is open and      *)
(* belongs to the IODesc they will try again: the system may give the     *)
(* number of one that was closed to another.                              *)
WaitersNotStale ==
    \A s \in SetNames : \A i, j \in DOMAIN sets[s] :
        /\ sets[s][i].fd \in open
        /\ sets[s][i].fd = sets[s][j].fd => i = j
        /\ \A t \in Range(sets[s][i].waiters) :
              retry[t] # 0 => /\ IsOpen(retry[t])
                              /\ descs[retry[t]].fd = sets[s][i].fd
                              /\ SetOf(retry[t]) = s

(* Every IODesc that is open will be finalized, none that is closed is,    *)
(* and a file descriptor is closed by its own IODesc only.                *)
OpenIffRegistered ==
    LET opened == {d \in DOMAIN descs : IsOpen(d)} IN
    /\ keys = opened
    /\ open = {descs[d].fd : d \in opened}
    /\ \A d, e \in opened : descs[d].fd = descs[e].fd => d = e

(* Whenever pending signals are handled, the alarms whose time has come    *)
(* are triggered, all of them and no others.                              *)
AlarmsOnTime ==
    [][pc = "handle" /\ pc' = "clear" =>
          \A a \in Range(alarms) : a \in Range(alarms') <=> due[a] > now]_vars

(* A signal with a handler leads to its call, also when it is delivered   *)
(* after the test of the status word and before the word is cleared.      *)
SignalsHandled ==
    \A h \in Handlers :
        (\E s \in SignalNames : pending[s] > 0 /\ h \in Range(handlers[s])) ~> h \in called

(* A thread whose alarm is due wakes up, also while others keep running.   *)
SleepersWake ==
    \A t \in Threads :
        (\E a \in Range(alarms) : t \in Range(sleepers[a]) /\ due[a] <= now) ~> t \in Range(queue)

(* Nobody waits for ever for a file descriptor that stays ready: its        *)
(* waiters are scheduled, unless another thread takes the data first.       *)
ReadyWakes == \A f \in FDs : f \in EntryFDs \cap ready ~> f \notin EntryFDs \cap ready
=============================================================================
