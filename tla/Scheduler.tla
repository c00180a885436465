------------------------------ MODULE Scheduler ------------------------------
(***************************************************************************)
(* The green-thread scheduler of SEAM and the transients its threads       *)
(* synchronise on: generic/Scheduler.{cc,hh}, generic/Thread.hh,           *)
(* generic/Transients.hh, generic/BindFutureWorker.cc and                  *)
(* generic/PushCallWorker.cc.                                              *)
(*                                                                         *)
(* One operating-system thread multiplexes all SEAM threads: it dequeues a *)
(* thread, runs the worker of its topmost stack frame until a result ends  *)
(* the slice, polls for events and starts over.  A language layer's code   *)
(* (the worker of a "Code" frame) is outside the repository; it is the     *)
(* environment that calls the scheduler's and the transients' functions in *)
(* any order and returns any result.                                       *)
(*                                                                         *)
(* A task stack is abstracted to three layers, bottom up: the base frame   *)
(* (EmptyTask, possibly under one BindFuture or UncaughtException frame),  *)
(* the frames of language code as one (code), and a pending PushCall frame *)
(* (callee).                                                               *)
(***************************************************************************)
EXTENDS Naturals, Sequences, SequencesExt

CONSTANTS
  Thread,       \* thread blocks that can be allocated
  Transient,    \* transient blocks that can be allocated
  Value,        \* determined words: closures, integers, blocks
  None,         \* INVALID_POINTER, or an integer in a pointer field
  ExnClosures   \* length of TaskStack::uncaughtExceptionClosures

Word == Value \cup Transient

Bindings == [future : Transient \cup {None}, hole : Transient \cup {None},
             label : {"REF", "CANCELLED"}, ref : Word]

ASSUME ConstantsAssumption ==
  /\ None \notin Thread \cup Word \cup Nat \cup Bindings
  /\ Transient \cap Value = {}
  /\ ExnClosures \in Nat

VARIABLES
  wThreadQueue,   \* run queue
  currentThread,  \* running thread, None between slices
  phase,          \* where Scheduler::Run is
  status,         \* StatusWord::GetStatus() # 0
  state,          \* Thread STATE_POS, "UNBORN" before allocation
  suspended,      \* Thread IS_SUSPENDED_POS
  future,         \* Thread FUTURE_POS
  callee,         \* closure of the PushCall frame on top of the stack
  code,           \* are there frames of language code on the stack?
  binds,          \* future of the BindFuture frame at the bottom
  uncaught,       \* closures left in the UncaughtException frame
  args,           \* argument register, while a BindFuture frame will read it
  label,          \* label of a transient, "FREE" before allocation
  ref,            \* argument of a REF
  assoc,          \* associated future of a hole (kept after the hole is gone)
  waitQueue,      \* argument of a FUTURE
  made,           \* history: the constructor that allocated the transient
  binding         \* ScheduleWaitingThreads(); Become() in progress

schedVars == <<wThreadQueue, currentThread, phase, status>>
threadVars == <<state, suspended, future>>
stackVars == <<callee, code, binds, uncaught, args>>
transientVars == <<label, ref, assoc, waitQueue, made>>
vars == <<schedVars, threadVars, stackVars, transientVars, binding>>

(***************************************************************************)
(* Words and references.                                                   *)
(***************************************************************************)
IsRef(w) == w \in Transient /\ label[w] = "REF"

ClosedUnderRef(S) == \A r \in S : IsRef(r) => ref[r] \in S

\* v is on the chain of references that starts at w.
Reaches(w, v) ==
  \A S \in SUBSET Word : w \in S /\ ClosedUnderRef(S) => v \in S

\* PointerOp::Deref: the end of the chain of references from w.
Ends(w) == {v \in Word : ~IsRef(v) /\ Reaches(w, v)}
Deref(w) == CHOOSE v \in Ends(w) : TRUE

\* Store::WordToTransient(w) != INVALID_POINTER.
IsTransient(w) == Deref(w) \in Transient

Allocated(w) == w \in Value \/ (w \in Transient /\ label[w] # "FREE")

Words == {w \in Word : Allocated(w)}

Unborn == {t \in Thread : state[t] = "UNBORN"}

Free == {x \in Transient : label[x] = "FREE"}

Occurs(t, q) == \E i \in DOMAIN q : q[i] = t

\* Queue::Remove: the first occurrence of t leaves the queue.
RemoveThread(q, t) ==
  IF Occurs(t, q)
  THEN RemoveAt(q, CHOOSE k \in DOMAIN q :
                     q[k] = t /\ \A i \in 1..(k - 1) : q[i] # t)
  ELSE q

-----------------------------------------------------------------------------
(***************************************************************************)
(* The worker of the topmost stack frame, and the scheduler states in      *)
(* which a worker's Run is active.                                         *)
(***************************************************************************)
TopFrame(t) ==
  CASE callee[t] # None   -> "PushCall"
    [] callee[t] = None /\ code[t] -> "Code"
    [] callee[t] = None /\ ~code[t] /\ uncaught[t] # None -> "UncaughtException"
    [] callee[t] = None /\ ~code[t] /\ uncaught[t] = None /\ binds[t] # None
         -> "BindFuture"
    [] OTHER -> "EmptyTask"

Running(frame) ==
  /\ phase = "run" /\ binding = None
  /\ TopFrame(currentThread) = frame

\* FlushThread and leave the inner loop (nextThread = true).
EndSlice ==
  /\ currentThread' = None
  /\ phase' = "events"

\* Mutant: the preempted thread goes to the front of the queue.
PreemptToFront ==
  /\ wThreadQueue' = <<currentThread>> \o wThreadQueue
  /\ EndSlice
  /\ UNCHANGED <<status, threadVars, transientVars, binding>>

\* case Worker::PREEMPT.
Preempt ==
  /\ wThreadQueue' = Append(wThreadQueue, currentThread)
  /\ EndSlice
  /\ UNCHANGED <<status, threadVars, transientVars, binding>>

\* Start ScheduleWaitingThreads() on f and Become(l, w) on f and h.
StartBinding(f, h, l, w) ==
  binding' = [future |-> f, hole |-> h, label |-> l, ref |-> w]

-----------------------------------------------------------------------------
(***************************************************************************)
(* Scheduler::Run, outer loop.                                             *)
(***************************************************************************)

\* Dequeue a thread and switch to it.
Dispatch ==
  /\ phase = "dispatch" /\ wThreadQueue # <<>>
  /\ currentThread' = Head(wThreadQueue)
  /\ wThreadQueue' = Tail(wThreadQueue)
  /\ phase' = "run"
  /\ UNCHANGED <<status, threadVars, stackVars, transientVars, binding>>

\* The run queue is empty: IOHandler::Block() waits for events.
Block ==
  /\ phase = "dispatch" /\ wThreadQueue = <<>>
  /\ phase' = "events"
  /\ UNCHANGED <<wThreadQueue, currentThread, status, threadVars, stackVars,
                 transientVars, binding>>

\* IOHandler::Poll()/Block() and HandlePendingSignals() are over.
ClearStatus ==
  /\ phase = "events" /\ binding = None
  /\ status' = FALSE
  /\ phase' = "dispatch"
  /\ UNCHANGED <<wThreadQueue, currentThread, threadVars, stackVars,
                 transientVars, binding>>

\* The timer's signal handler sets PreemptStatus() and SignalStatus().
Tick ==
  /\ ~status /\ phase # "exit"
  /\ status' = TRUE
  /\ UNCHANGED <<wThreadQueue, currentThread, phase, threadVars, stackVars,
                 transientVars, binding>>

-----------------------------------------------------------------------------
(***************************************************************************)
(* ScheduleWaitingThreads(), then Become(): no scheduler step happens      *)
(* before both are complete.                                               *)
(***************************************************************************)

\* Mutant: the thread becomes runnable but is not scheduled.
ScheduleNever(t) == UNCHANGED wThreadQueue

\* ScheduleThread, unless the thread is suspended.
ScheduleUnlessSuspended(t) ==
  wThreadQueue' = IF suspended[t] THEN wThreadQueue
                                  ELSE Append(wThreadQueue, t)

\* One iteration: WakeupThread(waitQueue->Dequeue()).
WakeupThread ==
  /\ binding # None /\ binding.future # None
  /\ waitQueue[binding.future] # <<>>
  /\ LET f == binding.future
         t == Head(waitQueue[f])
     IN /\ waitQueue' = [waitQueue EXCEPT ![f] = Tail(@)]
        /\ state' = [state EXCEPT ![t] = "RUNNABLE"]
        /\ future' = [future EXCEPT ![t] = None]
        /\ ScheduleUnlessSuspended(t)
  /\ UNCHANGED <<currentThread, phase, status, suspended, stackVars,
                 label, ref, assoc, made, binding>>

\* Mutant: once the associated future is bound the hole itself is forgotten.
TargetsFutureOnly ==
  {IF binding.future = None THEN binding.hole ELSE binding.future}

\* The transients that Become: the future, the hole, or both.
Targets == {binding.future, binding.hole} \ {None}

\* Become(REF_LABEL, w) stores the dereferenced word.
Become ==
  /\ binding # None
  /\ binding.future # None => waitQueue[binding.future] = <<>>
  /\ label' = [x \in Transient |->
                 IF x \in Targets THEN binding.label ELSE label[x]]
  /\ ref' = [x \in Transient |->
               IF x \in Targets /\ binding.label = "REF"
               THEN Deref(binding.ref) ELSE ref[x]]
  /\ binding' = None
  /\ UNCHANGED <<schedVars, threadVars, stackVars, assoc, waitQueue, made>>

-----------------------------------------------------------------------------
(***************************************************************************)
(* Results of a worker.                                                    *)
(***************************************************************************)

\* DoRaise: unwind to the topmost handler.  A handler installed by language
\* code is optional; each base frame has one.
RaiseInCode ==
  /\ code[currentThread]
  /\ callee' = [callee EXCEPT ![currentThread] = None]
  /\ UNCHANGED <<schedVars, threadVars, code, binds, uncaught, args,
                 transientVars, binding>>

RaiseInUncaught ==
  /\ uncaught[currentThread] # None
  /\ callee' = [callee EXCEPT ![currentThread] = None]
  /\ code' = [code EXCEPT ![currentThread] = FALSE]
  /\ UNCHANGED <<schedVars, threadVars, binds, uncaught, args,
                 transientVars, binding>>

\* BindFutureWorker::Handle.
RaiseInBindFuture ==
  LET c == currentThread IN
  /\ binds[c] # None
  /\ StartBinding(binds[c], None, "CANCELLED", binds[c])
  /\ callee' = [callee EXCEPT ![c] = None]
  /\ code' = [code EXCEPT ![c] = FALSE]
  /\ binds' = [binds EXCEPT ![c] = None]
  /\ UNCHANGED <<schedVars, threadVars, uncaught, args, transientVars>>

\* EmptyTaskWorker::Handle.
RaiseInEmptyTask ==
  LET c == currentThread IN
  /\ binds[c] = None /\ uncaught[c] = None
  /\ callee' = [callee EXCEPT ![c] = None]
  /\ code' = [code EXCEPT ![c] = FALSE]
  /\ IF ExnClosures = 0
     THEN phase' = "exit" /\ UNCHANGED uncaught
     ELSE uncaught' = [uncaught EXCEPT ![c] = ExnClosures] /\ UNCHANGED phase
  /\ UNCHANGED <<wThreadQueue, currentThread, status, threadVars, binds, args,
                 transientVars, binding>>

DoRaise ==
  RaiseInCode \/ RaiseInUncaught \/ RaiseInBindFuture \/ RaiseInEmptyTask

\* Mutant: every thread that waits gets a new wait queue.
BlockOnNewQueue(f) ==
  /\ waitQueue' = [waitQueue EXCEPT ![f] = <<currentThread>>]
  /\ state' = [state EXCEPT ![currentThread] = "BLOCKED"]
  /\ future' = [future EXCEPT ![currentThread] = f]
  /\ EndSlice

\* FlushThread, AddToWaitQueue and BlockOn the future f.
BlockOn(f) ==
  /\ waitQueue' = [waitQueue EXCEPT ![f] = Append(@, currentThread)]
  /\ state' = [state EXCEPT ![currentThread] = "BLOCKED"]
  /\ future' = [future EXCEPT ![currentThread] = f]
  /\ EndSlice

\* case Worker::REQUEST; pending is the closure of the PushCall frame that
\* the request leaves on top of the stack, if any.
RequestFuture(x, pending) ==
  /\ label[x] = "FUTURE"
  /\ BlockOn(x)
  /\ callee' = [callee EXCEPT ![currentThread] = pending]
  /\ UNCHANGED <<wThreadQueue, status, suspended, code, binds, uncaught, args,
                 label, ref, assoc, made, binding>>

\* Mutant: the case of a cancelled transient falls through to this one.
IsByneedOrCancelled(x) == label[x] \in {"CANCELLED", "BYNEED"}

\* case BYNEED_LABEL.
IsByneed(x) == label[x] = "BYNEED"

\* Mutant: the transient remains a byneed while it is evaluated.
BecomeFutureLater(x) == UNCHANGED label

BecomeFuture(x) == label' = [label EXCEPT ![x] = "FUTURE"]

\* A new thread evaluates the byneed's closure and binds it as a future.
RequestByneed(x, pending) ==
  /\ IsByneed(x)
  /\ \E n \in Unborn, closure \in Value :
       /\ wThreadQueue' = Append(wThreadQueue, n)
       /\ waitQueue' = [waitQueue EXCEPT ![x] = <<currentThread>>]
       /\ state' = [state EXCEPT ![n] = "RUNNABLE",
                                 ![currentThread] = "BLOCKED"]
       /\ future' = [future EXCEPT ![currentThread] = x]
       /\ callee' = [callee EXCEPT ![n] = closure, ![currentThread] = pending]
       /\ binds' = [binds EXCEPT ![n] = x]
  /\ BecomeFuture(x)
  /\ EndSlice
  /\ UNCHANGED <<status, suspended, code, uncaught, args, ref, assoc, made,
                 binding>>

\* HeapChunk::Alloc asserts that memory is left: the process stops when the
\* evaluating thread cannot be allocated.
OutOfStore(x) ==
  /\ IsByneed(x) /\ Unborn = {}
  /\ phase' = "exit"
  /\ UNCHANGED <<wThreadQueue, currentThread, status, threadVars, stackVars,
                 transientVars, binding>>

RequestRaises(x) == label[x] \in {"HOLE", "CANCELLED"} /\ DoRaise

Request(w, pending) ==
  LET x == Deref(w) IN
  /\ x \in Transient
  /\ \/ RequestFuture(x, pending)
     \/ RequestByneed(x, pending)
     \/ OutOfStore(x)
     \/ RequestRaises(x)

\* Scheduler::PushCall(w): the closure, or its concrete code, may be a
\* transient and is requested; otherwise a frame of language code is pushed.
PushCall(w) ==
  \/ Request(w, w)
  \/ /\ ~IsTransient(w)
     /\ \E concreteCode \in Words : Request(concreteCode, w)
  \/ /\ ~IsTransient(w)
     /\ callee' = [callee EXCEPT ![currentThread] = None]
     /\ code' = [code EXCEPT ![currentThread] = TRUE]
     /\ UNCHANGED <<binds, uncaught, args>>
     /\ IF status THEN Preempt
                  ELSE UNCHANGED <<schedVars, threadVars, transientVars, binding>>

-----------------------------------------------------------------------------
(***************************************************************************)
(* Workers of the scheduler's own frames.                                  *)
(***************************************************************************)
RunPushCall ==
  /\ Running("PushCall")
  /\ PushCall(callee[currentThread])

\* Bind the future to the argument, or cancel it with Hole.Cyclic.
RunBindFuture ==
  /\ Running("BindFuture")
  /\ LET c == currentThread
         f == binds[c]
     IN /\ IF Deref(args[c]) = f
           THEN StartBinding(f, None, "CANCELLED", f)
           ELSE StartBinding(f, None, "REF", args[c])
        /\ binds' = [binds EXCEPT ![c] = None]
        /\ args' = [args EXCEPT ![c] = None]
  /\ UNCHANGED <<schedVars, threadVars, callee, code, uncaught, transientVars>>

\* Mutant: the end of the list of closures is not noticed.
ClosuresLeftAlways(t) == TRUE

\* exnHandlers != Store::IntToWord(0).
ClosuresLeft(t) == uncaught[t] # 0

\* Call the next closure, or exit.
RunUncaughtException ==
  /\ Running("UncaughtException")
  /\ \/ /\ ~ClosuresLeft(currentThread)
        /\ phase' = "exit"
        /\ UNCHANGED <<wThreadQueue, currentThread, status, threadVars,
                       stackVars, transientVars, binding>>
     \/ /\ ClosuresLeft(currentThread)
        /\ uncaught' = [uncaught EXCEPT ![currentThread] = @ - 1]
        /\ \E closure \in Value :
             callee' = [callee EXCEPT ![currentThread] = closure]
        /\ UNCHANGED <<schedVars, threadVars, code, binds, args,
                       transientVars, binding>>

\* EmptyTaskWorker::Run and case Worker::TERMINATE.
RunEmptyTask ==
  /\ Running("EmptyTask")
  /\ state' = [state EXCEPT ![currentThread] = "TERMINATED"]
  /\ future' = [future EXCEPT ![currentThread] = None]
  /\ EndSlice
  /\ UNCHANGED <<wThreadQueue, status, suspended, stackVars, transientVars,
                 binding>>

-----------------------------------------------------------------------------
(***************************************************************************)
(* Language code: the functions it calls.                                  *)
(***************************************************************************)

\* Scheduler::NewThread(closure, nArgs, args).
NewThread(t, closure) ==
  /\ t \in Unborn
  /\ state' = [state EXCEPT ![t] = "RUNNABLE"]
  /\ callee' = [callee EXCEPT ![t] = closure]
  /\ wThreadQueue' = Append(wThreadQueue, t)
  /\ UNCHANGED <<currentThread, phase, status, suspended, future, code, binds,
                 uncaught, args, transientVars, binding>>

\* Hole::New, Future::New, Byneed::New.
NewTransient(x, l) ==
  /\ x \in Free
  /\ label' = [label EXCEPT ![x] = l]
  /\ made' = [made EXCEPT ![x] = l]
  /\ UNCHANGED <<schedVars, threadVars, stackVars, ref, assoc, waitQueue,
                 binding>>

\* Hole::GetFuture, when there is no associated future yet.
GetFuture(h, f) ==
  /\ label[h] = "HOLE" /\ assoc[h] = None /\ f \in Free
  /\ label' = [label EXCEPT ![f] = "FUTURE"]
  /\ made' = [made EXCEPT ![f] = "ASSOC"]
  /\ assoc' = [assoc EXCEPT ![h] = f]
  /\ UNCHANGED <<schedVars, threadVars, stackVars, ref, waitQueue, binding>>

\* Mutant: binding a hole to its own future is not noticed.
CyclicBindHoleOnly(h, w) == Deref(w) = h

\* The tests of Hole::Fill for a cyclic binding.
CyclicBind(h, w) == Deref(w) = h \/ Deref(w) = assoc[h]

\* Hole::Fill.
Fill(h, w) ==
  /\ label[h] = "HOLE"
  /\ ~CyclicBind(h, w)
  /\ StartBinding(assoc[h], h, "REF", w)
  /\ UNCHANGED <<schedVars, threadVars, stackVars, transientVars>>

\* Hole::Fail.
Fail(h) ==
  /\ label[h] = "HOLE"
  /\ StartBinding(assoc[h], h, "CANCELLED", h)
  /\ UNCHANGED <<schedVars, threadVars, stackVars, transientVars>>

\* Mutant: the suspended thread stays in the run queue.
SuspendThreadInQueue(t) ==
  /\ t # currentThread /\ state[t] # "UNBORN"
  /\ suspended' = [suspended EXCEPT ![t] = TRUE]
  /\ UNCHANGED <<wThreadQueue, currentThread, phase, status, state, future,
                 stackVars, transientVars, binding>>

\* Scheduler::SuspendThread.  It purges the thread's task stack, which a
\* running thread does not hold: the thread is not the current one.
SuspendThread(t) ==
  /\ t # currentThread /\ state[t] # "UNBORN"
  /\ suspended' = [suspended EXCEPT ![t] = TRUE]
  /\ wThreadQueue' = IF state[t] = "RUNNABLE" THEN RemoveThread(wThreadQueue, t)
                                              ELSE wThreadQueue
  /\ UNCHANGED <<currentThread, phase, status, state, future, stackVars,
                 transientVars, binding>>

\* Scheduler::ResumeThread.
ResumeThread(t) ==
  /\ suspended[t]
  /\ suspended' = [suspended EXCEPT ![t] = FALSE]
  /\ wThreadQueue' = IF state[t] = "RUNNABLE" THEN Append(wThreadQueue, t)
                                              ELSE wThreadQueue
  /\ UNCHANGED <<currentThread, phase, status, state, future, stackVars,
                 transientVars, binding>>

\* The future of a stream, a file descriptor or an alarm is bound by
\* Stream::SendEvent, IOHandler or SignalHandler::CheckAlarms.
BindFuture(f, w) ==
  /\ label[f] = "FUTURE" /\ made[f] = "FUTURE"
  /\ StartBinding(f, None, "REF", w)
  /\ UNCHANGED <<schedVars, threadVars, stackVars, transientVars>>

(***************************************************************************)
(* Language code: the results its worker returns.                          *)
(***************************************************************************)

\* CONTINUE after popping the last frame of code, with result w.
Return(w) ==
  /\ code' = [code EXCEPT ![currentThread] = FALSE]
  /\ args' = [args EXCEPT ![currentThread] =
                IF uncaught[currentThread] = None /\ binds[currentThread] # None
                THEN w ELSE None]
  /\ UNCHANGED <<schedVars, threadVars, callee, binds, uncaught,
                 transientVars, binding>>

\* case Worker::SUSPEND.
Suspend ==
  /\ suspended' = [suspended EXCEPT ![currentThread] = TRUE]
  /\ EndSlice
  /\ UNCHANGED <<wThreadQueue, status, state, future, stackVars,
                 transientVars, binding>>

\* case Worker::PREEMPT, and the preemption of a call.
Yield == Preempt /\ UNCHANGED stackVars

\* case Worker::EXIT.
Exit ==
  /\ phase' = "exit"
  /\ UNCHANGED <<wThreadQueue, currentThread, status, threadVars, stackVars,
                 transientVars, binding>>

PreemptCode == Running("Code") /\ status /\ Yield

RunCode ==
  /\ Running("Code")
  /\ \/ \E t \in Thread, closure \in Words : NewThread(t, closure)
     \/ \E x \in Transient, l \in {"HOLE", "FUTURE", "BYNEED"} :
          NewTransient(x, l)
     \/ \E h, f \in Transient : GetFuture(h, f)
     \/ \E h \in Transient, w \in Words : Fill(h, w)
     \/ \E h \in Transient : Fail(h)
     \/ \E t \in Thread : SuspendThread(t) \/ ResumeThread(t)
     \/ \E f \in Transient, w \in Value : BindFuture(f, w)
     \/ \E w \in Words : PushCall(w) \/ Request(w, None) \/ Return(w)
     \/ DoRaise
     \/ Suspend
     \/ Yield
     \/ Exit

\* Events between two slices: descriptors become ready, alarms fire and
\* handlers of signals run in new threads.
RunEvents ==
  /\ phase = "events" /\ binding = None
  /\ \/ \E f \in Transient, w \in Value : BindFuture(f, w)
     \/ \E t \in Thread, closure \in Value : NewThread(t, closure)

\* Scheduler::Run has returned.
Exited == phase = "exit" /\ UNCHANGED vars

-----------------------------------------------------------------------------
Init ==
  /\ currentThread = None /\ phase = "dispatch" /\ status = FALSE
  /\ \E main \in Thread, closure \in Value :
       /\ wThreadQueue = <<main>>
       /\ state = [t \in Thread |-> IF t = main THEN "RUNNABLE" ELSE "UNBORN"]
       /\ callee = [t \in Thread |-> IF t = main THEN closure ELSE None]
  /\ suspended = [t \in Thread |-> FALSE]
  /\ future = [t \in Thread |-> None]
  /\ code = [t \in Thread |-> FALSE]
  /\ binds = [t \in Thread |-> None]
  /\ uncaught = [t \in Thread |-> None]
  /\ args = [t \in Thread |-> None]
  /\ label = [x \in Transient |-> "FREE"]
  /\ ref = [x \in Transient |-> None]
  /\ assoc = [x \in Transient |-> None]
  /\ waitQueue = [x \in Transient |-> <<>>]
  /\ made = [x \in Transient |-> "FREE"]
  /\ binding = None

RunFrame == RunPushCall \/ RunBindFuture \/ RunUncaughtException \/ RunEmptyTask

Loop == Dispatch \/ Block \/ ClearStatus \/ WakeupThread \/ Become

Next == Loop \/ RunFrame \/ RunCode \/ RunEvents \/ Tick \/ Exited

Spec == Init /\ [][Next]_vars

\* The loop never stops by itself, the timer ticks, and code that runs with
\* the status word set reaches a call, where it is preempted.
Fairness == WF_vars(Loop) /\ WF_vars(RunFrame) /\ WF_vars(Tick)
            /\ WF_vars(PreemptCode)

FairSpec == Spec /\ Fairness

-----------------------------------------------------------------------------
(***************************************************************************)
(* Properties.                                                             *)
(***************************************************************************)
NoDuplicates(q) == \A i, j \in DOMAIN q : q[i] = q[j] => i = j

Labels == {"FREE", "HOLE", "FUTURE", "BYNEED", "REF", "CANCELLED"}

\* Type correctness of the scheduler's, the threads' and the transients' state.
TypeOK ==
  /\ wThreadQueue \in Seq(Thread)
  /\ currentThread \in Thread \cup {None}
  /\ phase \in {"dispatch", "run", "events", "exit"}
  /\ currentThread # None <=> phase \in {"run", "exit"}
  /\ status \in BOOLEAN
  /\ state \in [Thread -> {"UNBORN", "RUNNABLE", "BLOCKED", "TERMINATED"}]
  /\ suspended \in [Thread -> BOOLEAN]
  /\ future \in [Thread -> Transient \cup {None}]
  /\ callee \in [Thread -> Word \cup {None}]
  /\ code \in [Thread -> BOOLEAN]
  /\ binds \in [Thread -> Transient \cup {None}]
  /\ uncaught \in [Thread -> (0..ExnClosures) \cup {None}]
  /\ args \in [Thread -> Word \cup {None}]
  /\ label \in [Transient -> Labels]
  /\ ref \in [Transient -> Word \cup {None}]
  /\ assoc \in [Transient -> Transient \cup {None}]
  /\ waitQueue \in [Transient -> Seq(Thread)]
  /\ made \in [Transient -> {"FREE", "HOLE", "FUTURE", "BYNEED", "ASSOC"}]
  /\ binding \in Bindings \cup {None}

\* Between slices and during one, the run queue holds exactly the threads
\* that can run, once each: a suspended or blocked thread is never
\* dispatched, no runnable thread is forgotten, and no thread is scheduled
\* twice (the precondition of ScheduleThread, and the two asserts of
\* SwitchToThread).
RunQueueExact ==
  /\ NoDuplicates(wThreadQueue)
  /\ \A t \in Thread :
       Occurs(t, wThreadQueue) <=>
         state[t] = "RUNNABLE" /\ ~suspended[t] /\ t # currentThread
  /\ phase = "run" =>
       state[currentThread] = "RUNNABLE" /\ ~suspended[currentThread]

\* No wakeup is lost: a thread is blocked exactly when it waits, once, in the
\* queue of the one future it recorded in BlockOn, and only futures that are
\* not bound yet have waiters (Future::AddToWaitQueue, ScheduleWaitingThreads).
WaitersExact ==
  /\ \A t \in Thread : state[t] = "BLOCKED" <=> future[t] # None
  /\ \A t \in Thread, x \in Transient :
       Occurs(t, waitQueue[x]) <=> future[t] = x
  /\ \A x \in Transient :
       /\ NoDuplicates(waitQueue[x])
       /\ waitQueue[x] # <<>> => label[x] = "FUTURE"

\* Dereferencing terminates: whatever transients are bound to one another,
\* by Hole::Fill or BindFutureWorker, references never form a cycle.
RefsResolve ==
  \A w \in Word : Ends(w) # {} /\ (IsRef(w) => ref[w] \in Word)

\* A byneed is evaluated once: as long as its future is not bound there is
\* exactly one thread, not terminated, that will bind it, and no thread ever
\* finds its future bound by someone else (assert in BindFutureFrame::GetFuture).
EvaluatorExact ==
  /\ \A t \in Thread : binds[t] # None =>
       /\ label[binds[t]] = "FUTURE" /\ made[binds[t]] = "BYNEED"
       /\ state[t] \in {"RUNNABLE", "BLOCKED"}
       /\ binding # None => binding.future # binds[t]
  /\ \A t, u \in Thread : binds[t] = binds[u] /\ binds[t] # None => t = u
  /\ \A x \in Transient : made[x] = "BYNEED" /\ label[x] = "FUTURE" =>
       \/ \E t \in Thread : binds[t] = x
       \/ binding # None /\ binding.future = x

\* A hole and its associated future are two views of one variable: they are
\* unbound together, and bound to the same word or failed together.
HoleFutureAgree ==
  \A h \in Transient : assoc[h] # None =>
    \/ label[h] = "HOLE" /\ label[assoc[h]] = "FUTURE"
    \/ label[h] = "REF" /\ label[assoc[h]] = "REF" /\ ref[h] = ref[assoc[h]]
    \/ label[h] = "CANCELLED" /\ label[assoc[h]] = "CANCELLED"

\* The tests made before waking the waiters still hold when the transients
\* are bound after it: they are still unbound, nobody else binds them, and the
\* word does not refer back to them (Hole::Fill, BindFutureWorker::Run).
BindingSound ==
  binding # None =>
    /\ phase \in {"run", "events"}
    /\ binding.future # None => label[binding.future] = "FUTURE"
    /\ IF binding.hole # None
       THEN label[binding.hole] = "HOLE" /\ assoc[binding.hole] = binding.future
       ELSE /\ binding.future # None
            /\ made[binding.future] \in {"FUTURE", "BYNEED"}
    /\ binding.label = "REF" => Deref(binding.ref) \notin Targets

\* Where transients come from: labels agree with constructors, and an
\* associated future belongs to one hole (Hole::GetFuture).
Origins ==
  /\ \A x \in Transient : made[x] = "FREE" <=> label[x] = "FREE"
  /\ \A x \in Transient : label[x] \in {"HOLE", "BYNEED"} => made[x] = label[x]
  /\ \A h \in Transient : assoc[h] # None =>
       made[h] = "HOLE" /\ made[assoc[h]] = "ASSOC"
  /\ \A h, k \in Transient : assoc[h] = assoc[k] /\ assoc[h] # None => h = k

\* Shape of a task stack: a BindFuture frame excludes an UncaughtException
\* frame, and is only uncovered by a frame that left a result for it.
StacksOK ==
  /\ \A t \in Thread : uncaught[t] # None => binds[t] = None
  /\ \A t \in Thread : binds[t] # None /\ ~code[t] /\ callee[t] = None =>
       args[t] \in Word
  /\ \A t \in Unborn : ~suspended[t] /\ uncaught[t] = None

Determined(w) ==
  Allocated(w) /\ (Deref(w) \in Value \/ label[Deref(w)] = "CANCELLED")

\* Single assignment: once a word dereferences to a value or to a failed
\* transient, no later step of any thread makes it dereference to another.
SingleAssignment ==
  [][\A w \in Word : Determined(w) => Deref(w)' = Deref(w) /\ Determined(w)']_vars

\* A thread in the run queue is eventually dispatched, unless another thread
\* suspends it or the system exits.
QueuedThreadsRun ==
  \A t \in Thread :
    Occurs(t, wThreadQueue) ~>
      (currentThread = t \/ suspended[t] \/ phase = "exit")

\* Whoever waits for a future that is being bound eventually runs again,
\* unless it is suspended or the system exits.
WaitersRun ==
  \A t \in Thread :
    (binding # None /\ binding.future # None /\ future[t] = binding.future) ~>
      (currentThread = t \/ suspended[t] \/ phase = "exit")

=============================================================================
