----------------------------- MODULE Waiting -----------------------------
(* The threads as SignalHandler.cc, IOHandler.cc and IODesc.cc see them: *)
(* the run queue, the thread that runs, and the step of Scheduler::Run   *)
(* that is next. Scheduler.tla has the rest of the scheduler.            *)
EXTENDS Integers, Sequences, FiniteSets, SequencesExt, Filter

CONSTANTS
    Threads,     \* the threads of the program
    MaxHandlers, \* the number of signal handlers that are registered
    Limits       \* how many alarms, handlers and IODescs there are, and how long

NoThread == 0
Handlers == 1..MaxHandlers  \* a handler names the thread that calls it

ASSUME ThreadsAssumption ==
    /\ IsFiniteSet(Threads) /\ MaxHandlers \in Nat
    /\ Threads \cap (Handlers \cup {NoThread}) = {}
    /\ Limits \subseteq [alarms : Nat, handlers : 0..MaxHandlers, descs : Nat, time : Nat]

VARIABLES
    queue,    \* threadQueue
    current,  \* currentThread, or NoThread
    pc,       \* the step of Scheduler::Run
    terminated, \* the threads that have been terminated
    limit     \* one of the Limits

threads == <<queue, current, pc, terminated, limit>>

Running(t) == pc = "run" /\ current = t

(* The thread that ran leaves; the loop goes on between two threads.     *)
Leave ==
    /\ current' = NoThread
    /\ pc' = "gc"
=============================================================================
