----------------------------- MODULE Signals -----------------------------
(* generic/SignalHandler.cc: the status word, signals with handlers that *)
(* are called once, and alarms.                                          *)
EXTENDS Waiting

CONSTANTS
    SignalNames,  \* the signals of the table sigHandlers
    MaxPending    \* how often a signal is delivered before it is handled

ASSUME SignalsAssumption == IsFiniteSet(SignalNames) /\ MaxPending \in Nat

VARIABLES
    status,    \* StatusWord: the flags that are set
    installed, \* the signals with MySignalHandler
    pending,   \* SignalEntry.pending
    handlers,  \* SignalEntry.handlers
    called,    \* the handlers that have been called (for properties)
    alarms,    \* alarmHandlers: the numbers of the alarms, sorted
    due,       \* the time of each alarm
    sleepers,  \* the wait queue of the future of each alarm
    now        \* Time::GetElapsedMicroseconds

signals == <<installed, pending, handlers, called>>
timers == <<alarms, due, sleepers, now>>

SignalsInit ==
    /\ status = {}
    /\ installed = {}
    /\ pending = [s \in SignalNames |-> 0]
    /\ handlers = [s \in SignalNames |-> <<>>]
    /\ called = {}
    /\ alarms = <<>>
    /\ due = <<>>
    /\ sleepers = <<>>
    /\ now = 0

-----------------------------------------------------------------------------
(* What comes from outside at any time but when signals are blocked,     *)
(* that is, between steps. A select that waits ends.                     *)

Interrupt == pc' = IF pc = "select" THEN "test" ELSE pc

(* Timer::Update                                                         *)
Tick ==
    /\ status' = {"preempt", "signal"}
    /\ Interrupt
    /\ UNCHANGED <<queue, current, terminated, limit, signals, timers>>

(* MySignalHandler                                                       *)
Deliver(s) ==
    /\ s \in installed
    /\ pending[s] < MaxPending
    /\ pending' = [pending EXCEPT ![s] = @ + 1]
    /\ status' = status \cup {"signal"}
    /\ Interrupt
    /\ UNCHANGED <<queue, current, terminated, limit, installed, handlers, called, timers>>

TimePasses ==
    /\ now < limit.time
    /\ now' = now + 1
    /\ UNCHANGED <<threads, status, signals, alarms, due, sleepers>>

-----------------------------------------------------------------------------
(* What the thread that runs does. A handler is put before the others.   *)

Registered == called \cup UNION {Range(handlers[s]) : s \in SignalNames}

RegisterSignal(s) ==
    /\ \E h \in (1..limit.handlers) \ Registered :
          /\ \A g \in Handlers \ Registered : h <= g
          /\ handlers' = [handlers EXCEPT ![s] = <<h>> \o @]
    /\ installed' = IF handlers[s] = <<>> THEN installed \cup {s} ELSE installed
    /\ UNCHANGED <<threads, status, pending, called, timers>>

\* Mutant: the list is not sorted.
InsertAlarmLast(a, time) == Append(alarms, a)

(* An alarm is put behind those that are not later.                      *)
InsertAlarm(a, time) ==
    LET notLater == {b \in DOMAIN due : due[b] <= time} IN
    Filter(alarms, notLater) \o <<a>> \o Filter(alarms, DOMAIN due \ notLater)

RegisterAlarm(ms) ==
    /\ Len(due) < limit.alarms
    /\ due' = Append(due, now + ms)
    /\ sleepers' = Append(sleepers, <<>>)
    /\ alarms' = InsertAlarm(Len(due) + 1, now + ms)
    /\ UNCHANGED <<threads, status, signals, now>>

(* The program requests the future of an alarm, which may be bound.      *)
Sleep(t, a) ==
    /\ a \in Range(alarms)
    /\ sleepers' = [sleepers EXCEPT ![a] = Append(@, t)]
    /\ Leave
    /\ UNCHANGED <<queue, terminated, limit, status, signals, alarms, due, now>>

-----------------------------------------------------------------------------
(* SignalHandler::HandlePendingSignals, with all signals blocked.        *)

(* The alarms at the head of the list that CheckAlarms triggers.         *)
Triggered ==
    LET late == SelectInSeq(alarms, LAMBDA a : due[a] > now) IN
    IF late = 0 THEN alarms ELSE SubSeq(alarms, 1, late - 1)
Kept == SubSeq(alarms, Len(Triggered) + 1, Len(alarms))

CheckAlarms ==
    /\ alarms' = Kept
    /\ sleepers' = [a \in DOMAIN sleepers |-> IF a \in Range(Triggered) THEN <<>> ELSE sleepers[a]]
    /\ UNCHANGED <<due, now>>

\* Mutant: only the first alarm is bound.
AwakenedFirst == IF Triggered = <<>> THEN <<>> ELSE sleepers[Triggered[1]]

Awakened == FlattenSeq([i \in DOMAIN Triggered |-> sleepers[Triggered[i]]])

(* Every handler of a signal is called in a thread of its own, once for  *)
(* all deliveries, and forgotten.                                        *)
Pending == {s \in SignalNames : pending[s] > 0}
Calls == FlattenSeq([i \in 1..Cardinality(Pending) |-> handlers[SetToSeq(Pending)[i]]])

CallHandlers ==
    /\ pending' = [s \in SignalNames |-> 0]
    /\ handlers' = [s \in SignalNames |-> IF s \in Pending THEN <<>> ELSE handlers[s]]
    /\ called' = called \cup Range(Calls)
    /\ UNCHANGED installed

HandlePendingSignals ==
    /\ pc = "handle"
    /\ CheckAlarms
    /\ CallHandlers
    /\ queue' = queue \o Awakened \o Calls
    /\ pc' = "clear"
    /\ UNCHANGED <<current, terminated, limit, status>>

TestSignalStatus ==
    /\ pc = "test"
    /\ pc' = IF "signal" \in status THEN "handle" ELSE "clear"
    /\ UNCHANGED <<queue, current, terminated, limit, status, signals, timers>>

\* Mutant: the signals are cleared with the status word.
ClearStatusAndPending ==
    /\ pc = "clear"
    /\ status' = {}
    /\ pending' = [s \in SignalNames |-> 0]
    /\ pc' = "dequeue"
    /\ UNCHANGED <<queue, current, terminated, limit, installed, handlers, called, timers>>

(* What has been delivered since is forgotten until the next tick.       *)
ClearStatus ==
    /\ pc = "clear"
    /\ status' = {}
    /\ pc' = "dequeue"
    /\ UNCHANGED <<queue, current, terminated, limit, signals, timers>>
=============================================================================
