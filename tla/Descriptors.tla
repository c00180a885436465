--------------------------- MODULE Descriptors ---------------------------
(* generic/IODesc.cc and generic/IOHandler.cc on a system with select(): *)
(* descriptors, the threads that wait for them, and their finalization.  *)
EXTENDS Waiting

CONSTANT
    FDs   \* the file descriptors of the process

VARIABLES
    descs,      \* the IODescs: type, direction and file descriptor
    keys,       \* the finalization set: the IODesc of each key
    reach,      \* the IODescs the program can reach
    open,       \* the file descriptors that are open in the process
    ready,      \* those that can be read or written now
    sets,       \* the sets Readable, Writable and Connected
    operation,  \* the system call in which the thread that runs is
    retry       \* for each thread the IODesc it reads or writes next, or 0

descriptors == <<descs, keys, reach, open, ready, sets, operation, retry>>
system == <<open, ready>>

NoOperation == [call |-> "none", desc |-> 0]
SetNames == {"Readable", "Writable", "Connected"}

DescriptorsInit ==
    /\ descs = <<>>
    /\ keys = {}
    /\ reach = {}
    /\ open = {}
    /\ ready = {}
    /\ sets = [s \in SetNames |-> <<>>]
    /\ operation = NoOperation
    /\ retry = [t \in Threads |-> 0]

-----------------------------------------------------------------------------
(* The process and its environment.                                      *)

BecomeReady(f) ==
    /\ f \in open \ ready
    /\ ready' = ready \cup {f}
    /\ UNCHANGED <<threads, descs, keys, reach, open, sets, operation, retry>>

(* IODesc::NewFromFD, with the least file descriptor that is free.       *)
NewFromFD(dir) ==
    /\ operation = NoOperation
    /\ Len(descs) < limit.descs
    /\ \E f \in FDs \ open :
          /\ \A g \in FDs \ open : f <= g
          /\ descs' = Append(descs, [type |-> "FD", dir |-> dir, fd |-> f])
          /\ open' = open \cup {f}
    /\ keys' = keys \cup {Len(descs) + 1}
    /\ reach' = reach \cup {Len(descs) + 1}
    /\ UNCHANGED <<threads, ready, sets, operation, retry>>

Forget(d) ==
    /\ d \in reach
    /\ operation = NoOperation
    /\ reach' = reach \ {d}
    /\ UNCHANGED <<threads, descs, keys, system, sets, operation, retry>>

-----------------------------------------------------------------------------
(* The class Set of IOHandler.cc: entries with a file descriptor and the *)
(* wait queue of a future.                                               *)

(* The first entry for a file descriptor, or 0.                          *)
Position(set, f) == SelectInSeq(set, LAMBDA e : e.fd = f)

(* Set::Add, and the request of the future.                              *)
Add(set, f, t) ==
    LET at == Position(set, f) IN
    IF at = 0 THEN Append(set, [fd |-> f, waiters |-> <<t>>])
    ELSE [set EXCEPT ![at].waiters = Append(@, t)]

(* Set::Remove: the first entry, if there is one.                        *)
RemoveEntry(set, f) ==
    LET at == Position(set, f) IN
    IF at = 0 THEN set ELSE RemoveAt(set, at)

(* Set::Schedule: the entries whose descriptors are in fs leave the set.   *)
Gone(set, fs) == Filter(set, {e \in Range(set) : e.fd \in fs})
Left(set, fs) == Filter(set, {e \in Range(set) : e.fd \notin fs})

Waiters(set) == FlattenSeq([i \in DOMAIN set |-> set[i].waiters])
\* Mutant: those that wait for a connection are forgotten.
WokenButConnected(fs) ==
    LET gone(s) == Waiters(Gone(sets[s], fs)) IN
    gone("Readable") \o gone("Writable")

Woken(fs) ==
    LET gone(s) == Waiters(Gone(sets[s], fs)) IN
    gone("Readable") \o gone("Writable") \o gone("Connected")

EntryFDs == {e.fd : e \in UNION {Range(sets[s]) : s \in SetNames}}

\* Mutant: only Readable is looked at.
ScheduleReaders(fs) ==
    /\ sets' = [sets EXCEPT !["Readable"] = Left(@, fs)]
    /\ queue' = queue \o Waiters(Gone(sets["Readable"], fs))
    /\ UNCHANGED <<descs, keys, reach, system, operation, retry>>

(* IOHandler::Select, when select() returns these file descriptors.      *)
Schedule(fs) ==
    /\ sets' = [s \in SetNames |-> Left(sets[s], fs)]
    /\ queue' = queue \o Woken(fs)
    /\ UNCHANGED <<descs, keys, reach, system, operation, retry>>

Poll ==
    /\ pc = "poll"
    /\ Schedule(EntryFDs \cap ready)
    /\ pc' = "test"
    /\ UNCHANGED <<current, terminated, limit>>

(* IOHandler::Block: select() waits unless there is no entry, and then   *)
(* it is not called, or one that is ready.                               *)
Block ==
    /\ pc = "block"
    /\ Schedule(EntryFDs \cap ready)
    /\ pc' = IF EntryFDs = {} \/ EntryFDs \cap ready # {} THEN "test" ELSE "select"
    /\ UNCHANGED <<current, terminated, limit>>

EndSelect ==
    /\ pc = "select"
    /\ EntryFDs \cap ready # {}
    /\ Schedule(EntryFDs \cap ready)
    /\ pc' = "test"
    /\ UNCHANGED <<current, terminated, limit>>

-----------------------------------------------------------------------------
(* IODesc: operations of the thread that runs.                           *)

IsOpen(d) == descs[d].type = "FD"
SetOf(d) == IF descs[d].dir = "reader" THEN "Readable" ELSE "Writable"

(* IODesc::Read and Write: a closed IODesc gives result_closed. Data is   *)
(* transferred, and more may follow; or the call would block.            *)
ReadOrWrite(t, d) ==
    /\ operation \in {NoOperation, [call |-> "retry", desc |-> d]}
    /\ retry[t] \in {0, d}
    /\ IF ~IsOpen(d)
       THEN ready' = ready /\ operation' = NoOperation /\ retry' = [retry EXCEPT ![t] = 0]
       ELSE IF descs[d].fd \in ready
       THEN /\ ready' \in {ready, ready \ {descs[d].fd}}
            /\ retry' = [retry EXCEPT ![t] = 0]
            /\ operation' = NoOperation
       ELSE /\ ready' = ready
            /\ retry' = [retry EXCEPT ![t] = d]
            /\ operation' = [call |-> "wait", desc |-> d]
    /\ UNCHANGED <<threads, descs, keys, reach, open, sets>>

(* ReadNonblocking and WriteNonblocking, which never wait: nothing happens *)
(* unless data can be transferred.                                        *)
ReadOrWriteNonblocking(t, d) ==
    /\ operation = NoOperation
    /\ retry[t] = 0
    /\ IsOpen(d)
    /\ descs[d].fd \in ready
    /\ ready' \in {ready, ready \ {descs[d].fd}}
    /\ UNCHANGED <<threads, descs, keys, reach, open, sets, operation, retry>>

(* IODesc::DoBlock, which is not called again, and IOHandler's           *)
(* WaitConnected, which does not test the descriptor.                    *)
DoBlock(t, d) ==
    /\ operation = NoOperation
    /\ retry[t] = 0
    /\ IsOpen(d)
    /\ operation' = [call |-> "wait", desc |-> d]
    /\ UNCHANGED <<threads, descs, keys, reach, system, sets, retry>>

WaitConnected(t, d) ==
    /\ operation = NoOperation
    /\ retry[t] = 0
    /\ IsOpen(d)
    /\ descs[d].dir = "writer"
    /\ sets' = [sets EXCEPT !["Connected"] = Add(@, descs[d].fd, t)]
    /\ Leave
    /\ UNCHANGED <<queue, terminated, limit, descs, keys, reach, system, operation, retry>>

(* IOHandler::WaitReadable and WaitWritable: the second system call. When  *)
(* it finds the descriptor ready, Read and Write try again at once.       *)
WaitForDesc(t) ==
    /\ operation.call = "wait"
    /\ LET d == operation.desc
           f == descs[d].fd
       IN  IF f \in ready
           THEN /\ operation' = IF retry[t] = d THEN [call |-> "retry", desc |-> d]
                                               ELSE NoOperation
                /\ UNCHANGED <<sets, current, pc>>
           ELSE /\ operation' = NoOperation
                /\ sets' = [sets EXCEPT ![SetOf(d)] = Add(@, f, t)]
                /\ Leave
    /\ UNCHANGED <<queue, terminated, limit, descs, keys, reach, system, retry>>

\* Mutant: only those that read are told.
CloseDescForReaders(d) ==
    LET f == descs[d].fd IN
    /\ IF IsOpen(d)
       THEN /\ sets' = [sets EXCEPT !["Readable"] = RemoveEntry(@, f)]
            /\ queue' = queue \o Waiters(Gone(sets["Readable"], {f}))
            /\ open' = open \ {f}
            /\ ready' = ready \ {f}
       ELSE UNCHANGED <<sets, queue, open, ready>>
    /\ descs' = [descs EXCEPT ![d].type = "CLOSED"]
    /\ keys' = keys \ {d}
    /\ UNCHANGED <<reach, operation, retry>>

\* Mutant: the file descriptor stays registered for finalization.
CloseDescRegistered(d) ==
    LET f == descs[d].fd IN
    /\ IF IsOpen(d)
       THEN /\ sets' = [s \in SetNames |-> RemoveEntry(sets[s], f)]
            /\ queue' = queue \o Woken({f})
            /\ open' = open \ {f}
            /\ ready' = ready \ {f}
       ELSE UNCHANGED <<sets, queue, open, ready>>
    /\ descs' = [descs EXCEPT ![d].type = "CLOSED"]
    /\ UNCHANGED <<keys, reach, operation, retry>>

(* IODesc::Close: all that wait for it run again, to find it closed.     *)
CloseDesc(d) ==
    LET f == descs[d].fd IN
    /\ IF IsOpen(d)
       THEN /\ sets' = [s \in SetNames |-> RemoveEntry(sets[s], f)]
            /\ queue' = queue \o Woken({f})
            /\ open' = open \ {f}
            /\ ready' = ready \ {f}
       ELSE UNCHANGED <<sets, queue, open, ready>>
    /\ descs' = [descs EXCEPT ![d].type = "CLOSED"]
    /\ keys' = keys \ {d}
    /\ UNCHANGED <<reach, operation, retry>>

Close(d) ==
    /\ operation = NoOperation
    /\ CloseDesc(d)
    /\ UNCHANGED <<current, pc, terminated, limit>>

(* RootSet::DoGarbageCollection finalizes what cannot be reached: not     *)
(* from the program nor from the frame of a thread that will retry.       *)
Reachable == reach \cup {retry[t] : t \in Threads}

Finalize(d) ==
    /\ pc = "gc"
    /\ d \in keys \ Reachable
    /\ CloseDesc(d)
    /\ UNCHANGED <<current, pc, terminated, limit>>
=============================================================================
