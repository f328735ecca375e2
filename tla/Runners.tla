------------------------------ MODULE Runners -------------------------------
(***************************************************************************)
(* The read side in pull mode: projections and process managers, each a    *)
(* runner with a checkpoint (state, last_global_position) in memory behind *)
(* an async mutex and a copy in checkpoint.json; and the calls that drive  *)
(* them, `projection()' and `run_process_managers()', by subscribing to    *)
(* the global log.                                                         *)
(*                                                                         *)
(* A step is what happens between two await points.  A runner's state is   *)
(* represented by the positions of the events it was handed, in order; an  *)
(* envelope by the manager, the position and the number that produced it.  *)
(***************************************************************************)
EXTENDS Integers, Sequences, Functions

CONSTANTS
    Projections, Managers,  \* the registered runners
    Order,                  \* the order in which they are visited
    Events, Decodable,      \* kinds of events; those decode_stored_event accepts
    Envelopes(_, _),        \* how many commands a manager answers an event with
    Callers,                \* tasks that use the store
    Operations,             \* Operations[c]: which of the two calls c makes
    Faults,                 \* what may fail, see FaultKinds
    FragileDirs,            \* runners whose checkpoint may fail to be written
    LogLimit                \* bound: length of the global log

FaultKinds == {"stream", "eof", "letter", "abandon", "crash"}

Runner == Projections \cup Managers

\* Projections first, then managers (store.rs keeps them apart).
FirstManager == CHOOSE i \in 1 .. Len(Order) + 1 :
    /\ \A j \in 1 .. Len(Order) : Order[j] \in Managers <=> j >= i

ASSUME RunnersAssumption ==
    /\ Projections \cap Managers = {}
    /\ Order \in Seq(Runner) /\ Range(Order) = Runner
    /\ \A i, j \in 1 .. Len(Order) : Order[i] = Order[j] => i = j
    /\ \E i \in 1 .. Len(Order) + 1 :
           \A j \in 1 .. Len(Order) : Order[j] \in Managers <=> j >= i
    /\ Decodable \subseteq Events
    /\ \A m \in Managers, e \in Events : Envelopes(m, e) \in Nat
    /\ Faults \subseteq FaultKinds
    /\ FragileDirs \subseteq Runner
    /\ LogLimit \in Nat

VARIABLES
    log,        \* the global log; position n is log[n + 1]
    checkpoint, \* checkpoint[r]: the runner's pair in memory
    file,       \* file[r]: what loading checkpoint.json would give
    lock,       \* lock[r]: who holds the runner's mutex (first) and who waits
    cpc,        \* cpc[c]: where caller c is
    op,         \* op[c]: what it called
    at,         \* at[c]: index in Order of the runner it is working on
    next,       \* next[c]: next position its subscription delivers
    upto,       \* upto[c]: length of the log when it subscribed
    work,       \* work[c]: all_work, envelopes still to be dispatched
    handled,    \* envelopes dispatched or written to the dead-letter log
    start,      \* start[c]: length of the log when it called (history only)
    reply       \* reply[c]: what its last call returned, and by how many of the
                \* events in the log when it called the result falls short

callerVars == <<cpc, op, at, next, upto, work, start, reply>>
runnerVars == <<log, checkpoint, file, lock, cpc, op, at, next, upto, work,
                handled, start, reply>>

-----------------------------------------------------------------------------
Fresh   == [pos |-> 0, seen |-> <<>>]       \* Default
NoReply == [tag |-> "none", short |-> 0]

\* Mutant: no guard against events already seen.
AfterEventUnguarded(cp, n) ==
    [pos  |-> n + 1,
     seen |-> IF log[n + 1] \in Decodable THEN Append(cp.seen, n) ELSE cp.seen]

\* Mutant: the position stays at the event instead of moving past it.
AfterEventInclusive(cp, n) ==
    IF n < cp.pos THEN cp
    ELSE [pos  |-> n,
          seen |-> IF log[n + 1] \in Decodable THEN Append(cp.seen, n) ELSE cp.seen]

\* apply_recorded_event, react_recorded_event: an event below the position is
\* skipped; one that does not decode only moves it.
AfterEvent(cp, n) ==
    IF n < cp.pos THEN cp
    ELSE [pos  |-> n + 1,
          seen |-> IF log[n + 1] \in Decodable THEN Append(cp.seen, n) ELSE cp.seen]

\* The envelopes react() returns for the event at position n.
Answers(m, n) ==
    IF m \in Managers /\ log[n + 1] \in Decodable
    THEN [i \in 1 .. Envelopes(m, log[n + 1]) |-> [pm |-> m, pos |-> n, nr |-> i]]
    ELSE <<>>

Produced(r, n) == IF n < checkpoint[r].pos THEN <<>> ELSE Answers(r, n)

\* tokio::sync::Mutex: a free lock is taken at once; otherwise the client joins
\* a queue and owns the lock as soon as it is first, whether or not it runs.
CanLock(q, r)  == lock[r] # <<>> => Head(lock[r]) = q
Enqueue(q, r)  ==
    /\ ~CanLock(q, r)
    /\ q \notin Range(lock[r])
    /\ lock' = [lock EXCEPT ![r] = Append(@, q)]
Held(q, r)     == [lock EXCEPT ![r] = IF @ = <<>> THEN <<q>> ELSE @]
Released(r)    == [lock EXCEPT ![r] = IF @ = <<>> THEN @ ELSE Tail(@)]

\* A client that stops waiting, or holding: it is in a queue at most once.
Without(queue, q) ==
    IF q \notin Range(queue) THEN queue
    ELSE LET i == CHOOSE i \in 1 .. Len(queue) : queue[i] = q
         IN  [j \in 1 .. Len(queue) - 1 |-> IF j < i THEN queue[j] ELSE queue[j + 1]]
Dropped(q)     == [r \in Runner |-> Without(lock[r], q)]

Target(c) == Order[at[c]]

\* The position below which every manager has been saved.
LeastSaved == CHOOSE n \in {file[m].pos : m \in Managers} :
                  \A m \in Managers : n <= file[m].pos

RunnersInit ==
    /\ log = <<>>
    /\ checkpoint = [r \in Runner |-> Fresh]
    /\ file = [r \in Runner |-> Fresh]
    /\ lock = [r \in Runner |-> <<>>]
    /\ cpc = [c \in Callers |-> "idle"]
    /\ op = [c \in Callers |-> "none"]
    /\ at = [c \in Callers |-> 1]
    /\ next = [c \in Callers |-> 0]
    /\ upto = [c \in Callers |-> 0]
    /\ work = [c \in Callers |-> <<>>]
    /\ handled = {}
    /\ start = [c \in Callers |-> 0]
    /\ reply = [c \in Callers |-> NoReply]

\* Some process appends an event.
Write(e) ==
    /\ Len(log) < LogLimit
    /\ log' = Append(log, e)
    /\ UNCHANGED <<checkpoint, file, lock, handled, callerVars>>

-----------------------------------------------------------------------------
(* projection(), run_process_managers(): the calls                          *)

Begin(c, o, i, pc) ==
    /\ cpc[c] = "idle"
    /\ op' = [op EXCEPT ![c] = o]
    /\ at' = [at EXCEPT ![c] = i]
    /\ cpc' = [cpc EXCEPT ![c] = pc]
    /\ start' = [start EXCEPT ![c] = Len(log)]
    /\ reply' = [reply EXCEPT ![c] = NoReply]
    /\ UNCHANGED <<log, checkpoint, file, lock, next, upto, work, handled>>

\* The call returns, with what it held in memory dropped.
Return(c, tag, pos) ==
    /\ cpc' = [cpc EXCEPT ![c] = "idle"]
    /\ op' = [op EXCEPT ![c] = "none"]
    /\ at' = [at EXCEPT ![c] = 1]
    /\ next' = [next EXCEPT ![c] = 0]
    /\ upto' = [upto EXCEPT ![c] = 0]
    /\ work' = [work EXCEPT ![c] = <<>>]
    /\ start' = [start EXCEPT ![c] = 0]
    /\ reply' = [reply EXCEPT ![c] =
           [tag |-> tag, short |-> IF pos < start[c] THEN start[c] - pos ELSE 0]]

Fail(c) == Return(c, "error", start[c])

CallProjection(c) ==
    \E i \in 1 .. Len(Order) :
        /\ "projection" \in Operations[c]
        /\ Order[i] \in Projections
        /\ Begin(c, "projection", i, "lock")

CallRunProcessManagers(c) ==
    /\ "run_process_managers" \in Operations[c]
    /\ Begin(c, "run_process_managers", FirstManager,
             IF FirstManager > Len(Order) THEN "dispatch" ELSE "lock")

\* Mutant: the guard is dropped before the catch-up.
AcquireUnheld(c) ==
    /\ cpc[c] = "lock"
    /\ CanLock(c, Target(c))
    /\ lock' = Released(Target(c))
    /\ cpc' = [cpc EXCEPT ![c] = "subscribe"]
    /\ UNCHANGED <<log, checkpoint, file, op, at, next, upto, work, handled, start, reply>>

\* The runner is locked and stays so through the catch-up.
Acquire(c) ==
    /\ cpc[c] = "lock"
    /\ CanLock(c, Target(c))
    /\ lock' = Held(c, Target(c))
    /\ cpc' = [cpc EXCEPT ![c] = "subscribe"]
    /\ UNCHANGED <<log, checkpoint, file, op, at, next, upto, work, handled, start, reply>>

Await(c) ==
    /\ cpc[c] \in {"lock", "save", "peek"}
    /\ Enqueue(c, Target(c))
    /\ UNCHANGED <<log, checkpoint, file, handled, callerVars>>

\* Mutant: the position is taken for that of the last event seen.
SubscribeExclusive(c) ==
    /\ cpc[c] = "subscribe"
    /\ cpc' = [cpc EXCEPT ![c] = "read"]
    /\ next' = [next EXCEPT ![c] = checkpoint[Target(c)].pos + 1]
    /\ upto' = [upto EXCEPT ![c] = Len(log)]
    /\ UNCHANGED <<log, checkpoint, file, lock, op, at, work, handled, start, reply>>

\* subscribe_all_from(last_global_position)
Subscribe(c) ==
    /\ cpc[c] = "subscribe"
    /\ cpc' = [cpc EXCEPT ![c] = "read"]
    /\ next' = [next EXCEPT ![c] = checkpoint[Target(c)].pos]
    /\ upto' = [upto EXCEPT ![c] = Len(log)]
    /\ UNCHANGED <<log, checkpoint, file, lock, op, at, work, handled, start, reply>>

\* process_stream: one event is applied, or reacted to.
ReadEvent(c) ==
    /\ cpc[c] = "read"
    /\ next[c] < Len(log)
    /\ checkpoint' = [checkpoint EXCEPT ![Target(c)] = AfterEvent(@, next[c])]
    /\ work' = [work EXCEPT ![c] = @ \o Produced(Target(c), next[c])]
    /\ next' = [next EXCEPT ![c] = @ + 1]
    /\ UNCHANGED <<log, file, lock, cpc, op, at, upto, handled, start, reply>>

\* The subscription cannot be opened, or breaks: `?' leaves at once, and what was
\* collected is dropped although the checkpoint in memory has moved.
StreamError(c) ==
    /\ "stream" \in Faults
    /\ cpc[c] \in {"subscribe", "read"}
    /\ lock' = Released(Target(c))
    /\ Fail(c)
    /\ UNCHANGED <<log, checkpoint, file, handled>>

\* Mutant: the state is returned without waiting for the sentinel.
StreamDoneEarly(c) == cpc[c] = "read"

\* The loop of process_stream ends at CaughtUp, or when the stream just ends.
StreamDone(c) ==
    /\ cpc[c] = "read"
    /\ next[c] >= upto[c] \/ "eof" \in Faults

ProjectionDone(c) ==
    /\ op[c] = "projection"
    /\ StreamDone(c)
    /\ \/ /\ file' = [file EXCEPT ![Target(c)] = checkpoint[Target(c)]]
          /\ Return(c, "state", checkpoint[Target(c)].pos)
       \/ /\ Target(c) \in FragileDirs
          /\ Fail(c)
          /\ UNCHANGED file
    /\ lock' = Released(Target(c))
    /\ UNCHANGED <<log, checkpoint, handled>>

\* The next manager's turn, or the dispatch of everything collected.
ManagerDone(c) ==
    /\ op[c] = "run_process_managers"
    /\ StreamDone(c)
    /\ lock' = Released(Target(c))
    /\ at' = [at EXCEPT ![c] = @ + 1]
    /\ cpc' = [cpc EXCEPT ![c] = IF at[c] < Len(Order) THEN "lock" ELSE "dispatch"]
    /\ UNCHANGED <<log, checkpoint, file, next, upto, op, work, handled, start, reply>>

\* An envelope is dispatched, or dead-lettered when there is no dispatcher or
\* the command fails; a dead letter that cannot be written ends the call.
Dispatch(c) ==
    /\ cpc[c] = "dispatch"
    /\ work[c] # <<>>
    /\ \/ /\ handled' = handled \cup {Head(work[c])}
          /\ work' = [work EXCEPT ![c] = Tail(@)]
          /\ UNCHANGED <<cpc, op, at, next, upto, start, reply>>
       \/ /\ "letter" \in Faults
          /\ Fail(c)
          /\ UNCHANGED handled
    /\ UNCHANGED <<log, checkpoint, file, lock>>

\* Mutant: the checkpoints are saved before the envelopes are dispatched.
AllDispatchedAnyway(c) ==
    /\ cpc[c] = "dispatch"
    /\ at' = [at EXCEPT ![c] = FirstManager]
    /\ \/ FirstManager <= Len(Order) /\ cpc' = [cpc EXCEPT ![c] = "save"]
       \/ FirstManager > Len(Order) /\ cpc' = [cpc EXCEPT ![c] = "idle"]
    /\ UNCHANGED <<log, checkpoint, file, lock, op, next, upto, work, handled, start, reply>>

AllDispatched(c) ==
    /\ cpc[c] = "dispatch"
    /\ work[c] = <<>>
    /\ \/ /\ FirstManager <= Len(Order)
          /\ at' = [at EXCEPT ![c] = FirstManager]
          /\ cpc' = [cpc EXCEPT ![c] = "save"]
          /\ UNCHANGED <<op, next, upto, work, start, reply>>
       \/ /\ FirstManager > Len(Order)
          /\ Return(c, "report", start[c])
    /\ UNCHANGED <<log, checkpoint, file, lock, handled>>

\* Each manager is locked for pm.save(), one after the other.
LockForSave(c) ==
    /\ cpc[c] = "save"
    /\ CanLock(c, Target(c))
    /\ lock' = Held(c, Target(c))
    /\ cpc' = [cpc EXCEPT ![c] = "saving"]
    /\ UNCHANGED <<log, checkpoint, file, op, at, next, upto, work, handled, start, reply>>

SaveManager(c) ==
    /\ cpc[c] = "saving"
    /\ lock' = Released(Target(c))
    /\ \/ /\ file' = [file EXCEPT ![Target(c)] = checkpoint[Target(c)]]
          /\ \/ /\ at[c] < Len(Order)
                /\ at' = [at EXCEPT ![c] = @ + 1]
                /\ cpc' = [cpc EXCEPT ![c] = "save"]
                /\ UNCHANGED <<op, next, upto, work, start, reply>>
             \/ /\ at[c] = Len(Order)
                /\ Return(c, "report", LeastSaved')
       \/ /\ Target(c) \in FragileDirs
          /\ Fail(c)
          /\ UNCHANGED file
    /\ UNCHANGED <<log, checkpoint, handled>>

\* The caller drops the future: guards are released, queue places given up.
Abandon(c) ==
    /\ "abandon" \in Faults
    /\ cpc[c] # "idle"
    /\ lock' = Dropped(c)
    /\ Return(c, "none", start[c])
    /\ UNCHANGED <<log, checkpoint, file, handled>>

\* The process dies; the next one loads the checkpoints, a file that was not yet
\* on the disk or no longer parses counting as none.
Crash ==
    /\ "crash" \in Faults
    /\ \E lost \in SUBSET Runner :
           file' = [r \in Runner |-> IF r \in lost THEN Fresh ELSE file[r]]
    /\ checkpoint' = file'
    /\ lock' = [r \in Runner |-> <<>>]
    /\ cpc' = [c \in Callers |-> "idle"]
    /\ op' = [c \in Callers |-> "none"]
    /\ at' = [c \in Callers |-> 1]
    /\ next' = [c \in Callers |-> 0]
    /\ upto' = [c \in Callers |-> 0]
    /\ work' = [c \in Callers |-> <<>>]
    /\ start' = [c \in Callers |-> 0]
    /\ reply' = [c \in Callers |-> NoReply]
    /\ UNCHANGED <<log, handled>>

-----------------------------------------------------------------------------
PassStep(c) ==
    \/ Acquire(c) \/ Await(c) \/ Subscribe(c) \/ ReadEvent(c) \/ ProjectionDone(c)
    \/ ManagerDone(c) \/ AllDispatched(c) \/ LockForSave(c) \/ SaveManager(c)

CallerStep(c) == PassStep(c) \/ Dispatch(c)

PullNext ==
    \/ \E e \in Events : Write(e)
    \/ \E c \in Callers :
           \/ CallProjection(c) \/ CallRunProcessManagers(c)
           \/ CallerStep(c) \/ StreamError(c) \/ Abandon(c)

Next == PullNext \/ Crash
Spec == RunnersInit /\ [][Next]_runnerVars

-----------------------------------------------------------------------------
(* Correctness                                                              *)

Checkpoints == [pos : Nat, seen : Seq(Nat)]
EnvelopeIds == [pm : Managers, pos : Nat, nr : Nat]
CallerPcs   == {"idle", "lock", "subscribe", "read", "dispatch", "save", "saving", "peek", "peeking"}

\* Type invariant of the read side.
TypeOK ==
    /\ log \in Seq(Events)
    /\ checkpoint \in [Runner -> Checkpoints]
    /\ file \in [Runner -> Checkpoints]
    /\ \A r \in Runner : \A i \in 1 .. Len(lock[r]) :
           lock[r][i] \in Callers \cup {"stream", "loop"}
    /\ cpc \in [Callers -> CallerPcs]
    /\ at \in [Callers -> 1 .. Len(Order) + 1]
    /\ next \in [Callers -> Nat]
    /\ upto \in [Callers -> Nat]
    /\ work \in [Callers -> Seq(EnvelopeIds)]
    /\ handled \subseteq EnvelopeIds
    /\ \A c \in Callers : cpc[c] \in {"subscribe", "read", "saving", "peeking"} =>
           lock[Target(c)] # <<>> /\ Head(lock[Target(c)]) = c

\* cp has been given every decodable event below its position, in order, once.
IsCursor(cp) ==
    /\ cp.pos <= Len(log)
    /\ Range(cp.seen) = {n \in 0 .. cp.pos - 1 : log[n + 1] \in Decodable}
    /\ \A i, j \in 1 .. Len(cp.seen) : i < j => cp.seen[i] < cp.seen[j]

\* State and position belong together, in memory and in every file: whatever
\* streams break, whichever of projection(), run_process_managers() and the live
\* loop feeds a runner, and wherever the process dies, no event is applied twice
\* and none is skipped (projection.rs:260-284, process_manager.rs:318-347).
CheckpointsAreCursors ==
    \A r \in Runner : IsCursor(checkpoint[r]) /\ IsCursor(file[r])

\* Why: a pass never reads ahead of the runner it feeds, and a command in hand is
\* of an event its manager has moved past, also with other passes in between
\* (process_manager.rs:232-285, store.rs:350-361).
CallersFollow ==
    \A c \in Callers :
        /\ cpc[c] \notin {"idle", "dispatch"} => at[c] <= Len(Order)
        /\ cpc[c] = "read" => next[c] <= checkpoint[Target(c)].pos
        /\ \A i \in 1 .. Len(work[c]) : work[c][i].pos < checkpoint[work[c][i].pm].pos

\* The positions move as the abstract specification lets them: one event at a
\* time in memory, to the position in memory on disk, back only in a restart; and
\* a command is carried out only for an event its manager has moved past.
Positions == INSTANCE Cursors WITH
    pos   <- [r \in Runner |-> checkpoint[r].pos],
    saved <- [r \in Runner |-> file[r].pos],
    done  <- handled
ImplementsCursors == Positions!Spec

\* projection() returns at least everything that was in the log when it was
\* called (store.rs:303-310), and when run_process_managers() returns, every
\* manager is saved past it (store.rs:331-336).
CallsCoverTheLog == \A c \in Callers : reply[c].short = 0

\* The envelopes of the events below position n of manager m.
Owed(m, n) == UNION {Range(Answers(m, i)) : i \in 0 .. n - 1}

\* "State is checkpointed after all envelopes from a catch-up pass have been
\* dispatched (or dead-lettered), ensuring crash safety via re-processing"
\* (process_manager.rs:40-42): no command below a saved position has been lost.
SavedMeansHandled ==
    \A m \in Managers : Owed(m, file[m].pos) \subseteq handled

=============================================================================
