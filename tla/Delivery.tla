------------------------------ MODULE Delivery ------------------------------
(***************************************************************************)
(* The closed loop of an opened store: events reach process managers, the  *)
(* commands they answer with are routed to aggregates or to the dead-letter*)
(* log, and what the aggregates append is read again.  On top of the calls *)
(* of module Runners: what AggregateStoreBuilder::open() builds, dispatch  *)
(* in its two halves (the aggregate acts, its answer arrives), injection   *)
(* with and without run_process_managers(), and processes that die and     *)
(* are started again.                                                      *)
(*                                                                         *)
(* An aggregate is its stream: module Actor shows what a call on it does.  *)
(* Here it may refuse, append, or append with the answer lost; an append   *)
(* that is carried out after its caller was told it failed is left there.  *)
(***************************************************************************)
EXTENDS Runners, EventRecords, FiniteSets

CONSTANTS
    Builder,            \* what was registered, in the order of the calls
    CommandOf(_, _, _), \* the i-th command manager m answers a stored event with
    CommandsOf(_),      \* what A::Command deserializes from, by aggregate type
    Outcome(_),         \* the domain events an aggregate answers a command with
    Outside,            \* recorded events of other processes
    Injections,         \* what inject_event is called with
    WriteLimit,         \* bound: events not caused by a command
    CrashLimit          \* bound: how often the process dies

VARIABLES
    open,       \* the process runs, with the store open
    answer,     \* answer[c]: what came back for the command c is dispatching
    letters,    \* what the dead_letters.jsonl files hold
    crashes     \* how often the process has died

ownVars      == <<open, answer, letters, crashes>>
deliveryVars == <<runnerVars, ownVars>>

-----------------------------------------------------------------------------
(* AggregateStoreBuilder                                                    *)

\* HashMaps by name: registering a name again replaces the first registration.
\* The managers stay a list.
ProjectionMap      == Range(Builder.projections)
ProcessManagerList == Builder.process_managers
DispatcherMap      == Range(Builder.aggregate_types)

ASSUME OpenAssumption ==
    /\ Projections = ProjectionMap
    /\ Managers = Range(ProcessManagerList)
    /\ SubSeq(Order, FirstManager, Len(Order)) = ProcessManagerList
    /\ Decodable = {e \in Events : decode_stored_event(e) # NoStored}

DeliveryInit ==
    /\ RunnersInit
    /\ open = FALSE
    /\ answer = [c \in Callers |-> "none"]
    /\ letters = {}
    /\ crashes = 0

\* ProjectionRunner::new, ProcessManagerRunner::new
Loaded(r) == file[r]

\* open(): every factory loads its runner's checkpoint.  One that cannot be read
\* panics, and the process is down again.
Open ==
    /\ ~open
    /\ open' = TRUE
    /\ checkpoint' = [r \in Runner |-> Loaded(r)]
    /\ UNCHANGED <<log, file, lock, handled, callerVars, answer, letters, crashes>>

-----------------------------------------------------------------------------
(* Dispatch                                                                 *)

\* The CommandEnvelope x stands for, and the context the manager gave it.
Sent(x)    == CommandOf(x.pm, decode_stored_event(log[x.pos + 1]), x.nr)
Context(x) == [actor |-> x.pm, correlation_id |-> x, metadata |-> "extra", source_device |-> Absent]

\* There is a dispatcher for its type, and the command deserializes.
Routable(cmd) ==
    /\ cmd.aggregate_type \in DispatcherMap
    /\ cmd.command \in CommandsOf(cmd.aggregate_type)

\* What the aggregate appends to its stream, and so to the global log: d as it is
\* recorded there, and all the events the command x stands for is answered with.
Caused(x, cmd, d) ==
    Recorded(encode_domain_event(d, Context(x), cmd.aggregate_type, cmd.instance_id),
             stream_uuid(cmd.aggregate_type, cmd.instance_id))
Effect(x) ==
    LET cmd == Sent(x)
        ds  == Outcome(cmd.command)
    IN  [i \in 1 .. Len(ds) |-> Caused(x, cmd, ds[i])]

\* Routed to nobody, not spawned, refused by the aggregate; or executed, with
\* the answer arriving or not.
DispatchCommand(c) ==
    /\ cpc[c] = "dispatch"
    /\ work[c] # <<>>
    /\ answer[c] = "none"
    /\ \/ /\ answer' = [answer EXCEPT ![c] = "failed"]
          /\ UNCHANGED log
       \/ /\ Routable(Sent(Head(work[c])))
          /\ Len(log \o Effect(Head(work[c]))) <= LogLimit
          /\ log' = log \o Effect(Head(work[c]))
          /\ \E a \in {"ok", "failed"} : answer' = [answer EXCEPT ![c] = a]
    /\ UNCHANGED <<checkpoint, file, lock, handled, callerVars, open, letters, crashes>>

\* Mutant: a command that failed is tried again.
SettleRetries(c) ==
    /\ answer[c] # "none"
    /\ answer' = [answer EXCEPT ![c] = "none"]
    /\ IF answer[c] = "ok"
       THEN /\ handled' = handled \cup {Head(work[c])}
            /\ work' = [work EXCEPT ![c] = Tail(@)]
       ELSE UNCHANGED <<handled, work>>
    /\ UNCHANGED <<log, checkpoint, file, lock, cpc, op, at, next, upto, start, reply,
                   open, letters, crashes>>

\* Mutant: a command that failed is only logged.
SettleForgets(c) ==
    /\ answer[c] # "none"
    /\ answer' = [answer EXCEPT ![c] = "none"]
    /\ handled' = handled \cup {Head(work[c])}
    /\ work' = [work EXCEPT ![c] = Tail(@)]
    /\ UNCHANGED <<log, checkpoint, file, lock, cpc, op, at, next, upto, start, reply,
                   open, letters, crashes>>

\* Mutant: the result of one dispatch is still there at the next envelope.
SettleKeepsAnswer(c) ==
    /\ answer[c] # "none"
    /\ handled' = handled \cup {Head(work[c])}
    /\ letters' = IF answer[c] = "failed" THEN letters \cup {Head(work[c])} ELSE letters
    /\ work' = [work EXCEPT ![c] = Tail(@)]
    /\ UNCHANGED <<log, checkpoint, file, lock, cpc, op, at, next, upto, start, reply,
                   open, answer, crashes>>

\* An error is written to the manager's dead-letter log; either way the next
\* envelope's turn has come.  (A letter that cannot be written: Dispatch.)
Settle(c) ==
    /\ answer[c] # "none"
    /\ answer' = [answer EXCEPT ![c] = "none"]
    /\ handled' = handled \cup {Head(work[c])}
    /\ letters' = IF answer[c] = "failed" THEN letters \cup {Head(work[c])} ELSE letters
    /\ work' = [work EXCEPT ![c] = Tail(@)]
    /\ UNCHANGED <<log, checkpoint, file, lock, cpc, op, at, next, upto, start, reply,
                   open, crashes>>

-----------------------------------------------------------------------------
(* Other writers                                                            *)

Cause(e) ==
    IF decode_stored_event(e) = NoStored THEN Absent
    ELSE decode_stored_event(e).metadata.correlation_id

Uncaused == {n \in 1 .. Len(log) : Cause(log[n]) \notin EnvelopeIds}
MayWrite == Cardinality(Uncaused) < WriteLimit /\ Len(log) < LogLimit

WriteOutside ==
    /\ MayWrite
    /\ \E e \in Outside : log' = Append(log, e)
    /\ UNCHANGED <<checkpoint, file, lock, handled, callerVars, ownVars>>

InjectedEvent(x) == Recorded(x.proposed, stream_uuid(x.aggregate_type, x.instance_id))
Foreign          == Outside \cup {InjectedEvent(x) : x \in Injections}

\* Managers address instances by names that are not empty, so that what a command
\* leads to is decoded by whoever reads the global log, and the events of others do
\* not name one of our commands as their cause.
ASSUME DeliveryAssumption ==
    /\ WriteLimit \in Nat /\ CrashLimit \in Nat
    /\ Foreign \subseteq Events
    /\ \A e \in Foreign : Cause(e) \notin EnvelopeIds
    /\ \A m \in Managers, e \in Decodable : \A i \in 1 .. Envelopes(m, e) :
           LET cmd == CommandOf(m, decode_stored_event(e), i)
           IN  /\ Outcome(cmd.command) \in Seq(DomainEvents)
               /\ Routable(cmd) =>
                      \A n \in 0 .. LogLimit - 1 : \A d \in Range(Outcome(cmd.command)) :
                          Caused([pm |-> m, pos |-> n, nr |-> i], cmd, d) \in Decodable

\* inject_event without the option, or with an append that fails or whose answer
\* is lost.
InjectEvent(c) ==
    /\ open /\ cpc[c] = "idle"
    /\ "inject" \in Operations[c]
    /\ MayWrite
    /\ \E x \in Injections :
           \/ /\ log' = Append(log, InjectedEvent(x))
              /\ \E t \in {"injected", "error"} :
                     reply' = [reply EXCEPT ![c] = [tag |-> t, short |-> 0]]
           \/ /\ reply' = [reply EXCEPT ![c] = [tag |-> "error", short |-> 0]]
              /\ UNCHANGED log
    /\ UNCHANGED <<checkpoint, file, lock, cpc, op, at, next, upto, work, handled, start, ownVars>>

\* inject_event with run_process_managers: the event is in the log before the
\* managers are run.
InjectAndRun(c) ==
    /\ open /\ cpc[c] = "idle"
    /\ "inject_and_run" \in Operations[c]
    /\ MayWrite
    /\ \E x \in Injections : log' = Append(log, InjectedEvent(x))
    /\ op' = [op EXCEPT ![c] = "run_process_managers"]
    /\ at' = [at EXCEPT ![c] = FirstManager]
    /\ cpc' = [cpc EXCEPT ![c] = IF FirstManager > Len(Order) THEN "dispatch" ELSE "lock"]
    /\ start' = [start EXCEPT ![c] = Len(log')]
    /\ reply' = [reply EXCEPT ![c] = NoReply]
    /\ UNCHANGED <<checkpoint, file, lock, next, upto, work, handled, ownVars>>

Die ==
    /\ open
    /\ crashes < CrashLimit
    /\ Crash
    /\ open' = FALSE
    /\ answer' = [c \in Callers |-> "none"]
    /\ crashes' = crashes + 1
    /\ UNCHANGED letters

-----------------------------------------------------------------------------
CallManagers(c) == open /\ CallRunProcessManagers(c) /\ UNCHANGED ownVars

TaskStep(c) ==
    \/ PassStep(c) /\ UNCHANGED ownVars
    \/ DispatchCommand(c)
    \/ Settle(c)

DeliveryNext ==
    \/ Open \/ Die \/ WriteOutside
    \/ \E c \in Callers :
           \/ open /\ CallProjection(c) /\ UNCHANGED ownVars
           \/ CallManagers(c)
           \/ InjectEvent(c) \/ InjectAndRun(c)
           \/ TaskStep(c)

DeliverySpec == DeliveryInit /\ [][DeliveryNext]_deliveryVars

\* Tasks are scheduled, the process is started again after it died, and somebody
\* calls run_process_managers() again and again.
FairDeliverySpec ==
    /\ DeliverySpec
    /\ WF_deliveryVars(Open)
    /\ \A c \in Callers : WF_deliveryVars(TaskStep(c)) /\ SF_deliveryVars(CallManagers(c))

-----------------------------------------------------------------------------
(* Correctness                                                              *)

\* Type invariant; a command's answer is awaited only while it is dispatched.
DeliveryTypeOK ==
    /\ TypeOK
    /\ open \in BOOLEAN
    /\ answer \in [Callers -> {"none", "ok", "failed"}]
    /\ \A c \in Callers : answer[c] # "none" => cpc[c] = "dispatch" /\ work[c] # <<>>
    /\ letters \subseteq EnvelopeIds
    /\ crashes \in 0 .. CrashLimit

\* The command is in its manager's dead-letter log, or everything it leads to is
\* in the global log, where whoever subscribes sees that it was the cause.
Delivered(x) ==
    \/ x \in letters
    \/ \A d \in Range(Outcome(Sent(x).command)) :
           \E n \in 1 .. Len(log) : Cause(log[n]) = x /\ log[n].type = d.type

\* What a saved position covers has reached an aggregate or the dead-letter log,
\* wherever the process died and whichever files did not survive ("a crash
\* mid-dispatch causes re-processing on restart", process_manager.rs:164-165).
SavedMeansDelivered ==
    \A m \in Managers : \A x \in Owed(m, file[m].pos) : Delivered(x)

\* A command has an effect at most once for each time the process ran: only a
\* restart repeats one, not an injection that runs the managers, an event they
\* caused themselves or an answer that was lost (store.rs:350-398).
OncePerProcess ==
    \A m \in Managers : \A x \in Owed(m, Len(log)) :
        Cardinality({n \in 1 .. Len(log) : Cause(log[n]) = x})
            <= (1 + crashes) * Len(Outcome(Sent(x).command))

\* Whatever is in the log that nobody else wrote was caused by a command: it comes
\* after the event the command answers, in the stream of the aggregate the manager
\* named, and projections and process managers get to see it with that identity
\* (event.rs:147-208).
EffectsFollowCauses ==
    \A n \in 1 .. Len(log) :
        LET e == log[n]
            s == decode_stored_event(e)
            x == Cause(e)
        IN  \/ e \in Foreign
            \/ /\ x \in EnvelopeIds
               /\ x.pos + 1 < n
               /\ s.aggregate_type = Sent(x).aggregate_type
               /\ s.instance_id = Sent(x).instance_id
               /\ s.stream_id = stream_uuid(s.aggregate_type, s.instance_id)
               /\ Decode(s.type, s.payload) \in Range(Outcome(Sent(x).command))

\* Every command that an event calls for is carried out or dead-lettered in the
\* end, and so is every command that this leads to in turn.
OwedIsDelivered ==
    \A n \in 0 .. LogLimit - 1 :
        Len(log) > n ~>
            Len(log) > n /\ \A m \in Managers : \A x \in Range(Answers(m, n)) : Delivered(x)

=============================================================================
