------------------------------ MODULE LiveLoop ------------------------------
(***************************************************************************)
(* Live mode: run_live_loop and the LiveHandle, on top of the runners and  *)
(* of the calls that may drive them meanwhile.                             *)
(*                                                                         *)
(* The loop is one task that polls two things: its own code, and the       *)
(* future process_stream_with_dispatch.  They queue for the runners'       *)
(* mutexes separately, as "loop" and as "stream"; the future makes steps   *)
(* only while the task is in its select!, not while a branch of the        *)
(* select! awaits save_all_checkpoints.                                    *)
(***************************************************************************)
EXTENDS Runners

CONSTANT MaxDelay   \* reconnect_max_delay, in doublings of the base delay

ASSUME LiveAssumption == MaxDelay \in Nat /\ Callers \cap {"stream", "loop"} = {}

VARIABLES
    loop,       \* the loop's locals: where it is, and in a walk over Order how far
    fut,        \* the stream future: its subscription and the event it is at
    handle,     \* LiveHandle: shutdown flag, caught_up, position watch
    begun,      \* length of the log when start_live was called (history only)
    announced   \* last position sent to the watch, -1 for none (history only)

liveVars == <<loop, fut, handle, begun, announced>>
vars     == <<runnerVars, liveVars>>

-----------------------------------------------------------------------------
MaxPos    == LogLimit + 1                       \* u64::MAX
NoLoop    == [pc |-> "off", then |-> "off", i |-> 1, min |-> MaxPos, delay |-> 0]
NoFuture  == [pc |-> "none", i |-> 1, sub |-> 0, upto |-> 0, sentinel |-> FALSE, out |-> <<>>]
NewHandle == [shut |-> FALSE, caught |-> FALSE, watch |-> 0, receivers |-> FALSE]

LiveInit ==
    /\ RunnersInit
    /\ loop = NoLoop
    /\ fut = NoFuture
    /\ handle = NewHandle
    /\ begun = 0
    /\ announced = -1

May(o) == \E c \in Callers : o \in Operations[c]

\* The runner the loop is at in min_global_position or save_all_checkpoints, the
\* one the future is at in its fan-out.
Walking    == loop.i <= Len(Order)
LoopTarget == Order[loop.i]
Fanning    == fut.i <= Len(Order)
FutTarget  == Order[fut.i]
Polled     == loop.pc = "stream"

-----------------------------------------------------------------------------
(* The handle, and live_projection()                                        *)

\* A second call finds the handle in place and fails.
StartLive ==
    /\ May("start_live")
    /\ loop.pc = "off"
    /\ loop' = [NoLoop EXCEPT !.pc = "check"]
    /\ handle' = NewHandle
    /\ begun' = Len(log)
    /\ UNCHANGED <<fut, announced, runnerVars>>

\* shutdown(): it then awaits the task, that is loop.pc = "stopped".
Shutdown ==
    /\ May("shutdown")
    /\ loop.pc # "off" /\ ~handle.shut
    /\ handle' = [handle EXCEPT !.shut = TRUE]
    /\ UNCHANGED <<loop, fut, begun, announced, runnerVars>>

\* subscribe(), and dropping the receivers again.
Watch ==
    /\ May("watch")
    /\ loop.pc # "off"
    /\ handle' = [handle EXCEPT !.receivers = ~@]
    /\ UNCHANGED <<loop, fut, begun, announced, runnerVars>>

\* live_projection(): only looks when live mode was started, else catches up.
CallLiveProjection(c) ==
    \E i \in 1 .. Len(Order) :
        /\ "live_projection" \in Operations[c]
        /\ Order[i] \in Projections
        /\ \/ loop.pc # "off" /\ Begin(c, "live_projection", i, "peek")
           \/ loop.pc = "off" /\ Begin(c, "projection", i, "lock")
        /\ UNCHANGED liveVars

LockForPeek(c) ==
    /\ cpc[c] = "peek"
    /\ CanLock(c, Target(c))
    /\ lock' = Held(c, Target(c))
    /\ cpc' = [cpc EXCEPT ![c] = "peeking"]
    /\ UNCHANGED <<log, checkpoint, file, op, at, next, upto, work, handled, start, reply, liveVars>>

Peek(c) ==
    /\ cpc[c] = "peeking"
    /\ lock' = Released(Target(c))
    /\ Return(c, "live", start[c])
    /\ UNCHANGED <<log, checkpoint, file, handled, liveVars>>

-----------------------------------------------------------------------------
(* The loop                                                                 *)

Saving(then) == loop' = [loop EXCEPT !.pc = "save", !.then = then, !.i = 1]

LoopCheck ==
    /\ loop.pc = "check"
    /\ \/ handle.shut /\ Saving("stopped")
       \/ ~handle.shut /\ loop' = [loop EXCEPT !.pc = "min", !.i = 1, !.min = MaxPos]
    /\ UNCHANGED <<fut, handle, begun, announced, runnerVars>>

\* Mutant: process managers are left out of the minimum.
MinStepProjectionsOnly ==
    /\ loop.pc = "min" /\ Walking
    /\ CanLock("loop", LoopTarget)
    /\ lock' = Released(LoopTarget)
    /\ loop' = [loop EXCEPT !.i = @ + 1,
                            !.min = IF LoopTarget \in Projections /\ checkpoint[LoopTarget].pos < @
                                    THEN checkpoint[LoopTarget].pos ELSE @]
    /\ UNCHANGED <<fut, handle, begun, announced, log, checkpoint, file, handled, callerVars>>

\* min_global_position: one runner is locked, looked at and released.
MinStep ==
    /\ loop.pc = "min" /\ Walking
    /\ CanLock("loop", LoopTarget)
    /\ lock' = Released(LoopTarget)
    /\ loop' = [loop EXCEPT !.i = @ + 1,
                            !.min = IF checkpoint[LoopTarget].pos < @
                                    THEN checkpoint[LoopTarget].pos ELSE @]
    /\ UNCHANGED <<fut, handle, begun, announced, log, checkpoint, file, handled, callerVars>>

LoopWait ==
    /\ loop.pc \in {"min", "save"} /\ Walking
    /\ Enqueue("loop", LoopTarget)
    /\ UNCHANGED <<log, checkpoint, file, handled, callerVars, liveVars>>

\* Mutant: every connection starts from the beginning of the log.
LoopSubscribeFromStart ==
    /\ loop.pc = "min" /\ ~Walking
    /\ loop' = [loop EXCEPT !.pc = "stream"]
    /\ fut' = [NoFuture EXCEPT !.pc = "next", !.upto = Len(log)]
    /\ UNCHANGED <<handle, begun, announced, runnerVars>>

LoopSubscribe ==
    /\ loop.pc = "min" /\ ~Walking
    /\ loop' = [loop EXCEPT !.pc = "stream"]
    /\ fut' = [NoFuture EXCEPT !.pc = "next",
                               !.sub = IF loop.min = MaxPos THEN 0 ELSE loop.min,
                               !.upto = Len(log)]
    /\ UNCHANGED <<handle, begun, announced, runnerVars>>

SubscribeFails ==
    /\ "stream" \in Faults
    /\ loop.pc = "min" /\ ~Walking
    /\ loop' = [loop EXCEPT !.pc = "retry"]
    /\ UNCHANGED <<fut, handle, begun, announced, runnerVars>>

\* sleep(backoff_delay), after a failed subscription or a broken stream.
BackoffEnds ==
    /\ loop.pc \in {"retry", "reconnect"}
    /\ loop' = [loop EXCEPT !.pc = "check",
                            !.delay = IF @ < MaxDelay THEN @ + 1 ELSE @]
    /\ UNCHANGED <<fut, handle, begun, announced, runnerVars>>

\* After a broken stream the checkpoints have just been saved.
BackoffShutdown ==
    /\ handle.shut
    /\ \/ loop.pc = "retry" /\ Saving("stopped")
       \/ loop.pc = "reconnect" /\ loop' = [loop EXCEPT !.pc = "stopped"]
    /\ UNCHANGED <<fut, handle, begun, announced, runnerVars>>

\* The other two branches of the select!.
Tick ==
    /\ Polled
    /\ Saving("stream")
    /\ UNCHANGED <<fut, handle, begun, announced, runnerVars>>

ShutdownSeen ==
    /\ Polled
    /\ handle.shut
    /\ Saving("stopped")
    /\ UNCHANGED <<fut, handle, begun, announced, runnerVars>>

\* Mutant: the guards live until the function returns, and then too.
SaveStepKeepsLock ==
    /\ loop.pc = "save" /\ Walking
    /\ CanLock("loop", LoopTarget)
    /\ lock' = Held("loop", LoopTarget)
    /\ file' = [file EXCEPT ![LoopTarget] = checkpoint[LoopTarget]]
    /\ loop' = [loop EXCEPT !.i = @ + 1]
    /\ UNCHANGED <<fut, handle, begun, announced, log, checkpoint, handled, callerVars>>

\* save_all_checkpoints: one runner is locked and saved; an error is only logged.
SaveStep ==
    /\ loop.pc = "save" /\ Walking
    /\ CanLock("loop", LoopTarget)
    /\ lock' = Released(LoopTarget)
    /\ \/ file' = [file EXCEPT ![LoopTarget] = checkpoint[LoopTarget]]
       \/ LoopTarget \in FragileDirs /\ UNCHANGED file
    /\ loop' = [loop EXCEPT !.i = @ + 1]
    /\ UNCHANGED <<fut, handle, begun, announced, log, checkpoint, handled, callerVars>>

\* Mutant: after a save on a clean end the loop goes back to the ended stream.
SaveDoneStays ==
    /\ loop.pc = "save" /\ ~Walking
    /\ loop' = [loop EXCEPT !.pc = IF loop.then = "stopped" THEN "stopped" ELSE "stream"]
    /\ UNCHANGED <<fut, lock, handle, begun, announced, log, checkpoint, file, handled, callerVars>>

\* Mutant: after the save on shutdown the loop does not return.
SaveDoneResumes ==
    /\ loop.pc = "save" /\ ~Walking
    /\ loop' = [loop EXCEPT !.pc = CASE loop.then = "ended" -> "check"
                                     [] loop.then = "stopped" -> "stream"
                                     [] OTHER -> loop.then]
    /\ UNCHANGED <<fut, lock, handle, begun, announced, log, checkpoint, file, handled, callerVars>>

\* ... and what follows: back to the select!, to the top of the loop, to the
\* back-off, or out, which drops the future with all it holds.
SaveDone ==
    /\ loop.pc = "save" /\ ~Walking
    /\ loop' = [loop EXCEPT !.pc = IF loop.then = "ended" THEN "check" ELSE loop.then,
                            !.delay = IF loop.then = "ended" /\ handle.caught THEN 0 ELSE @]
    /\ IF loop.then = "stopped"
       THEN fut' = NoFuture /\ lock' = Dropped("stream")
       ELSE UNCHANGED <<fut, lock>>
    /\ UNCHANGED <<handle, begun, announced, log, checkpoint, file, handled, callerVars>>

-----------------------------------------------------------------------------
(* process_stream_with_dispatch                                             *)

FutRecv ==
    /\ Polled
    /\ fut.pc = "next"
    /\ fut.sub < Len(log)
    /\ fut' = [fut EXCEPT !.pc = "event", !.i = 1]
    /\ UNCHANGED <<loop, handle, begun, announced, runnerVars>>

\* The event is given to the next runner, under its lock.
FutFan ==
    /\ Polled
    /\ fut.pc = "event" /\ Fanning
    /\ CanLock("stream", FutTarget)
    /\ lock' = Released(FutTarget)
    /\ checkpoint' = [checkpoint EXCEPT ![FutTarget] = AfterEvent(@, fut.sub)]
    /\ fut' = [fut EXCEPT !.i = @ + 1, !.out = @ \o Produced(FutTarget, fut.sub)]
    /\ UNCHANGED <<loop, handle, begun, announced, log, file, handled, callerVars>>

FutWait ==
    /\ Polled
    /\ fut.pc = "event" /\ Fanning
    /\ Enqueue("stream", FutTarget)
    /\ UNCHANGED <<log, checkpoint, file, handled, callerVars, liveVars>>

\* Mutant: a command that fails is dropped without a dead letter.
FutDispatchForgets ==
    /\ Polled
    /\ fut.pc = "event" /\ ~Fanning
    /\ fut.out # <<>>
    /\ fut' = [fut EXCEPT !.out = Tail(@)]
    /\ \/ handled' = handled \cup {Head(fut.out)}
       \/ UNCHANGED handled
    /\ UNCHANGED <<loop, handle, begun, announced, log, checkpoint, file, lock, callerVars>>

\* Dispatched or dead-lettered; a dead letter that cannot be written is logged.
FutDispatch ==
    /\ Polled
    /\ fut.pc = "event" /\ ~Fanning
    /\ fut.out # <<>>
    /\ fut' = [fut EXCEPT !.out = Tail(@)]
    /\ \/ handled' = handled \cup {Head(fut.out)}
       \/ "letter" \in Faults /\ UNCHANGED handled
    /\ UNCHANGED <<loop, handle, begun, announced, log, checkpoint, file, lock, callerVars>>

\* Mutant: the position is sent as soon as the event arrives.
FutAnnounceEarly ==
    /\ Polled
    /\ fut.pc = "event"
    /\ announced' = fut.sub
    /\ handle' = [handle EXCEPT !.watch = IF handle.receivers THEN fut.sub ELSE @]
    /\ fut' = IF Fanning \/ fut.out # <<>> THEN fut
              ELSE [fut EXCEPT !.pc = "next", !.i = 1, !.sub = @ + 1]
    /\ UNCHANGED <<loop, begun, runnerVars>>

\* Mutant: nothing is sent any more once the loop has caught up.
FutAnnounceReplayOnly ==
    /\ Polled
    /\ fut.pc = "event" /\ ~Fanning
    /\ fut.out = <<>>
    /\ announced' = fut.sub
    /\ handle' = [handle EXCEPT !.watch = IF handle.receivers /\ ~handle.caught THEN fut.sub ELSE @]
    /\ fut' = [fut EXCEPT !.pc = "next", !.i = 1, !.sub = @ + 1]
    /\ UNCHANGED <<loop, begun, runnerVars>>

\* position_tx.send(): without a receiver the value is not stored.
FutAnnounce ==
    /\ Polled
    /\ fut.pc = "event" /\ ~Fanning
    /\ fut.out = <<>>
    /\ announced' = fut.sub
    /\ handle' = [handle EXCEPT !.watch = IF handle.receivers THEN fut.sub ELSE @]
    /\ fut' = [fut EXCEPT !.pc = "next", !.i = 1, !.sub = @ + 1]
    /\ UNCHANGED <<loop, begun, runnerVars>>

\* The sentinel follows the events that were in the log at the subscription.
FutCaughtUp ==
    /\ Polled
    /\ fut.pc = "next" /\ ~fut.sentinel
    /\ fut.sub >= fut.upto
    /\ handle' = [handle EXCEPT !.caught = TRUE]
    /\ fut' = [fut EXCEPT !.sentinel = TRUE]
    /\ UNCHANGED <<loop, begun, announced, runnerVars>>

\* The server closes the stream, or it breaks.
FutEnds ==
    /\ Polled
    /\ fut.pc = "next"
    /\ \/ "eof" \in Faults /\ Saving("ended")
       \/ "stream" \in Faults /\ Saving("reconnect")
    /\ fut' = NoFuture
    /\ UNCHANGED <<handle, begun, announced, runnerVars>>

\* The process dies with the loop in it.
CrashLive ==
    /\ Crash
    /\ loop' = NoLoop
    /\ fut' = NoFuture
    /\ handle' = NewHandle
    /\ begun' = 0
    /\ announced' = -1

-----------------------------------------------------------------------------
LoopStep ==
    \/ LoopCheck \/ MinStep \/ LoopWait \/ BackoffEnds \/ BackoffShutdown
    \/ SaveStep \/ SaveDone

FutureStep == FutRecv \/ FutFan \/ FutWait \/ FutDispatch \/ FutAnnounce \/ FutCaughtUp

LiveNext ==
    \/ PullNext /\ UNCHANGED liveVars
    \/ StartLive \/ Shutdown \/ Watch
    \/ \E c \in Callers : CallLiveProjection(c) \/ LockForPeek(c) \/ Peek(c)
    \/ LoopStep \/ LoopSubscribe \/ SubscribeFails \/ Tick \/ ShutdownSeen
    \/ FutureStep \/ FutEnds
    \/ CrashLive

LiveSpec == LiveInit /\ [][LiveNext]_vars

\* The loop's task and the callers' are scheduled; the server takes subscriptions
\* again and again.  A ready tick may be served before a ready event any number
\* of times, not for ever.
FairLiveSpec ==
    /\ LiveSpec
    /\ WF_vars(LoopStep)
    /\ SF_vars(LoopSubscribe)
    /\ SF_vars(FutureStep)
    /\ SF_vars(ShutdownSeen)
    /\ \A c \in Callers : WF_vars((CallerStep(c) /\ UNCHANGED liveVars)
                               \/ LockForPeek(c) \/ Peek(c))

-----------------------------------------------------------------------------
(* Correctness                                                              *)

\* Type invariant of live mode; the future exists while the task is in its
\* select!, and nothing of it stays in a queue once it is gone; nor does the loop
\* hold a mutex outside its two walks.
LiveTypeOK ==
    /\ TypeOK
    /\ loop \in [pc : {"off", "check", "min", "retry", "stream", "save", "reconnect", "stopped"},
                 then : {"off", "stream", "ended", "reconnect", "stopped"},
                 i : 1 .. Len(Order) + 1, min : 0 .. MaxPos, delay : 0 .. MaxDelay]
    /\ fut \in [pc : {"none", "next", "event"}, i : 1 .. Len(Order) + 1, sub : 0 .. LogLimit,
                upto : 0 .. LogLimit, sentinel : BOOLEAN, out : Seq(EnvelopeIds)]
    /\ handle \in [shut : BOOLEAN, caught : BOOLEAN, watch : 0 .. LogLimit, receivers : BOOLEAN]
    /\ Polled => fut.pc # "none"
    /\ fut.pc # "event" => \A r \in Runner : "stream" \notin Range(lock[r])
    /\ loop.pc \notin {"min", "save"} => \A r \in Runner : "loop" \notin Range(lock[r])

\* Why: the subscription is never ahead of a runner it feeds, whichever runner was
\* behind when it was opened and whoever moves them meanwhile, and the commands the
\* loop has in hand are of the event it is at (live.rs:223-242, 387-468).
StreamFollows ==
    /\ loop.pc = "min" =>
           \A j \in 1 .. loop.i - 1 : loop.min <= checkpoint[Order[j]].pos
    /\ fut.pc # "none" => \A r \in Runner : fut.sub <= checkpoint[r].pos
    /\ fut.pc = "event" => \A j \in 1 .. fut.i - 1 : fut.sub < checkpoint[Order[j]].pos
    /\ \A i \in 1 .. Len(fut.out) :
           fut.out[i].pos = fut.sub /\ fut.out[i].pos < checkpoint[fut.out[i].pm].pos

\* A position on the watch has been applied by every projection and reacted to by
\* every process manager, whoever fed it, and no command of it is still owed by
\* the loop (live.rs:112-117, 387-468).
AnnouncedIsProcessed ==
    /\ \A r \in Runner : announced < checkpoint[r].pos
    /\ \A m \in Managers : Owed(m, announced + 1) \cap Range(fut.out) = {}
    /\ handle.watch <= announced \/ handle.watch = 0

\* is_caught_up() is not set before every runner is past everything that was in
\* the log when live mode was started, however often the stream broke meanwhile
\* (live.rs:102-110, 471).
CaughtUpMeansReplayed ==
    handle.caught => \A r \in Runner : checkpoint[r].pos >= begun

\* Positions sent to the watch only go up, across reconnections from the minimum
\* position and with calls that move runners ahead of the loop (live.rs:287, 468).
AnnouncementsAdvance ==
    [][announced' # announced => announced' > announced \/ announced' = -1]_vars

\* Envelopes somebody still has in hand.
InHand == Range(fut.out) \cup UNION {Range(work[c]) : c \in Callers}

\* Commands of events their manager has moved past that nobody has carried out,
\* dead-lettered or has in hand: no later step produces them again.
LostCommands ==
    (UNION {Owed(m, checkpoint[m].pos) : m \in Managers}) \ (handled \cup InHand)

\* No command is lost ("ensuring crash safety via re-processing",
\* process_manager.rs:40-42).
NothingLost == LostCommands = {}

\* While the process lives and nobody shuts live mode down no command is lost,
\* whichever of the loop and run_process_managers() took the event, and after a
\* crash none beyond those the crash itself cost (process_manager.rs:40-42).
OnlyCrashesLose == [][CrashLive \/ LostCommands' \subseteq LostCommands]_vars

\* Every event in the log reaches every runner unless live mode is shut down,
\* whatever ticks, closed streams and broken streams come between.
EventsArrive ==
    \A n \in 0 .. LogLimit - 1 : loop.pc # "off" /\ Len(log) > n ~>
        handle.shut \/ \A r \in Runner : checkpoint[r].pos > n

\* Whoever subscribed to the handle before an event was announced, and stays,
\* sees its position or a later one, through reconnections and ticks
\* (live.rs:112-117); send() keeps nothing for those who come later.
WatchersLearn ==
    \A n \in 0 .. LogLimit - 1 :
        handle.receivers /\ announced < n /\ Len(log) > n ~>
            handle.watch >= n \/ ~handle.receivers \/ handle.shut

\* "Sends the shutdown signal, then awaits the background task to completion"
\* (live.rs:143-144): the task completes.
ShutdownReturns == handle.shut ~> loop.pc = "stopped"

=============================================================================
