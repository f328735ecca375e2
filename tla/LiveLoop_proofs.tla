-------------------------- MODULE LiveLoop_proofs ---------------------------
(***************************************************************************)
(* Live mode, for any number of runners, callers and events and every      *)
(* combination of faults: the runners stay exact with the loop and the     *)
(* calls feeding them together, the positions still move as Cursors lets   *)
(* them, what the handle announces has happened, and nobody is left in the *)
(* queue of a mutex it no longer wants.                                    *)
(*                                                                         *)
(* Again exactness does not need the mutexes: the loop's subscription      *)
(* starts at the smallest position and so is never ahead of any runner     *)
(* (StreamFollows), and positions only grow as long as the process lives   *)
(* (Forward).  The loop and its stream future queue only at the runner     *)
(* they are at in their walk (LoopPlace, StreamPlace).                     *)
(***************************************************************************)
EXTENDS LiveLoop, Runners_proofs

LoopPcs == {"off", "check", "min", "retry", "stream", "save", "reconnect", "stopped"}
LoopThens == {"off", "stream", "ended", "reconnect", "stopped"}

\* The part of the type invariant the argument rests on.
LiveTypes ==
    /\ loop \in [pc : LoopPcs, then : LoopThens, i : 1 .. Len(Order) + 1, min : 0 .. MaxPos,
                 delay : 0 .. MaxDelay]
    /\ fut \in [pc : {"none", "next", "event"}, i : 1 .. Len(Order) + 1, sub : Nat, upto : Nat,
                sentinel : BOOLEAN, out : Seq(EnvelopeIds)]
    /\ handle \in [shut : BOOLEAN, caught : BOOLEAN, watch : Nat, receivers : BOOLEAN]
    /\ begun \in Nat /\ begun <= Len(log)
    /\ announced \in Int /\ announced >= -1
    /\ Len(log) <= LogLimit
    /\ fut.sub <= Len(log) /\ fut.upto <= Len(log)
    /\ fut.pc = "event" => fut.sub < Len(log)

\* Where the loop is determines whether there is a stream.
Phases ==
    /\ loop.pc = "off" => announced = -1
    /\ loop.pc \notin {"stream", "save"} => fut.pc = "none"
    /\ loop.pc = "stream" => fut.pc # "none"
    /\ loop.pc = "min" /\ loop.i = 1 => loop.min = MaxPos
    /\ loop.pc = "save" =>
           /\ loop.then # "off"
           /\ loop.then = "stream" => fut.pc # "none"
           /\ loop.then \in {"ended", "reconnect"} => fut.pc = "none"
    /\ fut.pc # "event" => fut.out = <<>>
    /\ fut.pc # "none" => begun <= fut.upto

LiveInv == PassInv /\ LiveTypes /\ Phases /\ StreamFollows

\* While the process lives, the log grows and no position goes back.
Forward ==
    /\ log' = log \/ \E e \in Events : Len(log) < LogLimit /\ log' = Append(log, e)
    /\ \A r \in Runner : checkpoint[r].pos <= checkpoint'[r].pos

-----------------------------------------------------------------------------
(* What a step does to the runners                                          *)

\* A step that leaves the log and the runners alone goes forward.
LEMMA SameIsForward ==
    ASSUME PassInv, UNCHANGED <<log, checkpoint>>
    PROVE  Forward
  BY DEF Forward, PassInv, PassTypes, Checkpoints

\* A step that moves no runner, no file and no caller leaves the invariant alone.
LEMMA QuietInv ==
    ASSUME PassInv, UNCHANGED <<log, checkpoint, file, handled, cpc, at, next, work>>
    PROVE  PassInv' /\ Forward /\ UNCHANGED barVars
  <1>1. PassInv'
    BY DEF PassInv, PassTypes, CallersFollow, CheckpointsAreCursors, IsCursor, Target
  <1> QED
    BY <1>1, SameIsForward, Stutters

\* The calls of pull mode go forward.
LEMMA PullForward ==
    ASSUME PassInv, PullNext
    PROVE  Forward
  <1>1. ASSUME NEW e \in Events, Write(e)
        PROVE  Forward
    BY <1>1 DEF Write, Forward, PassInv, PassTypes, Checkpoints
  <1>2. ASSUME NEW c \in Callers, ReadEvent(c)
        PROVE  Forward
    <2>1. PICK t \in Runner : t = Target(c)
      BY <1>2, ReadEventInv
    <2>2. /\ \A r \in Runner \ {t} : checkpoint'[r] = checkpoint[r]
          /\ \/ checkpoint'[t].pos = checkpoint[t].pos
             \/ checkpoint'[t].pos = checkpoint[t].pos + 1
      BY <1>2, <2>1, ReadEventInv
    <2>3. \A r \in Runner : checkpoint[r].pos \in Nat
      BY DEF PassInv, PassTypes, Checkpoints
    <2>4. log' = log
      BY <1>2 DEF ReadEvent
    <2>5. \A r \in Runner : checkpoint[r].pos <= checkpoint'[r].pos
      BY <2>1, <2>2, <2>3
    <2> QED
      BY <2>4, <2>5 DEF Forward
  <1>3. ASSUME NEW c \in Callers,
               \/ CallProjection(c) \/ CallRunProcessManagers(c) \/ Acquire(c) \/ Await(c)
               \/ Subscribe(c) \/ ProjectionDone(c) \/ ManagerDone(c) \/ Dispatch(c)
               \/ AllDispatched(c) \/ LockForSave(c) \/ SaveManager(c) \/ StreamError(c)
               \/ Abandon(c)
        PROVE  Forward
    <2>1. UNCHANGED <<log, checkpoint>>
      BY <1>3 DEF CallProjection, CallRunProcessManagers, Begin, Acquire, Await, Subscribe,
         ProjectionDone, ManagerDone, Dispatch, AllDispatched, LockForSave, SaveManager,
         StreamError, Abandon
    <2> QED
      BY <2>1, SameIsForward
  <1> QED
    BY <1>1, <1>2, <1>3 DEF PullNext, CallerStep, PassStep

\* live_projection() only looks.
LEMMA LookInv ==
    ASSUME PassInv, NEW c \in Callers, CallLiveProjection(c) \/ LockForPeek(c) \/ Peek(c)
    PROVE  PassInv' /\ UNCHANGED <<log, checkpoint, file, handled, liveVars>>
  <1>1. UNCHANGED <<log, checkpoint, file, handled, liveVars>>
    BY DEF CallLiveProjection, Begin, LockForPeek, Peek
  <1>2. CASE CallLiveProjection(c)
    <2>1. PICK i \in 1 .. Len(Order) : \/ Begin(c, "live_projection", i, "peek")
                                       \/ Begin(c, "projection", i, "lock")
      BY <1>2 DEF CallLiveProjection
    <2>2. i \in 1 .. Len(Order) + 1 /\ i <= Len(Order)
      BY OrderType
    <2>3. PassInv'
      BY <2>1, <2>2, BeginInv
    <2> QED
      BY <1>1, <2>3
  <1>3. CASE LockForPeek(c)
    <2>1. /\ cpc[c] = "peek" /\ cpc' = [cpc EXCEPT ![c] = "peeking"]
          /\ UNCHANGED <<log, checkpoint, file, at, next, work>>
      BY <1>3 DEF LockForPeek
    <2>2. /\ cpc' \in [Callers -> CallerPcs] /\ cpc'[c] = "peeking"
          /\ \A d \in Callers \ {c} : cpc'[d] = cpc[d]
      BY <2>1 DEF PassInv, PassTypes, CallerPcs
    <2>3. /\ at' \in [Callers -> 1 .. Len(Order) + 1] /\ next' \in [Callers -> Nat]
          /\ work' \in [Callers -> Seq(EnvelopeIds)]
      BY <2>1 DEF PassInv, PassTypes
    <2>4. at'[c] <= Len(Order)
      BY <2>1, CallerFacts, OrderType
    <2>5. PassInv'
      BY <2>1, <2>2, <2>3, <2>4, CallerFacts, SameFileIsCursor, CallerMoves
    <2> QED
      BY <1>1, <2>5
  <1>4. CASE Peek(c)
    <2>1. Return(c, "live", start[c])
      BY <1>4 DEF Peek
    <2>2. PassInv'
      BY <1>1, <2>1, SameFileIsCursor, ReturnKeepsInv
    <2> QED
      BY <1>1, <2>2
  <1> QED
    BY <1>2, <1>3, <1>4

\* The loop gives an event to a runner that is at it or past it.
LEMMA FanInv ==
    ASSUME LiveInv, FutFan
    PROVE  /\ PassInv' /\ Forward
           /\ FutTarget \in Runner /\ fut.sub < checkpoint'[FutTarget].pos
           /\ (\E r \in Runner : Positions!Deliver(r)) \/ UNCHANGED barVars
  <1> DEFINE t == FutTarget
             n == fut.sub
             cp == checkpoint[t]
  <1>0. PassInv /\ PassTypes /\ CheckpointsAreCursors /\ LiveTypes /\ StreamFollows
    BY DEF LiveInv, PassInv
  <1>1. /\ fut.pc = "event" /\ fut.i <= Len(Order)
        /\ checkpoint' = [checkpoint EXCEPT ![t] = AfterEvent(@, n)]
        /\ UNCHANGED <<log, file, handled, cpc, at, next, work>>
    BY DEF FutFan, Fanning, callerVars
  <1>2. fut.i \in 1 .. Len(Order)
    BY <1>0, <1>1, OrderType DEF LiveTypes
  <1>3. t \in Runner /\ n \in Nat /\ n < Len(log)
    BY <1>0, <1>1, <1>2, OrderType DEF LiveTypes, FutTarget
  <1>4. cp \in Checkpoints /\ IsCursor(cp) /\ log \in Seq(Events) /\ cp.pos \in Nat /\ n <= cp.pos
    BY <1>0, <1>1, <1>3 DEF PassTypes, CheckpointsAreCursors, Checkpoints, StreamFollows
  <1> HIDE DEF n, cp, t
  <1>5. /\ AfterEvent(cp, n) \in Checkpoints
        /\ IsCursor(AfterEvent(cp, n))
        /\ AfterEvent(cp, n).pos = IF n = cp.pos THEN n + 1 ELSE cp.pos
    BY <1>3, <1>4, AfterEventIsCursor
  <1>6. /\ checkpoint' \in [Runner -> Checkpoints] /\ checkpoint'[t] = AfterEvent(cp, n)
        /\ \A r \in Runner \ {t} : checkpoint'[r] = checkpoint[r]
    BY <1>0, <1>1, <1>3, <1>5 DEF PassTypes, cp
  <1>7. \A r \in Runner : checkpoint[r].pos \in Nat /\ checkpoint'[r].pos \in Nat
    BY <1>0, <1>6 DEF PassTypes, Checkpoints
  <1>8. \A r \in Runner : checkpoint[r].pos <= checkpoint'[r].pos
    BY <1>3, <1>4, <1>5, <1>6, <1>7 DEF cp
  <1>9. n < checkpoint'[t].pos
    BY <1>3, <1>4, <1>5, <1>6
  <1>10. CheckpointsAreCursors'
    <2>1. ASSUME NEW r \in Runner
          PROVE  IsCursor(checkpoint'[r]) /\ IsCursor(file[r])
      BY <1>0, <1>5, <1>6 DEF CheckpointsAreCursors
    <2> QED
      BY <1>1, <2>1 DEF CheckpointsAreCursors, IsCursor
  <1>11. CallersFollow'
    <2>1. SUFFICES ASSUME NEW d \in Callers
                   PROVE  /\ cpc[d] \notin {"idle", "dispatch"} => at[d] <= Len(Order)
                          /\ cpc[d] = "read" => next[d] <= checkpoint'[Order[at[d]]].pos
                          /\ \A i \in 1 .. Len(work[d]) :
                                 work[d][i].pos < checkpoint'[work[d][i].pm].pos
      BY <1>1 DEF CallersFollow, Target
    <2>2. cpc[d] \notin {"idle", "dispatch"} => at[d] <= Len(Order)
      BY <1>0, CallerFacts DEF PassInv, CallersFollow
    <2>3. ASSUME cpc[d] = "read" PROVE next[d] <= checkpoint'[Order[at[d]]].pos
      <3>1. /\ next[d] \in Nat /\ Order[at[d]] \in Runner
            /\ next[d] <= checkpoint[Order[at[d]]].pos
        BY <1>0, <2>3, CallerFacts DEF Target
      <3> QED
        BY <1>7, <1>8, <3>1
    <2>4. ASSUME NEW i \in 1 .. Len(work[d])
          PROVE  work[d][i].pos < checkpoint'[work[d][i].pm].pos
      <3>1. /\ work[d][i] \in EnvelopeIds
            /\ work[d][i].pos < checkpoint[work[d][i].pm].pos
        BY <1>0, CallerFacts
      <3>2. work[d][i].pm \in Runner /\ work[d][i].pos \in Nat
        BY <3>1 DEF EnvelopeIds, Runner
      <3> QED
        BY <1>7, <1>8, <3>1, <3>2
    <2> QED
      BY <2>2, <2>3, <2>4
  <1>12. PassInv'
    BY <1>0, <1>1, <1>6, <1>10, <1>11 DEF PassInv, PassTypes
  <1>13. Forward
    BY <1>1, <1>8 DEF Forward
  <1>14. savedBar' = savedBar
    BY <1>1 DEF savedBar
  <1>15. CASE checkpoint'[t].pos = checkpoint[t].pos
    <2>1. posBar' = posBar
      BY <1>6, <1>15 DEF posBar
    <2> QED
      BY <1>1, <1>3, <1>9, <1>12, <1>13, <1>14, <2>1 DEF barVars, t, n
  <1>16. CASE checkpoint'[t].pos = checkpoint[t].pos + 1 /\ checkpoint[t].pos < Len(log)
    <2>1. PICK r \in Runner : r = t
      BY <1>3
    <2>2. posBar' = [posBar EXCEPT ![r] = @ + 1] /\ posBar[r] < Len(log)
      BY <1>6, <1>16, <2>1 DEF posBar
    <2>3. Positions!Deliver(r)
      BY <1>1, <1>14, <2>2 DEF Positions!Deliver, posBar, savedBar
    <2>4. \E q \in Runner : Positions!Deliver(q)
      BY <2>3
    <2> QED
      BY <1>3, <1>9, <1>12, <1>13, <2>4 DEF t, n
  <1> QED
    BY <1>3, <1>4, <1>5, <1>6, <1>15, <1>16 DEF cp

\* save_all_checkpoints writes one runner's checkpoint, or fails to.
LEMMA SaveStepInv ==
    ASSUME LiveInv, SaveStep
    PROVE  /\ PassInv' /\ Forward /\ UNCHANGED <<log, checkpoint, handled>>
           /\ (\E r \in Runner : Positions!Save(r)) \/ UNCHANGED barVars
  <1>0. PassInv /\ PassTypes /\ LiveTypes
    BY DEF LiveInv, PassInv
  <1>1. /\ loop.i <= Len(Order)
        /\ UNCHANGED <<log, checkpoint, handled, cpc, at, next, work>>
        /\ file' = [file EXCEPT ![LoopTarget] = checkpoint[LoopTarget]] \/ file' = file
    BY DEF SaveStep, Walking, callerVars
  <1>2. loop.i \in 1 .. Len(Order)
    BY <1>0, <1>1, OrderType DEF LiveTypes
  <1>3. PICK r \in Runner : r = LoopTarget
    BY <1>2, OrderType DEF LoopTarget
  <1>4. Forward
    BY <1>0, <1>1, SameIsForward
  <1>5. CASE file' = file
    BY <1>0, <1>1, <1>5, QuietInv
  <1>6. CASE file' = [file EXCEPT ![r] = checkpoint[r]]
    <2>1. /\ file' \in [Runner -> Checkpoints] /\ \A q \in Runner : IsCursor(file'[q])
      BY <1>0, <1>6, SavedFileIsCursor
    <2>2. CheckpointsAreCursors'
      BY <1>0, <1>1, <2>1 DEF PassInv, CheckpointsAreCursors, IsCursor
    <2>3. PassTypes'
      BY <1>0, <1>1, <2>1 DEF PassTypes
    <2>4. CallersFollow'
      BY <1>0, <1>1 DEF PassInv, CallersFollow, Target
    <2>5. PassInv'
      BY <2>2, <2>3, <2>4 DEF PassInv
    <2>6. Positions!Save(r)
      BY <1>0, <1>1, <1>6, WriteSaves
    <2> QED
      BY <1>1, <1>4, <2>5, <2>6
  <1> QED
    BY <1>1, <1>3, <1>5, <1>6

\* The loop carries out a command of an event its manager has moved past.
LEMMA FutDispatchInv ==
    ASSUME LiveInv, FutDispatch
    PROVE  PassInv' /\ Forward /\ [Positions!Next]_barVars
  <1>0. PassInv /\ PassTypes /\ LiveTypes /\ StreamFollows
    BY DEF LiveInv, PassInv
  <1>1. /\ fut.out # <<>> /\ UNCHANGED <<log, checkpoint, file, cpc, at, next, work>>
        /\ handled' = handled \cup {Head(fut.out)} \/ UNCHANGED handled
    BY DEF FutDispatch, callerVars
  <1>2. PassInv' /\ Forward
    <2>1. PassInv'
      BY <1>0, <1>1 DEF PassInv, PassTypes, CallersFollow, CheckpointsAreCursors, IsCursor, Target
    <2> QED BY <1>0, <1>1, <2>1, SameIsForward
  <1>3. CASE UNCHANGED handled
    BY <1>1, <1>2, <1>3, Stutters
  <1>4. CASE handled' = handled \cup {Head(fut.out)}
    <2>1. fut.out \in Seq(EnvelopeIds)
      BY <1>0 DEF LiveTypes
    <2>2. Head(fut.out) = fut.out[1] /\ 1 \in 1 .. Len(fut.out) /\ fut.out[1] \in EnvelopeIds
      BY <1>1, <2>1
    <2>3. PICK x \in EnvelopeIds : x = Head(fut.out) /\ x.pos < checkpoint[x.pm].pos
      BY <1>0, <2>2 DEF StreamFollows
    <2>4. x \in handled' /\ x.pm \in Runner /\ handled' = handled \cup {x}
      BY <1>4, <2>3 DEF EnvelopeIds, Runner
    <2>5. x.pos < posBar[x.pm]
      BY <2>3, <2>4 DEF posBar
    <2>6. posBar' = posBar /\ savedBar' = savedBar
      BY <1>1 DEF posBar, savedBar
    <2>7. Positions!CarryOut
      BY <1>1, <2>4, <2>5, <2>6 DEF Positions!CarryOut, posBar, savedBar
    <2> QED
      BY <1>2, <2>7 DEF Positions!Next
  <1> QED
    BY <1>1, <1>3, <1>4

\* Every step of live mode keeps the runners exact, is a step of Cursors or none,
\* and goes forward unless the process dies.
LEMMA RunnersStep ==
    ASSUME LiveInv, [LiveNext]_vars
    PROVE  PassInv' /\ [Positions!Next]_barVars /\ (Forward \/ CrashLive)
  <1>0. PassInv
    BY DEF LiveInv
  <1>1. CASE PullNext /\ UNCHANGED liveVars
    BY <1>0, <1>1, NextInv, NextMoves, PullForward DEF Next
  <1>2. CASE CrashLive
    <2>1. Next
      BY <1>2 DEF CrashLive, Next
    <2> QED
      BY <1>0, <1>2, <2>1, NextInv, NextMoves
  <1>3. ASSUME NEW c \in Callers, CallLiveProjection(c) \/ LockForPeek(c) \/ Peek(c)
        PROVE  PassInv' /\ UNCHANGED barVars /\ Forward
    BY <1>0, <1>3, LookInv, Stutters, SameIsForward
  <1>4. CASE \/ StartLive \/ Shutdown \/ Watch \/ LoopCheck \/ MinStep \/ LoopWait \/ BackoffEnds
             \/ BackoffShutdown \/ SaveDone \/ LoopSubscribe \/ SubscribeFails \/ Tick
             \/ ShutdownSeen \/ UNCHANGED vars
    <2>1. UNCHANGED <<log, checkpoint, file, handled, cpc, at, next, work>>
      BY <1>4 DEF StartLive, Shutdown, Watch, LoopCheck, MinStep, LoopWait, BackoffEnds,
         BackoffShutdown, SaveDone, LoopSubscribe, SubscribeFails, Tick, ShutdownSeen, vars,
         runnerVars, callerVars
    <2> QED
      BY <1>0, <2>1, QuietInv
  <1>5. CASE FutRecv \/ FutWait \/ FutAnnounce \/ FutCaughtUp \/ FutEnds
    <2>1. UNCHANGED <<log, checkpoint, file, handled, cpc, at, next, work>>
      BY <1>5 DEF FutRecv, FutWait, FutAnnounce, FutCaughtUp, FutEnds, runnerVars, callerVars
    <2> QED
      BY <1>0, <2>1, QuietInv
  <1>6. CASE FutFan
    BY <1>6, FanInv DEF Positions!Next
  <1>7. CASE SaveStep
    BY <1>7, SaveStepInv DEF Positions!Next
  <1>8. CASE FutDispatch
    BY <1>8, FutDispatchInv
  <1> QED
    BY <1>1, <1>2, <1>3, <1>4, <1>5, <1>6, <1>7, <1>8 DEF LiveNext, LoopStep, FutureStep

-----------------------------------------------------------------------------
(* What a step does to the loop                                             *)

LoopFollows ==
    loop.pc = "min" => \A j \in 1 .. loop.i - 1 : loop.min <= checkpoint[Order[j]].pos
FutFollows ==
    /\ fut.pc # "none" => \A r \in Runner : fut.sub <= checkpoint[r].pos
    /\ fut.pc = "event" => \A j \in 1 .. fut.i - 1 : fut.sub < checkpoint[Order[j]].pos
    /\ \A i \in 1 .. Len(fut.out) :
           fut.out[i].pos = fut.sub /\ fut.out[i].pos < checkpoint[fut.out[i].pm].pos

\* Going forward, what was at or below a position stays so, and the log is within
\* its bound.
LEMMA ForwardFacts ==
    ASSUME LiveInv, PassInv', Forward
    PROVE  /\ \A r \in Runner : checkpoint[r].pos \in Nat /\ checkpoint'[r].pos \in Nat
           /\ \A n \in Int, r \in Runner :
                  /\ n <= checkpoint[r].pos => n <= checkpoint'[r].pos
                  /\ n < checkpoint[r].pos => n < checkpoint'[r].pos
           /\ Len(log) \in Nat /\ Len(log') \in Nat /\ Len(log) <= Len(log')
           /\ Len(log') <= LogLimit
  <1>1. \A r \in Runner : checkpoint[r].pos \in Nat /\ checkpoint'[r].pos \in Nat
    BY DEF LiveInv, PassInv, PassTypes, Checkpoints
  <1>2. log \in Seq(Events) /\ log' \in Seq(Events) /\ Len(log) <= LogLimit /\ LogLimit \in Nat
    BY RunnersAssumption DEF LiveInv, PassInv, PassTypes, LiveTypes
  <1>3. Len(log) <= Len(log') /\ Len(log') <= LogLimit
    <2>1. CASE log' = log
      BY <1>2, <2>1
    <2>2. ASSUME NEW e \in Events, Len(log) < LogLimit, log' = Append(log, e)
          PROVE  Len(log) <= Len(log') /\ Len(log') <= LogLimit
      <3>1. Len(log') = Len(log) + 1 /\ Len(log) \in Nat
        BY <1>2, <2>2
      <3> QED BY <1>2, <2>2, <3>1
    <2> QED
      BY <2>1, <2>2 DEF Forward
  <1> QED
    BY <1>1, <1>2, <1>3 DEF Forward

\* The loop's minimum stays one while runners only move up.
LEMMA LoopStays ==
    ASSUME LiveInv, PassInv', Forward, loop' = loop \/ loop'.pc # "min"
    PROVE  LoopFollows'
  <1>1. CASE loop'.pc # "min"
    BY <1>1 DEF LoopFollows
  <1>2. CASE loop' = loop /\ loop.pc = "min"
    <2>1. loop.min \in Int /\ loop.i - 1 <= Len(Order) /\ loop.i \in Int
      BY OrderType, RunnersAssumption DEF LiveInv, LiveTypes, MaxPos
    <2>2. ASSUME NEW j \in 1 .. loop.i - 1
          PROVE  loop.min <= checkpoint'[Order[j]].pos
      <3>1. loop.min <= checkpoint[Order[j]].pos
        BY <1>2 DEF LiveInv, StreamFollows
      <3>2. j \in 1 .. Len(Order)
        BY <2>1, OrderType
      <3>3. Order[j] \in Runner
        BY <3>2, OrderType
      <3> QED BY <2>1, <3>1, <3>3, ForwardFacts
    <2> QED BY <1>2, <2>2 DEF LoopFollows
  <1> QED BY <1>1, <1>2

\* The stream stays behind the runners while it does not move.
LEMMA FutStays ==
    ASSUME LiveInv, PassInv', Forward,
           \/ /\ fut'.pc = fut.pc /\ fut'.i = fut.i /\ fut'.sub = fut.sub /\ fut'.out = fut.out
           \/ fut' = NoFuture
    PROVE  FutFollows'
  <1>1. CASE fut' = NoFuture
    BY <1>1 DEF FutFollows, NoFuture
  <1>2. CASE fut'.pc = fut.pc /\ fut'.i = fut.i /\ fut'.sub = fut.sub /\ fut'.out = fut.out
    <2>0. /\ fut.sub \in Int /\ fut.i \in Int /\ fut.i - 1 <= Len(Order)
          /\ fut.out \in Seq(EnvelopeIds) /\ FutFollows
      BY OrderType DEF LiveInv, LiveTypes, StreamFollows, FutFollows
    <2>1. fut'.pc # "none" => \A r \in Runner : fut'.sub <= checkpoint'[r].pos
      BY <1>2, <2>0, ForwardFacts DEF FutFollows
    <2>2. ASSUME fut'.pc = "event", NEW j \in 1 .. fut'.i - 1
          PROVE  fut'.sub < checkpoint'[Order[j]].pos
      <3>1. fut.sub < checkpoint[Order[j]].pos
        BY <1>2, <2>0, <2>2 DEF FutFollows
      <3>2. j \in 1 .. Len(Order)
        BY <1>2, <2>0, OrderType
      <3>3. Order[j] \in Runner
        BY <3>2, OrderType
      <3> QED BY <1>2, <2>0, <3>1, <3>3, ForwardFacts
    <2>3. ASSUME NEW i \in 1 .. Len(fut'.out)
          PROVE  fut'.out[i].pos = fut'.sub /\ fut'.out[i].pos < checkpoint'[fut'.out[i].pm].pos
      <3>1. fut.out[i] \in EnvelopeIds /\ fut.out[i].pos = fut.sub
            /\ fut.out[i].pos < checkpoint[fut.out[i].pm].pos
        BY <1>2, <2>0 DEF FutFollows
      <3>2. fut.out[i].pm \in Runner
        BY <3>1 DEF EnvelopeIds, Runner
      <3> QED BY <1>2, <2>0, <3>1, <3>2, ForwardFacts
    <2> QED BY <2>1, <2>2, <2>3 DEF FutFollows
  <1> QED BY <1>1, <1>2

\* One runner more has been looked at.
LEMMA MinStepFollows ==
    ASSUME LiveInv, MinStep
    PROVE  LoopFollows' /\ loop'.min <= loop.min /\ loop'.min \in 0 .. MaxPos
  <1>0. /\ loop.min \in 0 .. MaxPos /\ loop.i \in 1 .. Len(Order) + 1
        /\ \A j \in 1 .. loop.i - 1 : loop.min <= checkpoint[Order[j]].pos
        /\ MaxPos \in Nat
    BY RunnersAssumption, SMTT(30) DEF LiveInv, LiveTypes, StreamFollows, MinStep, MaxPos
  <1>1. /\ loop.i <= Len(Order) /\ checkpoint' = checkpoint
        /\ loop'.i = loop.i + 1
        /\ loop'.min = IF checkpoint[Order[loop.i]].pos < loop.min
                       THEN checkpoint[Order[loop.i]].pos ELSE loop.min
    BY DEF MinStep, Walking, LoopTarget, LiveInv, LiveTypes
  <1>2. loop.i \in 1 .. Len(Order)
    BY <1>0, <1>1, OrderType
  <1>3. \A j \in 1 .. Len(Order) : checkpoint[Order[j]].pos \in Nat
    BY OrderType DEF LiveInv, PassInv, PassTypes, Checkpoints
  <1>4. loop'.min <= loop.min /\ loop'.min \in 0 .. MaxPos /\ loop'.min <= checkpoint[Order[loop.i]].pos
    BY <1>0, <1>1, <1>2, <1>3
  <1>5. ASSUME NEW j \in 1 .. loop'.i - 1
        PROVE  loop'.min <= checkpoint'[Order[j]].pos
    <2>1. j \in 1 .. loop.i - 1 \/ j = loop.i
      BY <1>0, <1>1
    <2>2. j \in 1 .. Len(Order)
      BY <1>2, <2>1
    <2>3. CASE j \in 1 .. loop.i - 1
      BY <1>0, <1>1, <1>3, <1>4, <2>2, <2>3, SMTT(30)
    <2> QED BY <1>1, <1>4, <2>1, <2>3
  <1> QED BY <1>4, <1>5 DEF LoopFollows

\* A subscription opened at the minimum is behind every runner.
LEMMA SubscribeFollows ==
    ASSUME LiveInv, LoopSubscribe
    PROVE  FutFollows' /\ fut'.sub \in Nat /\ fut'.sub <= Len(log)
           /\ (Order # <<>> => fut'.sub = loop.min)
  <1>0. /\ loop.min \in 0 .. MaxPos /\ loop.i \in 1 .. Len(Order) + 1 /\ loop.i > Len(Order)
        /\ \A j \in 1 .. loop.i - 1 : loop.min <= checkpoint[Order[j]].pos
        /\ MaxPos \in Nat /\ MaxPos = LogLimit + 1 /\ LogLimit \in Nat /\ Len(log) <= LogLimit
        /\ log \in Seq(Events)
    BY RunnersAssumption, OrderType, SMTT(30) DEF LiveInv, LiveTypes, StreamFollows, LoopSubscribe, MaxPos, Walking,
       PassInv, PassTypes
  <1>1. /\ checkpoint' = checkpoint /\ fut'.pc = "next" /\ fut'.out = <<>>
        /\ fut'.sub = IF loop.min = MaxPos THEN 0 ELSE loop.min
    BY DEF LoopSubscribe, NoFuture, runnerVars
  <1>2. \A r \in Runner : checkpoint[r].pos \in Nat /\ checkpoint[r].pos <= Len(log)
    BY DEF LiveInv, PassInv, PassTypes, Checkpoints, CheckpointsAreCursors, IsCursor
  <1>3. ASSUME NEW r \in Runner
        PROVE  loop.min <= checkpoint[r].pos
    <2>1. PICK j \in 1 .. Len(Order) : Order[j] = r
      BY RunnersAssumption DEF Range
    <2>2. j \in 1 .. loop.i - 1
      BY <1>0, <2>1, OrderType
    <2> QED BY <1>0, <2>1, <2>2
  <1>4. Len(log) \in Nat
    BY <1>0
  <1>5. fut'.sub \in Nat /\ \A r \in Runner : fut'.sub <= checkpoint'[r].pos
    BY <1>0, <1>1, <1>2, <1>3
  <1>6. CASE Order = <<>>
    <2>1. Len(Order) = 0
      BY <1>6
    <2>2. loop.min = MaxPos
      BY <1>0, <2>1 DEF LiveInv, Phases, LoopSubscribe
    <2> QED BY <1>1, <1>4, <1>5, <1>6, <2>2 DEF FutFollows
  <1>7. CASE Order # <<>>
    <2>1. 1 \in 1 .. Len(Order)
      BY <1>7, RunnersAssumption
    <2>2. Order[1] \in Runner
      BY <2>1, OrderType
    <2>3. loop.min <= Len(log) /\ loop.min # MaxPos
      BY <1>0, <1>2, <1>3, <1>4, <2>2
    <2> QED BY <1>1, <1>5, <2>3 DEF FutFollows
  <1> QED BY <1>6, <1>7

\* The event goes to one runner more: it is past it, and what it produced is of
\* this event.
LEMMA FanFollows ==
    ASSUME LiveInv, PassInv', FutFan
    PROVE  FutFollows' /\ fut'.out \in Seq(EnvelopeIds)
  <1> DEFINE t == FutTarget
             n == fut.sub
             p == Produced(t, n)
  <1>0. /\ LiveTypes /\ StreamFollows /\ PassTypes
    BY DEF LiveInv, PassInv
  <1>1. /\ fut.pc = "event" /\ fut.i <= Len(Order) /\ log' = log
        /\ fut'.pc = "event" /\ fut'.i = fut.i + 1 /\ fut'.sub = fut.sub
        /\ fut'.out = fut.out \o p
    BY <1>0 DEF FutFan, Fanning, LiveTypes
  <1>2. fut.i \in 1 .. Len(Order) /\ n \in Nat /\ n < Len(log) /\ fut.out \in Seq(EnvelopeIds)
    BY <1>0, <1>1, OrderType DEF LiveTypes
  <1>3. t \in Runner /\ t = Order[fut.i]
    BY <1>2, OrderType DEF FutTarget
  <1>4. Forward /\ n < checkpoint'[t].pos
    BY FanInv
  <1>5. p \in Seq(EnvelopeIds) /\ \A i \in 1 .. Len(p) : p[i].pos = n /\ p[i].pm = t
    BY <1>0, <1>2, <1>3, ProducedType DEF PassTypes
  <1> HIDE DEF p, t, n
  <1>6. \A r \in Runner : fut'.sub <= checkpoint'[r].pos
    <2>1. fut.sub \in Int /\ \A r \in Runner : fut.sub <= checkpoint[r].pos
      BY <1>0, <1>1, <1>2 DEF StreamFollows, n
    <2> QED BY <1>1, <1>4, <2>1, ForwardFacts
  <1>7. ASSUME NEW j \in 1 .. fut'.i - 1
        PROVE  fut'.sub < checkpoint'[Order[j]].pos
    <2>1. j \in 1 .. fut.i - 1 \/ j = fut.i
      BY <1>1, <1>2
    <2>2. CASE j = fut.i
      BY <1>1, <1>3, <1>4, <2>2 DEF n
    <2>3. CASE j \in 1 .. fut.i - 1
      <3>1. fut.sub < checkpoint[Order[j]].pos
        BY <1>0, <1>1, <2>3 DEF StreamFollows
      <3>2. j \in 1 .. Len(Order)
        BY <1>2, <2>3, OrderType
      <3>3. Order[j] \in Runner /\ fut.sub \in Int
        BY <1>2, <3>2, OrderType DEF n
      <3> QED BY <1>1, <1>4, <3>1, <3>3, ForwardFacts
    <2> QED BY <2>1, <2>2, <2>3
  <1>8. ASSUME NEW i \in 1 .. Len(fut'.out)
        PROVE  fut'.out[i].pos = fut'.sub /\ fut'.out[i].pos < checkpoint'[fut'.out[i].pm].pos
    <2>1. CASE i \in 1 .. Len(fut.out)
      <3>1. fut'.out[i] = fut.out[i] /\ fut.out[i] \in EnvelopeIds
        BY <1>1, <1>2, <1>5, <2>1
      <3>2. fut.out[i].pos = fut.sub /\ fut.out[i].pos < checkpoint[fut.out[i].pm].pos
        BY <1>0, <2>1 DEF StreamFollows
      <3>3. fut.out[i].pm \in Runner /\ fut.out[i].pos \in Int
        BY <3>1 DEF EnvelopeIds, Runner
      <3> QED BY <1>1, <1>4, <3>1, <3>2, <3>3, ForwardFacts
    <2>2. CASE i \notin 1 .. Len(fut.out)
      <3>1. i - Len(fut.out) \in 1 .. Len(p) /\ fut'.out[i] = p[i - Len(fut.out)]
        BY <1>1, <1>2, <1>5, <2>2, SMTT(30)
      <3>2. fut'.out[i].pos = n /\ fut'.out[i].pm = t
        BY <1>5, <3>1
      <3> QED BY <1>1, <1>4, <3>2 DEF n
    <2> QED BY <2>1, <2>2
  <1>9. fut'.out \in Seq(EnvelopeIds)
    BY <1>1, <1>2, <1>5
  <1> QED BY <1>6, <1>7, <1>8, <1>9 DEF FutFollows

\* One command less is in hand.
LEMMA DispatchFollows ==
    ASSUME LiveInv, FutDispatch
    PROVE  FutFollows' /\ fut'.out \in Seq(EnvelopeIds)
  <1>0. LiveTypes /\ StreamFollows
    BY DEF LiveInv
  <1>1. /\ fut.out # <<>> /\ checkpoint' = checkpoint /\ fut.pc = "event"
        /\ fut'.pc = fut.pc /\ fut'.i = fut.i /\ fut'.sub = fut.sub /\ fut'.out = Tail(fut.out)
    BY <1>0 DEF FutDispatch, LiveTypes
  <1>2. fut.out \in Seq(EnvelopeIds)
    BY <1>0 DEF LiveTypes
  <1>3. /\ Tail(fut.out) \in Seq(EnvelopeIds)
        /\ \A i \in 1 .. Len(Tail(fut.out)) :
               i + 1 \in 1 .. Len(fut.out) /\ Tail(fut.out)[i] = fut.out[i + 1]
    BY <1>1, <1>2
  <1>4. ASSUME NEW i \in 1 .. Len(fut'.out)
        PROVE  fut'.out[i].pos = fut'.sub /\ fut'.out[i].pos < checkpoint'[fut'.out[i].pm].pos
    <2>1. PICK h \in 1 .. Len(fut.out) : fut'.out[i] = fut.out[h]
      BY <1>1, <1>3
    <2> QED BY <1>0, <1>1, <2>1 DEF StreamFollows
  <1>5. /\ \A r \in Runner : fut.sub <= checkpoint[r].pos
        /\ \A j \in 1 .. fut.i - 1 : fut.sub < checkpoint[Order[j]].pos
    BY <1>0, <1>1 DEF StreamFollows
  <1> QED BY <1>1, <1>3, <1>4, <1>5 DEF FutFollows

\* The stream moves to the next event when every runner is past this one.
LEMMA AnnounceFollows ==
    ASSUME LiveInv, FutAnnounce
    PROVE  /\ FutFollows' /\ fut.sub < Len(log) /\ announced' = fut.sub
           /\ \A r \in Runner : fut.sub < checkpoint[r].pos
  <1>0. LiveTypes /\ StreamFollows
    BY DEF LiveInv
  <1>1. /\ fut.pc = "event" /\ fut.i > Len(Order) /\ fut.out = <<>> /\ checkpoint' = checkpoint
        /\ fut'.pc = "next" /\ fut'.sub = fut.sub + 1 /\ fut'.out = <<>> /\ announced' = fut.sub
    BY <1>0, OrderType DEF FutAnnounce, Fanning, LiveTypes, runnerVars
  <1>2. fut.sub \in Nat /\ fut.i \in 1 .. Len(Order) + 1 /\ fut.sub < Len(log)
    BY <1>0, <1>1 DEF LiveTypes
  <1>3. ASSUME NEW r \in Runner
        PROVE  fut.sub < checkpoint[r].pos /\ checkpoint[r].pos \in Nat
    <2>1. PICK j \in 1 .. Len(Order) : Order[j] = r
      BY RunnersAssumption DEF Range
    <2>2. j \in 1 .. fut.i - 1
      BY <1>1, <1>2, <2>1, OrderType
    <2>3. checkpoint[r].pos \in Nat
      BY DEF LiveInv, PassInv, PassTypes, Checkpoints
    <2> QED BY <1>0, <1>1, <2>1, <2>2, <2>3 DEF StreamFollows
  <1>4. \A r \in Runner : fut'.sub <= checkpoint'[r].pos
    BY <1>1, <1>2, <1>3
  <1> QED BY <1>1, <1>2, <1>3, <1>4 DEF FutFollows

-----------------------------------------------------------------------------
(* The invariant of live mode is inductive                                  *)

Loops   == [pc : LoopPcs, then : LoopThens, i : 1 .. Len(Order) + 1, min : 0 .. MaxPos,
            delay : 0 .. MaxDelay]
Futures == [pc : {"none", "next", "event"}, i : 1 .. Len(Order) + 1, sub : Nat, upto : Nat,
            sentinel : BOOLEAN, out : Seq(EnvelopeIds)]
Handles == [shut : BOOLEAN, caught : BOOLEAN, watch : Nat, receivers : BOOLEAN]

IsLoop(l)   == l = [pc |-> l.pc, then |-> l.then, i |-> l.i, min |-> l.min, delay |-> l.delay]
IsFuture(f) == f = [pc |-> f.pc, i |-> f.i, sub |-> f.sub, upto |-> f.upto,
                    sentinel |-> f.sentinel, out |-> f.out]
IsHandle(h) == h = [shut |-> h.shut, caught |-> h.caught, watch |-> h.watch,
                    receivers |-> h.receivers]

\* A record is of its type when its fields are.
LEMMA LoopRecord ==
    ASSUME NEW l
    PROVE  l \in Loops <=>
               /\ IsLoop(l) /\ l.pc \in LoopPcs /\ l.then \in LoopThens
               /\ l.i \in 1 .. Len(Order) + 1 /\ l.min \in 0 .. MaxPos /\ l.delay \in 0 .. MaxDelay
  BY DEF Loops, IsLoop

\* The same for the stream.
LEMMA FutureRecord ==
    ASSUME NEW f
    PROVE  f \in Futures <=>
               /\ IsFuture(f) /\ f.pc \in {"none", "next", "event"} /\ f.i \in 1 .. Len(Order) + 1
               /\ f.sub \in Nat /\ f.upto \in Nat /\ f.sentinel \in BOOLEAN
               /\ f.out \in Seq(EnvelopeIds)
  BY DEF Futures, IsFuture

\* And for the handle.
LEMMA HandleRecord ==
    ASSUME NEW h
    PROVE  h \in Handles <=>
               /\ IsHandle(h) /\ h.shut \in BOOLEAN /\ h.caught \in BOOLEAN /\ h.watch \in Nat
               /\ h.receivers \in BOOLEAN
  BY DEF Handles, IsHandle

\* The values at the start.
LEMMA NewRecords == NoLoop \in Loops /\ NoFuture \in Futures /\ NewHandle \in Handles
  <1>1. Len(Order) \in Nat /\ MaxPos \in Nat /\ MaxDelay \in Nat
    BY OrderType, RunnersAssumption, LiveAssumption DEF MaxPos
  <1>2. NoLoop \in Loops
    BY <1>1 DEF NoLoop, Loops, LoopPcs, LoopThens
  <1>3. NoFuture \in Futures
    BY <1>1 DEF NoFuture, Futures
  <1>4. NewHandle \in Handles
    BY DEF NewHandle, Handles
  <1> QED BY <1>2, <1>3, <1>4

\* What the invariant says of the records, and the bounds.
LEMMA LiveFacts ==
    ASSUME LiveInv
    PROVE  /\ PassInv /\ PassTypes /\ LiveTypes /\ Phases /\ StreamFollows
           /\ Len(log) \in Nat /\ Len(Order) \in Nat /\ MaxPos \in Nat /\ MaxDelay \in Nat
           /\ loop \in Loops /\ fut \in Futures /\ handle \in Handles
           /\ fut.sub \in Nat /\ fut.upto \in Nat
  <1>1. /\ PassInv /\ PassTypes /\ LiveTypes /\ Phases /\ StreamFollows
    BY DEF LiveInv, PassInv
  <1>2. log \in Seq(Events)
    BY <1>1 DEF PassTypes
  <1> QED BY <1>1, <1>2, OrderType, RunnersAssumption, LiveAssumption DEF LiveTypes, MaxPos, Loops,
     Futures, Handles

\* Steps that move the loop alone.
LEMMA LoopOnlyInv ==
    ASSUME LiveInv,
           \/ LoopCheck \/ SubscribeFails \/ BackoffEnds \/ BackoffShutdown \/ Tick \/ ShutdownSeen
    PROVE  /\ LiveTypes' /\ Phases' /\ LoopFollows' /\ FutFollows'
           /\ UNCHANGED <<fut, handle, begun, announced, log, checkpoint>>
  <1>0. UNCHANGED <<fut, handle, begun, announced, log, checkpoint>>
    BY DEF LoopCheck, SubscribeFails, BackoffEnds, BackoffShutdown, Tick, ShutdownSeen, runnerVars
  <1>1. LiveTypes'
    <2>0. /\ loop \in Loops /\ loop.delay \in 0 .. MaxDelay /\ loop.i \in 1 .. Len(Order) + 1
          /\ loop.min \in 0 .. MaxPos /\ loop.then \in LoopThens
      BY LiveFacts, LoopRecord
    <2>1. /\ IsLoop(loop') /\ (loop'.min = loop.min \/ loop'.min = MaxPos)
          /\ loop'.i = loop.i \/ loop'.i = 1
          /\ loop'.then = loop.then \/ loop'.then = "stream" \/ loop'.then = "stopped"
          /\ loop'.pc \in {"save", "min", "retry", "check", "stopped"}
          /\ BackoffEnds \/ loop'.delay = loop.delay
      <3>1. CASE LoopCheck
        BY <2>0, <3>1 DEF LoopCheck, Saving, Loops, IsLoop
      <3>2. CASE SubscribeFails
        BY <2>0, <3>2 DEF SubscribeFails, Loops, IsLoop
      <3>3. CASE BackoffEnds
        BY <2>0, <3>3 DEF BackoffEnds, Loops, IsLoop
      <3>4. CASE BackoffShutdown
        BY <2>0, <3>4 DEF BackoffShutdown, Saving, Loops, IsLoop
      <3>5. CASE Tick \/ ShutdownSeen
        BY <2>0, <3>5 DEF Tick, ShutdownSeen, Saving, Loops, IsLoop
      <3> QED BY <3>1, <3>2, <3>3, <3>4, <3>5
    <2>2. /\ loop'.pc \in LoopPcs /\ loop'.then \in LoopThens
      BY <2>0, <2>1 DEF LoopPcs, LoopThens
    <2>3. /\ loop'.i \in 1 .. Len(Order) + 1 /\ loop'.min \in 0 .. MaxPos
      BY <2>0, <2>1, LiveFacts
    <2>4. loop'.delay \in 0 .. MaxDelay
      <3>1. BackoffEnds => loop'.delay = IF loop.delay < MaxDelay THEN loop.delay + 1 ELSE loop.delay
        BY <2>0 DEF BackoffEnds, Loops
      <3> QED BY <2>0, <2>1, <3>1, LiveAssumption
    <2>5. loop' \in Loops
      BY <2>1, <2>2, <2>3, <2>4, LoopRecord
    <2> QED BY <1>0, <2>5, LiveFacts DEF LiveTypes, Loops
  <1>2. Phases'
    BY <1>0, LiveFacts DEF LiveTypes, Phases, LoopCheck, SubscribeFails, BackoffEnds,
       BackoffShutdown, Tick, ShutdownSeen, Saving, Polled, LoopPcs, LoopThens
  <1>3. loop'.pc = "min" => loop'.i = 1
    BY LiveFacts DEF LiveTypes, LoopCheck, SubscribeFails, BackoffEnds,
       BackoffShutdown, Tick, ShutdownSeen, Saving, Polled, LoopPcs, LoopThens
  <1>4. LoopFollows'
    BY <1>3 DEF LoopFollows
  <1>5. FutFollows'
    BY <1>0, LiveFacts DEF FutFollows, StreamFollows
  <1> QED BY <1>0, <1>1, <1>2, <1>4, <1>5

\* The handle.
LEMMA HandleInv ==
    ASSUME LiveInv, StartLive \/ Shutdown \/ Watch
    PROVE  /\ LiveTypes' /\ Phases' /\ LoopFollows' /\ FutFollows'
           /\ UNCHANGED <<fut, announced, log, checkpoint>>
           /\ loop'.pc # "min" \/ loop' = loop
  <1>0. UNCHANGED <<fut, announced, log, checkpoint>>
    BY DEF StartLive, Shutdown, Watch, runnerVars
  <1>1. CASE StartLive
    <2>1. LiveTypes'
      <3>1. loop' \in Loops /\ handle' \in Handles
        <4>1. /\ IsLoop(loop') /\ loop'.pc = "check" /\ loop'.then = NoLoop.then
              /\ loop'.i = NoLoop.i /\ loop'.min = NoLoop.min /\ loop'.delay = NoLoop.delay
          BY <1>1 DEF StartLive, NoLoop, IsLoop
        <4>2. "check" \in LoopPcs
          BY DEF LoopPcs
        <4>3. loop' \in Loops
          BY <4>1, <4>2, NewRecords, LoopRecord
        <4> QED BY <1>1, <4>3, NewRecords DEF StartLive
      <3>2. begun' \in Nat /\ begun' <= Len(log)
        BY <1>1, LiveFacts DEF StartLive
      <3> QED BY <1>0, <3>1, <3>2, LiveFacts DEF LiveTypes, Loops, Handles
    <2>2. Phases' /\ loop'.pc = "check"
      BY <1>0, <1>1, LiveFacts DEF LiveTypes, Phases, StartLive, NoLoop
    <2>3. LoopFollows' /\ FutFollows'
      BY <1>0, <2>2, LiveFacts DEF LoopFollows, FutFollows, StreamFollows
    <2> QED BY <1>0, <2>1, <2>2, <2>3
  <1>2. CASE Shutdown \/ Watch
    <2>1. UNCHANGED <<loop, begun>>
      BY <1>2 DEF Shutdown, Watch
    <2>2. handle' \in Handles
      <3>1. /\ IsHandle(handle') /\ handle'.shut \in BOOLEAN /\ handle'.receivers \in BOOLEAN
            /\ handle'.caught = handle.caught /\ handle'.watch = handle.watch
        BY <1>2, LiveFacts DEF Shutdown, Watch, Handles, IsHandle
      <3> QED BY <3>1, LiveFacts, HandleRecord
    <2>3. LiveTypes' /\ Phases'
      BY <1>0, <2>1, <2>2, LiveFacts DEF LiveTypes, Phases, Handles
    <2>4. LoopFollows' /\ FutFollows'
      BY <1>0, <2>1, LiveFacts DEF LoopFollows, FutFollows, StreamFollows
    <2> QED BY <1>0, <2>1, <2>3, <2>4
  <1> QED BY <1>1, <1>2

\* Steps of the calls and of writers, and waiting for a mutex.
LEMMA OthersInv ==
    ASSUME LiveInv, PassInv', Forward, UNCHANGED liveVars
    PROVE  LiveTypes' /\ Phases' /\ LoopFollows' /\ FutFollows'
  <1>1. UNCHANGED <<loop, fut, handle, begun, announced>>
    BY DEF liveVars
  <1>2. Len(log) <= Len(log') /\ Len(log') <= LogLimit /\ Len(log') \in Nat
    BY ForwardFacts
  <1>3. LiveTypes'
    BY <1>1, <1>2, LiveFacts, SMTT(30) DEF LiveTypes
  <1>4. Phases'
    BY <1>1, LiveFacts DEF Phases
  <1>5. LoopFollows' /\ FutFollows'
    BY <1>1, LoopStays, FutStays
  <1> QED BY <1>3, <1>4, <1>5

\* min_global_position, and the subscription at the minimum.
LEMMA MinInv ==
    ASSUME LiveInv, PassInv', MinStep \/ LoopSubscribe
    PROVE  LiveTypes' /\ Phases' /\ LoopFollows' /\ FutFollows'
  <1>1. UNCHANGED <<handle, begun, announced, log, checkpoint>>
    BY DEF MinStep, LoopSubscribe, runnerVars
  <1>2. Forward
    BY <1>1, LiveFacts, SameIsForward
  <1>3. CASE MinStep
    <2>1. /\ loop.pc = "min" /\ loop.i <= Len(Order) /\ fut' = fut
          /\ loop'.pc = "min" /\ loop'.i = loop.i + 1 /\ loop'.then = loop.then
          /\ loop'.delay = loop.delay
      BY <1>3, LiveFacts DEF MinStep, Walking, LiveTypes
    <2>3. loop'.min \in 0 .. MaxPos /\ LoopFollows'
      BY <1>3, MinStepFollows
    <2>4. LiveTypes'
      <3>1. IsLoop(loop') /\ loop'.i \in 1 .. Len(Order) + 1
        <4>1. loop \in Loops /\ loop.i \in 1 .. Len(Order) + 1
          BY LiveFacts, LoopRecord
        <4>2. IsLoop(loop')
          BY <1>3, <4>1 DEF MinStep, Loops, IsLoop
        <4> QED BY <2>1, <4>1, <4>2, OrderType
      <3>2. loop' \in Loops
        BY <2>1, <2>3, <3>1, LiveFacts, LoopRecord
      <3> QED BY <1>1, <2>1, <3>2, LiveFacts DEF LiveTypes, Loops
    <2>5. Phases'
      BY <1>1, <2>1, LiveFacts, SMTT(30) DEF Phases, LiveTypes
    <2>6. FutFollows'
      BY <1>2, <2>1, FutStays
    <2> QED BY <2>3, <2>4, <2>5, <2>6
  <1>4. CASE LoopSubscribe
    <2>1. /\ loop' = [loop EXCEPT !.pc = "stream"] /\ loop'.pc = "stream"
          /\ fut'.pc = "next" /\ fut'.upto = Len(log) /\ fut'.out = <<>>
          /\ fut'.i = NoFuture.i /\ fut'.sentinel = NoFuture.sentinel /\ IsFuture(fut')
          /\ loop'.then = loop.then /\ loop'.i = loop.i /\ loop'.min = loop.min
          /\ loop'.delay = loop.delay /\ IsLoop(loop')
      BY <1>4, LiveFacts DEF LoopSubscribe, Loops, NoFuture, IsLoop, IsFuture
    <2>3. FutFollows' /\ fut'.sub \in Nat /\ fut'.sub <= Len(log)
      BY <1>4, SubscribeFollows
    <2>4. LiveTypes'
      <3>1. fut' \in Futures
        <4>1. NoFuture.i \in 1 .. Len(Order) + 1 /\ NoFuture.sentinel \in BOOLEAN
          BY NewRecords, FutureRecord
        <4>2. fut'.upto \in Nat /\ fut'.out \in Seq(EnvelopeIds) /\ fut'.pc \in {"none", "next", "event"}
          BY <2>1, LiveFacts
        <4> QED BY <2>1, <2>3, <4>1, <4>2, FutureRecord
      <3>2. loop' \in Loops
        BY <2>1, LiveFacts, LoopRecord DEF LoopPcs
      <3> QED BY <1>1, <2>1, <2>3, <3>1, <3>2, LiveFacts DEF LiveTypes, Loops, Futures
    <2>5. Phases'
      BY <1>1, <2>1, LiveFacts DEF Phases, LiveTypes
    <2>6. LoopFollows'
      BY <2>1 DEF LoopFollows
    <2> QED BY <2>3, <2>4, <2>5, <2>6
  <1> QED BY <1>3, <1>4

\* save_all_checkpoints, and what follows it.
LEMMA SavingInv ==
    ASSUME LiveInv, PassInv', SaveStep \/ SaveDone
    PROVE  LiveTypes' /\ Phases' /\ LoopFollows' /\ FutFollows'
  <1>1. UNCHANGED <<handle, begun, announced, log, checkpoint>>
    BY DEF SaveStep, SaveDone
  <1>2. Forward
    BY <1>1, LiveFacts, SameIsForward
  <1>3. fut' = fut \/ fut' = NoFuture
    BY DEF SaveStep, SaveDone
  <1>4. LiveTypes'
    <2>0. /\ loop \in Loops /\ loop.delay \in 0 .. MaxDelay /\ 0 \in 0 .. MaxDelay
          /\ loop.i \in 1 .. Len(Order) + 1 /\ Len(Order) \in Nat /\ loop.then \in LoopThens
      BY LiveFacts DEF Loops
    <2>1. ASSUME SaveStep
          PROVE  loop' \in Loops
      <3>1. /\ IsLoop(loop') /\ loop'.i \in 1 .. Len(Order) + 1 /\ loop'.pc = loop.pc
            /\ loop'.then = loop.then /\ loop'.min = loop.min /\ loop'.delay = loop.delay
        BY <2>0, <2>1 DEF SaveStep, Walking, Loops, IsLoop
      <3> QED BY <2>0, <3>1, LoopRecord
    <2>2. ASSUME SaveDone
          PROVE  loop' \in Loops
      <3>1. /\ IsLoop(loop') /\ loop'.i = loop.i
            /\ loop'.pc = (IF loop.then = "ended" THEN "check" ELSE loop.then)
            /\ loop'.then = loop.then /\ loop'.min = loop.min /\ loop'.delay \in {0, loop.delay}
        BY <2>0, <2>2 DEF SaveDone, Loops, IsLoop
      <3>2. loop'.pc \in LoopPcs
        BY <2>0, <3>1 DEF LoopPcs, LoopThens
      <3>3. loop'.delay \in 0 .. MaxDelay
        BY <2>0, <3>1
      <3> QED BY <2>0, <3>1, <3>2, <3>3, LoopRecord
    <2>3. fut' \in Futures
      BY <1>3, LiveFacts, NewRecords
    <2>4. /\ fut'.sub <= Len(log) /\ fut'.upto <= Len(log)
          /\ fut'.pc = "event" => fut'.sub < Len(log)
      BY <1>3, LiveFacts, SMTT(30) DEF LiveTypes, NoFuture
    <2>5. loop' \in Loops
      BY <2>1, <2>2
    <2> QED BY <1>1, <2>3, <2>4, <2>5, LiveFacts DEF LiveTypes, Loops, Futures
  <1>5. Phases' /\ loop'.pc # "min"
    <2>1. CASE SaveStep
      <3>1. fut' = fut /\ loop.pc = "save" /\ loop'.pc = "save" /\ loop'.then = loop.then
        BY <2>1, LiveFacts DEF SaveStep, LiveTypes
      <3> QED BY <1>1, <3>1, LiveFacts DEF Phases
    <2>2. CASE SaveDone
      <3>1. /\ loop.pc = "save" /\ loop.then # "off" /\ loop.then \in LoopThens
            /\ loop'.pc = IF loop.then = "ended" THEN "check" ELSE loop.then
            /\ IF loop.then = "stopped" THEN fut' = NoFuture ELSE fut' = fut
        BY <2>2, LiveFacts DEF SaveDone, LiveTypes, Phases
      <3> QED BY <1>1, <3>1, LiveFacts DEF Phases, LoopThens, NoFuture
    <2> QED BY <2>1, <2>2
  <1>6. LoopFollows' /\ FutFollows'
    BY <1>2, <1>3, <1>5, LoopStays, FutStays
  <1> QED BY <1>4, <1>5, <1>6

\* The steps of process_stream_with_dispatch that take no event from the stream
\* and give none to a runner.
LEMMA FutQuietInv ==
    ASSUME LiveInv, PassInv', FutRecv \/ FutCaughtUp \/ FutEnds
    PROVE  LiveTypes' /\ Phases' /\ LoopFollows' /\ FutFollows'
  <1>1. UNCHANGED <<begun, announced, log, checkpoint>> /\ loop.pc = "stream"
    BY DEF FutRecv, FutCaughtUp, FutEnds, Polled, runnerVars
  <1>2. Forward
    BY <1>1, LiveFacts, SameIsForward
  <1>3. fut \in Futures /\ loop \in Loops /\ handle \in Handles /\ 1 \in 1 .. Len(Order) + 1
    BY LiveFacts
  <1>4. CASE FutRecv
    <2>1. /\ loop' = loop /\ handle' = handle /\ IsFuture(fut') /\ fut.pc = "next"
          /\ fut'.pc = "event" /\ fut'.i = 1 /\ fut'.sub = fut.sub /\ fut'.upto = fut.upto
          /\ fut'.sentinel = fut.sentinel /\ fut'.out = fut.out /\ fut.sub < Len(log)
      BY <1>3, <1>4 DEF FutRecv, Futures, IsFuture
    <2>2. fut' \in Futures
      BY <1>3, <2>1, FutureRecord
    <2>3. LiveTypes'
      BY <1>1, <2>1, <2>2, LiveFacts DEF LiveTypes, Futures
    <2>4. Phases'
      BY <1>1, <2>1, LiveFacts DEF Phases
    <2>5. FutFollows'
      <3>1. \A r \in Runner : fut'.sub <= checkpoint'[r].pos
        BY <1>1, <2>1, LiveFacts DEF StreamFollows
      <3>2. fut'.out = <<>>
        BY <2>1, LiveFacts DEF Phases
      <3> QED BY <2>1, <3>1, <3>2 DEF FutFollows
    <2> QED BY <1>2, <2>1, <2>3, <2>4, <2>5, LoopStays
  <1>5. CASE FutCaughtUp
    <2>1. /\ loop' = loop /\ IsFuture(fut') /\ fut.pc = "next" /\ fut'.pc = "next"
          /\ fut'.i = fut.i /\ fut'.sub = fut.sub /\ fut'.upto = fut.upto
          /\ fut'.sentinel = TRUE /\ fut'.out = fut.out
      BY <1>3, <1>5 DEF FutCaughtUp, Futures, IsFuture
    <2>2. fut' \in Futures
      BY <1>3, <2>1, FutureRecord
    <2>3. handle' \in Handles
      <3>1. /\ IsHandle(handle') /\ handle'.shut = handle.shut /\ handle'.caught = TRUE
            /\ handle'.watch = handle.watch /\ handle'.receivers = handle.receivers
        BY <1>3, <1>5 DEF FutCaughtUp, Handles, IsHandle
      <3> QED BY <1>3, <3>1, HandleRecord
    <2>4. LiveTypes'
      BY <1>1, <2>1, <2>2, <2>3, LiveFacts DEF LiveTypes, Futures, Handles
    <2>5. Phases'
      BY <1>1, <2>1, LiveFacts DEF Phases
    <2> QED BY <1>2, <2>1, <2>4, <2>5, LoopStays, FutStays
  <1>6. CASE FutEnds
    <2>1. /\ handle' = handle /\ fut' = NoFuture /\ IsLoop(loop') /\ loop'.pc = "save"
          /\ loop'.then = "ended" \/ loop'.then = "reconnect"
          /\ loop'.i = 1 /\ loop'.min = loop.min /\ loop'.delay = loop.delay
      BY <1>3, <1>6 DEF FutEnds, Saving, Loops, IsLoop
    <2>2. loop'.pc \in LoopPcs /\ loop'.then \in LoopThens
      BY <2>1 DEF LoopPcs, LoopThens
    <2>3. loop' \in Loops
      BY <1>3, <2>1, <2>2, LoopRecord
    <2>4. fut'.sub = 0 /\ fut'.upto = 0 /\ fut'.pc = "none" /\ fut'.out = <<>>
      BY <2>1 DEF NoFuture
    <2>5. LiveTypes'
      BY <1>1, <2>1, <2>3, <2>4, NewRecords, LiveFacts DEF LiveTypes, Loops, Futures
    <2>6. Phases'
      BY <1>1, <2>1, <2>4, LiveFacts DEF Phases
    <2> QED BY <1>2, <2>1, <2>5, <2>6, LoopStays, FutStays
  <1> QED BY <1>4, <1>5, <1>6

\* The steps that process an event.
LEMMA FutEventInv ==
    ASSUME LiveInv, PassInv', FutFan \/ FutDispatch \/ FutAnnounce
    PROVE  LiveTypes' /\ Phases' /\ LoopFollows' /\ FutFollows'
  <1>1. UNCHANGED <<loop, begun, log>> /\ loop.pc = "stream" /\ fut.pc = "event"
    BY DEF FutFan, FutDispatch, FutAnnounce, Polled, runnerVars
  <1>2. fut \in Futures /\ handle \in Handles /\ fut.i \in 1 .. Len(Order) + 1
    BY LiveFacts, FutureRecord
  <1>3. FutFollows' /\ LoopFollows'
    <2>1. Forward
      <3>1. CASE FutFan
        BY <3>1, FanInv
      <3>2. CASE FutDispatch \/ FutAnnounce
        <4>1. UNCHANGED <<log, checkpoint>>
          BY <3>2 DEF FutDispatch, FutAnnounce, runnerVars
        <4> QED BY <4>1, LiveFacts, SameIsForward
      <3> QED BY <3>1, <3>2
    <2> QED BY <1>1, <2>1, FanFollows, DispatchFollows, AnnounceFollows, LoopStays
  <1>4. CASE FutFan \/ FutDispatch
    <2>1. UNCHANGED <<handle, announced>>
      BY <1>4 DEF FutFan, FutDispatch
    <2>2. /\ IsFuture(fut') /\ fut'.pc = fut.pc /\ fut'.sub = fut.sub /\ fut'.upto = fut.upto
          /\ fut'.sentinel = fut.sentinel
      BY <1>2, <1>4 DEF FutFan, FutDispatch, Futures, IsFuture
    <2>3. fut'.i \in 1 .. Len(Order) + 1
      <3>1. CASE FutFan
        <4>1. fut'.i = fut.i + 1 /\ fut.i <= Len(Order)
          BY <1>2, <3>1 DEF FutFan, Futures, Fanning
        <4> QED BY <1>2, <4>1, OrderType
      <3>2. CASE FutDispatch
        <4>1. fut'.i = fut.i
          BY <1>2, <3>2 DEF FutDispatch, Futures
        <4> QED BY <1>2, <4>1
      <3> QED BY <1>4, <3>1, <3>2
    <2>4. fut'.out \in Seq(EnvelopeIds)
      BY <1>4, FanFollows, DispatchFollows
    <2>5. fut' \in Futures
      BY <1>2, <2>2, <2>3, <2>4, FutureRecord
    <2>6. LiveTypes'
      BY <1>1, <2>1, <2>2, <2>5, LiveFacts DEF LiveTypes, Futures
    <2>7. Phases'
      BY <1>1, <2>1, <2>2, LiveFacts DEF Phases
    <2> QED BY <1>3, <2>6, <2>7
  <1>5. CASE FutAnnounce
    <2>1. /\ IsFuture(fut') /\ fut'.pc = "next" /\ fut'.sub = fut.sub + 1 /\ fut'.upto = fut.upto
          /\ fut'.sentinel = fut.sentinel /\ fut'.i = 1 /\ fut'.out = fut.out /\ fut.out = <<>>
          /\ announced' = fut.sub
      BY <1>2, <1>5 DEF FutAnnounce, Futures, IsFuture
    <2>2. fut.sub \in Nat /\ fut.sub < Len(log) /\ 1 \in 1 .. Len(Order) + 1
      BY <1>5, AnnounceFollows, LiveFacts
    <2>3. fut' \in Futures
      BY <1>2, <2>1, <2>2, FutureRecord
    <2>4. handle' \in Handles
      <3>1. /\ IsHandle(handle') /\ handle'.shut = handle.shut /\ handle'.caught = handle.caught
            /\ handle'.watch = handle.watch \/ handle'.watch = fut.sub
            /\ handle'.receivers = handle.receivers
        BY <1>2, <1>5 DEF FutAnnounce, Handles, IsHandle
      <3> QED BY <1>2, <2>2, <3>1, HandleRecord
    <2>5. LiveTypes'
      <3>1. /\ announced' \in Int /\ announced' >= -1 /\ fut'.sub <= Len(log)
            /\ fut'.pc # "event"
        BY <2>1, <2>2, LiveFacts
      <3> QED BY <1>1, <2>1, <2>3, <2>4, <3>1, LiveFacts DEF LiveTypes, Futures, Handles
    <2>6. Phases'
      BY <1>1, <2>1, LiveFacts DEF Phases
    <2> QED BY <1>3, <2>5, <2>6
  <1> QED BY <1>4, <1>5

\* A new process starts with live mode off.
LEMMA CrashLiveInv ==
    ASSUME LiveInv, CrashLive
    PROVE  LiveTypes' /\ Phases' /\ LoopFollows' /\ FutFollows'
  <1>1. /\ log' = log /\ loop' = NoLoop /\ fut' = NoFuture /\ handle' = NewHandle /\ begun' = 0
        /\ announced' = -1
    BY DEF CrashLive, Crash
  <1>2. LiveTypes'
    BY <1>1, NewRecords, LiveFacts DEF LiveTypes, Loops, Futures, Handles, NoFuture
  <1> QED BY <1>1, <1>2 DEF Phases, LoopFollows, FutFollows, NoLoop, NoFuture

\* Initially live mode is off and the log is empty.
LEMMA LiveInitInv == LiveInit => LiveInv
  <1> SUFFICES ASSUME LiveInit PROVE LiveInv
    OBVIOUS
  <1>1. PassInv
    BY InitInv DEF LiveInit
  <1>2. /\ log = <<>> /\ loop = NoLoop /\ fut = NoFuture /\ handle = NewHandle /\ begun = 0
        /\ announced = -1
    BY DEF LiveInit, RunnersInit
  <1>3. Len(log) = 0 /\ LogLimit \in Nat
    BY <1>2, RunnersAssumption
  <1>4. LiveTypes
    BY <1>2, <1>3, NewRecords DEF LiveTypes, Loops, Futures, Handles, NoFuture
  <1>5. Phases /\ StreamFollows
    BY <1>2 DEF Phases, StreamFollows, NoLoop, NoFuture
  <1> QED BY <1>1, <1>4, <1>5 DEF LiveInv

\* Every step of live mode keeps the invariant.
LEMMA LiveNextInv ==
    ASSUME LiveInv, [LiveNext]_vars
    PROVE  LiveInv'
  <1>0. PassInv' /\ (Forward \/ CrashLive)
    BY RunnersStep
  <1> SUFFICES LiveTypes' /\ Phases' /\ LoopFollows' /\ FutFollows'
    BY <1>0 DEF LiveInv, StreamFollows, LoopFollows, FutFollows
  <1>1. CASE CrashLive
    BY <1>1, CrashLiveInv
  <1>2. CASE Forward /\ UNCHANGED liveVars
    BY <1>0, <1>2, OthersInv
  <1>3. CASE LoopWait \/ FutWait
    <2>1. UNCHANGED liveVars /\ UNCHANGED <<log, checkpoint>>
      BY <1>3 DEF LoopWait, FutWait
    <2> QED BY <1>0, <2>1, LiveFacts, SameIsForward, OthersInv
  <1>4. ASSUME NEW c \in Callers, CallLiveProjection(c) \/ LockForPeek(c) \/ Peek(c)
        PROVE  LiveTypes' /\ Phases' /\ LoopFollows' /\ FutFollows'
    <2>1. UNCHANGED liveVars /\ UNCHANGED <<log, checkpoint>>
      BY <1>4, LiveFacts, LookInv
    <2> QED BY <1>0, <2>1, LiveFacts, SameIsForward, OthersInv
  <1>5. CASE PullNext /\ UNCHANGED liveVars
    BY <1>0, <1>5, LiveFacts, PullForward, OthersInv
  <1>6. CASE UNCHANGED vars
    <2>1. UNCHANGED liveVars /\ UNCHANGED <<log, checkpoint>>
      BY <1>6 DEF vars, runnerVars
    <2> QED BY <1>0, <2>1, LiveFacts, SameIsForward, OthersInv
  <1>7. CASE \/ StartLive \/ Shutdown \/ Watch \/ LoopCheck \/ SubscribeFails \/ BackoffEnds
             \/ BackoffShutdown \/ Tick \/ ShutdownSeen
    BY <1>7, HandleInv, LoopOnlyInv
  <1>8. CASE MinStep \/ LoopSubscribe \/ SaveStep \/ SaveDone
    BY <1>0, <1>8, MinInv, SavingInv
  <1>9. CASE FutRecv \/ FutCaughtUp \/ FutEnds \/ FutFan \/ FutDispatch \/ FutAnnounce
    BY <1>0, <1>9, FutQuietInv, FutEventInv
  <1> QED
    BY <1>1, <1>3, <1>4, <1>5, <1>6, <1>7, <1>8, <1>9 DEF LiveNext, LoopStep, FutureStep

-----------------------------------------------------------------------------
(* The theorems                                                             *)

\* In live mode too, with the loop, projection() and run_process_managers() feeding
\* the runners at once, no event is applied twice or skipped, in memory or in a
\* file (live.rs:387-468, projection.rs:260-284, process_manager.rs:318-347).
THEOREM LiveRunnersAreExact == LiveSpec => []CheckpointsAreCursors
  <1>1. LiveInit => LiveInv
    BY LiveInitInv
  <1>2. LiveInv /\ [LiveNext]_vars => LiveInv'
    BY LiveNextInv
  <1>3. LiveInv => CheckpointsAreCursors
    BY DEF LiveInv, PassInv
  <1> QED BY <1>1, <1>2, <1>3, PTL DEF LiveSpec

\* The loop's subscription is never ahead of a runner (live.rs:223-242, 387-468).
THEOREM SubscriptionFollows == LiveSpec => []StreamFollows
  <1>1. LiveInit => LiveInv
    BY LiveInitInv
  <1>2. LiveInv /\ [LiveNext]_vars => LiveInv'
    BY LiveNextInv
  <1>3. LiveInv => StreamFollows
    BY DEF LiveInv
  <1> QED BY <1>1, <1>2, <1>3, PTL DEF LiveSpec

\* Live mode moves the runners' positions as Cursors lets them.
THEOREM LiveModeImplementsCursors == LiveSpec => ImplementsCursors
  <1>1. LiveInit => LiveInv
    BY LiveInitInv
  <1>2. LiveInv /\ [LiveNext]_vars => LiveInv'
    BY LiveNextInv
  <1>3. LiveInit => Positions!Init
    BY DEF LiveInit, RunnersInit, Positions!Init, Fresh
  <1>4. LiveInv /\ [LiveNext]_vars =>
            [Positions!Next]_<<log, [r \in Runner |-> checkpoint[r].pos],
                               [r \in Runner |-> file[r].pos], handled>>
    BY RunnersStep DEF barVars, posBar, savedBar
  <1> QED
    BY <1>1, <1>2, <1>3, <1>4, PTL DEF LiveSpec, ImplementsCursors, Positions!Spec

\* The steps that do not touch what the handle announces.
LEMMA QuietForHandle ==
    ASSUME LiveInv, [LiveNext]_vars, ~CrashLive, ~StartLive, ~FutCaughtUp, ~FutAnnounce
    PROVE  /\ UNCHANGED <<begun, announced>>
           /\ handle'.caught = handle.caught /\ handle'.watch = handle.watch
  <1>1. handle \in Handles
    BY LiveFacts
  <1>2. CASE Shutdown \/ Watch
    BY <1>1, <1>2 DEF Shutdown, Watch, Handles
  <1>3. ASSUME NEW c \in Callers, CallLiveProjection(c) \/ LockForPeek(c) \/ Peek(c)
        PROVE  UNCHANGED liveVars
    BY <1>3, LiveFacts, LookInv
  <1>4. CASE UNCHANGED liveVars
    BY <1>4 DEF liveVars
  <1>5. CASE \/ LoopCheck \/ MinStep \/ LoopWait \/ BackoffEnds \/ BackoffShutdown \/ SaveStep
             \/ SaveDone \/ LoopSubscribe \/ SubscribeFails \/ Tick \/ ShutdownSeen
    BY <1>5 DEF LoopCheck, MinStep, LoopWait, BackoffEnds, BackoffShutdown, SaveStep, SaveDone,
       LoopSubscribe, SubscribeFails, Tick, ShutdownSeen, liveVars
  <1>6. CASE FutRecv \/ FutFan \/ FutWait \/ FutDispatch \/ FutEnds
    BY <1>6 DEF FutRecv, FutFan, FutWait, FutDispatch, FutEnds, liveVars
  <1> QED
    BY <1>2, <1>3, <1>4, <1>5, <1>6 DEF LiveNext, LoopStep, FutureStep, vars

\* Every step keeps what is_caught_up() says: the stream delivers CaughtUp after
\* what was in the log when it was opened, and it was opened after the start.
LEMMA CaughtUpStep ==
    ASSUME LiveInv, CaughtUpMeansReplayed, [LiveNext]_vars
    PROVE  CaughtUpMeansReplayed'
  <1>0. PassInv' /\ (Forward \/ CrashLive)
    BY RunnersStep
  <1>1. CASE CrashLive \/ StartLive
    BY <1>1 DEF CrashLive, StartLive, NewHandle, CaughtUpMeansReplayed
  <1>2. CASE FutCaughtUp
    <2>1. /\ fut.pc = "next" /\ fut.sub >= fut.upto /\ begun' = begun /\ checkpoint' = checkpoint
      BY <1>2 DEF FutCaughtUp, runnerVars
    <2>2. begun \in Nat /\ begun <= fut.upto /\ fut.upto \in Nat /\ fut.sub \in Nat
      BY <2>1, LiveFacts DEF LiveTypes, Phases
    <2>3. \A r \in Runner : fut.sub <= checkpoint[r].pos /\ checkpoint[r].pos \in Nat
      BY <2>1, LiveFacts DEF StreamFollows, PassTypes, Checkpoints
    <2>4. \A r \in Runner : checkpoint[r].pos >= begun
      BY <2>1, <2>2, <2>3
    <2> QED BY <2>1, <2>4 DEF CaughtUpMeansReplayed
  <1>3. CASE FutAnnounce
    <2>1. handle'.caught = handle.caught /\ begun' = begun /\ checkpoint' = checkpoint
      BY <1>3, LiveFacts DEF FutAnnounce, Handles, runnerVars
    <2> QED BY <2>1 DEF CaughtUpMeansReplayed
  <1>4. CASE ~CrashLive /\ ~StartLive /\ ~FutCaughtUp /\ ~FutAnnounce
    <2>1. begun' = begun /\ handle'.caught = handle.caught /\ begun \in Int
      BY <1>4, QuietForHandle, LiveFacts DEF LiveTypes
    <2>2. Forward
      BY <1>0, <1>4
    <2>3. \A r \in Runner : begun <= checkpoint[r].pos => begun <= checkpoint'[r].pos
      BY <1>0, <2>1, <2>2, ForwardFacts
    <2>4. \A r \in Runner : checkpoint[r].pos \in Nat /\ checkpoint'[r].pos \in Nat
      BY <1>0, <2>2, ForwardFacts
    <2> QED BY <2>1, <2>3, <2>4 DEF CaughtUpMeansReplayed
  <1> QED BY <1>1, <1>2, <1>3, <1>4

\* is_caught_up() is not set before every runner is past everything that was in
\* the log when live mode was started (live.rs:102-110, 471).
THEOREM CaughtUpIsTrue == LiveSpec => []CaughtUpMeansReplayed
  <1>1. LiveInit => LiveInv /\ CaughtUpMeansReplayed
    BY LiveInitInv DEF LiveInit, NewHandle, CaughtUpMeansReplayed
  <1>2. LiveInv /\ CaughtUpMeansReplayed /\ [LiveNext]_vars => LiveInv' /\ CaughtUpMeansReplayed'
    BY LiveNextInv, CaughtUpStep
  <1> QED BY <1>1, <1>2, PTL DEF LiveSpec

-----------------------------------------------------------------------------
(* The position watch                                                       *)

\* What was announced is below every runner, below the minimum being computed and
\* below the stream.
Announcements ==
    /\ \A r \in Runner : announced < checkpoint[r].pos
    /\ loop.pc = "min" => announced < loop.min
    /\ fut.pc # "none" => announced < fut.sub
    /\ handle.watch <= announced \/ handle.watch = 0

\* Every step keeps it.  With no runner at all a reconnection would start again
\* at position 0 (live.rs:240-241), hence the assumption.
LEMMA AnnouncementsStep ==
    ASSUME LiveInv, Announcements, [LiveNext]_vars, Order # <<>>
    PROVE  Announcements' /\ (announced' # announced => announced' > announced \/ announced' = -1)
  <1>0. PassInv' /\ (Forward \/ CrashLive) /\ announced \in Int
    BY RunnersStep, LiveFacts DEF LiveTypes
  <1>1. CASE CrashLive
    <2>1. /\ loop' = NoLoop /\ fut' = NoFuture /\ handle' = NewHandle /\ announced' = -1
      BY <1>1 DEF CrashLive
    <2>2. \A r \in Runner : checkpoint'[r].pos \in Nat
      BY <1>0 DEF PassInv, PassTypes, Checkpoints
    <2> QED BY <2>1, <2>2 DEF Announcements, NoLoop, NoFuture, NewHandle
  <1>2. CASE StartLive
    <2>1. /\ loop'.pc = "check" /\ handle'.watch = 0 /\ UNCHANGED <<fut, announced, checkpoint>>
      BY <1>2 DEF StartLive, NoLoop, NewHandle, runnerVars
    <2> QED BY <2>1 DEF Announcements
  <1>3. CASE FutCaughtUp
    <2>1. /\ handle'.watch = handle.watch /\ fut'.pc = fut.pc /\ fut'.sub = fut.sub
          /\ UNCHANGED <<loop, announced, checkpoint>>
      BY <1>3, LiveFacts DEF FutCaughtUp, Handles, Futures, runnerVars
    <2> QED BY <2>1 DEF Announcements
  <1>4. CASE FutAnnounce
    <2>1. /\ announced' = fut.sub /\ \A r \in Runner : fut.sub < checkpoint[r].pos
      BY <1>4, AnnounceFollows
    <2>2. /\ fut.pc = "event" /\ fut'.sub = fut.sub + 1 /\ loop' = loop /\ loop.pc = "stream"
          /\ handle'.watch = fut.sub \/ handle'.watch = handle.watch
          /\ checkpoint' = checkpoint
      BY <1>4, LiveFacts DEF FutAnnounce, Futures, Handles, Polled, runnerVars
    <2>3. announced < fut.sub /\ fut.sub \in Nat /\ handle.watch \in Nat
      BY <2>2, LiveFacts, HandleRecord DEF Announcements
    <2>4. handle'.watch <= announced' \/ handle'.watch = 0
      BY <1>0, <2>1, <2>2, <2>3 DEF Announcements
    <2>5. announced' < fut'.sub
      BY <2>1, <2>2, <2>3
    <2> QED BY <1>0, <2>1, <2>2, <2>3, <2>4, <2>5 DEF Announcements
  <1>5. ASSUME ~CrashLive, ~StartLive, ~FutCaughtUp, ~FutAnnounce
        PROVE  Announcements' /\ announced' = announced
    <2>1. announced' = announced /\ handle'.watch = handle.watch
      BY <1>5, QuietForHandle
    <2>2. Forward
      BY <1>0, <1>5
    <2>3. \A r \in Runner : announced < checkpoint'[r].pos
      BY <1>0, <2>2, ForwardFacts DEF Announcements
    <2>4. loop'.pc = "min" => announced < loop'.min
      <3>1. CASE LoopCheck
        <4>0. loop \in Loops
          BY LiveFacts
        <4>1. loop'.pc = "min" => loop'.min = MaxPos
          <5>1. CASE loop' = [loop EXCEPT !.pc = "min", !.i = 1, !.min = MaxPos]
            BY <4>0, <5>1 DEF Loops
          <5>2. CASE Saving("stopped")
            BY <4>0, <5>2 DEF Saving, Loops
          <5> QED BY <3>1, <5>1, <5>2 DEF LoopCheck
        <4>2. PICK r \in Runner : r = Order[1]
          BY RunnersAssumption, OrderType
        <4>3. announced < checkpoint[r].pos /\ checkpoint[r].pos <= Len(log)
          BY <4>2, LiveFacts DEF Announcements, PassInv, CheckpointsAreCursors, IsCursor
        <4>4. Len(log) <= LogLimit /\ LogLimit \in Nat /\ checkpoint[r].pos \in Nat /\ Len(log) \in Nat
          BY LiveFacts, RunnersAssumption DEF LiveTypes, PassTypes, Checkpoints
        <4> QED BY <1>0, <4>1, <4>3, <4>4 DEF MaxPos
      <3>2. CASE MinStep
        <4>1. /\ loop.pc = "min" /\ loop.i <= Len(Order)
              /\ loop'.min = IF checkpoint[Order[loop.i]].pos < loop.min
                             THEN checkpoint[Order[loop.i]].pos ELSE loop.min
          BY <3>2, LiveFacts DEF MinStep, Walking, LoopTarget, Loops
        <4>2. loop.i \in 1 .. Len(Order)
          BY <4>1, LiveFacts, LoopRecord
        <4>3. Order[loop.i] \in Runner
          BY <4>2, OrderType
        <4> QED BY <4>1, <4>3 DEF Announcements
      <3>3. ASSUME ~LoopCheck, ~MinStep
            PROVE  loop'.pc = "min" => loop' = loop
        <4>0. loop \in Loops /\ loop.then \in LoopThens
          BY LiveFacts, LoopRecord
        <4>1. CASE \/ SubscribeFails \/ BackoffEnds \/ BackoffShutdown \/ Tick \/ ShutdownSeen
                   \/ LoopSubscribe \/ SaveStep \/ FutEnds
          <5>1. loop'.pc # "min"
            <6>1. ASSUME \E t \in LoopThens : Saving(t)
                  PROVE  loop'.pc = "save"
              BY <4>0, <6>1 DEF Saving, Loops
            <6>2. CASE BackoffShutdown \/ Tick \/ ShutdownSeen \/ FutEnds
              BY <4>0, <4>1, <6>1, <6>2 DEF BackoffShutdown, Tick, ShutdownSeen, FutEnds, LoopThens, Loops
            <6>3. CASE SubscribeFails \/ BackoffEnds \/ LoopSubscribe \/ SaveStep
              BY <4>0, <6>3 DEF SubscribeFails, BackoffEnds, LoopSubscribe, SaveStep, Loops
            <6> QED BY <4>1, <6>2, <6>3
          <5> QED BY <5>1
        <4>2. CASE SaveDone
          <5>1. loop'.pc = IF loop.then = "ended" THEN "check" ELSE loop.then
            BY <4>0, <4>2 DEF SaveDone, Loops
          <5> QED BY <4>0, <5>1 DEF LoopThens
        <4>3. ASSUME NEW c \in Callers, CallLiveProjection(c) \/ LockForPeek(c) \/ Peek(c)
              PROVE  UNCHANGED liveVars
          BY <4>3, LiveFacts, LookInv
        <4>4. CASE \/ UNCHANGED liveVars \/ Shutdown \/ Watch \/ LoopWait \/ FutRecv \/ FutFan
                   \/ FutWait \/ FutDispatch
          BY <4>4 DEF liveVars, Shutdown, Watch, LoopWait, FutRecv, FutFan, FutWait, FutDispatch
        <4> QED
          BY <1>5, <3>3, <4>1, <4>2, <4>3, <4>4 DEF LiveNext, LoopStep, FutureStep, vars
      <3> QED BY <3>1, <3>2, <3>3 DEF Announcements
    <2>5. fut'.pc # "none" => announced < fut'.sub
      <3>1. CASE LoopSubscribe
        <4>1. fut'.sub = loop.min /\ loop.pc = "min"
          BY <3>1, SubscribeFollows DEF LoopSubscribe
        <4> QED BY <4>1 DEF Announcements
      <3>2. ASSUME ~LoopSubscribe
            PROVE  fut'.pc = "none" \/ (fut'.sub = fut.sub /\ fut.pc # "none")
        <4>0. fut \in Futures
          BY LiveFacts
        <4>1. CASE FutRecv \/ FutFan \/ FutDispatch
          BY <4>0, <4>1 DEF FutRecv, FutFan, FutDispatch, Futures
        <4>2. CASE SaveDone \/ FutEnds
          <5>1. fut' = NoFuture \/ fut' = fut
            BY <4>2 DEF SaveDone, FutEnds
          <5> QED BY <4>0, <5>1 DEF NoFuture
        <4>3. ASSUME NEW c \in Callers, CallLiveProjection(c) \/ LockForPeek(c) \/ Peek(c)
              PROVE  UNCHANGED liveVars
          BY <4>3, LiveFacts, LookInv
        <4>4. CASE \/ UNCHANGED liveVars \/ Shutdown \/ Watch \/ LoopWait \/ FutWait \/ LoopCheck
                   \/ MinStep \/ SubscribeFails \/ BackoffEnds \/ BackoffShutdown \/ Tick
                   \/ ShutdownSeen \/ SaveStep
          <5>1. fut' = fut
            BY <4>4 DEF liveVars, Shutdown, Watch, LoopWait, FutWait, LoopCheck, MinStep,
               SubscribeFails, BackoffEnds, BackoffShutdown, Tick, ShutdownSeen, SaveStep
          <5> QED BY <5>1
        <4> QED
          BY <1>5, <3>2, <4>1, <4>2, <4>3, <4>4 DEF LiveNext, LoopStep, FutureStep, vars
      <3> QED BY <3>1, <3>2 DEF Announcements
    <2> QED BY <2>1, <2>3, <2>4, <2>5 DEF Announcements
  <1> QED BY <1>1, <1>2, <1>3, <1>4, <1>5

\* Below an announced position no command is left in the loop's hand.
LEMMA AnnouncedFacts ==
    ASSUME LiveInv, Announcements
    PROVE  AnnouncedIsProcessed
  <1>1. ASSUME NEW m \in Managers, NEW x \in Owed(m, announced + 1), x \in Range(fut.out)
        PROVE  FALSE
    <2>1. PICK n \in 0 .. (announced + 1) - 1 : x \in Range(Answers(m, n))
      BY <1>1 DEF Owed
    <2>2. x.pos = n
      <3>1. CASE log[n + 1] \in Decodable
        BY <1>1, <2>1, <3>1 DEF Answers, Range
      <3>2. CASE log[n + 1] \notin Decodable
        <4>1. Answers(m, n) = <<>>
          BY <3>2 DEF Answers
        <4> QED BY <2>1, <4>1 DEF Range
      <3> QED BY <3>1, <3>2
    <2>3. fut.out \in Seq(EnvelopeIds) /\ announced \in Int /\ fut.sub \in Nat
      BY LiveFacts DEF LiveTypes
    <2>4. PICK i \in 1 .. Len(fut.out) : x = fut.out[i]
      BY <1>1, <2>3 DEF Range
    <2>5. x.pos = fut.sub
      BY <2>4, LiveFacts DEF StreamFollows
    <2>6. fut.pc # "none"
      BY <2>3, <2>4, LiveFacts DEF Phases
    <2>7. announced < fut.sub
      BY <2>6 DEF Announcements
    <2> QED BY <2>1, <2>2, <2>3, <2>5, <2>7
  <1> QED BY <1>1 DEF Announcements, AnnouncedIsProcessed

\* A position on the watch has been processed by every runner, and its commands are
\* no longer in the loop's hand (live.rs:112-117, 387-468).
THEOREM AnnouncedIsTrue ==
    ASSUME Order # <<>>
    PROVE  LiveSpec => []AnnouncedIsProcessed
  <1>1. LiveInit => LiveInv /\ Announcements
    <2> SUFFICES ASSUME LiveInit PROVE Announcements
      BY LiveInitInv
    <2> QED BY DEF LiveInit, RunnersInit, Fresh, NoLoop, NoFuture, NewHandle, Announcements
  <1>2. LiveInv /\ Announcements /\ [LiveNext]_vars => LiveInv' /\ Announcements'
    BY LiveNextInv, AnnouncementsStep
  <1>3. LiveInv /\ Announcements => AnnouncedIsProcessed
    BY AnnouncedFacts
  <1> QED BY <1>1, <1>2, <1>3, PTL DEF LiveSpec

\* Positions sent to the watch only go up (live.rs:287, 468).
THEOREM AnnouncementsGoUp ==
    ASSUME Order # <<>>
    PROVE  LiveSpec => AnnouncementsAdvance
  <1>1. LiveInit => LiveInv /\ Announcements
    <2> SUFFICES ASSUME LiveInit PROVE Announcements
      BY LiveInitInv
    <2> QED BY DEF LiveInit, RunnersInit, Fresh, NoLoop, NoFuture, NewHandle, Announcements
  <1>2. LiveInv /\ Announcements /\ [LiveNext]_vars => LiveInv' /\ Announcements'
    BY LiveNextInv, AnnouncementsStep
  <1>3. LiveInv /\ Announcements /\ [LiveNext]_vars =>
            [announced' # announced => announced' > announced \/ announced' = -1]_vars
    BY AnnouncementsStep
  <1> QED BY <1>1, <1>2, <1>3, PTL DEF LiveSpec, AnnouncementsAdvance

-----------------------------------------------------------------------------
(* The mutexes                                                              *)

\* The stream future queues at the runner it is at in its fan-out only, the loop at
\* the one it is at in its walk.
StreamPlace == \A r \in Runner : In("stream", r) => fut.pc = "event" /\ Fanning /\ r = FutTarget
LoopPlace   == \A r \in Runner : In("loop", r) => loop.pc \in {"min", "save"} /\ Walking /\ r = LoopTarget

LivePlaces == LocksInv /\ StreamPlace /\ LoopPlace

\* The loop and its future are no callers, and not the same client.
LEMMA Outsiders ==
    /\ "stream" \in Clients \ Callers /\ "loop" \in Clients \ Callers /\ "stream" # "loop"
  BY LiveAssumption DEF Clients

\* A caller's step leaves the loop's places alone.
LEMMA PlacesStay ==
    ASSUME LivePlaces, LocksInv', OutsidersKeep, UNCHANGED <<loop, fut>>
    PROVE  LivePlaces'
  <1>1. \A r \in Runner : (In("stream", r)' => In("stream", r)) /\ (In("loop", r)' => In("loop", r))
    BY Outsiders DEF OutsidersKeep
  <1>2. StreamPlace'
    BY <1>1 DEF LivePlaces, StreamPlace, Fanning, FutTarget
  <1>3. LoopPlace'
    BY <1>1 DEF LivePlaces, LoopPlace, Walking, LoopTarget
  <1> QED BY <1>2, <1>3 DEF LivePlaces

\* A step that leaves the locks alone, of a loop or a future that is in no queue.
LEMMA QuietPlaces ==
    ASSUME LivePlaces, UNCHANGED <<lock, cpc, at>>,
           fut' = fut \/ ~(fut.pc = "event" /\ Fanning),
           loop' = loop \/ ~(loop.pc \in {"min", "save"} /\ Walking)
    PROVE  LivePlaces'
  <1>0. LocksInv' /\ OutsidersKeep
    BY QuietLocks DEF LivePlaces
  <1>1. \A r \in Runner : (In("stream", r)' => In("stream", r)) /\ (In("loop", r)' => In("loop", r))
    BY <1>0, Outsiders DEF OutsidersKeep
  <1>2. StreamPlace'
    <2>1. CASE fut' = fut
      BY <1>1, <2>1 DEF LivePlaces, StreamPlace, Fanning, FutTarget
    <2>2. CASE ~(fut.pc = "event" /\ Fanning)
      BY <1>1, <2>2 DEF LivePlaces, StreamPlace
    <2> QED BY <2>1, <2>2
  <1>3. LoopPlace'
    <2>1. CASE loop' = loop
      BY <1>1, <2>1 DEF LivePlaces, LoopPlace, Walking, LoopTarget
    <2>2. CASE ~(loop.pc \in {"min", "save"} /\ Walking)
      BY <1>1, <2>2 DEF LivePlaces, LoopPlace
    <2> QED BY <2>1, <2>2
  <1> QED BY <1>0, <1>2, <1>3 DEF LivePlaces

\* A step of the loop or its future on the locks leaves the callers' places alone.
LEMMA OutsiderMoves ==
    ASSUME LocksInv, PassInv, NEW q \in {"stream", "loop"}, LocksTyped', OthersKeep(q),
           UNCHANGED <<cpc, at>>
    PROVE  /\ LocksInv'
           /\ \A d \in {"stream", "loop"} \ {q}, r \in Runner : In(d, r)' => In(d, r)
  <1>1. \A c \in Callers : c # q
    BY Outsiders
  <1>2. \A c \in Callers : CallerPlace(c)'
    BY <1>1, CallerStays
  <1>3. \A d \in {"stream", "loop"} : d \in Clients
    BY Outsiders
  <1> QED BY <1>2, <1>3 DEF LocksInv, OthersKeep

\* The loop takes its turn at a runner, or waits for it.
LEMMA LoopPlaces ==
    ASSUME LivePlaces, LiveInv, MinStep \/ SaveStep \/ LoopWait
    PROVE  LivePlaces'
  <1>0. PassInv /\ loop \in Loops /\ Len(Order) \in Nat
    BY LiveFacts
  <1>1. /\ loop.pc \in {"min", "save"} /\ Walking /\ UNCHANGED <<cpc, at, fut>>
    BY DEF MinStep, SaveStep, LoopWait, callerVars, liveVars
  <1>2. PICK t \in Runner : t = LoopTarget
    <2>1. loop.i \in 1 .. Len(Order) + 1
      BY <1>0, LoopRecord
    <2> QED BY <1>0, <1>1, <2>1, OrderType DEF Walking, LoopTarget
  <1>3. \A r \in Runner : In("loop", r) => r = t
    BY <1>2 DEF LivePlaces, LoopPlace
  <1>4. "loop" \in Clients /\ "loop" \in {"stream", "loop"} /\ LocksInv /\ LocksTyped
    BY Outsiders DEF LivePlaces, LocksInv
  <1>5. CASE MinStep \/ SaveStep
    <2>1. CanLock("loop", t) /\ lock' = Released(t)
      BY <1>2, <1>5 DEF MinStep, SaveStep
    <2>2. LocksTyped' /\ OthersKeep("loop") /\ \A r \in Runner : In("loop", r)' => In("loop", r) /\ r # t
      BY <1>4, <2>1, ReleaseLocks
    <2>3. LocksInv' /\ \A r \in Runner : In("stream", r)' => In("stream", r)
      BY <1>0, <1>1, <1>4, <2>2, Outsiders, OutsiderMoves
    <2>4. LoopPlace'
      BY <1>3, <2>2 DEF LoopPlace
    <2>5. StreamPlace'
      BY <1>1, <2>3 DEF LivePlaces, StreamPlace, Fanning, FutTarget
    <2> QED BY <2>3, <2>4, <2>5 DEF LivePlaces
  <1>6. CASE LoopWait
    <2>1. Enqueue("loop", t) /\ loop' = loop
      BY <1>2, <1>6 DEF LoopWait, liveVars
    <2>2. LocksTyped' /\ OthersKeep("loop") /\ \A r \in Runner : In("loop", r)' => In("loop", r) \/ r = t
      BY <1>4, <2>1, WaitLocks
    <2>3. LocksInv' /\ \A r \in Runner : In("stream", r)' => In("stream", r)
      BY <1>0, <1>1, <1>4, <2>2, Outsiders, OutsiderMoves
    <2>4. LoopPlace'
      BY <1>1, <1>2, <1>3, <2>1, <2>2 DEF LoopPlace, Walking, LoopTarget
    <2>5. StreamPlace'
      BY <1>1, <2>3 DEF LivePlaces, StreamPlace, Fanning, FutTarget
    <2> QED BY <2>3, <2>4, <2>5 DEF LivePlaces
  <1> QED BY <1>5, <1>6

\* The stream future does, or waits.
LEMMA StreamPlaces ==
    ASSUME LivePlaces, LiveInv, FutFan \/ FutWait
    PROVE  LivePlaces'
  <1>0. PassInv /\ fut \in Futures /\ Len(Order) \in Nat
    BY LiveFacts
  <1>1. /\ fut.pc = "event" /\ Fanning /\ UNCHANGED <<cpc, at, loop>>
    BY DEF FutFan, FutWait, callerVars, liveVars
  <1>2. PICK t \in Runner : t = FutTarget
    <2>1. fut.i \in 1 .. Len(Order) + 1
      BY <1>0, FutureRecord
    <2> QED BY <1>0, <1>1, <2>1, OrderType DEF Fanning, FutTarget
  <1>3. \A r \in Runner : In("stream", r) => r = t
    BY <1>2 DEF LivePlaces, StreamPlace
  <1>4. "stream" \in Clients /\ "stream" \in {"stream", "loop"} /\ LocksInv /\ LocksTyped
    BY Outsiders DEF LivePlaces, LocksInv
  <1>5. CASE FutFan
    <2>1. CanLock("stream", t) /\ lock' = Released(t)
      BY <1>2, <1>5 DEF FutFan
    <2>2. LocksTyped' /\ OthersKeep("stream") /\ \A r \in Runner : In("stream", r)' => In("stream", r) /\ r # t
      BY <1>4, <2>1, ReleaseLocks
    <2>3. LocksInv' /\ \A r \in Runner : In("loop", r)' => In("loop", r)
      BY <1>0, <1>1, <1>4, <2>2, Outsiders, OutsiderMoves
    <2>4. StreamPlace'
      BY <1>3, <2>2 DEF StreamPlace
    <2>5. LoopPlace'
      BY <1>1, <2>3 DEF LivePlaces, LoopPlace, Walking, LoopTarget
    <2> QED BY <2>3, <2>4, <2>5 DEF LivePlaces
  <1>6. CASE FutWait
    <2>1. Enqueue("stream", t) /\ fut' = fut
      BY <1>2, <1>6 DEF FutWait, liveVars
    <2>2. LocksTyped' /\ OthersKeep("stream") /\ \A r \in Runner : In("stream", r)' => In("stream", r) \/ r = t
      BY <1>4, <2>1, WaitLocks
    <2>3. LocksInv' /\ \A r \in Runner : In("loop", r)' => In("loop", r)
      BY <1>0, <1>1, <1>4, <2>2, Outsiders, OutsiderMoves
    <2>4. StreamPlace'
      BY <1>1, <1>2, <1>3, <2>1, <2>2 DEF StreamPlace, Fanning, FutTarget
    <2>5. LoopPlace'
      BY <1>1, <2>3 DEF LivePlaces, LoopPlace, Walking, LoopTarget
    <2> QED BY <2>3, <2>4, <2>5 DEF LivePlaces
  <1> QED BY <1>5, <1>6

\* The loop leaves with its future, and the future leaves the queues.
LEMMA SaveDonePlaces ==
    ASSUME LivePlaces, LiveInv, SaveDone
    PROVE  LivePlaces'
  <1>0. PassInv /\ ~Walking /\ UNCHANGED <<cpc, at>>
    BY LiveFacts DEF SaveDone, callerVars
  <1>1. CASE loop.then = "stopped"
    <2>1. lock' = Dropped("stream")
      BY <1>1 DEF SaveDone
    <2>2. "stream" \in Clients /\ "stream" \in {"stream", "loop"} /\ LocksInv /\ LocksTyped
      BY Outsiders DEF LivePlaces, LocksInv
    <2>3. LocksTyped' /\ OthersKeep("stream") /\ \A r \in Runner : ~In("stream", r)'
      BY <2>1, <2>2, DropLocks
    <2>4. LocksInv' /\ \A r \in Runner : In("loop", r)' => In("loop", r)
      BY <1>0, <2>2, <2>3, Outsiders, OutsiderMoves
    <2>5. StreamPlace' /\ LoopPlace'
      BY <1>0, <2>3, <2>4 DEF LivePlaces, LoopPlace, StreamPlace
    <2> QED BY <2>4, <2>5 DEF LivePlaces
  <1>2. CASE loop.then # "stopped"
    BY <1>0, <1>2, QuietPlaces DEF SaveDone
  <1> QED BY <1>1, <1>2

\* A look at a projection takes its mutex and gives it back.
LEMMA LookLocks ==
    ASSUME LocksInv, PassInv, NEW c \in Callers, LockForPeek(c) \/ Peek(c)
    PROVE  LocksInv' /\ OutsidersKeep
  <1>1. CASE LockForPeek(c)
    BY <1>1, TakeLocks DEF LockForPeek
  <1>2. CASE Peek(c)
    BY <1>2, ReturnMoves, LetGoLocks DEF Peek
  <1> QED BY <1>1, <1>2

\* Every step of live mode keeps the places.
LEMMA LivePlacesStep ==
    ASSUME LivePlaces, LiveInv, [LiveNext]_vars
    PROVE  LivePlaces'
  <1>0. PassInv /\ Phases /\ LocksInv
    BY LiveFacts DEF LivePlaces
  <1>1. CASE CrashLive
    <2>1. LocksInv' /\ \A q : \A r \in Runner : ~In(q, r)'
      BY <1>1, FreeLocks DEF CrashLive, Crash
    <2> QED BY <2>1 DEF LivePlaces, StreamPlace, LoopPlace
  <1>2. CASE PullNext /\ UNCHANGED liveVars
    BY <1>0, <1>2, PullLocks, PlacesStay DEF liveVars
  <1>3. ASSUME NEW c \in Callers, CallLiveProjection(c) \/ LockForPeek(c) \/ Peek(c)
        PROVE  LivePlaces'
    <2>1. UNCHANGED <<loop, fut>>
      BY <1>3 DEF CallLiveProjection, LockForPeek, Peek, liveVars
    <2>2. CASE CallLiveProjection(c)
      <3>1. \E o, i : \E pc \in {"lock", "peek", "dispatch"} : Begin(c, o, i, pc)
        BY <2>2 DEF CallLiveProjection
      <3> QED BY <1>0, <2>1, <3>1, BeginLocks, PlacesStay
    <2>3. CASE LockForPeek(c)
      BY <1>0, <2>1, <2>3, LookLocks, PlacesStay
    <2>4. CASE Peek(c)
      BY <1>0, <2>1, <2>4, LookLocks, PlacesStay
    <2> QED BY <1>3, <2>2, <2>3, <2>4
  <1>4. CASE \/ StartLive \/ Shutdown \/ Watch \/ LoopCheck \/ SubscribeFails \/ BackoffEnds
             \/ BackoffShutdown \/ Tick \/ ShutdownSeen
    <2>1. /\ UNCHANGED <<lock, cpc, at>> /\ fut' = fut
          /\ loop' = loop \/ ~(loop.pc \in {"min", "save"} /\ Walking)
      BY <1>4 DEF StartLive, Shutdown, Watch, LoopCheck, SubscribeFails, BackoffEnds,
         BackoffShutdown, Tick, ShutdownSeen, Polled, runnerVars
    <2> QED BY <2>1, QuietPlaces
  <1>5. CASE LoopSubscribe
    <2>1. /\ UNCHANGED <<lock, cpc, at>> /\ loop.pc = "min" /\ ~Walking
      BY <1>5 DEF LoopSubscribe, runnerVars
    <2>2. fut.pc = "none"
      BY <1>0, <2>1 DEF Phases
    <2> QED BY <2>1, <2>2, QuietPlaces
  <1>6. CASE FutRecv \/ FutDispatch \/ FutAnnounce \/ FutCaughtUp \/ FutEnds
    <2>1. /\ UNCHANGED <<lock, cpc, at>> /\ ~(fut.pc = "event" /\ Fanning)
          /\ loop' = loop \/ ~(loop.pc \in {"min", "save"} /\ Walking)
      BY <1>6 DEF FutRecv, FutDispatch, FutAnnounce, FutCaughtUp, FutEnds, Polled, runnerVars,
         callerVars
    <2> QED BY <2>1, QuietPlaces
  <1>7. CASE UNCHANGED vars
    BY <1>7, QuietPlaces DEF vars, runnerVars, liveVars
  <1> QED
    BY <1>1, <1>2, <1>3, <1>4, <1>5, <1>6, <1>7, LoopPlaces, StreamPlaces, SaveDonePlaces
       DEF LiveNext, LoopStep, FutureStep

\* The bounds that are left: the last position on the watch is one of the log.
Bounded == Counted /\ handle.watch <= Len(log)

\* Every step of live mode keeps them.
LEMMA BoundedStep ==
    ASSUME Bounded, LiveInv, [LiveNext]_vars
    PROVE  Bounded'
  <1>0. /\ PassInv /\ Len(log) \in Nat /\ handle \in Handles /\ fut \in Futures /\ LiveTypes
        /\ log \in Seq(Events) /\ upto \in [Callers -> Nat] /\ handled \subseteq EnvelopeIds
        /\ handle.watch <= Len(log) /\ handle.watch \in Nat /\ fut.sub \in Nat
    BY LiveFacts, HandleRecord DEF Bounded, Counted, PassTypes
  <1>1. CASE CrashLive
    <2>1. upto' = [c \in Callers |-> 0] /\ handled' = handled /\ log' = log /\ handle' = NewHandle
      BY <1>1 DEF CrashLive, Crash
    <2> QED BY <1>0, <2>1 DEF Bounded, Counted, NewHandle
  <1>2. CASE PullNext /\ UNCHANGED liveVars
    <2>1. Counted'
      BY <1>0, <1>2, PullCounted DEF Bounded
    <2>2. handle' = handle /\ Len(log) <= Len(log') /\ Len(log') \in Nat
      BY <1>0, <1>2, PullForward DEF liveVars, Forward
    <2> QED BY <1>0, <2>1, <2>2 DEF Bounded
  <1>3. ASSUME NEW c \in Callers, CallLiveProjection(c) \/ LockForPeek(c) \/ Peek(c)
        PROVE  Bounded'
    <2>1. UNCHANGED <<log, handle, handled>>
      BY <1>3 DEF CallLiveProjection, Begin, LockForPeek, Peek, liveVars
    <2>2. upto' = upto \/ upto' = [upto EXCEPT ![c] = 0]
      BY <1>3 DEF CallLiveProjection, Begin, LockForPeek, Peek, Return
    <2> QED BY <1>0, <2>1, <2>2 DEF Bounded, Counted
  <1>4. CASE FutAnnounce
    <2>1. UNCHANGED <<log, upto, handled>> /\ fut.pc = "event"
      BY <1>4 DEF FutAnnounce, runnerVars
    <2>2. fut.sub < Len(log)
      BY <1>0, <2>1 DEF LiveTypes
    <2>3. handle'.watch = IF handle.receivers THEN fut.sub ELSE handle.watch
      BY <1>0, <1>4 DEF FutAnnounce, Handles
    <2>4. handle'.watch <= Len(log)
      BY <1>0, <2>2, <2>3
    <2> QED BY <1>0, <2>1, <2>4 DEF Bounded, Counted
  <1>5. CASE FutDispatch
    <2>1. UNCHANGED <<log, upto, handle>>
      BY <1>5 DEF FutDispatch, callerVars
    <2>2. handled' \subseteq EnvelopeIds
      <3>1. fut.out # <<>> /\ (handled' = handled \cup {Head(fut.out)} \/ handled' = handled)
        BY <1>5 DEF FutDispatch
      <3>2. fut.out \in Seq(EnvelopeIds)
        BY <1>0, FutureRecord
      <3>3. Head(fut.out) \in EnvelopeIds
        BY <3>1, <3>2
      <3> QED BY <1>0, <3>1, <3>3
    <2> QED BY <1>0, <2>1, <2>2 DEF Bounded, Counted
  <1>6. CASE \/ StartLive \/ Shutdown \/ Watch \/ LoopSubscribe \/ SubscribeFails \/ Tick
             \/ ShutdownSeen \/ LoopCheck \/ MinStep \/ LoopWait \/ BackoffEnds \/ BackoffShutdown
             \/ SaveStep \/ SaveDone \/ FutRecv \/ FutFan \/ FutWait \/ FutCaughtUp \/ FutEnds
             \/ UNCHANGED vars
    <2>1. UNCHANGED <<log, upto, handled>>
      BY <1>6 DEF StartLive, Shutdown, Watch, LoopSubscribe, SubscribeFails, Tick, ShutdownSeen,
         LoopCheck, MinStep, LoopWait, BackoffEnds, BackoffShutdown, SaveStep, SaveDone, FutRecv,
         FutFan, FutWait, FutCaughtUp, FutEnds, vars, runnerVars, callerVars
    <2>2. handle'.watch = handle.watch \/ handle'.watch = 0
      <3>1. CASE Shutdown \/ Watch \/ FutCaughtUp
        BY <1>0, <3>1 DEF Shutdown, Watch, FutCaughtUp, Handles
      <3>2. CASE StartLive
        BY <3>2 DEF StartLive, NewHandle
      <3>3. CASE handle' = handle
        BY <3>3
      <3> QED BY <1>6, <3>1, <3>2, <3>3 DEF LoopSubscribe, SubscribeFails, Tick, ShutdownSeen,
         LoopCheck, MinStep, LoopWait, BackoffEnds, BackoffShutdown, SaveStep, SaveDone, FutRecv,
         FutFan, FutWait, FutEnds, vars, liveVars
    <2> QED BY <1>0, <2>1, <2>2 DEF Bounded, Counted
  <1> QED
    BY <1>1, <1>2, <1>3, <1>4, <1>5, <1>6 DEF LiveNext, LoopStep, FutureStep

\* The invariants give the type invariant of live mode.
LEMMA LiveModeTyped ==
    ASSUME LiveInv, LivePlaces, Bounded
    PROVE  LiveTypeOK
  <1>0. /\ PassInv /\ LiveTypes /\ Phases /\ Len(log) \in Nat /\ LogLimit \in Nat
        /\ loop \in Loops /\ fut \in Futures /\ handle \in Handles
    BY LiveFacts, RunnersAssumption
  <1>1. TypeOK
    BY <1>0, ReadSideTyped DEF LivePlaces, Bounded
  <1>2. fut.sub \in 0 .. LogLimit /\ fut.upto \in 0 .. LogLimit
    <2>1. fut.sub \in Nat /\ fut.upto \in Nat
      BY LiveFacts
    <2> QED BY <1>0, <2>1 DEF LiveTypes
  <1>3. handle.watch \in 0 .. LogLimit
    <2>1. handle.watch \in Nat
      BY <1>0, HandleRecord
    <2> QED BY <1>0, <2>1 DEF LiveTypes, Bounded
  <1>4. loop \in [pc : {"off", "check", "min", "retry", "stream", "save", "reconnect", "stopped"},
                  then : {"off", "stream", "ended", "reconnect", "stopped"},
                  i : 1 .. Len(Order) + 1, min : 0 .. MaxPos, delay : 0 .. MaxDelay]
    BY <1>0 DEF Loops, LoopPcs, LoopThens
  <1>5. fut \in [pc : {"none", "next", "event"}, i : 1 .. Len(Order) + 1, sub : 0 .. LogLimit,
                 upto : 0 .. LogLimit, sentinel : BOOLEAN, out : Seq(EnvelopeIds)]
    BY <1>0, <1>2 DEF Futures
  <1>6. handle \in [shut : BOOLEAN, caught : BOOLEAN, watch : 0 .. LogLimit, receivers : BOOLEAN]
    BY <1>0, <1>3 DEF Handles
  <1>7. Polled => fut.pc # "none"
    BY <1>0 DEF Phases, Polled
  <1>8. /\ fut.pc # "event" => \A r \in Runner : "stream" \notin Range(lock[r])
        /\ loop.pc \notin {"min", "save"} => \A r \in Runner : "loop" \notin Range(lock[r])
    BY DEF LivePlaces, StreamPlace, LoopPlace, In
  <1> QED BY <1>1, <1>4, <1>5, <1>6, <1>7, <1>8 DEF LiveTypeOK

\* Type correctness of live mode, and that its mutexes exclude and are given back:
\* the loop and its stream future are in no queue when they want no runner, even
\* when the future was dropped in the middle of a fan-out (live.rs:223-242, 280-359,
\* 387-468).
THEOREM LiveModeExcludes == LiveSpec => []LiveTypeOK
  <1>1. LiveInit => LiveInv /\ LivePlaces /\ Bounded
    <2> SUFFICES ASSUME LiveInit PROVE LiveInv /\ LivePlaces /\ Bounded
      OBVIOUS
    <2>1. RunnersInit
      BY DEF LiveInit
    <2>2. LivePlaces
      BY <2>1, InitLocks DEF LivePlaces, StreamPlace, LoopPlace
    <2>3. Bounded
      BY <2>1 DEF LiveInit, RunnersInit, Bounded, Counted, NewHandle
    <2> QED BY <2>2, <2>3, LiveInitInv
  <1>2. LiveInv /\ LivePlaces /\ Bounded /\ [LiveNext]_vars => (LiveInv /\ LivePlaces /\ Bounded)'
    BY LiveNextInv, LivePlacesStep, BoundedStep
  <1>3. LiveInv /\ LivePlaces /\ Bounded => LiveTypeOK
    BY LiveModeTyped
  <1> QED BY <1>1, <1>2, <1>3, PTL DEF LiveSpec

=============================================================================
