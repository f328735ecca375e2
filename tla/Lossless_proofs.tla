-------------------------- MODULE Lossless_proofs ---------------------------
(***************************************************************************)
(* No command is lost while the process lives, live mode is not shut down, *)
(* no call is abandoned, streams end rather than break and dead letters    *)
(* can be written; for any number of runners, callers and events, with the *)
(* loop and run_process_managers() taking the events from one another.     *)
(*                                                                         *)
(* A command leaves LostCommands' reach by being handled or by being in    *)
(* somebody's hand.  So the argument is where commands may be in hand      *)
(* (InPlace): only a run_process_managers() that has not yet dispatched    *)
(* everything has any, hence no call that returns drops one; and the loop  *)
(* drops its own only when it stops.                                       *)
(***************************************************************************)
EXTENDS LiveLoop_proofs

\* What may still go wrong: a stream that just ends, a crash, a checkpoint that
\* cannot be written.
Calm == Faults \cap {"stream", "letter", "abandon"} = {} /\ ~May("shutdown")

NotStopping == handle.shut = FALSE /\ loop.then # "stopped"

Places == HandsInv /\ NotStopping

-----------------------------------------------------------------------------
(* Where commands are in hand                                               *)

\* Every step of live mode leaves commands in hand only where they may be.
LEMMA CallersPlace ==
    ASSUME Places, LiveInv, [LiveNext]_vars
    PROVE  HandsInv'
  <1>0. PassInv /\ HandsInv
    BY DEF LiveInv, Places
  <1>1. CASE UNCHANGED <<cpc, op, at, work>>
    BY <1>0, <1>1 DEF HandsInv, InPlace, Target
  <1>2. ASSUME NEW c \in Callers, CallLiveProjection(c)
        PROVE  HandsInv'
    <2>1. PICK i \in 1 .. Len(Order) :
              /\ Order[i] \in Projections
              /\ Begin(c, "projection", i, "lock") \/ Begin(c, "live_projection", i, "peek")
      BY <1>2 DEF CallLiveProjection
    <2>2. i \in 1 .. Len(Order) + 1 /\ "projection" \in Ops /\ "live_projection" \in Ops
      BY OrderType DEF Ops
    <2> QED BY <1>0, <2>1, <2>2, BeginPlace
  <1>3. ASSUME NEW c \in Callers, LockForPeek(c)
        PROVE  HandsInv'
    <2>1. /\ op \in [Callers -> Ops] /\ cpc \in [Callers -> CallerPcs] /\ InPlace(c)
      BY <1>0 DEF HandsInv, PassInv, PassTypes
    <2>2. /\ cpc[c] = "peek" /\ cpc'[c] = "peeking" /\ UNCHANGED <<op, at, work>>
          /\ \A d \in Callers \ {c} : cpc'[d] = cpc[d]
      BY <1>3, <2>1 DEF LockForPeek
    <2>3. InPlace(c)'
      BY <2>1, <2>2 DEF InPlace
    <2> QED BY <1>0, <2>1, <2>2, <2>3, OnePlace
  <1>4. ASSUME NEW c \in Callers, Peek(c)
        PROVE  HandsInv'
    BY <1>0, <1>4, ReturnPlace DEF Peek
  <1>5. CASE CrashLive
    BY <1>5, CrashPlace DEF CrashLive
  <1>6. CASE PullNext
    BY <1>0, <1>6, PullHands
  <1>7. CASE \/ StartLive \/ Shutdown \/ Watch \/ LoopStep \/ LoopSubscribe \/ SubscribeFails \/ Tick
             \/ ShutdownSeen \/ FutureStep \/ FutEnds \/ UNCHANGED vars
    <2>1. CASE \/ StartLive \/ Shutdown \/ Watch \/ LoopSubscribe \/ SubscribeFails \/ Tick
               \/ ShutdownSeen \/ UNCHANGED vars
      BY <1>1, <2>1 DEF StartLive, Shutdown, Watch, LoopSubscribe, SubscribeFails, Tick,
         ShutdownSeen, vars, runnerVars
    <2>2. CASE LoopStep
      BY <1>1, <2>2 DEF LoopStep, LoopCheck, MinStep, LoopWait, BackoffEnds, BackoffShutdown,
         SaveStep, SaveDone, runnerVars, callerVars
    <2>3. CASE FutureStep \/ FutEnds
      BY <1>1, <2>3 DEF FutureStep, FutRecv, FutFan, FutWait, FutDispatch, FutAnnounce,
         FutCaughtUp, FutEnds, runnerVars, callerVars
    <2> QED BY <1>7, <2>1, <2>2, <2>3
  <1> QED
    BY <1>2, <1>3, <1>4, <1>5, <1>6, <1>7 DEF LiveNext

\* Nobody asks the loop to stop.
LEMMA KeepsRunning ==
    ASSUME Places, LiveInv, Calm, [LiveNext]_vars
    PROVE  NotStopping'
  <1>0. loop \in Loops /\ handle \in Handles /\ handle.shut = FALSE /\ loop.then # "stopped" /\ PassInv
    BY LiveFacts DEF Places, NotStopping
  <1>1. CASE CrashLive
    BY <1>1 DEF CrashLive, NoLoop, NewHandle, NotStopping
  <1>2. CASE StartLive
    BY <1>2 DEF StartLive, NoLoop, NewHandle, NotStopping
  <1>3. CASE UNCHANGED liveVars
    BY <1>0, <1>3 DEF liveVars, NotStopping
  <1>4. CASE Watch \/ FutCaughtUp \/ FutAnnounce
    <2>1. loop' = loop /\ handle'.shut = handle.shut
      BY <1>0, <1>4 DEF Watch, FutCaughtUp, FutAnnounce, Handles
    <2> QED BY <1>0, <2>1 DEF NotStopping
  <1>5. ~Shutdown /\ ~ShutdownSeen /\ ~BackoffShutdown
    BY <1>0 DEF Shutdown, Calm, ShutdownSeen, BackoffShutdown
  <1>6. CASE Tick \/ FutEnds
    <2>1. handle' = handle /\ (Saving("stream") \/ Saving("ended") \/ Saving("reconnect"))
      BY <1>6 DEF Tick, FutEnds
    <2>2. loop'.then # "stopped"
      BY <1>0, <2>1 DEF Saving, Loops
    <2> QED BY <1>0, <2>1, <2>2 DEF NotStopping
  <1>7. CASE \/ LoopCheck \/ MinStep \/ BackoffEnds \/ SaveStep \/ SaveDone \/ LoopSubscribe
             \/ SubscribeFails
    <2>1. handle' = handle
      BY <1>7 DEF LoopCheck, MinStep, BackoffEnds, SaveStep, SaveDone, LoopSubscribe, SubscribeFails
    <2>2. loop'.then = loop.then
      <3>1. CASE LoopCheck
        BY <1>0, <3>1 DEF LoopCheck, Loops
      <3>2. CASE MinStep \/ SaveStep \/ LoopSubscribe \/ SubscribeFails
        BY <1>0, <3>2 DEF MinStep, SaveStep, LoopSubscribe, SubscribeFails, Loops
      <3>3. CASE BackoffEnds \/ SaveDone
        BY <1>0, <3>3 DEF BackoffEnds, SaveDone, Loops
      <3> QED BY <1>7, <3>1, <3>2, <3>3
    <2> QED BY <1>0, <2>1, <2>2 DEF NotStopping
  <1>8. CASE FutRecv \/ FutFan \/ FutWait \/ FutDispatch \/ LoopWait
    <2>1. handle' = handle /\ loop' = loop
      BY <1>8 DEF FutRecv, FutFan, FutWait, FutDispatch, LoopWait, liveVars
    <2> QED BY <1>0, <2>1 DEF NotStopping
  <1>9. ASSUME NEW c \in Callers, CallLiveProjection(c) \/ LockForPeek(c) \/ Peek(c)
        PROVE  UNCHANGED liveVars
    BY <1>0, <1>9, LookInv
  <1> QED
    BY <1>1, <1>2, <1>3, <1>4, <1>5, <1>6, <1>7, <1>8, <1>9 DEF LiveNext, LoopStep, FutureStep, vars

\* Together.
LEMMA PlacesStep ==
    ASSUME Places, LiveInv, Calm, [LiveNext]_vars
    PROVE  Places'
  BY CallersPlace, KeepsRunning DEF Places

-----------------------------------------------------------------------------
(* What is lost                                                             *)

\* A lost command is owed by some manager and neither handled nor in hand.
LEMMA LostIs ==
    ASSUME NEW x
    PROVE  x \in LostCommands <=>
               /\ x \notin handled /\ x \notin InHand
               /\ \E m \in Managers : x \in Owed(m, checkpoint[m].pos)
  <1> DEFINE due == {Owed(m, checkpoint[m].pos) : m \in Managers}
  <1>1. x \in UNION due <=> \E d \in due : x \in d
    OBVIOUS
  <1>2. \A d : d \in due <=> \E m \in Managers : d = Owed(m, checkpoint[m].pos)
    OBVIOUS
  <1>3. x \in UNION due <=> \E m \in Managers : x \in Owed(m, checkpoint[m].pos)
    <2> HIDE DEF due
    <2> QED BY <1>1, <1>2
  <1>4. LostCommands = (UNION due) \ (handled \cup InHand)
    BY DEF LostCommands
  <1> HIDE DEF due
  <1> QED BY <1>3, <1>4

\* The same after a step.
LEMMA LostIsThen ==
    ASSUME NEW x
    PROVE  x \in LostCommands' <=>
               /\ x \notin handled' /\ x \notin InHand'
               /\ \E m \in Managers : x \in Owed(m, checkpoint[m].pos)'
  <1> DEFINE due == {Owed(m, checkpoint[m].pos)' : m \in Managers}
  <1>1. x \in UNION due <=> \E d \in due : x \in d
    OBVIOUS
  <1>2. \A d : d \in due <=> \E m \in Managers : d = Owed(m, checkpoint[m].pos)'
    OBVIOUS
  <1>3. x \in UNION due <=> \E m \in Managers : x \in Owed(m, checkpoint[m].pos)'
    <2> HIDE DEF due
    <2> QED BY <1>1, <1>2
  <1>4. LostCommands' = (UNION due) \ (handled' \cup InHand')
    BY DEF LostCommands
  <1> HIDE DEF due
  <1> QED BY <1>3, <1>4

\* What an event is answered with does not change when the log grows.
LEMMA AnswersStay ==
    ASSUME LiveInv, Forward, NEW m, NEW n \in Nat, n < Len(log)
    PROVE  Answers(m, n)' = Answers(m, n)
  <1>1. log \in Seq(Events) /\ n + 1 \in 1 .. Len(log)
    BY LiveFacts DEF PassTypes
  <1>2. log'[n + 1] = log[n + 1]
    BY <1>1 DEF Forward
  <1> QED BY <1>2 DEF Answers

\* Nothing is lost by a step that hands over what its managers move past.
LEMMA NothingDropped ==
    ASSUME LiveInv, PassInv', Forward,
           handled \subseteq handled', InHand \subseteq InHand' \cup handled',
           \A m \in Managers :
               \/ checkpoint'[m].pos = checkpoint[m].pos
               \/ /\ checkpoint'[m].pos = checkpoint[m].pos + 1
                  /\ checkpoint[m].pos < Len(log)
                  /\ Range(Answers(m, checkpoint[m].pos)) \subseteq InHand' \cup handled'
    PROVE  LostCommands' \subseteq LostCommands
  <1> SUFFICES ASSUME NEW x \in LostCommands' PROVE x \in LostCommands
    OBVIOUS
  <1>1. x \notin handled' /\ x \notin InHand' /\ \E m \in Managers : x \in Owed(m, checkpoint[m].pos)'
    BY LostIsThen
  <1>2. PICK m \in Managers : x \in Owed(m, checkpoint[m].pos)'
    BY <1>1
  <1>3. PICK n \in 0 .. checkpoint'[m].pos - 1 : x \in Range(Answers(m, n)')
    BY <1>2 DEF Owed
  <1>4. /\ checkpoint[m].pos \in Nat /\ checkpoint'[m].pos \in Nat /\ Len(log) \in Nat
        /\ checkpoint[m].pos <= Len(log)
    BY LiveFacts, <1>2 DEF PassInv, PassTypes, CheckpointsAreCursors, IsCursor, Checkpoints, Runner
  <1>5. CASE n < checkpoint[m].pos
    <2>1. n \in Nat /\ n < Len(log) /\ n \in 0 .. checkpoint[m].pos - 1
      BY <1>3, <1>4, <1>5
    <2>2. x \in Range(Answers(m, n))
      BY <1>3, <2>1, AnswersStay
    <2>3. x \in Owed(m, checkpoint[m].pos)
      BY <2>1, <2>2, OwedIs
    <2>4. x \notin handled /\ x \notin InHand
      BY <1>1
    <2> QED BY <2>3, <2>4, LostIs
  <1>6. CASE ~(n < checkpoint[m].pos)
    <2>1. n = checkpoint[m].pos /\ n < Len(log) /\ n \in Nat
      BY <1>3, <1>4, <1>6
    <2>2. x \in Range(Answers(m, n))
      BY <1>3, <2>1, AnswersStay
    <2>3. checkpoint'[m].pos # checkpoint[m].pos
      BY <1>3, <1>4, <1>6
    <2> QED BY <1>1, <1>2, <2>1, <2>2, <2>3
  <1> QED BY <1>5, <1>6

\* What is in hand stays in hand or is handled.
LEMMA StillInHand ==
    ASSUME Range(fut.out) \subseteq Range(fut'.out) \cup handled',
           \A c \in Callers : Range(work[c]) \subseteq Range(work'[c]) \cup handled'
    PROVE  InHand \subseteq InHand' \cup handled'
  <1> SUFFICES ASSUME NEW x \in InHand PROVE x \in InHand' \cup handled'
    OBVIOUS
  <1>1. x \in Range(fut.out) \/ \E c \in Callers : x \in Range(work[c])
    BY DEF InHand
  <1>2. x \in handled' \/ x \in Range(fut'.out) \/ \E c \in Callers : x \in Range(work'[c])
    BY <1>1
  <1> QED BY <1>2 DEF InHand

\* Steps that touch no runner and nothing in hand.
LEMMA QuietLoss ==
    ASSUME LiveInv, PassInv', Forward, UNCHANGED <<checkpoint, handled, work>>, fut'.out = fut.out
    PROVE  LostCommands' \subseteq LostCommands
  <1>1. InHand \subseteq InHand' \cup handled'
    BY StillInHand
  <1>2. \A m \in Managers : checkpoint'[m].pos = checkpoint[m].pos
    OBVIOUS
  <1> QED BY <1>1, <1>2, NothingDropped

\* A call that returns drops nothing.
LEMMA ReturnLoss ==
    ASSUME Places, LiveInv, NEW c \in Callers,
           ProjectionDone(c) \/ AllDispatched(c) \/ SaveManager(c) \/ Peek(c)
    PROVE  UNCHANGED <<log, checkpoint, handled, work>>
  <1>0. work \in [Callers -> Seq(EnvelopeIds)] /\ InPlace(c)
    BY LiveFacts DEF PassTypes, Places, HandsInv
  <1>1. UNCHANGED <<log, checkpoint, handled>>
    BY DEF ProjectionDone, AllDispatched, SaveManager, Peek
  <1>2. work[c] = <<>>
    BY <1>0 DEF ProjectionDone, AllDispatched, SaveManager, Peek, InPlace
  <1>3. work' = work \/ work' = [work EXCEPT ![c] = <<>>]
    BY DEF ProjectionDone, AllDispatched, SaveManager, Peek, Return, Fail
  <1>4. work' = work
    BY <1>0, <1>2, <1>3
  <1> QED BY <1>1, <1>4

\* A pass that reads an event has its answers in hand.
LEMMA ReadLoss ==
    ASSUME LiveInv, PassInv', Forward, NEW c \in Callers, ReadEvent(c), UNCHANGED liveVars
    PROVE  LostCommands' \subseteq LostCommands
  <1>0. PassInv /\ work \in [Callers -> Seq(EnvelopeIds)] /\ log \in Seq(Events)
        /\ checkpoint \in [Runner -> Checkpoints]
    BY LiveFacts DEF PassTypes
  <1>1. /\ cpc[c] = "read" /\ next[c] < Len(log) /\ handled' = handled /\ fut' = fut
        /\ checkpoint' = [checkpoint EXCEPT ![Target(c)] = AfterEvent(@, next[c])]
        /\ work' = [work EXCEPT ![c] = @ \o Produced(Target(c), next[c])]
    BY DEF ReadEvent, liveVars
  <1>2. Target(c) \in Runner /\ next[c] \in Nat /\ next[c] <= checkpoint[Target(c)].pos
    BY <1>0, <1>1, CallerFacts
  <1>3. PICK r \in Runner : r = Target(c)
    BY <1>2
  <1>4. PICK n \in Nat : n = next[c]
    BY <1>2
  <1>5. PICK p \in Seq(EnvelopeIds) : p = Produced(r, n)
    BY <1>0, <1>1, <1>4, ProducedType
  <1>6. /\ work'[c] = work[c] \o p /\ work[c] \in Seq(EnvelopeIds)
        /\ \A d \in Callers \ {c} : work'[d] = work[d]
    BY <1>0, <1>1, <1>3, <1>4, <1>5
  <1>7. PICK w \in Seq(EnvelopeIds) : w = work[c]
    BY <1>6
  <1>8. Range(work'[c]) = Range(work[c]) \cup Range(p)
    BY <1>6, <1>7, RangeConcat
  <1>9. InHand \subseteq InHand' \cup handled'
    <2>1. \A d \in Callers : Range(work[d]) \subseteq Range(work'[d]) \cup handled'
      BY <1>6, <1>8
    <2> QED BY <1>1, <2>1, StillInHand
  <1>10. Range(p) \subseteq InHand'
    BY <1>8 DEF InHand
  <1>11. \A m \in Managers :
             \/ checkpoint'[m].pos = checkpoint[m].pos
             \/ /\ checkpoint'[m].pos = checkpoint[m].pos + 1
                /\ checkpoint[m].pos < Len(log)
                /\ m = r /\ checkpoint[m].pos = n
                /\ Answers(m, checkpoint[m].pos) = Produced(r, n)
    <2>1. /\ checkpoint'[r] = AfterEvent(checkpoint[r], n)
          /\ \A q \in Runner \ {r} : checkpoint'[q] = checkpoint[q]
      BY <1>0, <1>1, <1>3, <1>4
    <2>2. n < Len(log) /\ n <= checkpoint[r].pos
      BY <1>1, <1>2, <1>3, <1>4
    <2> QED BY <1>0, <2>1, <2>2, HandedOver
  <1>12. \A m \in Managers :
             \/ checkpoint'[m].pos = checkpoint[m].pos
             \/ /\ checkpoint'[m].pos = checkpoint[m].pos + 1
                /\ checkpoint[m].pos < Len(log)
                /\ Range(Answers(m, checkpoint[m].pos)) \subseteq InHand' \cup handled'
    BY <1>5, <1>10, <1>11
  <1> QED BY <1>1, <1>9, <1>12, NothingDropped

\* So has the loop.
LEMMA FanLoss ==
    ASSUME LiveInv, PassInv', Forward, FutFan
    PROVE  LostCommands' \subseteq LostCommands
  <1>0. /\ PassInv /\ log \in Seq(Events) /\ checkpoint \in [Runner -> Checkpoints]
        /\ fut \in Futures /\ fut.out \in Seq(EnvelopeIds) /\ fut.sub \in Nat
    BY LiveFacts, FutureRecord DEF PassTypes
  <1>1. /\ fut.pc = "event" /\ handled' = handled /\ work' = work
        /\ checkpoint' = [checkpoint EXCEPT ![FutTarget] = AfterEvent(@, fut.sub)]
        /\ fut'.out = fut.out \o Produced(FutTarget, fut.sub)
    BY <1>0 DEF FutFan, Futures, callerVars
  <1>2. fut.sub < Len(log) /\ \A r \in Runner : fut.sub <= checkpoint[r].pos
    BY <1>1, LiveFacts DEF LiveTypes, StreamFollows
  <1>3. PICK r \in Runner : r = FutTarget
    BY FanInv
  <1>4. PICK n \in Nat : n = fut.sub
    BY <1>0
  <1>5. PICK p \in Seq(EnvelopeIds) : p = Produced(r, n)
    BY <1>0, <1>2, <1>4, ProducedType
  <1>6. PICK w \in Seq(EnvelopeIds) : w = fut.out
    BY <1>0
  <1>7. fut'.out = w \o p
    BY <1>1, <1>3, <1>4, <1>5, <1>6
  <1>8. Range(fut'.out) = Range(fut.out) \cup Range(p)
    BY <1>6, <1>7, RangeConcat
  <1>9. InHand \subseteq InHand' \cup handled'
    BY <1>1, <1>8, StillInHand
  <1>10. Range(p) \subseteq InHand'
    BY <1>8 DEF InHand
  <1>11. \A m \in Managers :
             \/ checkpoint'[m].pos = checkpoint[m].pos
             \/ /\ checkpoint'[m].pos = checkpoint[m].pos + 1
                /\ checkpoint[m].pos < Len(log)
                /\ m = r /\ checkpoint[m].pos = n
                /\ Answers(m, checkpoint[m].pos) = Produced(r, n)
    <2>1. /\ checkpoint'[r] = AfterEvent(checkpoint[r], n)
          /\ \A q \in Runner \ {r} : checkpoint'[q] = checkpoint[q]
      BY <1>0, <1>1, <1>3, <1>4
    <2>2. n < Len(log) /\ n <= checkpoint[r].pos
      BY <1>1, <1>2, <1>3, <1>4
    <2> QED BY <1>0, <2>1, <2>2, HandedOver
  <1>12. \A m \in Managers :
             \/ checkpoint'[m].pos = checkpoint[m].pos
             \/ /\ checkpoint'[m].pos = checkpoint[m].pos + 1
                /\ checkpoint[m].pos < Len(log)
                /\ Range(Answers(m, checkpoint[m].pos)) \subseteq InHand' \cup handled'
    BY <1>5, <1>10, <1>11
  <1> QED BY <1>1, <1>9, <1>12, NothingDropped

\* A command leaves the hand when it has been carried out or dead-lettered.
LEMMA DispatchLoss ==
    ASSUME LiveInv, PassInv', Forward, Calm,
           FutDispatch \/ \E c \in Callers : Dispatch(c) /\ UNCHANGED liveVars
    PROVE  LostCommands' \subseteq LostCommands
  <1>0. work \in [Callers -> Seq(EnvelopeIds)] /\ fut \in Futures /\ fut.out \in Seq(EnvelopeIds)
    BY LiveFacts, FutureRecord DEF PassTypes
  <1>1. CASE FutDispatch
    <2>1. /\ fut.out # <<>> /\ handled' = handled \cup {Head(fut.out)}
          /\ UNCHANGED <<checkpoint, work>> /\ fut'.out = Tail(fut.out)
      BY <1>0, <1>1 DEF FutDispatch, Calm, Futures, callerVars
    <2>2. PICK w \in Seq(EnvelopeIds) : w = fut.out
      BY <1>0
    <2>3. Range(fut.out) = {Head(fut.out)} \cup Range(fut'.out)
      BY <2>1, <2>2, RangeTail
    <2>4. InHand \subseteq InHand' \cup handled'
      BY <2>1, <2>3, StillInHand
    <2> QED BY <2>1, <2>4, NothingDropped
  <1>2. ASSUME NEW c \in Callers, Dispatch(c), UNCHANGED liveVars
        PROVE  LostCommands' \subseteq LostCommands
    <2>1. /\ work[c] # <<>> /\ handled' = handled \cup {Head(work[c])} /\ fut' = fut
          /\ checkpoint' = checkpoint /\ work' = [work EXCEPT ![c] = Tail(@)]
      BY <1>2 DEF Dispatch, Calm, liveVars
    <2>2. PICK w \in Seq(EnvelopeIds) : w = work[c]
      BY <1>0
    <2>3. work'[c] = Tail(w) /\ \A d \in Callers \ {c} : work'[d] = work[d]
      BY <1>0, <2>1, <2>2
    <2>4. Range(work[c]) = {Head(work[c])} \cup Range(work'[c])
      BY <2>1, <2>2, <2>3, RangeTail
    <2>5. \A d \in Callers : Range(work[d]) \subseteq Range(work'[d]) \cup handled'
      BY <2>1, <2>3, <2>4
    <2>6. InHand \subseteq InHand' \cup handled'
      BY <2>1, <2>5, StillInHand
    <2> QED BY <2>1, <2>6, NothingDropped
  <1> QED BY <1>1, <1>2

\* Only a crash adds to what is lost.
LEMMA LossStep ==
    ASSUME Places, LiveInv, Calm, [LiveNext]_vars
    PROVE  CrashLive \/ LostCommands' \subseteq LostCommands
  <1>0. PassInv /\ PassInv' /\ (Forward \/ CrashLive)
    BY RunnersStep, LiveFacts
  <1> SUFFICES ASSUME ~CrashLive PROVE LostCommands' \subseteq LostCommands
    OBVIOUS
  <1>1. Forward
    BY <1>0
  <1>2. ASSUME UNCHANGED <<checkpoint, handled, work>>, fut'.out = fut.out
        PROVE  LostCommands' \subseteq LostCommands
    BY <1>0, <1>1, <1>2, QuietLoss
  <1>3. CASE (\E e \in Events : Write(e)) /\ UNCHANGED liveVars
    BY <1>2, <1>3 DEF Write, liveVars, callerVars
  <1>4. ASSUME NEW c \in Callers, UNCHANGED liveVars,
               \/ CallProjection(c) \/ CallRunProcessManagers(c) \/ Acquire(c) \/ Await(c)
               \/ Subscribe(c) \/ ManagerDone(c) \/ LockForSave(c)
        PROVE  LostCommands' \subseteq LostCommands
    <2>1. UNCHANGED <<checkpoint, handled, work>>
      BY <1>4 DEF CallProjection, CallRunProcessManagers, Begin, Acquire, Await, Subscribe,
         ManagerDone, LockForSave, callerVars
    <2> QED BY <1>2, <1>4, <2>1 DEF liveVars
  <1>5. ASSUME NEW c \in Callers, CallLiveProjection(c) \/ LockForPeek(c)
        PROVE  LostCommands' \subseteq LostCommands
    <2>1. UNCHANGED <<checkpoint, handled, work, fut>>
      BY <1>5 DEF CallLiveProjection, LockForPeek, Begin, liveVars
    <2> QED BY <1>2, <2>1
  <1>6. ASSUME NEW c \in Callers, UNCHANGED liveVars,
               ProjectionDone(c) \/ AllDispatched(c) \/ SaveManager(c) \/ Peek(c)
        PROVE  LostCommands' \subseteq LostCommands
    BY <1>2, <1>6, ReturnLoss DEF liveVars
  <1>7. ASSUME NEW c \in Callers, UNCHANGED liveVars, ReadEvent(c) \/ Dispatch(c)
        PROVE  LostCommands' \subseteq LostCommands
    BY <1>0, <1>1, <1>7, ReadLoss, DispatchLoss
  <1>8. ASSUME NEW c \in Callers, StreamError(c) \/ Abandon(c)
        PROVE  FALSE
    BY <1>8 DEF StreamError, Abandon, Calm
  <1>9. CASE FutFan \/ FutDispatch
    BY <1>0, <1>1, <1>9, FanLoss, DispatchLoss
  <1>10. CASE FutRecv \/ FutAnnounce \/ FutCaughtUp
    <2>1. fut'.out = fut.out /\ UNCHANGED <<checkpoint, handled, work>>
      BY <1>10, LiveFacts DEF FutRecv, FutAnnounce, FutCaughtUp, Futures, runnerVars
    <2> QED BY <1>2, <2>1
  <1>11. CASE FutEnds \/ LoopSubscribe
    <2>1. /\ UNCHANGED <<checkpoint, handled, work>> /\ fut'.out = <<>>
          /\ (fut.pc = "next" \/ loop.pc = "min")
      <3>1. CASE FutEnds
        BY <3>1 DEF FutEnds, NoFuture, runnerVars
      <3>2. CASE LoopSubscribe
        <4>1. UNCHANGED <<checkpoint, handled, work>> /\ loop.pc = "min"
          BY <3>2 DEF LoopSubscribe, runnerVars
        <4>2. fut'.out = <<>>
          BY <3>2 DEF LoopSubscribe, NoFuture
        <4> QED BY <4>1, <4>2
      <3> QED BY <1>11, <3>1, <3>2
    <2>2. fut.out = <<>>
      BY <2>1, LiveFacts DEF Phases
    <2> QED BY <1>2, <2>1, <2>2
  <1>12. CASE SaveDone
    <2>1. UNCHANGED <<checkpoint, handled, work, fut>>
      BY <1>12 DEF SaveDone, Places, NotStopping, callerVars
    <2> QED BY <1>2, <2>1
  <1>13. CASE \/ StartLive \/ Shutdown \/ Watch \/ LoopCheck \/ MinStep \/ LoopWait \/ BackoffEnds
              \/ BackoffShutdown \/ SaveStep \/ SubscribeFails \/ Tick \/ ShutdownSeen \/ FutWait
              \/ UNCHANGED vars
    <2>1. UNCHANGED <<checkpoint, handled, work, fut>>
      BY <1>13 DEF StartLive, Shutdown, Watch, LoopCheck, MinStep, LoopWait, BackoffEnds,
         BackoffShutdown, SaveStep, SubscribeFails, Tick, ShutdownSeen, FutWait, vars, liveVars,
         runnerVars, callerVars
    <2> QED BY <1>2, <2>1
  <1>14. ASSUME NEW c \in Callers, Peek(c)
         PROVE  UNCHANGED liveVars
    BY <1>14 DEF Peek
  <1> QED
    BY <1>3, <1>4, <1>5, <1>6, <1>7, <1>8, <1>9, <1>10, <1>11, <1>12, <1>13, <1>14
       DEF LiveNext, PullNext, CallerStep, PassStep, LoopStep, FutureStep

\* While the process lives, no call is abandoned, no stream breaks, dead letters can
\* be written and live mode is not shut down, no command is lost, whichever of the
\* loop and run_process_managers() takes the event (process_manager.rs:40-42,
\* live.rs:387-468, store.rs:337-377).
THEOREM OnlyCrashesLoseCommands ==
    ASSUME Calm
    PROVE  LiveSpec => OnlyCrashesLose
  <1>1. LiveInit => LiveInv /\ Places
    <2> SUFFICES ASSUME LiveInit PROVE Places
      BY LiveInitInv
    <2>1. NotStopping
      BY DEF LiveInit, NewHandle, NoLoop, NotStopping
    <2>2. HandsInv
      BY InitHands DEF LiveInit
    <2> QED BY <2>1, <2>2 DEF Places
  <1>2. LiveInv /\ Places /\ [LiveNext]_vars => LiveInv' /\ Places'
    BY LiveNextInv, PlacesStep
  <1>3. LiveInv /\ Places /\ [LiveNext]_vars => [CrashLive \/ LostCommands' \subseteq LostCommands]_vars
    BY LossStep
  <1> QED BY <1>1, <1>2, <1>3, PTL DEF LiveSpec, OnlyCrashesLose

=============================================================================
