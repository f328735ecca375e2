--------------------------- MODULE Runners_proofs ---------------------------
(***************************************************************************)
(* The read side in pull mode, for any number of runners, callers and      *)
(* events and every combination of faults: no event is applied twice or    *)
(* skipped, in memory or on disk; the positions move as the abstract       *)
(* specification Cursors lets them; and whoever works on a runner owns its *)
(* mutex.                                                                  *)
(*                                                                         *)
(* Exactness does not use the mutexes: what keeps a runner exact is that   *)
(* an event below its position is skipped and that no pass is ahead of the *)
(* runner it feeds.  Of the mutexes the inductive part is where a caller   *)
(* may be queued: only at the runner it is working on or waiting for       *)
(* (CallerPlace).  Last come the facts about commands in hand that module  *)
(* Lossless_proofs and module Delivery_proofs share.                       *)
(***************************************************************************)
EXTENDS Runners, TLAPS

\* The part of the type invariant the argument rests on.
PassTypes ==
    /\ log \in Seq(Events)
    /\ checkpoint \in [Runner -> Checkpoints]
    /\ file \in [Runner -> Checkpoints]
    /\ cpc \in [Callers -> CallerPcs]
    /\ at \in [Callers -> 1 .. Len(Order) + 1]
    /\ next \in [Callers -> Nat]
    /\ work \in [Callers -> Seq(EnvelopeIds)]

PassInv == PassTypes /\ CallersFollow /\ CheckpointsAreCursors

-----------------------------------------------------------------------------
(* Facts about the operators                                                *)

\* Managers come after the projections, or there are none.
LEMMA FirstManagerType == FirstManager \in 1 .. Len(Order) + 1
  BY RunnersAssumption DEF FirstManager

\* Order names runners.
LEMMA OrderType == Len(Order) \in Nat /\ \A i \in 1 .. Len(Order) : Order[i] \in Runner
  BY RunnersAssumption

\* Appending adds one element to what a sequence holds.
LEMMA RangeAppend ==
    ASSUME NEW S, NEW s \in Seq(S), NEW x \in S
    PROVE  Range(Append(s, x)) = Range(s) \cup {x}
  <1>1. /\ Len(Append(s, x)) = Len(s) + 1
        /\ \A i \in 1 .. Len(s) : Append(s, x)[i] = s[i]
        /\ Append(s, x)[Len(s) + 1] = x
        /\ DOMAIN Append(s, x) = 1 .. Len(s) + 1
        /\ DOMAIN s = 1 .. Len(s)
        /\ Len(s) \in Nat
    OBVIOUS
  <1>2. \A y \in Range(Append(s, x)) : y \in Range(s) \cup {x}
    BY <1>1 DEF Range
  <1>3. x \in Range(Append(s, x))
    BY <1>1 DEF Range
  <1>4. \A y \in Range(s) : y \in Range(Append(s, x))
    BY <1>1 DEF Range
  <1>5. QED
    BY <1>2, <1>3, <1>4

\* An event at or below the position of a cursor leaves a cursor, that has not
\* gone back and has moved by no more than this event.
LEMMA AfterEventIsCursor ==
    ASSUME NEW cp \in Checkpoints, IsCursor(cp), log \in Seq(Events),
           NEW n \in Nat, n <= cp.pos, n < Len(log)
    PROVE  /\ AfterEvent(cp, n) \in Checkpoints
           /\ IsCursor(AfterEvent(cp, n))
           /\ AfterEvent(cp, n).pos = IF n = cp.pos THEN n + 1 ELSE cp.pos
  <1>1. CASE n < cp.pos
    BY <1>1 DEF AfterEvent, Checkpoints
  <1>2. CASE n = cp.pos /\ log[n + 1] \in Decodable
    <2>1. AfterEvent(cp, n) = [pos |-> n + 1, seen |-> Append(cp.seen, n)]
      BY <1>2 DEF AfterEvent, Checkpoints
    <2>2. /\ cp.seen \in Seq(Nat) /\ cp.pos \in Nat
          /\ Range(cp.seen) = {k \in 0 .. n - 1 : log[k + 1] \in Decodable}
          /\ \A i, j \in 1 .. Len(cp.seen) : i < j => cp.seen[i] < cp.seen[j]
      BY <1>2 DEF Checkpoints, IsCursor
    <2>3. Range(Append(cp.seen, n)) = {k \in 0 .. n : log[k + 1] \in Decodable}
      <3>1. Range(Append(cp.seen, n)) = Range(cp.seen) \cup {n}
        BY <2>2, RangeAppend
      <3>2. 0 .. n = (0 .. n - 1) \cup {n}
        OBVIOUS
      <3>3. QED
        BY <1>2, <2>2, <3>1, <3>2
    <2>4. ASSUME NEW i \in 1 .. Len(cp.seen)
          PROVE  cp.seen[i] \in Nat /\ cp.seen[i] < n
      <3>1. cp.seen[i] \in Range(cp.seen)
        BY <2>2 DEF Range
      <3>2. cp.seen[i] \in 0 .. n - 1
        BY <2>2, <3>1
      <3>3. QED
        BY <3>2
    <2>5. ASSUME NEW i \in 1 .. Len(Append(cp.seen, n)), NEW j \in 1 .. Len(Append(cp.seen, n)), i < j
          PROVE  Append(cp.seen, n)[i] < Append(cp.seen, n)[j]
      <3>1. Len(Append(cp.seen, n)) = Len(cp.seen) + 1 /\ Len(cp.seen) \in Nat
        BY <2>2
      <3>2. i \in 1 .. Len(cp.seen) /\ Append(cp.seen, n)[i] = cp.seen[i]
        BY <2>2, <2>5, <3>1
      <3>3. CASE j = Len(cp.seen) + 1
        <4>1. Append(cp.seen, n)[j] = n
          BY <2>2, <3>3
        <4>2. QED
          BY <2>4, <3>2, <4>1
      <3>4. CASE j \in 1 .. Len(cp.seen)
        <4>1. Append(cp.seen, n)[j] = cp.seen[j]
          BY <2>2, <3>4
        <4>2. QED
          BY <2>2, <2>5, <3>2, <3>4, <4>1
      <3>5. QED
        BY <3>1, <3>3, <3>4
    <2>6. QED
      BY <1>2, <2>1, <2>2, <2>3, <2>5 DEF Checkpoints, IsCursor
  <1>3. CASE n = cp.pos /\ log[n + 1] \notin Decodable
    <2>1. AfterEvent(cp, n) = [pos |-> n + 1, seen |-> cp.seen]
      BY <1>3 DEF AfterEvent, Checkpoints
    <2>2. QED
      BY <1>3, <2>1 DEF Checkpoints, IsCursor
  <1>4. QED
    BY <1>1, <1>2, <1>3 DEF Checkpoints

\* A longer log leaves a cursor a cursor.
LEMMA GrownLogKeepsCursor ==
    ASSUME NEW cp \in Checkpoints, IsCursor(cp), log \in Seq(Events),
           NEW e \in Events, log' = Append(log, e)
    PROVE  IsCursor(cp)'
  BY DEF IsCursor, Checkpoints

\* The default is a cursor at the start of the log.
LEMMA FreshIsCursor ==
    ASSUME log \in Seq(Events)
    PROVE  Fresh \in Checkpoints /\ IsCursor(Fresh)
  BY DEF Fresh, Checkpoints, IsCursor, Range

\* What a runner produces for the event at position n.
LEMMA ProducedType ==
    ASSUME log \in Seq(Events), NEW r \in Runner, NEW n \in Nat, n < Len(log),
           checkpoint \in [Runner -> Checkpoints]
    PROVE  /\ Produced(r, n) \in Seq(EnvelopeIds)
           /\ \A i \in 1 .. Len(Produced(r, n)) :
                  /\ Produced(r, n)[i].pos = n
                  /\ Produced(r, n)[i].pm = r
                  /\ checkpoint[r].pos <= n
  <1>1. CASE n < checkpoint[r].pos \/ ~(r \in Managers /\ log[n + 1] \in Decodable)
    BY <1>1 DEF Produced, Answers
  <1>2. CASE ~(n < checkpoint[r].pos) /\ r \in Managers /\ log[n + 1] \in Decodable
    <2>1. log[n + 1] \in Events /\ Envelopes(r, log[n + 1]) \in Nat
      BY <1>2, RunnersAssumption
    <2>2. Produced(r, n) = [i \in 1 .. Envelopes(r, log[n + 1]) |-> [pm |-> r, pos |-> n, nr |-> i]]
      BY <1>2 DEF Produced, Answers
    <2>3. checkpoint[r].pos <= n
      BY <1>2 DEF Checkpoints
    <2>4. ASSUME NEW i \in 1 .. Envelopes(r, log[n + 1])
          PROVE  /\ Produced(r, n)[i] = [pm |-> r, pos |-> n, nr |-> i]
                 /\ Produced(r, n)[i] \in EnvelopeIds
      BY <1>2, <2>1, <2>2 DEF EnvelopeIds
    <2>5. Produced(r, n) \in Seq(EnvelopeIds) /\ Len(Produced(r, n)) = Envelopes(r, log[n + 1])
      BY <2>1, <2>2, <2>4
    <2>6. QED
      BY <2>3, <2>4, <2>5
  <1>3. QED
    BY <1>1, <1>2

-----------------------------------------------------------------------------
(* What most steps have in common                                           *)

\* A step of caller c leaves the invariant alone when it leaves the log and the
\* runners alone, keeps c at a runner, does not read ahead and brings no command.
LEMMA CallerMoves ==
    ASSUME PassInv, NEW c \in Callers,
           UNCHANGED <<log, checkpoint>>,
           file' \in [Runner -> Checkpoints],
           \A r \in Runner : IsCursor(file'[r]),
           cpc' \in [Callers -> CallerPcs],
           at' \in [Callers -> 1 .. Len(Order) + 1],
           next' \in [Callers -> Nat],
           work' \in [Callers -> Seq(EnvelopeIds)],
           \A d \in Callers \ {c} : /\ cpc'[d] = cpc[d] /\ at'[d] = at[d]
                                    /\ next'[d] = next[d] /\ work'[d] = work[d],
           cpc'[c] \notin {"idle", "dispatch"} => at'[c] <= Len(Order),
           cpc'[c] = "read" => next'[c] <= checkpoint[Order[at'[c]]].pos,
           \A i \in 1 .. Len(work'[c]) : work'[c][i].pos < checkpoint[work'[c][i].pm].pos
    PROVE  PassInv'
  <1>1. PassTypes'
    BY DEF PassInv, PassTypes
  <1>2. CallersFollow'
    <2>1. SUFFICES ASSUME NEW d \in Callers
                   PROVE  /\ cpc'[d] \notin {"idle", "dispatch"} => at'[d] <= Len(Order)
                          /\ cpc'[d] = "read" => next'[d] <= checkpoint[Order[at'[d]]].pos
                          /\ \A i \in 1 .. Len(work'[d]) :
                                 work'[d][i].pos < checkpoint[work'[d][i].pm].pos
      BY DEF CallersFollow, Target
    <2>2. CASE d = c
      BY <2>2
    <2>3. CASE d # c
      <3>1. /\ cpc[d] \notin {"idle", "dispatch"} => at[d] <= Len(Order)
            /\ cpc[d] = "read" => next[d] <= checkpoint[Order[at[d]]].pos
            /\ \A i \in 1 .. Len(work[d]) : work[d][i].pos < checkpoint[work[d][i].pm].pos
        BY DEF PassInv, CallersFollow, Target
      <3>2. QED
        BY <2>3, <3>1
    <2>4. QED
      BY <2>2, <2>3
  <1>3. CheckpointsAreCursors'
    BY DEF PassInv, CheckpointsAreCursors, IsCursor
  <1>4. QED
    BY <1>1, <1>2, <1>3 DEF PassInv

\* Saving a runner writes a cursor.
LEMMA SavedFileIsCursor ==
    ASSUME PassInv, NEW r \in Runner,
           file' = [file EXCEPT ![r] = checkpoint[r]]
    PROVE  /\ file' \in [Runner -> Checkpoints]
           /\ \A q \in Runner : IsCursor(file'[q])
  BY DEF PassInv, PassTypes, CheckpointsAreCursors

\* Files that are not written stay what they were.
LEMMA SameFileIsCursor ==
    ASSUME PassInv, file' = file
    PROVE  /\ file' \in [Runner -> Checkpoints]
           /\ \A q \in Runner : IsCursor(file'[q])
  BY DEF PassInv, PassTypes, CheckpointsAreCursors

\* A call that returns has dropped all it had in hand.
LEMMA ReturnKeepsInv ==
    ASSUME PassInv, NEW c \in Callers, NEW tag, NEW pos, Return(c, tag, pos),
           UNCHANGED <<log, checkpoint>>,
           file' \in [Runner -> Checkpoints],
           \A r \in Runner : IsCursor(file'[r])
    PROVE  PassInv'
  <1>1. /\ cpc' = [cpc EXCEPT ![c] = "idle"]
        /\ at' = [at EXCEPT ![c] = 1]
        /\ next' = [next EXCEPT ![c] = 0]
        /\ work' = [work EXCEPT ![c] = <<>>]
    BY DEF Return
  <1>2. /\ cpc' \in [Callers -> CallerPcs] /\ cpc'[c] = "idle"
        /\ at' \in [Callers -> 1 .. Len(Order) + 1]
        /\ next' \in [Callers -> Nat]
        /\ \A d \in Callers \ {c} : /\ cpc'[d] = cpc[d] /\ at'[d] = at[d]
                                    /\ next'[d] = next[d]
    BY <1>1, OrderType DEF PassInv, PassTypes, CallerPcs
  <1>3. /\ work' \in [Callers -> Seq(EnvelopeIds)] /\ work'[c] = <<>>
        /\ \A d \in Callers \ {c} : work'[d] = work[d]
    BY <1>1 DEF PassInv, PassTypes
  <1>4. \A i \in 1 .. Len(work'[c]) : work'[c][i].pos < checkpoint[work'[c][i].pm].pos
    BY <1>3
  <1>5. QED
    BY <1>2, <1>3, <1>4, CallerMoves

\* What holds of one caller's commands and place before a step.
LEMMA CallerFacts ==
    ASSUME PassInv, NEW c \in Callers
    PROVE  /\ cpc[c] \in CallerPcs /\ at[c] \in 1 .. Len(Order) + 1 /\ next[c] \in Nat
           /\ work[c] \in Seq(EnvelopeIds)
           /\ cpc[c] \notin {"idle", "dispatch"} =>
                  at[c] \in 1 .. Len(Order) /\ Target(c) \in Runner
           /\ cpc[c] = "read" => next[c] <= checkpoint[Target(c)].pos
           /\ \A i \in 1 .. Len(work[c]) : work[c][i].pos < checkpoint[work[c][i].pm].pos
  <1>1. /\ cpc[c] \in CallerPcs /\ at[c] \in 1 .. Len(Order) + 1 /\ next[c] \in Nat
        /\ work[c] \in Seq(EnvelopeIds)
    BY DEF PassInv, PassTypes
  <1>2. /\ cpc[c] \notin {"idle", "dispatch"} => at[c] <= Len(Order)
        /\ cpc[c] = "read" => next[c] <= checkpoint[Target(c)].pos
        /\ \A i \in 1 .. Len(work[c]) : work[c][i].pos < checkpoint[work[c][i].pm].pos
    BY DEF PassInv, CallersFollow
  <1>3. ASSUME cpc[c] \notin {"idle", "dispatch"}
        PROVE  at[c] \in 1 .. Len(Order) /\ Target(c) \in Runner
    BY <1>1, <1>2, <1>3, OrderType DEF Target
  <1>4. QED
    BY <1>1, <1>2, <1>3

-----------------------------------------------------------------------------
(* The actions                                                              *)

\* An event is appended.
LEMMA WriteInv ==
    ASSUME PassInv, NEW e \in Events, Write(e)
    PROVE  PassInv'
  <1>1. /\ log' = Append(log, e) /\ log' \in Seq(Events)
        /\ UNCHANGED <<checkpoint, file, cpc, at, next, work>>
    BY DEF Write, callerVars, PassInv, PassTypes
  <1>2. CheckpointsAreCursors'
    <2>1. SUFFICES ASSUME NEW r \in Runner
                   PROVE  IsCursor(checkpoint[r])' /\ IsCursor(file[r])'
      BY DEF CheckpointsAreCursors
    <2>2. /\ checkpoint[r] \in Checkpoints /\ file[r] \in Checkpoints
          /\ IsCursor(checkpoint[r]) /\ IsCursor(file[r])
      BY DEF PassInv, PassTypes, CheckpointsAreCursors
    <2>3. \A cp \in Checkpoints : IsCursor(cp) => IsCursor(cp)'
      BY <1>1, GrownLogKeepsCursor DEF PassInv, PassTypes
    <2>4. QED
      BY <1>1, <2>2, <2>3 DEF IsCursor
  <1>3. QED
    BY <1>1, <1>2 DEF PassInv, PassTypes, CallersFollow, Target

\* A call begins, at a projection or at the first manager.
LEMMA BeginInv ==
    ASSUME PassInv, NEW c \in Callers, NEW o, NEW i \in 1 .. Len(Order) + 1,
           NEW pc \in {"lock", "peek", "dispatch"}, pc # "dispatch" => i <= Len(Order),
           Begin(c, o, i, pc)
    PROVE  PassInv'
  <1>1. /\ cpc' = [cpc EXCEPT ![c] = pc] /\ at' = [at EXCEPT ![c] = i]
        /\ UNCHANGED <<log, checkpoint, file, next, work>>
    BY DEF Begin
  <1>2. /\ cpc' \in [Callers -> CallerPcs] /\ cpc'[c] = pc
        /\ at' \in [Callers -> 1 .. Len(Order) + 1] /\ at'[c] = i
        /\ \A d \in Callers \ {c} : cpc'[d] = cpc[d] /\ at'[d] = at[d]
    BY <1>1 DEF PassInv, PassTypes, CallerPcs
  <1>3. next' \in [Callers -> Nat] /\ work' \in [Callers -> Seq(EnvelopeIds)]
    BY <1>1 DEF PassInv, PassTypes
  <1>4. QED
    BY <1>1, <1>2, <1>3, CallerFacts, SameFileIsCursor, CallerMoves

\* projection() and run_process_managers() begin.
LEMMA CallInv ==
    ASSUME PassInv, NEW c \in Callers, CallProjection(c) \/ CallRunProcessManagers(c)
    PROVE  PassInv'
  <1>1. CASE CallProjection(c)
    <2>1. PICK i \in 1 .. Len(Order) : Begin(c, "projection", i, "lock")
      BY <1>1 DEF CallProjection
    <2>2. i \in 1 .. Len(Order) + 1 /\ i <= Len(Order)
      BY OrderType
    <2>3. QED
      BY <2>1, <2>2, BeginInv
  <1>2. CASE CallRunProcessManagers(c)
    <2>1. CASE FirstManager > Len(Order)
      <3>1. Begin(c, "run_process_managers", FirstManager, "dispatch")
        BY <1>2, <2>1 DEF CallRunProcessManagers
      <3>2. QED
        BY <3>1, FirstManagerType, BeginInv
    <2>2. CASE ~(FirstManager > Len(Order))
      <3>1. Begin(c, "run_process_managers", FirstManager, "lock")
        BY <1>2, <2>2 DEF CallRunProcessManagers
      <3>2. FirstManager <= Len(Order)
        BY <2>2, FirstManagerType, OrderType
      <3>3. QED
        BY <3>1, <3>2, FirstManagerType, BeginInv
    <2>3. QED
      BY <2>1, <2>2
  <1>3. QED
    BY <1>1, <1>2


\* Taking a runner's lock, in the catch-up or for the save, and waiting for it.
LEMMA LockInv ==
    ASSUME PassInv, NEW c \in Callers, Acquire(c) \/ LockForSave(c)
    PROVE  PassInv'
  <1>1. PICK p \in {"subscribe", "saving"} :
            /\ cpc[c] \notin {"idle", "dispatch"}
            /\ cpc' = [cpc EXCEPT ![c] = p]
            /\ UNCHANGED <<log, checkpoint, file, at, next, work>>
    BY DEF Acquire, LockForSave
  <1>2. /\ cpc' \in [Callers -> CallerPcs] /\ cpc'[c] = p
        /\ \A d \in Callers \ {c} : cpc'[d] = cpc[d]
    BY <1>1 DEF PassInv, PassTypes, CallerPcs
  <1>3. /\ at' \in [Callers -> 1 .. Len(Order) + 1] /\ next' \in [Callers -> Nat]
        /\ work' \in [Callers -> Seq(EnvelopeIds)]
    BY <1>1 DEF PassInv, PassTypes
  <1>4. at'[c] <= Len(Order)
    BY <1>1, CallerFacts, OrderType
  <1>5. QED
    BY <1>1, <1>2, <1>3, <1>4, CallerFacts, SameFileIsCursor, CallerMoves

\* A subscription starts at the runner's position.
LEMMA SubscribeInv ==
    ASSUME PassInv, NEW c \in Callers, Subscribe(c)
    PROVE  PassInv'
  <1>1. /\ cpc[c] = "subscribe" /\ cpc' = [cpc EXCEPT ![c] = "read"]
        /\ next' = [next EXCEPT ![c] = checkpoint[Target(c)].pos]
        /\ UNCHANGED <<log, checkpoint, file, at, work>>
    BY DEF Subscribe
  <1>2. at[c] \in 1 .. Len(Order) /\ Target(c) \in Runner
    BY <1>1, CallerFacts
  <1>3. checkpoint[Target(c)].pos \in Nat
    BY <1>2 DEF PassInv, PassTypes, Checkpoints
  <1>4. /\ cpc' \in [Callers -> CallerPcs] /\ cpc'[c] = "read"
        /\ next' \in [Callers -> Nat] /\ next'[c] = checkpoint[Target(c)].pos
        /\ \A d \in Callers \ {c} : cpc'[d] = cpc[d] /\ next'[d] = next[d]
    BY <1>1, <1>3 DEF PassInv, PassTypes, CallerPcs
  <1>5. /\ at' \in [Callers -> 1 .. Len(Order) + 1]
        /\ work' \in [Callers -> Seq(EnvelopeIds)]
    BY <1>1 DEF PassInv, PassTypes
  <1>6. at'[c] <= Len(Order) /\ next'[c] <= checkpoint[Order[at'[c]]].pos
    BY <1>1, <1>2, <1>3, <1>4, OrderType DEF Target
  <1>7. QED
    BY <1>1, <1>4, <1>5, <1>6, CallerFacts, SameFileIsCursor, CallerMoves

\* One event is applied: the runner moves past it or was already past it, every
\* other pass over the runner stays behind it, and the commands the event adds
\* are of the position just passed.
LEMMA ReadEventInv ==
    ASSUME PassInv, NEW c \in Callers, ReadEvent(c)
    PROVE  /\ PassInv'
           /\ Target(c) \in Runner
           /\ \A r \in Runner \ {Target(c)} : checkpoint'[r] = checkpoint[r]
           /\ \/ checkpoint'[Target(c)].pos = checkpoint[Target(c)].pos
              \/ /\ checkpoint[Target(c)].pos < Len(log)
                 /\ checkpoint'[Target(c)].pos = checkpoint[Target(c)].pos + 1
  <1> DEFINE t == Target(c)
             n == next[c]
             cp == checkpoint[t]
  <1>1. /\ cpc[c] = "read" /\ n < Len(log)
        /\ checkpoint' = [checkpoint EXCEPT ![t] = AfterEvent(@, n)]
        /\ work' = [work EXCEPT ![c] = @ \o Produced(t, n)]
        /\ next' = [next EXCEPT ![c] = @ + 1]
        /\ UNCHANGED <<log, file, cpc, at>>
    BY DEF ReadEvent
  <1>2. at[c] \in 1 .. Len(Order) /\ t \in Runner /\ n \in Nat /\ n <= cp.pos
    BY <1>1, CallerFacts
  <1>3. cp \in Checkpoints /\ IsCursor(cp) /\ log \in Seq(Events) /\ cp.pos \in Nat
    BY <1>2 DEF PassInv, PassTypes, CheckpointsAreCursors, Checkpoints
  <1> HIDE DEF n, cp
  <1>4. /\ AfterEvent(cp, n) \in Checkpoints
        /\ IsCursor(AfterEvent(cp, n))
        /\ AfterEvent(cp, n).pos = IF n = cp.pos THEN n + 1 ELSE cp.pos
    BY <1>1, <1>2, <1>3, AfterEventIsCursor
  <1>5. /\ checkpoint' \in [Runner -> Checkpoints] /\ checkpoint'[t] = AfterEvent(cp, n)
        /\ \A r \in Runner \ {t} : checkpoint'[r] = checkpoint[r]
    BY <1>1, <1>2, <1>4 DEF PassInv, PassTypes, cp
  <1>6. \A r \in Runner : checkpoint[r].pos \in Nat /\ checkpoint'[r].pos \in Nat
    BY <1>5 DEF PassInv, PassTypes, Checkpoints
  <1>7. \A r \in Runner : checkpoint[r].pos <= checkpoint'[r].pos
    BY <1>2, <1>3, <1>4, <1>5, <1>6 DEF cp
  <1>8. n + 1 <= checkpoint'[t].pos
    BY <1>2, <1>3, <1>4, <1>5
  <1>9. CheckpointsAreCursors'
    <2>1. ASSUME NEW r \in Runner
          PROVE  IsCursor(checkpoint'[r]) /\ IsCursor(file[r])
      BY <1>4, <1>5 DEF PassInv, CheckpointsAreCursors
    <2>2. QED
      BY <1>1, <2>1 DEF CheckpointsAreCursors, IsCursor
  <1>10. /\ Produced(t, n) \in Seq(EnvelopeIds)
         /\ \A i \in 1 .. Len(Produced(t, n)) :
                Produced(t, n)[i].pos = n /\ Produced(t, n)[i].pm = t
    BY <1>1, <1>2, <1>3, ProducedType, SMTT(30) DEF PassInv, PassTypes
  <1>11. /\ work[c] \in Seq(EnvelopeIds)
         /\ \A i \in 1 .. Len(work[c]) : work[c][i].pos < checkpoint[work[c][i].pm].pos
    BY CallerFacts
  <1>12. /\ work' \in [Callers -> Seq(EnvelopeIds)] /\ work'[c] = work[c] \o Produced(t, n)
         /\ next' \in [Callers -> Nat] /\ next'[c] = n + 1
         /\ \A d \in Callers \ {c} : work'[d] = work[d] /\ next'[d] = next[d]
    BY <1>1, <1>2, <1>10, <1>11, SMTT(30) DEF PassInv, PassTypes, n
  <1>13. \A x \in EnvelopeIds : x.pm \in Runner /\ x.pos \in Nat
    BY DEF EnvelopeIds, Runner
  <1>14. ASSUME NEW d \in Callers, NEW i \in 1 .. Len(work[d])
         PROVE  work[d][i].pos < checkpoint'[work[d][i].pm].pos
    <2>1. /\ work[d][i] \in EnvelopeIds
          /\ work[d][i].pos < checkpoint[work[d][i].pm].pos
      BY CallerFacts
    <2>2. work[d][i].pm \in Runner /\ work[d][i].pos \in Nat
      BY <1>13, <2>1
    <2>3. QED
      BY <1>6, <1>7, <2>1, <2>2
  <1>15. ASSUME NEW d \in Callers, NEW i \in 1 .. Len(work'[d])
         PROVE  work'[d][i].pos < checkpoint'[work'[d][i].pm].pos
    <2>1. CASE d # c
      BY <1>12, <1>14, <2>1
    <2>2. CASE d = c /\ i \in 1 .. Len(work[c])
      <3>1. work'[c][i] = work[c][i]
        BY <1>10, <1>11, <1>12, <2>2
      <3>2. QED
        BY <1>14, <2>2, <3>1
    <2>3. CASE d = c /\ i \notin 1 .. Len(work[c])
      <3>1. /\ i - Len(work[c]) \in 1 .. Len(Produced(t, n))
            /\ work'[c][i] = Produced(t, n)[i - Len(work[c])]
        BY <1>10, <1>11, <1>12, <2>3
      <3>2. work'[c][i].pos = n /\ work'[c][i].pm = t
        BY <1>10, <3>1
      <3>3. n < checkpoint'[t].pos
        BY <1>2, <1>6, <1>8
      <3>4. QED
        BY <2>3, <3>2, <3>3
    <2>4. QED
      BY <2>1, <2>2, <2>3
  <1>16. ASSUME NEW d \in Callers, cpc[d] = "read"
         PROVE  next'[d] <= checkpoint'[Order[at[d]]].pos
    <2>1. /\ next[d] \in Nat /\ Order[at[d]] \in Runner
          /\ next[d] <= checkpoint[Order[at[d]]].pos
      BY <1>16, CallerFacts DEF Target
    <2>2. CASE d = c
      BY <1>8, <1>12, <2>2 DEF Target
    <2>3. CASE d # c
      BY <1>6, <1>7, <1>12, <2>1, <2>3
    <2>4. QED
      BY <2>2, <2>3
  <1>17. CallersFollow'
    BY <1>1, <1>15, <1>16 DEF CallersFollow, Target, PassInv
  <1>18. PassTypes'
    BY <1>1, <1>5, <1>12 DEF PassInv, PassTypes
  <1>19. \/ checkpoint'[t].pos = cp.pos
         \/ cp.pos < Len(log) /\ checkpoint'[t].pos = cp.pos + 1
    BY <1>1, <1>2, <1>3, <1>4, <1>5
  <1>20. QED
    BY <1>2, <1>5, <1>9, <1>17, <1>18, <1>19 DEF PassInv, cp

\* A stream that breaks and a call that is abandoned change no runner.
LEMMA GiveUpInv ==
    ASSUME PassInv, NEW c \in Callers, StreamError(c) \/ Abandon(c)
    PROVE  PassInv' /\ UNCHANGED <<log, checkpoint, file, handled>>
  <1>1. /\ Return(c, "error", start[c]) \/ Return(c, "none", start[c])
        /\ UNCHANGED <<log, checkpoint, file, handled>>
    BY DEF StreamError, Abandon, Fail
  <1>2. QED
    BY <1>1, SameFileIsCursor, ReturnKeepsInv

\* projection() saves what it has and returns.
LEMMA ProjectionDoneInv ==
    ASSUME PassInv, NEW c \in Callers, ProjectionDone(c)
    PROVE  /\ PassInv' /\ Target(c) \in Runner
           /\ UNCHANGED <<log, checkpoint, handled>>
           /\ \/ file' = [file EXCEPT ![Target(c)] = checkpoint[Target(c)]]
              \/ UNCHANGED file
  <1>1. /\ cpc[c] = "read"
        /\ UNCHANGED <<log, checkpoint, handled>>
        /\ \/ /\ file' = [file EXCEPT ![Target(c)] = checkpoint[Target(c)]]
              /\ Return(c, "state", checkpoint[Target(c)].pos)
           \/ file' = file /\ Return(c, "error", start[c])
    BY DEF ProjectionDone, StreamDone, Fail
  <1>2. Target(c) \in Runner
    BY <1>1, CallerFacts
  <1>3. /\ file' \in [Runner -> Checkpoints]
        /\ \A q \in Runner : IsCursor(file'[q])
    BY <1>1, <1>2, SavedFileIsCursor, SameFileIsCursor
  <1>4. PassInv'
    BY <1>1, <1>3, ReturnKeepsInv
  <1>5. QED
    BY <1>1, <1>2, <1>4

\* The next manager's turn.
LEMMA ManagerDoneInv ==
    ASSUME PassInv, NEW c \in Callers, ManagerDone(c)
    PROVE  PassInv'
  <1>1. /\ cpc[c] = "read"
        /\ at' = [at EXCEPT ![c] = @ + 1]
        /\ cpc' = [cpc EXCEPT ![c] = IF at[c] < Len(Order) THEN "lock" ELSE "dispatch"]
        /\ UNCHANGED <<log, checkpoint, file, next, work>>
    BY DEF ManagerDone, StreamDone
  <1>2. at[c] \in 1 .. Len(Order)
    BY <1>1, CallerFacts
  <1>3. /\ at' \in [Callers -> 1 .. Len(Order) + 1] /\ at'[c] = at[c] + 1
        /\ \A d \in Callers \ {c} : at'[d] = at[d]
    BY <1>1, <1>2, OrderType DEF PassInv, PassTypes
  <1>4. /\ cpc' \in [Callers -> CallerPcs]
        /\ cpc'[c] = IF at[c] < Len(Order) THEN "lock" ELSE "dispatch"
        /\ \A d \in Callers \ {c} : cpc'[d] = cpc[d]
    BY <1>1 DEF PassInv, PassTypes, CallerPcs
  <1>5. next' \in [Callers -> Nat] /\ work' \in [Callers -> Seq(EnvelopeIds)]
    BY <1>1 DEF PassInv, PassTypes
  <1>6. cpc'[c] \notin {"idle", "dispatch"} => at'[c] <= Len(Order)
    BY <1>2, <1>3, <1>4, OrderType
  <1>7. cpc'[c] # "read"
    BY <1>4
  <1>8. QED
    BY <1>1, <1>3, <1>4, <1>5, <1>6, <1>7, CallerFacts, SameFileIsCursor, CallerMoves

\* One command is carried out, of an event its manager has moved past, or the
\* call fails.
LEMMA DispatchInv ==
    ASSUME PassInv, NEW c \in Callers, Dispatch(c)
    PROVE  /\ PassInv' /\ UNCHANGED <<log, checkpoint, file>>
           /\ \/ UNCHANGED handled
              \/ \E x \in EnvelopeIds : /\ x.pos < checkpoint[x.pm].pos
                                        /\ handled' = handled \cup {x}
  <1>1. /\ cpc[c] = "dispatch" /\ work[c] # <<>>
        /\ UNCHANGED <<log, checkpoint, file>>
    BY DEF Dispatch
  <1>2. CASE Fail(c) /\ UNCHANGED handled
    BY <1>1, <1>2, SameFileIsCursor, ReturnKeepsInv DEF Fail
  <1>3. CASE /\ handled' = handled \cup {Head(work[c])}
             /\ work' = [work EXCEPT ![c] = Tail(@)]
             /\ UNCHANGED <<cpc, at, next>>
    <2>1. /\ work[c] \in Seq(EnvelopeIds)
          /\ \A i \in 1 .. Len(work[c]) : work[c][i].pos < checkpoint[work[c][i].pm].pos
      BY CallerFacts
    <2>2. /\ Head(work[c]) = work[c][1] /\ 1 \in 1 .. Len(work[c])
          /\ work[c][1] \in EnvelopeIds
          /\ Tail(work[c]) \in Seq(EnvelopeIds)
          /\ \A i \in 1 .. Len(Tail(work[c])) :
                 i + 1 \in 1 .. Len(work[c]) /\ Tail(work[c])[i] = work[c][i + 1]
      BY <1>1, <2>1
    <2>3. /\ work' \in [Callers -> Seq(EnvelopeIds)] /\ work'[c] = Tail(work[c])
          /\ \A d \in Callers \ {c} : work'[d] = work[d]
      BY <1>3, <2>2 DEF PassInv, PassTypes
    <2>4. /\ cpc' \in [Callers -> CallerPcs] /\ next' \in [Callers -> Nat]
          /\ at' \in [Callers -> 1 .. Len(Order) + 1] /\ cpc'[c] = "dispatch"
      BY <1>1, <1>3 DEF PassInv, PassTypes
    <2>5. \A i \in 1 .. Len(work'[c]) : work'[c][i].pos < checkpoint[work'[c][i].pm].pos
      BY <2>1, <2>2, <2>3, SMTT(30)
    <2>6. PassInv'
      BY <1>1, <1>3, <2>3, <2>4, <2>5, SameFileIsCursor, CallerMoves
    <2>7. QED
      BY <1>1, <1>3, <2>1, <2>2, <2>6
  <1>4. QED
    BY <1>2, <1>3 DEF Dispatch

\* Everything has been dispatched: the saves begin, or the call returns.
LEMMA AllDispatchedInv ==
    ASSUME PassInv, NEW c \in Callers, AllDispatched(c)
    PROVE  PassInv'
  <1>1. UNCHANGED <<log, checkpoint, file>>
    BY DEF AllDispatched
  <1>2. CASE Return(c, "report", start[c])
    BY <1>1, <1>2, SameFileIsCursor, ReturnKeepsInv
  <1>3. CASE /\ FirstManager <= Len(Order)
             /\ at' = [at EXCEPT ![c] = FirstManager]
             /\ cpc' = [cpc EXCEPT ![c] = "save"]
             /\ UNCHANGED <<next, work>>
    <2>1. /\ at' \in [Callers -> 1 .. Len(Order) + 1] /\ at'[c] = FirstManager
          /\ cpc' \in [Callers -> CallerPcs] /\ cpc'[c] = "save"
          /\ \A d \in Callers \ {c} : at'[d] = at[d] /\ cpc'[d] = cpc[d]
      BY <1>3, FirstManagerType DEF PassInv, PassTypes, CallerPcs
    <2>2. next' \in [Callers -> Nat] /\ work' \in [Callers -> Seq(EnvelopeIds)]
      BY <1>3 DEF PassInv, PassTypes
    <2>3. QED
      BY <1>1, <1>3, <2>1, <2>2, CallerFacts, SameFileIsCursor, CallerMoves
  <1>4. QED
    BY <1>2, <1>3 DEF AllDispatched

\* A manager is saved, and the next one's turn comes or the call returns.
LEMMA SaveManagerInv ==
    ASSUME PassInv, NEW c \in Callers, SaveManager(c)
    PROVE  /\ PassInv' /\ Target(c) \in Runner
           /\ UNCHANGED <<log, checkpoint, handled>>
           /\ \/ file' = [file EXCEPT ![Target(c)] = checkpoint[Target(c)]]
              \/ UNCHANGED file
  <1>1. /\ cpc[c] = "saving"
        /\ UNCHANGED <<log, checkpoint, handled>>
        /\ \/ file' = [file EXCEPT ![Target(c)] = checkpoint[Target(c)]]
           \/ file' = file
    BY DEF SaveManager
  <1>2. at[c] \in 1 .. Len(Order) /\ Target(c) \in Runner
    BY <1>1, CallerFacts
  <1>3. /\ file' \in [Runner -> Checkpoints]
        /\ \A q \in Runner : IsCursor(file'[q])
    BY <1>1, <1>2, SavedFileIsCursor, SameFileIsCursor
  <1>4. CASE Return(c, "report", LeastSaved') \/ Fail(c)
    BY <1>1, <1>2, <1>3, <1>4, ReturnKeepsInv DEF Fail
  <1>5. CASE /\ at[c] < Len(Order)
             /\ at' = [at EXCEPT ![c] = @ + 1]
             /\ cpc' = [cpc EXCEPT ![c] = "save"]
             /\ UNCHANGED <<next, work>>
    <2>1. /\ at' \in [Callers -> 1 .. Len(Order) + 1] /\ at'[c] = at[c] + 1
          /\ \A d \in Callers \ {c} : at'[d] = at[d]
      BY <1>2, <1>5, OrderType DEF PassInv, PassTypes
    <2>2. /\ cpc' \in [Callers -> CallerPcs] /\ cpc'[c] = "save"
          /\ \A d \in Callers \ {c} : cpc'[d] = cpc[d]
      BY <1>5 DEF PassInv, PassTypes, CallerPcs
    <2>3. next' \in [Callers -> Nat] /\ work' \in [Callers -> Seq(EnvelopeIds)]
      BY <1>5 DEF PassInv, PassTypes
    <2>4. at'[c] <= Len(Order)
      BY <1>2, <1>5, <2>1, OrderType
    <2>5. PassInv'
      BY <1>1, <1>3, <1>5, <2>1, <2>2, <2>3, <2>4, CallerFacts, CallerMoves
    <2>6. QED
      BY <1>1, <1>2, <2>5
  <1>6. QED
    BY <1>4, <1>5 DEF SaveManager

\* The process dies: callers are gone, runners start from files or afresh.
LEMMA CrashInv ==
    ASSUME PassInv, Crash
    PROVE  /\ PassInv' /\ UNCHANGED <<log, handled>> /\ checkpoint' = file'
           /\ \A r \in Runner : file'[r] = Fresh \/ file'[r] = file[r]
  <1>1. PICK lost \in SUBSET Runner :
            file' = [r \in Runner |-> IF r \in lost THEN Fresh ELSE file[r]]
    BY DEF Crash
  <1>2. UNCHANGED <<log, handled>> /\ checkpoint' = file'
    BY DEF Crash
  <1>3. \A r \in Runner : file'[r] = Fresh \/ file'[r] = file[r]
    BY <1>1
  <1>4. /\ cpc' = [c \in Callers |-> "idle"] /\ at' = [c \in Callers |-> 1]
        /\ next' = [c \in Callers |-> 0] /\ work' = [c \in Callers |-> <<>>]
    BY DEF Crash
  <1>5. Fresh \in Checkpoints /\ IsCursor(Fresh)
    BY FreshIsCursor DEF PassInv, PassTypes
  <1>6. file' \in [Runner -> Checkpoints]
    BY <1>1, <1>5 DEF PassInv, PassTypes
  <1>7. PassTypes'
    BY <1>2, <1>4, <1>6, OrderType DEF PassInv, PassTypes, CallerPcs
  <1>8. CallersFollow'
    BY <1>4 DEF CallersFollow
  <1>9. CheckpointsAreCursors'
    <2>1. \A r \in Runner : IsCursor(file'[r])
      BY <1>3, <1>5 DEF PassInv, CheckpointsAreCursors
    <2>2. QED
      BY <1>2, <2>1 DEF CheckpointsAreCursors, IsCursor
  <1>10. QED
    BY <1>2, <1>3, <1>7, <1>8, <1>9 DEF PassInv

-----------------------------------------------------------------------------
(* The invariant                                                            *)

\* Everything is fresh in the beginning.
LEMMA InitInv ==
    ASSUME RunnersInit
    PROVE  PassInv
  <1>1. Fresh \in Checkpoints /\ IsCursor(Fresh)
    BY FreshIsCursor DEF RunnersInit
  <1>2. PassTypes
    BY <1>1, OrderType DEF RunnersInit, PassTypes, CallerPcs
  <1>3. CallersFollow
    BY DEF RunnersInit, CallersFollow
  <1>4. CheckpointsAreCursors
    BY <1>1 DEF RunnersInit, CheckpointsAreCursors
  <1>5. QED
    BY <1>2, <1>3, <1>4 DEF PassInv

\* No step disturbs it.
LEMMA NextInv ==
    ASSUME PassInv, [Next]_runnerVars
    PROVE  PassInv'
  <1>1. CASE UNCHANGED runnerVars
    BY <1>1 DEF runnerVars, PassInv, PassTypes, CallersFollow, CheckpointsAreCursors,
                IsCursor, Target
  <1>2. CASE Crash
    BY <1>2, CrashInv
  <1>3. CASE \E e \in Events : Write(e)
    BY <1>3, WriteInv
  <1>4. ASSUME NEW c \in Callers, Await(c)
        PROVE  PassInv'
    BY <1>4 DEF Await, callerVars, PassInv, PassTypes, CallersFollow,
                CheckpointsAreCursors, IsCursor, Target
  <1>5. ASSUME NEW c \in Callers,
               \/ CallProjection(c) \/ CallRunProcessManagers(c)
               \/ CallerStep(c) \/ StreamError(c) \/ Abandon(c)
        PROVE  PassInv'
    BY <1>4, <1>5, CallInv, LockInv, SubscribeInv, ReadEventInv, ProjectionDoneInv,
       ManagerDoneInv, AllDispatchedInv, SaveManagerInv, DispatchInv, GiveUpInv
       DEF CallerStep, PassStep
  <1>6. QED
    BY <1>1, <1>2, <1>3, <1>5 DEF Next, PullNext

\* For every number of runners and callers and whatever fails: a runner's state is
\* made of exactly the decodable events below its position, in order and once
\* each, in memory and in what a load of its file gives.
THEOREM RunnersAreExact == Spec => []CheckpointsAreCursors
  <1>1. RunnersInit => PassInv
    BY InitInv
  <1>2. PassInv /\ [Next]_runnerVars => PassInv'
    BY NextInv
  <1>3. PassInv => CheckpointsAreCursors
    BY DEF PassInv
  <1>4. QED
    BY <1>1, <1>2, <1>3, PTL DEF Spec

\* No pass reads ahead of the runner it feeds, and a command in hand is of an
\* event its manager has moved past.
THEOREM PassesFollow == Spec => []CallersFollow
  <1>1. RunnersInit => PassInv
    BY InitInv
  <1>2. PassInv /\ [Next]_runnerVars => PassInv'
    BY NextInv
  <1>3. PassInv => CallersFollow
    BY DEF PassInv
  <1>4. QED
    BY <1>1, <1>2, <1>3, PTL DEF Spec

-----------------------------------------------------------------------------
(* The refinement                                                           *)

posBar   == [r \in Runner |-> checkpoint[r].pos]
savedBar == [r \in Runner |-> file[r].pos]
barVars  == <<log, posBar, savedBar, handled>>

\* Steps that leave the log, the runners, the files and the commands alone stutter.
LEMMA Stutters ==
    ASSUME UNCHANGED <<log, checkpoint, file, handled>>
    PROVE  UNCHANGED barVars
  BY DEF barVars, posBar, savedBar

\* A step that reads one event delivers it, or stutters when the runner is past it.
LEMMA ReadDelivers ==
    ASSUME PassInv, NEW c \in Callers, ReadEvent(c)
    PROVE  (\E r \in Runner : Positions!Deliver(r)) \/ UNCHANGED barVars
  <1>0. PICK t \in Runner : t = Target(c)
    BY ReadEventInv
  <1>1. /\ \A r \in Runner \ {t} : checkpoint'[r] = checkpoint[r]
        /\ \/ checkpoint'[t].pos = checkpoint[t].pos
           \/ /\ checkpoint[t].pos < Len(log)
              /\ checkpoint'[t].pos = checkpoint[t].pos + 1
    BY <1>0, ReadEventInv
  <1>2. UNCHANGED <<log, file, handled>>
    BY DEF ReadEvent
  <1>3. CASE checkpoint'[t].pos = checkpoint[t].pos
    <2>1. posBar' = posBar /\ savedBar' = savedBar
      BY <1>1, <1>2, <1>3 DEF posBar, savedBar
    <2>2. QED
      BY <1>2, <2>1 DEF barVars
  <1>4. CASE /\ checkpoint[t].pos < Len(log)
             /\ checkpoint'[t].pos = checkpoint[t].pos + 1
    <2>1. posBar' = [posBar EXCEPT ![t] = @ + 1] /\ posBar[t] < Len(log)
      BY <1>1, <1>4 DEF posBar
    <2>2. savedBar' = savedBar
      BY <1>2 DEF savedBar
    <2>3. Positions!Deliver(t)
      BY <1>2, <2>1, <2>2 DEF Positions!Deliver, posBar, savedBar
    <2>4. QED
      BY <2>3
  <1>5. QED
    BY <1>1, <1>3, <1>4

\* A step that writes a runner's checkpoint saves its position.
LEMMA WriteSaves ==
    ASSUME PassInv, NEW r \in Runner, UNCHANGED <<log, checkpoint, handled>>,
           file' = [file EXCEPT ![r] = checkpoint[r]]
    PROVE  Positions!Save(r)
  <1>1. posBar' = posBar
    BY DEF posBar
  <1>2. savedBar' = [savedBar EXCEPT ![r] = posBar[r]]
    BY DEF savedBar, posBar, PassInv, PassTypes
  <1>3. QED
    BY <1>1, <1>2 DEF Positions!Save, posBar, savedBar

\* Every step of the runners is a step of Cursors, or changes nothing there.
LEMMA NextMoves ==
    ASSUME PassInv, [Next]_runnerVars
    PROVE  [Positions!Next]_barVars
  <1>1. CASE UNCHANGED runnerVars
    BY <1>1, Stutters DEF runnerVars
  <1>2. CASE Crash
    <2>1. /\ UNCHANGED <<log, handled>> /\ checkpoint' = file'
          /\ \A r \in Runner : file'[r] = Fresh \/ file'[r] = file[r]
      BY <1>2, CrashInv
    <2>2. posBar' = savedBar' /\ \A r \in Runner : savedBar'[r] \in {0, savedBar[r]}
      BY <2>1 DEF posBar, savedBar, Fresh
    <2>3. Positions!Restart
      BY <2>1, <2>2 DEF Positions!Restart, posBar, savedBar
    <2>4. QED
      BY <2>3 DEF Positions!Next
  <1>3. ASSUME NEW e \in Events, Write(e)
        PROVE  Positions!Next
    <2>1. log' = Append(log, e) /\ UNCHANGED <<checkpoint, file, handled>>
      BY <1>3 DEF Write
    <2>2. Len(log) < Len(log') /\ SubSeq(log', 1, Len(log)) = log
      BY <2>1 DEF PassInv, PassTypes
    <2>3. posBar' = posBar /\ savedBar' = savedBar
      BY <2>1 DEF posBar, savedBar
    <2>4. Positions!Grow
      BY <2>1, <2>2, <2>3 DEF Positions!Grow, posBar, savedBar
    <2>5. QED
      BY <2>4 DEF Positions!Next
  <1>4. ASSUME NEW c \in Callers, ReadEvent(c)
        PROVE  [Positions!Next]_barVars
    BY <1>4, ReadDelivers DEF Positions!Next
  <1>5. ASSUME NEW c \in Callers, ProjectionDone(c) \/ SaveManager(c)
        PROVE  [Positions!Next]_barVars
    <2>1. PICK r \in Runner : r = Target(c)
      BY <1>5, ProjectionDoneInv, SaveManagerInv
    <2>2. /\ UNCHANGED <<log, checkpoint, handled>>
          /\ file' = [file EXCEPT ![r] = checkpoint[r]] \/ UNCHANGED file
      BY <1>5, <2>1, ProjectionDoneInv, SaveManagerInv
    <2>3. Positions!Save(r) \/ UNCHANGED barVars
      BY <2>2, WriteSaves, Stutters
    <2>4. QED
      BY <2>3 DEF Positions!Next
  <1>6. ASSUME NEW c \in Callers, Dispatch(c)
        PROVE  [Positions!Next]_barVars
    <2>1. UNCHANGED <<log, checkpoint, file>>
      BY <1>6 DEF Dispatch
    <2>2. CASE UNCHANGED handled
      BY <2>1, <2>2, Stutters
    <2>3. ASSUME NEW x \in EnvelopeIds, x.pos < checkpoint[x.pm].pos,
                 handled' = handled \cup {x}
          PROVE  Positions!CarryOut
      <3>1. x \in handled' /\ x.pm \in Runner
        BY <2>3 DEF EnvelopeIds, Runner
      <3>2. x.pos < posBar[x.pm]
        BY <2>3, <3>1 DEF posBar
      <3>3. posBar' = posBar /\ savedBar' = savedBar
        BY <2>1 DEF posBar, savedBar
      <3>4. QED
        BY <2>1, <2>3, <3>1, <3>2, <3>3 DEF Positions!CarryOut, posBar, savedBar
    <2>4. QED
      BY <1>6, <2>2, <2>3, DispatchInv DEF Positions!Next
  <1>7. ASSUME NEW c \in Callers,
               \/ CallProjection(c) \/ CallRunProcessManagers(c)
               \/ Acquire(c) \/ Await(c) \/ Subscribe(c) \/ ManagerDone(c)
               \/ AllDispatched(c) \/ LockForSave(c) \/ StreamError(c) \/ Abandon(c)
        PROVE  UNCHANGED barVars
    <2>1. UNCHANGED <<log, checkpoint, file, handled>>
      BY <1>7 DEF CallProjection, CallRunProcessManagers, Begin, Acquire, Await, Subscribe,
                  ManagerDone, AllDispatched, LockForSave, StreamError, Abandon
    <2>2. QED
      BY <2>1, Stutters
  <1>8. QED
    BY <1>1, <1>2, <1>3, <1>4, <1>5, <1>6, <1>7
       DEF Next, PullNext, CallerStep, PassStep

\* The runners implement the abstract specification: positions advance one event
\* at a time, a saved position is one that was reached, only a restart goes back,
\* and no command is carried out for an event its manager has not passed.
THEOREM RunnersImplementCursors == Spec => ImplementsCursors
  <1>1. RunnersInit => PassInv
    BY InitInv
  <1>2. PassInv /\ [Next]_runnerVars => PassInv'
    BY NextInv
  <1>3. RunnersInit => Positions!Init
    BY DEF RunnersInit, Positions!Init, Fresh
  <1>4. PassInv /\ [Next]_runnerVars =>
            [Positions!Next]_<<log, [r \in Runner |-> checkpoint[r].pos],
                               [r \in Runner |-> file[r].pos], handled>>
    BY NextMoves DEF barVars, posBar, savedBar
  <1>5. QED
    BY <1>1, <1>2, <1>3, <1>4, PTL DEF Spec, ImplementsCursors, Positions!Spec

-----------------------------------------------------------------------------
(* The mutexes                                                              *)

Clients == Callers \cup {"stream", "loop"}

IsQueue(s) == s \in Seq(Clients) /\ \A i, j \in 1 .. Len(s) : s[i] = s[j] => i = j

In(q, r)   == q \in Range(lock[r])
Owns(q, r) == lock[r] # <<>> /\ Head(lock[r]) = q

LocksTyped == DOMAIN lock = Runner /\ \A r \in Runner : IsQueue(lock[r])

\* A caller queues at its target only, and owns its mutex while it works on it.
CallerPlace(c) ==
    /\ \A r \in Runner : In(c, r) => cpc[c] \notin {"idle", "dispatch"} /\ r = Target(c)
    /\ cpc[c] \in {"subscribe", "read", "saving", "peeking"} => Owns(c, Target(c))

LocksInv == LocksTyped /\ \A c \in Callers : CallerPlace(c)

\* What a step of q on the locks does to the others: nothing.
OthersKeep(q) ==
    \A d \in Clients \ {q}, r \in Runner : /\ In(d, r)' => In(d, r)
                                           /\ Owns(d, r) => Owns(d, r)'

\* What a step of a caller does to the live loop: nothing.
OutsidersKeep == \A d \in Clients \ Callers, r \in Runner : In(d, r)' => In(d, r)

-----------------------------------------------------------------------------
(* Queues                                                                   *)

\* Joining a queue.
LEMMA QueueAppend ==
    ASSUME NEW s, IsQueue(s), NEW x \in Clients, x \notin Range(s)
    PROVE  /\ IsQueue(Append(s, x)) /\ Range(Append(s, x)) = Range(s) \cup {x}
           /\ s # <<>> => Append(s, x) # <<>> /\ Head(Append(s, x)) = Head(s)
  <1>1. /\ s \in Seq(Clients) /\ \A i, j \in 1 .. Len(s) : s[i] = s[j] => i = j
    BY DEF IsQueue
  <1>2. /\ Append(s, x) \in Seq(Clients) /\ Len(Append(s, x)) = Len(s) + 1 /\ Len(s) \in Nat
        /\ \A i \in 1 .. Len(s) : Append(s, x)[i] = s[i]
        /\ Append(s, x)[Len(s) + 1] = x
    BY <1>1
  <1>3. \A i \in 1 .. Len(s) : s[i] # x
    BY <1>1 DEF Range
  <1>4. \A i, j \in 1 .. Len(s) + 1 : Append(s, x)[i] = Append(s, x)[j] => i = j
    <2>1. \A i \in 1 .. Len(s) + 1 : i \in 1 .. Len(s) \/ i = Len(s) + 1
      BY <1>2
    <2> QED BY <1>1, <1>2, <1>3, <2>1
  <1>5. Range(Append(s, x)) = Range(s) \cup {x}
    BY <1>1, RangeAppend
  <1>6. s # <<>> => Append(s, x) # <<>> /\ Head(Append(s, x)) = Head(s)
    BY <1>1, <1>2
  <1> QED BY <1>2, <1>4, <1>5, <1>6 DEF IsQueue

\* The first one leaves.
LEMMA QueueTail ==
    ASSUME NEW s, IsQueue(s), s # <<>>
    PROVE  IsQueue(Tail(s)) /\ Range(Tail(s)) = Range(s) \ {Head(s)}
  <1>1. /\ s \in Seq(Clients) /\ \A i, j \in 1 .. Len(s) : s[i] = s[j] => i = j
    BY DEF IsQueue
  <1>2. /\ Tail(s) \in Seq(Clients) /\ Len(Tail(s)) = Len(s) - 1 /\ Len(s) \in Nat
        /\ 1 \in 1 .. Len(s) /\ Head(s) = s[1]
        /\ \A i \in 1 .. Len(s) - 1 : Tail(s)[i] = s[i + 1]
    BY <1>1
  <1>3. \A i, j \in 1 .. Len(s) - 1 : Tail(s)[i] = Tail(s)[j] => i = j
    BY <1>1, <1>2
  <1>4. /\ Range(Tail(s)) = {Tail(s)[i] : i \in 1 .. Len(s) - 1}
        /\ Range(s) = {s[i] : i \in 1 .. Len(s)}
    <2>1. DOMAIN Tail(s) = 1 .. Len(s) - 1 /\ DOMAIN s = 1 .. Len(s)
      BY <1>1, <1>2
    <2> QED BY <2>1 DEF Range
  <1>5. \A y \in Range(Tail(s)) : y \in Range(s) /\ y # Head(s)
    <2>1. ASSUME NEW i \in 1 .. Len(s) - 1
          PROVE  i + 1 \in 1 .. Len(s) /\ s[i + 1] # s[1]
      BY <1>1, <1>2
    <2> QED BY <1>2, <1>4, <2>1
  <1>6. \A y \in Range(s) : y # Head(s) => y \in Range(Tail(s))
    <2>1. ASSUME NEW i \in 1 .. Len(s), i # 1
          PROVE  i - 1 \in 1 .. Len(s) - 1 /\ Tail(s)[i - 1] = s[i]
      BY <1>2, <2>1
    <2> QED BY <1>2, <1>4, <2>1, SMTT(30)
  <1> QED BY <1>2, <1>3, <1>5, <1>6 DEF IsQueue

\* Somebody leaves, from wherever in the queue.
LEMMA QueueWithout ==
    ASSUME NEW s, IsQueue(s), NEW x
    PROVE  /\ IsQueue(Without(s, x)) /\ x \notin Range(Without(s, x))
           /\ Range(Without(s, x)) \subseteq Range(s)
           /\ s # <<>> /\ Head(s) # x => Without(s, x) # <<>> /\ Head(Without(s, x)) = Head(s)
  <1>1. /\ s \in Seq(Clients) /\ \A i, j \in 1 .. Len(s) : s[i] = s[j] => i = j
        /\ Len(s) \in Nat /\ DOMAIN s = 1 .. Len(s)
    BY DEF IsQueue
  <1>2. CASE x \notin Range(s)
    BY <1>2 DEF Without
  <1>3. CASE x \in Range(s)
    <2>1. \E i \in 1 .. Len(s) : s[i] = x
      BY <1>1, <1>3 DEF Range
    <2>2. PICK k : k = CHOOSE i \in 1 .. Len(s) : s[i] = x
      OBVIOUS
    <2>3. k \in 1 .. Len(s) /\ s[k] = x
      BY <2>1, <2>2
    <2>4. PICK w : w = [j \in 1 .. Len(s) - 1 |-> IF j < k THEN s[j] ELSE s[j + 1]]
      OBVIOUS
    <2>5. Without(s, x) = w
      BY <1>3, <2>2, <2>4 DEF Without
    <2>6. ASSUME NEW j \in 1 .. Len(s) - 1
          PROVE  /\ j < k => w[j] = s[j] /\ j \in 1 .. Len(s)
                 /\ ~(j < k) => w[j] = s[j + 1] /\ j + 1 \in 1 .. Len(s)
                 /\ w[j] \in Clients /\ w[j] # x
      BY <1>1, <2>3, <2>4
    <2>7. w \in Seq(Clients) /\ Len(w) = Len(s) - 1 /\ DOMAIN w = 1 .. Len(s) - 1
      <3>1. Len(s) - 1 \in Nat
        BY <1>1, <2>3
      <3> QED BY <2>4, <2>6, <3>1
    <2>8. ASSUME NEW i \in 1 .. Len(s) - 1, NEW j \in 1 .. Len(s) - 1, w[i] = w[j]
          PROVE  i = j
      BY <1>1, <2>3, <2>6, <2>8
    <2>9. IsQueue(w)
      BY <2>7, <2>8 DEF IsQueue
    <2>10. x \notin Range(w) /\ Range(w) \subseteq Range(s)
      BY <1>1, <2>6, <2>7 DEF Range
    <2>11. ASSUME s # <<>>, Head(s) # x
           PROVE  w # <<>> /\ Head(w) = Head(s)
      <3>1. Head(s) = s[1] /\ k # 1
        BY <1>1, <2>3, <2>11
      <3>2. 1 \in 1 .. Len(s) - 1 /\ 1 < k
        BY <1>1, <2>3, <3>1
      <3>3. w[1] = s[1]
        BY <2>6, <3>2
      <3> QED BY <2>7, <3>1, <3>2, <3>3
    <2> QED BY <2>5, <2>9, <2>10, <2>11
  <1> QED BY <1>2, <1>3

-----------------------------------------------------------------------------
(* What a client does to the locks                                          *)

\* It joins the queue of one mutex.
LEMMA WaitLocks ==
    ASSUME LocksTyped, NEW q \in Clients, NEW r \in Runner, Enqueue(q, r)
    PROVE  /\ LocksTyped' /\ OthersKeep(q)
           /\ \A x \in Runner : In(q, x)' => In(q, x) \/ x = r
           /\ \A x \in Runner : Owns(q, x) => Owns(q, x)'
  <1>1. /\ lock' = [lock EXCEPT ![r] = Append(@, q)] /\ q \notin Range(lock[r])
    BY DEF Enqueue
  <1>2. /\ DOMAIN lock' = Runner /\ lock'[r] = Append(lock[r], q)
        /\ \A x \in Runner \ {r} : lock'[x] = lock[x]
    BY <1>1 DEF LocksTyped
  <1>3. /\ IsQueue(lock'[r]) /\ Range(lock'[r]) = Range(lock[r]) \cup {q}
        /\ lock[r] # <<>> => lock'[r] # <<>> /\ Head(lock'[r]) = Head(lock[r])
    BY <1>1, <1>2, QueueAppend DEF LocksTyped
  <1>4. LocksTyped'
    BY <1>2, <1>3 DEF LocksTyped, IsQueue
  <1> QED BY <1>2, <1>3, <1>4 DEF OthersKeep, In, Owns

\* It takes a mutex that is free or has come to it.
LEMMA HoldLocks ==
    ASSUME LocksTyped, NEW q \in Clients, NEW r \in Runner, CanLock(q, r), lock' = Held(q, r)
    PROVE  /\ LocksTyped' /\ OthersKeep(q) /\ Owns(q, r)'
           /\ \A x \in Runner : In(q, x)' => In(q, x) \/ x = r
  <1>1. /\ DOMAIN lock' = Runner /\ lock'[r] = (IF lock[r] = <<>> THEN <<q>> ELSE lock[r])
        /\ \A x \in Runner \ {r} : lock'[x] = lock[x]
    BY DEF LocksTyped, Held
  <1>2. IsQueue(<<q>>) /\ Range(<<q>>) = {q} /\ <<q>> # <<>> /\ Head(<<q>>) = q
    BY DEF IsQueue, Range
  <1>3. CASE lock[r] = <<>>
    <2>1. lock'[r] = <<q>> /\ Range(<<>>) = {}
      BY <1>1, <1>3 DEF Range
    <2>2. \A x \in Runner : IsQueue(lock'[x])
      BY <1>1, <1>2, <2>1 DEF LocksTyped
    <2>3. LocksTyped'
      BY <1>1, <2>2 DEF LocksTyped, IsQueue
    <2> QED BY <1>1, <1>2, <1>3, <2>1, <2>3 DEF OthersKeep, In, Owns
  <1>4. CASE lock[r] # <<>>
    <2>1. lock'[r] = lock[r] /\ Head(lock[r]) = q
      BY <1>1, <1>4 DEF CanLock
    <2>2. LocksTyped'
      BY <1>1, <2>1 DEF LocksTyped, IsQueue
    <2> QED BY <1>1, <1>4, <2>1, <2>2 DEF OthersKeep, In, Owns
  <1> QED BY <1>3, <1>4

\* It lets go of a mutex that it has, or that is free.
LEMMA ReleaseLocks ==
    ASSUME LocksTyped, NEW q \in Clients, NEW r \in Runner, CanLock(q, r), lock' = Released(r)
    PROVE  /\ LocksTyped' /\ OthersKeep(q)
           /\ \A x \in Runner : In(q, x)' => In(q, x) /\ x # r
  <1>1. /\ DOMAIN lock' = Runner /\ lock'[r] = (IF lock[r] = <<>> THEN lock[r] ELSE Tail(lock[r]))
        /\ \A x \in Runner \ {r} : lock'[x] = lock[x]
    BY DEF LocksTyped, Released
  <1>2. CASE lock[r] = <<>>
    <2>1. lock'[r] = lock[r] /\ Range(<<>>) = {}
      BY <1>1, <1>2 DEF Range
    <2>2. LocksTyped'
      BY <1>1, <2>1 DEF LocksTyped, IsQueue
    <2> QED BY <1>1, <1>2, <2>1, <2>2 DEF OthersKeep, In, Owns
  <1>3. CASE lock[r] # <<>>
    <2>1. lock'[r] = Tail(lock[r]) /\ Head(lock[r]) = q
      BY <1>1, <1>3 DEF CanLock
    <2>2. IsQueue(lock'[r]) /\ Range(lock'[r]) = Range(lock[r]) \ {q}
      BY <1>3, <2>1, QueueTail DEF LocksTyped
    <2>3. \A x \in Runner : IsQueue(lock'[x])
      BY <1>1, <2>2 DEF LocksTyped
    <2>4. LocksTyped'
      BY <1>1, <2>3 DEF LocksTyped, IsQueue
    <2> QED BY <1>1, <1>3, <2>1, <2>2, <2>4 DEF OthersKeep, In, Owns
  <1> QED BY <1>2, <1>3

\* It goes away, and with it its guard and its places.
LEMMA DropLocks ==
    ASSUME LocksTyped, NEW q \in Clients, lock' = Dropped(q)
    PROVE  LocksTyped' /\ OthersKeep(q) /\ \A x \in Runner : ~In(q, x)'
  <1>1. DOMAIN lock' = Runner /\ \A r \in Runner : lock'[r] = Without(lock[r], q)
    BY DEF Dropped
  <1>2. ASSUME NEW r \in Runner
        PROVE  /\ IsQueue(lock'[r]) /\ q \notin Range(lock'[r])
               /\ Range(lock'[r]) \subseteq Range(lock[r])
               /\ lock[r] # <<>> /\ Head(lock[r]) # q =>
                      lock'[r] # <<>> /\ Head(lock'[r]) = Head(lock[r])
    BY <1>1, QueueWithout DEF LocksTyped
  <1>3. LocksTyped'
    BY <1>1, <1>2 DEF LocksTyped, IsQueue
  <1> QED BY <1>2, <1>3 DEF OthersKeep, In, Owns

\* A step that leaves the locks alone.
LEMMA SameLocks ==
    ASSUME LocksTyped, lock' = lock
    PROVE  /\ LocksTyped' /\ \A q : OthersKeep(q)
           /\ \A q : \A r \in Runner : (In(q, r)' => In(q, r)) /\ (Owns(q, r) => Owns(q, r)')
  BY DEF LocksTyped, OthersKeep, In, Owns, IsQueue

\* A caller that stands still stays where it is while another client moves.
LEMMA CallerStays ==
    ASSUME LocksInv, PassInv, NEW q, OthersKeep(q), NEW d \in Callers, d # q,
           cpc'[d] = cpc[d], at'[d] = at[d]
    PROVE  CallerPlace(d)'
  <1>1. PICK t : t = Target(d)
    OBVIOUS
  <1>2. Target(d)' = t
    BY <1>1 DEF Target
  <1>3. CallerPlace(d) /\ d \in Clients \ {q}
    BY DEF LocksInv, Clients
  <1>4. \A r \in Runner : In(d, r)' => cpc[d] \notin {"idle", "dispatch"} /\ r = t
    BY <1>1, <1>3 DEF OthersKeep, CallerPlace
  <1>5. cpc[d] \in {"subscribe", "read", "saving", "peeking"} => t \in Runner /\ Owns(d, t)
    BY <1>1, <1>3, CallerFacts DEF CallerPlace
  <1>6. cpc[d] \in {"subscribe", "read", "saving", "peeking"} => Owns(d, t)'
    BY <1>3, <1>5 DEF OthersKeep
  <1> QED BY <1>2, <1>4, <1>6 DEF CallerPlace, Owns

\* A step of caller c on the locks.
LEMMA CallerLocks ==
    ASSUME LocksInv, PassInv, NEW c \in Callers, LocksTyped', OthersKeep(c),
           \A d \in Callers \ {c} : cpc'[d] = cpc[d] /\ at'[d] = at[d],
           CallerPlace(c)'
    PROVE  LocksInv' /\ OutsidersKeep
  <1>1. ASSUME NEW d \in Callers PROVE CallerPlace(d)'
    <2>1. CASE d = c
      BY <2>1
    <2>2. CASE d # c
      BY <2>2, CallerStays
    <2> QED BY <2>1, <2>2
  <1>2. OutsidersKeep
    BY DEF OthersKeep, OutsidersKeep
  <1> QED BY <1>1, <1>2 DEF LocksInv

\* A step after which c is in no queue and works on no runner.
LEMMA CallerLeaves ==
    ASSUME LocksInv, PassInv, NEW c \in Callers, LocksTyped', OthersKeep(c),
           \A d \in Callers \ {c} : cpc'[d] = cpc[d] /\ at'[d] = at[d],
           \A r \in Runner : ~In(c, r)',
           cpc'[c] \notin {"subscribe", "read", "saving", "peeking"}
    PROVE  LocksInv' /\ OutsidersKeep
  <1>1. CallerPlace(c)'
    BY DEF CallerPlace
  <1> QED BY <1>1, CallerLocks

\* Returning ends a caller's stay wherever it was.
LEMMA ReturnMoves ==
    ASSUME PassInv, NEW c \in Callers, NEW tag, NEW pos, Return(c, tag, pos)
    PROVE  /\ cpc'[c] = "idle"
           /\ \A d \in Callers \ {c} : cpc'[d] = cpc[d] /\ at'[d] = at[d]
  BY DEF Return, PassInv, PassTypes

\* A call begins.
LEMMA BeginLocks ==
    ASSUME LocksInv, PassInv, NEW c \in Callers, NEW o, NEW i, NEW pc \in {"lock", "peek", "dispatch"},
           Begin(c, o, i, pc)
    PROVE  LocksInv' /\ OutsidersKeep
  <1>1. /\ cpc[c] = "idle" /\ cpc'[c] = pc /\ lock' = lock
        /\ \A d \in Callers \ {c} : cpc'[d] = cpc[d] /\ at'[d] = at[d]
    BY DEF Begin, PassInv, PassTypes
  <1>2. LocksTyped' /\ OthersKeep(c) /\ \A r \in Runner : In(c, r)' => In(c, r)
    BY <1>1, SameLocks DEF LocksInv
  <1>3. \A r \in Runner : ~In(c, r)
    BY <1>1 DEF LocksInv, CallerPlace
  <1> QED BY <1>1, <1>2, <1>3, CallerLeaves

\* Waiting for the target's mutex.
LEMMA AwaitLocks ==
    ASSUME LocksInv, PassInv, NEW c \in Callers, Await(c)
    PROVE  LocksInv' /\ OutsidersKeep
  <1>1. /\ cpc[c] \in {"lock", "save", "peek"} /\ Enqueue(c, Target(c))
        /\ cpc' = cpc /\ at' = at
    BY DEF Await, callerVars
  <1>2. PICK t \in Runner : t = Target(c)
    BY <1>1, CallerFacts
  <1>3. /\ LocksTyped' /\ OthersKeep(c) /\ \A x \in Runner : In(c, x)' => In(c, x) \/ x = t
    BY <1>1, <1>2, WaitLocks DEF LocksInv, Clients
  <1>4. \A r \in Runner : In(c, r) => r = t
    BY <1>2 DEF LocksInv, CallerPlace
  <1>5. Target(c)' = t
    BY <1>1, <1>2 DEF Target
  <1>6. CallerPlace(c)'
    BY <1>1, <1>3, <1>4, <1>5 DEF CallerPlace
  <1> QED BY <1>1, <1>3, <1>6, CallerLocks

\* Taking it, for a catch-up, a save or a look.
LEMMA TakeLocks ==
    ASSUME LocksInv, PassInv, NEW c \in Callers, NEW p \in {"subscribe", "saving", "peeking"},
           cpc[c] \in {"lock", "save", "peek"}, CanLock(c, Target(c)),
           lock' = Held(c, Target(c)), at' = at, cpc' = [cpc EXCEPT ![c] = p]
    PROVE  LocksInv' /\ OutsidersKeep
  <1>1. cpc'[c] = p /\ \A d \in Callers \ {c} : cpc'[d] = cpc[d]
    BY DEF PassInv, PassTypes
  <1>2. PICK t \in Runner : t = Target(c)
    BY <1>1, CallerFacts
  <1>3. /\ LocksTyped' /\ OthersKeep(c) /\ \A x \in Runner : In(c, x)' => In(c, x) \/ x = t
        /\ Owns(c, t)'
    BY <1>1, <1>2, HoldLocks DEF LocksInv, Clients
  <1>4. \A r \in Runner : In(c, r) => r = t
    BY <1>2 DEF LocksInv, CallerPlace
  <1>5. Target(c)' = t
    BY <1>1, <1>2 DEF Target
  <1>6. Owns(c, Target(c))'
    BY <1>3, <1>5 DEF Owns
  <1>7. CallerPlace(c)'
    BY <1>1, <1>3, <1>4, <1>5, <1>6 DEF CallerPlace
  <1> QED BY <1>1, <1>3, <1>7, CallerLocks

\* Letting go of it, at the end of a catch-up, a save or a look.
LEMMA LetGoLocks ==
    ASSUME LocksInv, PassInv, NEW c \in Callers,
           cpc[c] \in {"subscribe", "read", "saving", "peeking"},
           lock' = Released(Target(c)),
           cpc'[c] \notin {"subscribe", "read", "saving", "peeking"},
           \A d \in Callers \ {c} : cpc'[d] = cpc[d] /\ at'[d] = at[d]
    PROVE  LocksInv' /\ OutsidersKeep
  <1>1. PICK t \in Runner : t = Target(c)
    BY CallerFacts
  <1>2. CanLock(c, t)
    BY <1>1 DEF LocksInv, CallerPlace, Owns, CanLock
  <1>3. LocksTyped' /\ OthersKeep(c) /\ \A x \in Runner : In(c, x)' => In(c, x) /\ x # t
    BY <1>1, <1>2, ReleaseLocks DEF LocksInv, Clients
  <1>4. \A r \in Runner : In(c, r) => r = t
    BY <1>1 DEF LocksInv, CallerPlace
  <1> QED BY <1>3, <1>4, CallerLeaves

\* The steps that end a caller's work on a runner.
LEMMA DoneLocks ==
    ASSUME LocksInv, PassInv, NEW c \in Callers,
           ProjectionDone(c) \/ ManagerDone(c) \/ SaveManager(c) \/ StreamError(c)
    PROVE  LocksInv' /\ OutsidersKeep
  <1>0. cpc \in [Callers -> CallerPcs] /\ at \in [Callers -> 1 .. Len(Order) + 1]
    BY DEF PassInv, PassTypes
  <1>1. /\ cpc[c] \in {"subscribe", "read", "saving", "peeking"} /\ lock' = Released(Target(c))
    BY DEF ProjectionDone, ManagerDone, SaveManager, StreamError, StreamDone
  <1>2. CASE \E tag, pos : Return(c, tag, pos)
    BY <1>1, <1>2, ReturnMoves, LetGoLocks
  <1>3. CASE ManagerDone(c)
    <2>1. /\ cpc'[c] \in {"lock", "dispatch"}
          /\ \A d \in Callers \ {c} : cpc'[d] = cpc[d] /\ at'[d] = at[d]
      BY <1>0, <1>3 DEF ManagerDone
    <2> QED BY <1>1, <2>1, LetGoLocks
  <1>4. CASE at' = [at EXCEPT ![c] = @ + 1] /\ cpc' = [cpc EXCEPT ![c] = "save"]
    <2>1. /\ cpc'[c] = "save"
          /\ \A d \in Callers \ {c} : cpc'[d] = cpc[d] /\ at'[d] = at[d]
      BY <1>0, <1>4
    <2> QED BY <1>1, <2>1, LetGoLocks
  <1> QED
    BY <1>2, <1>3, <1>4 DEF ProjectionDone, SaveManager, StreamError, Fail

\* The steps that leave the locks alone.
LEMMA WorkLocks ==
    ASSUME LocksInv, PassInv, NEW c \in Callers,
           Subscribe(c) \/ ReadEvent(c) \/ Dispatch(c) \/ AllDispatched(c)
    PROVE  LocksInv' /\ OutsidersKeep
  <1>0. cpc \in [Callers -> CallerPcs] /\ at \in [Callers -> 1 .. Len(Order) + 1]
    BY DEF PassInv, PassTypes
  <1>1. /\ LocksTyped' /\ OthersKeep(c)
        /\ \A r \in Runner : (In(c, r)' => In(c, r)) /\ (Owns(c, r) => Owns(c, r)')
    BY SameLocks DEF Subscribe, ReadEvent, Dispatch, AllDispatched, LocksInv
  <1>2. ASSUME cpc[c] = "dispatch", cpc'[c] \notin {"subscribe", "read", "saving", "peeking"},
               \A d \in Callers \ {c} : cpc'[d] = cpc[d] /\ at'[d] = at[d]
        PROVE  LocksInv' /\ OutsidersKeep
    <2>1. \A r \in Runner : ~In(c, r)
      BY <1>2 DEF LocksInv, CallerPlace
    <2> QED BY <1>1, <1>2, <2>1, CallerLeaves
  <1>3. CASE Dispatch(c)
    <2>1. cpc[c] = "dispatch"
      BY <1>3 DEF Dispatch
    <2>2. CASE Fail(c)
      BY <1>2, <2>1, <2>2, ReturnMoves DEF Fail
    <2>3. CASE UNCHANGED <<cpc, at>>
      BY <1>2, <2>1, <2>3
    <2> QED BY <1>3, <2>2, <2>3 DEF Dispatch
  <1>4. CASE AllDispatched(c)
    <2>1. cpc[c] = "dispatch"
      BY <1>4 DEF AllDispatched
    <2>2. CASE Return(c, "report", start[c])
      BY <1>2, <2>1, <2>2, ReturnMoves
    <2>3. CASE at' = [at EXCEPT ![c] = FirstManager] /\ cpc' = [cpc EXCEPT ![c] = "save"]
      BY <1>0, <1>2, <2>1, <2>3
    <2> QED BY <1>4, <2>2, <2>3 DEF AllDispatched
  <1>5. CASE Subscribe(c) \/ ReadEvent(c)
    <2>1. /\ cpc[c] \in {"subscribe", "read"} /\ cpc'[c] = "read" /\ at' = at
          /\ \A d \in Callers \ {c} : cpc'[d] = cpc[d]
      BY <1>0, <1>5 DEF Subscribe, ReadEvent
    <2>2. PICK t \in Runner : t = Target(c)
      BY <2>1, CallerFacts
    <2>3. Target(c)' = t
      BY <2>1, <2>2 DEF Target
    <2>4. Owns(c, t) /\ \A r \in Runner : In(c, r) => r = t
      BY <2>1, <2>2 DEF LocksInv, CallerPlace
    <2>5. Owns(c, t)' /\ \A r \in Runner : In(c, r)' => r = t
      BY <1>1, <2>4
    <2>6. Owns(c, Target(c))'
      BY <2>3, <2>5 DEF Owns
    <2>7. CallerPlace(c)'
      BY <2>1, <2>3, <2>5, <2>6 DEF CallerPlace
    <2> QED BY <1>1, <2>1, <2>7, CallerLocks
  <1> QED BY <1>3, <1>4, <1>5

\* The caller drops its future.
LEMMA AbandonLocks ==
    ASSUME LocksInv, PassInv, NEW c \in Callers, Abandon(c)
    PROVE  LocksInv' /\ OutsidersKeep
  <1>1. lock' = Dropped(c) /\ Return(c, "none", start[c])
    BY DEF Abandon
  <1>2. LocksTyped' /\ OthersKeep(c) /\ \A r \in Runner : ~In(c, r)'
    BY <1>1, DropLocks DEF LocksInv, Clients
  <1>3. /\ cpc'[c] = "idle" /\ \A d \in Callers \ {c} : cpc'[d] = cpc[d] /\ at'[d] = at[d]
    BY <1>1, ReturnMoves
  <1> QED BY <1>2, <1>3, CallerLeaves

-----------------------------------------------------------------------------
(* The actions, and the mutexes                                             *)

\* A step that leaves locks and callers alone.
LEMMA QuietLocks ==
    ASSUME LocksInv, UNCHANGED <<lock, cpc, at>>
    PROVE  LocksInv' /\ OutsidersKeep
  <1>1. LocksTyped' /\ \A q : \A r \in Runner : (In(q, r)' => In(q, r))
    BY SameLocks DEF LocksInv
  <1>2. \A c \in Callers : CallerPlace(c)'
    BY DEF LocksInv, CallerPlace, In, Owns, Target
  <1> QED BY <1>1, <1>2 DEF LocksInv, OutsidersKeep

\* Everything that goes on without live mode, but for a crash.
LEMMA PullLocks ==
    ASSUME LocksInv, PassInv, PullNext
    PROVE  LocksInv' /\ OutsidersKeep
  <1>1. ASSUME NEW e \in Events, Write(e)
        PROVE  LocksInv' /\ OutsidersKeep
    BY <1>1, QuietLocks DEF Write, callerVars
  <1>2. ASSUME NEW c \in Callers, CallProjection(c) \/ CallRunProcessManagers(c)
        PROVE  LocksInv' /\ OutsidersKeep
    <2>1. \E o, i : \E pc \in {"lock", "peek", "dispatch"} : Begin(c, o, i, pc)
      BY <1>2 DEF CallProjection, CallRunProcessManagers
    <2> QED BY <2>1, BeginLocks
  <1>3. ASSUME NEW c \in Callers, Acquire(c) \/ LockForSave(c)
        PROVE  LocksInv' /\ OutsidersKeep
    BY <1>3, TakeLocks DEF Acquire, LockForSave
  <1> QED
    BY <1>1, <1>2, <1>3, AwaitLocks, DoneLocks, WorkLocks, AbandonLocks
       DEF PullNext, CallerStep, PassStep

\* All mutexes are free after a restart.
LEMMA FreeLocks ==
    ASSUME lock' = [r \in Runner |-> <<>>], cpc' = [c \in Callers |-> "idle"]
    PROVE  LocksInv' /\ \A q : \A r \in Runner : ~In(q, r)'
  <1>1. IsQueue(<<>>) /\ Range(<<>>) = {}
    BY DEF IsQueue, Range
  <1>2. \A r \in Runner : lock'[r] = <<>>
    OBVIOUS
  <1>3. LocksTyped'
    BY <1>1, <1>2 DEF LocksTyped, IsQueue
  <1>4. \A q : \A r \in Runner : ~In(q, r)'
    BY <1>1, <1>2 DEF In
  <1>5. \A c \in Callers : CallerPlace(c)'
    BY <1>4 DEF CallerPlace
  <1> QED BY <1>3, <1>4, <1>5 DEF LocksInv

\* In the beginning they are free too.
LEMMA InitLocks ==
    ASSUME RunnersInit
    PROVE  LocksInv /\ \A q : \A r \in Runner : ~In(q, r)
  <1>1. IsQueue(<<>>) /\ Range(<<>>) = {}
    BY DEF IsQueue, Range
  <1>2. \A r \in Runner : lock[r] = <<>>
    BY DEF RunnersInit
  <1>3. LocksTyped
    BY <1>1, <1>2 DEF LocksTyped, RunnersInit
  <1>4. \A q : \A r \in Runner : ~In(q, r)
    BY <1>1, <1>2 DEF In
  <1>5. \A c \in Callers : CallerPlace(c)
    BY <1>4 DEF CallerPlace, RunnersInit
  <1> QED BY <1>3, <1>4, <1>5 DEF LocksInv

\* The rest of the type invariant.
Counted == upto \in [Callers -> Nat] /\ handled \subseteq EnvelopeIds

\* Subscriptions end at a length of the log, and only commands are carried out.
LEMMA PullCounted ==
    ASSUME Counted, PassInv, PullNext
    PROVE  Counted'
  <1>0. Len(log) \in Nat /\ upto \in [Callers -> Nat] /\ handled \subseteq EnvelopeIds
    <2>1. log \in Seq(Events)
      BY DEF PassInv, PassTypes
    <2> QED BY <2>1 DEF Counted
  <1>1. ASSUME NEW e \in Events, Write(e)
        PROVE  Counted'
    BY <1>0, <1>1 DEF Write, callerVars, Counted
  <1>2. ASSUME NEW c \in Callers, Dispatch(c)
        PROVE  Counted'
    <2>1. handled' \subseteq EnvelopeIds
      BY <1>0, <1>2, DispatchInv
    <2>2. upto' \in [Callers -> Nat]
      BY <1>0, <1>2 DEF Dispatch, Fail, Return
    <2> QED BY <2>1, <2>2 DEF Counted
  <1>3. ASSUME NEW c \in Callers,
               \/ CallProjection(c) \/ CallRunProcessManagers(c) \/ Acquire(c) \/ Await(c)
               \/ Subscribe(c) \/ ReadEvent(c) \/ ProjectionDone(c) \/ ManagerDone(c)
               \/ AllDispatched(c) \/ LockForSave(c) \/ SaveManager(c) \/ StreamError(c)
               \/ Abandon(c)
        PROVE  Counted'
    <2>1. handled' = handled
      BY <1>3 DEF CallProjection, CallRunProcessManagers, Begin, Acquire, Await, Subscribe,
         ReadEvent, ProjectionDone, ManagerDone, AllDispatched, LockForSave, SaveManager,
         StreamError, Abandon
    <2>2. \/ upto' = upto \/ upto' = [upto EXCEPT ![c] = 0]
          \/ upto' = [upto EXCEPT ![c] = Len(log)]
      BY <1>3 DEF CallProjection, CallRunProcessManagers, Begin, Acquire, Await, Subscribe,
         ReadEvent, ProjectionDone, ManagerDone, AllDispatched, LockForSave, SaveManager,
         StreamError, Abandon, Fail, Return, callerVars
    <2> QED BY <1>0, <2>1, <2>2 DEF Counted
  <1> QED BY <1>1, <1>2, <1>3 DEF PullNext, CallerStep, PassStep

\* The invariants give the type invariant of the read side.
LEMMA ReadSideTyped ==
    ASSUME PassInv, LocksInv, Counted
    PROVE  TypeOK
  <1>1. /\ log \in Seq(Events) /\ checkpoint \in [Runner -> Checkpoints]
        /\ file \in [Runner -> Checkpoints] /\ cpc \in [Callers -> CallerPcs]
        /\ at \in [Callers -> 1 .. Len(Order) + 1] /\ next \in [Callers -> Nat]
        /\ work \in [Callers -> Seq(EnvelopeIds)]
    BY DEF PassInv, PassTypes
  <1>2. \A r \in Runner : \A i \in 1 .. Len(lock[r]) : lock[r][i] \in Callers \cup {"stream", "loop"}
    BY DEF LocksInv, LocksTyped, IsQueue, Clients
  <1>3. \A c \in Callers : cpc[c] \in {"subscribe", "read", "saving", "peeking"} =>
            lock[Target(c)] # <<>> /\ Head(lock[Target(c)]) = c
    BY DEF LocksInv, CallerPlace, Owns
  <1> QED BY <1>1, <1>2, <1>3 DEF TypeOK, Counted

\* Type correctness of the read side in pull mode and, with it, that the mutexes
\* exclude: a call that is in a catch-up or in a save is the one that owns the
\* runner's mutex, whatever calls were dropped or failed before (store.rs:309-320,
\* 350-376).
THEOREM ReadersExclude == Spec => []TypeOK
  <1>1. RunnersInit => PassInv /\ LocksInv /\ Counted
    BY InitInv, InitLocks DEF RunnersInit, Counted
  <1>2. PassInv /\ LocksInv /\ Counted /\ [Next]_runnerVars => (PassInv /\ LocksInv /\ Counted)'
    <2> SUFFICES ASSUME PassInv, LocksInv, Counted, [Next]_runnerVars
                 PROVE  PassInv' /\ LocksInv' /\ Counted'
      OBVIOUS
    <2>1. CASE UNCHANGED runnerVars
      BY <2>1, NextInv, QuietLocks DEF runnerVars, Counted
    <2>2. CASE Crash
      BY <2>2, NextInv, FreeLocks DEF Crash, Counted
    <2>3. CASE PullNext
      BY <2>3, NextInv, PullLocks, PullCounted
    <2> QED BY <2>1, <2>2, <2>3 DEF Next
  <1>3. PassInv /\ LocksInv /\ Counted => TypeOK
    BY ReadSideTyped
  <1> QED BY <1>1, <1>2, <1>3, PTL DEF Spec

-----------------------------------------------------------------------------
(* Where commands are in hand                                               *)

Ops == {"none", "projection", "run_process_managers", "live_projection"}

InPlace(c) ==
    /\ cpc[c] \in {"lock", "subscribe", "read"} =>
           op[c] = "run_process_managers" \/ (op[c] = "projection" /\ Target(c) \in Projections)
    /\ cpc[c] = "dispatch" => op[c] = "run_process_managers"
    /\ work[c] # <<>> =>
           /\ op[c] = "run_process_managers"
           /\ cpc[c] \in {"lock", "subscribe", "read", "dispatch"}

HandsInv == op \in [Callers -> Ops] /\ \A c \in Callers : InPlace(c)

\* A step of one caller concerns its own place only.
LEMMA OnePlace ==
    ASSUME HandsInv, NEW c \in Callers, op' \in [Callers -> Ops],
           \A d \in Callers \ {c} : /\ cpc'[d] = cpc[d] /\ op'[d] = op[d] /\ at'[d] = at[d]
                                    /\ work'[d] = work[d],
           InPlace(c)'
    PROVE  HandsInv'
  BY DEF HandsInv, InPlace, Target

\* A call that returns has nothing in hand.
LEMMA ReturnPlace ==
    ASSUME HandsInv, PassInv, NEW c \in Callers, NEW tag, NEW pos, Return(c, tag, pos)
    PROVE  HandsInv'
  <1>0. /\ op \in [Callers -> Ops] /\ cpc \in [Callers -> CallerPcs]
        /\ at \in [Callers -> 1 .. Len(Order) + 1] /\ work \in [Callers -> Seq(EnvelopeIds)]
    BY DEF HandsInv, PassInv, PassTypes
  <1>1. /\ cpc'[c] = "idle" /\ op'[c] = "none" /\ work'[c] = <<>>
        /\ \A d \in Callers \ {c} : /\ cpc'[d] = cpc[d] /\ op'[d] = op[d] /\ at'[d] = at[d]
                                    /\ work'[d] = work[d]
    BY <1>0 DEF Return
  <1>2. op' \in [Callers -> Ops]
    BY <1>0 DEF Return, Ops
  <1>3. InPlace(c)'
    BY <1>1 DEF InPlace
  <1> QED BY <1>1, <1>2, <1>3, OnePlace

\* A call begins with nothing in hand, and projection() on a projection.
LEMMA BeginPlace ==
    ASSUME HandsInv, PassInv, NEW c \in Callers, NEW o \in Ops, NEW i \in 1 .. Len(Order) + 1,
           NEW pc, Begin(c, o, i, pc),
           pc \in {"lock", "subscribe", "read"} =>
               o = "run_process_managers" \/ (o = "projection" /\ Order[i] \in Projections),
           pc = "dispatch" => o = "run_process_managers"
    PROVE  HandsInv'
  <1>0. /\ op \in [Callers -> Ops] /\ cpc \in [Callers -> CallerPcs]
        /\ at \in [Callers -> 1 .. Len(Order) + 1] /\ InPlace(c)
    BY DEF HandsInv, PassInv, PassTypes
  <1>1. /\ cpc[c] = "idle" /\ cpc'[c] = pc /\ op'[c] = o /\ at'[c] = i /\ work' = work
        /\ \A d \in Callers \ {c} : cpc'[d] = cpc[d] /\ op'[d] = op[d] /\ at'[d] = at[d]
    BY <1>0 DEF Begin
  <1>2. op' \in [Callers -> Ops]
    BY <1>0 DEF Begin
  <1>3. work'[c] = <<>>
    BY <1>0, <1>1 DEF InPlace
  <1>4. InPlace(c)'
    BY <1>1, <1>3 DEF InPlace, Target
  <1> QED BY <1>1, <1>2, <1>4, OnePlace

\* Steps within a call.
LEMMA PassPlace ==
    ASSUME HandsInv, PassInv, NEW c \in Callers,
           Acquire(c) \/ Subscribe(c) \/ ManagerDone(c) \/ LockForSave(c)
    PROVE  HandsInv'
  <1>0. /\ op \in [Callers -> Ops] /\ cpc \in [Callers -> CallerPcs]
        /\ at \in [Callers -> 1 .. Len(Order) + 1] /\ InPlace(c)
    BY DEF HandsInv, PassInv, PassTypes
  <1>1. op' = op /\ work' = work
    BY DEF Acquire, Subscribe, ManagerDone, LockForSave
  <1>2. \A d \in Callers \ {c} : cpc'[d] = cpc[d] /\ at'[d] = at[d]
    BY <1>0 DEF Acquire, Subscribe, ManagerDone, LockForSave
  <1>3. CASE Acquire(c) \/ Subscribe(c)
    <2>1. /\ at' = at /\ cpc[c] \in {"lock", "subscribe"} /\ cpc'[c] \in {"subscribe", "read"}
      BY <1>0, <1>3 DEF Acquire, Subscribe
    <2>2. InPlace(c)'
      BY <1>0, <1>1, <2>1 DEF InPlace, Target
    <2> QED BY <1>0, <1>1, <1>2, <2>2, OnePlace
  <1>4. CASE ManagerDone(c)
    <2>1. op[c] = "run_process_managers" /\ cpc'[c] \in {"lock", "dispatch"}
      BY <1>0, <1>4 DEF ManagerDone
    <2>2. InPlace(c)'
      BY <1>0, <1>1, <2>1 DEF InPlace, Target
    <2> QED BY <1>0, <1>1, <1>2, <2>2, OnePlace
  <1>5. CASE LockForSave(c)
    <2>1. cpc[c] = "save" /\ cpc'[c] = "saving"
      BY <1>0, <1>5 DEF LockForSave
    <2>2. InPlace(c)'
      BY <1>0, <1>1, <2>1 DEF InPlace, Target
    <2> QED BY <1>0, <1>1, <1>2, <2>2, OnePlace
  <1> QED BY <1>3, <1>4, <1>5

\* A projection answers no event.
LEMMA ProjectionsAnswerNothing ==
    ASSUME NEW r \in Projections, NEW n
    PROVE  Produced(r, n) = <<>>
  BY RunnersAssumption DEF Produced, Answers

\* An event is read: only a manager's pass collects commands.
LEMMA ReadPlace ==
    ASSUME HandsInv, PassInv, NEW c \in Callers, ReadEvent(c)
    PROVE  HandsInv'
  <1>0. /\ op \in [Callers -> Ops] /\ cpc \in [Callers -> CallerPcs]
        /\ work \in [Callers -> Seq(EnvelopeIds)] /\ InPlace(c)
    BY DEF HandsInv, PassInv, PassTypes
  <1>1. /\ cpc[c] = "read" /\ UNCHANGED <<cpc, op, at>>
        /\ work' = [work EXCEPT ![c] = @ \o Produced(Target(c), next[c])]
    BY DEF ReadEvent
  <1>2. /\ work'[c] = work[c] \o Produced(Target(c), next[c])
        /\ \A d \in Callers \ {c} : work'[d] = work[d]
    BY <1>0, <1>1
  <1>3. CASE op[c] = "run_process_managers"
    <2>1. InPlace(c)'
      BY <1>1, <1>3 DEF InPlace, Target
    <2> QED BY <1>0, <1>1, <1>2, <2>1, OnePlace
  <1>4. CASE op[c] = "projection" /\ Target(c) \in Projections
    <2>1. work[c] = <<>> /\ Produced(Target(c), next[c]) = <<>>
      BY <1>0, <1>4, ProjectionsAnswerNothing DEF InPlace
    <2>2. work'[c] = <<>>
      BY <1>2, <2>1
    <2>3. InPlace(c)'
      BY <1>0, <1>1, <2>2 DEF InPlace, Target
    <2> QED BY <1>0, <1>1, <1>2, <2>3, OnePlace
  <1> QED BY <1>0, <1>1, <1>3, <1>4 DEF InPlace

\* A command is dispatched; everything is; a manager is saved.
LEMMA DispatchPlace ==
    ASSUME HandsInv, PassInv, NEW c \in Callers,
           Dispatch(c) \/ AllDispatched(c) \/ SaveManager(c) \/ ProjectionDone(c)
    PROVE  HandsInv'
  <1>0. /\ op \in [Callers -> Ops] /\ cpc \in [Callers -> CallerPcs]
        /\ at \in [Callers -> 1 .. Len(Order) + 1]
        /\ work \in [Callers -> Seq(EnvelopeIds)] /\ InPlace(c)
    BY DEF HandsInv, PassInv, PassTypes
  <1>1. CASE /\ cpc[c] = "dispatch" /\ work' = [work EXCEPT ![c] = Tail(@)]
             /\ work[c] # <<>> /\ UNCHANGED <<cpc, op, at>>
    <2>1. \A d \in Callers \ {c} : work'[d] = work[d]
      BY <1>0, <1>1
    <2>2. InPlace(c)'
      BY <1>0, <1>1 DEF InPlace, Target
    <2> QED BY <1>0, <1>1, <2>1, <2>2, OnePlace
  <1>2. ASSUME NEW tag, NEW pos, Return(c, tag, pos)
        PROVE  HandsInv'
    BY <1>2, ReturnPlace
  <1>3. CASE AllDispatched(c) /\ cpc' = [cpc EXCEPT ![c] = "save"] /\ UNCHANGED <<op, work>>
    <2>1. /\ cpc[c] = "dispatch" /\ work[c] = <<>> /\ cpc'[c] = "save"
          /\ \A d \in Callers \ {c} : cpc'[d] = cpc[d]
      BY <1>0, <1>3 DEF AllDispatched
    <2>2. \A d \in Callers \ {c} : at'[d] = at[d]
      BY <1>0, <1>3 DEF AllDispatched, Return
    <2>3. InPlace(c)'
      BY <1>3, <2>1 DEF InPlace
    <2> QED BY <1>0, <1>3, <2>1, <2>2, <2>3, OnePlace
  <1>4. CASE SaveManager(c) /\ cpc' = [cpc EXCEPT ![c] = "save"] /\ UNCHANGED <<op, work>>
    <2>1. /\ cpc[c] = "saving" /\ cpc'[c] = "save"
          /\ \A d \in Callers \ {c} : cpc'[d] = cpc[d]
      BY <1>0, <1>4 DEF SaveManager
    <2>2. \A d \in Callers \ {c} : at'[d] = at[d]
      BY <1>0, <1>4 DEF SaveManager, Return, Fail
    <2>3. work[c] = <<>>
      BY <1>0, <2>1 DEF InPlace
    <2>4. InPlace(c)'
      BY <1>4, <2>1, <2>3 DEF InPlace
    <2> QED BY <1>0, <1>4, <2>1, <2>2, <2>4, OnePlace
  <1>5. CASE ProjectionDone(c)
    BY <1>2, <1>5 DEF ProjectionDone, Fail
  <1>6. CASE AllDispatched(c)
    BY <1>2, <1>3, <1>6 DEF AllDispatched
  <1>7. CASE SaveManager(c)
    BY <1>2, <1>4, <1>7 DEF SaveManager, Fail
  <1>8. CASE Dispatch(c)
    BY <1>1, <1>2, <1>8 DEF Dispatch, Fail
  <1> QED BY <1>5, <1>6, <1>7, <1>8

\* A new process has nothing in hand.
LEMMA CrashPlace ==
    ASSUME Crash
    PROVE  HandsInv'
  BY DEF Crash, HandsInv, InPlace, Ops

\* Every step leaves commands in hand only where they may be.
LEMMA PullHands ==
    ASSUME HandsInv, PassInv, PullNext
    PROVE  HandsInv'
  <1>1. CASE UNCHANGED <<cpc, op, at, work>>
    BY <1>1 DEF HandsInv, InPlace, Target
  <1>2. ASSUME NEW c \in Callers, CallProjection(c)
        PROVE  HandsInv'
    <2>1. PICK i \in 1 .. Len(Order) : Order[i] \in Projections /\ Begin(c, "projection", i, "lock")
      BY <1>2 DEF CallProjection
    <2>2. i \in 1 .. Len(Order) + 1 /\ "projection" \in Ops
      BY OrderType DEF Ops
    <2> QED BY <2>1, <2>2, BeginPlace
  <1>3. ASSUME NEW c \in Callers, CallRunProcessManagers(c)
        PROVE  HandsInv'
    <2>1. "run_process_managers" \in Ops
      BY DEF Ops
    <2>2. PICK pc : Begin(c, "run_process_managers", FirstManager, pc)
      BY <1>3 DEF CallRunProcessManagers
    <2>3. PICK i \in 1 .. Len(Order) + 1 : i = FirstManager
      BY FirstManagerType
    <2> QED BY <2>1, <2>2, <2>3, BeginPlace
  <1>4. ASSUME NEW c \in Callers, Await(c)
        PROVE  UNCHANGED <<cpc, op, at, work>>
    BY <1>4 DEF Await, callerVars
  <1>5. ASSUME NEW e \in Events, Write(e)
        PROVE  UNCHANGED <<cpc, op, at, work>>
    BY <1>5 DEF Write, callerVars
  <1>6. ASSUME NEW c \in Callers, StreamError(c) \/ Abandon(c)
        PROVE  HandsInv'
    BY <1>6, ReturnPlace DEF StreamError, Abandon, Fail
  <1> QED
    BY <1>1, <1>2, <1>3, <1>4, <1>5, <1>6, PassPlace, ReadPlace, DispatchPlace
       DEF PullNext, CallerStep, PassStep

\* In the beginning nobody has any.
LEMMA InitHands ==
    ASSUME RunnersInit
    PROVE  HandsInv
  BY DEF RunnersInit, HandsInv, InPlace, Ops

\* A command belongs to one event.
LEMMA OwedIs ==
    ASSUME NEW m, NEW k
    PROVE  \A x : x \in Owed(m, k) <=> \E n \in 0 .. k - 1 : x \in Range(Answers(m, n))
  BY DEF Owed

\* A runner that is given event n moves past it and its answers are in what it
\* produced, or it had moved past it before.
LEMMA HandedOver ==
    ASSUME PassInv, NEW r \in Runner, NEW n \in Nat, n < Len(log), n <= checkpoint[r].pos,
           checkpoint'[r] = AfterEvent(checkpoint[r], n),
           \A q \in Runner \ {r} : checkpoint'[q] = checkpoint[q]
    PROVE  \A m \in Managers :
               \/ checkpoint'[m].pos = checkpoint[m].pos
               \/ /\ checkpoint'[m].pos = checkpoint[m].pos + 1
                  /\ checkpoint[m].pos < Len(log)
                  /\ m = r /\ checkpoint[m].pos = n
                  /\ Answers(m, checkpoint[m].pos) = Produced(r, n)
  <1>0. /\ checkpoint \in [Runner -> Checkpoints] /\ log \in Seq(Events)
        /\ checkpoint[r] \in Checkpoints /\ IsCursor(checkpoint[r]) /\ checkpoint[r].pos \in Nat
    BY DEF PassInv, PassTypes, CheckpointsAreCursors, Checkpoints
  <1>1. AfterEvent(checkpoint[r], n).pos = IF n = checkpoint[r].pos THEN n + 1 ELSE checkpoint[r].pos
    BY <1>0, AfterEventIsCursor
  <1>3. n = checkpoint[r].pos => Produced(r, n) = Answers(r, n)
    BY <1>0 DEF Produced
  <1>4. ASSUME NEW m \in Managers
        PROVE  \/ checkpoint'[m].pos = checkpoint[m].pos
               \/ /\ checkpoint'[m].pos = checkpoint[m].pos + 1
                  /\ checkpoint[m].pos < Len(log)
                  /\ m = r /\ checkpoint[m].pos = n
                  /\ Answers(m, checkpoint[m].pos) = Produced(r, n)
    <2>1. m \in Runner
      BY DEF Runner
    <2>2. CASE m # r
      BY <2>1, <2>2
    <2>3. CASE m = r /\ n # checkpoint[r].pos
      BY <1>1, <2>3
    <2>4. CASE m = r /\ n = checkpoint[r].pos
      BY <1>0, <1>1, <1>3, <2>4
    <2> QED BY <2>2, <2>3, <2>4
  <1> QED BY <1>4

\* What a concatenation holds.
LEMMA RangeConcat ==
    ASSUME NEW S, NEW s \in Seq(S), NEW t \in Seq(S)
    PROVE  Range(s \o t) = Range(s) \cup Range(t)
  <1>1. /\ s \o t \in Seq(S) /\ Len(s \o t) = Len(s) + Len(t) /\ Len(s) \in Nat /\ Len(t) \in Nat
        /\ \A i \in 1 .. Len(s) : (s \o t)[i] = s[i]
        /\ \A i \in 1 .. Len(t) : (s \o t)[Len(s) + i] = t[i]
    OBVIOUS
  <1>2. /\ \A x : x \in Range(s) <=> \E i \in 1 .. Len(s) : x = s[i]
        /\ \A x : x \in Range(t) <=> \E i \in 1 .. Len(t) : x = t[i]
        /\ \A x : x \in Range(s \o t) <=> \E i \in 1 .. Len(s) + Len(t) : x = (s \o t)[i]
    BY <1>1 DEF Range
  <1>3. ASSUME NEW x \in Range(s \o t) PROVE x \in Range(s) \cup Range(t)
    <2>1. PICK i \in 1 .. Len(s) + Len(t) : x = (s \o t)[i]
      BY <1>2
    <2>2. CASE i \in 1 .. Len(s)
      BY <1>1, <1>2, <2>1, <2>2
    <2>3. CASE i \notin 1 .. Len(s)
      <3>1. i - Len(s) \in 1 .. Len(t) /\ i = Len(s) + (i - Len(s))
        BY <1>1, <2>1, <2>3
      <3>2. x = t[i - Len(s)]
        BY <1>1, <2>1, <3>1
      <3> QED BY <1>2, <3>1, <3>2
    <2> QED BY <2>2, <2>3
  <1>4. ASSUME NEW x \in Range(s) PROVE x \in Range(s \o t)
    <2>1. PICK i \in 1 .. Len(s) : x = s[i]
      BY <1>2
    <2>2. i \in 1 .. Len(s) + Len(t)
      BY <1>1
    <2> QED BY <1>1, <1>2, <2>1, <2>2
  <1>5. ASSUME NEW x \in Range(t) PROVE x \in Range(s \o t)
    <2>1. PICK i \in 1 .. Len(t) : x = t[i]
      BY <1>2
    <2>2. Len(s) + i \in 1 .. Len(s) + Len(t)
      BY <1>1
    <2> QED BY <1>1, <1>2, <2>1, <2>2
  <1> QED BY <1>3, <1>4, <1>5

\* What a sequence holds is its head and what its tail holds.
LEMMA RangeTail ==
    ASSUME NEW S, NEW s \in Seq(S), s # <<>>
    PROVE  Range(s) = {Head(s)} \cup Range(Tail(s))
  <1>1. /\ Tail(s) \in Seq(S) /\ Len(Tail(s)) = Len(s) - 1 /\ Len(s) \in Nat /\ Len(s) >= 1
        /\ Head(s) = s[1] /\ \A i \in 1 .. Len(s) - 1 : Tail(s)[i] = s[i + 1]
    OBVIOUS
  <1>2. /\ \A x : x \in Range(s) <=> \E i \in 1 .. Len(s) : x = s[i]
        /\ \A x : x \in Range(Tail(s)) <=> \E i \in 1 .. Len(s) - 1 : x = Tail(s)[i]
    <2>1. DOMAIN s = 1 .. Len(s)
      OBVIOUS
    <2>2. DOMAIN Tail(s) = 1 .. Len(s) - 1
      BY <1>1
    <2>3. ASSUME NEW t PROVE \A x : x \in Range(t) <=> \E i \in DOMAIN t : x = t[i]
      BY DEF Range
    <2> QED BY <2>1, <2>2, <2>3
  <1>3. ASSUME NEW x \in Range(s) PROVE x \in {Head(s)} \cup Range(Tail(s))
    <2>1. PICK i \in 1 .. Len(s) : x = s[i]
      BY <1>2
    <2>2. CASE i = 1
      BY <1>1, <2>1, <2>2
    <2>3. CASE i # 1
      <3>1. i - 1 \in 1 .. Len(s) - 1 /\ (i - 1) + 1 = i
        BY <1>1, <2>3
      <3>2. x = Tail(s)[i - 1]
        BY <1>1, <2>1, <3>1
      <3> QED BY <1>2, <3>1, <3>2
    <2> QED BY <2>2, <2>3
  <1>4. ASSUME NEW x \in Range(Tail(s)) PROVE x \in Range(s)
    <2>1. PICK i \in 1 .. Len(s) - 1 : x = Tail(s)[i]
      BY <1>2
    <2>2. i + 1 \in 1 .. Len(s) /\ x = s[i + 1]
      BY <1>1, <2>1
    <2> QED BY <1>2, <2>2
  <1>5. Head(s) \in Range(s)
    <2>1. 1 \in 1 .. Len(s)
      BY <1>1
    <2> QED BY <1>1, <1>2, <2>1
  <1> QED BY <1>3, <1>4, <1>5

=============================================================================
