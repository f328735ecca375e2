-------------------------- MODULE Coverage_proofs ---------------------------
(***************************************************************************)
(* What projection() and run_process_managers() return covers everything   *)
(* that was in the log when they were called, for any number of runners,   *)
(* callers and events, with broken streams, failing dead-letter logs and   *)
(* checkpoint files, abandoned calls and crashes; provided a stream does   *)
(* not end before its CaughtUp sentinel (process_stream takes the end of   *)
(* the stream for it).                                                     *)
(*                                                                         *)
(* The calls overlap, so a manager this call has visited may be moved or   *)
(* saved by another one before this call returns.  The argument is that    *)
(* both only go up: no position goes back, and no file is ahead of the     *)
(* position in memory it is next overwritten with (CoverInv).              *)
(***************************************************************************)
EXTENDS Runners_proofs, WellFoundedInduction

Visiting(c) == cpc[c] \in {"lock", "subscribe", "read"} /\ op[c] = "run_process_managers"

\* The managers that have had their turn are past what was in the log at the call;
\* the ones saved so far are so on disk.
Covers(c) ==
    /\ reply[c].short = 0
    /\ start[c] <= Len(log)
    /\ cpc[c] = "read" => start[c] <= upto[c]
    /\ Visiting(c) =>
           /\ FirstManager <= at[c]
           /\ \A j \in FirstManager .. at[c] - 1 : start[c] <= checkpoint[Order[j]].pos
    /\ cpc[c] \in {"dispatch", "save", "saving"} =>
           \A j \in FirstManager .. Len(Order) : start[c] <= checkpoint[Order[j]].pos
    /\ cpc[c] \in {"save", "saving"} =>
           /\ FirstManager <= at[c]
           /\ \A j \in FirstManager .. at[c] - 1 : start[c] <= file[Order[j]].pos

CoverTypes ==
    /\ start \in [Callers -> Nat] /\ upto \in [Callers -> Nat]
    /\ DOMAIN op = Callers /\ DOMAIN reply = Callers

FilesBehind == \A r \in Runner : file[r].pos <= checkpoint[r].pos

CoverInv == CoverTypes /\ FilesBehind /\ \A c \in Callers : Covers(c)

\* The log, the positions and the files go up.
Ahead ==
    /\ Len(log) <= Len(log')
    /\ \A r \in Runner : /\ checkpoint[r].pos <= checkpoint'[r].pos
                         /\ file[r].pos <= file'[r].pos

\* Numbers are numbers.
LEMMA Numbers ==
    ASSUME PassInv
    PROVE  /\ Len(log) \in Nat /\ Len(Order) \in Nat /\ FirstManager \in 1 .. Len(Order) + 1
           /\ \A r \in Runner : checkpoint[r].pos \in Nat /\ file[r].pos \in Nat
           /\ \A c \in Callers : at[c] \in 1 .. Len(Order) + 1
  <1>1. log \in Seq(Events)
    BY DEF PassInv, PassTypes
  <1> QED BY <1>1, FirstManagerType, OrderType DEF PassInv, PassTypes, Checkpoints

\* Other callers' calls go on covering the log.
LEMMA OthersCover ==
    ASSUME CoverInv, PassInv, PassInv', Ahead, NEW d \in Callers,
           /\ cpc'[d] = cpc[d] /\ op'[d] = op[d] /\ at'[d] = at[d] /\ upto'[d] = upto[d]
           /\ start'[d] = start[d] /\ reply'[d] = reply[d]
    PROVE  Covers(d)'
  <1>0. /\ Covers(d) /\ start[d] \in Nat /\ upto[d] \in Nat /\ Len(log') \in Nat
    BY Numbers DEF CoverInv, CoverTypes, PassInv, PassTypes
  <1>1. ASSUME NEW j \in FirstManager .. Len(Order)
        PROVE  /\ start[d] <= checkpoint[Order[j]].pos => start[d] <= checkpoint'[Order[j]].pos
               /\ start[d] <= file[Order[j]].pos => start[d] <= file'[Order[j]].pos
    <2>1. j \in 1 .. Len(Order)
      BY Numbers
    <2>2. PICK r \in Runner : r = Order[j]
      BY <2>1, OrderType
    <2>3. /\ checkpoint[r].pos \in Nat /\ file[r].pos \in Nat /\ checkpoint'[r].pos \in Nat
          /\ file'[r].pos \in Nat
      BY DEF PassInv, PassTypes, Checkpoints
    <2>4. checkpoint[r].pos <= checkpoint'[r].pos /\ file[r].pos <= file'[r].pos
      BY DEF Ahead
    <2>5. PICK n \in Nat : n = start[d]
      BY <1>0
    <2>6. /\ n <= checkpoint[r].pos => n <= checkpoint'[r].pos
          /\ n <= file[r].pos => n <= file'[r].pos
      BY <2>3, <2>4
    <2> QED BY <2>2, <2>5, <2>6
  <1>2. at[d] - 1 <= Len(Order) /\ at[d] \in Int /\ FirstManager \in Int /\ Len(Order) \in Int
    BY Numbers
  <1>3. \A j \in FirstManager .. at[d] - 1 : j \in FirstManager .. Len(Order)
    BY <1>2
  <1>4. start'[d] <= Len(log')
    BY <1>0, Numbers DEF Covers, Ahead
  <1> QED BY <1>0, <1>1, <1>3, <1>4 DEF Covers, Visiting

\* A step of one caller.
LEMMA OneCovers ==
    ASSUME CoverInv, PassInv, PassInv', Ahead, CoverTypes', FilesBehind', NEW c \in Callers,
           \A d \in Callers \ {c} :
               /\ cpc'[d] = cpc[d] /\ op'[d] = op[d] /\ at'[d] = at[d] /\ upto'[d] = upto[d]
               /\ start'[d] = start[d] /\ reply'[d] = reply[d],
           Covers(c)'
    PROVE  CoverInv'
  <1>1. ASSUME NEW d \in Callers PROVE Covers(d)'
    <2>1. CASE d = c
      BY <2>1
    <2>2. CASE d # c
      BY <2>2, OthersCover
    <2> QED BY <2>1, <2>2
  <1> QED BY <1>1 DEF CoverInv

\* Steps that leave the log, the runners and the files alone.
LEMMA SameIsAhead ==
    ASSUME PassInv, CoverInv, UNCHANGED <<log, checkpoint, file>>
    PROVE  Ahead /\ FilesBehind'
  <1>1. Ahead
    BY Numbers DEF Ahead
  <1> QED BY <1>1 DEF CoverInv, FilesBehind

\* A call that returns at least what it had to.
LEMMA ReturnCovers ==
    ASSUME CoverInv, PassInv, PassInv', Ahead, FilesBehind', NEW c \in Callers, NEW tag,
           NEW pos \in Nat, Return(c, tag, pos), start[c] <= pos
    PROVE  CoverInv'
  <1>0. /\ start \in [Callers -> Nat] /\ upto \in [Callers -> Nat]
        /\ DOMAIN op = Callers /\ DOMAIN reply = Callers /\ start[c] \in Nat
        /\ cpc \in [Callers -> CallerPcs] /\ at \in [Callers -> 1 .. Len(Order) + 1]
    BY DEF CoverInv, CoverTypes, PassInv, PassTypes
  <1>1. /\ cpc'[c] = "idle" /\ start'[c] = 0
        /\ \A d \in Callers \ {c} :
               /\ cpc'[d] = cpc[d] /\ at'[d] = at[d] /\ upto'[d] = upto[d] /\ start'[d] = start[d]
    BY <1>0 DEF Return
  <1>2. /\ DOMAIN op' = Callers /\ \A d \in Callers \ {c} : op'[d] = op[d]
    BY <1>0 DEF Return
  <1>3. /\ DOMAIN reply' = Callers /\ reply'[c].short = (IF pos < start[c] THEN start[c] - pos ELSE 0)
        /\ \A d \in Callers \ {c} : reply'[d] = reply[d]
    BY <1>0 DEF Return
  <1>4. start' \in [Callers -> Nat] /\ upto' \in [Callers -> Nat]
    BY <1>0 DEF Return
  <1>5. reply'[c].short = 0
    BY <1>0, <1>3
  <1>6. 0 <= Len(log')
    BY Numbers DEF PassInv, PassTypes
  <1>7. Covers(c)'
    BY <1>1, <1>5, <1>6 DEF Covers, Visiting
  <1>8. CoverTypes'
    BY <1>2, <1>3, <1>4 DEF CoverTypes
  <1> QED BY <1>1, <1>2, <1>3, <1>7, <1>8, OneCovers

\* A call begins.
LEMMA BeginCovers ==
    ASSUME CoverInv, PassInv, PassInv', NEW c \in Callers, NEW o, NEW i \in 1 .. Len(Order) + 1,
           NEW pc, Begin(c, o, i, pc),
           \/ pc = "lock" /\ o = "projection"
           \/ pc = "lock" /\ o = "run_process_managers" /\ i = FirstManager
           \/ pc = "dispatch" /\ FirstManager > Len(Order)
    PROVE  CoverInv'
  <1>0. /\ start \in [Callers -> Nat] /\ upto \in [Callers -> Nat]
        /\ DOMAIN op = Callers /\ DOMAIN reply = Callers
        /\ cpc \in [Callers -> CallerPcs] /\ at \in [Callers -> 1 .. Len(Order) + 1]
    BY DEF CoverInv, CoverTypes, PassInv, PassTypes
  <1>1. UNCHANGED <<log, checkpoint, file, upto>>
    BY DEF Begin
  <1>2. /\ cpc'[c] = pc /\ at'[c] = i /\ start'[c] = Len(log) /\ start' \in [Callers -> Nat]
        /\ \A d \in Callers \ {c} : cpc'[d] = cpc[d] /\ at'[d] = at[d] /\ start'[d] = start[d]
    BY <1>0, Numbers DEF Begin
  <1>3. /\ DOMAIN op' = Callers /\ op'[c] = o /\ \A d \in Callers \ {c} : op'[d] = op[d]
    BY <1>0 DEF Begin
  <1>4. /\ DOMAIN reply' = Callers /\ reply'[c].short = 0
        /\ \A d \in Callers \ {c} : reply'[d] = reply[d]
    BY <1>0 DEF Begin, NoReply
  <1>5. Ahead /\ FilesBehind'
    BY <1>1, SameIsAhead
  <1>6. FirstManager \in Int /\ Len(Order) \in Int /\ Len(log) \in Nat
    BY Numbers
  <1>7. Covers(c)'
    <2>1. CASE pc = "lock" /\ o = "projection"
      BY <1>1, <1>2, <1>3, <1>4, <1>6, <2>1 DEF Covers, Visiting
    <2>2. CASE pc = "lock" /\ o = "run_process_managers" /\ i = FirstManager
      <3>1. FirstManager .. i - 1 = {}
        BY <1>6, <2>2
      <3> QED BY <1>1, <1>2, <1>3, <1>4, <1>6, <2>2, <3>1 DEF Covers, Visiting
    <2>3. CASE pc = "dispatch" /\ FirstManager > Len(Order)
      <3>1. FirstManager .. Len(Order) = {}
        BY <1>6, <2>3
      <3> QED BY <1>1, <1>2, <1>3, <1>4, <1>6, <2>3, <3>1 DEF Covers, Visiting
    <2> QED BY <2>1, <2>2, <2>3
  <1>8. CoverTypes'
    BY <1>0, <1>1, <1>2, <1>3, <1>4 DEF CoverTypes
  <1> QED BY <1>1, <1>2, <1>3, <1>4, <1>5, <1>7, <1>8, OneCovers

-----------------------------------------------------------------------------
(* The actions                                                              *)

\* The types before a step.
LEMMA CoverFacts ==
    ASSUME CoverInv, PassInv
    PROVE  /\ start \in [Callers -> Nat] /\ upto \in [Callers -> Nat]
           /\ DOMAIN op = Callers /\ DOMAIN reply = Callers
           /\ cpc \in [Callers -> CallerPcs] /\ at \in [Callers -> 1 .. Len(Order) + 1]
           /\ FilesBehind /\ \A c \in Callers : Covers(c)
  BY DEF CoverInv, CoverTypes, PassInv, PassTypes

\* An event is appended.
LEMMA WriteCovers ==
    ASSUME CoverInv, PassInv, PassInv', NEW e \in Events, Write(e)
    PROVE  CoverInv'
  <1>1. /\ log' = Append(log, e) /\ log \in Seq(Events)
        /\ UNCHANGED <<checkpoint, file, cpc, op, at, upto, start, reply>>
    BY DEF Write, callerVars, PassInv, PassTypes
  <1>2. Len(log') = Len(log) + 1 /\ Len(log) \in Nat
    BY <1>1
  <1>3. Ahead
    BY <1>1, <1>2, Numbers DEF Ahead
  <1>4. CoverTypes' /\ FilesBehind'
    BY <1>1 DEF CoverInv, CoverTypes, FilesBehind
  <1>5. \A d \in Callers : Covers(d)'
    BY <1>1, <1>3, OthersCover
  <1> QED BY <1>4, <1>5 DEF CoverInv

\* Taking a lock, and waiting for it, is no progress.
LEMMA LockCovers ==
    ASSUME CoverInv, PassInv, PassInv', NEW c \in Callers,
           Acquire(c) \/ Await(c) \/ LockForSave(c)
    PROVE  CoverInv'
  <1>0. UNCHANGED <<log, checkpoint, file, op, at, upto, start, reply>>
    BY DEF Acquire, Await, LockForSave, callerVars
  <1>1. /\ Ahead /\ FilesBehind' /\ CoverTypes'
    BY <1>0, SameIsAhead DEF CoverInv, CoverTypes
  <1>2. CASE Await(c)
    <2>1. UNCHANGED cpc
      BY <1>2 DEF Await, callerVars
    <2>2. \A d \in Callers : Covers(d)'
      BY <1>0, <1>1, <2>1, OthersCover
    <2> QED BY <1>1, <2>2 DEF CoverInv
  <1>3. CASE Acquire(c)
    <2>1. /\ cpc[c] = "lock" /\ cpc'[c] = "subscribe" /\ \A d \in Callers \ {c} : cpc'[d] = cpc[d]
      BY <1>3, CoverFacts DEF Acquire
    <2>2. Covers(c)'
      BY <1>0, <2>1, CoverFacts DEF Covers, Visiting
    <2> QED BY <1>0, <1>1, <2>1, <2>2, OneCovers
  <1>4. CASE LockForSave(c)
    <2>1. /\ cpc[c] = "save" /\ cpc'[c] = "saving" /\ \A d \in Callers \ {c} : cpc'[d] = cpc[d]
      BY <1>4, CoverFacts DEF LockForSave
    <2>2. Covers(c)'
      BY <1>0, <2>1, CoverFacts DEF Covers, Visiting
    <2> QED BY <1>0, <1>1, <2>1, <2>2, OneCovers
  <1> QED BY <1>2, <1>3, <1>4

\* The subscription is opened when what the call has to cover is in the log.
LEMMA SubscribeCovers ==
    ASSUME CoverInv, PassInv, PassInv', NEW c \in Callers, Subscribe(c)
    PROVE  CoverInv'
  <1>0. UNCHANGED <<log, checkpoint, file, op, at, start, reply>>
    BY DEF Subscribe
  <1>1. /\ cpc[c] = "subscribe" /\ cpc'[c] = "read" /\ upto'[c] = Len(log)
        /\ upto' \in [Callers -> Nat]
        /\ \A d \in Callers \ {c} : cpc'[d] = cpc[d] /\ upto'[d] = upto[d]
    BY CoverFacts, Numbers DEF Subscribe
  <1>2. /\ Ahead /\ FilesBehind' /\ CoverTypes'
    BY <1>0, <1>1, SameIsAhead DEF CoverInv, CoverTypes
  <1>3. Covers(c)'
    BY <1>0, <1>1, CoverFacts DEF Covers, Visiting
  <1> QED BY <1>0, <1>1, <1>2, <1>3, OneCovers

\* An event moves one runner up.
LEMMA ReadCovers ==
    ASSUME CoverInv, PassInv, NEW c \in Callers, ReadEvent(c)
    PROVE  CoverInv'
  <1>0. UNCHANGED <<log, file, cpc, op, at, upto, start, reply>>
    BY DEF ReadEvent
  <1>1. PICK t \in Runner : t = Target(c)
    BY ReadEventInv
  <1>2. /\ PassInv' /\ \A r \in Runner \ {t} : checkpoint'[r] = checkpoint[r]
        /\ \/ checkpoint'[t].pos = checkpoint[t].pos
           \/ checkpoint'[t].pos = checkpoint[t].pos + 1
    BY <1>1, ReadEventInv
  <1>3. ASSUME NEW r \in Runner
        PROVE  /\ checkpoint[r].pos <= checkpoint'[r].pos /\ file[r].pos <= file'[r].pos
               /\ file'[r].pos <= checkpoint'[r].pos
    <2>1. checkpoint[r].pos \in Nat /\ file[r].pos \in Nat /\ file[r].pos <= checkpoint[r].pos
      BY Numbers DEF CoverInv, FilesBehind
    <2>2. checkpoint'[r].pos = checkpoint[r].pos \/ checkpoint'[r].pos = checkpoint[r].pos + 1
      BY <1>2
    <2> QED BY <1>0, <2>1, <2>2
  <1>4. Ahead /\ FilesBehind'
    BY <1>0, <1>3, Numbers DEF Ahead, FilesBehind
  <1>5. CoverTypes'
    BY <1>0 DEF CoverInv, CoverTypes
  <1>6. \A d \in Callers : Covers(d)'
    BY <1>0, <1>2, <1>4, OthersCover
  <1> QED BY <1>4, <1>5, <1>6 DEF CoverInv

\* A catch-up that saw CaughtUp has taken its runner past the call's share.
LEMMA StreamDoneCovers ==
    ASSUME CoverInv, PassInv, "eof" \notin Faults, NEW c \in Callers, StreamDone(c)
    PROVE  /\ cpc[c] = "read" /\ at[c] \in 1 .. Len(Order) /\ Target(c) \in Runner
           /\ start[c] <= checkpoint[Target(c)].pos
  <1>1. cpc[c] = "read" /\ next[c] >= upto[c]
    BY DEF StreamDone
  <1>2. PICK t \in Runner : t = Target(c)
    BY <1>1, CallerFacts
  <1>3. next[c] <= checkpoint[t].pos /\ next[c] \in Nat /\ checkpoint[t].pos \in Nat
    BY <1>1, <1>2, CallerFacts, Numbers
  <1>4. start[c] <= upto[c] /\ start[c] \in Nat /\ upto[c] \in Nat
    BY <1>1, CoverFacts DEF Covers
  <1>5. start[c] <= checkpoint[t].pos
    BY <1>1, <1>3, <1>4
  <1> QED BY <1>1, <1>2, <1>5, CallerFacts

\* Writing a runner's checkpoint moves its file up, and no further.
LEMMA SaveIsAhead ==
    ASSUME CoverInv, PassInv, NEW t \in Runner, UNCHANGED <<log, checkpoint>>,
           file' = [file EXCEPT ![t] = checkpoint[t]]
    PROVE  /\ Ahead /\ FilesBehind' /\ file'[t] = checkpoint[t]
           /\ \A r \in Runner : file[r].pos <= file'[r].pos /\ file'[r].pos \in Nat
  <1>1. file \in [Runner -> Checkpoints]
    BY DEF PassInv, PassTypes
  <1>2. file'[t] = checkpoint[t] /\ \A r \in Runner \ {t} : file'[r] = file[r]
    BY <1>1
  <1>3. ASSUME NEW r \in Runner
        PROVE  /\ file[r].pos <= file'[r].pos /\ file'[r].pos <= checkpoint[r].pos
               /\ checkpoint[r].pos <= checkpoint[r].pos /\ file'[r].pos \in Nat
    <2>1. checkpoint[r].pos \in Nat /\ file[r].pos \in Nat /\ file[r].pos <= checkpoint[r].pos
      BY Numbers DEF CoverInv, FilesBehind
    <2>2. file'[r] = file[r] \/ file'[r] = checkpoint[r]
      BY <1>2
    <2> QED BY <2>1, <2>2
  <1> QED BY <1>2, <1>3, Numbers DEF Ahead, FilesBehind

\* projection() returns a state that covers the log, or an error.
LEMMA ProjectionDoneCovers ==
    ASSUME CoverInv, PassInv, PassInv', "eof" \notin Faults, NEW c \in Callers, ProjectionDone(c)
    PROVE  CoverInv'
  <1>1. StreamDone(c) /\ UNCHANGED <<log, checkpoint>>
    BY DEF ProjectionDone
  <1>2. PICK t \in Runner : t = Target(c)
    BY <1>1, StreamDoneCovers
  <1>3. start[c] <= checkpoint[t].pos /\ checkpoint[t].pos \in Nat /\ start[c] \in Nat
    BY <1>1, <1>2, StreamDoneCovers, Numbers, CoverFacts
  <1>4. \/ /\ file' = [file EXCEPT ![t] = checkpoint[t]]
           /\ Return(c, "state", checkpoint[t].pos)
        \/ UNCHANGED file /\ Return(c, "error", start[c])
    BY <1>2 DEF ProjectionDone, Fail
  <1>5. CASE /\ file' = [file EXCEPT ![t] = checkpoint[t]]
             /\ Return(c, "state", checkpoint[t].pos)
    <2>1. Ahead /\ FilesBehind'
      BY <1>1, <1>5, SaveIsAhead
    <2> QED BY <1>3, <1>5, <2>1, ReturnCovers
  <1>6. CASE UNCHANGED file /\ Return(c, "error", start[c])
    <2>1. Ahead /\ FilesBehind' /\ start[c] <= start[c]
      BY <1>1, <1>3, <1>6, SameIsAhead
    <2> QED BY <1>3, <1>6, <2>1, ReturnCovers
  <1> QED BY <1>4, <1>5, <1>6

\* One more manager has had its turn.
LEMMA ManagerDoneCovers ==
    ASSUME CoverInv, PassInv, PassInv', "eof" \notin Faults, NEW c \in Callers, ManagerDone(c)
    PROVE  CoverInv'
  <1>0. /\ op[c] = "run_process_managers" /\ StreamDone(c)
        /\ UNCHANGED <<log, checkpoint, file, op, upto, start, reply>>
    BY DEF ManagerDone
  <1>1. /\ cpc[c] = "read" /\ at[c] \in 1 .. Len(Order)
        /\ start[c] <= checkpoint[Order[at[c]]].pos
    BY <1>0, StreamDoneCovers DEF Target
  <1>2. /\ at'[c] = at[c] + 1
        /\ cpc'[c] = IF at[c] < Len(Order) THEN "lock" ELSE "dispatch"
        /\ \A d \in Callers \ {c} : cpc'[d] = cpc[d] /\ at'[d] = at[d]
    BY CoverFacts DEF ManagerDone
  <1>3. /\ FirstManager <= at[c] /\ FirstManager \in Nat
        /\ \A j \in FirstManager .. at[c] - 1 : start[c] <= checkpoint[Order[j]].pos
    BY <1>0, <1>1, CoverFacts, Numbers DEF Covers, Visiting
  <1>4. /\ \A j \in FirstManager .. at[c] : start[c] <= checkpoint[Order[j]].pos
        /\ FirstManager <= at'[c]
    <2>1. \A j \in FirstManager .. at[c] : j \in FirstManager .. at[c] - 1 \/ j = at[c]
      BY <1>1, <1>3
    <2> QED BY <1>1, <1>2, <1>3, <2>1
  <1>5. Covers(c)'
    <2>1. CASE at[c] < Len(Order)
      <3>1. at'[c] - 1 = at[c]
        BY <1>1, <1>2
      <3> QED BY <1>0, <1>2, <1>4, <2>1, <3>1, CoverFacts DEF Covers, Visiting
    <2>2. CASE ~(at[c] < Len(Order))
      <3>1. at[c] = Len(Order)
        BY <1>1, <2>2, OrderType
      <3> QED BY <1>0, <1>2, <1>4, <2>2, <3>1, CoverFacts DEF Covers, Visiting
    <2> QED BY <2>1, <2>2
  <1>6. /\ Ahead /\ FilesBehind' /\ CoverTypes'
    BY <1>0, SameIsAhead DEF CoverInv, CoverTypes
  <1> QED BY <1>0, <1>2, <1>5, <1>6, OneCovers

\* A call begins: at a projection, at the first manager, or with nothing to visit.
LEMMA CallCovers ==
    ASSUME CoverInv, PassInv, PassInv', NEW c \in Callers,
           CallProjection(c) \/ CallRunProcessManagers(c)
    PROVE  CoverInv'
  <1>1. CASE CallProjection(c)
    <2>1. PICK i \in 1 .. Len(Order) : Begin(c, "projection", i, "lock")
      BY <1>1 DEF CallProjection
    <2>2. i \in 1 .. Len(Order) + 1
      BY OrderType
    <2> QED BY <2>1, <2>2, BeginCovers
  <1>2. CASE CallRunProcessManagers(c)
    <2>1. CASE FirstManager > Len(Order)
      <3>1. Begin(c, "run_process_managers", FirstManager, "dispatch")
        BY <1>2, <2>1 DEF CallRunProcessManagers
      <3> QED BY <2>1, <3>1, FirstManagerType, BeginCovers
    <2>2. CASE ~(FirstManager > Len(Order))
      <3>1. Begin(c, "run_process_managers", FirstManager, "lock")
        BY <1>2, <2>2 DEF CallRunProcessManagers
      <3> QED BY <3>1, FirstManagerType, BeginCovers
    <2> QED BY <2>1, <2>2
  <1> QED BY <1>1, <1>2

\* A call that fails or is abandoned promises nothing.
LEMMA FailCovers ==
    ASSUME CoverInv, PassInv, PassInv', NEW c \in Callers, NEW tag, Return(c, tag, start[c]),
           UNCHANGED <<log, checkpoint, file>>
    PROVE  CoverInv'
  <1>1. start[c] \in Nat /\ start[c] <= start[c]
    BY CoverFacts
  <1> QED BY <1>1, SameIsAhead, ReturnCovers

\* Dispatching changes no position.
LEMMA DispatchCovers ==
    ASSUME CoverInv, PassInv, PassInv', NEW c \in Callers, Dispatch(c)
    PROVE  CoverInv'
  <1>1. UNCHANGED <<log, checkpoint, file>>
    BY DEF Dispatch
  <1>2. CASE Fail(c)
    BY <1>1, <1>2, FailCovers DEF Fail
  <1>3. CASE UNCHANGED <<cpc, op, at, upto, start, reply>>
    <2>1. Ahead /\ FilesBehind' /\ CoverTypes'
      BY <1>1, <1>3, SameIsAhead DEF CoverInv, CoverTypes
    <2>2. \A d \in Callers : Covers(d)'
      BY <1>3, <2>1, OthersCover
    <2> QED BY <2>1, <2>2 DEF CoverInv
  <1> QED BY <1>2, <1>3 DEF Dispatch

\* The saves begin at the first manager, or there is nothing to save.
LEMMA AllDispatchedCovers ==
    ASSUME CoverInv, PassInv, PassInv', NEW c \in Callers, AllDispatched(c)
    PROVE  CoverInv'
  <1>1. cpc[c] = "dispatch" /\ UNCHANGED <<log, checkpoint, file>>
    BY DEF AllDispatched
  <1>2. CASE Return(c, "report", start[c])
    BY <1>1, <1>2, FailCovers
  <1>3. CASE /\ at' = [at EXCEPT ![c] = FirstManager]
             /\ cpc' = [cpc EXCEPT ![c] = "save"]
             /\ UNCHANGED <<op, upto, start, reply>>
    <2>1. /\ at'[c] = FirstManager /\ cpc'[c] = "save"
          /\ \A d \in Callers \ {c} : at'[d] = at[d] /\ cpc'[d] = cpc[d]
      BY <1>3, CoverFacts
    <2>2. FirstManager .. FirstManager - 1 = {} /\ FirstManager <= FirstManager
      BY Numbers
    <2>3. Covers(c)'
      BY <1>1, <1>3, <2>1, <2>2, CoverFacts DEF Covers, Visiting
    <2>4. Ahead /\ FilesBehind' /\ CoverTypes'
      BY <1>1, <1>3, SameIsAhead DEF CoverInv, CoverTypes
    <2> QED BY <1>3, <2>1, <2>3, <2>4, OneCovers
  <1> QED BY <1>2, <1>3 DEF AllDispatched

\* A set of numbers that is not empty has a least one.
LEMMA LeastNumber ==
    ASSUME NEW T, T \subseteq Nat, T # {}
    PROVE  \E x \in T : \A y \in T : x <= y
  <1> DEFINE Less == {ss \in Nat \X Nat : ss[1] < ss[2]}
  <1>1. IsWellFoundedOn(Less, Nat)
    BY NatLessThanWellFounded DEF OpToRel
  <1>2. \A x, y \in Nat : ~(<<y, x>> \in Less) => x <= y
    OBVIOUS
  <1> HIDE DEF Less
  <1>3. \E x \in T : \A y \in T : ~(<<y, x>> \in Less)
    BY <1>1, WFMin
  <1> QED BY <1>2, <1>3

\* The managers are the runners from FirstManager on.
LEMMA ManagersAreLast ==
    /\ \A j \in 1 .. Len(Order) : Order[j] \in Managers <=> j >= FirstManager
    /\ \A m \in Managers : \E j \in FirstManager .. Len(Order) : Order[j] = m
  <1>1. \A j \in 1 .. Len(Order) : Order[j] \in Managers <=> j >= FirstManager
    BY RunnersAssumption DEF FirstManager
  <1>2. ASSUME NEW m \in Managers
        PROVE  \E j \in FirstManager .. Len(Order) : Order[j] = m
    <2>1. DOMAIN Order = 1 .. Len(Order) /\ Len(Order) \in Nat
      BY RunnersAssumption
    <2>2. m \in Range(Order)
      BY RunnersAssumption DEF Runner
    <2>3. PICK j \in 1 .. Len(Order) : Order[j] = m
      BY <2>1, <2>2 DEF Range
    <2>4. j >= FirstManager
      BY <1>1, <2>3
    <2> QED BY <2>1, <2>3, <2>4, FirstManagerType
  <1> QED BY <1>1, <1>2

\* What a call whose managers are all saved may claim.
LEMMA LeastSavedCovers ==
    ASSUME NEW f \in [Runner -> Checkpoints], NEW n \in Nat, Managers # {},
           \A m \in Managers : n <= f[m].pos
    PROVE  LET least == CHOOSE k \in {f[m].pos : m \in Managers} :
                            \A m \in Managers : k <= f[m].pos
           IN  least \in Nat /\ n <= least
  <1> DEFINE T == {f[m].pos : m \in Managers}
  <1>1. \A m \in Managers : f[m].pos \in Nat
    BY DEF Runner, Checkpoints
  <1>2. T \subseteq Nat /\ T # {}
    BY <1>1
  <1>3. \E k \in T : \A y \in T : k <= y
    <2> HIDE DEF T
    <2> QED BY <1>2, LeastNumber
  <1>4. \E k \in T : \A m \in Managers : k <= f[m].pos
    BY <1>3
  <1>5. PICK least : least = CHOOSE k \in T : \A m \in Managers : k <= f[m].pos
    OBVIOUS
  <1>6. least \in T
    BY <1>4, <1>5
  <1>7. least \in Nat /\ n <= least
    BY <1>1, <1>6
  <1> QED BY <1>5, <1>7

\* A manager is saved; after the last one, all are past what the call had to cover.
LEMMA SaveManagerCovers ==
    ASSUME CoverInv, PassInv, PassInv', NEW c \in Callers, SaveManager(c)
    PROVE  CoverInv'
  <1>0. cpc[c] = "saving" /\ UNCHANGED <<log, checkpoint>>
    BY DEF SaveManager
  <1>1. CASE Fail(c) /\ UNCHANGED file
    BY <1>0, <1>1, FailCovers DEF Fail
  <1>2. PICK t \in Runner : t = Order[at[c]]
    BY <1>0, CallerFacts DEF Target
  <1>3. at[c] \in 1 .. Len(Order) /\ start[c] \in Nat /\ FirstManager \in Nat
    <2>1. at[c] \in 1 .. Len(Order)
      BY <1>0, CallerFacts
    <2>2. start[c] \in Nat
      BY CoverFacts
    <2> QED BY <2>1, <2>2, Numbers
  <1>4. /\ FirstManager <= at[c]
        /\ \A j \in FirstManager .. Len(Order) : start[c] <= checkpoint[Order[j]].pos
        /\ \A j \in FirstManager .. at[c] - 1 : start[c] <= file[Order[j]].pos
    BY <1>0, CoverFacts DEF Covers
  <1>5. ASSUME file' = [file EXCEPT ![t] = checkpoint[t]]
        PROVE  /\ Ahead /\ FilesBehind'
               /\ \A j \in FirstManager .. at[c] : start[c] <= file'[Order[j]].pos
    <2>1. /\ Ahead /\ FilesBehind' /\ file'[t] = checkpoint[t]
          /\ \A r \in Runner : /\ file[r].pos <= file'[r].pos
                               /\ file'[r].pos \in Nat /\ file[r].pos \in Nat
      BY <1>0, <1>5, SaveIsAhead, Numbers
    <2>2. ASSUME NEW j \in FirstManager .. at[c]
          PROVE  start[c] <= file'[Order[j]].pos
      <3>1. j \in 1 .. Len(Order) /\ j \in FirstManager .. Len(Order)
        BY <1>3, OrderType, Numbers
      <3>2. PICK r \in Runner : r = Order[j]
        BY <3>1, OrderType
      <3>3. CASE j = at[c]
        <4>1. r = t /\ start[c] <= checkpoint[r].pos
          BY <1>2, <1>4, <3>1, <3>2, <3>3
        <4> QED BY <2>1, <3>2, <4>1
      <3>4. CASE j # at[c]
        <4>1. j \in FirstManager .. at[c] - 1
          BY <1>3, <3>4
        <4>2. start[c] <= file[r].pos
          BY <1>4, <3>2, <4>1
        <4>3. start[c] <= file'[r].pos
          BY <1>3, <2>1, <4>2
        <4> QED BY <3>2, <4>3
      <3> QED BY <3>3, <3>4
    <2> QED BY <2>1, <2>2
  <1>6. CASE /\ file' = [file EXCEPT ![t] = checkpoint[t]]
             /\ at' = [at EXCEPT ![c] = @ + 1] /\ cpc' = [cpc EXCEPT ![c] = "save"]
             /\ UNCHANGED <<op, upto, start, reply>>
    <2>1. /\ at'[c] = at[c] + 1 /\ cpc'[c] = "save"
          /\ \A d \in Callers \ {c} : at'[d] = at[d] /\ cpc'[d] = cpc[d]
      BY <1>6, CoverFacts
    <2>2. at'[c] - 1 = at[c] /\ FirstManager <= at'[c]
      BY <1>3, <1>4, <2>1
    <2>3. Covers(c)'
      BY <1>0, <1>4, <1>5, <1>6, <2>1, <2>2, CoverFacts DEF Covers, Visiting
    <2>4. CoverTypes'
      BY <1>6, CoverFacts DEF CoverTypes
    <2> QED BY <1>5, <1>6, <2>1, <2>3, <2>4, OneCovers
  <1>7. CASE /\ file' = [file EXCEPT ![t] = checkpoint[t]]
             /\ at[c] = Len(Order) /\ Return(c, "report", LeastSaved')
    <2>1. \A j \in FirstManager .. Len(Order) : start[c] <= file'[Order[j]].pos
      BY <1>5, <1>7
    <2>2. \A m \in Managers : start[c] <= file'[m].pos
      BY <2>1, ManagersAreLast
    <2>3. Managers # {}
      BY <1>3, <1>4, ManagersAreLast
    <2>4. file' \in [Runner -> Checkpoints]
      BY DEF PassInv, PassTypes
    <2>5. LeastSaved' \in Nat /\ start[c] <= LeastSaved'
      BY <1>3, <2>2, <2>3, <2>4, LeastSavedCovers DEF LeastSaved
    <2> QED BY <1>5, <1>7, <2>5, ReturnCovers
  <1> QED BY <1>1, <1>2, <1>6, <1>7 DEF SaveManager, Target

\* After a restart no call is under way.
LEMMA CrashCovers ==
    ASSUME CoverInv, PassInv, PassInv', Crash
    PROVE  CoverInv'
  <1>1. /\ checkpoint' = file' /\ log' = log
        /\ cpc' = [c \in Callers |-> "idle"] /\ op' = [c \in Callers |-> "none"]
        /\ upto' = [c \in Callers |-> 0] /\ start' = [c \in Callers |-> 0]
        /\ reply' = [c \in Callers |-> NoReply]
    BY DEF Crash
  <1>2. CoverTypes'
    BY <1>1 DEF CoverTypes
  <1>3. FilesBehind'
    <2>1. \A r \in Runner : file'[r].pos \in Nat
      BY DEF PassInv, PassTypes, Checkpoints
    <2> QED BY <1>1, <2>1 DEF FilesBehind
  <1>4. \A c \in Callers : Covers(c)'
    <2>1. 0 <= Len(log)
      BY Numbers
    <2> QED BY <1>1, <2>1 DEF Covers, Visiting, NoReply
  <1> QED BY <1>2, <1>3, <1>4 DEF CoverInv

-----------------------------------------------------------------------------
(* The invariant                                                            *)

\* In the beginning nobody has called.
LEMMA InitCovers ==
    ASSUME RunnersInit
    PROVE  CoverInv
  BY DEF RunnersInit, CoverInv, CoverTypes, FilesBehind, Covers, Visiting, NoReply, Fresh

\* No step disturbs it, unless a stream ends without CaughtUp.
LEMMA NextCovers ==
    ASSUME CoverInv, PassInv, "eof" \notin Faults, [Next]_runnerVars
    PROVE  CoverInv'
  <1>0. PassInv'
    BY NextInv
  <1>1. CASE UNCHANGED runnerVars
    BY <1>1 DEF runnerVars, CoverInv, CoverTypes, FilesBehind, Covers, Visiting
  <1>2. CASE Crash
    BY <1>0, <1>2, CrashCovers
  <1>3. CASE \E e \in Events : Write(e)
    BY <1>0, <1>3, WriteCovers
  <1>4. ASSUME NEW c \in Callers, StreamError(c) \/ Abandon(c)
        PROVE  CoverInv'
    <2>1. /\ Return(c, "error", start[c]) \/ Return(c, "none", start[c])
          /\ UNCHANGED <<log, checkpoint, file>>
      BY <1>4 DEF StreamError, Abandon, Fail
    <2> QED BY <1>0, <2>1, FailCovers
  <1>5. ASSUME NEW c \in Callers,
               \/ CallProjection(c) \/ CallRunProcessManagers(c)
               \/ CallerStep(c) \/ StreamError(c) \/ Abandon(c)
        PROVE  CoverInv'
    BY <1>0, <1>4, <1>5, CallCovers, LockCovers, SubscribeCovers, ReadCovers,
       ProjectionDoneCovers, ManagerDoneCovers, DispatchCovers, AllDispatchedCovers,
       SaveManagerCovers DEF CallerStep, PassStep
  <1> QED BY <1>1, <1>2, <1>3, <1>5 DEF Next, PullNext

\* For every number of runners and callers, and whatever fails short of a stream
\* that ends before its sentinel: a call that returns a state or a report has
\* covered all that was in the log when it was made (store.rs:303-310, 331-336).
THEOREM CallsCover ==
    ASSUME "eof" \notin Faults
    PROVE  Spec => []CallsCoverTheLog
  <1>1. RunnersInit => PassInv /\ CoverInv
    BY InitInv, InitCovers
  <1>2. PassInv /\ CoverInv /\ [Next]_runnerVars => (PassInv /\ CoverInv)'
    BY NextInv, NextCovers
  <1>3. PassInv /\ CoverInv => CallsCoverTheLog
    BY DEF CoverInv, Covers, CallsCoverTheLog
  <1> QED BY <1>1, <1>2, <1>3, PTL DEF Spec

=============================================================================
