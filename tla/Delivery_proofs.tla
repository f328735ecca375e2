-------------------------- MODULE Delivery_proofs ---------------------------
(***************************************************************************)
(* The closed loop, for any number of runners, callers, events, commands   *)
(* and crashes: what the aggregates record follows from a command and can  *)
(* be read as such, a command takes effect at most once for each time the  *)
(* process ran and, as long as only one task runs the managers, what a     *)
(* saved position covers has been delivered.                               *)
(***************************************************************************)
EXTENDS Delivery, Coverage_proofs, FiniteSetTheorems

Answered3 == {"none", "ok", "failed"}

\* The process holds nothing while it is down, and an answer is awaited only while
\* a command is dispatched.
OwnInv ==
    /\ open \in BOOLEAN
    /\ answer \in [Callers -> Answered3]
    /\ \A c \in Callers : answer[c] # "none" => cpc[c] = "dispatch" /\ work[c] # <<>>
    /\ letters \subseteq EnvelopeIds
    /\ crashes \in 0 .. CrashLimit
    /\ Len(log) <= LogLimit
    /\ ~open => checkpoint = file /\ \A c \in Callers : cpc[c] = "idle"

BaseInv == PassInv /\ LocksInv /\ Counted /\ HandsInv /\ OwnInv

\* The log is only ever extended.
LogGrows ==
    /\ log' \in Seq(Events)
    /\ Len(log) <= Len(log')
    /\ \A n \in 1 .. Len(log) : log'[n] = log[n]

-----------------------------------------------------------------------------
(* Steps                                                                    *)

\* What BaseInv says, one by one.
LEMMA BaseFacts ==
    ASSUME BaseInv
    PROVE  /\ PassInv /\ LocksInv /\ Counted /\ HandsInv /\ OwnInv
           /\ log \in Seq(Events) /\ Len(log) \in Nat /\ Len(log) <= LogLimit
           /\ checkpoint \in [Runner -> Checkpoints] /\ file \in [Runner -> Checkpoints]
           /\ cpc \in [Callers -> CallerPcs] /\ op \in [Callers -> Ops]
           /\ at \in [Callers -> 1 .. Len(Order) + 1]
           /\ work \in [Callers -> Seq(EnvelopeIds)]
           /\ answer \in [Callers -> Answered3]
           /\ crashes \in Nat
  <1>1. PassInv /\ LocksInv /\ Counted /\ HandsInv /\ OwnInv
    BY DEF BaseInv
  <1>2. log \in Seq(Events)
    BY <1>1 DEF PassInv, PassTypes
  <1>3. crashes \in Nat
    BY <1>1, DeliveryAssumption DEF OwnInv
  <1> QED BY <1>1, <1>2, <1>3 DEF PassInv, PassTypes, HandsInv, OwnInv

\* A log that grows leaves a cursor a cursor.
LEMMA GrownLogCursor ==
    ASSUME NEW cp \in Checkpoints, IsCursor(cp), log \in Seq(Events), LogGrows
    PROVE  IsCursor(cp)'
  <1>1. cp.pos \in Nat /\ cp.pos <= Len(log) /\ Len(log) \in Nat /\ Len(log') \in Nat
    BY DEF IsCursor, Checkpoints, LogGrows
  <1>2. \A n \in 0 .. cp.pos - 1 : log'[n + 1] = log[n + 1]
    BY <1>1 DEF LogGrows
  <1>3. {n \in 0 .. cp.pos - 1 : log'[n + 1] \in Decodable}
            = {n \in 0 .. cp.pos - 1 : log[n + 1] \in Decodable}
    BY <1>2
  <1> QED BY <1>1, <1>3 DEF IsCursor, LogGrows

\* Somebody writes to the log, and possibly a call begins.
LEMMA GrowInv ==
    ASSUME PassInv, LogGrows, UNCHANGED <<checkpoint, file, next, work>>,
           cpc' \in [Callers -> CallerPcs], at' \in [Callers -> 1 .. Len(Order) + 1],
           \A d \in Callers : cpc'[d] \notin {"idle", "dispatch"} => at'[d] <= Len(Order),
           \A d \in Callers : cpc'[d] = "read" => cpc[d] = "read" /\ at'[d] = at[d]
    PROVE  PassInv'
  <1>1. PassTypes'
    BY DEF PassInv, PassTypes, LogGrows
  <1>2. CheckpointsAreCursors'
    <2>1. ASSUME NEW r \in Runner
          PROVE  IsCursor(checkpoint[r])' /\ IsCursor(file[r])'
      <3>1. /\ checkpoint[r] \in Checkpoints /\ file[r] \in Checkpoints
            /\ IsCursor(checkpoint[r]) /\ IsCursor(file[r])
        BY DEF PassInv, PassTypes, CheckpointsAreCursors
      <3>2. \A cp \in Checkpoints : IsCursor(cp) => IsCursor(cp)'
        BY GrownLogCursor DEF PassInv, PassTypes
      <3> QED BY <3>1, <3>2 DEF IsCursor
    <2> QED BY <2>1 DEF CheckpointsAreCursors
  <1>3. CallersFollow'
    <2>1. ASSUME NEW d \in Callers
          PROVE  /\ cpc'[d] \notin {"idle", "dispatch"} => at'[d] <= Len(Order)
                 /\ cpc'[d] = "read" => next[d] <= checkpoint[Order[at'[d]]].pos
                 /\ \A i \in 1 .. Len(work[d]) : work[d][i].pos < checkpoint[work[d][i].pm].pos
      BY CallerFacts DEF Target
    <2> QED BY <2>1 DEF CallersFollow, Target
  <1> QED BY <1>1, <1>2, <1>3 DEF PassInv

-----------------------------------------------------------------------------
(* Commands and what they cause                                             *)

\* x is one of the commands its manager answers an event of the log with.
IsAnswer(x) ==
    /\ x \in EnvelopeIds
    /\ x.pos < Len(log)
    /\ log[x.pos + 1] \in Decodable
    /\ x.nr \in 1 .. Envelopes(x.pm, log[x.pos + 1])

\* e is one of the events the aggregate recorded for the command x.
CausedBy(x, e) ==
    /\ Routable(Sent(x))
    /\ \E d \in Range(Outcome(Sent(x).command)) : e = Caused(x, Sent(x), d)

\* An envelope is its three parts.
LEMMA EnvelopeRecord ==
    ASSUME NEW x \in EnvelopeIds
    PROVE  x = [pm |-> x.pm, pos |-> x.pos, nr |-> x.nr] /\ x.pm \in Managers /\ x.pos \in Nat
  BY DEF EnvelopeIds

\* The answers to the event at position n are the answers with that position.
LEMMA AnswersAre ==
    ASSUME log \in Seq(Events), NEW m \in Managers, NEW n \in Nat, n < Len(log), NEW x
    PROVE  x \in Range(Answers(m, n)) <=> IsAnswer(x) /\ x.pm = m /\ x.pos = n
  <1>1. log[n + 1] \in Events /\ Envelopes(m, log[n + 1]) \in Nat
    BY RunnersAssumption
  <1>2. CASE log[n + 1] \notin Decodable
    <2>1. Range(Answers(m, n)) = {}
      BY <1>2 DEF Answers, Range
    <2> QED BY <1>2, <2>1 DEF IsAnswer
  <1>3. CASE log[n + 1] \in Decodable
    <2>1. Answers(m, n) = [i \in 1 .. Envelopes(m, log[n + 1]) |-> [pm |-> m, pos |-> n, nr |-> i]]
      BY <1>3 DEF Answers
    <2>2. x \in Range(Answers(m, n)) <=>
              \E i \in 1 .. Envelopes(m, log[n + 1]) : x = [pm |-> m, pos |-> n, nr |-> i]
      BY <2>1 DEF Range
    <2>3. ASSUME NEW i \in 1 .. Envelopes(m, log[n + 1]), x = [pm |-> m, pos |-> n, nr |-> i]
          PROVE  IsAnswer(x) /\ x.pm = m /\ x.pos = n
      BY <1>1, <1>3, <2>3 DEF IsAnswer, EnvelopeIds
    <2>4. ASSUME IsAnswer(x), x.pm = m, x.pos = n
          PROVE  x.nr \in 1 .. Envelopes(m, log[n + 1]) /\ x = [pm |-> m, pos |-> n, nr |-> x.nr]
      BY <2>4, EnvelopeRecord DEF IsAnswer
    <2> QED BY <2>2, <2>3, <2>4
  <1> QED BY <1>2, <1>3

\* What manager m owes for the events below position k.
LEMMA OwedAre ==
    ASSUME log \in Seq(Events), NEW m \in Managers, NEW k \in Nat, k <= Len(log), NEW x
    PROVE  x \in Owed(m, k) <=> IsAnswer(x) /\ x.pm = m /\ x.pos < k
  <1>1. x \in Owed(m, k) <=> \E n \in 0 .. k - 1 : x \in Range(Answers(m, n))
    BY OwedIs
  <1>2. \A n \in 0 .. k - 1 : x \in Range(Answers(m, n)) <=> IsAnswer(x) /\ x.pm = m /\ x.pos = n
    BY AnswersAre
  <1>3. IsAnswer(x) => x.pos \in Nat
    BY EnvelopeRecord DEF IsAnswer
  <1>4. ASSUME IsAnswer(x), x.pos < k PROVE x.pos \in 0 .. k - 1
    BY <1>3, <1>4
  <1> QED BY <1>1, <1>2, <1>4

\* A command stays what it is while the log grows.
LEMMA AnswerStays ==
    ASSUME log \in Seq(Events), LogGrows, NEW x, IsAnswer(x)
    PROVE  /\ IsAnswer(x)' /\ Sent(x)' = Sent(x)
           /\ \A e : CausedBy(x, e)' <=> CausedBy(x, e)
  <1>1. x.pos \in Nat /\ x.pos < Len(log) /\ Len(log) \in Nat /\ Len(log') \in Nat
    BY EnvelopeRecord DEF IsAnswer, LogGrows
  <1>2. log'[x.pos + 1] = log[x.pos + 1]
    BY <1>1 DEF LogGrows
  <1>3. IsAnswer(x)'
    BY <1>1, <1>2 DEF IsAnswer, LogGrows
  <1>4. Sent(x)' = Sent(x)
    BY <1>2 DEF Sent
  <1>5. \A e : CausedBy(x, e)' <=> CausedBy(x, e)
    BY <1>4 DEF CausedBy
  <1> QED BY <1>3, <1>4, <1>5

\* What an aggregate answers is a sequence of domain events, and what it records of
\* them is decoded by whoever reads the log.
LEMMA OutcomeType ==
    ASSUME log \in Seq(Events), Len(log) <= LogLimit, NEW x, IsAnswer(x)
    PROVE  /\ Outcome(Sent(x).command) \in Seq(DomainEvents)
           /\ \A e : CausedBy(x, e) => e \in Decodable
  <1>1. /\ x = [pm |-> x.pm, pos |-> x.pos, nr |-> x.nr] /\ x.pm \in Managers /\ x.pos \in Nat
        /\ x.pos < Len(log) /\ Len(log) \in Nat /\ LogLimit \in Nat
        /\ log[x.pos + 1] \in Decodable
        /\ x.nr \in 1 .. Envelopes(x.pm, log[x.pos + 1])
    BY EnvelopeRecord, RunnersAssumption DEF IsAnswer
  <1>2. x.pos \in 0 .. LogLimit - 1
    BY <1>1
  <1>3. PICK cmd : cmd = CommandOf(x.pm, decode_stored_event(log[x.pos + 1]), x.nr)
    OBVIOUS
  <1>4. /\ Outcome(cmd.command) \in Seq(DomainEvents)
        /\ Routable(cmd) =>
               \A n \in 0 .. LogLimit - 1 : \A d \in Range(Outcome(cmd.command)) :
                   Caused([pm |-> x.pm, pos |-> n, nr |-> x.nr], cmd, d) \in Decodable
    BY <1>1, <1>3, DeliveryAssumption
  <1>5. Sent(x) = cmd
    BY <1>3 DEF Sent
  <1>6. ASSUME NEW e, CausedBy(x, e) PROVE e \in Decodable
    <2>1. Routable(cmd) /\ \E d \in Range(Outcome(cmd.command)) : e = Caused(x, cmd, d)
      BY <1>5, <1>6 DEF CausedBy
    <2>2. PICK d \in Range(Outcome(cmd.command)) : e = Caused(x, cmd, d)
      BY <2>1
    <2>3. Caused([pm |-> x.pm, pos |-> x.pos, nr |-> x.nr], cmd, d) \in Decodable
      BY <1>2, <1>4, <2>1
    <2> QED BY <1>1, <2>2, <2>3
  <1> QED BY <1>4, <1>5, <1>6

\* An event survives being encoded, recorded and decoded again.
LEMMA RoundTrip ==
    ASSUME NEW d \in DomainEvents, NEW x, NEW cmd, NEW e, e = Caused(x, cmd, d), e \in Decodable
    PROVE  /\ Cause(e) = x /\ e.type = d.type /\ e \in Events
           /\ decode_stored_event(e).aggregate_type = cmd.aggregate_type
           /\ decode_stored_event(e).instance_id = cmd.instance_id
           /\ decode_stored_event(e).stream_id = stream_uuid(cmd.aggregate_type, cmd.instance_id)
           /\ Decode(decode_stored_event(e).type, decode_stored_event(e).payload) = d
  <1>1. e \in Events /\ decode_stored_event(e) # NoStored
    BY OpenAssumption
  <1>2. PICK p : p = EncodePayload(d)
    OBVIOUS
  <1>3. PICK md : md = Metadata(Context(x), cmd.aggregate_type, cmd.instance_id)
    OBVIOUS
  <1>4. PICK sid : sid = stream_uuid(cmd.aggregate_type, cmd.instance_id)
    OBVIOUS
  <1>5. e = [event_id |-> "uuid", stream_id |-> sid, type |-> d.type, payload |-> p, metadata |-> md]
    BY <1>2, <1>3, <1>4 DEF Caused, Recorded, encode_domain_event
  <1>6. /\ e.stream_id = sid /\ e.type = d.type /\ e.payload = p /\ e.metadata = md
    BY <1>5
  <1>7. /\ md.aggregate_type = cmd.aggregate_type /\ md.instance_id = cmd.instance_id
        /\ md.correlation_id = x
    BY <1>3 DEF Metadata, Context
  <1>8. decode_stored_event(e) =
            [stream_id      |-> sid,
             aggregate_type |-> md.aggregate_type,
             instance_id    |-> md.instance_id,
             type           |-> d.type,
             payload        |-> IF p = EmptyBytes THEN JsonNull ELSE p,
             metadata       |-> md]
    BY <1>1, <1>6 DEF decode_stored_event
  <1>9. Cause(e) = x
    BY <1>1, <1>7, <1>8 DEF Cause
  <1>10. PICK q : q = IF p = EmptyBytes THEN JsonNull ELSE p
    OBVIOUS
  <1>11. Decode(d.type, q) = d
    <2>1. /\ d \in [type : EventTypes, data : DataValues \cup {NoData}]
          /\ DataValues \cap {NoData, JsonNull, EmptyBytes, Malformed} = {}
          /\ JsonNull # Malformed /\ EmptyBytes # Malformed
      BY CodecAssumption
    <2>2. d = [type |-> d.type, data |-> d.data] /\ d.data \in DataValues \cup {NoData}
      BY <2>1
    <2>3. CASE d.data = NoData
      <3>1. q = JsonNull
        BY <1>2, <1>10, <2>3 DEF EncodePayload
      <3>2. Envelope(d.type, q) = d
        BY <2>2, <2>3, <3>1 DEF Envelope
      <3> QED BY <2>1, <3>1, <3>2 DEF Decode
    <2>4. CASE d.data # NoData
      <3>1. q = d.data /\ q \notin {JsonNull, EmptyBytes, Malformed}
        BY <1>2, <1>10, <2>1, <2>2, <2>4 DEF EncodePayload
      <3>2. Envelope(d.type, q) = d
        BY <2>2, <3>1 DEF Envelope
      <3> QED BY <3>1, <3>2 DEF Decode
    <2> QED BY <2>3, <2>4
  <1> QED BY <1>1, <1>4, <1>6, <1>7, <1>8, <1>9, <1>10, <1>11

\* The events a command causes name it as their cause, and are read as what the
\* aggregate answered, with its identity.
LEMMA CausedFacts ==
    ASSUME log \in Seq(Events), Len(log) <= LogLimit, NEW x, IsAnswer(x), NEW e, CausedBy(x, e)
    PROVE  /\ Cause(e) = x /\ e \in Events
           /\ decode_stored_event(e).aggregate_type = Sent(x).aggregate_type
           /\ decode_stored_event(e).instance_id = Sent(x).instance_id
           /\ decode_stored_event(e).stream_id =
                  stream_uuid(Sent(x).aggregate_type, Sent(x).instance_id)
           /\ Decode(decode_stored_event(e).type, decode_stored_event(e).payload)
                  \in Range(Outcome(Sent(x).command))
  <1>1. PICK d \in Range(Outcome(Sent(x).command)) : e = Caused(x, Sent(x), d)
    BY DEF CausedBy
  <1>2. Outcome(Sent(x).command) \in Seq(DomainEvents) /\ e \in Decodable
    BY OutcomeType
  <1>3. d \in DomainEvents
    BY <1>2 DEF Range
  <1>4. PICK cmd : cmd = Sent(x)
    OBVIOUS
  <1> QED BY <1>1, <1>2, <1>3, <1>4, RoundTrip

-----------------------------------------------------------------------------
(* What a step does                                                         *)

\* The aggregate c's first command is for executes it.
Executes(c) ==
    /\ cpc[c] = "dispatch" /\ work[c] # <<>> /\ answer[c] = "none"
    /\ Routable(Sent(Head(work[c])))
    /\ Len(log \o Effect(Head(work[c]))) <= LogLimit
    /\ log' = log \o Effect(Head(work[c]))
    /\ \E a \in {"ok", "failed"} : answer' = [answer EXCEPT ![c] = a]
    /\ UNCHANGED <<checkpoint, file, lock, handled, callerVars, open, letters, crashes>>

\* Nobody executes it.
Refuses(c) ==
    /\ cpc[c] = "dispatch" /\ work[c] # <<>> /\ answer[c] = "none"
    /\ answer' = [answer EXCEPT ![c] = "failed"]
    /\ UNCHANGED <<log, checkpoint, file, lock, handled, callerVars, open, letters, crashes>>

\* A dispatch is one or the other.
LEMMA DispatchIs ==
    ASSUME NEW c \in Callers, DispatchCommand(c)
    PROVE  Executes(c) \/ Refuses(c)
  BY DEF DispatchCommand, Executes, Refuses

\* One event of somebody else is written.
ForeignWrite == \E e \in Foreign : Len(log) < LogLimit /\ log' = Append(log, e)

\* It makes the log grow.
LEMMA ForeignGrows ==
    ASSUME log \in Seq(Events), ForeignWrite
    PROVE  /\ LogGrows /\ Len(log') = Len(log) + 1 /\ Len(log') <= LogLimit
           /\ log'[Len(log) + 1] \in Foreign
  <1>1. PICK e \in Foreign : Len(log) < LogLimit /\ log' = Append(log, e)
    BY DEF ForeignWrite
  <1>2. e \in Events /\ Len(log) \in Nat /\ LogLimit \in Nat
    BY DeliveryAssumption, RunnersAssumption
  <1> QED BY <1>1, <1>2 DEF LogGrows

\* So do the events the command x leads to.
LEMMA EffectGrows ==
    ASSUME log \in Seq(Events), NEW x, IsAnswer(x), Routable(Sent(x)),
           Len(log \o Effect(x)) <= LogLimit, Len(log) <= LogLimit, log' = log \o Effect(x)
    PROVE  /\ LogGrows /\ Len(log') <= LogLimit
           /\ Outcome(Sent(x).command) \in Seq(DomainEvents)
           /\ Len(log') = Len(log) + Len(Outcome(Sent(x).command))
           /\ \A i \in 1 .. Len(Outcome(Sent(x).command)) :
                  /\ CausedBy(x, log'[Len(log) + i])
                  /\ log'[Len(log) + i].type = Outcome(Sent(x).command)[i].type
  <1>1. PICK ds : ds = Outcome(Sent(x).command)
    OBVIOUS
  <1>2. PICK es : es = Effect(x)
    OBVIOUS
  <1>3. ds \in Seq(DomainEvents) /\ Len(ds) \in Nat
    BY <1>1, OutcomeType
  <1>4. es = [i \in 1 .. Len(ds) |-> Caused(x, Sent(x), ds[i])]
    BY <1>1, <1>2 DEF Effect
  <1>5. ASSUME NEW i \in 1 .. Len(ds)
        PROVE  es[i] \in Events /\ CausedBy(x, es[i]) /\ es[i].type = ds[i].type
    <2>1. es[i] = Caused(x, Sent(x), ds[i]) /\ ds[i] \in Range(ds)
      BY <1>3, <1>4 DEF Range
    <2>2. CausedBy(x, es[i])
      BY <1>1, <2>1 DEF CausedBy
    <2>3. es[i].type = ds[i].type
      BY <2>1 DEF Caused, Recorded, encode_domain_event
    <2> QED BY <2>2, <2>3, CausedFacts
  <1>6. es \in Seq(Events) /\ Len(es) = Len(ds)
    BY <1>3, <1>4, <1>5, SMTT(30)
  <1>7. /\ log' \in Seq(Events) /\ Len(log') = Len(log) + Len(ds) /\ Len(log) \in Nat
        /\ \A n \in 1 .. Len(log) : log'[n] = log[n]
        /\ \A i \in 1 .. Len(ds) : log'[Len(log) + i] = es[i]
    BY <1>2, <1>3, <1>6
  <1> QED BY <1>1, <1>2, <1>3, <1>5, <1>7 DEF LogGrows

\* A step of a call, other than a dispatch, leaves the log, what was carried out and
\* the other callers alone.  It reads an event, or leaves positions and commands in
\* hand alone as well; it saves a projection, or a manager with nothing in hand.
CallStep(c) == CallProjection(c) \/ CallRunProcessManagers(c) \/ PassStep(c)

LEMMA CallStepFacts ==
    ASSUME PassInv, HandsInv, NEW c \in Callers, CallStep(c)
    PROVE  /\ UNCHANGED <<log, handled>>
           /\ cpc[c] = "dispatch" => work[c] = <<>>
           /\ \A d \in Callers \ {c} :
                  cpc'[d] = cpc[d] /\ op'[d] = op[d] /\ work'[d] = work[d]
           /\ UNCHANGED <<checkpoint, work>> \/ ReadEvent(c)
           /\ \/ file' = file
              \/ /\ Target(c) \in Runner
                 /\ file' = [file EXCEPT ![Target(c)] = checkpoint[Target(c)]]
                 /\ Target(c) \in Projections \/ (cpc[c] = "saving" /\ work[c] = <<>>)
  <1>0. /\ cpc \in [Callers -> CallerPcs] /\ op \in [Callers -> Ops]
        /\ work \in [Callers -> Seq(EnvelopeIds)] /\ InPlace(c)
    BY DEF PassInv, PassTypes, HandsInv
  <1>1. CASE CallProjection(c) \/ CallRunProcessManagers(c)
    <2>1. PICK o, i, pc : Begin(c, o, i, pc)
      BY <1>1 DEF CallProjection, CallRunProcessManagers
    <2>2. /\ UNCHANGED <<log, handled, checkpoint, work, file>> /\ cpc[c] = "idle"
          /\ cpc' = [cpc EXCEPT ![c] = pc] /\ op' = [op EXCEPT ![c] = o]
      BY <2>1 DEF Begin
    <2> QED BY <1>0, <2>2
  <1>2. CASE Acquire(c) \/ Await(c) \/ Subscribe(c) \/ ManagerDone(c) \/ LockForSave(c)
    <2>1. /\ UNCHANGED <<log, handled, checkpoint, work, file, op>> /\ cpc[c] # "dispatch"
      BY <1>2 DEF Acquire, Await, Subscribe, ManagerDone, LockForSave, StreamDone, callerVars
    <2>2. cpc' = cpc \/ \E pc : cpc' = [cpc EXCEPT ![c] = pc]
      BY <1>2 DEF Acquire, Await, Subscribe, ManagerDone, LockForSave, callerVars
    <2> QED BY <1>0, <2>1, <2>2
  <1>3. CASE ReadEvent(c)
    <2>1. /\ UNCHANGED <<log, handled, file, op, cpc>> /\ cpc[c] = "read"
          /\ work' = [work EXCEPT ![c] = @ \o Produced(Target(c), next[c])]
      BY <1>3 DEF ReadEvent
    <2> QED BY <1>0, <1>3, <2>1
  <1>4. ASSUME NEW tag, NEW pos, Return(c, tag, pos), work[c] = <<>>
        PROVE  /\ work' = work
               /\ \A d \in Callers \ {c} :
                      cpc'[d] = cpc[d] /\ op'[d] = op[d] /\ work'[d] = work[d]
    <2>1. /\ cpc' = [cpc EXCEPT ![c] = "idle"] /\ op' = [op EXCEPT ![c] = "none"]
          /\ work' = [work EXCEPT ![c] = <<>>]
      BY <1>4 DEF Return
    <2> QED BY <1>0, <1>4, <2>1
  <1>5. CASE ProjectionDone(c)
    <2>1. /\ UNCHANGED <<log, handled, checkpoint>> /\ cpc[c] = "read" /\ op[c] = "projection"
          /\ \/ file' = [file EXCEPT ![Target(c)] = checkpoint[Target(c)]]
             \/ file' = file
          /\ \E tag, pos : Return(c, tag, pos)
      BY <1>5 DEF ProjectionDone, StreamDone, Fail
    <2>2. work[c] = <<>> /\ Target(c) \in Projections
      BY <1>0, <2>1 DEF InPlace
    <2>3. Target(c) \in Runner
      BY <2>2 DEF Runner
    <2> QED BY <1>4, <2>1, <2>2, <2>3
  <1>6. CASE AllDispatched(c)
    <2>1. /\ UNCHANGED <<log, handled, checkpoint, file>> /\ work[c] = <<>>
      BY <1>6 DEF AllDispatched
    <2>2. CASE Return(c, "report", start[c])
      BY <1>4, <2>1, <2>2
    <2>3. CASE cpc' = [cpc EXCEPT ![c] = "save"] /\ UNCHANGED <<op, work>>
      BY <1>0, <2>1, <2>3
    <2> QED BY <1>6, <2>2, <2>3 DEF AllDispatched
  <1>7. CASE SaveManager(c)
    <2>1. /\ UNCHANGED <<log, handled, checkpoint>> /\ cpc[c] = "saving"
          /\ \/ file' = [file EXCEPT ![Target(c)] = checkpoint[Target(c)]]
             \/ file' = file
      BY <1>7 DEF SaveManager
    <2>2. work[c] = <<>> /\ Target(c) \in Runner
      BY <1>0, <2>1, CallerFacts DEF InPlace
    <2>3. CASE \E tag, pos : Return(c, tag, pos)
      BY <1>4, <2>1, <2>2, <2>3
    <2>4. CASE cpc' = [cpc EXCEPT ![c] = "save"] /\ UNCHANGED <<op, work>>
      BY <1>0, <2>1, <2>2, <2>4
    <2> QED BY <1>7, <2>3, <2>4 DEF SaveManager, Fail
  <1> QED
    BY <1>1, <1>2, <1>3, <1>5, <1>6, <1>7 DEF CallStep, PassStep

\* A pass that reads an event collects exactly the answers of the event its manager
\* moves past.
LEMMA ReadFacts ==
    ASSUME PassInv, NEW c \in Callers, ReadEvent(c)
    PROVE  \E r \in Runner, n \in Nat, p \in Seq(EnvelopeIds) :
               /\ cpc[c] = "read" /\ n < Len(log)
               /\ work'[c] = work[c] \o p
               /\ \A d \in Callers \ {c} : work'[d] = work[d]
               /\ \A q \in Runner \ {r} : checkpoint'[q] = checkpoint[q]
               /\ \/ checkpoint'[r].pos = checkpoint[r].pos /\ p = <<>>
                  \/ /\ checkpoint[r].pos = n /\ checkpoint'[r].pos = n + 1
                     /\ p = Answers(r, n)
  <1>0. /\ work \in [Callers -> Seq(EnvelopeIds)] /\ log \in Seq(Events)
        /\ checkpoint \in [Runner -> Checkpoints]
    BY DEF PassInv, PassTypes
  <1>1. /\ cpc[c] = "read" /\ next[c] < Len(log)
        /\ checkpoint' = [checkpoint EXCEPT ![Target(c)] = AfterEvent(@, next[c])]
        /\ work' = [work EXCEPT ![c] = @ \o Produced(Target(c), next[c])]
    BY DEF ReadEvent
  <1>2. Target(c) \in Runner /\ next[c] \in Nat /\ next[c] <= checkpoint[Target(c)].pos
    BY <1>1, CallerFacts
  <1>3. PICK r \in Runner : r = Target(c)
    BY <1>2
  <1>4. PICK n \in Nat : n = next[c]
    BY <1>2
  <1>5. PICK p \in Seq(EnvelopeIds) : p = Produced(r, n)
    BY <1>0, <1>1, <1>4, ProducedType
  <1>6. /\ work'[c] = work[c] \o p /\ \A d \in Callers \ {c} : work'[d] = work[d]
        /\ checkpoint'[r] = AfterEvent(checkpoint[r], n)
        /\ \A q \in Runner \ {r} : checkpoint'[q] = checkpoint[q]
    BY <1>0, <1>1, <1>3, <1>4, <1>5
  <1>7. n < Len(log) /\ n <= checkpoint[r].pos
    BY <1>1, <1>2, <1>3, <1>4
  <1>8. /\ checkpoint[r] \in Checkpoints /\ IsCursor(checkpoint[r]) /\ checkpoint[r].pos \in Nat
    BY <1>0 DEF PassInv, CheckpointsAreCursors, Checkpoints
  <1>9. checkpoint'[r].pos = IF n = checkpoint[r].pos THEN n + 1 ELSE checkpoint[r].pos
    BY <1>0, <1>6, <1>7, <1>8, AfterEventIsCursor
  <1>10. IF n = checkpoint[r].pos THEN p = Answers(r, n) ELSE p = <<>>
    BY <1>5, <1>7, <1>8 DEF Produced
  <1>11. \/ checkpoint'[r].pos = checkpoint[r].pos /\ p = <<>>
         \/ checkpoint[r].pos = n /\ checkpoint'[r].pos = n + 1 /\ p = Answers(r, n)
    BY <1>9, <1>10
  <1> QED BY <1>1, <1>6, <1>7, <1>11

-----------------------------------------------------------------------------
(* Types, locks and places                                                  *)

\* Somebody else writes to the log, or nothing that matters to the commands happens.
Writes ==
    /\ ForeignWrite \/ log' = log
    /\ UNCHANGED <<checkpoint, file, work, handled, answer, letters, crashes>>

\* The steps of the loop.
LEMMA DeliveryIs ==
    ASSUME BaseInv, [DeliveryNext]_deliveryVars
    PROVE  \/ UNCHANGED runnerVars /\ UNCHANGED <<answer, letters, crashes>> /\ open' \in BOOLEAN
              /\ (open => open')
           \/ Die \/ WriteOutside
           \/ \E c \in Callers :
                  \/ open /\ CallStep(c) /\ UNCHANGED ownVars
                  \/ InjectEvent(c) \/ InjectAndRun(c)
                  \/ Executes(c) \/ Refuses(c) \/ Settle(c)
  <1>0. /\ OwnInv /\ file \in [Runner -> Checkpoints] /\ checkpoint \in [Runner -> Checkpoints]
    BY BaseFacts
  <1>1. CASE Open
    <2>1. checkpoint = file
      BY <1>0, <1>1 DEF Open, OwnInv
    <2>2. checkpoint' = checkpoint
      BY <1>0, <1>1, <2>1 DEF Open, Loaded
    <2> QED BY <1>1, <2>2 DEF Open, runnerVars, callerVars
  <1>2. CASE UNCHANGED deliveryVars
    BY <1>0, <1>2 DEF deliveryVars, ownVars, OwnInv
  <1>3. ASSUME NEW c \in Callers, PassStep(c)
        PROVE  open
    <2>1. cpc[c] # "idle"
      BY <1>3 DEF PassStep, Acquire, Await, Subscribe, ReadEvent, ProjectionDone, ManagerDone,
         AllDispatched, LockForSave, SaveManager, StreamDone
    <2> QED BY <1>0, <2>1 DEF OwnInv
  <1> QED BY <1>1, <1>2, <1>3, DispatchIs DEF DeliveryNext, CallManagers, TaskStep, CallStep

\* A step of a call keeps everything in its place.
LEMMA CallStepBase ==
    ASSUME BaseInv, NEW c \in Callers, open, CallStep(c), UNCHANGED ownVars
    PROVE  BaseInv'
  <1>0. /\ PassInv /\ LocksInv /\ Counted /\ HandsInv /\ OwnInv
    BY BaseFacts
  <1>1. PullNext
    BY DEF CallStep, PullNext, CallerStep
  <1>2. PassInv' /\ LocksInv' /\ Counted' /\ HandsInv'
    BY <1>0, <1>1, NextInv, PullLocks, PullCounted, PullHands DEF Next
  <1>3. /\ log' = log /\ (cpc[c] = "dispatch" => work[c] = <<>>)
        /\ \A d \in Callers \ {c} : cpc'[d] = cpc[d] /\ work'[d] = work[d]
    BY <1>0, CallStepFacts
  <1>4. answer[c] = "none"
    BY <1>0, <1>3 DEF OwnInv
  <1>5. \A d \in Callers : answer'[d] # "none" => cpc'[d] = "dispatch" /\ work'[d] # <<>>
    BY <1>0, <1>3, <1>4 DEF OwnInv, ownVars
  <1>6. OwnInv'
    BY <1>0, <1>3, <1>5 DEF OwnInv, ownVars
  <1> QED BY <1>2, <1>6 DEF BaseInv

\* So does the answer to a command being dealt with.
LEMMA SettleBase ==
    ASSUME BaseInv, NEW c \in Callers, Settle(c)
    PROVE  BaseInv' /\ cpc[c] = "dispatch" /\ work[c] # <<>> /\ Head(work[c]) \in EnvelopeIds
  <1>0. /\ PassInv /\ LocksInv /\ Counted /\ HandsInv /\ OwnInv
        /\ work \in [Callers -> Seq(EnvelopeIds)] /\ answer \in [Callers -> Answered3]
    BY BaseFacts
  <1>1. cpc[c] = "dispatch" /\ work[c] # <<>>
    BY <1>0 DEF Settle, OwnInv
  <1>2. Dispatch(c)
    BY <1>1 DEF Settle, Dispatch
  <1>3. PullNext
    BY <1>2 DEF PullNext, CallerStep
  <1>4. PassInv' /\ LocksInv' /\ Counted' /\ HandsInv'
    BY <1>0, <1>3, NextInv, PullLocks, PullCounted, PullHands DEF Next
  <1>5. Head(work[c]) \in EnvelopeIds
    BY <1>0, <1>1
  <1>6. /\ answer' = [answer EXCEPT ![c] = "none"] /\ work' = [work EXCEPT ![c] = Tail(@)]
        /\ letters' \subseteq letters \cup {Head(work[c])}
        /\ UNCHANGED <<log, checkpoint, file, cpc, open, crashes>>
    BY DEF Settle
  <1>7. answer' \in [Callers -> Answered3]
    BY <1>0, <1>6 DEF Answered3
  <1>8. ASSUME NEW d \in Callers, answer'[d] # "none"
        PROVE  cpc'[d] = "dispatch" /\ work'[d] # <<>>
    <2>1. d # c /\ answer'[d] = answer[d] /\ work'[d] = work[d]
      BY <1>0, <1>6, <1>8
    <2> QED BY <1>0, <1>6, <1>8, <2>1 DEF OwnInv
  <1>9. OwnInv'
    BY <1>0, <1>5, <1>6, <1>7, <1>8 DEF OwnInv
  <1> QED BY <1>1, <1>4, <1>5, <1>9 DEF BaseInv

\* A step that writes to the log and moves no caller.
LEMMA GrowBase ==
    ASSUME BaseInv, LogGrows, Len(log') <= LogLimit,
           UNCHANGED <<checkpoint, file, lock, cpc, op, at, next, upto, work, handled>>
    PROVE  PassInv' /\ LocksInv' /\ Counted' /\ HandsInv'
  <1>0. /\ PassInv /\ LocksInv /\ Counted /\ HandsInv
        /\ cpc \in [Callers -> CallerPcs] /\ at \in [Callers -> 1 .. Len(Order) + 1]
    BY BaseFacts
  <1>1. \A d \in Callers : cpc[d] \notin {"idle", "dispatch"} => at[d] <= Len(Order)
    BY <1>0 DEF PassInv, CallersFollow
  <1>2. PassInv'
    BY <1>0, <1>1, GrowInv
  <1>3. LocksInv'
    BY <1>0, QuietLocks
  <1>4. Counted' /\ HandsInv'
    BY <1>0 DEF Counted, HandsInv, InPlace, Target
  <1> QED BY <1>2, <1>3, <1>4

\* An aggregate executes a command, or nobody does.
LEMMA ExecuteBase ==
    ASSUME BaseInv, NEW c \in Callers, Executes(c) \/ Refuses(c),
           Executes(c) => IsAnswer(Head(work[c]))
    PROVE  BaseInv'
  <1>0. /\ OwnInv /\ log \in Seq(Events) /\ Len(log) <= LogLimit /\ Len(log) \in Nat
        /\ answer \in [Callers -> Answered3]
    BY BaseFacts
  <1>1. LogGrows /\ Len(log') <= LogLimit
    <2>1. CASE Executes(c)
      <3>1. PICK x : x = Head(work[c])
        OBVIOUS
      <3>2. /\ Routable(Sent(x)) /\ Len(log \o Effect(x)) <= LogLimit /\ log' = log \o Effect(x)
        BY <2>1, <3>1 DEF Executes
      <3> QED BY <1>0, <2>1, <3>1, <3>2, EffectGrows
    <2>2. CASE Refuses(c)
      BY <1>0, <2>2 DEF Refuses, LogGrows
    <2> QED BY <2>1, <2>2
  <1>2. /\ UNCHANGED <<checkpoint, file, lock, cpc, op, at, next, upto, work, handled>>
        /\ UNCHANGED <<open, letters, crashes>>
        /\ cpc[c] = "dispatch" /\ work[c] # <<>>
    BY DEF Executes, Refuses, callerVars
  <1>3. PassInv' /\ LocksInv' /\ Counted' /\ HandsInv'
    BY <1>1, <1>2, GrowBase
  <1>4. \E a \in Answered3 : answer' = [answer EXCEPT ![c] = a]
    BY DEF Executes, Refuses, Answered3
  <1>5. answer' \in [Callers -> Answered3] /\ \A d \in Callers \ {c} : answer'[d] = answer[d]
    BY <1>0, <1>4
  <1>6. \A d \in Callers : answer'[d] # "none" => cpc'[d] = "dispatch" /\ work'[d] # <<>>
    BY <1>0, <1>2, <1>5 DEF OwnInv
  <1>7. OwnInv'
    BY <1>0, <1>1, <1>2, <1>5, <1>6 DEF OwnInv
  <1> QED BY <1>3, <1>7 DEF BaseInv

\* Another process writes, or a caller injects an event without running the managers.
LEMMA WriteBase ==
    ASSUME BaseInv, WriteOutside \/ \E c \in Callers : InjectEvent(c)
    PROVE  BaseInv' /\ Writes /\ UNCHANGED <<cpc, op>>
  <1>0. /\ OwnInv /\ log \in Seq(Events) /\ Len(log) <= LogLimit /\ Len(log) \in Nat
    BY BaseFacts
  <1>1. /\ UNCHANGED <<checkpoint, file, lock, cpc, op, at, next, upto, work, handled>>
        /\ UNCHANGED ownVars
    BY DEF WriteOutside, InjectEvent, callerVars
  <1>2. ForeignWrite \/ log' = log
    BY DEF WriteOutside, InjectEvent, ForeignWrite, Foreign, MayWrite
  <1>3. LogGrows /\ Len(log') <= LogLimit
    <2>1. CASE ForeignWrite
      BY <1>0, <2>1, ForeignGrows
    <2>2. CASE log' = log
      BY <1>0, <2>2 DEF LogGrows
    <2> QED BY <1>2, <2>1, <2>2
  <1>4. PassInv' /\ LocksInv' /\ Counted' /\ HandsInv'
    BY <1>1, <1>3, GrowBase
  <1>5. OwnInv'
    BY <1>0, <1>1, <1>3 DEF OwnInv, ownVars
  <1> QED BY <1>1, <1>2, <1>4, <1>5 DEF BaseInv, Writes, ownVars

\* A caller injects an event and goes on to run the managers.
LEMMA InjectAndRunBase ==
    ASSUME BaseInv, NEW c \in Callers, InjectAndRun(c)
    PROVE  BaseInv' /\ Writes /\ op' = [op EXCEPT ![c] = "run_process_managers"]
  <1>0. /\ PassInv /\ LocksInv /\ Counted /\ HandsInv /\ OwnInv
        /\ log \in Seq(Events) /\ Len(log) <= LogLimit /\ Len(log) \in Nat
        /\ cpc \in [Callers -> CallerPcs] /\ op \in [Callers -> Ops]
        /\ at \in [Callers -> 1 .. Len(Order) + 1]
    BY BaseFacts
  <1>1. /\ cpc[c] = "idle" /\ open
        /\ UNCHANGED <<checkpoint, file, lock, next, upto, work, handled, ownVars>>
        /\ op' = [op EXCEPT ![c] = "run_process_managers"]
        /\ at' = [at EXCEPT ![c] = FirstManager]
    BY DEF InjectAndRun
  <1>2. ForeignWrite
    BY DEF InjectAndRun, ForeignWrite, Foreign, MayWrite
  <1>3. LogGrows /\ Len(log') <= LogLimit
    BY <1>0, <1>2, ForeignGrows
  <1>4. PICK pc \in {"dispatch", "lock"} :
            /\ cpc' = [cpc EXCEPT ![c] = pc]
            /\ pc # "dispatch" => FirstManager <= Len(Order)
    <2>1. FirstManager \in 1 .. Len(Order) + 1 /\ Len(Order) \in Nat
      BY FirstManagerType, OrderType
    <2>2. CASE FirstManager > Len(Order)
      <3>1. cpc' = [cpc EXCEPT ![c] = "dispatch"]
        BY <2>2 DEF InjectAndRun
      <3> QED BY <3>1
    <2>3. CASE ~(FirstManager > Len(Order))
      <3>1. cpc' = [cpc EXCEPT ![c] = "lock"]
        BY <2>3 DEF InjectAndRun
      <3> QED BY <2>1, <2>3, <3>1
    <2> QED BY <2>2, <2>3
  <1>5. /\ cpc' \in [Callers -> CallerPcs] /\ cpc'[c] = pc
        /\ at' \in [Callers -> 1 .. Len(Order) + 1] /\ at'[c] = FirstManager
        /\ op' \in [Callers -> Ops] /\ op'[c] = "run_process_managers"
        /\ \A d \in Callers \ {c} : cpc'[d] = cpc[d] /\ at'[d] = at[d] /\ op'[d] = op[d]
    BY <1>0, <1>1, <1>4, FirstManagerType DEF CallerPcs, Ops
  <1>6. PassInv'
    <2>1. \A d \in Callers : cpc'[d] \notin {"idle", "dispatch"} => at'[d] <= Len(Order)
      BY <1>0, <1>4, <1>5 DEF PassInv, CallersFollow
    <2>2. \A d \in Callers : cpc'[d] = "read" => cpc[d] = "read" /\ at'[d] = at[d]
      BY <1>4, <1>5
    <2> QED BY <1>0, <1>1, <1>3, <1>5, <2>1, <2>2, GrowInv
  <1>7. LocksInv'
    <2>1. LocksTyped' /\ OthersKeep(c) /\ \A r \in Runner : In(c, r)' => In(c, r)
      BY <1>0, <1>1, SameLocks DEF LocksInv
    <2>2. \A r \in Runner : ~In(c, r)
      BY <1>0, <1>1 DEF LocksInv, CallerPlace
    <2> QED BY <1>0, <1>4, <1>5, <2>1, <2>2, CallerLeaves
  <1>8. HandsInv'
    <2>1. work[c] = <<>>
      BY <1>0, <1>1 DEF HandsInv, InPlace
    <2>2. InPlace(c)'
      BY <1>1, <1>5, <2>1 DEF InPlace
    <2> QED BY <1>0, <1>1, <1>5, <2>2, OnePlace
  <1>9. Counted'
    BY <1>0, <1>1 DEF Counted
  <1>10. OwnInv'
    <2>1. answer[c] = "none"
      BY <1>0, <1>1 DEF OwnInv
    <2>2. \A d \in Callers : answer'[d] # "none" => cpc'[d] = "dispatch" /\ work'[d] # <<>>
      BY <1>0, <1>1, <1>5, <2>1 DEF OwnInv, ownVars
    <2> QED BY <1>0, <1>1, <1>3, <2>2 DEF OwnInv, ownVars
  <1> QED BY <1>1, <1>2, <1>6, <1>7, <1>8, <1>9, <1>10 DEF BaseInv, Writes, ownVars

\* The process dies.
LEMMA DieBase ==
    ASSUME BaseInv, Die
    PROVE  /\ BaseInv' /\ UNCHANGED <<log, letters>> /\ checkpoint' = file'
           /\ \A r \in Runner : file'[r] = Fresh \/ file'[r] = file[r]
           /\ crashes' = crashes + 1
           /\ \A c \in Callers : work'[c] = <<>> /\ answer'[c] = "none" /\ op'[c] = "none"
  <1>0. /\ PassInv /\ LocksInv /\ Counted /\ OwnInv /\ crashes \in Nat
    BY BaseFacts
  <1>1. Crash /\ crashes' = crashes + 1 /\ crashes < CrashLimit /\ open' = FALSE
        /\ letters' = letters /\ answer' = [c \in Callers |-> "none"]
    BY DEF Die
  <1>2. /\ PassInv' /\ log' = log /\ handled' = handled /\ checkpoint' = file'
        /\ \A r \in Runner : file'[r] = Fresh \/ file'[r] = file[r]
    BY <1>0, <1>1, CrashInv
  <1>3. /\ lock' = [r \in Runner |-> <<>>] /\ cpc' = [c \in Callers |-> "idle"]
        /\ work' = [c \in Callers |-> <<>>] /\ upto' = [c \in Callers |-> 0]
        /\ op' = [c \in Callers |-> "none"]
    BY <1>1 DEF Crash
  <1>4. LocksInv'
    BY <1>3, FreeLocks
  <1>5. HandsInv'
    BY <1>1, CrashPlace
  <1>6. Counted'
    BY <1>0, <1>2, <1>3 DEF Counted
  <1>7. OwnInv'
    <2>1. crashes' \in 0 .. CrashLimit
      BY <1>0, <1>1, DeliveryAssumption
    <2>2. answer' \in [Callers -> Answered3] /\ \A c \in Callers : answer'[c] = "none"
      BY <1>1 DEF Answered3
    <2> QED BY <1>0, <1>1, <1>2, <1>3, <2>1, <2>2 DEF OwnInv
  <1> QED BY <1>1, <1>2, <1>3, <1>4, <1>5, <1>6, <1>7 DEF BaseInv

\* In the beginning.
LEMMA InitBase ==
    ASSUME DeliveryInit
    PROVE  BaseInv
  <1>1. RunnersInit
    BY DEF DeliveryInit
  <1>2. PassInv /\ LocksInv /\ HandsInv
    BY <1>1, InitInv, InitLocks, InitHands
  <1>3. Counted
    BY <1>1 DEF RunnersInit, Counted
  <1>4. OwnInv
    <2>1. 0 \in 0 .. CrashLimit /\ Len(log) <= LogLimit
      BY <1>1, DeliveryAssumption, RunnersAssumption DEF RunnersInit
    <2> QED BY <1>1, <2>1 DEF DeliveryInit, RunnersInit, OwnInv, Answered3
  <1> QED BY <1>2, <1>3, <1>4 DEF BaseInv

-----------------------------------------------------------------------------
(* Commands in hand, and events in the log                                  *)

\* A command in hand answers an event of the log, and nobody else has it too.
WorkAnswers == \A c \in Callers : \A i \in 1 .. Len(work[c]) : IsAnswer(work[c][i])
WorkOnce ==
    \A c, d \in Callers : \A i \in 1 .. Len(work[c]), j \in 1 .. Len(work[d]) :
        work[c][i] = work[d][j] => c = d /\ i = j

\* An event that is nobody else's is one that a command caused, and comes after the
\* event the command answers.
LogCaused ==
    \A n \in 1 .. Len(log) :
        \/ log[n] \in Foreign
        \/ \E x \in EnvelopeIds : IsAnswer(x) /\ x.pos + 1 < n /\ CausedBy(x, log[n])

FlowInv == WorkAnswers /\ WorkOnce /\ LogCaused

\* A log that grows by events of others, or by what a command leads to.
LEMMA LogCausedGrows ==
    ASSUME log \in Seq(Events), LogCaused, LogGrows, NEW y,
           \A n \in Len(log) + 1 .. Len(log') :
               log'[n] \in Foreign \/ (IsAnswer(y) /\ CausedBy(y, log'[n]))
    PROVE  LogCaused'
  <1>0. Len(log) \in Nat /\ Len(log') \in Nat /\ Len(log) <= Len(log')
    BY DEF LogGrows
  <1> SUFFICES ASSUME NEW n \in 1 .. Len(log')
               PROVE  \/ log'[n] \in Foreign
                      \/ \E x \in EnvelopeIds : IsAnswer(x)' /\ x.pos + 1 < n /\ CausedBy(x, log[n])'
    BY DEF LogCaused
  <1>1. CASE n \in 1 .. Len(log)
    <2>1. log'[n] = log[n]
      BY <1>1 DEF LogGrows
    <2>2. CASE log[n] \in Foreign
      BY <2>1, <2>2
    <2>3. CASE \E x \in EnvelopeIds : IsAnswer(x) /\ x.pos + 1 < n /\ CausedBy(x, log[n])
      <3>1. PICK x \in EnvelopeIds : IsAnswer(x) /\ x.pos + 1 < n /\ CausedBy(x, log[n])
        BY <2>3
      <3>2. IsAnswer(x)' /\ \A e : CausedBy(x, e)' <=> CausedBy(x, e)
        BY <3>1, AnswerStays
      <3>3. PICK e : e = log[n]
        OBVIOUS
      <3>4. CausedBy(x, e)'
        BY <3>1, <3>2, <3>3
      <3>5. CausedBy(x, log[n])'
        BY <2>1, <3>3, <3>4 DEF CausedBy
      <3> QED BY <3>1, <3>2, <3>5
    <2> QED BY <1>1, <2>2, <2>3 DEF LogCaused
  <1>2. CASE n \notin 1 .. Len(log)
    <2>1. n \in Len(log) + 1 .. Len(log')
      BY <1>0, <1>2
    <2>2. CASE log'[n] \in Foreign
      BY <2>2
    <2>3. CASE IsAnswer(y) /\ CausedBy(y, log'[n])
      <3>1. y \in EnvelopeIds /\ y.pos \in Nat /\ y.pos < Len(log)
        BY <2>3, EnvelopeRecord DEF IsAnswer
      <3>2. y.pos + 1 < n
        BY <1>0, <2>1, <3>1
      <3>3. IsAnswer(y)' /\ \A e : CausedBy(y, e)' <=> CausedBy(y, e)
        BY <2>3, AnswerStays
      <3>4. PICK e : e = log'[n]
        OBVIOUS
      <3>5. CausedBy(y, e)'
        BY <2>3, <3>3, <3>4
      <3>6. CausedBy(y, log[n])'
        BY <3>4, <3>5 DEF CausedBy
      <3> QED BY <3>1, <3>2, <3>3, <3>6
    <2> QED BY <2>1, <2>2, <2>3
  <1> QED BY <1>1, <1>2

\* Commands in hand stay answers while the log grows and hands do not change.
LEMMA WorkStays ==
    ASSUME BaseInv, WorkAnswers, WorkOnce, LogGrows, work' = work
    PROVE  WorkAnswers' /\ WorkOnce'
  <1>1. \A c \in Callers : \A i \in 1 .. Len(work[c]) : IsAnswer(work[c][i])'
    <2>1. \A x : IsAnswer(x) => IsAnswer(x)'
      BY BaseFacts, AnswerStays
    <2>2. ASSUME NEW c \in Callers, NEW i \in 1 .. Len(work[c]) PROVE IsAnswer(work[c][i])'
      <3>1. PICK x : x = work[c][i]
        OBVIOUS
      <3>2. IsAnswer(x)'
        BY <2>1, <3>1 DEF WorkAnswers
      <3> QED BY <3>1, <3>2 DEF IsAnswer
    <2> QED BY <2>2
  <1>2. WorkAnswers'
    BY <1>1 DEF WorkAnswers
  <1>3. WorkOnce'
    BY DEF WorkOnce
  <1> QED BY <1>2, <1>3

\* A pass that reads an event collects commands nobody has in hand: all those its
\* manager answers the event with, and it moves past the event.
LEMMA ReadCollects ==
    ASSUME BaseInv, NEW c \in Callers, ReadEvent(c)
    PROVE  \E p \in Seq(EnvelopeIds) :
               /\ cpc[c] = "read" /\ log' = log
               /\ work'[c] = work[c] \o p
               /\ \A d \in Callers \ {c} : work'[d] = work[d]
               /\ \A i \in 1 .. Len(p) :
                      IsAnswer(p[i]) /\ p[i].pos = checkpoint[p[i].pm].pos
               /\ \A i, j \in 1 .. Len(p) : p[i] = p[j] => i = j
               /\ \A m \in Managers : checkpoint[m].pos <= checkpoint'[m].pos
               /\ \A x : IsAnswer(x) /\ x.pos < checkpoint'[x.pm].pos =>
                      x.pos < checkpoint[x.pm].pos \/ \E i \in 1 .. Len(p) : p[i] = x
  <1>0. /\ PassInv /\ log \in Seq(Events) /\ checkpoint \in [Runner -> Checkpoints]
    BY BaseFacts
  <1>1. PICK r \in Runner, n \in Nat, p \in Seq(EnvelopeIds) :
               /\ cpc[c] = "read" /\ n < Len(log)
               /\ work'[c] = work[c] \o p
               /\ \A d \in Callers \ {c} : work'[d] = work[d]
               /\ \A q \in Runner \ {r} : checkpoint'[q] = checkpoint[q]
               /\ \/ checkpoint'[r].pos = checkpoint[r].pos /\ p = <<>>
                  \/ /\ checkpoint[r].pos = n /\ checkpoint'[r].pos = n + 1
                     /\ p = Answers(r, n)
    BY <1>0, ReadFacts
  <1>2. log' = log
    BY DEF ReadEvent
  <1>3. \A m \in Managers : m \in Runner /\ checkpoint[m].pos \in Nat
    BY <1>0 DEF Runner, Checkpoints
  <1>4. \A x : IsAnswer(x) => x \in EnvelopeIds /\ x.pm \in Managers /\ x.pos \in Nat
    BY EnvelopeRecord DEF IsAnswer
  <1>5. CASE checkpoint'[r].pos = checkpoint[r].pos /\ p = <<>>
    <2>1. \A m \in Managers : checkpoint'[m].pos = checkpoint[m].pos
      BY <1>1, <1>3, <1>5
    <2>2. Len(p) = 0
      BY <1>5
    <2>3. \A i \in 1 .. Len(p) : FALSE
      BY <2>2
    <2>4. \A m \in Managers : checkpoint[m].pos <= checkpoint'[m].pos
      BY <1>3, <2>1
    <2>5. \A x : IsAnswer(x) /\ x.pos < checkpoint'[x.pm].pos => x.pos < checkpoint[x.pm].pos
      BY <1>4, <2>1
    <2> WITNESS p \in Seq(EnvelopeIds)
    <2> QED BY <1>1, <1>2, <2>3, <2>4, <2>5
  <1>6. CASE /\ checkpoint[r].pos = n /\ checkpoint'[r].pos = n + 1
             /\ p = Answers(r, n)
    <2>1. \A m \in Managers : checkpoint[m].pos <= checkpoint'[m].pos
      BY <1>1, <1>3, <1>6
    <2>2. CASE r \in Managers
      <3>1. \A x : x \in Range(p) <=> IsAnswer(x) /\ x.pm = r /\ x.pos = n
        BY <1>0, <1>1, <1>6, <2>2, AnswersAre
      <3>2. \A i \in 1 .. Len(p) : p[i] \in Range(p)
        BY DEF Range
      <3>3. \A i, j \in 1 .. Len(p) : p[i] = p[j] => i = j
        <4>1. CASE log[n + 1] \in Decodable
          <5>1. p = [i \in 1 .. Envelopes(r, log[n + 1]) |-> [pm |-> r, pos |-> n, nr |-> i]]
            BY <1>6, <2>2, <4>1 DEF Answers
          <5>2. Envelopes(r, log[n + 1]) \in Nat
            BY <2>2, <4>1, RunnersAssumption
          <5>3. Len(p) = Envelopes(r, log[n + 1])
            BY <5>1, <5>2
          <5>4. \A i \in 1 .. Len(p) : p[i].nr = i
            BY <5>1, <5>3
          <5> QED BY <5>4
        <4>2. CASE log[n + 1] \notin Decodable
          BY <1>6, <4>2 DEF Answers
        <4> QED BY <4>1, <4>2
      <3>4. ASSUME NEW x, IsAnswer(x), x.pos < checkpoint'[x.pm].pos
            PROVE  x.pos < checkpoint[x.pm].pos \/ \E i \in 1 .. Len(p) : p[i] = x
        <4>1. x.pm \in Managers /\ x.pos \in Nat
          BY <1>4, <3>4
        <4>2. CASE x.pm # r
          BY <1>1, <1>3, <3>4, <4>1, <4>2
        <4>3. CASE x.pm = r /\ x.pos # n
          BY <1>6, <3>4, <4>1, <4>3
        <4>4. CASE x.pm = r /\ x.pos = n
          <5>1. x \in Range(p)
            BY <3>1, <3>4, <4>4
          <5> QED BY <5>1 DEF Range
        <4> QED BY <4>2, <4>3, <4>4
      <3>5. \A i \in 1 .. Len(p) : IsAnswer(p[i]) /\ p[i].pos = checkpoint[p[i].pm].pos
        BY <1>6, <3>1, <3>2
      <3> WITNESS p \in Seq(EnvelopeIds)
      <3> QED BY <1>1, <1>2, <2>1, <3>3, <3>4, <3>5
    <2>3. CASE r \notin Managers
      <3>1. p = <<>> /\ Len(p) = 0
        BY <1>6, <2>3 DEF Answers
      <3>2. \A m \in Managers : checkpoint'[m].pos = checkpoint[m].pos
        BY <1>1, <1>3, <2>3
      <3>3. \A i \in 1 .. Len(p) : FALSE
        BY <3>1
      <3>4. \A x : IsAnswer(x) /\ x.pos < checkpoint'[x.pm].pos => x.pos < checkpoint[x.pm].pos
        BY <1>4, <3>2
      <3> WITNESS p \in Seq(EnvelopeIds)
      <3> QED BY <1>1, <1>2, <2>1, <3>3, <3>4
    <2> QED BY <2>2, <2>3
  <1> QED BY <1>1, <1>5, <1>6

\* They join those in hand.
LEMMA ReadWork ==
    ASSUME BaseInv, WorkAnswers, WorkOnce, NEW c \in Callers, ReadEvent(c)
    PROVE  WorkAnswers' /\ WorkOnce'
  <1>0. /\ PassInv /\ work \in [Callers -> Seq(EnvelopeIds)]
    BY BaseFacts
  <1>1. PICK p \in Seq(EnvelopeIds) :
            /\ log' = log
            /\ work'[c] = work[c] \o p
            /\ \A d \in Callers \ {c} : work'[d] = work[d]
            /\ \A i \in 1 .. Len(p) :
                   IsAnswer(p[i]) /\ p[i].pos = checkpoint[p[i].pm].pos
            /\ \A i, j \in 1 .. Len(p) : p[i] = p[j] => i = j
    BY ReadCollects
  <1>2. PICK k \in Nat : k = Len(work[c])
    BY <1>0
  <1>3. /\ Len(work'[c]) = k + Len(p) /\ Len(p) \in Nat
        /\ \A i \in 1 .. k : work'[c][i] = work[c][i]
        /\ \A i \in k + 1 .. Len(work'[c]) : work'[c][i] = p[i - k] /\ i - k \in 1 .. Len(p)
    BY <1>0, <1>1, <1>2
  <1>4. \A d \in Callers : \A i \in 1 .. Len(work'[d]) :
            \/ i \in 1 .. Len(work[d]) /\ work'[d][i] = work[d][i]
            \/ /\ d = c /\ i \in k + 1 .. Len(work'[c])
               /\ i - k \in 1 .. Len(p) /\ work'[d][i] = p[i - k]
    BY <1>1, <1>2, <1>3, SMTT(30)
  <1>5. \A x : IsAnswer(x)' <=> IsAnswer(x)
    BY <1>1 DEF IsAnswer
  <1>6. \A d \in Callers : \A i \in 1 .. Len(work'[d]) : IsAnswer(work'[d][i])
    BY <1>1, <1>4 DEF WorkAnswers
  <1>7. WorkAnswers'
    BY <1>1, <1>6 DEF WorkAnswers, IsAnswer
  <1>8. \A d \in Callers : \A i \in 1 .. Len(work[d]) :
            work[d][i].pos < checkpoint[work[d][i].pm].pos
    BY <1>0 DEF PassInv, CallersFollow
  <1>9. \A x : IsAnswer(x) => x.pos \in Nat /\ checkpoint[x.pm].pos \in Nat
    BY <1>0, EnvelopeRecord DEF IsAnswer, PassInv, PassTypes, Runner, Checkpoints
  <1>10. ASSUME NEW a \in Callers, NEW b \in Callers,
                NEW i \in 1 .. Len(work'[a]), NEW j \in 1 .. Len(work'[b]),
                work'[a][i] = work'[b][j]
         PROVE  a = b /\ i = j
    <2>1. CASE i \in 1 .. Len(work[a]) /\ work'[a][i] = work[a][i]
      <3>1. CASE j \in 1 .. Len(work[b]) /\ work'[b][j] = work[b][j]
        <4>1. work[a][i] = work[b][j]
          BY <1>10, <2>1, <3>1
        <4> QED BY <2>1, <3>1, <4>1 DEF WorkOnce
      <3>2. CASE j - k \in 1 .. Len(p) /\ work'[b][j] = p[j - k]
        <4>1. IsAnswer(p[j - k]) /\ p[j - k].pos = checkpoint[p[j - k].pm].pos
          BY <1>1, <3>2
        <4>2. p[j - k] = work[a][i]
          BY <1>10, <2>1, <3>2
        <4>3. p[j - k].pos < checkpoint[p[j - k].pm].pos
          BY <1>8, <2>1, <4>2
        <4> QED BY <1>9, <4>1, <4>3
      <3> QED BY <1>4, <3>1, <3>2
    <2>2. CASE /\ a = c /\ i \in k + 1 .. Len(work'[c])
               /\ i - k \in 1 .. Len(p) /\ work'[a][i] = p[i - k]
      <3>1. CASE j \in 1 .. Len(work[b]) /\ work'[b][j] = work[b][j]
        <4>1. IsAnswer(p[i - k]) /\ p[i - k].pos = checkpoint[p[i - k].pm].pos
          BY <1>1, <2>2
        <4>2. p[i - k] = work[b][j]
          BY <1>10, <2>2, <3>1
        <4>3. p[i - k].pos < checkpoint[p[i - k].pm].pos
          BY <1>8, <3>1, <4>2
        <4> QED BY <1>9, <4>1, <4>3
      <3>2. CASE /\ b = c /\ j \in k + 1 .. Len(work'[c])
                 /\ j - k \in 1 .. Len(p) /\ work'[b][j] = p[j - k]
        <4>1. i - k = j - k
          BY <1>1, <1>10, <2>2, <3>2
        <4> QED BY <1>2, <2>2, <3>2, <4>1
      <3> QED BY <1>4, <3>1, <3>2
    <2> QED BY <1>4, <2>1, <2>2
  <1>11. WorkOnce'
    BY <1>10 DEF WorkOnce
  <1> QED BY <1>7, <1>11

\* The first of the commands in hand is done with.
LEMMA SettleWork ==
    ASSUME BaseInv, WorkAnswers, WorkOnce, NEW c \in Callers, Settle(c)
    PROVE  WorkAnswers' /\ WorkOnce'
  <1>0. work \in [Callers -> Seq(EnvelopeIds)]
    BY BaseFacts
  <1>1. work[c] # <<>>
    BY SettleBase
  <1>2. log' = log /\ work' = [work EXCEPT ![c] = Tail(@)]
    BY DEF Settle
  <1>3. /\ Len(work'[c]) = Len(work[c]) - 1 /\ Len(work[c]) \in Nat
        /\ \A i \in 1 .. Len(work'[c]) : work'[c][i] = work[c][i + 1]
        /\ \A d \in Callers \ {c} : work'[d] = work[d]
    BY <1>0, <1>1, <1>2
  <1>4. \A i \in 1 .. Len(work'[c]) : i + 1 \in 1 .. Len(work[c])
    BY <1>3
  <1>5. \A d \in Callers : \A i \in 1 .. Len(work'[d]) : IsAnswer(work'[d][i])
    BY <1>3, <1>4 DEF WorkAnswers
  <1>6. WorkAnswers'
    BY <1>2, <1>5 DEF WorkAnswers, IsAnswer
  <1>7. ASSUME NEW a \in Callers, NEW b \in Callers,
               NEW i \in 1 .. Len(work'[a]), NEW j \in 1 .. Len(work'[b]),
               work'[a][i] = work'[b][j]
        PROVE  a = b /\ i = j
    <2>1. CASE a = c /\ b = c
      <3>1. /\ i + 1 \in 1 .. Len(work[c]) /\ j + 1 \in 1 .. Len(work[c])
            /\ work[c][i + 1] = work[c][j + 1]
        BY <1>3, <1>4, <1>7, <2>1
      <3>2. i + 1 = j + 1
        BY <3>1 DEF WorkOnce
      <3> QED BY <2>1, <3>2
    <2>2. CASE a = c /\ b # c
      <3>1. /\ i + 1 \in 1 .. Len(work[c]) /\ j \in 1 .. Len(work[b])
            /\ work[c][i + 1] = work[b][j]
        BY <1>3, <1>4, <1>7, <2>2
      <3> QED BY <2>2, <3>1 DEF WorkOnce
    <2>3. CASE a # c /\ b = c
      <3>1. /\ i \in 1 .. Len(work[a]) /\ j + 1 \in 1 .. Len(work[c])
            /\ work[a][i] = work[c][j + 1]
        BY <1>3, <1>4, <1>7, <2>3
      <3> QED BY <2>3, <3>1 DEF WorkOnce
    <2>4. CASE a # c /\ b # c
      BY <1>3, <1>7, <2>4 DEF WorkOnce
    <2> QED BY <2>1, <2>2, <2>3, <2>4
  <1>8. WorkOnce'
    BY <1>7 DEF WorkOnce
  <1> QED BY <1>6, <1>8

\* A step that leaves the log, the commands in hand and the callers alone.
LEMMA StillBase ==
    ASSUME BaseInv, UNCHANGED runnerVars, UNCHANGED <<answer, letters, crashes>>,
           open' \in BOOLEAN, open => open'
    PROVE  BaseInv' /\ Writes /\ UNCHANGED <<cpc, op>>
  <1>0. /\ PassInv /\ LocksInv /\ Counted /\ HandsInv /\ OwnInv /\ log \in Seq(Events)
        /\ Len(log) \in Nat /\ Len(log) <= LogLimit
    BY BaseFacts
  <1>1. /\ UNCHANGED <<log, checkpoint, file, lock, cpc, op, at, next, upto, work, handled>>
        /\ UNCHANGED <<answer, letters, crashes>>
    BY DEF runnerVars
  <1>2. LogGrows /\ Len(log') <= LogLimit
    BY <1>0, <1>1 DEF LogGrows
  <1>3. PassInv' /\ LocksInv' /\ Counted' /\ HandsInv'
    BY <1>1, <1>2, GrowBase
  <1>4. OwnInv'
    BY <1>0, <1>1 DEF OwnInv
  <1> QED BY <1>1, <1>3, <1>4 DEF BaseInv, Writes

\* The steps of the loop as the rest of this module sees them.
LEMMA FlowSteps ==
    ASSUME BaseInv, WorkAnswers, [DeliveryNext]_deliveryVars
    PROVE  /\ BaseInv'
           /\ \/ Writes /\ UNCHANGED <<cpc, op>>
              \/ Writes /\ \E c \in Callers : InjectAndRun(c)
              \/ Die
              \/ \E c \in Callers :
                     \/ CallStep(c) /\ UNCHANGED ownVars
                     \/ Settle(c)
                     \/ (Executes(c) \/ Refuses(c)) /\ Head(work[c]) = work[c][1]
                        /\ 1 \in 1 .. Len(work[c]) /\ IsAnswer(Head(work[c]))
  <1>0. work \in [Callers -> Seq(EnvelopeIds)]
    BY BaseFacts
  <1>1. CASE /\ UNCHANGED runnerVars /\ UNCHANGED <<answer, letters, crashes>>
             /\ open' \in BOOLEAN /\ (open => open')
    BY <1>1, StillBase
  <1>2. CASE Die
    BY <1>2, DieBase
  <1>3. CASE WriteOutside
    BY <1>3, WriteBase
  <1>4. ASSUME NEW c \in Callers, InjectEvent(c)
        PROVE  BaseInv' /\ Writes /\ UNCHANGED <<cpc, op>>
    BY <1>4, WriteBase
  <1>5. ASSUME NEW c \in Callers, InjectAndRun(c)
        PROVE  BaseInv' /\ Writes
    BY <1>5, InjectAndRunBase
  <1>6. ASSUME NEW c \in Callers, open, CallStep(c), UNCHANGED ownVars
        PROVE  BaseInv'
    BY <1>6, CallStepBase
  <1>7. ASSUME NEW c \in Callers, Settle(c)
        PROVE  BaseInv'
    BY <1>7, SettleBase
  <1>8. ASSUME NEW c \in Callers, Executes(c) \/ Refuses(c)
        PROVE  /\ BaseInv' /\ Head(work[c]) = work[c][1] /\ 1 \in 1 .. Len(work[c])
               /\ IsAnswer(Head(work[c]))
    <2>1. work[c] # <<>>
      BY <1>8 DEF Executes, Refuses
    <2>2. Head(work[c]) = work[c][1] /\ 1 \in 1 .. Len(work[c])
      BY <1>0, <2>1
    <2>3. IsAnswer(work[c][1])
      BY <2>2 DEF WorkAnswers
    <2>4. IsAnswer(Head(work[c]))
      BY <2>2, <2>3
    <2> QED BY <1>8, <2>2, <2>4, ExecuteBase
  <1> QED BY <1>1, <1>2, <1>3, <1>4, <1>5, <1>6, <1>7, <1>8, DeliveryIs

\* Commands in hand and the log stay what they are.
LEMMA FlowStep ==
    ASSUME BaseInv, FlowInv, [DeliveryNext]_deliveryVars
    PROVE  BaseInv' /\ FlowInv'
  <1>0. /\ log \in Seq(Events) /\ Len(log) \in Nat /\ Len(log) <= LogLimit
        /\ PassInv /\ HandsInv
        /\ WorkAnswers /\ WorkOnce /\ LogCaused
    BY BaseFacts DEF FlowInv
  <1>1. BaseInv'
    BY <1>0, FlowSteps
  <1>2. ASSUME log' = log PROVE LogCaused'
    <2>1. LogGrows
      BY <1>0, <1>2 DEF LogGrows
    <2>2. \A n \in Len(log) + 1 .. Len(log') :
              log'[n] \in Foreign \/ (IsAnswer(0) /\ CausedBy(0, log'[n]))
      BY <1>0, <1>2
    <2> QED BY <1>0, <2>1, <2>2, LogCausedGrows
  <1>3. CASE Writes
    <2>1. CASE log' = log
      <3>1. LogGrows /\ work' = work
        BY <1>0, <1>3, <2>1 DEF LogGrows, Writes
      <3> QED BY <1>0, <1>1, <1>2, <2>1, <3>1, WorkStays DEF FlowInv
    <2>2. CASE ForeignWrite
      <3>1. /\ LogGrows /\ Len(log') = Len(log) + 1 /\ log'[Len(log) + 1] \in Foreign
            /\ work' = work
        BY <1>0, <1>3, <2>2, ForeignGrows DEF Writes
      <3>2. \A n \in Len(log) + 1 .. Len(log') :
                log'[n] \in Foreign \/ (IsAnswer(0) /\ CausedBy(0, log'[n]))
        BY <1>0, <3>1
      <3>3. LogCaused'
        BY <1>0, <3>1, <3>2, LogCausedGrows
      <3> QED BY <1>0, <1>1, <3>1, <3>3, WorkStays DEF FlowInv
    <2> QED BY <1>3, <2>1, <2>2 DEF Writes
  <1>4. CASE Die
    <2>1. log' = log /\ \A c \in Callers : work'[c] = <<>>
      BY <1>4, DieBase
    <2>2. \A c \in Callers : \A i \in 1 .. Len(work'[c]) : FALSE
      BY <2>1
    <2>3. WorkAnswers' /\ WorkOnce'
      BY <2>2 DEF WorkAnswers, WorkOnce
    <2> QED BY <1>1, <1>2, <2>1, <2>3 DEF FlowInv
  <1>5. ASSUME NEW c \in Callers, CallStep(c), UNCHANGED ownVars
        PROVE  FlowInv'
    <2>1. log' = log /\ (UNCHANGED <<checkpoint, work>> \/ ReadEvent(c))
      BY <1>0, <1>5, CallStepFacts
    <2>2. CASE ReadEvent(c)
      BY <1>0, <1>2, <2>1, <2>2, ReadWork DEF FlowInv
    <2>3. CASE work' = work
      <3>1. LogGrows
        BY <1>0, <2>1 DEF LogGrows
      <3> QED BY <1>0, <1>2, <2>1, <2>3, <3>1, WorkStays DEF FlowInv
    <2> QED BY <2>1, <2>2, <2>3
  <1>6. ASSUME NEW c \in Callers, Settle(c)
        PROVE  FlowInv'
    <2>1. log' = log
      BY <1>6 DEF Settle
    <2> QED BY <1>0, <1>2, <1>6, <2>1, SettleWork DEF FlowInv
  <1>7. ASSUME NEW c \in Callers, Refuses(c)
        PROVE  FlowInv'
    <2>1. log' = log /\ work' = work
      BY <1>7 DEF Refuses, callerVars
    <2>2. LogGrows
      BY <1>0, <2>1 DEF LogGrows
    <2> QED BY <1>0, <1>2, <2>1, <2>2, WorkStays DEF FlowInv
  <1>8. ASSUME NEW c \in Callers, Executes(c), IsAnswer(Head(work[c]))
        PROVE  FlowInv'
    <2>1. PICK x : x = Head(work[c])
      OBVIOUS
    <2>2. /\ Routable(Sent(x)) /\ Len(log \o Effect(x)) <= LogLimit /\ log' = log \o Effect(x)
          /\ work' = work
      BY <1>8, <2>1 DEF Executes, callerVars
    <2>3. PICK k \in Nat : k = Len(Outcome(Sent(x).command))
      BY <1>0, <1>8, <2>1, OutcomeType
    <2>4. /\ LogGrows /\ Len(log') = Len(log) + k
          /\ \A i \in 1 .. k : CausedBy(x, log'[Len(log) + i])
      BY <1>0, <1>8, <2>1, <2>2, <2>3, EffectGrows
    <2>5. ASSUME NEW n \in Len(log) + 1 .. Len(log')
          PROVE  CausedBy(x, log'[n])
      <3>1. n - Len(log) \in 1 .. k /\ Len(log) + (n - Len(log)) = n
        BY <1>0, <2>4
      <3> QED BY <2>4, <3>1
    <2>6. IsAnswer(x)
      BY <1>8, <2>1
    <2>7. LogCaused'
      BY <1>0, <2>4, <2>5, <2>6, LogCausedGrows
    <2> QED BY <1>0, <2>2, <2>4, <2>7, WorkStays DEF FlowInv
  <1> QED BY <1>0, <1>1, <1>3, <1>4, <1>5, <1>6, <1>7, <1>8, FlowSteps

\* In the beginning there are none, and the log is empty.
LEMMA InitFlow ==
    ASSUME DeliveryInit
    PROVE  BaseInv /\ FlowInv
  <1>1. log = <<>> /\ work = [c \in Callers |-> <<>>]
    BY DEF DeliveryInit, RunnersInit
  <1>2. \A c \in Callers : \A i \in 1 .. Len(work[c]) : FALSE
    BY <1>1
  <1>3. \A n \in 1 .. Len(log) : FALSE
    BY <1>1
  <1> QED BY <1>2, <1>3, InitBase DEF FlowInv, WorkAnswers, WorkOnce, LogCaused

-----------------------------------------------------------------------------
(* What a saved position covers                                             *)

InHand(x) == \E c \in Callers : \E i \in 1 .. Len(work[c]) : work[c][i] = x

\* c may run the managers, and nobody else does.
RunsManagers(c) == Operations[c] \cap {"run_process_managers", "inject_and_run"} # {}
SoleRunner      == \A c, d \in Callers : RunsManagers(c) /\ RunsManagers(d) => c = d

\* A call that is saving managers is one that runs them, by a task that may.
Saver(c) ==
    /\ op[c] = "run_process_managers" => RunsManagers(c)
    /\ cpc[c] \in {"save", "saving"} => op[c] = "run_process_managers"

\* Commands of events a manager has moved past are delivered or in hand, those of
\* events its file covers are delivered, and so is one whose answer was positive.
PassedDelivered ==
    \A x : IsAnswer(x) /\ x.pos < checkpoint[x.pm].pos => Delivered(x) \/ InHand(x)
SavedDelivered ==
    \A x : IsAnswer(x) /\ x.pos < file[x.pm].pos => Delivered(x)
OkDelivered == \A c \in Callers : answer[c] = "ok" => Delivered(work[c][1])

DeliveredInv ==
    /\ \A c \in Callers : Saver(c)
    /\ PassedDelivered /\ SavedDelivered /\ OkDelivered

\* What is delivered stays so.
LEMMA DeliveredStays ==
    ASSUME log \in Seq(Events), LogGrows, letters \subseteq letters', NEW x, IsAnswer(x), Delivered(x)
    PROVE  Delivered(x)'
  <1>1. Sent(x)' = Sent(x)
    BY AnswerStays
  <1>2. CASE x \in letters
    BY <1>2 DEF Delivered
  <1>3. CASE \A d \in Range(Outcome(Sent(x).command)) :
                 \E n \in 1 .. Len(log) : Cause(log[n]) = x /\ log[n].type = d.type
    <2>1. ASSUME NEW d \in Range(Outcome(Sent(x).command))
          PROVE  \E n \in 1 .. Len(log') : Cause(log'[n]) = x /\ log'[n].type = d.type
      <3>1. PICK n \in 1 .. Len(log) : Cause(log[n]) = x /\ log[n].type = d.type
        BY <1>3
      <3>2. log'[n] = log[n] /\ n \in 1 .. Len(log')
        BY DEF LogGrows
      <3> QED BY <3>1, <3>2
    <2> QED BY <1>1, <2>1 DEF Delivered
  <1> QED BY <1>2, <1>3 DEF Delivered

\* An answer to an event that was in the log before is no new one.
LEMMA OldAnswer ==
    ASSUME log \in Seq(Events), LogGrows, NEW x, IsAnswer(x)', x.pos < Len(log)
    PROVE  IsAnswer(x)
  <1>1. x \in EnvelopeIds /\ x.pos \in Nat /\ Len(log) \in Nat
    BY EnvelopeRecord DEF IsAnswer
  <1>2. log'[x.pos + 1] = log[x.pos + 1]
    BY <1>1 DEF LogGrows
  <1> QED BY <1>1, <1>2 DEF IsAnswer

\* Positions are within the log.
LEMMA PositionsWithin ==
    ASSUME BaseInv, NEW x \in EnvelopeIds
    PROVE  /\ checkpoint[x.pm].pos \in Nat /\ checkpoint[x.pm].pos <= Len(log)
           /\ file[x.pm].pos \in Nat /\ file[x.pm].pos <= Len(log) /\ x.pos \in Nat
  BY BaseFacts, EnvelopeRecord DEF PassInv, CheckpointsAreCursors, IsCursor, Checkpoints, Runner

\* The log grows, and positions stay.
LEMMA GrowDelivered ==
    ASSUME BaseInv, PassedDelivered, SavedDelivered, LogGrows,
           UNCHANGED <<checkpoint, file, work, letters>>
    PROVE  PassedDelivered' /\ SavedDelivered'
  <1>0. log \in Seq(Events) /\ Len(log) \in Nat
    BY BaseFacts
  <1>1. ASSUME NEW x, IsAnswer(x)', x.pos < checkpoint[x.pm].pos \/ x.pos < file[x.pm].pos
        PROVE  IsAnswer(x) /\ (Delivered(x) => Delivered(x)')
    <2>1. x \in EnvelopeIds
      BY <1>1 DEF IsAnswer
    <2>2. x.pos < Len(log)
      BY <1>0, <1>1, <2>1, PositionsWithin
    <2>3. IsAnswer(x)
      BY <1>0, <1>1, <2>2, OldAnswer
    <2> QED BY <1>0, <2>3, DeliveredStays
  <1>2. \A x : InHand(x)' <=> InHand(x)
    BY DEF InHand
  <1>3. ASSUME NEW x, IsAnswer(x)', x.pos < checkpoint[x.pm].pos
        PROVE  Delivered(x)' \/ InHand(x)'
    BY <1>1, <1>2, <1>3 DEF PassedDelivered
  <1>4. ASSUME NEW x, IsAnswer(x)', x.pos < file[x.pm].pos
        PROVE  Delivered(x)'
    BY <1>1, <1>4 DEF SavedDelivered
  <1> QED BY <1>3, <1>4 DEF PassedDelivered, SavedDelivered

\* Who saves managers runs them.
LEMMA CallStepSaver ==
    ASSUME BaseInv, \A d \in Callers : Saver(d), NEW c \in Callers, CallStep(c)
    PROVE  \A d \in Callers : Saver(d)'
  <1>0. /\ PassInv /\ HandsInv /\ InPlace(c) /\ Saver(c)
        /\ cpc \in [Callers -> CallerPcs] /\ op \in [Callers -> Ops]
    BY BaseFacts DEF HandsInv
  <1>1. \A d \in Callers \ {c} : cpc'[d] = cpc[d] /\ op'[d] = op[d]
    BY <1>0, CallStepFacts
  <1>2. \A d \in Callers \ {c} : Saver(d)'
    BY <1>1 DEF Saver, RunsManagers
  <1>3. CASE CallProjection(c)
    <2>1. op'[c] = "projection" /\ cpc'[c] = "lock"
      BY <1>0, <1>3 DEF CallProjection, Begin
    <2> QED BY <1>2, <2>1 DEF Saver
  <1>4. CASE CallRunProcessManagers(c)
    <2>1. op'[c] = "run_process_managers" /\ "run_process_managers" \in Operations[c]
      BY <1>0, <1>4 DEF CallRunProcessManagers, Begin
    <2>2. RunsManagers(c)
      BY <2>1 DEF RunsManagers
    <2> QED BY <1>2, <2>1, <2>2 DEF Saver, RunsManagers
  <1>5. ASSUME NEW tag, NEW pos, Return(c, tag, pos)
        PROVE  Saver(c)'
    BY <1>0, <1>5 DEF Return, Saver
  <1>6. CASE op' = op /\ (cpc'[c] \in {"save", "saving"} => op[c] = "run_process_managers")
    BY <1>0, <1>2, <1>6 DEF Saver, RunsManagers
  <1>7. CASE Acquire(c) \/ Await(c) \/ Subscribe(c) \/ ReadEvent(c) \/ ManagerDone(c) \/ LockForSave(c)
    <2>1. op' = op
      BY <1>7 DEF Acquire, Await, Subscribe, ReadEvent, ManagerDone, LockForSave, callerVars
    <2>2. cpc'[c] \in {"subscribe", "read", "lock", "dispatch"}
          \/ (cpc[c] = "save" /\ cpc'[c] = "saving") \/ cpc'[c] = cpc[c]
      BY <1>0, <1>7 DEF Acquire, Await, Subscribe, ReadEvent, ManagerDone, LockForSave, callerVars
    <2>3. cpc'[c] \in {"save", "saving"} => op[c] = "run_process_managers"
      BY <1>0, <2>2 DEF Saver
    <2> QED BY <1>6, <2>1, <2>3
  <1>8. CASE ProjectionDone(c)
    BY <1>2, <1>5, <1>8 DEF ProjectionDone, Fail
  <1>9. CASE AllDispatched(c)
    <2>1. op[c] = "run_process_managers"
      BY <1>0, <1>9 DEF AllDispatched, InPlace
    <2> QED BY <1>2, <1>5, <1>6, <1>9, <2>1 DEF AllDispatched
  <1>10. CASE SaveManager(c)
    <2>1. op[c] = "run_process_managers"
      BY <1>0, <1>10 DEF SaveManager, Saver
    <2> QED BY <1>2, <1>5, <1>6, <1>10, <2>1 DEF SaveManager, Fail
  <1> QED BY <1>3, <1>4, <1>7, <1>8, <1>9, <1>10 DEF CallStep, PassStep

\* When a call saves a manager, nobody has a command in hand.
LEMMA NobodyElse ==
    ASSUME BaseInv, SoleRunner, \A d \in Callers : Saver(d), NEW c \in Callers,
           cpc[c] = "saving", work[c] = <<>>
    PROVE  \A x : ~InHand(x)
  <1>1. HandsInv
    BY BaseFacts
  <1>2. RunsManagers(c)
    BY DEF Saver
  <1>3. ASSUME NEW d \in Callers, work[d] # <<>> PROVE FALSE
    <2>1. op[d] = "run_process_managers"
      BY <1>1, <1>3 DEF HandsInv, InPlace
    <2>2. RunsManagers(d)
      BY <2>1 DEF Saver
    <2> QED BY <1>2, <1>3, <2>2 DEF SoleRunner
  <1>4. \A d \in Callers : Len(work[d]) = 0
    BY <1>3
  <1> QED BY <1>4 DEF InHand

\* Steps of a call: events are read, and positions saved.
LEMMA CallStepDelivered ==
    ASSUME BaseInv, FlowInv, DeliveredInv, SoleRunner, NEW c \in Callers, CallStep(c),
           UNCHANGED ownVars
    PROVE  DeliveredInv'
  <1>0. /\ PassInv /\ HandsInv /\ OwnInv /\ log \in Seq(Events)
        /\ work \in [Callers -> Seq(EnvelopeIds)]
        /\ file \in [Runner -> Checkpoints] /\ checkpoint \in [Runner -> Checkpoints]
        /\ PassedDelivered /\ SavedDelivered /\ OkDelivered
        /\ letters' = letters /\ answer' = answer
    BY BaseFacts DEF DeliveredInv, ownVars
  <1>1. \A d \in Callers : Saver(d)'
    BY CallStepSaver DEF DeliveredInv
  <1>2. /\ log' = log /\ (cpc[c] = "dispatch" => work[c] = <<>>)
        /\ \A d \in Callers \ {c} : work'[d] = work[d]
        /\ UNCHANGED <<checkpoint, work>> \/ ReadEvent(c)
        /\ \/ file' = file
           \/ /\ Target(c) \in Runner
              /\ file' = [file EXCEPT ![Target(c)] = checkpoint[Target(c)]]
              /\ Target(c) \in Projections \/ (cpc[c] = "saving" /\ work[c] = <<>>)
    BY <1>0, CallStepFacts
  <1>3. \A x : (IsAnswer(x)' <=> IsAnswer(x)) /\ (Delivered(x)' <=> Delivered(x))
    BY <1>0, <1>2 DEF IsAnswer, Delivered, Sent
  <1>4. PassedDelivered'
    <2>1. CASE UNCHANGED <<checkpoint, work>>
      BY <1>0, <1>3, <2>1 DEF PassedDelivered, InHand
    <2>2. CASE ReadEvent(c)
      <3>1. PICK p \in Seq(EnvelopeIds) :
               /\ work'[c] = work[c] \o p
               /\ \A x : IsAnswer(x) /\ x.pos < checkpoint'[x.pm].pos =>
                      x.pos < checkpoint[x.pm].pos \/ \E i \in 1 .. Len(p) : p[i] = x
        BY <2>2, ReadCollects
      <3>2. /\ \A i \in 1 .. Len(work[c]) : i \in 1 .. Len(work'[c]) /\ work'[c][i] = work[c][i]
            /\ \A i \in 1 .. Len(p) :
                   Len(work[c]) + i \in 1 .. Len(work'[c]) /\ work'[c][Len(work[c]) + i] = p[i]
        BY <1>0, <3>1
      <3>3. ASSUME NEW x, InHand(x) PROVE InHand(x)'
        <4>1. PICK d \in Callers : \E i \in 1 .. Len(work[d]) : work[d][i] = x
          BY <3>3 DEF InHand
        <4>2. PICK i \in 1 .. Len(work[d]) : work[d][i] = x
          BY <4>1
        <4>3. i \in 1 .. Len(work'[d]) /\ work'[d][i] = x
          BY <1>2, <3>2, <4>2
        <4> QED BY <4>3 DEF InHand
      <3>4. ASSUME NEW x, NEW i \in 1 .. Len(p), p[i] = x PROVE InHand(x)'
        BY <3>2, <3>4 DEF InHand
      <3>5. ASSUME NEW x, IsAnswer(x), x.pos < checkpoint'[x.pm].pos
            PROVE  Delivered(x) \/ InHand(x)'
        <4>1. CASE x.pos < checkpoint[x.pm].pos
          BY <1>0, <3>3, <3>5, <4>1 DEF PassedDelivered
        <4>2. CASE \E i \in 1 .. Len(p) : p[i] = x
          BY <3>4, <4>2
        <4> QED BY <3>1, <3>5, <4>1, <4>2
      <3> QED BY <1>3, <3>5 DEF PassedDelivered
    <2> QED BY <1>2, <2>1, <2>2
  <1>5. SavedDelivered'
    <2>1. ASSUME NEW x, IsAnswer(x), x.pos < file'[x.pm].pos
          PROVE  Delivered(x)
      <3>1. x.pm \in Managers /\ x.pm \in Runner /\ x.pm \notin Projections
        BY <2>1, EnvelopeRecord, RunnersAssumption DEF IsAnswer, Runner
      <3>2. CASE file'[x.pm] = file[x.pm]
        BY <1>0, <2>1, <3>2 DEF SavedDelivered
      <3>3. CASE file'[x.pm] # file[x.pm]
        <4>1. /\ Target(c) = x.pm /\ file'[x.pm] = checkpoint[x.pm]
              /\ cpc[c] = "saving" /\ work[c] = <<>>
          BY <1>0, <1>2, <3>1, <3>3
        <4>2. ~InHand(x)
          BY <4>1, NobodyElse DEF DeliveredInv
        <4> QED BY <1>0, <2>1, <4>1, <4>2 DEF PassedDelivered
      <3> QED BY <3>2, <3>3
    <2> QED BY <1>3, <2>1 DEF SavedDelivered
  <1>6. OkDelivered'
    <2>1. ASSUME NEW d \in Callers, answer'[d] = "ok"
          PROVE  Delivered(work'[d][1])
      <3>1. cpc[d] = "dispatch" /\ work[d] # <<>> /\ Delivered(work[d][1])
        BY <1>0, <2>1 DEF OwnInv, OkDelivered
      <3>2. work'[d] = work[d]
        BY <1>2, <3>1
      <3> QED BY <3>1, <3>2
    <2>2. ASSUME NEW d \in Callers, answer'[d] = "ok"
          PROVE  Delivered(work[d][1])'
      <3>1. PICK x : x = work'[d][1]
        OBVIOUS
      <3>2. Delivered(x)'
        BY <1>3, <2>1, <2>2, <3>1
      <3> QED BY <3>1, <3>2 DEF Delivered, Sent
    <2> QED BY <2>2 DEF OkDelivered
  <1> QED BY <1>1, <1>4, <1>5, <1>6 DEF DeliveredInv

\* An answer is dealt with: a command that failed is in the dead-letter log.
LEMMA SettleDelivered ==
    ASSUME BaseInv, FlowInv, DeliveredInv, NEW c \in Callers, Settle(c)
    PROVE  DeliveredInv'
  <1>0. /\ OwnInv /\ log \in Seq(Events) /\ Len(log) \in Nat
        /\ work \in [Callers -> Seq(EnvelopeIds)] /\ answer \in [Callers -> Answered3]
        /\ PassedDelivered /\ SavedDelivered /\ OkDelivered /\ WorkAnswers
    BY BaseFacts DEF DeliveredInv, FlowInv
  <1>1. /\ answer[c] # "none" /\ answer' = [answer EXCEPT ![c] = "none"]
        /\ letters' = IF answer[c] = "failed" THEN letters \cup {Head(work[c])} ELSE letters
        /\ work' = [work EXCEPT ![c] = Tail(@)]
        /\ UNCHANGED <<log, checkpoint, file, cpc, op>>
    BY DEF Settle
  <1>2. work[c] # <<>>
    BY SettleBase
  <1>3. PICK x : x = Head(work[c])
    OBVIOUS
  <1>4. x = work[c][1] /\ 1 \in 1 .. Len(work[c])
    BY <1>0, <1>2, <1>3
  <1>5. IsAnswer(x)
    BY <1>0, <1>4 DEF WorkAnswers
  <1>6. LogGrows /\ letters \subseteq letters'
    BY <1>0, <1>1 DEF LogGrows
  <1>7. \A y : IsAnswer(y)' <=> IsAnswer(y)
    BY <1>1 DEF IsAnswer
  <1>8. \A y : IsAnswer(y) /\ Delivered(y) => Delivered(y)'
    BY <1>0, <1>6, DeliveredStays
  <1>9. Delivered(x)'
    <2>1. CASE answer[c] = "failed"
      <3>1. x \in letters'
        BY <1>1, <1>3, <2>1
      <3> QED BY <3>1 DEF Delivered
    <2>2. CASE answer[c] = "ok"
      BY <1>0, <1>4, <1>5, <1>8, <2>2 DEF OkDelivered
    <2> QED BY <1>0, <1>1, <2>1, <2>2 DEF Answered3
  <1>10. /\ \A i \in 2 .. Len(work[c]) : i - 1 \in 1 .. Len(work'[c]) /\ work'[c][i - 1] = work[c][i]
         /\ \A d \in Callers \ {c} : work'[d] = work[d]
    BY <1>0, <1>1, <1>2
  <1>11. ASSUME NEW y, InHand(y), y # x PROVE InHand(y)'
    <2>1. PICK d \in Callers : \E i \in 1 .. Len(work[d]) : work[d][i] = y
      BY <1>11 DEF InHand
    <2>2. PICK i \in 1 .. Len(work[d]) : work[d][i] = y
      BY <2>1
    <2>3. CASE d = c
      <3>1. i \in 2 .. Len(work[c])
        BY <1>4, <1>11, <2>2, <2>3
      <3> QED BY <1>10, <2>2, <2>3, <3>1 DEF InHand
    <2>4. CASE d # c
      BY <1>10, <2>2, <2>4 DEF InHand
    <2> QED BY <2>3, <2>4
  <1>12. PassedDelivered'
    <2>1. ASSUME NEW y, IsAnswer(y), y.pos < checkpoint[y.pm].pos
          PROVE  Delivered(y)' \/ InHand(y)'
      BY <1>0, <1>8, <1>9, <1>11, <2>1 DEF PassedDelivered
    <2> QED BY <1>1, <1>7, <2>1 DEF PassedDelivered
  <1>13. SavedDelivered'
    <2>1. ASSUME NEW y, IsAnswer(y), y.pos < file[y.pm].pos
          PROVE  Delivered(y)'
      BY <1>0, <1>8, <2>1 DEF SavedDelivered
    <2> QED BY <1>1, <1>7, <2>1 DEF SavedDelivered
  <1>14. OkDelivered'
    <2>1. ASSUME NEW d \in Callers, answer'[d] = "ok"
          PROVE  Delivered(work[d][1])'
      <3>1. d # c /\ answer[d] = "ok" /\ work'[d] = work[d]
        BY <1>0, <1>1, <1>10, <2>1
      <3>2. work[d] # <<>>
        BY <1>0, <3>1 DEF OwnInv
      <3>3. 1 \in 1 .. Len(work[d])
        BY <1>0, <3>2
      <3>4. PICK y : y = work[d][1]
        OBVIOUS
      <3>5. IsAnswer(y) /\ Delivered(y)
        BY <1>0, <3>1, <3>3, <3>4 DEF WorkAnswers, OkDelivered
      <3>6. Delivered(y)'
        BY <1>8, <3>5
      <3> QED BY <3>1, <3>4, <3>6 DEF Delivered, Sent
    <2> QED BY <2>1 DEF OkDelivered
  <1>15. \A d \in Callers : Saver(d)'
    BY <1>1 DEF DeliveredInv, Saver, RunsManagers
  <1> QED BY <1>12, <1>13, <1>14, <1>15 DEF DeliveredInv

\* The log grows, and the commands that were answered stay first in hand.
LEMMA GrowOk ==
    ASSUME BaseInv, FlowInv, OkDelivered, LogGrows, work' = work, letters' = letters,
           NEW d \in Callers, answer[d] = "ok"
    PROVE  Delivered(work[d][1])'
  <1>0. /\ log \in Seq(Events) /\ work \in [Callers -> Seq(EnvelopeIds)] /\ OwnInv
    BY BaseFacts
  <1>1. 1 \in 1 .. Len(work[d])
    BY <1>0 DEF OwnInv
  <1>2. PICK y : y = work[d][1]
    OBVIOUS
  <1>3. IsAnswer(y) /\ Delivered(y)
    BY <1>1, <1>2 DEF FlowInv, WorkAnswers, OkDelivered
  <1>4. Delivered(y)'
    BY <1>0, <1>3, DeliveredStays
  <1> QED BY <1>2, <1>4 DEF Delivered, Sent

\* An aggregate that answers has recorded everything it answers.
LEMMA ExecuteDelivered ==
    ASSUME BaseInv, FlowInv, DeliveredInv, NEW c \in Callers, Executes(c) \/ Refuses(c),
           Head(work[c]) = work[c][1], IsAnswer(Head(work[c]))
    PROVE  DeliveredInv'
  <1>0. /\ log \in Seq(Events) /\ Len(log) \in Nat /\ Len(log) <= LogLimit
        /\ answer \in [Callers -> Answered3]
        /\ PassedDelivered /\ SavedDelivered /\ OkDelivered
    BY BaseFacts DEF DeliveredInv
  <1>1. UNCHANGED <<checkpoint, file, work, letters, cpc, op>>
    BY DEF Executes, Refuses, callerVars
  <1>2. PICK x : x = Head(work[c])
    OBVIOUS
  <1>3. LogGrows /\ (answer'[c] = "ok" => Delivered(x)')
    <2>1. CASE Refuses(c)
      <3>1. log' = log /\ answer'[c] = "failed"
        BY <1>0, <2>1 DEF Refuses
      <3> QED BY <1>0, <3>1 DEF LogGrows
    <2>2. CASE Executes(c)
      <3>1. /\ Routable(Sent(x)) /\ Len(log \o Effect(x)) <= LogLimit /\ log' = log \o Effect(x)
        BY <1>2, <2>2 DEF Executes
      <3>2. PICK ds : ds = Outcome(Sent(x).command)
        OBVIOUS
      <3>3. /\ LogGrows /\ ds \in Seq(DomainEvents) /\ Len(ds) \in Nat
            /\ Len(log') = Len(log) + Len(ds)
            /\ \A i \in 1 .. Len(ds) :
                  /\ CausedBy(x, log'[Len(log) + i])
                  /\ log'[Len(log) + i].type = ds[i].type
        <4>1. IsAnswer(x)
          BY <1>2
        <4>2. /\ LogGrows /\ ds \in Seq(DomainEvents)
              /\ Len(log') = Len(log) + Len(ds)
              /\ \A i \in 1 .. Len(ds) :
                    /\ CausedBy(x, log'[Len(log) + i])
                    /\ log'[Len(log) + i].type = ds[i].type
          BY <1>0, <3>1, <3>2, <4>1, EffectGrows
        <4> QED BY <4>2
      <3>4. ASSUME NEW d \in Range(ds)
            PROVE  \E n \in 1 .. Len(log') : Cause(log'[n]) = x /\ log'[n].type = d.type
        <4>1. PICK i \in 1 .. Len(ds) : d = ds[i]
          BY DEF Range
        <4>2. PICK e : e = log'[Len(log) + i]
          OBVIOUS
        <4>3. CausedBy(x, e) /\ e.type = d.type
          BY <3>3, <4>1, <4>2
        <4>4. Cause(e) = x
          BY <1>0, <1>2, <4>3, CausedFacts
        <4>5. Len(log) + i \in 1 .. Len(log')
          BY <1>0, <3>3
        <4> QED BY <4>2, <4>3, <4>4, <4>5
      <3>5. Sent(x)' = Sent(x)
        BY <1>0, <1>2, <3>3, AnswerStays
      <3> QED BY <3>2, <3>3, <3>4, <3>5 DEF Delivered
    <2> QED BY <2>1, <2>2
  <1>4. PassedDelivered' /\ SavedDelivered'
    BY <1>0, <1>1, <1>3, GrowDelivered
  <1>5. OkDelivered'
    <2>1. ASSUME NEW d \in Callers, answer'[d] = "ok"
          PROVE  Delivered(work[d][1])'
      <3>1. CASE d = c
        <4>1. x = work'[d][1]
          BY <1>1, <1>2, <3>1
        <4> QED BY <1>3, <2>1, <3>1, <4>1 DEF Delivered, Sent
      <3>2. CASE d # c
        <4>1. answer[d] = "ok"
          BY <1>0, <2>1, <3>2 DEF Executes, Refuses
        <4> QED BY <1>0, <1>1, <1>3, <4>1, GrowOk
      <3> QED BY <3>1, <3>2
    <2> QED BY <2>1 DEF OkDelivered
  <1>6. \A d \in Callers : Saver(d)'
    BY <1>1 DEF DeliveredInv, Saver, RunsManagers
  <1> QED BY <1>4, <1>5, <1>6 DEF DeliveredInv

\* Others write.
LEMMA WriteDelivered ==
    ASSUME BaseInv, FlowInv, DeliveredInv, Writes, \A d \in Callers : Saver(d)'
    PROVE  DeliveredInv'
  <1>0. /\ log \in Seq(Events) /\ Len(log) \in Nat
        /\ PassedDelivered /\ SavedDelivered /\ OkDelivered
    BY BaseFacts DEF DeliveredInv
  <1>1. LogGrows
    BY <1>0, ForeignGrows DEF Writes, LogGrows
  <1>2. UNCHANGED <<checkpoint, file, work, letters, answer>>
    BY DEF Writes
  <1>3. PassedDelivered' /\ SavedDelivered'
    BY <1>0, <1>1, <1>2, GrowDelivered
  <1>4. \A d \in Callers : answer'[d] = "ok" => Delivered(work[d][1])'
    BY <1>0, <1>1, <1>2, GrowOk
  <1> QED BY <1>3, <1>4 DEF DeliveredInv, OkDelivered

\* A process that dies keeps what its files cover.
LEMMA DieDelivered ==
    ASSUME BaseInv, DeliveredInv, Die
    PROVE  DeliveredInv'
  <1>0. /\ SavedDelivered /\ file \in [Runner -> Checkpoints]
    BY BaseFacts DEF DeliveredInv
  <1>1. /\ BaseInv' /\ UNCHANGED <<log, letters>> /\ checkpoint' = file'
        /\ \A r \in Runner : file'[r] = Fresh \/ file'[r] = file[r]
        /\ \A c \in Callers : work'[c] = <<>> /\ answer'[c] = "none" /\ op'[c] = "none"
    BY DieBase
  <1>2. \A x : (IsAnswer(x)' <=> IsAnswer(x)) /\ (Delivered(x)' <=> Delivered(x))
    BY <1>1 DEF IsAnswer, Delivered, Sent
  <1>3. ASSUME NEW x, IsAnswer(x), x.pos < file'[x.pm].pos PROVE Delivered(x)
    <2>1. x.pm \in Runner /\ x.pos \in Nat
      BY <1>3, EnvelopeRecord DEF IsAnswer, Runner
    <2>2. file'[x.pm] = file[x.pm]
      BY <1>1, <1>3, <2>1 DEF Fresh
    <2> QED BY <1>0, <1>3, <2>2 DEF SavedDelivered
  <1>4. PassedDelivered' /\ SavedDelivered'
    BY <1>1, <1>2, <1>3 DEF PassedDelivered, SavedDelivered
  <1>5. OkDelivered'
    BY <1>1 DEF OkDelivered
  <1>6. \A d \in Callers : Saver(d)'
    <2>1. cpc' = [c \in Callers |-> "idle"]
      BY DEF Die, Crash
    <2> QED BY <1>1, <2>1 DEF Saver
  <1> QED BY <1>4, <1>5, <1>6 DEF DeliveredInv

\* Every step.
LEMMA DeliveredStep ==
    ASSUME BaseInv, FlowInv, DeliveredInv, SoleRunner, [DeliveryNext]_deliveryVars
    PROVE  DeliveredInv'
  <1>0. WorkAnswers /\ \A d \in Callers : Saver(d)
    BY DEF FlowInv, DeliveredInv
  <1>1. CASE Writes /\ UNCHANGED <<cpc, op>>
    <2>1. \A d \in Callers : Saver(d)'
      BY <1>0, <1>1 DEF Saver, RunsManagers
    <2> QED BY <1>1, <2>1, WriteDelivered
  <1>2. ASSUME Writes, NEW c \in Callers, InjectAndRun(c)
        PROVE  DeliveredInv'
    <2>1. /\ cpc \in [Callers -> CallerPcs] /\ op \in [Callers -> Ops]
      BY BaseFacts
    <2>2. /\ "inject_and_run" \in Operations[c]
          /\ \A d \in Callers \ {c} : cpc'[d] = cpc[d] /\ op'[d] = op[d]
          /\ op'[c] = "run_process_managers"
      BY <1>2, <2>1 DEF InjectAndRun
    <2>3. RunsManagers(c)
      BY <2>2 DEF RunsManagers
    <2>4. \A d \in Callers : Saver(d)'
      BY <1>0, <2>2, <2>3 DEF Saver, RunsManagers
    <2> QED BY <1>2, <2>4, WriteDelivered
  <1>3. CASE Die
    BY <1>3, DieDelivered
  <1>4. ASSUME NEW c \in Callers, CallStep(c), UNCHANGED ownVars
        PROVE  DeliveredInv'
    BY <1>4, CallStepDelivered
  <1>5. ASSUME NEW c \in Callers, Settle(c)
        PROVE  DeliveredInv'
    BY <1>5, SettleDelivered
  <1>6. ASSUME NEW c \in Callers, Executes(c) \/ Refuses(c), Head(work[c]) = work[c][1],
               IsAnswer(Head(work[c]))
        PROVE  DeliveredInv'
    BY <1>6, ExecuteDelivered
  <1> QED BY <1>0, <1>1, <1>2, <1>3, <1>4, <1>5, <1>6, FlowSteps

\* In the beginning nothing is covered.
LEMMA InitDelivered ==
    ASSUME DeliveryInit
    PROVE  DeliveredInv
  <1>1. /\ log = <<>> /\ answer = [c \in Callers |-> "none"] /\ op = [c \in Callers |-> "none"]
        /\ cpc = [c \in Callers |-> "idle"]
    BY DEF DeliveryInit, RunnersInit
  <1>2. \A x : ~IsAnswer(x)
    BY <1>1, EnvelopeRecord DEF IsAnswer
  <1>3. \A c \in Callers : Saver(c) /\ answer[c] # "ok"
    BY <1>1 DEF Saver
  <1> QED BY <1>2, <1>3 DEF DeliveredInv, PassedDelivered, SavedDelivered, OkDelivered

-----------------------------------------------------------------------------
(* How often a command takes effect                                         *)

Effects(x)    == {n \in 1 .. Len(log) : Cause(log[n]) = x}
EffectSize(x) == Len(Outcome(Sent(x).command))

\* This process may still carry out x: it has not come to the event, or has the
\* command in hand and no answer yet.
Waiting(x) ==
    \E c \in Callers : \E i \in 1 .. Len(work[c]) :
        work[c][i] = x /\ (i = 1 => answer[c] = "none")
Pending(x) == checkpoint[x.pm].pos <= x.pos \/ Waiting(x)
Times(x)   == IF Pending(x) THEN crashes ELSE crashes + 1

CountInv == \A x : IsAnswer(x) => Cardinality(Effects(x)) <= Times(x) * EffectSize(x)

\* Multiplication.
LEMMA TimesGrows ==
    ASSUME NEW a \in Nat, NEW b \in Nat, NEW k \in Nat, a <= b
    PROVE  a * k <= b * k /\ a * k \in Nat /\ (a + 1) * k = a * k + k
  <1>1. PICK d \in Nat : b = a + d
    <2>1. b - a \in Nat /\ b = a + (b - a)
      OBVIOUS
    <2> QED BY <2>1
  <1>2. d * k \in Nat /\ a * k \in Nat
    OBVIOUS
  <1>3. b * k = a * k + d * k
    BY <1>1
  <1>4. (a + 1) * k = a * k + k
    OBVIOUS
  <1> QED BY <1>2, <1>3, <1>4

\* An event that names a command of ours as its cause was caused by it.
LEMMA CauseIs ==
    ASSUME BaseInv, LogCaused, NEW n \in 1 .. Len(log), Cause(log[n]) \in EnvelopeIds
    PROVE  IsAnswer(Cause(log[n]))
  <1>0. log \in Seq(Events) /\ Len(log) <= LogLimit
    BY BaseFacts
  <1>1. log[n] \notin Foreign
    BY DeliveryAssumption
  <1>2. PICK x \in EnvelopeIds : IsAnswer(x) /\ CausedBy(x, log[n])
    BY <1>1 DEF LogCaused
  <1>3. PICK e : e = log[n]
    OBVIOUS
  <1>4. Cause(e) = x
    BY <1>0, <1>2, <1>3, CausedFacts
  <1> QED BY <1>2, <1>3, <1>4

\* Effects are finitely many, and there are none before there is a command.
LEMMA EffectsFinite ==
    ASSUME log \in Seq(Events), NEW x
    PROVE  IsFiniteSet(Effects(x)) /\ Cardinality(Effects(x)) \in Nat
  <1>1. Len(log) \in Nat /\ IsFiniteSet(1 .. Len(log))
    BY FS_Interval
  <1>2. Effects(x) \in SUBSET (1 .. Len(log))
    BY DEF Effects
  <1>3. IsFiniteSet(Effects(x))
    BY <1>1, <1>2, FS_Subset
  <1> QED BY <1>3, FS_CardinalityType

LEMMA NoEffectYet ==
    ASSUME BaseInv, LogCaused, NEW x \in EnvelopeIds, ~IsAnswer(x)
    PROVE  Effects(x) = {}
  BY CauseIs DEF Effects

\* The log grows by events of others and of the command y.
LEMMA EffectsGrow ==
    ASSUME BaseInv, LogGrows, NEW x \in EnvelopeIds,
           \A n \in Len(log) + 1 .. Len(log') : Cause(log'[n]) # x
    PROVE  Effects(x)' = Effects(x)
  <1>0. Len(log) \in Nat /\ Len(log') \in Nat /\ Len(log) <= Len(log')
    BY BaseFacts DEF LogGrows
  <1>1. ASSUME NEW n \in 1 .. Len(log'), Cause(log'[n]) = x
        PROVE  n \in 1 .. Len(log) /\ Cause(log[n]) = x
    <2>1. n \in 1 .. Len(log)
      BY <1>0, <1>1
    <2> QED BY <1>1, <2>1 DEF LogGrows
  <1>2. ASSUME NEW n \in 1 .. Len(log), Cause(log[n]) = x
        PROVE  n \in 1 .. Len(log') /\ Cause(log'[n]) = x
    BY <1>0, <1>2 DEF LogGrows
  <1>3. Effects(x)' = {n \in 1 .. Len(log') : Cause(log'[n]) = x}
    BY DEF Effects
  <1> QED BY <1>1, <1>2, <1>3 DEF Effects

\* The count stays right if the command gets no new effect, and is not pending again
\* in the same process.
LEMMA CountStays ==
    ASSUME BaseInv, LogCaused, LogGrows, CountInv, NEW x, IsAnswer(x)',
           \A n \in Len(log) + 1 .. Len(log') : Cause(log'[n]) # x,
           \/ crashes' = crashes /\ (IsAnswer(x) /\ Pending(x)' => Pending(x))
           \/ crashes' = crashes + 1,
           EffectSize(x)' \in Nat
    PROVE  Cardinality(Effects(x)') <= Times(x)' * EffectSize(x)'
  <1>0. log \in Seq(Events) /\ crashes \in Nat /\ crashes' \in Nat
    BY BaseFacts
  <1>1. x \in EnvelopeIds
    BY DEF IsAnswer
  <1>2. Effects(x)' = Effects(x)
    BY <1>1, EffectsGrow
  <1>3. /\ (Pending(x) => Times(x) = crashes) /\ (~Pending(x) => Times(x) = crashes + 1)
        /\ (Pending(x)' => Times(x)' = crashes') /\ (~Pending(x)' => Times(x)' = crashes' + 1)
    BY Zenon DEF Times
  <1>4. Times(x)' \in Nat
    <2>1. Times(x)' \in {crashes', crashes' + 1}
      BY <1>3, Zenon
    <2> QED BY <1>0, <2>1
  <1>5. CASE ~IsAnswer(x)
    <2>1. Cardinality(Effects(x)') = 0
      BY <1>1, <1>2, <1>5, NoEffectYet, FS_EmptySet
    <2>2. Times(x)' * EffectSize(x)' \in Nat
      BY <1>4, TimesGrows
    <2> QED BY <2>1, <2>2
  <1>6. CASE IsAnswer(x)
    <2>1. EffectSize(x)' = EffectSize(x)
      BY <1>0, <1>6, AnswerStays DEF EffectSize
    <2>2. Times(x) \in Nat /\ Times(x) <= Times(x)'
      <3>1. CASE Pending(x)
        <4>1. Times(x) = crashes /\ Times(x)' \in {crashes', crashes' + 1}
          BY <1>3, <3>1
        <4>2. crashes' \in {crashes, crashes + 1}
          OBVIOUS
        <4> QED BY <1>0, <4>1, <4>2
      <3>2. CASE ~Pending(x)
        <4>1. Times(x) = crashes + 1 /\ Times(x)' \in {crashes', crashes' + 1}
          BY <1>3, <3>2
        <4>2. CASE crashes' = crashes + 1
          BY <1>0, <4>1, <4>2
        <4>3. CASE crashes' = crashes /\ ~Pending(x)'
          BY <1>0, <1>3, <4>1, <4>3
        <4> QED BY <1>6, <3>2, <4>2, <4>3
      <3> QED BY <3>1, <3>2
    <2>3. Times(x) * EffectSize(x) <= Times(x)' * EffectSize(x)
      BY <1>4, <2>1, <2>2, TimesGrows
    <2>4. Cardinality(Effects(x)) <= Times(x) * EffectSize(x) /\ Cardinality(Effects(x)) \in Nat
      BY <1>0, <1>6, EffectsFinite DEF CountInv
    <2>5. Times(x) * EffectSize(x) \in Nat /\ Times(x)' * EffectSize(x) \in Nat
      BY <1>4, <2>1, <2>2, TimesGrows
    <2> QED BY <1>2, <2>1, <2>3, <2>4, <2>5
  <1> QED BY <1>5, <1>6

\* The commands of a log, and the sizes of their effects, one step later.
LEMMA SizesNext == BaseInv' => \A x : IsAnswer(x)' => EffectSize(x)' \in Nat
  <1>1. BaseInv => \A x : IsAnswer(x) => EffectSize(x) \in Nat
    BY BaseFacts, OutcomeType DEF EffectSize
  <1>2. BaseInv' => (\A x : IsAnswer(x) => EffectSize(x) \in Nat)'
    BY <1>1, PTL
  <1> QED BY <1>2

\* A step that has no effects.
LEMMA QuietCount ==
    ASSUME BaseInv, BaseInv', FlowInv, CountInv, ForeignWrite \/ log' = log,
           \/ crashes' = crashes /\ \A x : IsAnswer(x) /\ Pending(x)' => Pending(x)
           \/ crashes' = crashes + 1
    PROVE  CountInv'
  <1>0. log \in Seq(Events) /\ Len(log) \in Nat
    BY BaseFacts
  <1>1. ASSUME NEW x, IsAnswer(x)'
        PROVE  Cardinality(Effects(x)') <= Times(x)' * EffectSize(x)'
    <2>1. LogGrows /\ \A n \in Len(log) + 1 .. Len(log') : log'[n] \in Foreign
      <3>1. CASE ForeignWrite
        BY <1>0, <3>1, ForeignGrows
      <3>2. CASE log' = log
        BY <1>0, <3>2 DEF LogGrows
      <3> QED BY <3>1, <3>2
    <2>2. x \in EnvelopeIds
      BY <1>1 DEF IsAnswer
    <2>3. \A n \in Len(log) + 1 .. Len(log') : Cause(log'[n]) # x
      BY <2>1, <2>2, DeliveryAssumption
    <2>4. EffectSize(x)' \in Nat
      BY <1>1, SizesNext
    <2> QED BY <1>1, <2>1, <2>3, <2>4, CountStays DEF FlowInv
  <1> QED BY <1>1 DEF CountInv

\* Nobody takes up a command again before the process has died.
LEMMA ReadPending ==
    ASSUME BaseInv, NEW c \in Callers, CallStep(c), UNCHANGED ownVars,
           NEW x, IsAnswer(x), Pending(x)'
    PROVE  Pending(x)
  <1>0. /\ PassInv /\ HandsInv /\ OwnInv /\ work \in [Callers -> Seq(EnvelopeIds)]
        /\ checkpoint \in [Runner -> Checkpoints] /\ answer' = answer
        /\ x \in EnvelopeIds /\ x.pm \in Managers /\ x.pos \in Nat
    BY BaseFacts, EnvelopeRecord DEF ownVars, IsAnswer
  <1>1. UNCHANGED <<checkpoint, work>> \/ ReadEvent(c)
    BY <1>0, CallStepFacts
  <1>2. CASE UNCHANGED <<checkpoint, work>>
    BY <1>0, <1>2 DEF Pending, Waiting
  <1>3. CASE ReadEvent(c)
    <2>1. PICK p \in Seq(EnvelopeIds) :
               /\ cpc[c] = "read" /\ work'[c] = work[c] \o p
               /\ \A d \in Callers \ {c} : work'[d] = work[d]
               /\ \A i \in 1 .. Len(p) : p[i].pos = checkpoint[p[i].pm].pos
               /\ \A m \in Managers : checkpoint[m].pos <= checkpoint'[m].pos
      BY <1>3, ReadCollects
    <2>2. checkpoint[x.pm].pos \in Nat /\ checkpoint'[x.pm].pos \in Nat
      <3>1. PassInv'
        BY <1>0, NextInv DEF CallStep, Next, PullNext, CallerStep
      <3> QED BY <1>0, <3>1 DEF PassInv, PassTypes, Runner, Checkpoints
    <2>3. CASE checkpoint'[x.pm].pos <= x.pos
      BY <1>0, <2>1, <2>2, <2>3 DEF Pending
    <2>4. CASE Waiting(x)'
      <3>1. PICK d \in Callers : \E i \in 1 .. Len(work'[d]) :
                work'[d][i] = x /\ (i = 1 => answer[d] = "none")
        BY <1>0, <2>4 DEF Waiting
      <3>2. PICK i \in 1 .. Len(work'[d]) : work'[d][i] = x /\ (i = 1 => answer[d] = "none")
        BY <3>1
      <3>3. CASE i \in 1 .. Len(work[d]) /\ work[d][i] = x
        BY <3>2, <3>3 DEF Pending, Waiting
      <3>4. CASE d = c /\ i \notin 1 .. Len(work[c])
        <4>1. i - Len(work[c]) \in 1 .. Len(p) /\ x = p[i - Len(work[c])]
          BY <1>0, <2>1, <3>2, <3>4
        <4>2. x.pos = checkpoint[x.pm].pos
          BY <2>1, <4>1
        <4> QED BY <2>2, <4>2 DEF Pending
      <3>5. \/ i \in 1 .. Len(work[d]) /\ work[d][i] = x
            \/ d = c /\ i \notin 1 .. Len(work[c])
        <4>1. CASE d # c
          BY <2>1, <3>2, <4>1
        <4>2. CASE d = c /\ i \in 1 .. Len(work[c])
          BY <1>0, <2>1, <3>2, <4>2
        <4> QED BY <4>1, <4>2
      <3> QED BY <3>3, <3>4, <3>5
    <2> QED BY <2>3, <2>4 DEF Pending
  <1> QED BY <1>1, <1>2, <1>3

\* A command that is done with is not waiting, and the next ones were waiting before.
LEMMA SettlePending ==
    ASSUME BaseInv, NEW c \in Callers, Settle(c), NEW x, Pending(x)'
    PROVE  Pending(x)
  <1>0. /\ work \in [Callers -> Seq(EnvelopeIds)] /\ answer \in [Callers -> Answered3]
        /\ work[c] # <<>>
    BY BaseFacts, SettleBase
  <1>1. /\ checkpoint' = checkpoint /\ answer' = [answer EXCEPT ![c] = "none"]
        /\ work' = [work EXCEPT ![c] = Tail(@)]
    BY DEF Settle
  <1>2. CASE checkpoint'[x.pm].pos <= x.pos
    BY <1>1, <1>2 DEF Pending
  <1>3. CASE Waiting(x)'
    <2>1. PICK d \in Callers : \E i \in 1 .. Len(work'[d]) :
              work'[d][i] = x /\ (i = 1 => answer'[d] = "none")
      BY <1>3 DEF Waiting
    <2>2. PICK i \in 1 .. Len(work'[d]) : work'[d][i] = x /\ (i = 1 => answer'[d] = "none")
      BY <2>1
    <2>3. CASE d = c
      <3>1. i + 1 \in 1 .. Len(work[c]) /\ work[c][i + 1] = x /\ i + 1 # 1
        BY <1>0, <1>1, <2>2, <2>3
      <3> QED BY <3>1 DEF Pending, Waiting
    <2>4. CASE d # c
      <3>1. work'[d] = work[d] /\ answer'[d] = answer[d]
        BY <1>0, <1>1, <2>4
      <3> QED BY <2>2, <3>1 DEF Pending, Waiting
    <2> QED BY <2>3, <2>4
  <1> QED BY <1>2, <1>3 DEF Pending

\* An answer only ends a wait.
LEMMA AnswerPending ==
    ASSUME BaseInv, NEW c \in Callers, Executes(c) \/ Refuses(c), NEW x, Pending(x)'
    PROVE  Pending(x)
  <1>0. answer \in [Callers -> Answered3]
    BY BaseFacts
  <1>1. /\ checkpoint' = checkpoint /\ work' = work /\ answer[c] = "none"
        /\ \A d \in Callers \ {c} : answer'[d] = answer[d]
    BY <1>0 DEF Executes, Refuses, callerVars
  <1>2. \A d \in Callers : answer'[d] = "none" => answer[d] = "none"
    BY <1>1
  <1> QED BY <1>1, <1>2 DEF Pending, Waiting

\* A command that is executed was waiting, and no longer is.
LEMMA ExecuteCount ==
    ASSUME BaseInv, BaseInv', FlowInv, CountInv, NEW c \in Callers, Executes(c),
           Head(work[c]) = work[c][1], 1 \in 1 .. Len(work[c]), IsAnswer(Head(work[c]))
    PROVE  CountInv'
  <1>0. /\ log \in Seq(Events) /\ Len(log) \in Nat /\ Len(log) <= LogLimit
        /\ crashes \in Nat /\ PassInv /\ answer \in [Callers -> Answered3]
    BY BaseFacts
  <1>1. PICK y : y = Head(work[c])
    OBVIOUS
  <1>2. y = work[c][1] /\ IsAnswer(y)
    BY <1>1
  <1>3. /\ Routable(Sent(y)) /\ Len(log \o Effect(y)) <= LogLimit /\ log' = log \o Effect(y)
        /\ crashes' = crashes /\ UNCHANGED <<checkpoint, work>> /\ answer[c] = "none"
    BY <1>1 DEF Executes, callerVars
  <1>4. answer'[c] # "none"
    BY <1>0 DEF Executes
  <1>5. PICK k : k = EffectSize(y)
    OBVIOUS
  <1>6. /\ LogGrows /\ k \in Nat /\ Len(log') = Len(log) + k
        /\ \A i \in 1 .. k : CausedBy(y, log'[Len(log) + i])
    <2>1. /\ LogGrows /\ Outcome(Sent(y).command) \in Seq(DomainEvents)
          /\ Len(log') = Len(log) + Len(Outcome(Sent(y).command))
          /\ \A i \in 1 .. Len(Outcome(Sent(y).command)) : CausedBy(y, log'[Len(log) + i])
      BY <1>0, <1>2, <1>3, EffectGrows
    <2>2. k = Len(Outcome(Sent(y).command))
      BY <1>5 DEF EffectSize
    <2> QED BY <2>1, <2>2
  <1>7. ASSUME NEW n \in Len(log) + 1 .. Len(log') PROVE Cause(log'[n]) = y
    <2>1. n - Len(log) \in 1 .. k /\ Len(log) + (n - Len(log)) = n
      BY <1>0, <1>6
    <2>2. PICK e : e = log'[n]
      OBVIOUS
    <2>3. CausedBy(y, e)
      BY <1>6, <2>1, <2>2
    <2>4. Cause(e) = y
      BY <1>0, <1>2, <2>3, CausedFacts
    <2> QED BY <2>2, <2>4
  <1>8. ASSUME NEW x, IsAnswer(x)', x # y
        PROVE  Cardinality(Effects(x)') <= Times(x)' * EffectSize(x)'
    <2>1. EffectSize(x)' \in Nat
      BY <1>8, SizesNext
    <2>2. Pending(x)' => Pending(x)
      BY AnswerPending
    <2>3. \A n \in Len(log) + 1 .. Len(log') : Cause(log'[n]) # x
      BY <1>7, <1>8
    <2> QED BY <1>3, <1>6, <1>8, <2>1, <2>2, <2>3, CountStays DEF FlowInv
  <1>9. Cardinality(Effects(y)') <= Times(y)' * EffectSize(y)'
    <2>1. Times(y) = crashes
      <3>1. Pending(y)
        BY <1>2, <1>3 DEF Pending, Waiting
      <3> QED BY <3>1 DEF Times
    <2>2. Times(y)' = crashes + 1
      <3>1. ~Waiting(y)'
        <4>1. ASSUME NEW d \in Callers, NEW i \in 1 .. Len(work[d]), work[d][i] = y
              PROVE  d = c /\ i = 1
          BY <1>2, <4>1 DEF FlowInv, WorkOnce
        <4> QED BY <1>3, <1>4, <4>1 DEF Waiting
      <3>2. y.pos < checkpoint[y.pm].pos
        BY <1>0, <1>2 DEF PassInv, CallersFollow
      <3>3. y.pos \in Nat /\ checkpoint[y.pm].pos \in Nat
        BY <1>2, PositionsWithin DEF IsAnswer
      <3>4. ~Pending(y)'
        BY <1>3, <3>1, <3>2, <3>3 DEF Pending
      <3> QED BY <1>3, <3>4 DEF Times
    <2>3. EffectSize(y)' = k
      BY <1>0, <1>2, <1>5, <1>6, AnswerStays DEF EffectSize
    <2>4. Effects(y)' \in SUBSET (Effects(y) \cup (Len(log) + 1 .. Len(log')))
      <3>1. ASSUME NEW n \in 1 .. Len(log'), Cause(log'[n]) = y
            PROVE  n \in Effects(y) \cup (Len(log) + 1 .. Len(log'))
        <4>1. CASE n \in 1 .. Len(log)
          BY <1>6, <3>1, <4>1 DEF Effects, LogGrows
        <4>2. CASE n \notin 1 .. Len(log)
          BY <1>0, <1>6, <4>2
        <4> QED BY <4>1, <4>2
      <3> QED BY <3>1 DEF Effects
    <2>5. /\ IsFiniteSet(Len(log) + 1 .. Len(log')) /\ Cardinality(Len(log) + 1 .. Len(log')) = k
      <3>1. PICK a \in Int : a = Len(log) + 1
        BY <1>0
      <3>2. PICK b \in Int : b = Len(log')
        BY <1>0, <1>6
      <3>3. IsFiniteSet(a .. b) /\ Cardinality(a .. b) = IF a > b THEN 0 ELSE b - a + 1
        BY FS_Interval
      <3> QED BY <1>0, <1>6, <3>1, <3>2, <3>3
    <2>6. IsFiniteSet(Effects(y)) /\ Cardinality(Effects(y)) \in Nat
      BY <1>0, EffectsFinite
    <2>7. PICK S : S = Effects(y)
      OBVIOUS
    <2>8. PICK T : T = Len(log) + 1 .. Len(log')
      OBVIOUS
    <2>9. /\ IsFiniteSet(S \cup T) /\ Cardinality(S \cup T) \in Nat
          /\ Cardinality(S \cup T) <= Cardinality(S) + k
      <3>1. IsFiniteSet(S) /\ IsFiniteSet(T) /\ Cardinality(T) = k /\ Cardinality(S) \in Nat
        BY <2>5, <2>6, <2>7, <2>8
      <3>2. /\ IsFiniteSet(S \cup T)
            /\ Cardinality(S \cup T) = Cardinality(S) + Cardinality(T) - Cardinality(S \cap T)
        BY <3>1, FS_Union
      <3>3. S \cap T \in SUBSET S
        OBVIOUS
      <3>4. IsFiniteSet(S \cap T)
        BY <3>1, <3>3, FS_Subset
      <3>5. Cardinality(S \cap T) \in Nat /\ Cardinality(S \cup T) \in Nat
        BY <3>2, <3>4, FS_CardinalityType
      <3> QED BY <1>6, <3>1, <3>2, <3>5
    <2>10. Cardinality(Effects(y)') \in Nat /\ Cardinality(Effects(y)') <= Cardinality(S \cup T)
      <3>1. PICK R : R = Effects(y)'
        OBVIOUS
      <3>2. R \in SUBSET (S \cup T)
        BY <2>4, <2>7, <2>8, <3>1
      <3>3. IsFiniteSet(R) /\ Cardinality(R) <= Cardinality(S \cup T)
        BY <2>9, <3>2, FS_Subset
      <3>4. Cardinality(R) \in Nat
        BY <3>3, FS_CardinalityType
      <3> QED BY <3>1, <3>3, <3>4
    <2>11. Cardinality(S) <= crashes * k /\ Cardinality(S) \in Nat
      <3>1. Cardinality(Effects(y)) <= Times(y) * EffectSize(y)
        BY <1>2 DEF CountInv
      <3> QED BY <1>5, <2>1, <2>6, <2>7, <3>1
    <2>12. (crashes + 1) * k = crashes * k + k /\ crashes * k \in Nat
      BY <1>0, <1>6, TimesGrows
    <2>13. Cardinality(Effects(y)') <= crashes * k + k
      BY <1>6, <2>9, <2>10, <2>11, <2>12
    <2> QED BY <2>2, <2>3, <2>12, <2>13
  <1>10. \A x : IsAnswer(x)' => Cardinality(Effects(x)') <= Times(x)' * EffectSize(x)'
    BY <1>8, <1>9
  <1> QED BY <1>10 DEF CountInv

\* Every step.
LEMMA CountStep ==
    ASSUME BaseInv, FlowInv, CountInv, [DeliveryNext]_deliveryVars
    PROVE  CountInv'
  <1>0. WorkAnswers /\ BaseInv'
    BY FlowStep DEF FlowInv
  <1>1. CASE Writes
    <2>1. /\ crashes' = crashes /\ (ForeignWrite \/ log' = log)
          /\ \A x : Pending(x)' => Pending(x)
      BY <1>1 DEF Writes, Pending, Waiting
    <2> QED BY <1>0, <1>1, <2>1, QuietCount DEF Writes
  <1>2. CASE Die
    <2>1. log' = log /\ crashes' = crashes + 1
      BY <1>2, DieBase
    <2> QED BY <1>0, <2>1, QuietCount
  <1>3. ASSUME NEW c \in Callers, CallStep(c), UNCHANGED ownVars
        PROVE  CountInv'
    <2>1. log' = log /\ crashes' = crashes
      BY <1>3, BaseFacts, CallStepFacts DEF ownVars
    <2>2. \A x : IsAnswer(x) /\ Pending(x)' => Pending(x)
      BY <1>3, ReadPending
    <2> QED BY <1>0, <2>1, <2>2, QuietCount
  <1>4. ASSUME NEW c \in Callers, Settle(c)
        PROVE  CountInv'
    <2>1. log' = log /\ crashes' = crashes
      BY <1>4 DEF Settle
    <2>2. \A x : Pending(x)' => Pending(x)
      BY <1>4, SettlePending
    <2> QED BY <1>0, <2>1, <2>2, QuietCount
  <1>5. ASSUME NEW c \in Callers, Refuses(c)
        PROVE  CountInv'
    <2>1. log' = log /\ crashes' = crashes
      BY <1>5 DEF Refuses
    <2>2. \A x : Pending(x)' => Pending(x)
      BY <1>5, AnswerPending
    <2> QED BY <1>0, <2>1, <2>2, QuietCount
  <1>6. ASSUME NEW c \in Callers, Executes(c), Head(work[c]) = work[c][1],
               1 \in 1 .. Len(work[c]), IsAnswer(Head(work[c]))
        PROVE  CountInv'
    BY <1>0, <1>6, ExecuteCount
  <1> QED BY <1>0, <1>1, <1>2, <1>3, <1>4, <1>5, <1>6, FlowSteps

-----------------------------------------------------------------------------
(* What a call returns, in the loop                                         *)

\* The log grows under the calls.
LEMMA GrowCovers ==
    ASSUME CoverInv, PassInv, LogGrows,
           UNCHANGED <<checkpoint, file, cpc, op, at, upto, start>>, DOMAIN reply' = Callers,
           \A d \in Callers : reply'[d] = reply[d] \/ reply'[d].short = 0
    PROVE  CoverInv'
  <1>0. /\ start \in [Callers -> Nat] /\ FilesBehind /\ CoverTypes
        /\ Len(log) \in Nat /\ Len(log') \in Nat /\ Len(log) <= Len(log')
    BY CoverFacts, Numbers DEF CoverInv, LogGrows
  <1>1. FilesBehind' /\ CoverTypes'
    BY <1>0 DEF FilesBehind, CoverTypes
  <1>2. ASSUME NEW d \in Callers PROVE Covers(d)'
    <2>1. Covers(d) /\ start[d] \in Nat
      BY <1>0, CoverFacts
    <2>2. start'[d] <= Len(log') /\ reply'[d].short = 0
      BY <1>0, <2>1 DEF Covers
    <2> QED BY <2>1, <2>2 DEF Covers, Visiting
  <1> QED BY <1>1, <1>2 DEF CoverInv

\* An injection that runs the managers covers the event it injects.
LEMMA InjectAndRunCovers ==
    ASSUME BaseInv, BaseInv', CoverInv, NEW c \in Callers, InjectAndRun(c)
    PROVE  CoverInv'
  <1>0. /\ PassInv /\ log \in Seq(Events)
        /\ start \in [Callers -> Nat] /\ upto \in [Callers -> Nat]
        /\ DOMAIN op = Callers /\ DOMAIN reply = Callers
        /\ cpc \in [Callers -> CallerPcs] /\ at \in [Callers -> 1 .. Len(Order) + 1]
        /\ FilesBehind
    BY BaseFacts, CoverFacts
  <1>1. PassInv'
    BY DEF BaseInv
  <1>2. ForeignWrite
    BY DEF InjectAndRun, ForeignWrite, Foreign, MayWrite
  <1>3. LogGrows
    BY <1>0, <1>2, ForeignGrows
  <1>4. /\ UNCHANGED <<checkpoint, file, upto>>
        /\ op' = [op EXCEPT ![c] = "run_process_managers"]
        /\ at' = [at EXCEPT ![c] = FirstManager]
        /\ cpc' = [cpc EXCEPT ![c] = IF FirstManager > Len(Order) THEN "dispatch" ELSE "lock"]
        /\ start' = [start EXCEPT ![c] = Len(log')]
        /\ reply' = [reply EXCEPT ![c] = NoReply]
    BY DEF InjectAndRun
  <1>5. Ahead
    BY <1>0, <1>3, <1>4, Numbers DEF Ahead, LogGrows
  <1>6. CoverTypes' /\ FilesBehind'
    BY <1>0, <1>3, <1>4 DEF CoverTypes, FilesBehind, LogGrows
  <1>7. \A d \in Callers \ {c} :
            /\ cpc'[d] = cpc[d] /\ op'[d] = op[d] /\ at'[d] = at[d] /\ upto'[d] = upto[d]
            /\ start'[d] = start[d] /\ reply'[d] = reply[d]
    BY <1>0, <1>4
  <1>8. /\ op'[c] = "run_process_managers" /\ at'[c] = FirstManager
        /\ start'[c] = Len(log') /\ reply'[c].short = 0
        /\ cpc'[c] = IF FirstManager > Len(Order) THEN "dispatch" ELSE "lock"
    BY <1>0, <1>4 DEF NoReply
  <1>9. FirstManager \in Int /\ Len(Order) \in Int /\ Len(log') \in Nat
    BY <1>0, <1>3, Numbers DEF LogGrows
  <1>10. Covers(c)'
    <2>1. \A j \in FirstManager .. at'[c] - 1 : FALSE
      BY <1>8, <1>9
    <2>2. CASE FirstManager > Len(Order)
      <3>1. cpc'[c] = "dispatch" /\ \A j \in FirstManager .. Len(Order) : FALSE
        BY <1>8, <1>9, <2>2
      <3> QED BY <1>8, <1>9, <3>1 DEF Covers, Visiting
    <2>3. CASE ~(FirstManager > Len(Order))
      <3>1. cpc'[c] = "lock"
        BY <1>8, <2>3
      <3> QED BY <1>8, <1>9, <2>1, <3>1 DEF Covers, Visiting
    <2> QED BY <2>2, <2>3
  <1> QED BY <1>0, <1>1, <1>5, <1>6, <1>7, <1>10, OneCovers

\* Every step.
LEMMA DeliveryCovers ==
    ASSUME BaseInv, FlowInv, CoverInv, "eof" \notin Faults, [DeliveryNext]_deliveryVars
    PROVE  CoverInv'
  <1>0. /\ PassInv /\ log \in Seq(Events) /\ Len(log) \in Nat /\ Len(log) <= LogLimit
        /\ work \in [Callers -> Seq(EnvelopeIds)]
        /\ DOMAIN reply = Callers /\ WorkAnswers
    BY BaseFacts, CoverFacts DEF FlowInv
  <1>1. BaseInv'
    BY FlowStep
  <1>2. ASSUME Next \/ UNCHANGED runnerVars PROVE CoverInv'
    BY <1>0, <1>2, NextCovers
  <1>3. CASE Die
    BY <1>2, <1>3 DEF Die, Next
  <1>4. ASSUME NEW c \in Callers, CallStep(c) PROVE CoverInv'
    BY <1>2, <1>4 DEF CallStep, Next, PullNext, CallerStep
  <1>5. ASSUME NEW c \in Callers, Settle(c) PROVE CoverInv'
    <2>1. Dispatch(c)
      BY <1>5, SettleBase DEF Settle, Dispatch
    <2> QED BY <1>2, <2>1 DEF Next, PullNext, CallerStep
  <1>6. CASE WriteOutside
    <2>1. ForeignWrite /\ UNCHANGED <<checkpoint, file, callerVars>>
      BY <1>6 DEF WriteOutside, ForeignWrite, Foreign, MayWrite
    <2>2. LogGrows
      BY <1>0, <2>1, ForeignGrows
    <2> QED BY <1>0, <2>1, <2>2, GrowCovers DEF callerVars
  <1>7. ASSUME NEW c \in Callers, InjectEvent(c) PROVE CoverInv'
    <2>1. /\ ForeignWrite \/ log' = log
          /\ UNCHANGED <<checkpoint, file, cpc, op, at, upto, start>>
          /\ \E t : reply' = [reply EXCEPT ![c] = [tag |-> t, short |-> 0]]
      BY <1>7 DEF InjectEvent, ForeignWrite, Foreign, MayWrite
    <2>2. LogGrows
      BY <1>0, <2>1, ForeignGrows DEF LogGrows
    <2>3. DOMAIN reply' = Callers /\ \A d \in Callers : reply'[d] = reply[d] \/ reply'[d].short = 0
      BY <1>0, <2>1
    <2> QED BY <1>0, <2>1, <2>2, <2>3, GrowCovers
  <1>8. ASSUME NEW c \in Callers, Executes(c) PROVE CoverInv'
    <2>1. PICK x : x = Head(work[c])
      OBVIOUS
    <2>2. /\ work[c] # <<>>
          /\ Routable(Sent(x)) /\ Len(log \o Effect(x)) <= LogLimit /\ log' = log \o Effect(x)
          /\ UNCHANGED <<checkpoint, file, callerVars>>
      BY <1>8, <2>1 DEF Executes
    <2>3. x = work[c][1] /\ 1 \in 1 .. Len(work[c])
      BY <1>0, <2>1, <2>2
    <2>4. IsAnswer(x)
      BY <1>0, <2>3 DEF WorkAnswers
    <2>5. LogGrows
      BY <1>0, <2>2, <2>4, EffectGrows
    <2> QED BY <1>0, <2>2, <2>5, GrowCovers DEF callerVars
  <1>9. ASSUME NEW c \in Callers, Refuses(c) PROVE CoverInv'
    <2>1. UNCHANGED <<log, checkpoint, file, callerVars>>
      BY <1>9 DEF Refuses
    <2>2. LogGrows
      BY <1>0, <2>1 DEF LogGrows
    <2> QED BY <1>0, <2>1, <2>2, GrowCovers DEF callerVars
  <1>10. ASSUME NEW c \in Callers, InjectAndRun(c) PROVE CoverInv'
    BY <1>1, <1>10, InjectAndRunCovers
  <1> QED BY <1>2, <1>3, <1>4, <1>5, <1>6, <1>7, <1>8, <1>9, <1>10, DeliveryIs

-----------------------------------------------------------------------------
(* Theorems                                                                 *)

\* Every variable of the closed loop has its type, each runner has one reader at a
\* time, and an answer is awaited only for the command that is being dispatched.
THEOREM DeliveryTyped == DeliverySpec => []DeliveryTypeOK
  <1>1. DeliveryInit => BaseInv /\ FlowInv
    BY InitFlow
  <1>2. BaseInv /\ FlowInv /\ [DeliveryNext]_deliveryVars => (BaseInv /\ FlowInv)'
    BY FlowStep
  <1>3. BaseInv /\ FlowInv => DeliveryTypeOK
    BY BaseFacts, ReadSideTyped DEF DeliveryTypeOK, OwnInv, Answered3
  <1> QED BY <1>1, <1>2, <1>3, PTL DEF DeliverySpec

\* Through the whole loop, with events caused by the managers themselves, with
\* crashes and lost files, no runner is given an event twice or skips one.
THEOREM LoopIsExact == DeliverySpec => []CheckpointsAreCursors
  <1>1. DeliveryInit => BaseInv /\ FlowInv
    BY InitFlow
  <1>2. BaseInv /\ FlowInv /\ [DeliveryNext]_deliveryVars => (BaseInv /\ FlowInv)'
    BY FlowStep
  <1>3. BaseInv /\ FlowInv => CheckpointsAreCursors
    BY BaseFacts DEF PassInv
  <1> QED BY <1>1, <1>2, <1>3, PTL DEF DeliverySpec

\* What the log holds that nobody else wrote was caused by a command, comes after
\* the event the command answers, and is read with the identity of the aggregate
\* the manager named.
THEOREM EffectsHaveCauses == DeliverySpec => []EffectsFollowCauses
  <1>1. DeliveryInit => BaseInv /\ FlowInv
    BY InitFlow
  <1>2. BaseInv /\ FlowInv /\ [DeliveryNext]_deliveryVars => (BaseInv /\ FlowInv)'
    BY FlowStep
  <1>3. ASSUME BaseInv, FlowInv PROVE EffectsFollowCauses
    <2>1. ASSUME NEW n \in 1 .. Len(log), log[n] \notin Foreign
          PROVE  \E x \in EnvelopeIds :
                     /\ x = Cause(log[n]) /\ x.pos + 1 < n
                     /\ decode_stored_event(log[n]).aggregate_type = Sent(x).aggregate_type
                     /\ decode_stored_event(log[n]).instance_id = Sent(x).instance_id
                     /\ decode_stored_event(log[n]).stream_id =
                            stream_uuid(Sent(x).aggregate_type, Sent(x).instance_id)
                     /\ Decode(decode_stored_event(log[n]).type, decode_stored_event(log[n]).payload)
                            \in Range(Outcome(Sent(x).command))
      <3>1. PICK x \in EnvelopeIds : IsAnswer(x) /\ x.pos + 1 < n /\ CausedBy(x, log[n])
        BY <1>3, <2>1 DEF FlowInv, LogCaused
      <3>2. log \in Seq(Events) /\ Len(log) <= LogLimit
        BY <1>3, BaseFacts
      <3>3. PICK e : e = log[n]
        OBVIOUS
      <3> QED BY <3>1, <3>2, <3>3, CausedFacts
    <2> QED BY <2>1 DEF EffectsFollowCauses
  <1> QED BY <1>1, <1>2, <1>3, PTL DEF DeliverySpec

\* As long as only one task runs the managers, what a saved position covers has
\* reached an aggregate or the dead-letter log, whichever commands, answers and saves
\* failed and wherever the process died.  (With two such tasks, one saves what the
\* other still has in hand.  A pass that breaks off is not a step of Delivery.)
THEOREM SavedPositionsAreDelivered ==
    ASSUME SoleRunner
    PROVE  DeliverySpec => []SavedMeansDelivered
  <1>1. DeliveryInit => BaseInv /\ FlowInv /\ DeliveredInv
    BY InitFlow, InitDelivered
  <1>2. BaseInv /\ FlowInv /\ DeliveredInv /\ [DeliveryNext]_deliveryVars
            => (BaseInv /\ FlowInv /\ DeliveredInv)'
    BY FlowStep, DeliveredStep
  <1>3. ASSUME BaseInv, DeliveredInv PROVE SavedMeansDelivered
    <2>1. ASSUME NEW m \in Managers, NEW x \in Owed(m, file[m].pos)
          PROVE  Delivered(x)
      <3>1. log \in Seq(Events) /\ file[m].pos \in Nat /\ file[m].pos <= Len(log)
        BY <1>3, BaseFacts DEF PassInv, CheckpointsAreCursors, IsCursor, Checkpoints, Runner
      <3>2. IsAnswer(x) /\ x.pm = m /\ x.pos < file[m].pos
        BY <3>1, OwedAre
      <3> QED BY <1>3, <3>2 DEF DeliveredInv, SavedDelivered
    <2> QED BY <2>1 DEF SavedMeansDelivered
  <1> QED BY <1>1, <1>2, <1>3, PTL DEF DeliverySpec

\* A command takes effect at most once for each time the process ran, however many
\* tasks run the managers and however often an answer is lost.
THEOREM AtMostOncePerProcess == DeliverySpec => []OncePerProcess
  <1>1. DeliveryInit => BaseInv /\ FlowInv /\ CountInv
    <2>1. DeliveryInit => \A x : ~IsAnswer(x)
      BY EnvelopeRecord DEF DeliveryInit, RunnersInit, IsAnswer
    <2> QED BY <2>1, InitFlow DEF CountInv
  <1>2. BaseInv /\ FlowInv /\ CountInv /\ [DeliveryNext]_deliveryVars
            => (BaseInv /\ FlowInv /\ CountInv)'
    BY FlowStep, CountStep
  <1>3. ASSUME BaseInv, CountInv PROVE OncePerProcess
    <2>1. ASSUME NEW m \in Managers, NEW x \in Owed(m, Len(log))
          PROVE  Cardinality(Effects(x)) <= (1 + crashes) * EffectSize(x)
      <3>0. log \in Seq(Events) /\ Len(log) \in Nat /\ Len(log) <= LogLimit /\ crashes \in Nat
        BY <1>3, BaseFacts
      <3>1. IsAnswer(x)
        BY <3>0, OwedAre
      <3>2. /\ EffectSize(x) \in Nat /\ Cardinality(Effects(x)) \in Nat
            /\ Cardinality(Effects(x)) <= Times(x) * EffectSize(x)
        BY <1>3, <3>0, <3>1, OutcomeType, EffectsFinite DEF EffectSize, CountInv
      <3>3. Times(x) \in {crashes, crashes + 1}
        BY DEF Times
      <3>4. Times(x) \in Nat /\ Times(x) <= 1 + crashes /\ 1 + crashes \in Nat
        BY <3>0, <3>3
      <3>5. PICK a \in Nat : a = Times(x)
        BY <3>4
      <3>6. PICK b \in Nat : b = 1 + crashes
        BY <3>4
      <3>7. PICK k \in Nat : k = EffectSize(x)
        BY <3>2
      <3>8. a * k <= b * k /\ a * k \in Nat /\ b * k \in Nat
        BY <3>4, <3>5, <3>6, TimesGrows
      <3> QED BY <3>2, <3>5, <3>6, <3>7, <3>8
    <2> QED BY <2>1 DEF OncePerProcess, Effects, EffectSize
  <1> QED BY <1>1, <1>2, <1>3, PTL DEF DeliverySpec

\* What projection() and run_process_managers() return covers what was in the log when
\* they were called, an injection's own event included, with aggregates and others
\* appending meanwhile; provided no stream ends before its CaughtUp.
THEOREM LoopCallsCover ==
    ASSUME "eof" \notin Faults
    PROVE  DeliverySpec => []CallsCoverTheLog
  <1>1. DeliveryInit => BaseInv /\ FlowInv /\ CoverInv
    BY InitFlow, InitCovers DEF DeliveryInit
  <1>2. BaseInv /\ FlowInv /\ CoverInv /\ [DeliveryNext]_deliveryVars
            => (BaseInv /\ FlowInv /\ CoverInv)'
    BY FlowStep, DeliveryCovers
  <1>3. CoverInv => CallsCoverTheLog
    BY DEF CoverInv, Covers, CallsCoverTheLog
  <1> QED BY <1>1, <1>2, <1>3, PTL DEF DeliverySpec

\* The closed loop implements Cursors, the aggregates' own appends being growth of the
\* log like anybody's: positions advance one event at a time, what is saved was
\* reached, only a restart goes back, and commands are carried out only for events
\* their manager has moved past.
THEOREM LoopImplementsCursors == DeliverySpec => ImplementsCursors
  <1>1. DeliveryInit => BaseInv /\ FlowInv
    BY InitFlow
  <1>2. BaseInv /\ FlowInv /\ [DeliveryNext]_deliveryVars => (BaseInv /\ FlowInv)'
    BY FlowStep
  <1>3. DeliveryInit => Positions!Init
    BY DEF DeliveryInit, RunnersInit, Positions!Init, Fresh
  <1>4. ASSUME BaseInv, FlowInv, [DeliveryNext]_deliveryVars
        PROVE  [Positions!Next]_barVars
    <2>0. /\ PassInv /\ log \in Seq(Events) /\ Len(log) \in Nat /\ Len(log) <= LogLimit
          /\ WorkAnswers
      BY <1>4, BaseFacts DEF FlowInv
    <2>1. ASSUME Next PROVE [Positions!Next]_barVars
      BY <2>0, <2>1, NextMoves
    <2>2. ASSUME LogGrows, UNCHANGED <<checkpoint, file, handled>>
          PROVE  [Positions!Next]_barVars
      <3>1. CASE Len(log') = Len(log)
        <4>1. log' = log
          BY <2>0, <2>2, <3>1 DEF LogGrows
        <4> QED BY <2>2, <4>1, Stutters
      <3>2. CASE Len(log) < Len(log')
        <4>1. SubSeq(log', 1, Len(log)) = log
          BY <2>0, <2>2 DEF LogGrows
        <4>2. posBar' = posBar /\ savedBar' = savedBar
          BY <2>2 DEF posBar, savedBar
        <4>3. Positions!Grow
          BY <2>2, <3>2, <4>1, <4>2 DEF Positions!Grow, posBar, savedBar
        <4> QED BY <4>3 DEF Positions!Next
      <3> QED BY <2>0, <2>2, <3>1, <3>2 DEF LogGrows
    <2>3. CASE Writes
      <3>1. LogGrows
        BY <2>0, <2>3, ForeignGrows DEF Writes, LogGrows
      <3> QED BY <2>2, <2>3, <3>1 DEF Writes
    <2>4. CASE Die
      BY <2>1, <2>4 DEF Die, Next
    <2>5. ASSUME NEW c \in Callers, CallStep(c) PROVE [Positions!Next]_barVars
      BY <2>1, <2>5 DEF CallStep, Next, PullNext, CallerStep
    <2>6. ASSUME NEW c \in Callers, Settle(c) PROVE [Positions!Next]_barVars
      <3>1. Dispatch(c)
        BY <1>4, <2>6, SettleBase DEF Settle, Dispatch
      <3> QED BY <2>1, <3>1 DEF Next, PullNext, CallerStep
    <2>7. ASSUME NEW c \in Callers, Refuses(c) PROVE [Positions!Next]_barVars
      <3>1. UNCHANGED <<log, checkpoint, file, handled>>
        BY <2>7 DEF Refuses
      <3> QED BY <3>1, Stutters
    <2>8. ASSUME NEW c \in Callers, Executes(c), IsAnswer(Head(work[c]))
          PROVE  [Positions!Next]_barVars
      <3>1. PICK x : x = Head(work[c])
        OBVIOUS
      <3>2. /\ Routable(Sent(x)) /\ Len(log \o Effect(x)) <= LogLimit /\ log' = log \o Effect(x)
            /\ UNCHANGED <<checkpoint, file, handled>>
        BY <2>8, <3>1 DEF Executes
      <3>3. LogGrows
        BY <2>0, <2>8, <3>1, <3>2, EffectGrows
      <3> QED BY <2>2, <3>2, <3>3
    <2> QED BY <1>4, <2>0, <2>3, <2>4, <2>5, <2>6, <2>7, <2>8, FlowSteps
  <1>5. BaseInv /\ FlowInv /\ [DeliveryNext]_deliveryVars =>
            [Positions!Next]_<<log, [r \in Runner |-> checkpoint[r].pos],
                               [r \in Runner |-> file[r].pos], handled>>
    BY <1>4 DEF barVars, posBar, savedBar
  <1> QED BY <1>1, <1>2, <1>3, <1>5, PTL DEF DeliverySpec, ImplementsCursors, Positions!Spec

=============================================================================
