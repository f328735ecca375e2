---------------------------- MODULE Actor_proofs ----------------------------
(***************************************************************************)
(* Proofs about the module Actor, for every value of its constants:        *)
(*   1. types, and that what tasks hold fits where they are (TypeStep);    *)
(*   2. a message is in one place only (PlaceStep);                        *)
(*   3. folds: what an aggregate is after a read, an append, an apply;     *)
(*   4. aggregates and snapshots stay folds of the stream, which needs     *)
(*      what an append under way will do (StateFoldStep,                   *)
(*      SnapshotFoldStep, FlightStep);                                     *)
(*   5. the theorems TypeCorrect and FoldCorrect.                          *)
(***************************************************************************)
EXTENDS ActorInv, SequenceTheorems, TLAPS

\* decode_domain_event undoes encode_domain_event.
LEMMA RoundTrip ==
    ASSUME NEW d \in DomainEvents, NEW k
    PROVE  Decode(Encode(d, k).type, Encode(d, k).payload) = d
  BY CodecAssumption DEF Decode, Encode, EncodePayload, Envelope

\* decode_domain_event gives an event of the aggregate or nothing.
LEMMA DecodeType ==
    ASSUME NEW t, NEW p
    PROVE  Decode(t, p) \in DomainEvents \cup {NoEvent}
  BY DEF Decode

\* Encoding a list of produced events gives as many proposals, each the encoding
\* of the event at its place.
LEMMA EncodeType ==
    ASSUME NEW ds \in Seq(DomainEvents), NEW k \in Calls
    PROVE  /\ EncodeAll(ds, k) \in Seq(Recorded)
           /\ Len(EncodeAll(ds, k)) = Len(ds)
           /\ \A i \in 1 .. Len(ds) : EncodeAll(ds, k)[i] = Encode(ds[i], k)
  <1>1. \A i \in 1 .. Len(ds) : Encode(ds[i], k) \in Recorded
    BY CodecAssumption DEF Encode, EncodePayload, Payloads, Recorded
  <1> QED
    BY <1>1 DEF EncodeAll

\* A stored event with an author is what the stream holds.
LEMMA StampType ==
    ASSUME NEW e \in Stored, NEW k \in Calls \cup {Other}
    PROVE  Stamp(e, k) \in Recorded
  BY DEF Stamp, Stored, Recorded

\* The fold loop visits every event it read, in order.
LEMMA VisitType ==
    ASSUME NEW s \in Seq(Recorded)
    PROVE  /\ Visit(s) \in History
           /\ Len(Visit(s)) = Len(s)
           /\ \A i \in 1 .. Len(s) : Visit(s)[i] = Decode(s[i].type, s[i].payload)
  BY DecodeType DEF Visit, History

\* Catching up gives a history and a version again.
LEMMA ReadType ==
    ASSUME NEW l \in Seq(Recorded), NEW s \in History, NEW v \in Versions
    PROVE  /\ StateAfterRead(l, s, v) \in History
           /\ VersionAfterRead(l, v) \in Versions
  <1>1. ReadFrom(l, NextVersion(v)) \in Seq(Recorded)
    BY DEF ReadFrom, NextVersion, Versions, None
  <1> QED
    BY <1>1, VisitType DEF StateAfterRead, VersionAfterRead, History, Versions, None,
       LastVersion, NextVersion

\* The records the actions build are of their types.
LEMMA RecordTypes ==
    /\ None \in Versions
    /\ <<>> \in History
    /\ NoSnapshot \in Snapshots
    /\ NoRpc \in Rpcs /\ NoRpc.status = "none"
    /\ FailedPrecondition \in Rpcs /\ FailedPrecondition.status = "conflict"
    /\ \A v \in Versions : ExpectedVersion(v) \in Expected
    /\ AnyVersion \in Expected
    /\ \A v \in Versions :
           /\ Accepted(v) \in Rpcs
           /\ Accepted(v).status = "ok" /\ Accepted(v).last = v
    /\ \A x \in Expected, es \in Seq(Recorded) :
           /\ Sent(x, es) \in Rpcs
           /\ Sent(x, es).status = "sent"
           /\ Sent(x, es).expected = x /\ Sent(x, es).events = es
    /\ \A t \in Tags : Refusal(t) \in Replies /\ Refusal(t).tag = t
  <1>1. None \in Versions /\ <<>> \in History /\ AnyVersion \in Expected
    BY DEF None, Versions, History, AnyVersion, Expected
  <1>2. NoSnapshot \in Snapshots
    BY <1>1 DEF NoSnapshot, Snapshots
  <1>3. NoRpc \in Rpcs /\ NoRpc.status = "none"
    BY <1>1 DEF NoRpc, Answered, Rpcs
  <1>4. FailedPrecondition \in Rpcs /\ FailedPrecondition.status = "conflict"
    BY <1>1 DEF Answered, Rpcs, FailedPrecondition
  <1>5. \A v \in Versions : ExpectedVersion(v) \in Expected
    BY <1>1 DEF ExpectedVersion, NoStream, Exact, Expected
  <1>6. \A v \in Versions : /\ Accepted(v) \in Rpcs
                            /\ Accepted(v).status = "ok" /\ Accepted(v).last = v
    BY <1>1 DEF Accepted, Answered, Rpcs
  <1>7. \A x \in Expected, es \in Seq(Recorded) :
           /\ Sent(x, es) \in Rpcs
           /\ Sent(x, es).status = "sent"
           /\ Sent(x, es).expected = x /\ Sent(x, es).events = es
    BY <1>1 DEF Sent, Rpcs
  <1>8. \A t \in Tags : Refusal(t) \in Replies /\ Refusal(t).tag = t
    BY <1>1 DEF Refusal, NoReply, Replies
  <1> QED
    BY <1>1, <1>2, <1>3, <1>4, <1>5, <1>6, <1>7, <1>8

\* A reply is a reply, with the tag it was given.
LEMMA ReplyType ==
    ASSUME TypeOK, NEW a \in Actors, NEW t \in Tags, NEW val \in History,
           NEW v \in Versions
    PROVE  Reply(t, val, a, v) \in Replies /\ Reply(t, val, a, v).tag = t
  BY DEF TypeOK, Reply, Replies

\* What answering a call, or dropping its message, does to the calls.
CallsAnswered ==
    /\ cpc' \in [Calls -> CallPcs]
    /\ handle' \in [Calls -> Actors \cup {NoActor}]
    /\ reply' \in [Calls -> Replies]
    /\ \A j \in Calls : cpc'[j] = cpc[j] \/ (cpc[j] = "queued" /\ cpc'[j] = "done")
    /\ \A j \in Calls : cpc'[j] # "done" => handle'[j] = handle[j]

\* Answering a call leaves the calls' variables well typed.
LEMMA AnswerType ==
    ASSUME TypeOK, NEW k \in Calls, NEW r \in Replies, Answer(k, r)
    PROVE  CallsAnswered
  BY DEF TypeOK, Answer, CallPcs, CallsAnswered

\* The argument of a request fits its kind.
LEMMA CommandOf ==
    ASSUME NEW r \in Requests \cup {NoRequest}
    PROVE  /\ r.kind = "execute" => r.arg \in Commands
           /\ r.kind = "inject" => r.arg \in Stored
  BY RequestsAssumption DEF NoRequest

\* What Append does, entry by entry: a message joins the end of a mailbox.
LEMMA AppendElements ==
    ASSUME NEW S, NEW s \in Seq(S), NEW x \in S
    PROVE  /\ Append(s, x) \in Seq(S)
           /\ Len(Append(s, x)) = Len(s) + 1
           /\ \A i \in 1 .. Len(s) : Append(s, x)[i] = s[i]
           /\ Append(s, x)[Len(s) + 1] = x
           /\ \A i \in 1 .. Len(Append(s, x)) :
                  \/ i = Len(s) + 1 /\ Append(s, x)[i] = x
                  \/ i \in 1 .. Len(s) /\ Append(s, x)[i] = s[i]
  OBVIOUS

\* Type correctness is kept by every step, together with LocalsOK and HandlesOK:
\* what a task holds fits where it is.
LEMMA TypeStep ==
    ASSUME HandleOK, TypeInv, [Next]_vars
    PROVE  TypeInv'
  <1> USE DEF TypeInv
  <1>1. ASSUME NEW k \in Calls, NEW r \in Requests, Issue(k, r)
        PROVE  TypeInv'
    <2>1. TypeOK'
      BY <1>1, RecordTypes, ConstantsAssumption
      DEF Issue, LocalsOK, HandlesOK, TypeOK, ActorPcs, CallPcs, serverVars, callVars, taskVars
    <2>2. LocalsOK'
      BY <1>1, RecordTypes, ConstantsAssumption
      DEF Issue, LocalsOK, HandlesOK, Settled, TypeOK, ActorPcs, CallPcs, serverVars, callVars, taskVars
    <2>3. HandlesOK'
      BY <1>1, RecordTypes, ConstantsAssumption
      DEF Issue, LocalsOK, HandlesOK, TypeOK, ActorPcs, CallPcs, serverVars, callVars, taskVars
    <2> QED BY <2>1, <2>2, <2>3
  <1>2. ASSUME NEW k \in Calls, GetCached(k)
        PROVE  TypeInv'
    <2>1. TypeOK'
      BY <1>2, RecordTypes, ConstantsAssumption
      DEF GetCached, Cached, LocalsOK, HandlesOK, TypeOK, ActorPcs, CallPcs, serverVars, callVars, taskVars
    <2>2. LocalsOK'
      BY <1>2, RecordTypes, ConstantsAssumption
      DEF GetCached, Cached, LocalsOK, HandlesOK, Settled, TypeOK, ActorPcs, CallPcs, serverVars, callVars, taskVars
    <2>3. HandlesOK'
      BY <1>2, RecordTypes, ConstantsAssumption
      DEF GetCached, Cached, LocalsOK, HandlesOK, TypeOK, ActorPcs, CallPcs, serverVars, callVars, taskVars
    <2> QED BY <2>1, <2>2, <2>3
  <1>3. ASSUME NEW k \in Calls, GetMiss(k)
        PROVE  TypeInv'
    <2>1. TypeOK'
      BY <1>3, RecordTypes, ConstantsAssumption
      DEF GetMiss, LocalsOK, HandlesOK, TypeOK, ActorPcs, CallPcs, serverVars, callVars, taskVars
    <2>2. LocalsOK'
      BY <1>3, RecordTypes, ConstantsAssumption
      DEF GetMiss, LocalsOK, HandlesOK, Settled, TypeOK, ActorPcs, CallPcs, serverVars, callVars, taskVars
    <2>3. HandlesOK'
      BY <1>3, RecordTypes, ConstantsAssumption
      DEF GetMiss, LocalsOK, HandlesOK, TypeOK, ActorPcs, CallPcs, serverVars, callVars, taskVars
    <2> QED BY <2>1, <2>2, <2>3
  <1>4. ASSUME NEW k \in Calls, GetEvict(k)
        PROVE  TypeInv'
    <2>1. TypeOK'
      BY <1>4, RecordTypes, ConstantsAssumption
      DEF GetEvict, LocalsOK, HandlesOK, TypeOK, ActorPcs, CallPcs, serverVars, callVars, taskVars
    <2>2. LocalsOK'
      BY <1>4, RecordTypes, ConstantsAssumption
      DEF GetEvict, LocalsOK, HandlesOK, Settled, TypeOK, ActorPcs, CallPcs, serverVars, callVars, taskVars
    <2>3. HandlesOK'
      BY <1>4, RecordTypes, ConstantsAssumption
      DEF GetEvict, LocalsOK, HandlesOK, TypeOK, ActorPcs, CallPcs, serverVars, callVars, taskVars
    <2> QED BY <2>1, <2>2, <2>3
  <1>5. ASSUME NEW k \in Calls, SpawnLoad(k)
        PROVE  TypeInv'
    <2>1. TypeOK'
      BY <1>5, RecordTypes, ConstantsAssumption
      DEF SpawnLoad, LocalsOK, HandlesOK, TypeOK, ActorPcs, CallPcs, serverVars, callVars, taskVars
    <2>2. LocalsOK'
      BY <1>5, RecordTypes, ConstantsAssumption
      DEF SpawnLoad, LocalsOK, HandlesOK, Settled, TypeOK, ActorPcs, CallPcs, serverVars, callVars, taskVars
    <2>3. HandlesOK'
      BY <1>5, RecordTypes, ConstantsAssumption
      DEF SpawnLoad, LocalsOK, HandlesOK, TypeOK, ActorPcs, CallPcs, serverVars, callVars, taskVars
    <2> QED BY <2>1, <2>2, <2>3
  <1>6. ASSUME NEW k \in Calls, SpawnFails(k)
        PROVE  TypeInv'
    <2>1. TypeOK'
      BY <1>6, RecordTypes, ConstantsAssumption
      DEF SpawnFails, LocalsOK, HandlesOK, TypeOK, ActorPcs, CallPcs, serverVars, callVars, taskVars, Tags
    <2>2. LocalsOK'
      BY <1>6, RecordTypes, ConstantsAssumption
      DEF SpawnFails, LocalsOK, HandlesOK, Settled, TypeOK, ActorPcs, CallPcs, serverVars, callVars, taskVars
    <2>3. HandlesOK'
      BY <1>6, RecordTypes, ConstantsAssumption
      DEF SpawnFails, LocalsOK, HandlesOK, TypeOK, ActorPcs, CallPcs, serverVars, callVars, taskVars
    <2> QED BY <2>1, <2>2, <2>3
  <1>7. ASSUME NEW k \in Calls, NEW a \in Actors, SpawnCatchUp(k, a)
        PROVE  TypeInv'
    <2>0. /\ StateAfterRead(log, seed[k].state, seed[k].version) \in History
          /\ VersionAfterRead(log, seed[k].version) \in Versions
      BY ReadType DEF TypeOK, Snapshots
    <2>1. TypeOK'
      BY <1>7, RecordTypes, ConstantsAssumption, <2>0
      DEF SpawnCatchUp, Unused, LocalsOK, HandlesOK, TypeOK, ActorPcs, CallPcs, serverVars, callVars, taskVars
    <2>2. LocalsOK'
      BY <1>7, RecordTypes, ConstantsAssumption, <2>0, SMTT(30)
      DEF SpawnCatchUp, Unused, LocalsOK, HandlesOK, Settled, TypeOK, ActorPcs, CallPcs, serverVars, callVars, taskVars
    <2>3. HandlesOK'
      BY <1>7, RecordTypes, ConstantsAssumption, <2>0
      DEF SpawnCatchUp, Unused, LocalsOK, HandlesOK, TypeOK, ActorPcs, CallPcs, serverVars, callVars, taskVars
    <2> QED BY <2>1, <2>2, <2>3
  <1>8. ASSUME NEW k \in Calls, GetInsert(k)
        PROVE  TypeInv'
    <2>1. TypeOK'
      BY <1>8, RecordTypes, ConstantsAssumption
      DEF GetInsert, LocalsOK, HandlesOK, TypeOK, ActorPcs, CallPcs, serverVars, callVars, taskVars
    <2>2. LocalsOK'
      BY <1>8, RecordTypes, ConstantsAssumption, SMTT(30)
      DEF GetInsert, LocalsOK, HandlesOK, Settled, TypeOK, ActorPcs, CallPcs, serverVars, callVars, taskVars
    <2>3. HandlesOK'
      BY <1>8, RecordTypes, ConstantsAssumption
      DEF GetInsert, LocalsOK, HandlesOK, TypeOK, ActorPcs, CallPcs, serverVars, callVars, taskVars
    <2> QED BY <2>1, <2>2, <2>3
  <1>9. ASSUME NEW k \in Calls, Send(k)
        PROVE  TypeInv'
    <2>0. handle[k] \in Actors
      BY <1>9 DEF Send, HandlesOK
    <2>a. /\ mailbox' \in [Actors -> Seq(Calls)]
          /\ \A b \in Actors : \A i \in 1 .. Len(mailbox'[b]) :
                 mailbox'[b][i] = k \/ (i \in 1 .. Len(mailbox[b]) /\ mailbox'[b][i] = mailbox[b][i])
      <3>1. mailbox' = [mailbox EXCEPT ![handle[k]] = Append(mailbox[handle[k]], k)]
        BY <1>9 DEF Send
      <3>2. mailbox[handle[k]] \in Seq(Calls)
        BY <2>0 DEF TypeOK
      <3> QED
        BY <3>1, <3>2, <2>0, AppendElements DEF TypeOK
    <2>b. /\ cpc' \in [Calls -> CallPcs]
          /\ handle' \in [Calls -> Actors \cup {NoActor}]
          /\ reply' \in [Calls -> Replies]
          /\ cpc'[k] \in Settled
          /\ \A j \in Calls : j # k => cpc'[j] = cpc[j]
      BY <1>9, RecordTypes, ZenonT(30) DEF Send, TypeOK, CallPcs, Settled, Tags
    <2>1. TypeOK'
      BY <1>9, RecordTypes, ConstantsAssumption, <2>0, <2>a, <2>b
      DEF Send, LocalsOK, HandlesOK, TypeOK, ActorPcs, CallPcs, serverVars, callVars, taskVars, Tags
    <2>2. LocalsOK'
      <3>1. UNCHANGED <<apc, cur, attempt, req>>
        BY <1>9 DEF Send
      <3>2. \A j \in Calls : cpc[j] \in Settled => cpc'[j] \in Settled
        BY <2>b
      <3>3. \A b \in Actors : cur'[b] \in Calls => cpc'[cur'[b]] \in Settled
        BY <3>1, <3>2 DEF LocalsOK
      <3>4. \A b \in Actors : \A i \in 1 .. Len(mailbox'[b]) : cpc'[mailbox'[b][i]] \in Settled
        <4> TAKE b \in Actors
        <4> TAKE i \in 1 .. Len(mailbox'[b])
        <4>1. CASE mailbox'[b][i] = k
          BY <4>1, <2>b
        <4>2. CASE i \in 1 .. Len(mailbox[b]) /\ mailbox'[b][i] = mailbox[b][i]
          <5>1. mailbox[b][i] \in Calls /\ cpc[mailbox[b][i]] \in Settled
            BY <4>2 DEF LocalsOK, TypeOK
          <5> QED BY <4>2, <5>1, <3>2
        <4> QED BY <4>1, <4>2, <2>a
      <3> QED
        BY <3>1, <3>3, <3>4 DEF LocalsOK
    <2>3. HandlesOK'
      BY <1>9, RecordTypes, ConstantsAssumption, <2>0, <2>a, <2>b
      DEF Send, LocalsOK, HandlesOK, TypeOK, ActorPcs, CallPcs, serverVars, callVars, taskVars
    <2> QED BY <2>1, <2>2, <2>3
  <1>10. ASSUME NEW k \in Calls, SendFails(k)
        PROVE  TypeInv'
    <2>1. TypeOK'
      BY <1>10, RecordTypes, ConstantsAssumption
      DEF SendFails, LocalsOK, HandlesOK, TypeOK, ActorPcs, CallPcs, serverVars, callVars, taskVars, Tags
    <2>2. LocalsOK'
      BY <1>10, RecordTypes, ConstantsAssumption
      DEF SendFails, LocalsOK, HandlesOK, Settled, TypeOK, ActorPcs, CallPcs, serverVars, callVars, taskVars
    <2>3. HandlesOK'
      BY <1>10, RecordTypes, ConstantsAssumption
      DEF SendFails, LocalsOK, HandlesOK, TypeOK, ActorPcs, CallPcs, serverVars, callVars, taskVars
    <2> QED BY <2>1, <2>2, <2>3
  <1>11. ASSUME NEW k \in Calls, Abandon(k)
        PROVE  TypeInv'
    <2>1. TypeOK'
      BY <1>11, RecordTypes, ConstantsAssumption
      DEF Abandon, LocalsOK, HandlesOK, TypeOK, ActorPcs, CallPcs, serverVars, callVars, taskVars, Tags
    <2>2. LocalsOK'
      BY <1>11, RecordTypes, ConstantsAssumption
      DEF Abandon, LocalsOK, HandlesOK, Settled, TypeOK, ActorPcs, CallPcs, serverVars, callVars, taskVars
    <2>3. HandlesOK'
      BY <1>11, RecordTypes, ConstantsAssumption
      DEF Abandon, LocalsOK, HandlesOK, TypeOK, ActorPcs, CallPcs, serverVars, callVars, taskVars
    <2> QED BY <2>1, <2>2, <2>3
  <1>12. ASSUME NEW k \in Calls, ServerAppend(k)
        PROVE  TypeInv'
    <2>0. log' \in Seq(Recorded) /\ rpc' \in [Calls -> Rpcs]
      <3>1. rpc[k].events \in Seq(Recorded)
        BY DEF TypeOK, Rpcs
      <3>2. CASE /\ log' = log \o rpc[k].events
                 /\ rpc' = [rpc EXCEPT ![k] = Accepted(LastVersion(log'))]
        <4>1. log' \in Seq(Recorded)
          BY <3>1, <3>2 DEF TypeOK
        <4>2. LastVersion(log') \in Versions
          BY <4>1 DEF LastVersion, Versions, None
        <4> QED BY <3>2, <4>1, <4>2, RecordTypes DEF TypeOK
      <3>3. CASE log' = log /\ rpc' = [rpc EXCEPT ![k] = FailedPrecondition]
        BY <3>3, RecordTypes DEF TypeOK
      <3> QED BY <1>12, <3>2, <3>3 DEF ServerAppend
    <2>1. TypeOK'
      BY <1>12, RecordTypes, ConstantsAssumption, <2>0
      DEF ServerAppend, LocalsOK, HandlesOK, TypeOK, ActorPcs, CallPcs, serverVars, callVars, taskVars
    <2>2. LocalsOK'
      BY <1>12, RecordTypes, ConstantsAssumption, <2>0
      DEF ServerAppend, LocalsOK, HandlesOK, Settled, TypeOK, ActorPcs, CallPcs, serverVars, callVars, taskVars
    <2>3. HandlesOK'
      BY <1>12, RecordTypes, ConstantsAssumption, <2>0
      DEF ServerAppend, LocalsOK, HandlesOK, TypeOK, ActorPcs, CallPcs, serverVars, callVars, taskVars
    <2> QED BY <2>1, <2>2, <2>3
  <1>13. ASSUME NEW a \in Actors, RecvExecute(a)
        PROVE  TypeInv'
    <2>1. TypeOK'
      BY <1>13, RecordTypes, ConstantsAssumption, SMTT(30)
      DEF RecvExecute, NextMessage, LocalsOK, HandlesOK, TypeOK, ActorPcs, CallPcs, serverVars, callVars, taskVars
    <2>2. LocalsOK'
      BY <1>13, RecordTypes, ConstantsAssumption, SMTT(30)
      DEF RecvExecute, NextMessage, LocalsOK, HandlesOK, Settled, TypeOK, ActorPcs, CallPcs, serverVars, callVars, taskVars
    <2>3. HandlesOK'
      BY <1>13, RecordTypes, ConstantsAssumption
      DEF RecvExecute, NextMessage, LocalsOK, HandlesOK, TypeOK, ActorPcs, CallPcs, serverVars, callVars, taskVars
    <2> QED BY <2>1, <2>2, <2>3
  <1>14. ASSUME NEW a \in Actors, DecideNothing(a)
        PROVE  TypeInv'
    <2>0. CallsAnswered
      <3>1. cur[a] \in Calls
        BY <1>14 DEF DecideNothing, Resume, LocalsOK, TypeOK
      <3>2. \E r \in Replies : Answer(cur[a], r)
        BY <1>14, ReplyType, RecordTypes DEF DecideNothing, Resume, TypeOK, Tags
      <3> QED BY <3>1, <3>2, AnswerType
    <2>1. TypeOK'
      BY <1>14, RecordTypes, ConstantsAssumption, <2>0
      DEF DecideNothing, Resume, CallsAnswered, LocalsOK, HandlesOK, TypeOK, ActorPcs, CallPcs, serverVars, callVars, taskVars
    <2>2. LocalsOK'
      BY <1>14, RecordTypes, ConstantsAssumption, <2>0
      DEF DecideNothing, Resume, CallsAnswered, LocalsOK, HandlesOK, Settled, TypeOK, ActorPcs, CallPcs, serverVars, callVars, taskVars
    <2>3. HandlesOK'
      BY <1>14, RecordTypes, ConstantsAssumption, <2>0
      DEF DecideNothing, Resume, CallsAnswered, LocalsOK, HandlesOK, TypeOK, ActorPcs, CallPcs, serverVars, callVars, taskVars
    <2> QED BY <2>1, <2>2, <2>3
  <1>15. ASSUME NEW a \in Actors, DecideAppend(a)
        PROVE  TypeInv'
    <2>0. PICK x \in Expected, ds \in Seq(DomainEvents), es \in Seq(Recorded) :
               /\ produced' = [produced EXCEPT ![a] = ds]
               /\ rpc' = [rpc EXCEPT ![cur[a]] = Sent(x, es)]
      <3>1. apc[a] = "decide"
        BY <1>15 DEF DecideAppend
      <3>2. /\ cur[a] \in Calls /\ req[cur[a]].kind = "execute"
            /\ state[a] \in History /\ version[a] \in Versions
        BY <3>1 DEF LocalsOK, TypeOK
      <3>3. req[cur[a]].arg \in Commands
        BY <3>2, CommandOf DEF TypeOK
      <3> QED
        BY <1>15, <3>2, <3>3, EncodeType, RecordTypes DEF DecideAppend, HandleOK
    <2>1. TypeOK'
      BY <1>15, RecordTypes, ConstantsAssumption, <2>0, SMTT(30)
      DEF DecideAppend, LocalsOK, HandlesOK, TypeOK, ActorPcs, CallPcs, serverVars, callVars, taskVars
    <2>2. LocalsOK'
      BY <1>15, RecordTypes, ConstantsAssumption, <2>0, SMTT(30)
      DEF DecideAppend, LocalsOK, HandlesOK, Settled, TypeOK, ActorPcs, CallPcs, serverVars, callVars, taskVars
    <2>3. HandlesOK'
      BY <1>15, RecordTypes, ConstantsAssumption, <2>0
      DEF DecideAppend, LocalsOK, HandlesOK, TypeOK, ActorPcs, CallPcs, serverVars, callVars, taskVars
    <2> QED BY <2>1, <2>2, <2>3
  <1>16. ASSUME NEW a \in Actors, AppendOk(a)
        PROVE  TypeInv'
    <2>a. produced[a] \in History /\ rpc[cur[a]].last \in Versions
      BY <1>16 DEF AppendOk, LocalsOK, TypeOK, History, Rpcs
    <2>b. state[a] \o produced[a] \in History
      BY <2>a DEF TypeOK, History
    <2>c. rpc' \in [Calls -> Rpcs] /\ state' \in [Actors -> History] /\ version' \in [Actors -> Versions]
      BY <1>16, <2>a, <2>b, RecordTypes DEF AppendOk, TypeOK
    <2>0. CallsAnswered
      <3>1. cur[a] \in Calls
        BY <1>16 DEF AppendOk, Resume, LocalsOK, TypeOK
      <3>2. \E r \in Replies : Answer(cur[a], r)
        BY <1>16, ReplyType, RecordTypes, <2>a, <2>b, <2>c DEF AppendOk, Resume, TypeOK, Tags
      <3> QED BY <3>1, <3>2, AnswerType
    <2>1. TypeOK'
      BY <1>16, RecordTypes, ConstantsAssumption, <2>a, <2>b, <2>c, <2>0
      DEF AppendOk, Resume, CallsAnswered, LocalsOK, HandlesOK, TypeOK, ActorPcs, CallPcs, serverVars, callVars, taskVars
    <2>2. LocalsOK'
      BY <1>16, RecordTypes, ConstantsAssumption, <2>a, <2>b, <2>c, <2>0, SMTT(30)
      DEF AppendOk, Resume, CallsAnswered, LocalsOK, HandlesOK, Settled, TypeOK, ActorPcs, CallPcs, serverVars, callVars, taskVars
    <2>3. HandlesOK'
      BY <1>16, RecordTypes, ConstantsAssumption, <2>a, <2>b, <2>c, <2>0, SMTT(30)
      DEF AppendOk, Resume, CallsAnswered, LocalsOK, HandlesOK, TypeOK, ActorPcs, CallPcs, serverVars, callVars, taskVars
    <2> QED BY <2>1, <2>2, <2>3
  <1>17. ASSUME NEW a \in Actors, AppendConflict(a)
        PROVE  TypeInv'
    <2>1. TypeOK'
      BY <1>17, RecordTypes, ConstantsAssumption
      DEF AppendConflict, LocalsOK, HandlesOK, TypeOK, ActorPcs, CallPcs, serverVars, callVars, taskVars
    <2>2. LocalsOK'
      BY <1>17, RecordTypes, ConstantsAssumption, SMTT(30)
      DEF AppendConflict, LocalsOK, HandlesOK, Settled, TypeOK, ActorPcs, CallPcs, serverVars, callVars, taskVars
    <2>3. HandlesOK'
      BY <1>17, RecordTypes, ConstantsAssumption
      DEF AppendConflict, LocalsOK, HandlesOK, TypeOK, ActorPcs, CallPcs, serverVars, callVars, taskVars
    <2> QED BY <2>1, <2>2, <2>3
  <1>18. ASSUME NEW a \in Actors, AppendFails(a)
        PROVE  TypeInv'
    <2>c. rpc' \in [Calls -> Rpcs]
      BY <1>18, RecordTypes DEF AppendFails, Forget, LocalsOK, TypeOK
    <2>0. CallsAnswered
      <3>1. cur[a] \in Calls
        BY <1>18 DEF AppendFails, Resume, Forget, LocalsOK, TypeOK
      <3>2. \E r \in Replies : Answer(cur[a], r)
        BY <1>18, ReplyType, RecordTypes, <2>c DEF AppendFails, Resume, Forget, TypeOK, Tags
      <3> QED BY <3>1, <3>2, AnswerType
    <2>1. TypeOK'
      BY <1>18, RecordTypes, ConstantsAssumption, <2>c, <2>0
      DEF AppendFails, Resume, Forget, CallsAnswered, LocalsOK, HandlesOK, TypeOK, ActorPcs, CallPcs, serverVars, callVars, taskVars
    <2>2. LocalsOK'
      BY <1>18, RecordTypes, ConstantsAssumption, <2>c, <2>0
      DEF AppendFails, Resume, Forget, CallsAnswered, LocalsOK, HandlesOK, Settled, TypeOK, ActorPcs, CallPcs, serverVars, callVars, taskVars
    <2>3. HandlesOK'
      BY <1>18, RecordTypes, ConstantsAssumption, <2>c, <2>0
      DEF AppendFails, Resume, Forget, CallsAnswered, LocalsOK, HandlesOK, TypeOK, ActorPcs, CallPcs, serverVars, callVars, taskVars
    <2> QED BY <2>1, <2>2, <2>3
  <1>19. ASSUME NEW a \in Actors, Reread(a)
        PROVE  TypeInv'
    <2>0. /\ StateAfterRead(log, state[a], version[a]) \in History
          /\ VersionAfterRead(log, version[a]) \in Versions
      BY ReadType DEF TypeOK
    <2>a. attempt[a] + 1 \in 0 .. MAX_RETRIES
      BY <1>19, ConstantsAssumption DEF Reread, LocalsOK, TypeOK
    <2>1. TypeOK'
      BY <1>19, RecordTypes, ConstantsAssumption, <2>0, <2>a
      DEF Reread, LocalsOK, HandlesOK, TypeOK, ActorPcs, CallPcs, serverVars, callVars, taskVars
    <2>2. LocalsOK'
      BY <1>19, RecordTypes, ConstantsAssumption, <2>0, <2>a
      DEF Reread, LocalsOK, HandlesOK, Settled, TypeOK, ActorPcs, CallPcs, serverVars, callVars, taskVars
    <2>3. HandlesOK'
      BY <1>19, RecordTypes, ConstantsAssumption, <2>0, <2>a
      DEF Reread, LocalsOK, HandlesOK, TypeOK, ActorPcs, CallPcs, serverVars, callVars, taskVars
    <2> QED BY <2>1, <2>2, <2>3
  <1>20. ASSUME NEW a \in Actors, RereadFails(a)
        PROVE  TypeInv'
    <2>0. CallsAnswered
      <3>1. cur[a] \in Calls
        BY <1>20 DEF RereadFails, Resume, LocalsOK, TypeOK
      <3>2. \E r \in Replies : Answer(cur[a], r)
        BY <1>20, ReplyType, RecordTypes DEF RereadFails, Resume, TypeOK, Tags
      <3> QED BY <3>1, <3>2, AnswerType
    <2>1. TypeOK'
      BY <1>20, RecordTypes, ConstantsAssumption, <2>0
      DEF RereadFails, Resume, CallsAnswered, LocalsOK, HandlesOK, TypeOK, ActorPcs, CallPcs, serverVars, callVars, taskVars
    <2>2. LocalsOK'
      BY <1>20, RecordTypes, ConstantsAssumption, <2>0
      DEF RereadFails, Resume, CallsAnswered, LocalsOK, HandlesOK, Settled, TypeOK, ActorPcs, CallPcs, serverVars, callVars, taskVars
    <2>3. HandlesOK'
      BY <1>20, RecordTypes, ConstantsAssumption, <2>0
      DEF RereadFails, Resume, CallsAnswered, LocalsOK, HandlesOK, TypeOK, ActorPcs, CallPcs, serverVars, callVars, taskVars
    <2> QED BY <2>1, <2>2, <2>3
  <1>21. ASSUME NEW a \in Actors, EncodeFails(a)
        PROVE  TypeInv'
    <2>0. CallsAnswered
      <3>1. cur[a] \in Calls
        BY <1>21 DEF EncodeFails, Resume, LocalsOK, TypeOK
      <3>2. \E r \in Replies : Answer(cur[a], r)
        BY <1>21, ReplyType, RecordTypes DEF EncodeFails, Resume, TypeOK, Tags
      <3> QED BY <3>1, <3>2, AnswerType
    <2>1. TypeOK'
      BY <1>21, RecordTypes, ConstantsAssumption, <2>0
      DEF EncodeFails, Resume, CallsAnswered, LocalsOK, HandlesOK, TypeOK, ActorPcs, CallPcs, serverVars, callVars, taskVars
    <2>2. LocalsOK'
      BY <1>21, RecordTypes, ConstantsAssumption, <2>0
      DEF EncodeFails, Resume, CallsAnswered, LocalsOK, HandlesOK, Settled, TypeOK, ActorPcs, CallPcs, serverVars, callVars, taskVars
    <2>3. HandlesOK'
      BY <1>21, RecordTypes, ConstantsAssumption, <2>0
      DEF EncodeFails, Resume, CallsAnswered, LocalsOK, HandlesOK, TypeOK, ActorPcs, CallPcs, serverVars, callVars, taskVars
    <2> QED BY <2>1, <2>2, <2>3
  <1>22. ASSUME NEW a \in Actors, GiveUp(a)
        PROVE  TypeInv'
    <2>0. CallsAnswered
      <3>1. cur[a] \in Calls
        BY <1>22 DEF GiveUp, Resume, LocalsOK, TypeOK
      <3>2. \E r \in Replies : Answer(cur[a], r)
        BY <1>22, ReplyType, RecordTypes DEF GiveUp, Resume, TypeOK, Tags
      <3> QED BY <3>1, <3>2, AnswerType
    <2>1. TypeOK'
      BY <1>22, RecordTypes, ConstantsAssumption, <2>0
      DEF GiveUp, Resume, CallsAnswered, LocalsOK, HandlesOK, TypeOK, ActorPcs, CallPcs, serverVars, callVars, taskVars
    <2>2. LocalsOK'
      BY <1>22, RecordTypes, ConstantsAssumption, <2>0
      DEF GiveUp, Resume, CallsAnswered, LocalsOK, HandlesOK, Settled, TypeOK, ActorPcs, CallPcs, serverVars, callVars, taskVars
    <2>3. HandlesOK'
      BY <1>22, RecordTypes, ConstantsAssumption, <2>0
      DEF GiveUp, Resume, CallsAnswered, LocalsOK, HandlesOK, TypeOK, ActorPcs, CallPcs, serverVars, callVars, taskVars
    <2> QED BY <2>1, <2>2, <2>3
  <1>23. ASSUME NEW a \in Actors, RecvGetState(a)
        PROVE  TypeInv'
    <2>0. CallsAnswered
      <3>1. Head(mailbox[a]) \in Calls
        BY <1>23 DEF RecvGetState, NextMessage, LocalsOK, TypeOK
      <3>2. \E r \in Replies : Answer(Head(mailbox[a]), r)
        BY <1>23, ReplyType, RecordTypes DEF RecvGetState, NextMessage, TypeOK, Tags
      <3> QED BY <3>1, <3>2, AnswerType
    <2>1. TypeOK'
      BY <1>23, RecordTypes, ConstantsAssumption, <2>0, SMTT(30)
      DEF RecvGetState, NextMessage, CallsAnswered, LocalsOK, HandlesOK, TypeOK, ActorPcs, CallPcs, serverVars, callVars, taskVars
    <2>2. LocalsOK'
      BY <1>23, RecordTypes, ConstantsAssumption, <2>0, SMTT(30)
      DEF RecvGetState, NextMessage, CallsAnswered, LocalsOK, HandlesOK, Settled, TypeOK, ActorPcs, CallPcs, serverVars, callVars, taskVars
    <2>3. HandlesOK'
      BY <1>23, RecordTypes, ConstantsAssumption, <2>0
      DEF RecvGetState, NextMessage, CallsAnswered, LocalsOK, HandlesOK, TypeOK, ActorPcs, CallPcs, serverVars, callVars, taskVars
    <2> QED BY <2>1, <2>2, <2>3
  <1>24. ASSUME NEW a \in Actors, RecvInject(a)
        PROVE  TypeInv'
    <2>0. /\ Head(mailbox[a]) \in Calls
          /\ rpc' \in [Calls -> Rpcs]
          /\ mailbox' \in [Actors -> Seq(Calls)]
      <3>1. Head(mailbox[a]) \in Calls /\ req[Head(mailbox[a])].kind = "inject"
        BY <1>24 DEF RecvInject, NextMessage, TypeOK
      <3>2. req[Head(mailbox[a])].arg \in Stored
        BY <3>1, CommandOf DEF TypeOK
      <3>3. <<Stamp(req[Head(mailbox[a])].arg, Head(mailbox[a]))>> \in Seq(Recorded)
        BY <3>1, <3>2, StampType
      <3>4. rpc' \in [Calls -> Rpcs]
        BY <1>24, <3>3, RecordTypes DEF RecvInject, TypeOK
      <3>5. mailbox' \in [Actors -> Seq(Calls)]
        BY <1>24 DEF RecvInject, NextMessage, TypeOK
      <3> QED
        BY <3>1, <3>4, <3>5
    <2>1. TypeOK'
      BY <1>24, RecordTypes, ConstantsAssumption, <2>0
      DEF RecvInject, NextMessage, LocalsOK, HandlesOK, TypeOK, ActorPcs, CallPcs, serverVars, callVars, taskVars
    <2>2. LocalsOK'
      BY <1>24, RecordTypes, ConstantsAssumption, <2>0, SMTT(30)
      DEF RecvInject, NextMessage, LocalsOK, HandlesOK, Settled, TypeOK, ActorPcs, CallPcs, serverVars, callVars, taskVars
    <2>3. HandlesOK'
      BY <1>24, RecordTypes, ConstantsAssumption, <2>0
      DEF RecvInject, NextMessage, LocalsOK, HandlesOK, TypeOK, ActorPcs, CallPcs, serverVars, callVars, taskVars
    <2> QED BY <2>1, <2>2, <2>3
  <1>25. ASSUME NEW a \in Actors, InjectOk(a)
        PROVE  TypeInv'
    <2>1. TypeOK'
      BY <1>25, RecordTypes, ConstantsAssumption
      DEF InjectOk, LocalsOK, HandlesOK, TypeOK, ActorPcs, CallPcs, serverVars, callVars, taskVars
    <2>2. LocalsOK'
      BY <1>25, RecordTypes, ConstantsAssumption
      DEF InjectOk, LocalsOK, HandlesOK, Settled, TypeOK, ActorPcs, CallPcs, serverVars, callVars, taskVars
    <2>3. HandlesOK'
      BY <1>25, RecordTypes, ConstantsAssumption
      DEF InjectOk, LocalsOK, HandlesOK, TypeOK, ActorPcs, CallPcs, serverVars, callVars, taskVars
    <2> QED BY <2>1, <2>2, <2>3
  <1>26. ASSUME NEW a \in Actors, InjectFails(a)
        PROVE  TypeInv'
    <2>c. rpc' \in [Calls -> Rpcs]
      BY <1>26, RecordTypes DEF InjectFails, Forget, LocalsOK, TypeOK
    <2>0. CallsAnswered
      <3>1. cur[a] \in Calls
        BY <1>26 DEF InjectFails, Resume, Forget, LocalsOK, TypeOK
      <3>2. \E r \in Replies : Answer(cur[a], r)
        BY <1>26, ReplyType, RecordTypes, <2>c DEF InjectFails, Resume, Forget, TypeOK, Tags
      <3> QED BY <3>1, <3>2, AnswerType
    <2>1. TypeOK'
      BY <1>26, RecordTypes, ConstantsAssumption, <2>c, <2>0
      DEF InjectFails, Resume, Forget, CallsAnswered, LocalsOK, HandlesOK, TypeOK, ActorPcs, CallPcs, serverVars, callVars, taskVars
    <2>2. LocalsOK'
      BY <1>26, RecordTypes, ConstantsAssumption, <2>c, <2>0, SMTT(30)
      DEF InjectFails, Resume, Forget, CallsAnswered, LocalsOK, HandlesOK, Settled, TypeOK, ActorPcs, CallPcs, serverVars, callVars, taskVars
    <2>3. HandlesOK'
      BY <1>26, RecordTypes, ConstantsAssumption, <2>c, <2>0, SMTT(30)
      DEF InjectFails, Resume, Forget, CallsAnswered, LocalsOK, HandlesOK, TypeOK, ActorPcs, CallPcs, serverVars, callVars, taskVars
    <2> QED BY <2>1, <2>2, <2>3
  <1>27. ASSUME NEW a \in Actors, InjectRead(a)
        PROVE  TypeInv'
    <2>a. /\ StateAfterRead(log, state[a], version[a]) \in History
          /\ VersionAfterRead(log, version[a]) \in Versions
      BY ReadType DEF TypeOK
    <2>b. state' \in [Actors -> History] /\ version' \in [Actors -> Versions]
      BY <1>27, <2>a, ZenonT(30) DEF InjectRead, TypeOK
    <2>c. Resume(a) /\ UNCHANGED <<serverVars, mailbox, snapshot, cache, req, seed>>
      BY <1>27 DEF InjectRead
    <2>0. CallsAnswered
      <3>1. cur[a] \in Calls
        BY <1>27 DEF InjectRead, Resume, LocalsOK, TypeOK
      <3>2. \E r \in Replies : Answer(cur[a], r)
        BY <1>27, ReplyType, RecordTypes, <2>a, <2>b, <2>c DEF InjectRead, Resume, TypeOK, Tags
      <3> QED BY <3>1, <3>2, AnswerType
    <2>1. TypeOK'
      BY <1>27, RecordTypes, ConstantsAssumption, <2>a, <2>b, <2>c, <2>0
      DEF Resume, CallsAnswered, LocalsOK, HandlesOK, TypeOK, ActorPcs, CallPcs, serverVars, callVars, taskVars
    <2>2. LocalsOK'
      BY <1>27, RecordTypes, ConstantsAssumption, <2>a, <2>b, <2>c, <2>0
      DEF Resume, CallsAnswered, LocalsOK, HandlesOK, Settled, TypeOK, ActorPcs, CallPcs, serverVars, callVars, taskVars
    <2>3. HandlesOK'
      BY <1>27, RecordTypes, ConstantsAssumption, <2>a, <2>b, <2>c, <2>0
      DEF Resume, CallsAnswered, LocalsOK, HandlesOK, TypeOK, ActorPcs, CallPcs, serverVars, callVars, taskVars
    <2> QED BY <2>1, <2>2, <2>3
  <1>28. ASSUME NEW a \in Actors, RecvShutdown(a)
        PROVE  TypeInv'
    <2>1. TypeOK'
      BY <1>28, RecordTypes, ConstantsAssumption, SMTT(30)
      DEF RecvShutdown, NextMessage, Leave, LocalsOK, HandlesOK, TypeOK, ActorPcs, CallPcs, serverVars, callVars, taskVars
    <2>2. LocalsOK'
      BY <1>28, RecordTypes, ConstantsAssumption, SMTT(30)
      DEF RecvShutdown, NextMessage, Leave, LocalsOK, HandlesOK, Settled, TypeOK, ActorPcs, CallPcs, serverVars, callVars, taskVars
    <2>3. HandlesOK'
      BY <1>28, RecordTypes, ConstantsAssumption
      DEF RecvShutdown, NextMessage, Leave, LocalsOK, HandlesOK, TypeOK, ActorPcs, CallPcs, serverVars, callVars, taskVars
    <2> QED BY <2>1, <2>2, <2>3
  <1>29. ASSUME NEW a \in Actors, IdleTimeout(a)
        PROVE  TypeInv'
    <2>1. TypeOK'
      BY <1>29, RecordTypes, ConstantsAssumption
      DEF IdleTimeout, Leave, LocalsOK, HandlesOK, TypeOK, ActorPcs, CallPcs, serverVars, callVars, taskVars
    <2>2. LocalsOK'
      BY <1>29, RecordTypes, ConstantsAssumption
      DEF IdleTimeout, Leave, LocalsOK, HandlesOK, Settled, TypeOK, ActorPcs, CallPcs, serverVars, callVars, taskVars
    <2>3. HandlesOK'
      BY <1>29, RecordTypes, ConstantsAssumption
      DEF IdleTimeout, Leave, LocalsOK, HandlesOK, TypeOK, ActorPcs, CallPcs, serverVars, callVars, taskVars
    <2> QED BY <2>1, <2>2, <2>3
  <1>30. ASSUME NEW a \in Actors, ChannelClosed(a)
        PROVE  TypeInv'
    <2>1. TypeOK'
      BY <1>30, RecordTypes, ConstantsAssumption
      DEF ChannelClosed, Leave, LocalsOK, HandlesOK, TypeOK, ActorPcs, CallPcs, serverVars, callVars, taskVars
    <2>2. LocalsOK'
      BY <1>30, RecordTypes, ConstantsAssumption
      DEF ChannelClosed, Leave, LocalsOK, HandlesOK, Settled, TypeOK, ActorPcs, CallPcs, serverVars, callVars, taskVars
    <2>3. HandlesOK'
      BY <1>30, RecordTypes, ConstantsAssumption
      DEF ChannelClosed, Leave, LocalsOK, HandlesOK, TypeOK, ActorPcs, CallPcs, serverVars, callVars, taskVars
    <2> QED BY <2>1, <2>2, <2>3
  <1>31. ASSUME NEW a \in Actors, Exit(a)
        PROVE  TypeInv'
    <2>0. snapshot' \in Snapshots
      BY <1>31, RecordTypes DEF Exit, SavedSnapshots, TypeOK, Snapshots, Versions, None
    <2>1. TypeOK'
      BY <1>31, RecordTypes, ConstantsAssumption, <2>0
      DEF Exit, SavedSnapshots, LocalsOK, HandlesOK, TypeOK, ActorPcs, CallPcs, serverVars, callVars, taskVars, Tags
    <2>2. LocalsOK'
      BY <1>31, RecordTypes, ConstantsAssumption, <2>0
      DEF Exit, SavedSnapshots, LocalsOK, HandlesOK, Settled, TypeOK, ActorPcs, CallPcs, serverVars, callVars, taskVars
    <2>3. HandlesOK'
      BY <1>31, RecordTypes, ConstantsAssumption, <2>0
      DEF Exit, SavedSnapshots, LocalsOK, HandlesOK, TypeOK, ActorPcs, CallPcs, serverVars, callVars, taskVars
    <2> QED BY <2>1, <2>2, <2>3
  <1>32. ASSUME NEW e \in ForeignEvents, OtherAppend(e)
        PROVE  TypeInv'
    <2>0. log' \in Seq(Recorded)
      BY <1>32, StampType, ConstantsAssumption DEF OtherAppend, TypeOK
    <2>1. TypeOK'
      BY <1>32, RecordTypes, ConstantsAssumption, <2>0
      DEF OtherAppend, LocalsOK, HandlesOK, TypeOK, ActorPcs, CallPcs, serverVars, callVars, taskVars
    <2>2. LocalsOK'
      BY <1>32, RecordTypes, ConstantsAssumption, <2>0
      DEF OtherAppend, LocalsOK, HandlesOK, Settled, TypeOK, ActorPcs, CallPcs, serverVars, callVars, taskVars
    <2>3. HandlesOK'
      BY <1>32, RecordTypes, ConstantsAssumption, <2>0
      DEF OtherAppend, LocalsOK, HandlesOK, TypeOK, ActorPcs, CallPcs, serverVars, callVars, taskVars
    <2> QED BY <2>1, <2>2, <2>3
  <1>33. CASE Crash
    <2>1. TypeOK'
      BY <1>33, RecordTypes, ConstantsAssumption
      DEF Crash, Forget, LocalsOK, HandlesOK, TypeOK, ActorPcs, CallPcs, serverVars, callVars, taskVars, Tags
    <2>2. LocalsOK'
      BY <1>33, RecordTypes, ConstantsAssumption
      DEF Crash, Forget, LocalsOK, HandlesOK, Settled, TypeOK, ActorPcs, CallPcs, serverVars, callVars, taskVars
    <2>3. HandlesOK'
      BY <1>33, RecordTypes, ConstantsAssumption
      DEF Crash, Forget, LocalsOK, HandlesOK, TypeOK, ActorPcs, CallPcs, serverVars, callVars, taskVars
    <2> QED BY <2>1, <2>2, <2>3
  <1>34. CASE UNCHANGED vars
    BY <1>34 DEF vars, TypeOK, LocalsOK, HandlesOK
  <1> QED
    BY <1>1, <1>2, <1>3, <1>4, <1>5, <1>6, <1>7, <1>8, <1>9, <1>10, <1>11, <1>12, <1>13, <1>14, <1>15, <1>16, <1>17, <1>18, <1>19, <1>20, <1>21, <1>22, <1>23, <1>24, <1>25, <1>26, <1>27, <1>28, <1>29, <1>30, <1>31, <1>32, <1>33, <1>34
    DEF Next, CallStep, ActorStep, Failure

-----------------------------------------------------------------------------
\* How one step may move messages between callers, mailboxes and actors.
MessagesMove ==
    \/ UNCHANGED <<mailbox, cur>>
    \/ \E a \in Actors : mailbox' = mailbox /\ cur' = [cur EXCEPT ![a] = Other]
    \/ \E k \in Calls :
           /\ cpc[k] = "ready" /\ handle[k] \in Actors
           /\ mailbox' = [mailbox EXCEPT ![handle[k]] = Append(mailbox[handle[k]], k)]
           /\ cur' = cur
    \/ \E a \in Actors :
           /\ mailbox[a] # <<>> /\ mailbox' = [mailbox EXCEPT ![a] = Tail(mailbox[a])]
           /\ cur' = cur \/ cur' = [cur EXCEPT ![a] = Head(mailbox[a])]
    \/ \E a \in Actors : mailbox' = [mailbox EXCEPT ![a] = <<>>] /\ cur' = cur
    \/ mailbox' = [a \in Actors |-> <<>>] /\ cur' = [a \in Actors |-> Other]

\* Every step moves messages in one of these ways.
LEMMA MessageSteps ==
    ASSUME TypeInv, [Next]_vars
    PROVE  MessagesMove
  <1>1. ASSUME NEW k \in Calls, CallStep(k)
        PROVE  MessagesMove
    <2>1. CASE Send(k)
      BY <2>1 DEF Send, MessagesMove, TypeInv, HandlesOK
    <2>2. CASE ~Send(k)
      BY <1>1, <2>2 DEF CallStep, GetCached, GetMiss, GetEvict, SpawnLoad, SpawnCatchUp,
         GetInsert, SendFails, MessagesMove, taskVars
    <2> QED BY <2>1, <2>2
  <1>2. ASSUME NEW a \in Actors, ActorStep(a)
        PROVE  MessagesMove
    <2>1. CASE RecvExecute(a) \/ RecvInject(a) \/ RecvGetState(a) \/ RecvShutdown(a)
      BY <2>1 DEF RecvExecute, RecvInject, RecvGetState, RecvShutdown, NextMessage, Leave,
         MessagesMove
    <2>2. CASE DecideNothing(a) \/ AppendOk(a) \/ GiveUp(a) \/ InjectRead(a)
      BY <2>2 DEF DecideNothing, AppendOk, GiveUp, InjectRead, Resume, MessagesMove
    <2>3. CASE DecideAppend(a) \/ AppendConflict(a) \/ Reread(a) \/ InjectOk(a) \/ ChannelClosed(a)
      BY <2>3 DEF DecideAppend, AppendConflict, Reread, InjectOk, ChannelClosed, Leave,
         MessagesMove
    <2>4. CASE Exit(a)
      BY <2>4 DEF Exit, MessagesMove
    <2> QED BY <1>2, <2>1, <2>2, <2>3, <2>4 DEF ActorStep
  <1>3. CASE Failure
    <2>1. ASSUME NEW k \in Calls, SpawnFails(k) \/ Abandon(k)
          PROVE  MessagesMove
      BY <2>1 DEF SpawnFails, Abandon, taskVars, MessagesMove
    <2>2. ASSUME NEW a \in Actors, AppendFails(a) \/ RereadFails(a) \/ EncodeFails(a) \/ InjectFails(a)
          PROVE  MessagesMove
      BY <2>2 DEF AppendFails, RereadFails, EncodeFails, InjectFails, Resume, MessagesMove
    <2>3. ASSUME NEW a \in Actors, IdleTimeout(a)
          PROVE  MessagesMove
      BY <2>3 DEF IdleTimeout, Leave, MessagesMove
    <2>4. CASE Crash
      BY <2>4 DEF Crash, MessagesMove
    <2> QED BY <1>3, <2>1, <2>2, <2>3, <2>4 DEF Failure
  <1>4. ASSUME NEW k \in Calls, ServerAppend(k) \/ (\E r \in Requests : Issue(k, r))
        PROVE  MessagesMove
    BY <1>4 DEF ServerAppend, Issue, taskVars, MessagesMove
  <1>5. ASSUME NEW e \in ForeignEvents, OtherAppend(e)
        PROVE  MessagesMove
    BY <1>5 DEF OtherAppend, taskVars, MessagesMove
  <1>6. CASE UNCHANGED vars
    BY <1>6 DEF vars, MessagesMove
  <1> QED
    BY <1>1, <1>2, <1>3, <1>4, <1>5, <1>6 DEF Next

\* A message never gets into two places.
LEMMA PlaceStep ==
    ASSUME PlaceInv, [Next]_vars
    PROVE  OnePlace'
  <1>0. TypeOK /\ LocalsOK /\ OnePlace /\ MessagesMove
    BY MessageSteps DEF PlaceInv, TypeInv
  <1>1. CASE UNCHANGED <<mailbox, cur>>
    BY <1>0, <1>1 DEF OnePlace
  <1>2. ASSUME NEW a \in Actors, mailbox' = mailbox, cur' = [cur EXCEPT ![a] = Other]
        PROVE  OnePlace'
    <2>1. \A b \in Actors : cur'[b] = cur[b] \/ cur'[b] = Other
      BY <1>0, <1>2 DEF TypeOK
    <2>2. \A b \in Actors : \A i \in 1 .. Len(mailbox[b]) : mailbox[b][i] # Other
      BY <1>0, ConstantsAssumption DEF TypeOK
    <2> QED BY <1>0, <1>2, <2>1, <2>2, ConstantsAssumption DEF OnePlace
  <1>3. ASSUME NEW k \in Calls, cpc[k] = "ready", handle[k] \in Actors,
               mailbox' = [mailbox EXCEPT ![handle[k]] = Append(mailbox[handle[k]], k)],
               cur' = cur
        PROVE  OnePlace'
    <2>1. /\ \A b \in Actors : cur[b] # k
          /\ \A b \in Actors : \A i \in 1 .. Len(mailbox[b]) : mailbox[b][i] # k
      BY <1>0, <1>3 DEF LocalsOK, Settled
    <2>2. \A b \in Actors : \A i \in 1 .. Len(mailbox'[b]) :
              \/ b = handle[k] /\ i = Len(mailbox[b]) + 1 /\ mailbox'[b][i] = k
              \/ i \in 1 .. Len(mailbox[b]) /\ mailbox'[b][i] = mailbox[b][i]
      BY <1>0, <1>3, AppendElements DEF TypeOK
    <2>3. \A b, c \in Actors : \A i \in 1 .. Len(mailbox'[b]) : mailbox'[b][i] # cur'[c]
      BY <1>0, <1>3, <2>1, <2>2 DEF OnePlace
    <2>4. \A b, c \in Actors : \A i \in 1 .. Len(mailbox'[b]), j \in 1 .. Len(mailbox'[c]) :
              mailbox'[b][i] = mailbox'[c][j] => b = c /\ i = j
      <3> SUFFICES ASSUME NEW b \in Actors, NEW c \in Actors,
                          NEW i \in 1 .. Len(mailbox'[b]), NEW j \in 1 .. Len(mailbox'[c]),
                          mailbox'[b][i] = mailbox'[c][j]
                   PROVE  b = c /\ i = j
        OBVIOUS
      <3>1. CASE mailbox'[b][i] = k
        <4>1. mailbox'[c][j] = k
          BY <3>1
        <4>2. b = handle[k] /\ i = Len(mailbox[b]) + 1
          BY <3>1, <2>1, <2>2
        <4>3. c = handle[k] /\ j = Len(mailbox[c]) + 1
          BY <4>1, <2>1, <2>2
        <4> QED BY <4>2, <4>3
      <3>2. CASE mailbox'[b][i] # k
        <4>1. /\ i \in 1 .. Len(mailbox[b]) /\ mailbox'[b][i] = mailbox[b][i]
              /\ j \in 1 .. Len(mailbox[c]) /\ mailbox'[c][j] = mailbox[c][j]
          BY <3>2, <2>2
        <4>2. mailbox[b][i] = mailbox[c][j]
          BY <4>1
        <4> QED BY <1>0, <4>1, <4>2 DEF OnePlace
      <3> QED BY <3>1, <3>2
    <2> QED BY <1>0, <1>3, <2>3, <2>4 DEF OnePlace
  <1>4. ASSUME NEW a \in Actors, mailbox[a] # <<>>,
               mailbox' = [mailbox EXCEPT ![a] = Tail(mailbox[a])],
               cur' = cur \/ cur' = [cur EXCEPT ![a] = Head(mailbox[a])]
        PROVE  OnePlace'
    <2>1. \A b \in Actors : \A i \in 1 .. Len(mailbox'[b]) :
              \/ b # a /\ i \in 1 .. Len(mailbox[b]) /\ mailbox'[b][i] = mailbox[b][i]
              \/ b = a /\ i + 1 \in 2 .. Len(mailbox[b]) /\ mailbox'[b][i] = mailbox[b][i + 1]
      BY <1>0, <1>4 DEF TypeOK
    <2>2. \A b \in Actors : cur'[b] = cur[b] \/ (b = a /\ cur'[b] = mailbox[a][1])
      BY <1>0, <1>4 DEF TypeOK
    <2>3. 1 \in 1 .. Len(mailbox[a])
      BY <1>0, <1>4 DEF TypeOK
    <2>4. \A b \in Actors : Len(mailbox[b]) \in Nat
      BY <1>0 DEF TypeOK
    <2>5. \A b, c \in Actors : \A i \in 1 .. Len(mailbox'[b]) : mailbox'[b][i] # cur'[c]
      <3> SUFFICES ASSUME NEW b \in Actors, NEW c \in Actors, NEW i \in 1 .. Len(mailbox'[b])
                   PROVE  mailbox'[b][i] # cur'[c]
        OBVIOUS
      <3>1. PICK j \in 1 .. Len(mailbox[b]) :
                mailbox'[b][i] = mailbox[b][j] /\ (b = a => j # 1)
        BY <2>1, <2>4
      <3>2. mailbox[b][j] # cur[c] /\ mailbox[b][j] # mailbox[a][1]
        BY <1>0, <3>1, <2>3 DEF OnePlace
      <3> QED BY <3>1, <3>2, <2>2
    <2>6. \A b, c \in Actors : \A i \in 1 .. Len(mailbox'[b]), j \in 1 .. Len(mailbox'[c]) :
              mailbox'[b][i] = mailbox'[c][j] => b = c /\ i = j
      <3> SUFFICES ASSUME NEW b \in Actors, NEW c \in Actors,
                          NEW i \in 1 .. Len(mailbox'[b]), NEW j \in 1 .. Len(mailbox'[c]),
                          mailbox'[b][i] = mailbox'[c][j]
                   PROVE  b = c /\ i = j
        OBVIOUS
      <3>1. CASE b # a /\ c # a
        BY <1>0, <3>1, <2>1 DEF OnePlace
      <3>2. CASE b = a /\ c # a
        BY <1>0, <3>2, <2>1, <2>4 DEF OnePlace
      <3>3. CASE b # a /\ c = a
        BY <1>0, <3>3, <2>1, <2>4 DEF OnePlace
      <3>4. CASE b = a /\ c = a
        <4>1. i + 1 = j + 1
          BY <1>0, <3>4, <2>1, <2>4 DEF OnePlace
        <4> QED BY <3>4, <4>1
      <3> QED BY <3>1, <3>2, <3>3, <3>4
    <2>7. \A b, c \in Actors : cur'[b] = cur'[c] /\ cur'[b] \in Calls => b = c
      BY <1>0, <2>2, <2>3 DEF OnePlace
    <2> QED BY <1>0, <2>5, <2>6, <2>7 DEF OnePlace
  <1>5. ASSUME NEW a \in Actors, mailbox' = [mailbox EXCEPT ![a] = <<>>], cur' = cur
        PROVE  OnePlace'
    <2>1. \A b \in Actors : mailbox'[b] = mailbox[b] \/ Len(mailbox'[b]) = 0
      BY <1>0, <1>5 DEF TypeOK
    <2> QED BY <1>0, <1>5, <2>1 DEF OnePlace
  <1>6. CASE mailbox' = [a \in Actors |-> <<>>] /\ cur' = [a \in Actors |-> Other]
    BY <1>6, ConstantsAssumption DEF OnePlace
  <1> QED
    BY <1>0, <1>1, <1>2, <1>3, <1>4, <1>5, <1>6 DEF MessagesMove

-----------------------------------------------------------------------------
\* Equality with a fold, entry by entry.
LEMMA FoldPointwise ==
    ASSUME NEW l \in Seq(Recorded), NEW s \in History, NEW v \in Versions
    PROVE  IsFold(l, s, v) <=>
               /\ v < Len(l) /\ Len(s) = v + 1
               /\ \A i \in 1 .. v + 1 : s[i] = Decode(l[i].type, l[i].payload)
  <1>1. v + 1 \in Nat
    BY DEF Versions, None
  <1>2. CASE v < Len(l)
    <2>1. /\ SubSeq(l, 1, v + 1) \in Seq(Recorded)
          /\ Len(SubSeq(l, 1, v + 1)) = v + 1
          /\ \A i \in 1 .. v + 1 : SubSeq(l, 1, v + 1)[i] = l[i]
      BY <1>1, <1>2 DEF Versions, None
    <2>2. /\ Visit(SubSeq(l, 1, v + 1)) \in History
          /\ Len(Visit(SubSeq(l, 1, v + 1))) = v + 1
          /\ \A i \in 1 .. v + 1 :
                 Visit(SubSeq(l, 1, v + 1))[i] = Decode(l[i].type, l[i].payload)
      BY <2>1, VisitType
    <2> QED BY <1>1, <1>2, <2>2 DEF IsFold, History
  <1>3. CASE ~(v < Len(l))
    BY <1>3 DEF IsFold
  <1> QED BY <1>2, <1>3

\* Entries of two histories put together: apply after apply.
LEMMA HistoryConcat ==
    ASSUME NEW s \in History, NEW t \in History
    PROVE  /\ s \o t \in History
           /\ Len(s) \in Nat /\ Len(t) \in Nat
           /\ Len(s \o t) = Len(s) + Len(t)
           /\ \A i \in 1 .. Len(s) : (s \o t)[i] = s[i]
           /\ \A i \in 1 .. Len(t) : (s \o t)[Len(s) + i] = t[i]
  BY DEF History

\* Entries of two streams put together: append after append.
LEMMA StreamConcat ==
    ASSUME NEW s \in Seq(Recorded), NEW t \in Seq(Recorded)
    PROVE  /\ s \o t \in Seq(Recorded)
           /\ Len(s) \in Nat /\ Len(t) \in Nat
           /\ Len(s \o t) = Len(s) + Len(t)
           /\ \A i \in 1 .. Len(s) : (s \o t)[i] = s[i]
           /\ \A i \in 1 .. Len(t) : (s \o t)[Len(s) + i] = t[i]
  OBVIOUS

\* More events in the stream do not change the fold of an old prefix.
LEMMA FoldExtend ==
    ASSUME NEW l \in Seq(Recorded), NEW m \in Seq(Recorded),
           NEW s \in History, NEW v \in Versions, IsFold(l, s, v)
    PROVE  IsFold(l \o m, s, v)
  <1>1. /\ l \o m \in Seq(Recorded) /\ Len(l \o m) >= Len(l)
        /\ \A i \in 1 .. Len(l) : (l \o m)[i] = l[i]
    OBVIOUS
  <1>2. /\ v < Len(l) /\ Len(s) = v + 1
        /\ \A i \in 1 .. v + 1 : s[i] = Decode(l[i].type, l[i].payload)
    BY FoldPointwise
  <1>3. /\ v < Len(l \o m)
        /\ \A i \in 1 .. v + 1 : s[i] = Decode((l \o m)[i].type, (l \o m)[i].payload)
    BY <1>1, <1>2 DEF Versions, None
  <1> QED BY <1>1, <1>2, <1>3, FoldPointwise

\* Reading on from version v and folding what is read gives the whole fold.
LEMMA FoldRead ==
    ASSUME NEW l \in Seq(Recorded), NEW s \in History, NEW v \in Versions, IsFold(l, s, v)
    PROVE  /\ IsFold(l, StateAfterRead(l, s, v), VersionAfterRead(l, v))
           /\ VersionAfterRead(l, v) = Len(l) - 1
  <1>1. NextVersion(v) = v + 1 /\ v + 1 \in Nat /\ v \in Int
    BY DEF NextVersion, Versions, None
  <1>2. /\ v < Len(l) /\ Len(s) = v + 1
        /\ \A i \in 1 .. v + 1 : s[i] = Decode(l[i].type, l[i].payload)
    BY FoldPointwise
  <1>3. VersionAfterRead(l, v) = Len(l) - 1
    BY <1>1, <1>2 DEF VersionAfterRead, LastVersion, Versions, None
  <1> DEFINE r == ReadFrom(l, v + 1)
  <1>4. /\ r \in Seq(Recorded) /\ Len(r) = Len(l) - (v + 1)
        /\ \A i \in 1 .. Len(r) : r[i] = l[v + 1 + i]
    BY <1>1, <1>2 DEF ReadFrom
  <1>5. /\ Visit(r) \in History /\ Len(Visit(r)) = Len(l) - (v + 1)
        /\ \A i \in 1 .. Len(r) : Visit(r)[i] = Decode(l[v + 1 + i].type, l[v + 1 + i].payload)
    BY <1>4, VisitType
  <1> HIDE DEF r
  <1>6. /\ s \o Visit(r) \in History /\ Len(s \o Visit(r)) = Len(s) + Len(Visit(r))
        /\ \A i \in 1 .. Len(s) : (s \o Visit(r))[i] = s[i]
        /\ \A i \in 1 .. Len(Visit(r)) : (s \o Visit(r))[Len(s) + i] = Visit(r)[i]
    BY <1>5, HistoryConcat
  <1>b. Len(l) \in Nat /\ (v + 1) + (Len(l) - (v + 1)) = Len(l)
    BY <1>1
  <1>a. Len(s \o Visit(r)) = Len(l)
    BY <1>b, <1>2, <1>5, <1>6, Zenon
  <1>7. \A i \in 1 .. Len(l) : (s \o Visit(r))[i] = Decode(l[i].type, l[i].payload)
    <2> SUFFICES ASSUME NEW i \in 1 .. Len(l)
                 PROVE  (s \o Visit(r))[i] = Decode(l[i].type, l[i].payload)
      OBVIOUS
    <2>1. CASE i \in 1 .. v + 1
      BY <2>1, <1>1, <1>2, <1>6
    <2>2. CASE i \notin 1 .. v + 1
      <3>1. PICK j \in 1 .. Len(r) : i = v + 1 + j
        <4>1. i - (v + 1) \in 1 .. Len(r) /\ v + 1 + (i - (v + 1)) = i
          BY <2>2, <1>1, <1>4, SMTT(30)
        <4> QED BY <4>1
      <3>2. Visit(r)[j] = Decode(l[i].type, l[i].payload)
        BY <3>1, <1>5
      <3>3. j \in 1 .. Len(Visit(r)) /\ i = Len(s) + j
        BY <3>1, <1>2, <1>4, <1>5
      <3> QED BY <3>2, <3>3, <1>6
    <2> QED BY <2>1, <2>2
  <1>8. StateAfterRead(l, s, v) = s \o Visit(r)
    BY <1>1 DEF StateAfterRead, r
  <1>9. Len(l) - 1 \in Versions /\ (Len(l) - 1) + 1 = Len(l) /\ Len(l) - 1 < Len(l)
    BY DEF Versions, None
  <1>10. IsFold(l, s \o Visit(r), Len(l) - 1)
    BY <1>6, <1>a, <1>7, <1>9, FoldPointwise
  <1> QED BY <1>3, <1>8, <1>10

\* Applying the produced events as they are is the same as reading them back.
LEMMA FoldLocal ==
    ASSUME NEW l \in Seq(Recorded), NEW s \in History, NEW v \in Versions, IsFold(l, s, v),
           NEW ds \in Seq(DomainEvents), NEW k, v + Len(ds) < Len(l),
           \A i \in 1 .. Len(ds) : l[v + 1 + i] = Encode(ds[i], k)
    PROVE  IsFold(l, s \o ds, v + Len(ds))
  <1>1. v + 1 \in Nat /\ v \in Int /\ v + Len(ds) \in Versions /\ Len(ds) \in Nat
    BY DEF Versions, None
  <1>2. /\ v < Len(l) /\ Len(s) = v + 1
        /\ \A i \in 1 .. v + 1 : s[i] = Decode(l[i].type, l[i].payload)
    BY FoldPointwise
  <1>a. ds \in History
    BY DEF History
  <1>3. /\ s \o ds \in History /\ Len(s \o ds) = Len(s) + Len(ds)
        /\ \A i \in 1 .. Len(s) : (s \o ds)[i] = s[i]
        /\ \A i \in 1 .. Len(ds) : (s \o ds)[Len(s) + i] = ds[i]
    BY <1>a, HistoryConcat
  <1>b. Len(s \o ds) = v + Len(ds) + 1
    BY <1>1, <1>2, <1>3
  <1>4. \A i \in 1 .. v + Len(ds) + 1 : (s \o ds)[i] = Decode(l[i].type, l[i].payload)
    <2> SUFFICES ASSUME NEW i \in 1 .. v + Len(ds) + 1
                 PROVE  (s \o ds)[i] = Decode(l[i].type, l[i].payload)
      OBVIOUS
    <2>1. CASE i \in 1 .. v + 1
      BY <2>1, <1>1, <1>2, <1>3
    <2>2. CASE i \notin 1 .. v + 1
      <3>1. PICK j \in 1 .. Len(ds) : i = v + 1 + j
        <4>1. i - (v + 1) \in 1 .. Len(ds) /\ v + 1 + (i - (v + 1)) = i
          BY <2>2, <1>1
        <4> QED BY <4>1
      <3>2. l[i] = Encode(ds[j], k) /\ ds[j] \in DomainEvents
        BY <3>1
      <3>3. Decode(l[i].type, l[i].payload) = ds[j]
        BY <3>2, RoundTrip
      <3>4. i = Len(s) + j
        BY <3>1, <1>2
      <3> QED BY <3>3, <3>4, <1>3
    <2> QED BY <2>1, <2>2
  <1>5. v + Len(ds) + 1 = (v + Len(ds)) + 1
    OBVIOUS
  <1> QED BY <1>1, <1>3, <1>b, <1>4, <1>5, FoldPointwise

\* No snapshot, that is the default aggregate before any event, is a fold.
LEMMA FoldNothing ==
    ASSUME NEW l \in Seq(Recorded)
    PROVE  IsFold(l, NoSnapshot.state, NoSnapshot.version)
  <1>1. NoSnapshot.state = <<>> /\ NoSnapshot.version = None
    BY DEF NoSnapshot
  <1>2. <<>> \in History /\ None \in Versions /\ None + 1 = 0
    BY DEF History, None, Versions
  <1>3. None < Len(l) /\ Len(<<>>) = None + 1
    BY DEF None
  <1>4. IsFold(l, <<>>, None)
    BY <1>2, <1>3, FoldPointwise
  <1> QED BY <1>1, <1>4

-----------------------------------------------------------------------------
\* The stream only grows.
LEMMA LogSteps ==
    ASSUME TypeInv, [Next]_vars
    PROVE  \E m \in Seq(Recorded) : log' = log \o m
  <1>0. log \in Seq(Recorded)
    BY DEF TypeInv, TypeOK
  <1>1. CASE log' = log
    <2>1. <<>> \in Seq(Recorded) /\ log \o <<>> = log
      BY <1>0
    <2> QED BY <1>1, <2>1
  <1>2. ASSUME NEW k \in Calls, ServerAppend(k), log' # log
        PROVE  \E m \in Seq(Recorded) : log' = log \o m
    <2>1. rpc[k].events \in Seq(Recorded)
      BY DEF TypeInv, TypeOK, Rpcs
    <2> QED BY <1>2, <2>1 DEF ServerAppend
  <1>3. ASSUME NEW e \in ForeignEvents, OtherAppend(e)
        PROVE  \E m \in Seq(Recorded) : log' = log \o m
    <2>1. Stamp(e, Other) \in Recorded
      BY StampType, ConstantsAssumption
    <2>2. <<Stamp(e, Other)>> \in Seq(Recorded) /\ log' = log \o <<Stamp(e, Other)>>
      BY <1>0, <1>3, <2>1 DEF OtherAppend
    <2> QED BY <2>2
  <1>4. ASSUME NEW k \in Calls, CallStep(k)
        PROVE  log' = log
    BY <1>4 DEF CallStep, GetCached, GetMiss, GetEvict, SpawnLoad, SpawnCatchUp, GetInsert, Send,
       SendFails, serverVars
  <1>5. ASSUME NEW a \in Actors, ActorStep(a)
        PROVE  log' = log
    BY <1>5 DEF ActorStep, RecvExecute, DecideNothing, DecideAppend, AppendOk, AppendConflict,
       Reread, GiveUp, RecvGetState, RecvInject, InjectOk, InjectRead, RecvShutdown,
       ChannelClosed, Exit, Leave, serverVars
  <1>6. CASE Failure
    BY <1>1, <1>6 DEF Failure, SpawnFails, Abandon, AppendFails, RereadFails, EncodeFails, InjectFails,
       IdleTimeout, Leave, Crash, serverVars
  <1>7. ASSUME NEW k \in Calls, NEW r \in Requests, Issue(k, r)
        PROVE  log' = log
    BY <1>7 DEF Issue, serverVars
  <1>8. CASE UNCHANGED vars
    BY <1>1, <1>8 DEF vars
  <1> QED
    BY <1>1, <1>2, <1>3, <1>4, <1>5, <1>6, <1>7, <1>8 DEF Next

\* How one step may change the aggregate of an actor that runs after it.
StateMoves(b) ==
    \/ apc[b] # "gone" /\ state'[b] = state[b] /\ version'[b] = version[b]
    \/ \E s \in History, v \in Versions :
           /\ IsFold(log, s, v) /\ log' = log
           /\ state'[b] = StateAfterRead(log, s, v)
           /\ version'[b] = VersionAfterRead(log, v)
    \/ AppendOk(b)

\* How one step may change an actor's aggregate and version.
LEMMA StateSteps ==
    ASSUME FoldInv, [Next]_vars, NEW b \in Actors, apc'[b] # "gone"
    PROVE  StateMoves(b)
  <1>0. TypeOK /\ StateIsFold /\ SnapshotIsFold
    BY DEF FoldInv, PlaceInv, TypeInv
  <1> DEFINE Still == apc[b] # "gone" /\ state'[b] = state[b] /\ version'[b] = version[b]
  <1>1. ASSUME NEW k \in Calls, NEW a \in Actors, SpawnCatchUp(k, a)
        PROVE  StateMoves(b)
    <2>1. CASE a = b
      <3>1. /\ seed[k].state \in History /\ seed[k].version \in Versions
            /\ IsFold(log, seed[k].state, seed[k].version)
        BY <1>0 DEF TypeOK, Snapshots, SnapshotIsFold
      <3>2. /\ state'[b] = StateAfterRead(log, seed[k].state, seed[k].version)
            /\ version'[b] = VersionAfterRead(log, seed[k].version)
            /\ log' = log
        BY <1>0, <1>1, <2>1 DEF SpawnCatchUp, TypeOK, serverVars
      <3> QED BY <3>1, <3>2 DEF StateMoves
    <2>2. CASE a # b
      BY <1>0, <1>1, <2>2 DEF SpawnCatchUp, TypeOK, StateMoves
    <2> QED BY <2>1, <2>2
  <1>2. ASSUME NEW a \in Actors, Reread(a) \/ InjectRead(a)
        PROVE  StateMoves(b)
    <2>1. CASE a = b /\ state'[b] = StateAfterRead(log, state[b], version[b])
                     /\ version'[b] = VersionAfterRead(log, version[b])
      <3>1. apc[b] # "gone" /\ log' = log
        BY <1>2, <2>1 DEF Reread, InjectRead, serverVars
      <3>2. state[b] \in History /\ version[b] \in Versions /\ IsFold(log, state[b], version[b])
        BY <1>0, <3>1 DEF TypeOK, StateIsFold
      <3> QED BY <2>1, <3>1, <3>2 DEF StateMoves
    <2>2. CASE Still
      BY <2>2 DEF StateMoves
    <2>3. CASE Reread(a)
      <3>1. a = b \/ Still
        BY <1>0, <2>3 DEF Reread, TypeOK
      <3> QED BY <1>0, <2>1, <2>2, <2>3, <3>1 DEF Reread, TypeOK
    <2>4. CASE InjectRead(a)
      <3>1. /\ a # b => Still
            /\ UNCHANGED <<state, version>> => Still
        BY <1>0, <2>4 DEF InjectRead, Resume, TypeOK
      <3>2. CASE /\ state' = [state EXCEPT ![a] = StateAfterRead(log, @, version[a])]
                 /\ version' = [version EXCEPT ![a] = VersionAfterRead(log, @)]
        BY <1>0, <2>1, <2>2, <3>1, <3>2 DEF TypeOK
      <3> QED BY <2>2, <2>4, <3>1, <3>2 DEF InjectRead
    <2> QED BY <1>2, <2>3, <2>4
  <1>3. ASSUME NEW a \in Actors, AppendOk(a)
        PROVE  StateMoves(b)
    BY <1>0, <1>3 DEF AppendOk, Resume, TypeOK, StateMoves
  <1>4. ASSUME NEW a \in Actors, Exit(a)
        PROVE  Still
    BY <1>0, <1>4 DEF Exit, TypeOK
  <1>5. ASSUME NEW a \in Actors, ActorStep(a),
               ~(Reread(a) \/ InjectRead(a) \/ AppendOk(a) \/ Exit(a))
        PROVE  Still
    <2>1. state' = state /\ version' = version
      BY <1>5 DEF ActorStep, RecvExecute, DecideNothing, DecideAppend, AppendConflict, GiveUp,
         RecvGetState, RecvInject, InjectOk, RecvShutdown, ChannelClosed, Leave
    <2>2. apc[a] # "gone" /\ \A c \in Actors : c # a => apc'[c] = apc[c]
      BY <1>0, <1>5 DEF ActorStep, RecvExecute, DecideNothing, DecideAppend, AppendConflict,
         GiveUp, RecvGetState, RecvInject, InjectOk, RecvShutdown, ChannelClosed, Leave,
         NextMessage, Resume, TypeOK
    <2> QED BY <2>1, <2>2
  <1>6. ASSUME NEW k \in Calls, CallStep(k), \A a \in Actors : ~SpawnCatchUp(k, a)
        PROVE  Still
    BY <1>6 DEF CallStep, GetCached, GetMiss, GetEvict, SpawnLoad, GetInsert, Send, SendFails,
       taskVars
  <1>7. CASE Failure
    <2>1. ASSUME NEW k \in Calls, SpawnFails(k) \/ Abandon(k)
          PROVE  Still
      BY <2>1 DEF SpawnFails, Abandon, taskVars
    <2>2. ASSUME NEW a \in Actors,
                 AppendFails(a) \/ RereadFails(a) \/ EncodeFails(a) \/ InjectFails(a) \/ IdleTimeout(a)
          PROVE  Still
      BY <1>0, <2>2 DEF AppendFails, RereadFails, EncodeFails, InjectFails, IdleTimeout, Leave, Resume, TypeOK
    <2>3. CASE Crash
      BY <2>3 DEF Crash
    <2> QED BY <1>7, <2>1, <2>2, <2>3 DEF Failure, StateMoves
  <1>8. ASSUME NEW k \in Calls, ServerAppend(k) \/ (\E r \in Requests : Issue(k, r))
        PROVE  Still
    BY <1>8 DEF ServerAppend, Issue, taskVars
  <1>9. ASSUME NEW e \in ForeignEvents, OtherAppend(e)
        PROVE  Still
    BY <1>9 DEF OtherAppend, taskVars
  <1>10. CASE UNCHANGED vars
    BY <1>10 DEF vars, StateMoves
  <1>11. ASSUME NEW k \in Calls, CallStep(k)
         PROVE  Still \/ \E a \in Actors : SpawnCatchUp(k, a)
    BY <1>6, <1>11
  <1>12. ASSUME NEW a \in Actors, ActorStep(a)
         PROVE  StateMoves(b)
    BY <1>2, <1>3, <1>4, <1>5, <1>12 DEF StateMoves
  <1> QED
    BY <1>1, <1>7, <1>8, <1>9, <1>10, <1>11, <1>12 DEF Next, StateMoves

\* StateIsFold and NotBeforeStart are preserved.
LEMMA StateFoldStep ==
    ASSUME FoldInv, TypeInv', [Next]_vars
    PROVE  StateIsFold' /\ NotBeforeStart'
  <1>0. /\ TypeOK /\ StateIsFold /\ NotBeforeStart /\ AppendInFlight /\ TypeInv
        /\ log \in Seq(Recorded) /\ log' \in Seq(Recorded)
    BY DEF FoldInv, PlaceInv, TypeInv, TypeOK
  <1>1. PICK m \in Seq(Recorded) : log' = log \o m
    BY <1>0, LogSteps
  <1>2. Len(log') >= Len(log) /\ Len(log) \in Nat /\ Len(log') \in Nat /\ Len(InitStream) \in Nat
    BY <1>0, <1>1, ConstantsAssumption
  <1>3. ASSUME NEW b \in Actors, apc'[b] # "gone"
        PROVE  IsFold(log', state'[b], version'[b]) /\ version'[b] >= LastVersion(InitStream)
    <2>0. StateMoves(b)
      BY <1>3, StateSteps
    <2>1. CASE apc[b] # "gone" /\ state'[b] = state[b] /\ version'[b] = version[b]
      <3>1. /\ state[b] \in History /\ version[b] \in Versions /\ IsFold(log, state[b], version[b])
            /\ version[b] >= LastVersion(InitStream)
        BY <1>0, <2>1 DEF TypeOK, StateIsFold, NotBeforeStart
      <3>2. IsFold(log', state[b], version[b])
        BY <1>0, <1>1, <3>1, FoldExtend
      <3> QED BY <2>1, <3>1, <3>2
    <2>2. ASSUME NEW s \in History, NEW v \in Versions, IsFold(log, s, v), log' = log,
                 state'[b] = StateAfterRead(log, s, v), version'[b] = VersionAfterRead(log, v)
          PROVE  IsFold(log', state'[b], version'[b]) /\ version'[b] >= LastVersion(InitStream)
      <3>1. IsFold(log', state'[b], version'[b]) /\ version'[b] = Len(log) - 1
        BY <1>0, <2>2, FoldRead
      <3> QED BY <1>0, <1>2, <3>1 DEF NotBeforeStart, LastVersion
    <2>3. CASE AppendOk(b)
      <3>1. /\ apc[b] = "append" /\ rpc[cur[b]].status = "ok"
            /\ log' = log
            /\ state'[b] = state[b] \o produced[b] /\ version'[b] = rpc[cur[b]].last
        BY <1>0, <2>3 DEF AppendOk, TypeOK
      <3>2. /\ state[b] \in History /\ version[b] \in Versions /\ produced[b] \in Seq(DomainEvents)
            /\ IsFold(log, state[b], version[b]) /\ version[b] >= LastVersion(InitStream)
        BY <1>0, <3>1 DEF TypeOK, StateIsFold, NotBeforeStart
      <3>3. /\ rpc[cur[b]].last = version[b] + Len(produced[b])
            /\ rpc[cur[b]].last < Len(log)
            /\ \A i \in 1 .. Len(produced[b]) :
                   log[version[b] + 1 + i] = Encode(produced[b][i], cur[b])
        BY <1>0, <3>1 DEF AppendInFlight
      <3>4. IsFold(log, state[b] \o produced[b], version[b] + Len(produced[b]))
        BY <1>0, <3>2, <3>3, FoldLocal
      <3>5. version[b] \in Int /\ Len(produced[b]) \in Nat /\ LastVersion(InitStream) \in Int
        BY <1>2, <3>2 DEF Versions, None, LastVersion
      <3> QED BY <3>1, <3>2, <3>3, <3>4, <3>5
    <2> QED BY <2>0, <2>1, <2>2, <2>3 DEF StateMoves
  <1>4. Len(log') >= Len(InitStream)
    BY <1>0, <1>2 DEF NotBeforeStart
  <1> QED BY <1>3, <1>4 DEF StateIsFold, NotBeforeStart

\* The snapshot file, and the copies loaded by starting actors, stay folds: an
\* actor only leaves after it has seen an event, so `unwrap_or(0)' is not used.
LEMMA SnapshotFoldStep ==
    ASSUME NoPhantomSnapshot, FoldInv, TypeInv', [Next]_vars
    PROVE  SnapshotIsFold'
  <1>0. /\ TypeOK /\ StateIsFold /\ NotBeforeStart /\ SnapshotIsFold /\ TypeInv
        /\ log \in Seq(Recorded) /\ log' \in Seq(Recorded)
    BY DEF FoldInv, PlaceInv, TypeInv, TypeOK
  <1>1. PICK m \in Seq(Recorded) : log' = log \o m
    BY <1>0, LogSteps
  <1> DEFINE Good(sn) == /\ sn.state \in History /\ sn.version \in Versions
                         /\ IsFold(log, sn.state, sn.version)
  <1>2. Good(snapshot) /\ Good(NoSnapshot) /\ \A k \in Calls : Good(seed[k])
    BY <1>0, FoldNothing, RecordTypes DEF TypeOK, Snapshots, SnapshotIsFold
  <1>3. ASSUME NEW a \in Actors, Exit(a)
        PROVE  Good(snapshot') /\ seed' = seed
    <2>1. /\ IsFold(log, state[a], version[a]) /\ version[a] >= LastVersion(InitStream)
          /\ state[a] \in History /\ version[a] \in Versions
      BY <1>0, <1>3 DEF Exit, StateIsFold, NotBeforeStart, TypeOK
    <2>2. CASE SnapshotsWritable
      <3>1. LastVersion(InitStream) >= 0
        BY <2>2, ConstantsAssumption DEF NoPhantomSnapshot, LastVersion
      <3>2. version[a] # None
        BY <2>1, <3>1, ConstantsAssumption DEF None, LastVersion, Versions
      <3>3. snapshot' \in {[state |-> state[a], version |-> version[a]], snapshot, NoSnapshot}
        BY <1>3, <2>2, <3>2 DEF Exit, SavedSnapshots
      <3>4. Good([state |-> state[a], version |-> version[a]])
        BY <2>1
      <3> QED BY <1>2, <1>3, <3>3, <3>4 DEF Exit
    <2>3. CASE ~SnapshotsWritable
      BY <1>2, <1>3, <2>3 DEF Exit, SavedSnapshots
    <2> QED BY <2>2, <2>3
  <1> DEFINE Fine == /\ snapshot' \in {snapshot, NoSnapshot}
                     /\ \A k \in Calls : seed'[k] \in {seed[k], snapshot, NoSnapshot}
  <1>4. ASSUME NEW k \in Calls, CallStep(k) \/ SpawnFails(k) \/ Abandon(k) \/ ServerAppend(k)
        PROVE  Fine
    BY <1>0, <1>4 DEF CallStep, GetCached, GetMiss, GetEvict, SpawnLoad, SpawnCatchUp, GetInsert,
       Send, SendFails, SpawnFails, Abandon, ServerAppend, callVars, TypeOK
  <1>5. ASSUME NEW a \in Actors, ActorStep(a), ~Exit(a)
        PROVE  Fine
    BY <1>5 DEF ActorStep, RecvExecute, DecideNothing, DecideAppend, AppendOk, AppendConflict,
       Reread, GiveUp, RecvGetState, RecvInject, InjectOk, InjectRead, RecvShutdown,
       ChannelClosed, Leave, callVars
  <1>6. ASSUME NEW a \in Actors,
               AppendFails(a) \/ RereadFails(a) \/ EncodeFails(a) \/ InjectFails(a) \/ IdleTimeout(a)
        PROVE  Fine
    BY <1>6 DEF AppendFails, RereadFails, EncodeFails, InjectFails, IdleTimeout, Leave, callVars
  <1>7. Crash => Fine
    BY DEF Crash
  <1>8. ASSUME NEW k \in Calls, NEW r \in Requests, Issue(k, r)
        PROVE  Fine
    BY <1>8 DEF Issue
  <1>9. ASSUME NEW e \in ForeignEvents, OtherAppend(e)
        PROVE  Fine
    BY <1>9 DEF OtherAppend, callVars
  <1>10. UNCHANGED vars => Fine
    BY DEF vars
  <1>11. Fine \/ \E a \in Actors : Exit(a)
    BY <1>4, <1>5, <1>6, <1>7, <1>8, <1>9, <1>10 DEF Next, Failure
  <1>12. Good(snapshot') /\ \A k \in Calls : Good(seed'[k])
    BY <1>2, <1>3, <1>11
  <1>13. ASSUME NEW sn, Good(sn)
         PROVE  IsFold(log', sn.state, sn.version)
    BY <1>0, <1>1, <1>13, FoldExtend
  <1> QED BY <1>12, <1>13 DEF SnapshotIsFold

\* What one step may do to an actor that waits for its append afterwards.
FlightMoves(b) ==
    \/ DecideAppend(b)
    \/ /\ apc[b] = "append" /\ cur'[b] = cur[b]
       /\ produced'[b] = produced[b] /\ version'[b] = version[b]
       /\ rpc'[cur[b]] = rpc[cur[b]] \/ ServerAppend(cur[b])

\* How one step may change the append that an actor awaits.
LEMMA FlightSteps ==
    ASSUME PlaceInv, [Next]_vars, NEW b \in Actors, apc'[b] = "append"
    PROVE  FlightMoves(b)
  <1>0. TypeOK /\ LocalsOK /\ OnePlace
    BY DEF PlaceInv, TypeInv
  <1> DEFINE Waits == /\ apc[b] = "append" /\ cur'[b] = cur[b]
                      /\ produced'[b] = produced[b] /\ version'[b] = version[b]
  <1>a. apc[b] = "append" => cur[b] \in Calls
    BY <1>0 DEF LocalsOK
  <1>1. ASSUME NEW k \in Calls, CallStep(k) \/ SpawnFails(k) \/ Abandon(k)
        PROVE  Waits /\ rpc' = rpc
    BY <1>0, <1>1 DEF CallStep, GetCached, GetMiss, GetEvict, SpawnLoad, SpawnCatchUp, GetInsert,
       Send, SendFails, SpawnFails, Abandon, taskVars, serverVars, TypeOK
  <1>2. ASSUME NEW a \in Actors, a # b, ActorStep(a)
        PROVE  Waits /\ rpc'[cur[b]] = rpc[cur[b]]
    <2>1. Waits
      BY <1>0, <1>2 DEF ActorStep, RecvExecute, DecideNothing, DecideAppend, AppendOk,
         AppendConflict, Reread, GiveUp, RecvGetState, RecvInject, InjectOk, InjectRead,
         RecvShutdown, ChannelClosed, Exit, Leave, NextMessage, Resume, TypeOK
    <2>2. CASE DecideAppend(a) \/ AppendOk(a) \/ AppendConflict(a) \/ InjectOk(a)
      <3>1. cur[a] \in Calls /\ cur[a] # cur[b]
        BY <1>0, <1>2, <2>1, <2>2, <1>a
           DEF DecideAppend, AppendOk, AppendConflict, InjectOk, LocalsOK, OnePlace
      <3>2. \E r : rpc' = [rpc EXCEPT ![cur[a]] = r]
        BY <2>2 DEF DecideAppend, AppendOk, AppendConflict, InjectOk
      <3> QED BY <1>0, <1>a, <2>1, <3>1, <3>2 DEF TypeOK
    <2>3. CASE RecvInject(a)
      <3>1. Head(mailbox[a]) \in Calls /\ Head(mailbox[a]) # cur[b]
        BY <1>0, <2>3 DEF RecvInject, NextMessage, OnePlace, TypeOK
      <3>2. \E r : rpc' = [rpc EXCEPT ![Head(mailbox[a])] = r]
        BY <2>3 DEF RecvInject
      <3> QED BY <1>0, <1>a, <2>1, <3>1, <3>2 DEF TypeOK
    <2>4. CASE RecvExecute(a) \/ DecideNothing(a) \/ Reread(a) \/ GiveUp(a) \/ RecvGetState(a)
               \/ InjectRead(a) \/ RecvShutdown(a) \/ ChannelClosed(a) \/ Exit(a)
      BY <2>1, <2>4 DEF RecvExecute, DecideNothing, Reread, GiveUp, RecvGetState, InjectRead,
         RecvShutdown, ChannelClosed, Exit, Leave, serverVars
    <2> QED BY <1>2, <2>2, <2>3, <2>4 DEF ActorStep
  <1>3. ASSUME ActorStep(b)
        PROVE  DecideAppend(b)
    BY <1>0, <1>3 DEF ActorStep, RecvExecute, DecideNothing, AppendOk, AppendConflict, Reread,
       GiveUp, RecvGetState, RecvInject, InjectOk, InjectRead, RecvShutdown, ChannelClosed, Exit,
       Leave, NextMessage, Resume, TypeOK
  <1>4. ASSUME NEW a \in Actors,
               AppendFails(a) \/ RereadFails(a) \/ EncodeFails(a) \/ InjectFails(a) \/ IdleTimeout(a)
        PROVE  Waits /\ rpc'[cur[b]] = rpc[cur[b]]
    <2>1. a # b /\ Waits
      BY <1>0, <1>4 DEF AppendFails, RereadFails, EncodeFails, InjectFails, IdleTimeout, Leave, Resume, TypeOK
    <2>2. CASE AppendFails(a) \/ InjectFails(a)
      <3>1. cur[a] # cur[b]
        BY <1>0, <1>a, <2>1, <2>2 DEF AppendFails, InjectFails, LocalsOK, OnePlace
      <3>2. \E r : rpc' = [rpc EXCEPT ![cur[a]] = r]
        BY <2>2 DEF AppendFails, InjectFails
      <3> QED BY <1>0, <1>a, <2>1, <3>1, <3>2 DEF TypeOK
    <2>3. CASE RereadFails(a) \/ EncodeFails(a) \/ IdleTimeout(a)
      BY <2>1, <2>3 DEF RereadFails, EncodeFails, IdleTimeout, Leave, serverVars
    <2> QED BY <1>4, <2>2, <2>3
  <1>5. ~Crash
    BY <1>0 DEF Crash
  <1>6. ASSUME NEW k \in Calls, ServerAppend(k)
        PROVE  FlightMoves(b)
    <2>1. Waits
      BY <1>6 DEF ServerAppend, taskVars
    <2>2. k = cur[b] \/ rpc'[cur[b]] = rpc[cur[b]]
      BY <1>0, <1>6, <1>a, <2>1 DEF ServerAppend, TypeOK
    <2> QED BY <1>6, <2>1, <2>2 DEF FlightMoves
  <1>7. ASSUME NEW k \in Calls, NEW r \in Requests, Issue(k, r)
        PROVE  Waits /\ rpc' = rpc
    BY <1>7 DEF Issue, taskVars, serverVars
  <1>8. ASSUME NEW e \in ForeignEvents, OtherAppend(e)
        PROVE  Waits /\ rpc' = rpc
    BY <1>8 DEF OtherAppend, taskVars
  <1>9. UNCHANGED vars => Waits /\ rpc' = rpc
    BY DEF vars
  <1>10. ASSUME NEW a \in Actors, ActorStep(a)
         PROVE  FlightMoves(b)
    BY <1>2, <1>3, <1>10 DEF FlightMoves
  <1>11. CASE Failure
    BY <1>1, <1>4, <1>5, <1>11 DEF Failure, FlightMoves
  <1> QED
    BY <1>1, <1>6, <1>7, <1>8, <1>9, <1>10, <1>11 DEF Next, FlightMoves

\* AppendInFlight is preserved: the precondition the server checks is the very
\* version the actor decided at.
LEMMA FlightStep ==
    ASSUME HandleOK, FoldInv, TypeInv', [Next]_vars
    PROVE  AppendInFlight'
  <1>0. /\ TypeOK /\ LocalsOK /\ AppendInFlight /\ TypeInv /\ PlaceInv
        /\ log \in Seq(Recorded) /\ log' \in Seq(Recorded)
    BY DEF FoldInv, PlaceInv, TypeInv, TypeOK
  <1>1. PICK m \in Seq(Recorded) : log' = log \o m
    BY <1>0, LogSteps
  <1>2. /\ Len(log) \in Nat /\ Len(log') \in Nat /\ Len(log') >= Len(log)
        /\ \A i \in 1 .. Len(log) : log'[i] = log[i]
    BY <1>0, <1>1
  <1> DEFINE Flight(b, l, r) ==
          /\ r.status \in {"sent", "ok", "conflict"}
          /\ r.status = "sent" =>
                 /\ r.expected = ExpectedVersion(version[b])
                 /\ r.events = EncodeAll(produced[b], cur[b])
          /\ r.status = "ok" =>
                 /\ r.last = version[b] + Len(produced[b])
                 /\ r.last < Len(l)
                 /\ \A i \in 1 .. Len(produced[b]) :
                        l[version[b] + 1 + i] = Encode(produced[b][i], cur[b])
  <1>3. ASSUME NEW b \in Actors, apc'[b] = "append"
        PROVE  Flight(b, log, rpc[cur[b]])'
    <2>0. FlightMoves(b)
      BY <1>0, <1>3, FlightSteps
    <2>1. CASE DecideAppend(b)
      <3>1. /\ cur'[b] = cur[b] /\ version'[b] = version[b] /\ cur[b] \in Calls
            /\ apc[b] = "decide"
        BY <1>0, <2>1 DEF DecideAppend, LocalsOK, TypeOK
      <3>2. req[cur[b]].kind = "execute" /\ state[b] \in History /\ version[b] \in Versions
        BY <1>0, <3>1 DEF LocalsOK, TypeOK
      <3>3. req[cur[b]].arg \in Commands
        BY <1>0, <3>1, <3>2, CommandOf DEF TypeOK
      <3>4. Handle(state[b], req[cur[b]].arg).events \in Seq(DomainEvents)
        BY <3>2, <3>3 DEF HandleOK
      <3>5. /\ produced'[b] = Handle(state[b], req[cur[b]].arg).events
            /\ rpc'[cur[b]] = Sent(ExpectedVersion(version[b]), EncodeAll(produced'[b], cur[b]))
        BY <1>0, <2>1, <3>1 DEF DecideAppend, TypeOK
      <3>6. EncodeAll(produced'[b], cur[b]) \in Seq(Recorded)
        BY <3>1, <3>4, <3>5, EncodeType
      <3>7. /\ rpc'[cur[b]].status = "sent"
            /\ rpc'[cur[b]].expected = ExpectedVersion(version[b])
            /\ rpc'[cur[b]].events = EncodeAll(produced'[b], cur[b])
        BY <3>2, <3>5, <3>6, RecordTypes
      <3> QED BY <3>1, <3>7
    <2>2. CASE /\ apc[b] = "append" /\ cur'[b] = cur[b]
               /\ produced'[b] = produced[b] /\ version'[b] = version[b]
               /\ rpc'[cur[b]] = rpc[cur[b]] \/ ServerAppend(cur[b])
      <3>1. /\ Flight(b, log, rpc[cur[b]])
            /\ version[b] \in Versions /\ version[b] \in Int /\ version[b] + 1 \in Nat
            /\ produced[b] \in Seq(DomainEvents) /\ cur[b] \in Calls
            /\ Len(produced[b]) \in Nat
        BY <1>0, <2>2 DEF AppendInFlight, TypeOK, LocalsOK, Versions, None
      <3>2. CASE rpc'[cur[b]] = rpc[cur[b]]
        <4>1. CASE rpc[cur[b]].status # "ok"
          BY <2>2, <3>1, <3>2, <4>1
        <4>2. CASE rpc[cur[b]].status = "ok"
          <5>1. /\ rpc[cur[b]].last = version[b] + Len(produced[b])
                /\ rpc[cur[b]].last < Len(log)
            BY <3>1, <4>2
          <5>2. \A i \in 1 .. Len(produced[b]) : version[b] + 1 + i \in 1 .. Len(log)
            BY <1>2, <3>1, <5>1, SMTT(30)
          <5>3. \A i \in 1 .. Len(produced[b]) :
                    log'[version[b] + 1 + i] = Encode(produced[b][i], cur[b])
            BY <1>2, <3>1, <4>2, <5>2
          <5>4. rpc[cur[b]].last < Len(log')
            BY <1>2, <3>1, <5>1
          <5> QED BY <2>2, <3>2, <4>2, <5>1, <5>3, <5>4
        <4> QED BY <4>1, <4>2
      <3>3. CASE ServerAppend(cur[b])
        <4>1. CASE /\ Accepts(log, rpc[cur[b]].expected)
                   /\ log' = log \o rpc[cur[b]].events
                   /\ rpc' = [rpc EXCEPT ![cur[b]] = Accepted(LastVersion(log'))]
          <5>1. /\ rpc[cur[b]].expected = ExpectedVersion(version[b])
                /\ rpc[cur[b]].events = EncodeAll(produced[b], cur[b])
            BY <3>1, <3>3 DEF ServerAppend
          <5>2. Len(log) = version[b] + 1
            BY <1>2, <3>1, <4>1, <5>1
               DEF Accepts, ExpectedVersion, NoStream, Exact, LastVersion, None
          <5>3. /\ EncodeAll(produced[b], cur[b]) \in Seq(Recorded)
                /\ Len(EncodeAll(produced[b], cur[b])) = Len(produced[b])
                /\ \A i \in 1 .. Len(produced[b]) :
                       EncodeAll(produced[b], cur[b])[i] = Encode(produced[b][i], cur[b])
            BY <3>1, EncodeType
          <5>4. /\ Len(log') = Len(log) + Len(produced[b])
                /\ \A i \in 1 .. Len(produced[b]) :
                       log'[Len(log) + i] = Encode(produced[b][i], cur[b])
            <6> DEFINE es == EncodeAll(produced[b], cur[b])
            <6>1. es \in Seq(Recorded) /\ Len(es) = Len(produced[b])
              BY <5>3
            <6>2. \A i \in 1 .. Len(produced[b]) : es[i] = Encode(produced[b][i], cur[b])
              BY <5>3
            <6>3. log' = log \o es
              BY <4>1, <5>1
            <6> HIDE DEF es
            <6>4. /\ Len(log \o es) = Len(log) + Len(es)
                  /\ \A i \in 1 .. Len(es) : (log \o es)[Len(log) + i] = es[i]
              BY <1>0, <6>1, StreamConcat
            <6> QED BY <6>1, <6>2, <6>3, <6>4
          <5>5. LastVersion(log') = version[b] + Len(produced[b]) /\ LastVersion(log') \in Versions
            BY <3>1, <5>2, <5>4, SMTT(30) DEF LastVersion, Versions, None
          <5>6. rpc'[cur[b]].status = "ok" /\ rpc'[cur[b]].last = LastVersion(log')
            BY <1>0, <3>1, <4>1, <5>5, RecordTypes, SMTT(30) DEF TypeOK
          <5>7. rpc'[cur[b]].last < Len(log')
            BY <1>2, <5>6 DEF LastVersion
          <5> QED BY <2>2, <5>2, <5>4, <5>5, <5>6, <5>7
        <4>2. CASE rpc' = [rpc EXCEPT ![cur[b]] = FailedPrecondition]
          <5>1. rpc'[cur[b]].status = "conflict"
            BY <1>0, <3>1, <4>2, RecordTypes DEF TypeOK
          <5> QED BY <2>2, <5>1
        <4> QED BY <3>3, <4>1, <4>2 DEF ServerAppend
      <3> QED BY <2>2, <3>2, <3>3
    <2> QED BY <2>0, <2>1, <2>2 DEF FlightMoves
  <1> QED BY <1>3 DEF AppendInFlight
-----------------------------------------------------------------------------
\* Every initial state satisfies the invariant: nothing runs, nothing has been
\* sent, and the fold of no events is the default aggregate.
LEMMA InitInv ==
    ASSUME Init
    PROVE  FoldInv
  <1>1. log \in Seq(Recorded)
    <2> DEFINE Foreign == [type : EventTypes, payload : Payloads, by : {Other}]
    <2>1. \A r \in Foreign : r \in Recorded
      BY DEF Recorded
    <2>2. log \in Seq(Foreign)
      BY ConstantsAssumption DEF Init
    <2> HIDE DEF Foreign
    <2>3. Len(log) \in Nat /\ \A i \in 1 .. Len(log) : log[i] \in Foreign
      BY <2>2
    <2>4. log = [i \in 1 .. Len(log) |-> log[i]]
      BY <2>2
    <2>5. \A i \in 1 .. Len(log) : log[i] \in Recorded
      BY <2>1, <2>3
    <2> QED BY <2>3, <2>4, <2>5
  <1>2. TypeOK
    <2>1. NoReply \in Replies
      BY RecordTypes DEF NoReply, Replies, Tags
    <2>2. 0 \in 0 .. MAX_RETRIES
      BY ConstantsAssumption
    <2>3. <<>> \in Seq(Calls) /\ <<>> \in Seq(DomainEvents)
      OBVIOUS
    <2> QED BY <1>1, <2>1, <2>2, <2>3, RecordTypes DEF Init, TypeOK, ActorPcs, CallPcs
  <1>3. LocalsOK
    BY ConstantsAssumption DEF Init, LocalsOK
  <1>4. HandlesOK
    BY DEF Init, HandlesOK
  <1>5. OnePlace
    BY ConstantsAssumption DEF Init, OnePlace
  <1>6. StateIsFold /\ AppendInFlight
    BY DEF Init, StateIsFold, AppendInFlight
  <1>7. SnapshotIsFold
    <2>1. IsFold(log, NoSnapshot.state, NoSnapshot.version)
      BY <1>1, FoldNothing
    <2> QED BY <2>1 DEF Init, SnapshotIsFold
  <1>8. NotBeforeStart
    BY <1>1 DEF Init, NotBeforeStart
  <1> QED BY <1>2, <1>3, <1>4, <1>5, <1>6, <1>7, <1>8 DEF FoldInv, PlaceInv, TypeInv

\* One step keeps the whole invariant.
LEMMA FoldStep ==
    ASSUME HandleOK, NoPhantomSnapshot, FoldInv, [Next]_vars
    PROVE  FoldInv'
  <1>1. TypeInv /\ PlaceInv
    BY DEF FoldInv, PlaceInv
  <1>2. TypeInv'
    BY <1>1, TypeStep
  <1>3. OnePlace'
    BY <1>1, PlaceStep
  <1>4. StateIsFold' /\ NotBeforeStart'
    BY <1>2, StateFoldStep
  <1>5. SnapshotIsFold'
    BY <1>2, SnapshotFoldStep
  <1>6. AppendInFlight'
    BY <1>2, FlightStep
  <1> QED BY <1>2, <1>3, <1>4, <1>5, <1>6 DEF FoldInv, PlaceInv

\* Type correctness of the write side for every aggregate whose handle() is
\* total, any number of calls, actors, retries and mailbox slots.
THEOREM TypeCorrect ==
    ASSUME HandleOK
    PROVE  Spec => []TypeOK
  <1>1. Init => TypeInv
    BY InitInv DEF FoldInv, PlaceInv
  <1>2. TypeInv /\ [Next]_vars => TypeInv'
    BY TypeStep
  <1>3. TypeInv => TypeOK
    BY DEF TypeInv
  <1> QED BY <1>1, <1>2, <1>3, PTL DEF Spec

\* What an actor holds is the fold of the stream up to its version, and so is
\* every snapshot, in every reachable state, provided no snapshot is taken of
\* a stream without events.
THEOREM FoldCorrect ==
    ASSUME HandleOK, NoPhantomSnapshot
    PROVE  Spec => [](StateIsFold /\ SnapshotIsFold)
  <1>1. Init => FoldInv
    BY InitInv
  <1>2. FoldInv /\ [Next]_vars => FoldInv'
    BY FoldStep
  <1>3. FoldInv => StateIsFold /\ SnapshotIsFold
    BY DEF FoldInv
  <1> QED BY <1>1, <1>2, <1>3, PTL DEF Spec

\* A snapshot on disk, or loaded by an actor that starts, is the fold of the stream
\* up to its version, whichever actors saved it (actor.rs:385-418, snapshot.rs:64-120).
THEOREM SnapshotsAreFolds ==
    ASSUME HandleOK, NoPhantomSnapshot
    PROVE  Spec => []SnapshotIsFold
  <1>1. StateIsFold /\ SnapshotIsFold => SnapshotIsFold
    OBVIOUS
  <1> QED BY <1>1, FoldCorrect, PTL

=============================================================================
