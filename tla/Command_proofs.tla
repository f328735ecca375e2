--------------------------- MODULE Command_proofs ---------------------------
(***************************************************************************)
(* The promises of the write side to its callers, for every value of the   *)
(* constants, on top of Actor_proofs:                                      *)
(*   1. what a step can do to one actor (ActorMoves), to the trace of one  *)
(*      call on the server (TraceMoves) and to its reply (CallMoves);      *)
(*   2. from these, that requests are decided on a prefix of the stream    *)
(*      and leave one trace (RequestsStep, AppendsStep, AnswersStep), that *)
(*      retries are earned (RetriesStep), that a command is atomic         *)
(*      (AtomicStep) and that replies tell the truth (RepliesStep);        *)
(*   3. the theorems, and the refinement of CommandLog.                    *)
(***************************************************************************)
EXTENDS Actor_proofs

-----------------------------------------------------------------------------
(* One actor                                                                *)

\* A step that is not about actor b.
Still(b) ==
    /\ apc'[b] = apc[b] /\ cur'[b] = cur[b] /\ state'[b] = state[b]
    /\ version'[b] = version[b] /\ produced'[b] = produced[b]
    /\ base'[b] = base[b] /\ attempt'[b] = attempt[b]

\* A step of actor b itself, or of something it awaited that failed.
Own(b) ==
    \/ ActorStep(b)
    \/ EncodeFails(b) \/ AppendFails(b) \/ RereadFails(b) \/ InjectFails(b) \/ IdleTimeout(b)

\* What a step can do to actor b: nothing, b's own code, its start, its end.
ActorMoves(b) ==
    \/ Still(b)
    \/ Own(b)
    \/ \E k \in Calls : SpawnCatchUp(k, b)
    \/ Crash

\* Every step is one of these for every actor.
LEMMA ActorSteps ==
    ASSUME TypeInv, [Next]_vars, NEW b \in Actors
    PROVE  ActorMoves(b)
  <1>0. TypeOK
    BY DEF TypeInv
  <1>1. ASSUME NEW k \in Calls, CallStep(k) \/ SpawnFails(k) \/ Abandon(k)
        PROVE  Still(b) \/ SpawnCatchUp(k, b)
    <2>1. ASSUME NEW a \in Actors, SpawnCatchUp(k, a), a # b
          PROVE  Still(b)
      BY <1>0, <2>1 DEF SpawnCatchUp, Still, TypeOK
    <2>2. CASE \A a \in Actors : ~SpawnCatchUp(k, a)
      BY <1>1, <2>2 DEF CallStep, GetCached, GetMiss, GetEvict, SpawnLoad, GetInsert, Send,
         SendFails, SpawnFails, Abandon, taskVars, Still
    <2> QED BY <2>1, <2>2
  <1>2. ASSUME NEW a \in Actors, a # b, ActorStep(a)
        PROVE  Still(b)
    <2>1. CASE RecvExecute(a) \/ RecvInject(a) \/ RecvGetState(a) \/ RecvShutdown(a)
      BY <1>0, <1>2, <2>1 DEF RecvExecute, RecvInject, RecvGetState, RecvShutdown, Leave, Still, TypeOK
    <2>2. CASE DecideNothing(a) \/ AppendOk(a) \/ GiveUp(a) \/ InjectRead(a)
      BY <1>0, <1>2, <2>2 DEF DecideNothing, AppendOk, GiveUp, InjectRead, Resume, Still, TypeOK
    <2>3. CASE DecideAppend(a) \/ AppendConflict(a) \/ Reread(a) \/ InjectOk(a)
               \/ ChannelClosed(a) \/ Exit(a)
      BY <1>0, <1>2, <2>3 DEF DecideAppend, AppendConflict, Reread, InjectOk, ChannelClosed,
         Exit, Leave, Still, TypeOK
    <2> QED BY <1>2, <2>1, <2>2, <2>3 DEF ActorStep
  <1>3. ASSUME NEW a \in Actors, a # b,
               \/ EncodeFails(a) \/ AppendFails(a) \/ RereadFails(a) \/ InjectFails(a)
               \/ IdleTimeout(a)
        PROVE  Still(b)
    BY <1>0, <1>3 DEF EncodeFails, AppendFails, RereadFails, InjectFails, IdleTimeout, Leave,
       Resume, Still, TypeOK
  <1>4. ASSUME NEW k \in Calls, ServerAppend(k) \/ (\E r \in Requests : Issue(k, r))
        PROVE  Still(b)
    BY <1>4 DEF ServerAppend, Issue, taskVars, Still
  <1>5. ASSUME NEW e \in ForeignEvents, OtherAppend(e)
        PROVE  Still(b)
    BY <1>5 DEF OtherAppend, taskVars, Still
  <1>6. UNCHANGED vars => Still(b)
    BY DEF vars, Still
  <1>7. CASE Failure
    BY <1>1, <1>3, <1>7 DEF Failure, ActorMoves, Own
  <1> QED
    BY <1>1, <1>2, <1>4, <1>5, <1>6, <1>7 DEF Next, ActorMoves, Own

-----------------------------------------------------------------------------
(* One call's trace on the server                                           *)

\* The stream grows, if at all, by events of others, and call k's request is
\* left alone or forgotten.
Unrelated(k) ==
    /\ \E m \in Seq(Recorded) :
           log' = log \o m /\ \A i \in 1 .. Len(m) : m[i].by # k
    /\ rpc'[k] = rpc[k] \/ (rpc'[k] = NoRpc /\ rpc[k].status # "sent")

\* What a step can do to the trace of call k: nothing, or the server carries out
\* its append, or an actor that has its message sends one.
TraceMoves(k) ==
    \/ Unrelated(k)
    \/ ServerAppend(k)
    \/ \E a \in Actors : cur[a] = k /\ DecideAppend(a)
    \/ \E a \in Actors : mailbox[a] # <<>> /\ Head(mailbox[a]) = k /\ RecvInject(a)

\* A request under way carries events of its own call only.
LEMMA OwnEvents ==
    ASSUME HandleOK, TypeInv, RequestsOK, NEW k \in Calls, rpc[k].status = "sent"
    PROVE  /\ rpc[k].events \in Seq(Recorded)
           /\ \A i \in 1 .. Len(rpc[k].events) : rpc[k].events[i].by = k
  <1>0. TypeOK /\ log \in Seq(Recorded) /\ Len(log) \in Nat /\ req[k] \in Requests \cup {NoRequest}
    BY DEF TypeInv, TypeOK
  <1>1. rpc[k].events \in Seq(Recorded)
    BY <1>0 DEF TypeOK, Rpcs
  <1>2. req[k].kind \in {"execute", "inject"}
    BY DEF RequestsOK
  <1>3. CASE req[k].kind = "inject"
    <2>1. rpc[k].events = <<Stamp(req[k].arg, k)>>
      BY <1>3 DEF RequestsOK
    <2> QED BY <1>1, <2>1 DEF Stamp
  <1>4. CASE req[k].kind = "execute"
    <2>1. PICK v \in None .. LastVersion(log) :
              rpc[k].events = EncodeAll(Handle(Visit(SubSeq(log, 1, v + 1)), req[k].arg).events, k)
      BY <1>4 DEF RequestsOK
    <2>2. SubSeq(log, 1, v + 1) \in Seq(Recorded)
      BY <1>0 DEF None, LastVersion
    <2>3. Visit(SubSeq(log, 1, v + 1)) \in History
      BY <2>2, VisitType
    <2>4. req[k].arg \in Commands
      BY <1>0, <1>4, CommandOf
    <2>5. Handle(Visit(SubSeq(log, 1, v + 1)), req[k].arg).events \in Seq(DomainEvents)
      BY <2>3, <2>4 DEF HandleOK
    <2>6. PICK ds \in Seq(DomainEvents) : rpc[k].events = EncodeAll(ds, k)
      BY <2>1, <2>5
    <2>7. \A i \in 1 .. Len(rpc[k].events) : rpc[k].events[i] = Encode(ds[i], k)
      BY <2>6, EncodeType
    <2>8. \A d : Encode(d, k).by = k
      BY DEF Encode
    <2> QED BY <1>1, <2>7, <2>8
  <1> QED BY <1>2, <1>3, <1>4

\* Every step is one of these for every call.
LEMMA TraceSteps ==
    ASSUME HandleOK, TypeInv, RequestsOK, [Next]_vars, NEW k \in Calls
    PROVE  TraceMoves(k)
  <1>0. TypeOK /\ log \in Seq(Recorded) /\ <<>> \in Seq(Recorded) /\ log \o <<>> = log
    BY DEF TypeInv, TypeOK
  <1>1. ASSUME log' = log, rpc'[k] = rpc[k] \/ (rpc'[k] = NoRpc /\ rpc[k].status # "sent")
        PROVE  TraceMoves(k)
    <2>1. log' = log \o <<>> /\ \A i \in 1 .. Len(<<>>) : <<>>[i].by # k
      BY <1>0, <1>1
    <2> QED BY <1>0, <1>1, <2>1 DEF TraceMoves, Unrelated
  <1>2. ASSUME NEW j \in Calls, ServerAppend(j), j # k
        PROVE  TraceMoves(k)
    <2>1. rpc'[k] = rpc[k] /\ rpc[j].status = "sent"
      BY <1>0, <1>2 DEF ServerAppend, TypeOK
    <2>2. CASE log' = log \o rpc[j].events
      <3>1. /\ rpc[j].events \in Seq(Recorded)
            /\ \A i \in 1 .. Len(rpc[j].events) : rpc[j].events[i].by # k
        BY <1>2, <2>1, OwnEvents
      <3> QED BY <2>1, <2>2, <3>1 DEF TraceMoves, Unrelated
    <2> QED BY <1>1, <1>2, <2>1, <2>2 DEF ServerAppend
  <1>3. ASSUME NEW e \in ForeignEvents, OtherAppend(e)
        PROVE  TraceMoves(k)
    <2>1. Stamp(e, Other) \in Recorded /\ Stamp(e, Other).by # k
      BY StampType, ConstantsAssumption DEF Stamp
    <2>2. <<Stamp(e, Other)>> \in Seq(Recorded) /\ log' = log \o <<Stamp(e, Other)>>
      BY <1>0, <1>3, <2>1 DEF OtherAppend
    <2>3. \A i \in 1 .. Len(<<Stamp(e, Other)>>) : <<Stamp(e, Other)>>[i].by # k
      BY <2>1
    <2>4. rpc' = rpc
      BY <1>3 DEF OtherAppend
    <2> QED BY <2>2, <2>3, <2>4 DEF TraceMoves, Unrelated
  <1>4. ASSUME NEW j \in Calls,
               CallStep(j) \/ SpawnFails(j) \/ Abandon(j) \/ (\E r \in Requests : Issue(j, r))
        PROVE  log' = log /\ rpc' = rpc
    BY <1>4 DEF CallStep, GetCached, GetMiss, GetEvict, SpawnLoad, SpawnCatchUp, GetInsert, Send,
       SendFails, SpawnFails, Abandon, Issue, serverVars
  <1>5. ASSUME NEW a \in Actors, ActorStep(a)
        PROVE  TraceMoves(k)
    <2>1. CASE DecideAppend(a)
      <3>1. CASE cur[a] = k
        BY <2>1, <3>1 DEF TraceMoves
      <3>2. CASE cur[a] # k
        BY <1>0, <1>1, <2>1, <3>2 DEF DecideAppend, TypeOK
      <3> QED BY <3>1, <3>2
    <2>2. CASE RecvInject(a)
      <3>1. mailbox[a] # <<>>
        BY <2>2 DEF RecvInject, NextMessage
      <3>2. CASE Head(mailbox[a]) = k
        BY <2>2, <3>1, <3>2 DEF TraceMoves
      <3>3. CASE Head(mailbox[a]) # k
        BY <1>0, <1>1, <2>2, <3>3 DEF RecvInject, TypeOK
      <3> QED BY <3>2, <3>3
    <2>3. CASE AppendOk(a) \/ AppendConflict(a) \/ InjectOk(a)
      BY <1>0, <1>1, <2>3 DEF AppendOk, AppendConflict, InjectOk, TypeOK
    <2>4. CASE RecvExecute(a) \/ DecideNothing(a) \/ Reread(a) \/ GiveUp(a) \/ RecvGetState(a)
               \/ InjectRead(a) \/ RecvShutdown(a) \/ ChannelClosed(a) \/ Exit(a)
      <3>1. log' = log /\ rpc' = rpc
        BY <2>4 DEF RecvExecute, DecideNothing, Reread, GiveUp, RecvGetState, InjectRead,
           RecvShutdown, ChannelClosed, Exit, Leave, serverVars
      <3> QED BY <1>1, <3>1
    <2> QED BY <1>5, <2>1, <2>2, <2>3, <2>4 DEF ActorStep
  <1>6. ASSUME NEW a \in Actors,
               \/ EncodeFails(a) \/ AppendFails(a) \/ RereadFails(a) \/ InjectFails(a)
               \/ IdleTimeout(a)
        PROVE  TraceMoves(k)
    <2>1. CASE AppendFails(a) \/ InjectFails(a)
      BY <1>0, <1>1, <2>1 DEF AppendFails, InjectFails, Forget, TypeOK
    <2>2. CASE EncodeFails(a) \/ RereadFails(a) \/ IdleTimeout(a)
      BY <1>1, <2>2 DEF EncodeFails, RereadFails, IdleTimeout, Leave, serverVars
    <2> QED BY <1>6, <2>1, <2>2
  <1>7. Crash => TraceMoves(k)
    BY <1>1 DEF Crash, Forget
  <1>8. UNCHANGED vars => TraceMoves(k)
    BY <1>1 DEF vars
  <1>9. ASSUME NEW j \in Calls, ServerAppend(j)
        PROVE  TraceMoves(k)
    BY <1>2, <1>9 DEF TraceMoves
  <1> QED
    BY <1>1, <1>3, <1>4, <1>5, <1>6, <1>7, <1>8, <1>9 DEF Next, Failure


-----------------------------------------------------------------------------
(* One call                                                                 *)

\* An actor answers the call it has taken.
Answers(a, k) ==
    \/ /\ DecideNothing(a)
       /\ \E t \in {"ok", "domain"} :
              /\ t = "ok" <=> Handle(state[a], req[k].arg).ok
              /\ reply'[k] = Reply(t, <<>>, a, version[a])
    \/ EncodeFails(a) /\ reply'[k] = Reply("io", <<>>, a, version[a])
    \/ AppendOk(a) /\ reply'[k] = Reply("ok", produced[a], a, rpc[k].last)
    \/ GiveUp(a) /\ reply'[k] = Reply("wrong_expected_version", <<>>, a, version[a])
    \/ InjectRead(a) /\ reply'[k] = Reply("injected", <<>>, a, version[a])
    \/ reply'[k] = Reply("transport", <<>>, a, version[a])

\* Call k returns: it was refused before it had sent anything, or gave up waiting,
\* or its message was dropped with the mailbox, or an actor answered it.
Returns(k) ==
    /\ cpc[k] \notin {"new", "done"} /\ cpc'[k] = "done"
    /\ \/ \E t \in {"sent", "abandoned", "crashed"} : reply'[k] = Refusal(t)
       \/ /\ cpc[k] # "queued" /\ UNCHANGED <<log, rpc, mailbox, cur>>
          /\ \E t \in {"spawn_error", "actor_gone"} : reply'[k] = Refusal(t)
       \/ \E a \in Actors :
              /\ Exit(a) /\ reply'[k] = Refusal("actor_gone")
              /\ \E i \in 1 .. Len(mailbox[a]) : mailbox[a][i] = k
       \/ \E a \in Actors : cur[a] = k /\ Answers(a, k)
       \/ \E a \in Actors :
              /\ RecvGetState(a) /\ mailbox[a][1] = k
              /\ reply'[k] = Reply("state", state[a], a, version[a])

\* What a step can do to call k: a call that is settled stays so, keeps its
\* request, and is answered at most once.
CallMoves(k) ==
    /\ cpc[k] \in Settled => cpc'[k] \in Settled
    /\ cpc[k] # "new" => req'[k] = req[k] /\ cpc'[k] # "new"
    /\ \/ reply'[k] = reply[k] /\ (cpc'[k] = "done" <=> cpc[k] = "done")
       \/ Returns(k)

\* An answer reaches a caller that still waits, and nobody else.
LEMMA AnswerReaches ==
    ASSUME TypeOK, NEW k \in Calls, NEW j \in Calls, NEW r, Answer(j, r), req' = req
    PROVE  /\ cpc[k] \in Settled => cpc'[k] \in Settled
           /\ cpc[k] # "new" => req'[k] = req[k] /\ cpc'[k] # "new"
           /\ \/ reply'[k] = reply[k] /\ cpc'[k] = cpc[k]
              \/ k = j /\ cpc[k] = "queued" /\ cpc'[k] = "done" /\ reply'[k] = r
  <1>1. CASE cpc[j] = "queued"
    BY <1>1 DEF Answer, TypeOK, Settled
  <1>2. CASE cpc[j] # "queued"
    BY <1>2 DEF Answer
  <1> QED BY <1>1, <1>2

\* Every step is one of these for every call.
LEMMA CallSteps ==
    ASSUME TypeInv, [Next]_vars, NEW k \in Calls
    PROVE  CallMoves(k)
  <1>0. TypeOK /\ LocalsOK
    BY DEF TypeInv
  <1>1. ASSUME cpc'[k] = cpc[k], reply'[k] = reply[k], req'[k] = req[k]
        PROVE  CallMoves(k)
    BY <1>1 DEF CallMoves
  <1>2. ASSUME NEW j \in Calls, NEW r \in Requests, Issue(j, r)
        PROVE  CallMoves(k)
    BY <1>0, <1>2 DEF Issue, TypeOK, CallMoves, Settled
  <1>3. ASSUME NEW j \in Calls, CallStep(j)
        PROVE  CallMoves(k)
    <2>1. CASE GetCached(j) \/ GetMiss(j) \/ GetEvict(j) \/ SpawnLoad(j) \/ GetInsert(j)
               \/ \E a \in Actors : SpawnCatchUp(j, a)
      BY <1>0, <2>1 DEF GetCached, GetMiss, GetEvict, SpawnLoad, GetInsert, SpawnCatchUp, TypeOK,
         CallMoves, Settled
    <2>2. CASE Send(j)
      BY <1>0, <2>2 DEF Send, TypeOK, CallMoves, Settled, Returns
    <2>3. CASE SendFails(j)
      BY <1>0, <2>3 DEF SendFails, TypeOK, CallMoves, Settled, Returns, serverVars, taskVars
    <2> QED BY <1>3, <2>1, <2>2, <2>3 DEF CallStep
  <1>4. ASSUME NEW j \in Calls, SpawnFails(j) \/ Abandon(j)
        PROVE  CallMoves(k)
    BY <1>0, <1>4 DEF SpawnFails, Abandon, TypeOK, CallMoves, Settled, Returns, serverVars, taskVars
  <1>5. ASSUME NEW a \in Actors,
               \/ RecvExecute(a) \/ DecideAppend(a) \/ AppendConflict(a) \/ Reread(a)
               \/ RecvInject(a) \/ InjectOk(a) \/ RecvShutdown(a) \/ ChannelClosed(a)
               \/ IdleTimeout(a)
        PROVE  CallMoves(k)
    <2>1. UNCHANGED <<cpc, reply, req>>
      BY <1>5 DEF RecvExecute, DecideAppend, AppendConflict, Reread, RecvInject, InjectOk,
         RecvShutdown, ChannelClosed, IdleTimeout, Leave, callVars
    <2> QED BY <1>1, <2>1
  <1>6. ASSUME NEW a \in Actors,
               \/ DecideNothing(a) \/ EncodeFails(a) \/ AppendOk(a) \/ AppendFails(a)
               \/ RereadFails(a) \/ GiveUp(a) \/ InjectFails(a) \/ InjectRead(a)
        PROVE  CallMoves(k)
    <2>1. cur[a] \in Calls /\ req' = req
      BY <1>0, <1>6 DEF LocalsOK, DecideNothing, EncodeFails, AppendOk, AppendFails, RereadFails,
         GiveUp, InjectFails, InjectRead
    <2>2. CASE DecideNothing(a)
      <3>1. PICK t \in {"ok", "domain"} :
                /\ t = "ok" <=> Handle(state[a], req[cur[a]].arg).ok
                /\ Answer(cur[a], Reply(t, <<>>, a, version[a]))
        BY <2>2 DEF DecideNothing
      <3>2. k = cur[a] /\ reply'[k] = Reply(t, <<>>, a, version[a]) => Answers(a, k)
        BY <2>2, <3>1 DEF Answers
      <3> QED BY <1>0, <2>1, <3>1, <3>2, AnswerReaches DEF CallMoves, Returns
    <2>3. CASE AppendOk(a)
      <3>1. Answer(cur[a], Reply("ok", produced[a], a, rpc[cur[a]].last))
        BY <2>3 DEF AppendOk
      <3>2. k = cur[a] /\ reply'[k] = Reply("ok", produced[a], a, rpc[cur[a]].last) => Answers(a, k)
        BY <2>3 DEF Answers
      <3> QED BY <1>0, <2>1, <3>1, <3>2, AnswerReaches DEF CallMoves, Returns
    <2>4. CASE EncodeFails(a)
      <3>1. Answer(cur[a], Reply("io", <<>>, a, version[a]))
        BY <2>4 DEF EncodeFails
      <3>2. k = cur[a] /\ reply'[k] = Reply("io", <<>>, a, version[a]) => Answers(a, k)
        BY <2>4 DEF Answers
      <3> QED BY <1>0, <2>1, <3>1, <3>2, AnswerReaches DEF CallMoves, Returns
    <2>5. CASE GiveUp(a)
      <3>1. Answer(cur[a], Reply("wrong_expected_version", <<>>, a, version[a]))
        BY <2>5 DEF GiveUp
      <3>2. k = cur[a] /\ reply'[k] = Reply("wrong_expected_version", <<>>, a, version[a])
                => Answers(a, k)
        BY <2>5 DEF Answers
      <3> QED BY <1>0, <2>1, <3>1, <3>2, AnswerReaches DEF CallMoves, Returns
    <2>6. CASE InjectRead(a)
      <3>1. Answer(cur[a], Reply("injected", <<>>, a, version[a]))
        BY <2>6 DEF InjectRead
      <3>2. k = cur[a] /\ reply'[k] = Reply("injected", <<>>, a, version[a]) => Answers(a, k)
        BY <2>6 DEF Answers
      <3> QED BY <1>0, <2>1, <3>1, <3>2, AnswerReaches DEF CallMoves, Returns
    <2>7. CASE AppendFails(a) \/ RereadFails(a) \/ InjectFails(a)
      <3>1. Answer(cur[a], Reply("transport", <<>>, a, version[a]))
        BY <2>7 DEF AppendFails, RereadFails, InjectFails
      <3>2. k = cur[a] /\ reply'[k] = Reply("transport", <<>>, a, version[a]) => Answers(a, k)
        BY DEF Answers
      <3> QED BY <1>0, <2>1, <3>1, <3>2, AnswerReaches DEF CallMoves, Returns
    <2> QED BY <1>6, <2>2, <2>3, <2>4, <2>5, <2>6, <2>7
  <1>7. ASSUME NEW a \in Actors, RecvGetState(a)
        PROVE  CallMoves(k)
    <2>1. /\ mailbox[a] # <<>> /\ req' = req
          /\ Answer(Head(mailbox[a]), Reply("state", state[a], a, version[a]))
      BY <1>7 DEF RecvGetState, NextMessage
    <2>2. mailbox[a][1] \in Calls /\ Head(mailbox[a]) = mailbox[a][1]
      BY <1>0, <2>1 DEF TypeOK
    <2> QED BY <1>0, <1>7, <2>1, <2>2, AnswerReaches DEF CallMoves, Returns
  <1>8. ASSUME NEW a \in Actors, Exit(a)
        PROVE  CallMoves(k)
    <2>1. CASE k \in Range(mailbox[a]) /\ cpc[k] = "queued"
      <3>1. \E i \in 1 .. Len(mailbox[a]) : mailbox[a][i] = k
        BY <1>0, <2>1 DEF Range, TypeOK
      <3>2. cpc'[k] = "done" /\ reply'[k] = Refusal("actor_gone") /\ req' = req
        BY <1>8, <2>1 DEF Exit
      <3> QED BY <1>8, <2>1, <3>1, <3>2 DEF CallMoves, Returns, Settled
    <2>2. CASE ~(k \in Range(mailbox[a]) /\ cpc[k] = "queued")
      BY <1>1, <1>8, <2>2 DEF Exit
    <2> QED BY <2>1, <2>2
  <1>9. Crash => CallMoves(k)
    BY <1>0 DEF Crash, TypeOK, CallMoves, Settled, Returns
  <1>10. ASSUME NEW j \in Calls, ServerAppend(j)
         PROVE  CallMoves(k)
    BY <1>1, <1>10 DEF ServerAppend, callVars
  <1>11. ASSUME NEW e \in ForeignEvents, OtherAppend(e)
         PROVE  CallMoves(k)
    BY <1>1, <1>11 DEF OtherAppend, callVars
  <1>12. UNCHANGED vars => CallMoves(k)
    BY <1>1 DEF vars
  <1> QED
    BY <1>2, <1>3, <1>4, <1>5, <1>6, <1>7, <1>8, <1>9, <1>10, <1>11, <1>12
       DEF Next, ActorStep, Failure

-----------------------------------------------------------------------------
(* Requests                                                                 *)

\* A longer stream has the same events, and the same prefixes, below its old end.
LEMMA PrefixStays ==
    ASSUME NEW l \in Seq(Recorded), NEW m \in Seq(Recorded)
    PROVE  /\ Len(l \o m) = Len(l) + Len(m) /\ Len(l) \in Nat /\ Len(m) \in Nat
           /\ \A i \in 1 .. Len(l) : (l \o m)[i] = l[i]
           /\ \A i \in 1 .. Len(m) : (l \o m)[Len(l) + i] = m[i]
           /\ \A i \in 1 .. Len(l \o m) :
                  \/ i \in 1 .. Len(l) /\ (l \o m)[i] = l[i]
                  \/ i - Len(l) \in 1 .. Len(m) /\ (l \o m)[i] = m[i - Len(l)]
           /\ \A n, j \in Nat : 1 <= n /\ j <= Len(l) => SubSeq(l \o m, n, j) = SubSeq(l, n, j)
  <1>1. /\ l \o m \in Seq(Recorded) /\ Len(l \o m) = Len(l) + Len(m) /\ Len(l) \in Nat /\ Len(m) \in Nat
        /\ \A i \in 1 .. Len(l) : (l \o m)[i] = l[i]
        /\ \A i \in 1 .. Len(m) : (l \o m)[Len(l) + i] = m[i]
    BY StreamConcat
  <1>2. \A i \in 1 .. Len(l \o m) :
            \/ i \in 1 .. Len(l) /\ (l \o m)[i] = l[i]
            \/ i - Len(l) \in 1 .. Len(m) /\ (l \o m)[i] = m[i - Len(l)]
    OBVIOUS
  <1>3. ASSUME NEW n \in Nat, NEW j \in Nat, 1 <= n, j <= Len(l)
        PROVE  SubSeq(l \o m, n, j) = SubSeq(l, n, j)
    <2>1. PICK w \in Seq(Recorded) : w = l \o m
      BY <1>1
    <2>2. \A i \in n .. j : l[i] \in Recorded /\ w[i] = l[i] /\ w[i] \in Recorded
      BY <1>1, <1>3, <2>1
    <2>3. /\ SubSeq(l, n, j) \in Seq(Recorded)
          /\ Len(SubSeq(l, n, j)) = IF n <= j THEN j - n + 1 ELSE 0
          /\ \A i \in 1 .. j - n + 1 : SubSeq(l, n, j)[i] = l[n + i - 1]
      BY <2>2, SubSeqProperties
    <2>4. /\ SubSeq(w, n, j) \in Seq(Recorded)
          /\ Len(SubSeq(w, n, j)) = IF n <= j THEN j - n + 1 ELSE 0
          /\ \A i \in 1 .. j - n + 1 : SubSeq(w, n, j)[i] = w[n + i - 1]
      BY <2>2, SubSeqProperties
    <2>5. ASSUME NEW i \in 1 .. Len(SubSeq(l, n, j))
          PROVE  SubSeq(w, n, j)[i] = SubSeq(l, n, j)[i]
      <3>1. i \in 1 .. j - n + 1 /\ n + i - 1 \in n .. j
        BY <2>3, <2>5
      <3> QED BY <2>2, <2>3, <2>4, <3>1
    <2> QED BY <2>1, <2>3, <2>4, <2>5, SeqEqual
  <1> QED BY <1>1, <1>2, <1>3

\* A call that has left no trace leaves none until an actor sends its append.
LEMMA UntouchedStays ==
    ASSUME HandleOK, TypeInv, RequestsOK, [Next]_vars, NEW k \in Calls, Untouched(k)
    PROVE  \/ Untouched(k)'
           \/ \E a \in Actors : cur[a] = k /\ DecideAppend(a)
           \/ \E a \in Actors : mailbox[a] # <<>> /\ Head(mailbox[a]) = k /\ RecvInject(a)
  <1>0. log \in Seq(Recorded)
    BY DEF TypeInv, TypeOK
  <1>1. TraceMoves(k) /\ ~ServerAppend(k)
    BY TraceSteps DEF ServerAppend, Untouched
  <1>2. CASE Unrelated(k)
    <2>1. PICK m \in Seq(Recorded) : log' = log \o m /\ \A i \in 1 .. Len(m) : m[i].by # k
      BY <1>2 DEF Unrelated
    <2>2. \A i \in 1 .. Len(log') : log'[i].by # k
      BY <1>0, <2>1, PrefixStays DEF Untouched
    <2>3. rpc'[k].status = "none"
      BY <1>2, RecordTypes DEF Unrelated, Untouched
    <2> QED BY <2>2, <2>3 DEF Untouched
  <1> QED BY <1>1, <1>2 DEF TraceMoves

\* RequestsOK is preserved: what is under way was decided on a prefix of the
\* stream, and nothing is sent twice.
LEMMA RequestsStep ==
    ASSUME HandleOK, FoldInv, PlaceInv', RequestsOK, [Next]_vars
    PROVE  RequestsOK'
  <1>0. /\ TypeInv /\ TypeOK /\ LocalsOK /\ HandlesOK /\ OnePlace /\ StateIsFold /\ OnePlace'
        /\ TypeOK'
    BY DEF FoldInv, PlaceInv, TypeInv
  <1>a. log \in Seq(Recorded) /\ Len(log) \in Nat /\ mailbox \in [Actors -> Seq(Calls)]
    BY <1>0 DEF TypeOK
  <1>h. ASSUME NEW a \in Actors, mailbox[a] # <<>>
        PROVE  Head(mailbox[a]) = mailbox[a][1] /\ 1 \in 1 .. Len(mailbox[a]) /\ mailbox[a][1] \in Calls
    <2>1. mailbox[a] \in Seq(Calls)
      BY <1>a
    <2> QED BY <1>h, <2>1
  <1>1. ASSUME NEW k \in Calls, cpc'[k] \notin Settled
        PROVE  Untouched(k)'
    <2>1. cpc[k] \notin Settled
      BY <1>0, <1>1, CallSteps DEF CallMoves
    <2>2. Untouched(k)
      BY <2>1 DEF RequestsOK
    <2>3. \A a \in Actors : cur[a] # k /\ \A i \in 1 .. Len(mailbox[a]) : mailbox[a][i] # k
      BY <1>0, <2>1 DEF LocalsOK
    <2> QED BY <1>0, <1>h, <2>2, <2>3, UntouchedStays
  <1>2. ASSUME NEW k \in Calls
        PROVE  /\ rpc'[k].status \in {"sent", "conflict"} =>
                      \A i \in 1 .. Len(log') : log'[i].by # k
               /\ rpc'[k].status # "none" => req'[k].kind \in {"execute", "inject"}
               /\ rpc'[k].status = "sent" /\ req'[k].kind = "inject" =>
                      rpc'[k].events = <<Stamp(req'[k].arg, k)>>
               /\ rpc'[k].status = "sent" /\ req'[k].kind = "execute" =>
                      \E v \in None .. LastVersion(log') :
                          LET d == Handle(Visit(SubSeq(log', 1, v + 1)), req'[k].arg)
                          IN  /\ rpc'[k].expected = ExpectedVersion(v)
                              /\ d.ok
                              /\ rpc'[k].events = EncodeAll(d.events, k)
    <2>0. TraceMoves(k) /\ CallMoves(k)
      BY <1>0, TraceSteps, CallSteps
    <2>1. CASE Unrelated(k)
      <3>1. PICK m \in Seq(Recorded) : log' = log \o m /\ \A i \in 1 .. Len(m) : m[i].by # k
        BY <2>1 DEF Unrelated
      <3>2. CASE rpc'[k] = NoRpc
        BY <3>2, RecordTypes
      <3>3. CASE rpc'[k] = rpc[k] /\ rpc[k].status # "none"
        <4>1. cpc[k] \in Settled
          BY <3>3 DEF RequestsOK, Untouched
        <4>2. req'[k] = req[k]
          BY <2>0, <4>1 DEF CallMoves, Settled
        <4>3. rpc[k].status \in {"sent", "conflict"} => \A i \in 1 .. Len(log') : log'[i].by # k
          BY <1>a, <3>1, PrefixStays DEF RequestsOK
        <4>4. ASSUME rpc[k].status = "sent", req[k].kind = "execute"
              PROVE  \E v \in None .. LastVersion(log') :
                          LET d == Handle(Visit(SubSeq(log', 1, v + 1)), req[k].arg)
                          IN  /\ rpc[k].expected = ExpectedVersion(v)
                              /\ d.ok
                              /\ rpc[k].events = EncodeAll(d.events, k)
          <5>1. PICK v \in None .. LastVersion(log) :
                    LET d == Handle(Visit(SubSeq(log, 1, v + 1)), req[k].arg)
                    IN  /\ rpc[k].expected = ExpectedVersion(v)
                        /\ d.ok
                        /\ rpc[k].events = EncodeAll(d.events, k)
            BY <4>4 DEF RequestsOK
          <5>2. v + 1 \in Nat /\ v + 1 <= Len(log) /\ Len(log') = Len(log) + Len(m) /\ Len(m) \in Nat
            BY <1>a, <3>1, PrefixStays DEF None, LastVersion
          <5>3. SubSeq(log', 1, v + 1) = SubSeq(log, 1, v + 1)
            BY <1>a, <3>1, <5>2, PrefixStays
          <5>4. v \in None .. LastVersion(log')
            BY <1>a, <5>2 DEF None, LastVersion
          <5> QED BY <5>1, <5>3, <5>4
        <4>5. /\ rpc[k].status # "none" => req[k].kind \in {"execute", "inject"}
              /\ rpc[k].status = "sent" /\ req[k].kind = "inject" =>
                      rpc[k].events = <<Stamp(req[k].arg, k)>>
          BY DEF RequestsOK
        <4> QED BY <3>3, <4>2, <4>3, <4>4, <4>5
      <3>4. CASE rpc'[k].status = "none"
        BY <3>4
      <3> QED BY <2>1, <3>2, <3>3, <3>4 DEF Unrelated
    <2>2. CASE ServerAppend(k)
      <3>1. rpc[k].status = "sent" /\ req' = req
        BY <2>2 DEF ServerAppend, callVars
      <3>2. CASE ~Accepts(log, rpc[k].expected)
        <4>1. log' = log /\ rpc'[k].status = "conflict"
          BY <1>0, <2>2, <3>2, RecordTypes DEF ServerAppend, TypeOK
        <4> QED BY <3>1, <4>1 DEF RequestsOK
      <3>3. CASE Accepts(log, rpc[k].expected)
        <4>1. rpc'[k].status = "ok"
          BY <1>0, <2>2, <3>3 DEF ServerAppend, TypeOK, Accepted, Answered
        <4> QED BY <3>1, <4>1 DEF RequestsOK
      <3> QED BY <3>2, <3>3
    <2>3. ASSUME NEW a \in Actors, cur[a] = k, DecideAppend(a)
          PROVE  /\ rpc'[k].status = "sent" /\ req' = req /\ log' = log
                 /\ req[k].kind = "execute" /\ Untouched(k)
                 /\ rpc'[k].expected = ExpectedVersion(version[a])
                 /\ version[a] \in None .. LastVersion(log)
                 /\ LET d == Handle(Visit(SubSeq(log, 1, version[a] + 1)), req[k].arg)
                    IN  d.ok /\ rpc'[k].events = EncodeAll(d.events, k)
      <3>1. /\ apc[a] = "decide" /\ req' = req /\ log' = log
            /\ Handle(state[a], req[k].arg).ok
            /\ rpc'[k] = Sent(ExpectedVersion(version[a]),
                              EncodeAll(Handle(state[a], req[k].arg).events, k))
        BY <1>0, <2>3 DEF DecideAppend, TypeOK, callVars
      <3>2. req[k].kind = "execute" /\ Untouched(k)
        BY <1>0, <2>3, <3>1 DEF LocalsOK, RequestsOK
      <3>3. IsFold(log, state[a], version[a]) /\ version[a] \in Versions
        BY <1>0, <3>1 DEF StateIsFold, TypeOK
      <3>4. version[a] \in None .. LastVersion(log)
        BY <1>a, <3>3 DEF IsFold, Versions, None, LastVersion
      <3>5. state[a] = Visit(SubSeq(log, 1, version[a] + 1))
        BY <3>3 DEF IsFold
      <3> QED BY <3>1, <3>2, <3>4, <3>5 DEF Sent
    <2>4. ASSUME NEW a \in Actors, mailbox[a] # <<>>, Head(mailbox[a]) = k, RecvInject(a)
          PROVE  /\ rpc'[k].status = "sent" /\ req' = req /\ log' = log
                 /\ req[k].kind = "inject" /\ Untouched(k)
                 /\ rpc'[k].events = <<Stamp(req[k].arg, k)>>
      <3>1. Untouched(k)
        BY <1>h, <2>4 DEF RequestsOK
      <3>2. /\ req' = req /\ log' = log /\ req[k].kind = "inject"
            /\ rpc'[k] = Sent(AnyVersion, <<Stamp(req[k].arg, k)>>)
        BY <1>0, <2>4 DEF RecvInject, NextMessage, TypeOK, callVars
      <3> QED BY <3>1, <3>2 DEF Sent
    <2>5. CASE \E a \in Actors : cur[a] = k /\ DecideAppend(a)
      BY <2>3, <2>5 DEF Untouched
    <2>6. CASE \E a \in Actors : mailbox[a] # <<>> /\ Head(mailbox[a]) = k /\ RecvInject(a)
      BY <2>4, <2>6 DEF Untouched
    <2> QED BY <2>0, <2>1, <2>2, <2>5, <2>6 DEF TraceMoves
  <1>3. ASSUME NEW a \in Actors, NEW i \in 1 .. Len(mailbox'[a])
        PROVE  Untouched(mailbox[a][i])'
    <2>a. mailbox'[a] \in Seq(Calls)
      BY <1>0 DEF TypeOK
    <2>1. PICK k \in Calls : k = mailbox'[a][i]
      BY <1>3, <2>a
    <2>2. \/ \E b \in Actors : \E j \in 1 .. Len(mailbox[b]) : mailbox[b][j] = k
          \/ cpc[k] = "ready"
      <3>1. CASE mailbox'[a] = mailbox[a]
        BY <2>1, <3>1
      <3>2. ASSUME NEW j \in Calls, cpc[j] = "ready", handle[j] \in Actors,
                   mailbox' = [mailbox EXCEPT ![handle[j]] = Append(mailbox[handle[j]], j)]
            PROVE  k = j \/ \E n \in 1 .. Len(mailbox[a]) : mailbox[a][n] = k
        BY <1>0, <2>1, <3>2, AppendElements, SMTT(30) DEF TypeOK
      <3>3. ASSUME NEW b \in Actors, mailbox[b] # <<>>,
                   mailbox' = [mailbox EXCEPT ![b] = Tail(mailbox[b])]
            PROVE  \E n \in 1 .. Len(mailbox[a]) : mailbox[a][n] = k
        BY <1>0, <2>1, <3>3 DEF TypeOK
      <3>4. ASSUME NEW b \in Actors, mailbox' = [mailbox EXCEPT ![b] = <<>>]
            PROVE  mailbox'[a] = mailbox[a]
        BY <1>0, <3>4 DEF TypeOK
      <3>5. ~(mailbox' = [b \in Actors |-> <<>>])
        OBVIOUS
      <3> QED BY <1>0, <3>1, <3>2, <3>3, <3>4, <3>5, MessageSteps DEF MessagesMove
    <2>3. Untouched(k)
      BY <2>2 DEF RequestsOK, Settled
    <2>4. ASSUME NEW b \in Actors, cur[b] = k
          PROVE  ~DecideAppend(b)
      BY <1>0, <2>1, <2>4 DEF DecideAppend, OnePlace
    <2>5. ASSUME NEW b \in Actors, mailbox[b] # <<>>, Head(mailbox[b]) = k
          PROVE  ~RecvInject(b)
      <3>1. RecvInject(b) => cur'[b] = k
        BY <1>0, <2>5 DEF RecvInject, TypeOK
      <3> QED BY <1>0, <2>1, <3>1 DEF OnePlace
    <2>6. Untouched(k)'
      BY <1>0, <2>3, <2>4, <2>5, UntouchedStays
    <2> QED BY <2>1, <2>6 DEF Untouched
  <1>4. ASSUME NEW a \in Actors, apc'[a] \in {"decide", "reread"}
        PROVE  Untouched(cur[a])'
    <2>0. ActorMoves(a)
      BY <1>0, ActorSteps
    <2>1. CASE Still(a)
      <3>1. PICK k \in Calls : k = cur[a]
        BY <1>0, <1>4, <2>1 DEF LocalsOK, Still
      <3>2. Untouched(k)
        BY <1>4, <2>1, <3>1 DEF RequestsOK, Still
      <3>3. ASSUME NEW b \in Actors, cur[b] = k
            PROVE  ~DecideAppend(b)
        <4>1. b = a
          BY <1>0, <3>1, <3>3 DEF OnePlace
        <4>2. DecideAppend(a) => apc'[a] = "append"
          BY <1>0 DEF DecideAppend, TypeOK
        <4> QED BY <1>4, <4>1, <4>2
      <3>4. ASSUME NEW b \in Actors, mailbox[b] # <<>>, Head(mailbox[b]) = k
            PROVE  FALSE
        BY <1>0, <1>h, <3>1, <3>4 DEF OnePlace
      <3>5. Untouched(k)'
        BY <1>0, <3>2, <3>3, <3>4, UntouchedStays
      <3> QED BY <2>1, <3>1, <3>5 DEF Untouched, Still
    <2>2. CASE RecvExecute(a)
      <3>1. /\ mailbox[a] # <<>> /\ cur'[a] = Head(mailbox[a]) /\ log' = log /\ rpc' = rpc
        BY <1>0, <2>2 DEF RecvExecute, NextMessage, serverVars, TypeOK
      <3>2. Untouched(mailbox[a][1])
        BY <1>h, <3>1 DEF RequestsOK
      <3> QED BY <1>h, <3>1, <3>2 DEF Untouched
    <2>3. CASE AppendConflict(a)
      <3>1. PICK k \in Calls : k = cur[a]
        BY <1>0, <2>3 DEF LocalsOK, AppendConflict
      <3>2. /\ rpc[k].status = "conflict" /\ cur' = cur /\ log' = log /\ rpc'[k] = NoRpc
        BY <1>0, <2>3, <3>1 DEF AppendConflict, TypeOK
      <3> QED BY <3>1, <3>2, RecordTypes DEF RequestsOK, Untouched
    <2>4. CASE Reread(a)
      <3>1. apc[a] = "reread" /\ cur' = cur /\ log' = log /\ rpc' = rpc
        BY <2>4 DEF Reread, serverVars
      <3> QED BY <3>1 DEF RequestsOK, Untouched
    <2>5. ASSUME Own(a), ~RecvExecute(a), ~AppendConflict(a), ~Reread(a), ~Still(a)
          PROVE  FALSE
      BY <1>0, <1>4, <2>5 DEF Own, ActorStep, DecideNothing, DecideAppend, AppendOk, GiveUp,
         RecvGetState, RecvInject, InjectOk, InjectRead, RecvShutdown, ChannelClosed, Exit, Leave,
         EncodeFails, AppendFails, RereadFails, InjectFails, IdleTimeout, Resume, NextMessage, TypeOK
    <2>6. ~Crash /\ \A k \in Calls : ~SpawnCatchUp(k, a)
      BY <1>0, <1>4 DEF Crash, SpawnCatchUp, TypeOK
    <2> QED BY <2>0, <2>1, <2>2, <2>3, <2>4, <2>5, <2>6 DEF ActorMoves
  <1> QED
    BY <1>1, <1>2, <1>3, <1>4 DEF RequestsOK

-----------------------------------------------------------------------------
(* Appends                                                                  *)

\* Where a call's events are does not change when others write.
LEMMA WrittenStays ==
    ASSUME log \in Seq(Recorded), NEW k, NEW m \in Seq(Recorded), log' = log \o m,
           \A i \in 1 .. Len(m) : m[i].by # k
    PROVE  /\ Written(k)' = Written(k)
           /\ Len(log) \in Nat /\ Len(log') \in Nat /\ Len(log') >= Len(log)
           /\ \A i \in 1 .. Len(log) : log'[i] = log[i]
  <1>1. /\ Len(log') = Len(log) + Len(m) /\ Len(log) \in Nat /\ Len(m) \in Nat
        /\ \A i \in 1 .. Len(log) : log'[i] = log[i]
        /\ \A i \in 1 .. Len(log') :
               \/ i \in 1 .. Len(log) /\ log'[i] = log[i]
               \/ i - Len(log) \in 1 .. Len(m) /\ log'[i] = m[i - Len(log)]
    BY PrefixStays
  <1>2. \A i \in 1 .. Len(log') : log'[i].by = k => i \in 1 .. Len(log) /\ log[i].by = k
    BY <1>1
  <1>3. \A i \in 1 .. Len(log) : i \in 1 .. Len(log')
    BY <1>1
  <1>4. {i \in 1 .. Len(log') : log'[i].by = k} = {i \in 1 .. Len(log) : log[i].by = k}
    BY <1>1, <1>2, <1>3
  <1> QED BY <1>1, <1>4 DEF Written

\* Where a call's events are after its first append is accepted.
LEMMA WrittenNow ==
    ASSUME log \in Seq(Recorded), NEW k, NEW m \in Seq(Recorded), log' = log \o m,
           \A i \in 1 .. Len(m) : m[i].by = k, \A i \in 1 .. Len(log) : log[i].by # k
    PROVE  /\ Written(k)' = (Len(log) + 1) .. Len(log')
           /\ Len(log') = Len(log) + Len(m) /\ Len(log) \in Nat /\ Len(m) \in Nat
           /\ \A i \in 1 .. Len(log) : log'[i] = log[i]
           /\ \A i \in 1 .. Len(m) : log'[Len(log) + i] = m[i]
  <1>1. /\ Len(log') = Len(log) + Len(m) /\ Len(log) \in Nat /\ Len(m) \in Nat
        /\ \A i \in 1 .. Len(log) : log'[i] = log[i]
        /\ \A i \in 1 .. Len(m) : log'[Len(log) + i] = m[i]
        /\ \A i \in 1 .. Len(log') :
               \/ i \in 1 .. Len(log) /\ log'[i] = log[i]
               \/ i - Len(log) \in 1 .. Len(m) /\ log'[i] = m[i - Len(log)]
    BY PrefixStays
  <1>2. ASSUME NEW i \in 1 .. Len(log')
        PROVE  log'[i].by = k <=> i \in (Len(log) + 1) .. Len(log')
    BY <1>1
  <1>3. \A i \in (Len(log) + 1) .. Len(log') : i \in 1 .. Len(log')
    BY <1>1
  <1>4. {i \in 1 .. Len(log') : log'[i].by = k} = (Len(log) + 1) .. Len(log')
    BY <1>2, <1>3
  <1> QED BY <1>1, <1>4 DEF Written

\* The server accepts an append under the version v of a fold exactly when v is
\* the last version; otherwise the stream has grown past v.
LEMMA AcceptsExactly ==
    ASSUME NEW l \in Seq(Recorded), NEW v \in Versions, v < Len(l)
    PROVE  /\ Accepts(l, ExpectedVersion(v)) => v = LastVersion(l)
           /\ ~Accepts(l, ExpectedVersion(v)) => v < LastVersion(l)
  BY DEF Accepts, ExpectedVersion, NoStream, Exact, LastVersion, Versions, None

\* While an actor waits, its call's request changes only by the server's doing.
LEMMA AwaitSteps ==
    ASSUME HandleOK, PlaceInv, RequestsOK, [Next]_vars, NEW a \in Actors, Still(a),
           NEW k \in Calls, cur[a] = k
    PROVE  Unrelated(k) \/ ServerAppend(k)
  <1>0. TypeInv /\ TypeOK /\ OnePlace
    BY DEF PlaceInv, TypeInv
  <1>1. ASSUME NEW b \in Actors, cur[b] = k
        PROVE  ~DecideAppend(b)
    <2>1. b = a
      BY <1>0, <1>1 DEF OnePlace
    <2> QED BY <1>0, <2>1 DEF DecideAppend, Still, TypeOK
  <1>2. ASSUME NEW b \in Actors, mailbox[b] # <<>>, Head(mailbox[b]) = k
        PROVE  FALSE
    <2>1. mailbox[b] \in Seq(Calls)
      BY <1>0 DEF TypeOK
    <2>2. 1 \in 1 .. Len(mailbox[b]) /\ mailbox[b][1] = k
      BY <1>2, <2>1
    <2> QED BY <1>0, <2>2 DEF OnePlace
  <1> QED BY <1>0, <1>1, <1>2, TraceSteps DEF TraceMoves

\* AppendsOK is preserved.
LEMMA AppendsStep ==
    ASSUME HandleOK, FoldInv, RequestsOK, AppendsOK, [Next]_vars
    PROVE  AppendsOK'
  <1>0. /\ PlaceInv /\ TypeInv /\ TypeOK /\ LocalsOK /\ OnePlace /\ StateIsFold /\ AppendInFlight
    BY DEF FoldInv, PlaceInv, TypeInv
  <1>a. log \in Seq(Recorded) /\ Len(log) \in Nat
    BY <1>0 DEF TypeOK
  <1> SUFFICES ASSUME NEW a \in Actors
               PROVE  (/\ apc[a] = "append" =>
                              /\ produced[a] # <<>>
                              /\ rpc[cur[a]].status = "ok" =>
                                     Written(cur[a]) = (version[a] + 2) .. (rpc[cur[a]].last + 1)
                              /\ rpc[cur[a]].status = "conflict" => version[a] < LastVersion(log)
                       /\ apc[a] = "reread" => version[a] < LastVersion(log)
                       /\ (apc[a] = "inject" /\ rpc[cur[a]].status = "ok") \/ apc[a] = "inject_read" =>
                              \E i \in 1 .. Len(log) :
                                  Written(cur[a]) = {i} /\ log[i] = Stamp(req[cur[a]].arg, cur[a])
                       /\ apc[a] = "inject_read" => rpc[cur[a]].status = "none")'
    BY DEF AppendsOK
  <1>1. ASSUME Still(a), NEW k \in Calls, cur[a] = k, Unrelated(k),
               apc[a] \in {"append", "reread", "inject", "inject_read"}
        PROVE  /\ apc'[a] = "append" =>
                      /\ produced'[a] # <<>>
                      /\ rpc'[k].status = "ok" =>
                             Written(k)' = (version'[a] + 2) .. (rpc'[k].last + 1)
                      /\ rpc'[k].status = "conflict" => version'[a] < LastVersion(log')
               /\ apc'[a] = "reread" => version'[a] < LastVersion(log')
               /\ (apc'[a] = "inject" /\ rpc'[k].status = "ok") \/ apc'[a] = "inject_read" =>
                      \E i \in 1 .. Len(log') :
                          Written(k)' = {i} /\ log'[i] = Stamp(req'[k].arg, k)
               /\ apc'[a] = "inject_read" => rpc'[k].status = "none"
    <2>1. PICK m \in Seq(Recorded) : log' = log \o m /\ \A i \in 1 .. Len(m) : m[i].by # k
      BY <1>1 DEF Unrelated
    <2>2. /\ Written(k)' = Written(k)
          /\ Len(log) \in Nat /\ Len(log') \in Nat /\ Len(log') >= Len(log)
          /\ \A i \in 1 .. Len(log) : log'[i] = log[i]
      BY <1>a, <2>1, WrittenStays
    <2>3. cpc[k] \in Settled
      BY <1>0, <1>1 DEF LocalsOK
    <2>4. req'[k] = req[k]
      BY <1>0, <2>3, CallSteps DEF CallMoves, Settled
    <2>5. rpc'[k] = rpc[k] \/ rpc'[k].status = "none"
      BY <1>1, RecordTypes DEF Unrelated
    <2>6. version[a] < LastVersion(log) => version[a] < LastVersion(log')
      <3>1. version[a] \in Int
        BY <1>0 DEF TypeOK, Versions, None
      <3> QED BY <2>2, <3>1 DEF LastVersion
    <2>7. /\ apc[a] = "append" =>
                /\ produced[a] # <<>>
                /\ rpc[k].status = "ok" => Written(k) = (version[a] + 2) .. (rpc[k].last + 1)
                /\ rpc[k].status = "conflict" => version[a] < LastVersion(log)
          /\ apc[a] = "reread" => version[a] < LastVersion(log)
          /\ (apc[a] = "inject" /\ rpc[k].status = "ok") \/ apc[a] = "inject_read" =>
                \E i \in 1 .. Len(log) : Written(k) = {i} /\ log[i] = Stamp(req[k].arg, k)
          /\ apc[a] = "inject_read" => rpc[k].status = "none"
      BY <1>1 DEF AppendsOK
    <2>8. ASSUME NEW i \in 1 .. Len(log), Written(k) = {i}, log[i] = Stamp(req[k].arg, k)
          PROVE  i \in 1 .. Len(log') /\ Written(k)' = {i} /\ log'[i] = Stamp(req'[k].arg, k)
      BY <2>2, <2>4, <2>8
    <2>9. /\ apc'[a] = apc[a] /\ produced'[a] = produced[a] /\ version'[a] = version[a]
      BY <1>1 DEF Still
    <2>10. /\ apc'[a] = "append" =>
                /\ produced'[a] # <<>>
                /\ rpc'[k].status = "ok" =>
                       Written(k)' = (version'[a] + 2) .. (rpc'[k].last + 1)
                /\ rpc'[k].status = "conflict" => version'[a] < LastVersion(log')
           /\ apc'[a] = "reread" => version'[a] < LastVersion(log')
           /\ apc'[a] = "inject_read" => rpc'[k].status = "none"
      BY <2>2, <2>5, <2>6, <2>7, <2>9
    <2>11. (apc'[a] = "inject" /\ rpc'[k].status = "ok") \/ apc'[a] = "inject_read" =>
               \E i \in 1 .. Len(log') : Written(k)' = {i} /\ log'[i] = Stamp(req'[k].arg, k)
      BY <2>5, <2>7, <2>8, <2>9
    <2> QED BY <2>10, <2>11
  <1>2. ASSUME Still(a), NEW k \in Calls, cur[a] = k, ServerAppend(k),
               apc[a] \in {"append", "reread", "inject", "inject_read"}
        PROVE  /\ apc'[a] = "append" =>
                      /\ produced'[a] # <<>>
                      /\ rpc'[k].status = "ok" =>
                             Written(k)' = (version'[a] + 2) .. (rpc'[k].last + 1)
                      /\ rpc'[k].status = "conflict" => version'[a] < LastVersion(log')
               /\ apc'[a] = "reread" => version'[a] < LastVersion(log')
               /\ (apc'[a] = "inject" /\ rpc'[k].status = "ok") \/ apc'[a] = "inject_read" =>
                      \E i \in 1 .. Len(log') :
                          Written(k)' = {i} /\ log'[i] = Stamp(req'[k].arg, k)
               /\ apc'[a] = "inject_read" => rpc'[k].status = "none"
    <2>1. /\ rpc[k].status = "sent" /\ req' = req
          /\ apc'[a] = apc[a] /\ produced'[a] = produced[a] /\ version'[a] = version[a]
      BY <1>2 DEF ServerAppend, callVars, Still
    <2>2. apc[a] \in {"append", "inject"}
      BY <1>2, <2>1 DEF AppendsOK, RequestsOK, Untouched
    <2>3. /\ rpc[k].events \in Seq(Recorded)
          /\ \A i \in 1 .. Len(rpc[k].events) : rpc[k].events[i].by = k
          /\ \A i \in 1 .. Len(log) : log[i].by # k
      BY <1>0, <2>1, OwnEvents DEF RequestsOK
    <2>4. CASE apc[a] = "append"
      <3>1. /\ rpc[k].expected = ExpectedVersion(version[a]) /\ produced[a] # <<>>
            /\ version[a] \in Versions /\ version[a] < Len(log)
        BY <1>0, <1>2, <2>1, <2>4 DEF AppendInFlight, AppendsOK, StateIsFold, IsFold, TypeOK
      <3>2. CASE Accepts(log, rpc[k].expected)
        <4>1. version[a] = LastVersion(log)
          BY <1>a, <3>1, <3>2, AcceptsExactly
        <4>2. log' = log \o rpc[k].events /\ rpc'[k].status = "ok" /\ rpc'[k].last = LastVersion(log')
          BY <1>0, <1>2, <3>2 DEF ServerAppend, Accepted, Answered, TypeOK
        <4>a. /\ Written(k)' = (Len(log) + 1) .. Len(log')
              /\ Len(log') = Len(log) + Len(rpc[k].events) /\ Len(rpc[k].events) \in Nat
          BY <1>a, <2>3, <4>2, WrittenNow
        <4>3. Written(k)' = (Len(log) + 1) .. Len(log') /\ Len(log') \in Nat
          BY <1>a, <4>a
        <4>4. version'[a] + 2 = Len(log) + 1 /\ rpc'[k].last + 1 = Len(log')
          BY <1>a, <2>1, <4>1, <4>2, <4>3 DEF LastVersion
        <4> QED BY <2>1, <2>4, <3>1, <4>2, <4>3, <4>4
      <3>3. CASE ~Accepts(log, rpc[k].expected)
        <4>1. version[a] < LastVersion(log)
          BY <1>a, <3>1, <3>3, AcceptsExactly
        <4>2. log' = log /\ rpc'[k].status = "conflict"
          BY <1>0, <1>2, <3>3, RecordTypes DEF ServerAppend, TypeOK
        <4> QED BY <2>1, <2>4, <3>1, <4>1, <4>2
      <3> QED BY <3>2, <3>3
    <2>5. CASE apc[a] = "inject"
      <3>1. req[k].kind = "inject"
        BY <1>0, <1>2, <2>5 DEF LocalsOK
      <3>2. rpc[k].events = <<Stamp(req[k].arg, k)>>
        BY <2>1, <3>1 DEF RequestsOK
      <3>3. CASE Accepts(log, rpc[k].expected)
        <4>1. log' = log \o rpc[k].events
          BY <1>2, <3>3 DEF ServerAppend
        <4>2. /\ Written(k)' = (Len(log) + 1) .. Len(log')
              /\ Len(log') = Len(log) + Len(rpc[k].events)
              /\ \A i \in 1 .. Len(rpc[k].events) : log'[Len(log) + i] = rpc[k].events[i]
          BY <1>a, <2>3, <4>1, WrittenNow
        <4>3. Len(rpc[k].events) = 1 /\ rpc[k].events[1] = Stamp(req[k].arg, k)
          BY <3>2
        <4>4. /\ Len(log) + 1 \in 1 .. Len(log') /\ (Len(log) + 1) .. Len(log') = {Len(log) + 1}
              /\ log'[Len(log) + 1] = Stamp(req[k].arg, k)
          BY <1>a, <4>2, <4>3
        <4> QED BY <2>1, <2>5, <4>2, <4>4
      <3>4. CASE ~Accepts(log, rpc[k].expected)
        <4>1. rpc'[k].status = "conflict"
          BY <1>0, <1>2, <3>4, RecordTypes DEF ServerAppend, TypeOK
        <4> QED BY <2>1, <2>5, <4>1
      <3> QED BY <3>3, <3>4
    <2> QED BY <2>2, <2>4, <2>5
  <1>3. CASE Still(a)
    <2>1. CASE apc[a] \in {"append", "reread", "inject", "inject_read"}
      <3>1. PICK k \in Calls : k = cur[a]
        BY <1>0, <2>1 DEF LocalsOK
      <3>2. Unrelated(k) \/ ServerAppend(k)
        BY <1>0, <1>3, <3>1, AwaitSteps
      <3>3. cur'[a] = k
        BY <1>3, <3>1 DEF Still
      <3> QED BY <1>1, <1>2, <1>3, <2>1, <3>1, <3>2, <3>3 DEF Written
    <2>2. CASE apc[a] \notin {"append", "reread", "inject", "inject_read"}
      BY <1>3, <2>2 DEF Still
    <2> QED BY <2>1, <2>2
  <1>4. CASE DecideAppend(a)
    <2>1. PICK k \in Calls : k = cur[a]
      BY <1>0, <1>4 DEF DecideAppend, LocalsOK
    <2>2. /\ apc'[a] = "append" /\ cur' = cur /\ produced'[a] # <<>>
      BY <1>0, <1>4 DEF DecideAppend, TypeOK
    <2>3. rpc'[k].status = "sent"
      BY <1>0, <1>4, <2>1 DEF DecideAppend, Sent, TypeOK
    <2> QED BY <2>1, <2>2, <2>3
  <1>5. CASE AppendConflict(a)
    <2>1. /\ apc[a] = "append" /\ rpc[cur[a]].status = "conflict"
          /\ apc'[a] = "reread" /\ version' = version /\ log' = log
      BY <1>0, <1>5 DEF AppendConflict, TypeOK
    <2> QED BY <2>1 DEF AppendsOK
  <1>6. CASE RecvInject(a)
    <2>1. mailbox[a] # <<>> /\ mailbox[a] \in Seq(Calls)
      BY <1>0, <1>6 DEF RecvInject, NextMessage, TypeOK
    <2>2. PICK k \in Calls : k = Head(mailbox[a])
      BY <2>1
    <2>3. apc'[a] = "inject" /\ cur'[a] = k /\ rpc'[k].status = "sent"
      BY <1>0, <1>6, <2>2 DEF RecvInject, Sent, TypeOK
    <2> QED BY <2>3
  <1>7. CASE InjectOk(a)
    <2>1. PICK k \in Calls : k = cur[a]
      BY <1>0, <1>7 DEF InjectOk, LocalsOK
    <2>2. /\ apc[a] = "inject" /\ rpc[k].status = "ok" /\ cur' = cur /\ req' = req
          /\ apc'[a] = "inject_read" /\ log' = log /\ rpc'[k].status = "none"
      BY <1>0, <1>7, <2>1, RecordTypes DEF InjectOk, TypeOK, callVars
    <2>3. \E i \in 1 .. Len(log) : Written(k) = {i} /\ log[i] = Stamp(req[k].arg, k)
      BY <2>1, <2>2 DEF AppendsOK
    <2> QED BY <2>1, <2>2, <2>3 DEF Written
  <1>8. CASE apc'[a] \notin {"append", "reread", "inject", "inject_read"}
    BY <1>8
  <1>9. ASSUME Own(a), ~DecideAppend(a), ~AppendConflict(a), ~RecvInject(a), ~InjectOk(a), ~Still(a)
        PROVE  apc'[a] \notin {"append", "reread", "inject", "inject_read"}
    BY <1>0, <1>9 DEF Own, ActorStep, RecvExecute, DecideNothing, AppendOk, Reread, GiveUp,
       RecvGetState, InjectRead, RecvShutdown, ChannelClosed, Exit, Leave, EncodeFails,
       AppendFails, RereadFails, InjectFails, IdleTimeout, Resume, NextMessage, TypeOK
  <1>10. ASSUME Crash \/ \E k \in Calls : SpawnCatchUp(k, a)
         PROVE  apc'[a] \notin {"append", "reread", "inject", "inject_read"}
    BY <1>0, <1>10 DEF Crash, SpawnCatchUp, TypeOK
  <1> QED
    BY <1>0, <1>3, <1>4, <1>5, <1>6, <1>7, <1>8, <1>9, <1>10, ActorSteps DEF ActorMoves

-----------------------------------------------------------------------------
(* Retries                                                                  *)

\* RetriesOK is preserved: a refusal means the re-read finds a new event.
LEMMA RetriesStep ==
    ASSUME FoldInv, FoldInv', AppendsOK, RetriesOK, [Next]_vars
    PROVE  RetriesOK'
  <1>0. /\ TypeInv /\ TypeOK /\ LocalsOK /\ StateIsFold /\ AppendInFlight
        /\ TypeOK' /\ LocalsOK'
    BY DEF FoldInv, PlaceInv, TypeInv
  <1>a. log \in Seq(Recorded) /\ Len(log) \in Nat
    BY <1>0 DEF TypeOK
  <1> SUFFICES ASSUME NEW a \in Actors
               PROVE  IF apc'[a] \in {"decide", "append", "reread"}
                      THEN version'[a] >= base'[a] + attempt'[a]
                      ELSE attempt'[a] = 0
    BY DEF RetriesOK
  <1>b. /\ version[a] \in Versions /\ base[a] \in Versions /\ attempt[a] \in 0 .. MAX_RETRIES
        /\ IF apc[a] \in {"decide", "append", "reread"}
           THEN version[a] >= base[a] + attempt[a]
           ELSE attempt[a] = 0
    BY <1>0 DEF TypeOK, RetriesOK
  <1>1. CASE Still(a)
    BY <1>1, <1>b DEF Still
  <1>2. CASE RecvExecute(a)
    <2>1. /\ apc[a] = "recv" /\ apc'[a] = "decide" /\ version'[a] = version[a]
          /\ base'[a] = version[a] /\ attempt'[a] = attempt[a]
      BY <1>0, <1>2 DEF RecvExecute, NextMessage, TypeOK
    <2> QED BY <1>b, <2>1 DEF Versions, None
  <1>3. CASE DecideAppend(a) \/ AppendConflict(a)
    <2>1. /\ apc[a] \in {"decide", "append"} /\ apc'[a] \in {"append", "reread"}
          /\ version'[a] = version[a] /\ base'[a] = base[a] /\ attempt'[a] = attempt[a]
      BY <1>0, <1>3 DEF DecideAppend, AppendConflict, TypeOK
    <2> QED BY <1>b, <2>1
  <1>4. CASE Reread(a)
    <2>1. /\ apc[a] = "reread" /\ apc'[a] = "decide" /\ base'[a] = base[a]
          /\ version'[a] = VersionAfterRead(log, version[a]) /\ attempt'[a] = attempt[a] + 1
      BY <1>0, <1>4 DEF Reread, TypeOK
    <2>2. IsFold(log, state[a], version[a]) /\ state[a] \in History
      BY <1>0, <2>1 DEF StateIsFold, TypeOK
    <2>3. VersionAfterRead(log, version[a]) = Len(log) - 1
      BY <1>a, <1>b, <2>2, FoldRead
    <2>4. version[a] < LastVersion(log)
      BY <2>1 DEF AppendsOK
    <2> QED BY <1>a, <1>b, <2>1, <2>3, <2>4 DEF LastVersion, Versions, None
  <1>5. CASE DecideNothing(a) \/ EncodeFails(a) \/ AppendOk(a) \/ AppendFails(a)
             \/ RereadFails(a) \/ GiveUp(a) \/ InjectFails(a) \/ InjectRead(a)
    <2>1. apc'[a] = "recv" /\ attempt'[a] = 0
      BY <1>0, <1>5 DEF DecideNothing, EncodeFails, AppendOk, AppendFails, RereadFails, GiveUp,
         InjectFails, InjectRead, Resume, TypeOK
    <2> QED BY <2>1
  <1>6. CASE RecvGetState(a) \/ RecvInject(a) \/ InjectOk(a) \/ RecvShutdown(a)
             \/ ChannelClosed(a) \/ IdleTimeout(a) \/ Exit(a)
    <2>1. /\ apc[a] \in {"recv", "inject", "exiting"} /\ attempt' = attempt
          /\ apc'[a] \in {"recv", "inject", "inject_read", "exiting", "gone"}
      BY <1>0, <1>6 DEF RecvGetState, RecvInject, InjectOk, RecvShutdown, ChannelClosed,
         IdleTimeout, Exit, Leave, NextMessage, TypeOK
    <2> QED BY <1>b, <2>1
  <1>7. ASSUME NEW k \in Calls, SpawnCatchUp(k, a)
        PROVE  apc[a] = "gone" /\ apc'[a] = "recv" /\ attempt'[a] = attempt[a]
    BY <1>0, <1>7 DEF SpawnCatchUp, Unused, TypeOK
  <1>8. CASE Crash
    BY <1>8 DEF Crash
  <1> QED
    BY <1>0, <1>b, <1>1, <1>2, <1>3, <1>4, <1>5, <1>6, <1>7, <1>8, ActorSteps
       DEF ActorMoves, Own, ActorStep

-----------------------------------------------------------------------------
(* Answers                                                                  *)

\* Nobody has the message of call k.
Nowhere(k) ==
    \A a \in Actors : cur[a] # k /\ \A i \in 1 .. Len(mailbox[a]) : mailbox[a][i] # k

\* A message comes from nowhere only when its caller sends it.
LEMMA NowhereStays ==
    ASSUME TypeInv, [Next]_vars, NEW k \in Calls, Nowhere(k), cpc[k] # "ready"
    PROVE  Nowhere(k)'
  <1>0. TypeOK /\ mailbox \in [Actors -> Seq(Calls)] /\ cur \in [Actors -> Calls \cup {Other}]
        /\ k # Other
    BY ConstantsAssumption DEF TypeInv, TypeOK
  <1> SUFFICES ASSUME NEW a \in Actors
               PROVE  /\ cur'[a] # k
                      /\ \A i \in 1 .. Len(mailbox'[a]) : mailbox'[a][i] # k
    BY DEF Nowhere
  <1>a. /\ cur[a] # k /\ mailbox[a] \in Seq(Calls)
        /\ \A i \in 1 .. Len(mailbox[a]) : mailbox[a][i] # k
    BY <1>0 DEF Nowhere
  <1>1. CASE UNCHANGED <<mailbox, cur>>
    BY <1>1, <1>a
  <1>2. ASSUME NEW b \in Actors, mailbox' = mailbox, cur' = [cur EXCEPT ![b] = Other]
        PROVE  /\ cur'[a] # k
               /\ \A i \in 1 .. Len(mailbox'[a]) : mailbox'[a][i] # k
    BY <1>0, <1>2, <1>a
  <1>3. ASSUME NEW j \in Calls, cpc[j] = "ready", handle[j] \in Actors,
               mailbox' = [mailbox EXCEPT ![handle[j]] = Append(mailbox[handle[j]], j)],
               cur' = cur
        PROVE  /\ cur'[a] # k
               /\ \A i \in 1 .. Len(mailbox'[a]) : mailbox'[a][i] # k
    <2>1. j # k
      BY <1>3
    <2>2. mailbox'[a] = mailbox[a] \/ mailbox'[a] = Append(mailbox[a], j)
      BY <1>0, <1>3
    <2> QED BY <1>3, <1>a, <2>1, <2>2, AppendElements
  <1>4. ASSUME NEW b \in Actors, mailbox[b] # <<>>,
               mailbox' = [mailbox EXCEPT ![b] = Tail(mailbox[b])],
               cur' = cur \/ cur' = [cur EXCEPT ![b] = Head(mailbox[b])]
        PROVE  /\ cur'[a] # k
               /\ \A i \in 1 .. Len(mailbox'[a]) : mailbox'[a][i] # k
    <2>1. /\ mailbox'[a] = mailbox[a] \/ (a = b /\ mailbox'[a] = Tail(mailbox[a]))
          /\ cur'[a] = cur[a] \/ (a = b /\ cur'[a] = Head(mailbox[a]))
      BY <1>0, <1>4
    <2>2. ASSUME mailbox[a] # <<>>
          PROVE  /\ Head(mailbox[a]) # k
                 /\ \A i \in 1 .. Len(Tail(mailbox[a])) : Tail(mailbox[a])[i] # k
      BY <1>a, <2>2
    <2> QED BY <1>4, <1>a, <2>1, <2>2
  <1>5. ASSUME NEW b \in Actors, mailbox' = [mailbox EXCEPT ![b] = <<>>], cur' = cur
        PROVE  /\ cur'[a] # k
               /\ \A i \in 1 .. Len(mailbox'[a]) : mailbox'[a][i] # k
    <2>1. mailbox'[a] = mailbox[a] \/ Len(mailbox'[a]) = 0
      BY <1>0, <1>5
    <2> QED BY <1>5, <1>a, <2>1
  <1>6. CASE mailbox' = [b \in Actors |-> <<>>] /\ cur' = [b \in Actors |-> Other]
    BY <1>0, <1>6
  <1> QED
    BY <1>0, <1>1, <1>2, <1>3, <1>4, <1>5, <1>6, MessageSteps DEF MessagesMove

\* An answer that an actor gives takes the message out of its hands; no request
\* of the call is left, unless the answer is a transport error.
LEMMA AnswerEnds ==
    ASSUME FoldInv, RequestsOK, AppendsOK, NEW a \in Actors, NEW k \in Calls, cur[a] = k,
           Answers(a, k), [Next]_vars, reply'[k].tag \in Final
    PROVE  /\ log' = log /\ rpc'[k].status = "none" /\ reply'[k].at < Len(log)
           /\ Nowhere(k)' /\ req' = req
  <1>0. TypeInv /\ TypeOK /\ LocalsOK /\ OnePlace /\ StateIsFold /\ AppendInFlight
    BY DEF FoldInv, PlaceInv, TypeInv
  <1>a. version[a] \in Versions /\ base[a] \in Versions
    BY <1>0 DEF TypeOK
  <1>1. reply'[k] # Reply("transport", <<>>, a, version[a])
    BY DEF Reply, Final
  <1>2. /\ log' = log /\ mailbox' = mailbox /\ cur' = [cur EXCEPT ![a] = Other]
        /\ apc[a] # "gone" /\ req' = req
    BY <1>1 DEF Answers, DecideNothing, EncodeFails, AppendOk, GiveUp, InjectRead, Resume, serverVars
  <1>3. Nowhere(k)'
    <2>1. cur \in [Actors -> Calls \cup {Other}] /\ Other # k
      BY <1>0, ConstantsAssumption DEF TypeOK
    <2>2. \A b \in Actors : cur'[b] # k
      BY <1>0, <1>2, <2>1 DEF OnePlace
    <2>3. \A b \in Actors : \A i \in 1 .. Len(mailbox[b]) : mailbox[b][i] # k
      BY <1>0 DEF OnePlace
    <2> QED BY <1>2, <2>2, <2>3 DEF Nowhere
  <1>4. ASSUME DecideNothing(a) \/ EncodeFails(a) \/ GiveUp(a)
        PROVE  rpc'[k].status = "none"
    <2>1. apc[a] = "decide" /\ rpc' = rpc
      BY <1>4 DEF DecideNothing, EncodeFails, GiveUp, serverVars
    <2> QED BY <2>1 DEF RequestsOK, Untouched
  <1>5. ASSUME InjectRead(a)
        PROVE  rpc'[k].status = "none"
    <2>1. apc[a] = "inject_read" /\ rpc' = rpc
      BY <1>5 DEF InjectRead, serverVars
    <2> QED BY <2>1 DEF AppendsOK
  <1>6. ASSUME AppendOk(a)
        PROVE  rpc'[k].status = "none"
    <2>1. rpc'[k] = NoRpc
      BY <1>0, <1>6 DEF AppendOk, TypeOK
    <2> QED BY <2>1, RecordTypes
  <1>7. rpc'[k].status = "none"
    BY <1>1, <1>4, <1>5, <1>6 DEF Answers
  <1>8. version[a] < Len(log)
    BY <1>0, <1>2 DEF StateIsFold, IsFold
  <1>9. AppendOk(a) => rpc[k].last < Len(log)
    BY <1>0 DEF AppendOk, AppendInFlight
  <1>10. reply'[k].at \in {version[a], rpc[k].last} /\ (AppendOk(a) \/ reply'[k].at = version[a])
    BY <1>1 DEF Answers, Reply
  <1> QED BY <1>2, <1>3, <1>7, <1>8, <1>9, <1>10

\* AnswersOK is preserved: after a final reply nothing more can come of a call.
LEMMA AnswersStep ==
    ASSUME HandleOK, FoldInv, RequestsOK, AppendsOK, AnswersOK, [Next]_vars
    PROVE  AnswersOK'
  <1>0. /\ PlaceInv /\ TypeInv /\ TypeOK /\ LocalsOK /\ OnePlace /\ StateIsFold
    BY DEF FoldInv, PlaceInv, TypeInv
  <1>a. log \in Seq(Recorded) /\ Len(log) \in Nat /\ mailbox \in [Actors -> Seq(Calls)]
    BY <1>0 DEF TypeOK
  <1>b. \A t \in Tags : Refusal(t).tag = t /\ Refusal(t).at < Len(log)
    BY <1>a DEF Refusal, NoReply, None
  <1> SUFFICES ASSUME NEW k \in Calls
               PROVE  /\ reply'[k].tag # "none" => cpc'[k] = "done"
                      /\ reply'[k].tag \in Final =>
                             /\ rpc'[k].status = "none"
                             /\ reply'[k].at < Len(log')
                             /\ Nowhere(k)'
    BY DEF AnswersOK, Nowhere
  <1>1. CallMoves(k)
    BY <1>0, CallSteps
  <1>2. reply'[k].tag # "none" => cpc'[k] = "done"
    BY <1>1 DEF CallMoves, Returns, AnswersOK
  <1> SUFFICES ASSUME reply'[k].tag \in Final
               PROVE  rpc'[k].status = "none" /\ reply'[k].at < Len(log') /\ Nowhere(k)'
    BY <1>2
  <1>3. CASE reply'[k] = reply[k]
    <2>1. /\ rpc[k].status = "none" /\ reply[k].at < Len(log) /\ Nowhere(k) /\ cpc[k] = "done"
      BY <1>3 DEF AnswersOK, Nowhere, Final
    <2>2. Nowhere(k)'
      BY <1>0, <2>1, NowhereStays
    <2>3. ASSUME NEW a \in Actors, mailbox[a] # <<>>
          PROVE  Head(mailbox[a]) # k
      <3>1. mailbox[a] \in Seq(Calls)
        BY <1>a
      <3>2. Head(mailbox[a]) = mailbox[a][1] /\ 1 \in 1 .. Len(mailbox[a])
        BY <2>3, <3>1
      <3> QED BY <2>1, <3>2 DEF Nowhere
    <2>4. Unrelated(k)
      BY <1>0, <2>1, <2>3, TraceSteps DEF TraceMoves, Nowhere, ServerAppend
    <2>5. PICK m \in Seq(Recorded) : log' = log \o m
      BY <2>4 DEF Unrelated
    <2>6. Len(log') >= Len(log) /\ Len(log') \in Nat
      BY <1>a, <2>5
    <2>7. rpc'[k].status = "none"
      BY <2>1, <2>4, RecordTypes DEF Unrelated
    <2>8. reply[k].at \in Versions
      BY <1>0 DEF TypeOK, Replies
    <2>9. reply'[k].at < Len(log')
      BY <1>3, <1>a, <2>1, <2>6, <2>8 DEF Versions, None
    <2> QED BY <2>2, <2>7, <2>9
  <1>4. CASE Returns(k)
    <2>1. ASSUME NEW t \in {"sent", "abandoned", "crashed"}, reply'[k] = Refusal(t)
          PROVE  FALSE
      BY <1>b, <2>1 DEF Final, Tags
    <2>2. ASSUME cpc[k] # "queued", UNCHANGED <<log, rpc, mailbox, cur>>,
                 NEW t \in {"spawn_error", "actor_gone"}, reply'[k] = Refusal(t)
          PROVE  rpc'[k].status = "none" /\ reply'[k].at < Len(log') /\ Nowhere(k)'
      <3>1. cpc[k] \notin Settled
        BY <1>4, <2>2 DEF Returns, Settled
      <3>2. rpc[k].status = "none"
        BY <3>1 DEF RequestsOK, Untouched
      <3>3. Nowhere(k)'
        BY <1>0, <2>2, <3>1 DEF LocalsOK, Nowhere
      <3> QED BY <1>b, <2>2, <3>2, <3>3 DEF Tags
    <2>3. ASSUME NEW a \in Actors, Exit(a), reply'[k] = Refusal("actor_gone"),
                 NEW i \in 1 .. Len(mailbox[a]), mailbox[a][i] = k
          PROVE  rpc'[k].status = "none" /\ reply'[k].at < Len(log') /\ Nowhere(k)'
      <3>1. rpc[k].status = "none"
        BY <2>3 DEF RequestsOK, Untouched
      <3>2. /\ log' = log /\ rpc' = rpc /\ mailbox' = [mailbox EXCEPT ![a] = <<>>] /\ cur' = cur
        BY <2>3 DEF Exit, serverVars
      <3>3. \A b \in Actors : cur'[b] # k
        BY <1>0, <2>3, <3>2 DEF OnePlace
      <3>4. \A b \in Actors : b # a => \A j \in 1 .. Len(mailbox[b]) : mailbox[b][j] # k
        BY <1>0, <2>3 DEF OnePlace
      <3>5. \A b \in Actors : mailbox'[b] = IF b = a THEN <<>> ELSE mailbox[b]
        BY <1>a, <3>2
      <3>6. \A b \in Actors : \A j \in 1 .. Len(mailbox'[b]) : mailbox'[b][j] # k
        BY <3>4, <3>5
      <3>7. reply'[k].at < Len(log)
        BY <1>b, <2>3 DEF Tags
      <3> QED BY <3>1, <3>2, <3>3, <3>6, <3>7 DEF Nowhere
    <2>4. ASSUME NEW a \in Actors, cur[a] = k, Answers(a, k)
          PROVE  rpc'[k].status = "none" /\ reply'[k].at < Len(log') /\ Nowhere(k)'
      BY <2>4, AnswerEnds
    <2>5. ASSUME NEW a \in Actors, RecvGetState(a), mailbox[a][1] = k,
                 reply'[k] = Reply("state", state[a], a, version[a])
          PROVE  rpc'[k].status = "none" /\ reply'[k].at < Len(log') /\ Nowhere(k)'
      <3>1. /\ apc[a] = "recv" /\ mailbox[a] # <<>> /\ log' = log /\ rpc' = rpc /\ cur' = cur
            /\ mailbox' = [mailbox EXCEPT ![a] = Tail(mailbox[a])]
        BY <2>5 DEF RecvGetState, NextMessage, serverVars
      <3>2. mailbox[a] \in Seq(Calls)
        BY <1>a
      <3>3. /\ 1 \in 1 .. Len(mailbox[a])
            /\ \A j \in 1 .. Len(Tail(mailbox[a])) :
                   j + 1 \in 1 .. Len(mailbox[a]) /\ j + 1 # 1 /\ Tail(mailbox[a])[j] = mailbox[a][j + 1]
        BY <3>1, <3>2
      <3>4. rpc[k].status = "none"
        BY <2>5, <3>3 DEF RequestsOK, Untouched
      <3>5. \A b \in Actors : cur[b] # k
        BY <1>0, <2>5, <3>3 DEF OnePlace
      <3>6. \A b \in Actors, j \in Nat : j \in 1 .. Len(mailbox[b]) /\ mailbox[b][j] = k => b = a /\ j = 1
        BY <1>0, <2>5, <3>3 DEF OnePlace
      <3>7. \A b \in Actors : mailbox'[b] = IF b = a THEN Tail(mailbox[a]) ELSE mailbox[b]
        BY <1>a, <3>1
      <3>8. ASSUME NEW b \in Actors, NEW j \in 1 .. Len(mailbox'[b])
            PROVE  mailbox'[b][j] # k
        <4>1. CASE b = a
          <5>1. j \in 1 .. Len(Tail(mailbox[a])) /\ mailbox'[b][j] = Tail(mailbox[a])[j]
            BY <3>7, <3>8, <4>1
          <5>2. j + 1 \in Nat
            BY <3>8
          <5> QED BY <3>3, <3>6, <5>1, <5>2
        <4>2. CASE b # a
          <5>1. j \in 1 .. Len(mailbox[b]) /\ mailbox'[b][j] = mailbox[b][j] /\ j \in Nat
            BY <3>7, <3>8, <4>2
          <5> QED BY <3>6, <4>2, <5>1
        <4> QED BY <4>1, <4>2
      <3>9. version[a] < Len(log)
        BY <1>0, <3>1 DEF StateIsFold, IsFold
      <3>10. reply'[k].at = version[a]
        BY <2>5 DEF Reply
      <3> QED BY <3>1, <3>4, <3>5, <3>8, <3>9, <3>10 DEF Nowhere
    <2> QED BY <1>4, <2>1, <2>2, <2>3, <2>4, <2>5 DEF Returns
  <1> QED BY <1>1, <1>3, <1>4 DEF CallMoves

-----------------------------------------------------------------------------
(* Commands are atomic                                                      *)

\* A sequence is its own longest prefix, and what was appended is its end.
LEMMA WholeAndEnd ==
    ASSUME NEW l \in Seq(Recorded), NEW m \in Seq(Recorded)
    PROVE  /\ SubSeq(l, 1, Len(l)) = l
           /\ SubSeq(l \o m, Len(l) + 1, Len(l) + Len(m)) = m
  <1>1. SubSeq(l, 1, Len(l)) = l
    <2>1. Len(l) \in Nat /\ \A i \in 1 .. Len(l) : l[i] \in Recorded
      OBVIOUS
    <2>2. /\ SubSeq(l, 1, Len(l)) \in Seq(Recorded)
          /\ Len(SubSeq(l, 1, Len(l))) = IF 1 <= Len(l) THEN Len(l) - 1 + 1 ELSE 0
          /\ \A i \in 1 .. Len(l) - 1 + 1 : SubSeq(l, 1, Len(l))[i] = l[1 + i - 1]
      BY <2>1, SubSeqProperties
    <2>3. /\ Len(SubSeq(l, 1, Len(l))) = Len(l)
          /\ \A i \in 1 .. Len(l) : SubSeq(l, 1, Len(l))[i] = l[i]
      BY <2>1, <2>2
    <2> QED BY <2>2, <2>3, SeqEqual
  <1>2. SubSeq(l \o m, Len(l) + 1, Len(l) + Len(m)) = m
    <2>1. /\ Len(l) \in Nat /\ Len(m) \in Nat
          /\ \A i \in 1 .. Len(m) : (l \o m)[Len(l) + i] = m[i] /\ m[i] \in Recorded
      BY PrefixStays
    <2>2. PICK w : w = l \o m
      OBVIOUS
    <2>3. PICK p \in Nat : p = Len(l) + 1
      BY <2>1
    <2>4. PICK q \in Nat : q = Len(l) + Len(m)
      BY <2>1
    <2>5. \A i \in p .. q : w[i] \in Recorded
      <3> SUFFICES ASSUME NEW i \in p .. q PROVE w[i] \in Recorded
        OBVIOUS
      <3>1. i - Len(l) \in 1 .. Len(m) /\ i = Len(l) + (i - Len(l))
        BY <2>1, <2>3, <2>4
      <3> QED BY <2>1, <2>2, <3>1
    <2>6. /\ SubSeq(w, p, q) \in Seq(Recorded)
          /\ Len(SubSeq(w, p, q)) = IF p <= q THEN q - p + 1 ELSE 0
          /\ \A i \in 1 .. q - p + 1 : SubSeq(w, p, q)[i] = w[p + i - 1]
      BY <2>5, SubSeqProperties
    <2>7. Len(SubSeq(w, p, q)) = Len(m) /\ q - p + 1 = Len(m)
      BY <2>1, <2>3, <2>4, <2>6
    <2>8. ASSUME NEW i \in 1 .. Len(m)
          PROVE  SubSeq(w, p, q)[i] = m[i]
      <3>1. p + i - 1 = Len(l) + i
        BY <2>1, <2>3
      <3> QED BY <2>1, <2>2, <2>6, <2>7, <3>1
    <2>9. SubSeq(w, p, q) = m
      BY <2>6, <2>7, <2>8, SeqEqual
    <2> QED BY <2>2, <2>3, <2>4, <2>9
  <1> QED BY <1>1, <1>2

\* An append that the server accepts was decided on all that is in the stream.
LEMMA DecidedNow ==
    ASSUME HandleOK, TypeInv, RequestsOK, NEW k \in Calls, rpc[k].status = "sent",
           req[k].kind = "execute", Accepts(log, rpc[k].expected)
    PROVE  \E ds \in Seq(DomainEvents) :
               /\ Handle(Visit(log), req[k].arg).ok
               /\ Handle(Visit(log), req[k].arg).events = ds
               /\ rpc[k].events = EncodeAll(ds, k)
               /\ Len(rpc[k].events) = Len(ds)
  <1>0. TypeOK /\ log \in Seq(Recorded) /\ Len(log) \in Nat /\ req[k] \in Requests \cup {NoRequest}
    BY DEF TypeInv, TypeOK
  <1>1. PICK v \in None .. LastVersion(log) :
            LET d == Handle(Visit(SubSeq(log, 1, v + 1)), req[k].arg)
            IN  /\ rpc[k].expected = ExpectedVersion(v)
                /\ d.ok
                /\ rpc[k].events = EncodeAll(d.events, k)
    BY DEF RequestsOK
  <1>2. v \in Versions /\ v < Len(log)
    BY <1>0 DEF Versions, None, LastVersion
  <1>3. v = LastVersion(log)
    BY <1>0, <1>1, <1>2, AcceptsExactly
  <1>4. v + 1 = Len(log)
    BY <1>0, <1>3 DEF LastVersion
  <1>5. SubSeq(log, 1, v + 1) = log
    BY <1>0, <1>4, WholeAndEnd
  <1>6. Visit(log) \in History /\ req[k].arg \in Commands
    BY <1>0, VisitType, CommandOf
  <1>7. PICK ds \in Seq(DomainEvents) : ds = Handle(Visit(log), req[k].arg).events
    BY <1>6 DEF HandleOK
  <1>8. rpc[k].events = EncodeAll(ds, k) /\ Handle(Visit(log), req[k].arg).ok
    BY <1>1, <1>5, <1>7
  <1>9. Len(rpc[k].events) = Len(ds)
    BY <1>8, EncodeType
  <1> QED BY <1>7, <1>8, <1>9

\* CommandsAreAtomic is preserved: the events of a command come into the stream
\* in one step, at its end, and stay where they are.
LEMMA AtomicStep ==
    ASSUME HandleOK, FoldInv, RequestsOK, CommandsAreAtomic, [Next]_vars
    PROVE  CommandsAreAtomic'
  <1>0. PlaceInv /\ TypeInv /\ TypeOK
    BY DEF FoldInv, PlaceInv, TypeInv
  <1>a. log \in Seq(Recorded) /\ Len(log) \in Nat /\ mailbox \in [Actors -> Seq(Calls)]
    BY <1>0 DEF TypeOK
  <1> SUFFICES ASSUME NEW k \in Calls, req'[k].kind = "execute", Written(k)' # {}
               PROVE  \E n \in 0 .. Len(log') - 1 :
                          LET d == Handle(Visit(SubSeq(log', 1, n)), req'[k].arg)
                          IN  /\ d.ok
                              /\ Written(k)' = (n + 1) .. (n + Len(d.events))
                              /\ SubSeq(log', n + 1, n + Len(d.events)) = EncodeAll(d.events, k)
    BY DEF CommandsAreAtomic
  <1>1. CASE Unrelated(k)
    <2>1. PICK m \in Seq(Recorded) : log' = log \o m /\ \A i \in 1 .. Len(m) : m[i].by # k
      BY <1>1 DEF Unrelated
    <2>2. Written(k)' = Written(k) /\ Len(log') \in Nat /\ Len(log') >= Len(log)
      BY <1>a, <2>1, WrittenStays
    <2>3. ~Untouched(k)
      BY <2>2 DEF Untouched, Written
    <2>4. cpc[k] # "new"
      BY <2>3 DEF RequestsOK, Settled
    <2>5. req'[k] = req[k]
      BY <1>0, <2>4, CallSteps DEF CallMoves
    <2>6. PICK n \in 0 .. Len(log) - 1 :
              LET d == Handle(Visit(SubSeq(log, 1, n)), req[k].arg)
              IN  /\ d.ok
                  /\ Written(k) = (n + 1) .. (n + Len(d.events))
                  /\ SubSeq(log, n + 1, n + Len(d.events)) = EncodeAll(d.events, k)
      BY <2>2, <2>5 DEF CommandsAreAtomic
    <2>7. n \in Nat /\ n <= Len(log) /\ n \in 0 .. Len(log') - 1
      BY <1>a, <2>2
    <2>8. SubSeq(log', 1, n) = SubSeq(log, 1, n)
      BY <1>a, <2>1, <2>7, PrefixStays
    <2>9. SubSeq(log, 1, n) \in Seq(Recorded)
      BY <1>a, <2>7
    <2>10. req[k] \in Requests \cup {NoRequest}
      BY <1>0 DEF TypeOK
    <2>11. PICK ds \in Seq(DomainEvents) : ds = Handle(Visit(SubSeq(log, 1, n)), req[k].arg).events
      BY <2>5, <2>9, <2>10, VisitType, CommandOf DEF HandleOK
    <2>12. n + Len(ds) \in Nat /\ n + Len(ds) <= Len(log)
      <3>1. Len(ds) \in Nat /\ Written(k) = (n + 1) .. (n + Len(ds))
        BY <2>6, <2>11
      <3>2. Len(ds) # 0
        BY <2>2, <2>7, <3>1
      <3>3. n + Len(ds) \in Written(k)
        BY <2>7, <3>1, <3>2
      <3>4. n + Len(ds) \in 1 .. Len(log)
        BY <3>3 DEF Written
      <3> QED BY <1>a, <3>4
    <2>13. SubSeq(log', n + 1, n + Len(ds)) = SubSeq(log, n + 1, n + Len(ds))
      BY <1>a, <2>1, <2>7, <2>12, PrefixStays
    <2> QED BY <2>2, <2>5, <2>6, <2>7, <2>8, <2>11, <2>13
  <1>2. CASE ServerAppend(k)
    <2>1. rpc[k].status = "sent" /\ req' = req
      BY <1>2 DEF ServerAppend, callVars
    <2>2. /\ rpc[k].events \in Seq(Recorded)
          /\ \A i \in 1 .. Len(rpc[k].events) : rpc[k].events[i].by = k
          /\ \A i \in 1 .. Len(log) : log[i].by # k
      BY <1>0, <2>1, OwnEvents DEF RequestsOK
    <2>3. CASE Accepts(log, rpc[k].expected)
      <3>1. log' = log \o rpc[k].events
        BY <1>2, <2>3 DEF ServerAppend
      <3>2. PICK ds \in Seq(DomainEvents) :
                /\ Handle(Visit(log), req[k].arg).ok
                /\ Handle(Visit(log), req[k].arg).events = ds
                /\ rpc[k].events = EncodeAll(ds, k)
                /\ Len(rpc[k].events) = Len(ds)
        BY <1>0, <2>1, <2>3, DecidedNow
      <3>3. /\ Written(k)' = (Len(log) + 1) .. Len(log')
            /\ Len(log') = Len(log) + Len(rpc[k].events) /\ Len(rpc[k].events) \in Nat
        BY <1>a, <2>2, <3>1, WrittenNow
      <3>4. Len(log) \in 0 .. Len(log') - 1
        BY <1>a, <3>3
      <3>5. SubSeq(log', 1, Len(log)) = log
        <4>1. SubSeq(log', 1, Len(log)) = SubSeq(log, 1, Len(log))
          BY <1>a, <2>2, <3>1, PrefixStays
        <4> QED BY <1>a, <4>1, WholeAndEnd
      <3>6. SubSeq(log', Len(log) + 1, Len(log) + Len(ds)) = rpc[k].events
        BY <1>a, <2>2, <3>1, <3>2, WholeAndEnd
      <3> QED BY <2>1, <3>2, <3>3, <3>4, <3>5, <3>6
    <2>4. CASE ~Accepts(log, rpc[k].expected)
      <3>1. log' = log
        BY <1>2, <2>4 DEF ServerAppend
      <3> QED BY <2>2, <3>1 DEF Written
    <2> QED BY <2>3, <2>4
  <1>3. ASSUME NEW a \in Actors, cur[a] = k, DecideAppend(a)
        PROVE  FALSE
    <2>1. apc[a] = "decide" /\ log' = log
      BY <1>3 DEF DecideAppend
    <2> QED BY <1>3, <2>1 DEF RequestsOK, Untouched, Written
  <1>4. ASSUME NEW a \in Actors, mailbox[a] # <<>>, Head(mailbox[a]) = k, RecvInject(a)
        PROVE  FALSE
    <2>1. mailbox[a] \in Seq(Calls) /\ log' = log
      BY <1>4, <1>a DEF RecvInject
    <2>2. 1 \in 1 .. Len(mailbox[a]) /\ mailbox[a][1] = k
      BY <1>4, <2>1
    <2> QED BY <2>1, <2>2 DEF RequestsOK, Untouched, Written
  <1> QED
    BY <1>0, <1>1, <1>2, <1>3, <1>4, TraceSteps DEF TraceMoves

-----------------------------------------------------------------------------
(* Replies tell the truth                                                   *)

\* RepliesOK, for one call.
TellsTruth(k) ==
    LET r    == reply[k]
        past == Visit(SubSeq(log, 1, r.at + 1))
    IN  /\ r.tag \in {"domain", "io", "wrong_expected_version", "actor_gone", "spawn_error"} =>
               Written(k) = {} /\ rpc[k].status # "sent"
        /\ r.tag = "ok" =>
               /\ Written(k) = (r.at + 2 - Len(r.val)) .. (r.at + 1)
               /\ Visit(SubSeq(log, r.at + 2 - Len(r.val), r.at + 1)) = r.val
        /\ r.tag = "injected" =>
               \E i \in 1 .. Len(log) : Written(k) = {i} /\ log[i] = Stamp(req[k].arg, k)
        /\ r.tag = "state" => r.val = past
        /\ r.tag = "domain" => ~Handle(past, req[k].arg).ok
        /\ r.tag = "ok" /\ r.val = <<>> =>
               Handle(past, req[k].arg) = [ok |-> TRUE, events |-> <<>>]
        /\ r.tag = "wrong_expected_version" => r.at >= r.base + MAX_RETRIES

\* The four properties about replies say the same, one aspect at a time.
LEMMA TruthOfAll ==
    RepliesOK <=> \A k \in Calls : TellsTruth(k)
  <1>1. RepliesOK => \A k \in Calls : TellsTruth(k)
    BY DEF RepliesOK, TellsTruth, ErrorMeansNoEffect, OkMeansAppended, AnswersComeFromHistory,
       GaveUpOnlyUnderContention
  <1>2. (\A k \in Calls : TellsTruth(k)) => RepliesOK
    BY DEF RepliesOK, TellsTruth, ErrorMeansNoEffect, OkMeansAppended, AnswersComeFromHistory,
       GaveUpOnlyUnderContention
  <1> QED BY <1>1, <1>2

\* A reply that has been given stays true: what it speaks of is in the past.
LEMMA TruthStays ==
    ASSUME HandleOK, FoldInv, RequestsOK, AnswersOK, AnswersOK', [Next]_vars,
           NEW k \in Calls, TellsTruth(k), reply'[k] = reply[k]
    PROVE  TellsTruth(k)'
  <1>0. TypeInv /\ TypeOK /\ log \in Seq(Recorded) /\ Len(log) \in Nat
    BY DEF FoldInv, PlaceInv, TypeInv, TypeOK
  <1>1. CASE reply[k].tag \notin Final
    BY <1>1 DEF TellsTruth, Final
  <1>2. CASE reply[k].tag \in Final
    <2>1. /\ rpc[k].status = "none" /\ reply[k].at < Len(log) /\ Nowhere(k) /\ cpc[k] = "done"
      BY <1>2 DEF AnswersOK, Nowhere, Final
    <2>2. ASSUME NEW a \in Actors, mailbox[a] # <<>>
          PROVE  Head(mailbox[a]) # k
      <3>1. mailbox[a] \in Seq(Calls)
        BY <1>0 DEF TypeOK
      <3>2. Head(mailbox[a]) = mailbox[a][1] /\ 1 \in 1 .. Len(mailbox[a])
        BY <2>2, <3>1
      <3> QED BY <2>1, <3>2 DEF Nowhere
    <2>3. Unrelated(k)
      BY <1>0, <2>1, <2>2, TraceSteps DEF TraceMoves, Nowhere, ServerAppend
    <2>4. req'[k] = req[k]
      BY <1>0, <2>1, CallSteps DEF CallMoves
    <2>5. PICK m \in Seq(Recorded) : log' = log \o m /\ \A i \in 1 .. Len(m) : m[i].by # k
      BY <2>3 DEF Unrelated
    <2>6. /\ Written(k)' = Written(k) /\ Len(log') \in Nat /\ Len(log') >= Len(log)
          /\ \A i \in 1 .. Len(log) : log'[i] = log[i]
      BY <1>0, <2>5, WrittenStays
    <2>7. \A n, j \in Nat : 1 <= n /\ j <= Len(log) => SubSeq(log', n, j) = SubSeq(log, n, j)
      BY <1>0, <2>5, PrefixStays, SMTT(30)
    <2>8. reply[k] \in Replies /\ reply[k].at + 1 \in Nat /\ reply[k].at + 1 <= Len(log)
      <3>1. reply[k] \in Replies
        BY <1>0 DEF TypeOK
      <3>2. reply[k].at \in Versions
        BY <3>1 DEF Replies
      <3> QED BY <1>0, <2>1, <3>1, <3>2 DEF Versions, None
    <2>9. SubSeq(log', 1, reply[k].at + 1) = SubSeq(log, 1, reply[k].at + 1)
      <3>1. PICK t \in Nat : t = reply[k].at + 1 /\ t <= Len(log)
        BY <2>8
      <3>2. SubSeq(log', 1, t) = SubSeq(log, 1, t)
        BY <2>7, <3>1, SMTT(30)
      <3> QED BY <3>1, <3>2
    <2>10. ASSUME reply[k].tag = "ok"
           PROVE  SubSeq(log', reply[k].at + 2 - Len(reply[k].val), reply[k].at + 1)
                      = SubSeq(log, reply[k].at + 2 - Len(reply[k].val), reply[k].at + 1)
      <3>1. PICK l \in Nat : l = Len(reply[k].val)
        BY <2>8 DEF Replies, History
      <3>2. PICK t \in Nat : t = reply[k].at + 1
        BY <2>8
      <3>3. Written(k) = (reply[k].at + 2 - l) .. t
        BY <2>10, <3>1, <3>2 DEF TellsTruth
      <3>4. reply[k].at \in Int
        BY <2>8 DEF Replies, Versions, None
      <3>5. reply[k].at + 2 - l = t + 1 - l
        BY <3>2, <3>4, SMTT(30)
      <3>6. t + 1 - l \in Nat /\ 1 <= t + 1 - l
        <4>1. CASE l = 0
          BY <4>1
        <4>2. CASE l # 0
          <5>1. t + 1 - l \in Written(k)
            BY <3>3, <3>5, <4>2
          <5>2. t + 1 - l \in 1 .. Len(log)
            BY <5>1 DEF Written
          <5> QED BY <1>0, <5>2
        <4> QED BY <4>1, <4>2
      <3> QED BY <2>7, <2>8, <3>1, <3>2, <3>5, <3>6
    <2>11. \A i \in 1 .. Len(log) : i \in 1 .. Len(log')
      BY <1>0, <2>6
    <2>12. rpc'[k].status = "none"
      BY <1>2 DEF AnswersOK
    <2> QED BY <2>4, <2>6, <2>9, <2>10, <2>11, <2>12 DEF TellsTruth
  <1> QED BY <1>1, <1>2

\* A stretch of the stream that holds encoded domain events is read back as them.
LEMMA VisitSlice ==
    ASSUME NEW l \in Seq(Recorded), NEW n \in Nat, NEW ds \in Seq(DomainEvents), NEW k \in Calls,
           n + Len(ds) <= Len(l), \A i \in 1 .. Len(ds) : l[n + i] = Encode(ds[i], k)
    PROVE  Visit(SubSeq(l, n + 1, n + Len(ds))) = ds
  <1>1. Len(l) \in Nat /\ Len(ds) \in Nat /\ \A i \in 1 .. Len(l) : l[i] \in Recorded
    OBVIOUS
  <1>2. PICK p \in Nat : p = n + 1
    BY <1>1
  <1>3. PICK q \in Nat : q = n + Len(ds)
    BY <1>1
  <1>4. \A i \in p .. q : l[i] \in Recorded
    BY <1>1, <1>2, <1>3
  <1>5. /\ SubSeq(l, p, q) \in Seq(Recorded)
        /\ Len(SubSeq(l, p, q)) = IF p <= q THEN q - p + 1 ELSE 0
        /\ \A i \in 1 .. q - p + 1 : SubSeq(l, p, q)[i] = l[p + i - 1]
    BY <1>4, SubSeqProperties
  <1>6. Len(SubSeq(l, p, q)) = Len(ds) /\ q - p + 1 = Len(ds)
    BY <1>1, <1>2, <1>3, <1>5
  <1>7. PICK w \in Seq(Recorded) : w = SubSeq(l, p, q)
    BY <1>5
  <1>8. ASSUME NEW i \in 1 .. Len(ds)
        PROVE  Visit(w)[i] = ds[i]
    <2>1. p + i - 1 = n + i
      BY <1>2
    <2>2. w[i] = Encode(ds[i], k)
      BY <1>5, <1>6, <1>7, <2>1
    <2>3. i \in 1 .. Len(w) /\ ds[i] \in DomainEvents
      BY <1>6, <1>7
    <2>4. Visit(w)[i] = Decode(w[i].type, w[i].payload)
      BY <2>3, VisitType
    <2> QED BY <2>2, <2>3, <2>4, RoundTrip
  <1>9. Visit(w) \in History /\ Len(Visit(w)) = Len(ds)
    BY <1>6, <1>7, VisitType
  <1>10. ds \in History
    <2>1. ds = [i \in 1 .. Len(ds) |-> ds[i]] /\ \A i \in 1 .. Len(ds) : ds[i] \in DomainEvents \cup {NoEvent}
      OBVIOUS
    <2> QED BY <1>1, <2>1 DEF History
  <1>11. Visit(w) = ds
    BY <1>8, <1>9, <1>10, SeqEqual DEF History
  <1> QED BY <1>2, <1>3, <1>7, <1>11

\* Where an append of c events after version v ends in a log of h events, when n
\* events came before it.
LEMMA EndOfAppend ==
    ASSUME NEW n \in Nat, NEW v \in Int, NEW c \in Nat, NEW h \in Nat, n = v + 1, v + c < h
    PROVE  n + c <= h /\ n + c = v + c + 1 /\ n + 1 = v + c + 2 - c /\ n + 1 = v + 2
  OBVIOUS

\* What an actor answers is true.
LEMMA AnswerTells ==
    ASSUME HandleOK, FoldInv, RequestsOK, AppendsOK, RetriesOK, AnswersOK', [Next]_vars,
           NEW k \in Calls, NEW a \in Actors, cur[a] = k, Answers(a, k)
    PROVE  TellsTruth(k)'
  <1>0. /\ TypeInv /\ TypeOK /\ LocalsOK /\ StateIsFold /\ AppendInFlight
        /\ log \in Seq(Recorded) /\ Len(log) \in Nat
    BY DEF FoldInv, PlaceInv, TypeInv, TypeOK
  <1>1. reply'[k].tag \in Final => rpc'[k].status = "none"
    BY DEF AnswersOK
  <1>2. /\ version[a] \in Versions /\ version[a] + 1 \in Nat /\ attempt[a] \in Nat
        /\ base[a] \in Versions /\ produced[a] \in Seq(DomainEvents) /\ state[a] \in History
    BY <1>0, ConstantsAssumption DEF TypeOK, Versions, None
  <1>3. ASSUME apc[a] # "gone"
        PROVE  version[a] < Len(log) /\ state[a] = Visit(SubSeq(log, 1, version[a] + 1))
    BY <1>0, <1>3 DEF StateIsFold, IsFold
  <1>4. ASSUME apc[a] = "decide", log' = log
        PROVE  Written(k)' = {} /\ Written(k) = {}
    BY <1>4 DEF RequestsOK, Untouched, Written
  <1>5. CASE reply'[k] = Reply("transport", <<>>, a, version[a])
    BY <1>5 DEF TellsTruth, Reply
  <1>6. CASE EncodeFails(a) /\ reply'[k] = Reply("io", <<>>, a, version[a])
    <2>1. apc[a] = "decide" /\ log' = log
      BY <1>6 DEF EncodeFails, serverVars
    <2>2. reply'[k].tag = "io"
      BY <1>6 DEF Reply
    <2> QED BY <1>1, <1>4, <2>1, <2>2 DEF TellsTruth, Final
  <1>7. CASE GiveUp(a) /\ reply'[k] = Reply("wrong_expected_version", <<>>, a, version[a])
    <2>1. apc[a] = "decide" /\ log' = log /\ attempt[a] = MAX_RETRIES
      BY <1>7 DEF GiveUp, serverVars
    <2>2. /\ reply'[k].tag = "wrong_expected_version" /\ reply'[k].at = version[a]
          /\ reply'[k].base = base[a]
      BY <1>7 DEF Reply
    <2>3. version[a] >= base[a] + MAX_RETRIES
      BY <2>1 DEF RetriesOK
    <2> QED BY <1>1, <1>4, <2>1, <2>2, <2>3 DEF TellsTruth, Final
  <1>8. CASE InjectRead(a) /\ reply'[k] = Reply("injected", <<>>, a, version[a])
    <2>1. apc[a] = "inject_read" /\ log' = log /\ req' = req
      BY <1>8 DEF InjectRead, serverVars
    <2>2. reply'[k].tag = "injected"
      BY <1>8 DEF Reply
    <2>3. \E i \in 1 .. Len(log) : Written(k) = {i} /\ log[i] = Stamp(req[k].arg, k)
      BY <2>1 DEF AppendsOK
    <2>4. Written(k)' = Written(k)
      BY <2>1 DEF Written
    <2> QED BY <2>1, <2>2, <2>3, <2>4 DEF TellsTruth
  <1>9. ASSUME DecideNothing(a), NEW t \in {"ok", "domain"},
               t = "ok" <=> Handle(state[a], req[k].arg).ok,
               reply'[k] = Reply(t, <<>>, a, version[a])
        PROVE  TellsTruth(k)'
    <2> DEFINE d == Handle(state[a], req[k].arg)
    <2>1. apc[a] = "decide" /\ log' = log /\ req' = req /\ (d.ok => d.events = <<>>)
      BY <1>9 DEF DecideNothing, serverVars
    <2>2. reply'[k].tag = t /\ reply'[k].at = version[a] /\ reply'[k].val = <<>>
      BY <1>9 DEF Reply
    <2>3. d \in [ok : BOOLEAN, events : Seq(DomainEvents)]
      <3>1. req[k] \in Requests \cup {NoRequest} /\ req[k].kind = "execute"
        BY <1>0, <2>1 DEF TypeOK, LocalsOK
      <3> QED BY <1>2, <3>1, CommandOf DEF HandleOK
    <2>4. state[a] = Visit(SubSeq(log, 1, version[a] + 1)) /\ version[a] < Len(log)
      BY <1>3, <2>1
    <2>5. t = "ok" => d = [ok |-> TRUE, events |-> <<>>]
      BY <1>9, <2>1, <2>3
    <2>6. t = "domain" => ~d.ok
      BY <1>9
    <2>7. Written(k)' = {}
      BY <1>4, <2>1
    <2>8. (version[a] + 2 - Len(<<>>)) .. (version[a] + 1) = {}
      BY <1>2 DEF Versions, None
    <2>9. Visit(SubSeq(log, version[a] + 2 - Len(<<>>), version[a] + 1)) = <<>>
      <3>1. PICK n \in Nat : n = version[a] + 1
        BY <1>2
      <3>2. n + Len(<<>>) <= Len(log) /\ <<>> \in Seq(DomainEvents)
        BY <1>0, <1>2, <2>4, <3>1 DEF Versions, None
      <3>a. PICK ds \in Seq(DomainEvents) : ds = <<>>
        BY <3>2
      <3>b. n + Len(ds) <= Len(log) /\ \A i \in 1 .. Len(ds) : log[n + i] = Encode(ds[i], k)
        BY <3>2, <3>a
      <3>c. Visit(SubSeq(log, n + 1, n + Len(ds))) = ds
        BY <1>0, <3>b, VisitSlice
      <3>3. Visit(SubSeq(log, n + 1, n + Len(<<>>))) = <<>>
        BY <3>a, <3>c
      <3>4. n + 1 = version[a] + 2 - Len(<<>>) /\ n + Len(<<>>) = version[a] + 1
        BY <1>2, <3>1 DEF Versions, None
      <3> QED BY <3>3, <3>4
    <2> HIDE DEF d
    <2>10. rpc'[k].status = "none"
      BY <1>1, <2>2 DEF Final
    <2> QED BY <2>1, <2>2, <2>4, <2>5, <2>6, <2>7, <2>8, <2>9, <2>10 DEF TellsTruth, d
  <1>10. CASE AppendOk(a) /\ reply'[k] = Reply("ok", produced[a], a, rpc[k].last)
    <2>1. apc[a] = "append" /\ rpc[k].status = "ok" /\ log' = log
      BY <1>10 DEF AppendOk
    <2>2. reply'[k].tag = "ok" /\ reply'[k].at = rpc[k].last /\ reply'[k].val = produced[a]
      BY <1>10 DEF Reply
    <2>3. /\ rpc[k].last = version[a] + Len(produced[a]) /\ rpc[k].last < Len(log)
          /\ \A i \in 1 .. Len(produced[a]) : log[version[a] + 1 + i] = Encode(produced[a][i], k)
      BY <1>0, <2>1 DEF AppendInFlight
    <2>4. produced[a] # <<>> /\ Written(k) = (version[a] + 2) .. (rpc[k].last + 1)
      BY <2>1 DEF AppendsOK
    <2>5. PICK n \in Nat : n = version[a] + 1
      BY <1>2
    <2>6. PICK ds \in Seq(DomainEvents) : ds = produced[a]
      BY <1>2
    <2>7. Len(ds) \in Nat
      BY <2>6
    <2>8. /\ n + Len(ds) <= Len(log) /\ n + Len(ds) = rpc[k].last + 1
          /\ n + 1 = rpc[k].last + 2 - Len(ds) /\ n + 1 = version[a] + 2
      <3>1. PICK v \in Int : v = version[a] /\ n = v + 1
        BY <1>2, <2>5 DEF Versions, None
      <3>2. PICK c \in Nat : c = Len(ds)
        BY <2>7
      <3>3. rpc[k].last = v + c /\ rpc[k].last < Len(log)
        BY <2>3, <2>6, <3>1, <3>2
      <3>4. PICK h \in Nat : h = Len(log) /\ v + c < h
        BY <1>0, <3>3
      <3>5. n + c <= h /\ n + c = v + c + 1 /\ n + 1 = v + c + 2 - c /\ n + 1 = v + 2
        BY <3>1, <3>4, EndOfAppend, SMTT(30)
      <3> QED BY <3>1, <3>2, <3>3, <3>4, <3>5
    <2>9. \A i \in 1 .. Len(ds) : log[n + i] = Encode(ds[i], k)
      BY <2>3, <2>5, <2>6
    <2>10. Visit(SubSeq(log, n + 1, n + Len(ds))) = ds
      BY <1>0, <2>8, <2>9, VisitSlice
    <2>11. Written(k)' = (rpc[k].last + 2 - Len(ds)) .. (rpc[k].last + 1)
      BY <2>1, <2>4, <2>8 DEF Written
    <2>12. Visit(SubSeq(log, rpc[k].last + 2 - Len(ds), rpc[k].last + 1)) = ds
      BY <2>8, <2>10
    <2> QED BY <2>1, <2>2, <2>4, <2>6, <2>11, <2>12 DEF TellsTruth
  <1> QED BY <1>5, <1>6, <1>7, <1>8, <1>9, <1>10 DEF Answers

\* RepliesOK is preserved: a reply is true when it is given, and stays true.
LEMMA RepliesStep ==
    ASSUME HandleOK, FoldInv, RequestsOK, AppendsOK, RetriesOK, AnswersOK, AnswersOK', RepliesOK,
           [Next]_vars
    PROVE  RepliesOK'
  <1>0. /\ TypeInv /\ TypeOK /\ StateIsFold
    BY DEF FoldInv, PlaceInv, TypeInv
  <1>1. \A t \in Tags : Refusal(t).tag = t
    BY RecordTypes
  <1>2. (\A k \in Calls : TellsTruth(k)') => RepliesOK'
    BY DEF RepliesOK, TellsTruth, ErrorMeansNoEffect, OkMeansAppended, AnswersComeFromHistory,
       GaveUpOnlyUnderContention
  <1> SUFFICES ASSUME NEW k \in Calls PROVE TellsTruth(k)'
    BY <1>2
  <1>3. CASE reply'[k] = reply[k]
    BY <1>3, TruthOfAll, TruthStays
  <1>4. CASE Returns(k)
    <2>0. reply'[k].tag \in Final => rpc'[k].status = "none"
      BY DEF AnswersOK
    <2>1. ASSUME NEW t \in {"sent", "abandoned", "crashed"}, reply'[k] = Refusal(t)
          PROVE  TellsTruth(k)'
      <3>1. reply'[k].tag = t
        BY <1>1, <2>1 DEF Tags
      <3> QED BY <2>1, <3>1 DEF TellsTruth
    <2>2. ASSUME Untouched(k), log' = log, NEW t \in {"spawn_error", "actor_gone"},
                 reply'[k] = Refusal(t)
          PROVE  TellsTruth(k)'
      <3>1. reply'[k].tag = t
        BY <1>1, <2>2 DEF Tags
      <3>2. Written(k)' = {}
        BY <2>2 DEF Untouched, Written
      <3> QED BY <2>0, <2>2, <3>1, <3>2 DEF TellsTruth, Final
    <2>3. ASSUME cpc[k] # "queued" PROVE Untouched(k)
      <3>1. cpc[k] \notin Settled
        BY <1>4, <2>3 DEF Returns, Settled
      <3> QED BY <3>1 DEF RequestsOK
    <2>4. ASSUME NEW a \in Actors, Exit(a), reply'[k] = Refusal("actor_gone"),
                 NEW i \in 1 .. Len(mailbox[a]), mailbox[a][i] = k
          PROVE  TellsTruth(k)'
      <3>1. Untouched(k)
        BY <2>4 DEF RequestsOK
      <3>2. log' = log
        BY <2>4 DEF Exit, serverVars
      <3> QED BY <2>2, <2>4, <3>1, <3>2
    <2>5. ASSUME NEW a \in Actors, cur[a] = k, Answers(a, k)
          PROVE  TellsTruth(k)'
      BY <2>5, AnswerTells
    <2>6. ASSUME NEW a \in Actors, RecvGetState(a), mailbox[a][1] = k,
                 reply'[k] = Reply("state", state[a], a, version[a])
          PROVE  TellsTruth(k)'
      <3>1. apc[a] = "recv" /\ log' = log
        BY <2>6 DEF RecvGetState, NextMessage, serverVars
      <3>2. state[a] = Visit(SubSeq(log, 1, version[a] + 1))
        BY <1>0, <3>1 DEF StateIsFold, IsFold
      <3>3. reply'[k].tag = "state" /\ reply'[k].val = state[a] /\ reply'[k].at = version[a]
        BY <2>6 DEF Reply
      <3> QED BY <3>1, <3>2, <3>3 DEF TellsTruth
    <2> QED BY <1>4, <2>1, <2>2, <2>3, <2>4, <2>5, <2>6 DEF Returns
  <1> QED BY <1>0, <1>3, <1>4, CallSteps DEF CallMoves

-----------------------------------------------------------------------------
(* An actor never goes back                                                 *)

\* A running actor's version only grows.
LEMMA VersionGrows ==
    ASSUME FoldInv, [Next]_vars, NEW b \in Actors, apc[b] # "gone", apc'[b] # "gone"
    PROVE  version'[b] >= version[b]
  <1>0. /\ TypeInv /\ TypeOK /\ StateIsFold /\ AppendInFlight
        /\ log \in Seq(Recorded) /\ Len(log) \in Nat
    BY DEF FoldInv, PlaceInv, TypeInv, TypeOK
  <1>1. /\ version[b] \in Versions /\ state[b] \in History /\ produced[b] \in Seq(DomainEvents)
        /\ version[b] \in Int /\ version \in [Actors -> Versions]
    BY <1>0 DEF TypeOK, Versions, None
  <1>2. IsFold(log, state[b], version[b]) /\ version[b] < Len(log)
    BY <1>0 DEF StateIsFold, IsFold
  <1>3. ASSUME version'[b] = version[b] PROVE version'[b] >= version[b]
    BY <1>1, <1>3
  <1>4. ASSUME version' = [version EXCEPT ![b] = VersionAfterRead(log, version[b])]
        PROVE  version'[b] >= version[b]
    <2>1. version'[b] = Len(log) - 1
      BY <1>0, <1>1, <1>2, <1>4, FoldRead
    <2> QED BY <1>0, <1>1, <1>2, <2>1
  <1>5. CASE AppendOk(b)
    <2>1. /\ apc[b] = "append" /\ rpc[cur[b]].status = "ok"
          /\ version' = [version EXCEPT ![b] = rpc[cur[b]].last]
      BY <1>5 DEF AppendOk
    <2>2. rpc[cur[b]].last = version[b] + Len(produced[b])
      BY <1>0, <2>1 DEF AppendInFlight
    <2>3. version'[b] = version[b] + Len(produced[b])
      BY <1>1, <2>1, <2>2
    <2>4. Len(produced[b]) \in Nat
      BY <1>1
    <2> QED BY <1>1, <2>3, <2>4
  <1>6. CASE Own(b)
    <2>1. CASE InjectRead(b) \/ Reread(b)
      BY <1>3, <1>4, <2>1 DEF InjectRead, Reread
    <2>2. CASE Exit(b)
      BY <1>0, <2>2 DEF Exit, TypeOK
    <2>3. CASE RecvExecute(b) \/ DecideNothing(b) \/ DecideAppend(b) \/ AppendConflict(b)
               \/ GiveUp(b) \/ RecvGetState(b) \/ RecvInject(b) \/ InjectOk(b)
               \/ RecvShutdown(b) \/ ChannelClosed(b)
      BY <1>3, <2>3 DEF RecvExecute, DecideNothing, DecideAppend, AppendConflict, GiveUp,
         RecvGetState, RecvInject, InjectOk, RecvShutdown, ChannelClosed, Leave
    <2>4. CASE EncodeFails(b) \/ AppendFails(b) \/ RereadFails(b) \/ InjectFails(b)
               \/ IdleTimeout(b)
      BY <1>3, <2>4 DEF EncodeFails, AppendFails, RereadFails, InjectFails, IdleTimeout, Leave
    <2> QED BY <1>5, <1>6, <2>1, <2>2, <2>3, <2>4 DEF Own, ActorStep
  <1>7. ASSUME NEW k \in Calls, SpawnCatchUp(k, b) PROVE FALSE
    BY <1>7 DEF SpawnCatchUp, Unused
  <1>8. ~Crash
    BY DEF Crash
  <1> QED
    BY <1>0, <1>3, <1>6, <1>7, <1>8, ActorSteps DEF ActorMoves, Still

\* What it has folded is kept: before and after, its aggregate is the fold of a
\* prefix of a stream that is only appended to.
LEMMA NeverBack ==
    ASSUME FoldInv, FoldInv', [Next]_vars, NEW b \in Actors, apc[b] # "gone", apc'[b] # "gone"
    PROVE  /\ version'[b] >= version[b]
           /\ Len(state'[b]) >= Len(state[b])
           /\ SubSeq(state'[b], 1, Len(state[b])) = state[b]
  <1>0. TypeInv /\ log \in Seq(Recorded) /\ log' \in Seq(Recorded)
    BY DEF FoldInv, PlaceInv, TypeInv, TypeOK
  <1>1. PICK m \in Seq(Recorded) : log' = log \o m
    BY <1>0, LogSteps
  <1>2. PICK s \in History, v \in Versions : s = state[b] /\ v = version[b] /\ IsFold(log, s, v)
    BY DEF FoldInv, PlaceInv, TypeInv, TypeOK, StateIsFold
  <1>3. PICK t \in History, w \in Versions : t = state'[b] /\ w = version'[b] /\ IsFold(log', t, w)
    BY DEF FoldInv, PlaceInv, TypeInv, TypeOK, StateIsFold
  <1>4. w >= v
    BY <1>2, <1>3, VersionGrows
  <1>5. /\ v < Len(log) /\ Len(s) = v + 1
        /\ \A i \in 1 .. v + 1 : s[i] = Decode(log[i].type, log[i].payload)
    BY <1>0, <1>2, FoldPointwise
  <1>6. /\ Len(t) = w + 1
        /\ \A i \in 1 .. w + 1 : t[i] = Decode(log'[i].type, log'[i].payload)
    BY <1>0, <1>3, FoldPointwise
  <1>7. PICK n \in Nat : n = Len(s) /\ n <= Len(t) /\ n = v + 1
    BY <1>2, <1>3, <1>4, <1>5, <1>6 DEF Versions, None
  <1>8. ASSUME NEW i \in 1 .. n PROVE t[i] = s[i]
    <2>1. i \in 1 .. v + 1 /\ i \in 1 .. w + 1 /\ i \in 1 .. Len(log)
      <3>1. v \in Int /\ w \in Int /\ Len(log) \in Int
        BY <1>0 DEF Versions, None
      <3>2. v < Len(log)
        BY <1>5
      <3>3. n <= v + 1 /\ n <= w + 1 /\ n <= Len(log)
        BY <1>4, <1>7, <3>1, <3>2
      <3> QED BY <1>7, <3>1, <3>3
    <2>2. log'[i] = log[i]
      BY <1>0, <1>1, <2>1, PrefixStays
    <2> QED BY <1>5, <1>6, <2>1, <2>2
  <1>9. SubSeq(t, 1, n) = s
    <2>1. \A i \in 1 .. n : t[i] \in DomainEvents \cup {NoEvent}
      BY <1>7 DEF History
    <2>2. /\ SubSeq(t, 1, n) \in History
          /\ Len(SubSeq(t, 1, n)) = IF 1 <= n THEN n - 1 + 1 ELSE 0
          /\ \A i \in 1 .. n - 1 + 1 : SubSeq(t, 1, n)[i] = t[1 + i - 1]
      BY <2>1, SubSeqProperties DEF History
    <2>3. Len(SubSeq(t, 1, n)) = n /\ \A i \in 1 .. n : SubSeq(t, 1, n)[i] = t[i]
      BY <2>2
    <2>4. PICK u \in History : u = SubSeq(t, 1, n)
      BY <2>2
    <2>5. Len(u) = Len(s) /\ \A i \in 1 .. Len(u) : u[i] = s[i]
      BY <1>7, <1>8, <2>3, <2>4
    <2>6. u = s
      BY <2>5, SeqEqual DEF History
    <2> QED BY <2>4, <2>6
  <1>10. Len(t) >= Len(s)
    BY <1>3, <1>6, <1>7 DEF Versions, None
  <1> QED BY <1>2, <1>3, <1>4, <1>7, <1>9, <1>10

-----------------------------------------------------------------------------
(* The theorems                                                             *)

\* Nothing has been asked, sent or answered at the start; every event in the
\* stream is somebody else's.
LEMMA InitPromises ==
    ASSUME Init
    PROVE  TraceInv /\ CommandsAreAtomic /\ RepliesOK
  <1>1. \A i \in 1 .. Len(log) : log[i].by = Other
    <2> DEFINE Foreign == [type : EventTypes, payload : Payloads, by : {Other}]
    <2>1. log \in Seq(Foreign)
      BY ConstantsAssumption DEF Init
    <2>2. \A r \in Foreign : r.by = Other
      OBVIOUS
    <2> HIDE DEF Foreign
    <2> QED BY <2>1, <2>2
  <1>2. \A k \in Calls : Untouched(k) /\ Written(k) = {}
    BY <1>1, ConstantsAssumption, RecordTypes DEF Init, Untouched, Written
  <1>3. RequestsOK
    BY <1>2 DEF Init, RequestsOK, Untouched, NoRpc, Answered
  <1>4. AppendsOK /\ RetriesOK
    BY DEF Init, AppendsOK, RetriesOK
  <1>5. AnswersOK
    BY DEF Init, AnswersOK, NoReply, Final
  <1>6. CommandsAreAtomic
    BY <1>2 DEF CommandsAreAtomic
  <1>7. RepliesOK
    BY DEF Init, RepliesOK, ErrorMeansNoEffect, OkMeansAppended, AnswersComeFromHistory,
       GaveUpOnlyUnderContention, NoReply
  <1> QED BY <1>3, <1>4, <1>5, <1>6, <1>7 DEF TraceInv

\* One step keeps every part of the inductive invariant.
LEMMA InductiveStep ==
    ASSUME HandleOK, NoPhantomSnapshot, InductiveInvariant, [Next]_vars
    PROVE  InductiveInvariant'
  <1>0. /\ FoldInv /\ RequestsOK /\ AppendsOK /\ RetriesOK /\ AnswersOK /\ CommandsAreAtomic
        /\ RepliesOK
    BY DEF InductiveInvariant, TraceInv
  <1>1. FoldInv'
    BY <1>0, FoldStep
  <1>2. PlaceInv'
    BY <1>1 DEF FoldInv
  <1>3. RequestsOK'
    BY <1>0, <1>2, RequestsStep
  <1>4. AppendsOK'
    BY <1>0, AppendsStep
  <1>5. RetriesOK'
    BY <1>0, <1>1, RetriesStep
  <1>6. AnswersOK'
    BY <1>0, AnswersStep
  <1>7. CommandsAreAtomic'
    BY <1>0, AtomicStep
  <1>8. RepliesOK'
    BY <1>0, <1>6, RepliesStep
  <1> QED
    BY <1>1, <1>3, <1>4, <1>5, <1>6, <1>7, <1>8 DEF InductiveInvariant, TraceInv

\* The inductive invariant holds in every reachable state, for any number of
\* calls, actors, retries, mailbox slots and other writers.
THEOREM InvariantHolds ==
    ASSUME HandleOK, NoPhantomSnapshot
    PROVE  Spec => []InductiveInvariant
  <1>1. Init => InductiveInvariant
    BY InitInv, InitPromises DEF InductiveInvariant
  <1>2. InductiveInvariant /\ [Next]_vars => InductiveInvariant'
    BY InductiveStep
  <1> QED BY <1>1, <1>2, PTL DEF Spec

\* A command's events are in the stream all or not at all, once, together, and as
\* handle() decided on exactly the events before them.
THEOREM CommandsAtomic ==
    ASSUME HandleOK, NoPhantomSnapshot
    PROVE  Spec => []CommandsAreAtomic
  <1>1. InductiveInvariant => CommandsAreAtomic
    BY DEF InductiveInvariant
  <1> QED BY <1>1, InvariantHolds, PTL

\* Ok of execute and of inject means that the events are in the stream, once.
THEOREM OkIsAppended ==
    ASSUME HandleOK, NoPhantomSnapshot
    PROVE  Spec => []OkMeansAppended
  <1>1. InductiveInvariant => OkMeansAppended
    BY DEF InductiveInvariant, RepliesOK
  <1> QED BY <1>1, InvariantHolds, PTL

\* A final error means that nothing of the call is in the stream, now or later.
THEOREM ErrorHasNoEffect ==
    ASSUME HandleOK, NoPhantomSnapshot
    PROVE  Spec => []ErrorMeansNoEffect
  <1>1. InductiveInvariant => ErrorMeansNoEffect
    BY DEF InductiveInvariant, RepliesOK
  <1> QED BY <1>1, InvariantHolds, PTL

\* Rejections, no-ops and state() answers are about the fold of a prefix of the
\* stream.
THEOREM AnswersFromHistory ==
    ASSUME HandleOK, NoPhantomSnapshot
    PROVE  Spec => []AnswersComeFromHistory
  <1>1. InductiveInvariant => AnswersComeFromHistory
    BY DEF InductiveInvariant, RepliesOK
  <1> QED BY <1>1, InvariantHolds, PTL

\* WrongExpectedVersion means that the actor learned of MAX_RETRIES new events.
THEOREM GivesUpOnlyUnderContention ==
    ASSUME HandleOK, NoPhantomSnapshot
    PROVE  Spec => []GaveUpOnlyUnderContention
  <1>1. InductiveInvariant => GaveUpOnlyUnderContention
    BY DEF InductiveInvariant, RepliesOK
  <1> QED BY <1>1, InvariantHolds, PTL

\* No step takes a running actor back to a smaller version or a shorter history.
THEOREM ActorsNeverGoBack ==
    ASSUME HandleOK, NoPhantomSnapshot
    PROVE  Spec => ActorNeverGoesBack
  <1>1. Init => FoldInv
    BY InitInv
  <1>2. FoldInv /\ [Next]_vars => FoldInv'
    BY FoldStep
  <1>3. FoldInv /\ FoldInv' /\ [Next]_vars =>
            [\A a \in Actors :
                 apc[a] # "gone" /\ apc'[a] # "gone" =>
                     /\ version'[a] >= version[a]
                     /\ Len(state'[a]) >= Len(state[a])
                     /\ SubSeq(state'[a], 1, Len(state[a])) = state[a]]_vars
    BY NeverBack
  <1> QED BY <1>1, <1>2, <1>3, PTL DEF Spec, ActorNeverGoesBack

-----------------------------------------------------------------------------
(* The refinement                                                           *)

\* The abstract specification folds and encodes as the detailed one does.
LEMMA SameCodec ==
    /\ \A s : Abstract!Visit(s) = Visit(s)
    /\ \A ds, k : Abstract!EncodeAll(ds, k) = EncodeAll(ds, k)
    /\ \A e, k : Abstract!Stamp(e, k) = Stamp(e, k)
  <1>1. \A t, p : Abstract!Decode(t, p) = Decode(t, p)
    BY DEF Abstract!Decode, Decode, Abstract!Envelope, Envelope
  <1>2. \A d, k : Abstract!Encode(d, k) = Encode(d, k)
    BY DEF Abstract!Encode, Encode, Abstract!EncodePayload, EncodePayload
  <1> QED
    BY <1>1, <1>2 DEF Abstract!Visit, Visit, Abstract!EncodeAll, EncodeAll, Abstract!Stamp, Stamp

\* Every step is, for the stream and the requests, an abstract step or none: the
\* moment at which a command takes effect is when the server accepts its append.
LEMMA CommitStep ==
    ASSUME HandleOK, FoldInv, RequestsOK, [Next]_vars
    PROVE  [Abstract!Next]_<<log, req>>
  <1>0. TypeInv /\ TypeOK /\ HandlesOK
    BY DEF FoldInv, PlaceInv, TypeInv
  <1>1. ASSUME NEW k \in Calls, NEW r \in Requests, Issue(k, r)
        PROVE  Abstract!Next
    <2>1. req[k].kind = "none" /\ req' = [req EXCEPT ![k] = r] /\ log' = log
      BY <1>0, <1>1 DEF Issue, HandlesOK, NoRequest, serverVars
    <2> QED BY <2>1 DEF Abstract!Next, Abstract!Ask
  <1>2. ASSUME NEW k \in Calls, ServerAppend(k)
        PROVE  Abstract!Next \/ UNCHANGED <<log, req>>
    <2>1. rpc[k].status = "sent" /\ req' = req
      BY <1>2 DEF ServerAppend, callVars
    <2>2. Abstract!NotYet(k)
      BY <2>1 DEF RequestsOK, Abstract!NotYet
    <2>3. CASE ~Accepts(log, rpc[k].expected)
      BY <1>2, <2>1, <2>3 DEF ServerAppend
    <2>4. CASE Accepts(log, rpc[k].expected)
      <3>1. log' = log \o rpc[k].events
        BY <1>2, <2>4 DEF ServerAppend
      <3>2. CASE req[k].kind = "execute"
        <4>1. PICK ds \in Seq(DomainEvents) :
                  /\ Handle(Visit(log), req[k].arg).ok
                  /\ Handle(Visit(log), req[k].arg).events = ds
                  /\ rpc[k].events = EncodeAll(ds, k)
          BY <1>0, <2>1, <2>4, <3>2, DecidedNow
        <4>2. Abstract!Commit(k)
          BY <2>1, <2>2, <3>1, <3>2, <4>1, SameCodec DEF Abstract!Commit
        <4> QED BY <4>2 DEF Abstract!Next
      <3>3. CASE req[k].kind = "inject"
        <4>1. rpc[k].events = <<Stamp(req[k].arg, k)>>
          BY <2>1, <3>3 DEF RequestsOK
        <4>2. log \in Seq(Recorded)
          BY <1>0 DEF TypeOK
        <4>3. log' = Append(log, Stamp(req[k].arg, k))
          BY <3>1, <4>1, <4>2
        <4>4. Abstract!Inject(k)
          BY <2>1, <2>2, <3>3, <4>3, SameCodec DEF Abstract!Inject
        <4> QED BY <4>4 DEF Abstract!Next
      <3> QED BY <2>1, <3>2, <3>3 DEF RequestsOK
    <2> QED BY <2>3, <2>4
  <1>3. ASSUME NEW e \in ForeignEvents, OtherAppend(e)
        PROVE  Abstract!Next
    <2>1. log' = Append(log, Stamp(e, Other)) /\ req' = req
      BY <1>3 DEF OtherAppend, callVars
    <2>2. Abstract!OtherAppend(e)
      BY <2>1, SameCodec DEF Abstract!OtherAppend
    <2> QED BY <2>2 DEF Abstract!Next
  <1>4. ASSUME NEW k \in Calls, CallStep(k) \/ SpawnFails(k) \/ Abandon(k)
        PROVE  UNCHANGED <<log, req>>
    BY <1>4 DEF CallStep, GetCached, GetMiss, GetEvict, SpawnLoad, SpawnCatchUp, GetInsert, Send,
       SendFails, SpawnFails, Abandon, serverVars
  <1>5. ASSUME NEW a \in Actors, ActorStep(a)
        PROVE  UNCHANGED <<log, req>>
    <2>1. CASE RecvExecute(a) \/ RecvInject(a) \/ RecvGetState(a) \/ RecvShutdown(a)
               \/ ChannelClosed(a) \/ Exit(a)
      BY <2>1 DEF RecvExecute, RecvInject, RecvGetState, RecvShutdown, ChannelClosed, Exit, Leave,
         serverVars, callVars
    <2>2. CASE DecideNothing(a) \/ DecideAppend(a) \/ AppendOk(a) \/ AppendConflict(a)
               \/ Reread(a) \/ GiveUp(a) \/ InjectOk(a) \/ InjectRead(a)
      BY <2>2 DEF DecideNothing, DecideAppend, AppendOk, AppendConflict, Reread, GiveUp, InjectOk,
         InjectRead, serverVars, callVars
    <2> QED BY <1>5, <2>1, <2>2 DEF ActorStep
  <1>6. ASSUME NEW a \in Actors,
               \/ EncodeFails(a) \/ AppendFails(a) \/ RereadFails(a) \/ InjectFails(a)
               \/ IdleTimeout(a)
        PROVE  UNCHANGED <<log, req>>
    BY <1>6 DEF EncodeFails, AppendFails, RereadFails, InjectFails, IdleTimeout, Leave, serverVars,
       callVars
  <1>7. Crash => UNCHANGED <<log, req>>
    BY DEF Crash
  <1>8. UNCHANGED vars => UNCHANGED <<log, req>>
    BY DEF vars
  <1> QED
    BY <1>1, <1>2, <1>3, <1>4, <1>5, <1>6, <1>7, <1>8 DEF Next, Failure

\* The write side implements CommandLog: seen from the stream, actors, caches,
\* snapshots, retries, lost answers and late requests come to commands that take
\* effect one at a time, each decided on everything before it, at most once.
THEOREM WriteSideImplementsCommandLog ==
    ASSUME HandleOK, NoPhantomSnapshot
    PROVE  Spec => ImplementsCommandLog
  <1>1. Init => Abstract!Init
    BY DEF Init, Abstract!Init, NoRequest, None
  <1>2. InductiveInvariant /\ [Next]_vars => [Abstract!Next]_<<log, req>>
    BY CommitStep DEF InductiveInvariant, TraceInv
  <1> QED BY <1>1, <1>2, InvariantHolds, PTL DEF Spec, ImplementsCommandLog, Abstract!Spec

=============================================================================
