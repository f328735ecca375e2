------------------------------ MODULE ActorInv ------------------------------
(***************************************************************************)
(* The inductive invariant behind the write side's theorems, in the parts  *)
(* proofs of Actor_proofs and Command_proofs use one after the other.      *)
(***************************************************************************)
EXTENDS Actor

\* The aggregate's handle() is total on commands and returns domain events.
HandleOK ==
    \A s \in History, c \in Commands :
        Handle(s, c) \in [ok : BOOLEAN, events : Seq(DomainEvents)]

\* No snapshot can ever be taken of a stream without events: the stream exists
\* before the process starts, or base_dir is not writable.  Without this the
\* `stream_version.unwrap_or(0)' of run_actor breaks SnapshotIsFold.
NoPhantomSnapshot == InitStream # <<>> \/ ~SnapshotsWritable

Settled == {"queued", "done"}

\* Where a task is determines what its locals hold.
LocalsOK ==
    \A a \in Actors :
        /\ apc[a] \in {"decide", "append", "reread"} =>
               cur[a] \in Calls /\ req[cur[a]].kind = "execute"
        /\ apc[a] \in {"append", "reread"} => attempt[a] < MAX_RETRIES
        /\ apc[a] \in {"inject", "inject_read"} =>
               cur[a] \in Calls /\ req[cur[a]].kind = "inject"
        /\ apc[a] \in {"gone", "recv", "exiting"} => cur[a] = Other
        /\ cur[a] \in Calls => cpc[cur[a]] \in Settled
        /\ \A i \in 1 .. Len(mailbox[a]) : cpc[mailbox[a][i]] \in Settled

\* A call that has got as far as a handle has one; an unused call asks nothing.
HandlesOK ==
    \A k \in Calls :
        /\ cpc[k] \in {"insert", "ready", "queued"} => handle[k] \in Actors
        /\ cpc[k] = "new" => req[k] = NoRequest
        /\ cpc[k] # "new" => req[k] \in Requests

\* A message is in one place: in one mailbox, once, or in one actor's hands.
OnePlace ==
    /\ \A a, b \in Actors : \A i \in 1 .. Len(mailbox[a]) : mailbox[a][i] # cur[b]
    /\ \A a, b \in Actors : \A i \in 1 .. Len(mailbox[a]), j \in 1 .. Len(mailbox[b]) :
           mailbox[a][i] = mailbox[b][j] => a = b /\ i = j
    /\ \A a, b \in Actors : cur[a] = cur[b] /\ cur[a] \in Calls => a = b

\* An actor with an append under way can predict what its success will mean.
AppendInFlight ==
    \A a \in Actors : apc[a] = "append" =>
        LET r == rpc[cur[a]]
        IN  /\ r.status \in {"sent", "ok", "conflict"}
            /\ r.status = "sent" =>
                   /\ r.expected = ExpectedVersion(version[a])
                   /\ r.events = EncodeAll(produced[a], cur[a])
            /\ r.status = "ok" =>
                   /\ r.last = version[a] + Len(produced[a])
                   /\ r.last < Len(log)
                   /\ \A i \in 1 .. Len(produced[a]) :
                          log[version[a] + 1 + i] = Encode(produced[a][i], cur[a])

\* Once the stream has an event, a running actor has seen one.
NotBeforeStart ==
    /\ Len(log) >= Len(InitStream)
    /\ \A a \in Actors : apc[a] # "gone" => version[a] >= LastVersion(InitStream)

Untouched(k) == rpc[k].status = "none" /\ \A i \in 1 .. Len(log) : log[i].by # k

\* A call leaves no trace before its append is sent; a request under way was
\* decided on a prefix of the stream, the one its expected version names.
RequestsOK ==
    /\ \A k \in Calls :
           /\ cpc[k] \notin Settled => Untouched(k)
           /\ rpc[k].status \in {"sent", "conflict"} => \A i \in 1 .. Len(log) : log[i].by # k
           /\ rpc[k].status # "none" => req[k].kind \in {"execute", "inject"}
           /\ rpc[k].status = "sent" /\ req[k].kind = "inject" =>
                  rpc[k].events = <<Stamp(req[k].arg, k)>>
           /\ rpc[k].status = "sent" /\ req[k].kind = "execute" =>
                  \E v \in None .. LastVersion(log) :
                      LET d == Handle(Visit(SubSeq(log, 1, v + 1)), req[k].arg)
                      IN  /\ rpc[k].expected = ExpectedVersion(v)
                          /\ d.ok
                          /\ rpc[k].events = EncodeAll(d.events, k)
    /\ \A a \in Actors :
           /\ \A i \in 1 .. Len(mailbox[a]) : Untouched(mailbox[a][i])
           /\ apc[a] \in {"decide", "reread"} => Untouched(cur[a])

\* Replies after which nothing more can come of a call: all but a transport
\* error, and those given while the message may still be in a mailbox.
Final == {"spawn_error", "actor_gone", "ok", "domain", "io", "wrong_expected_version",
          "state", "injected"}

\* A call with such a reply is in nobody's hands, and no append of it is under way.
AnswersOK ==
    \A k \in Calls :
        /\ reply[k].tag # "none" => cpc[k] = "done"
        /\ reply[k].tag \in Final =>
               /\ rpc[k].status = "none"
               /\ reply[k].at < Len(log)
               /\ \A a \in Actors :
                      cur[a] # k /\ \A i \in 1 .. Len(mailbox[a]) : mailbox[a][i] # k

\* What an actor's append has left in the stream when it is accepted, and what it
\* means when it is refused: somebody else has written.
AppendsOK ==
    \A a \in Actors :
        /\ apc[a] = "append" =>
               /\ produced[a] # <<>>
               /\ rpc[cur[a]].status = "ok" =>
                      Written(cur[a]) = (version[a] + 2) .. (rpc[cur[a]].last + 1)
               /\ rpc[cur[a]].status = "conflict" => version[a] < LastVersion(log)
        /\ apc[a] = "reread" => version[a] < LastVersion(log)
        /\ (apc[a] = "inject" /\ rpc[cur[a]].status = "ok") \/ apc[a] = "inject_read" =>
               \E i \in 1 .. Len(log) :
                   Written(cur[a]) = {i} /\ log[i] = Stamp(req[cur[a]].arg, cur[a])
        /\ apc[a] = "inject_read" => rpc[cur[a]].status = "none"

\* Every refused attempt has taught the actor at least one event.
RetriesOK ==
    \A a \in Actors :
        IF apc[a] \in {"decide", "append", "reread"}
        THEN version[a] >= base[a] + attempt[a]
        ELSE attempt[a] = 0

\* The parts, in the order in which each is inductive given those before it.
TypeInv   == TypeOK /\ LocalsOK /\ HandlesOK
PlaceInv  == TypeInv /\ OnePlace
FoldInv   == PlaceInv /\ StateIsFold /\ SnapshotIsFold /\ NotBeforeStart /\ AppendInFlight
TraceInv  == RequestsOK /\ AppendsOK /\ RetriesOK /\ AnswersOK
RepliesOK == /\ ErrorMeansNoEffect /\ OkMeansAppended /\ AnswersComeFromHistory
             /\ GaveUpOnlyUnderContention

\* The conjunction of all parts: what every reachable state satisfies.
InductiveInvariant == FoldInv /\ TraceInv /\ CommandsAreAtomic /\ RepliesOK

=============================================================================
