------------------------------- MODULE Actor --------------------------------
(***************************************************************************)
(* The write side of the crate for ONE aggregate instance inside one       *)
(* AggregateStore: the handle cache (`store.get'), the actors it spawns,   *)
(* their mailboxes, the command retry loop of `execute_with_retry', event  *)
(* injection, the local snapshot file, and the instance's stream on the    *)
(* server, to which other processes and `inject_event' append as well.     *)
(*                                                                         *)
(* A step is what happens between two await points of the code.  A call k  *)
(* is one use of the public API: get a handle, send one message on it,     *)
(* await the oneshot reply.  An actor a is one slot for a spawned task;    *)
(* slots are reused once nothing refers to the dead task.                  *)
(*                                                                         *)
(* The aggregate's value is represented by the history of the loop that    *)
(* folds events into it: one entry per event the loop has visited, the     *)
(* domain event handed to `apply', or NoEvent when decoding failed and the *)
(* event only advanced the version.  Any real `A' is a function of this.   *)
(***************************************************************************)
EXTENDS EventStore, EventCodec, Functions

CONSTANTS
    Calls,              \* uses of the public API
    Actors,             \* slots for actor tasks
    Requests,           \* what a call may ask for, see RequestsAssumption
    Commands,           \* A::Command
    Handle(_, _),       \* Aggregate::handle(state, command)
    ForeignEvents,      \* (type, payload) pairs appended by other writers
    InitStream,         \* the stream before this process first starts
    MAX_RETRIES,        \* attempts of one Execute
    MailboxCapacity,    \* mpsc::channel(32)
    ForeignLimit,       \* bound: other writers stop at this stream length
    SnapshotsWritable,  \* can base_dir be written at all
    NoActor, Other      \* no handle; the author of events not written here

ASSUME RequestsAssumption ==
    \A r \in Requests :
        \/ r.kind = "execute" /\ r.arg \in Commands
        \/ r.kind = "inject" /\ r.arg \in Stored
        \/ r.kind \in {"state", "shutdown"}

ASSUME ConstantsAssumption ==
    /\ MAX_RETRIES \in Nat \ {0}
    /\ MailboxCapacity \in Nat \ {0}
    /\ NoActor \notin Actors
    /\ Other \notin Calls
    /\ ForeignEvents \subseteq Stored
    /\ InitStream \in Seq([type : EventTypes, payload : Payloads, by : {Other}])
    /\ SnapshotsWritable \in BOOLEAN

VARIABLES
    log,        \* the stream on the server: events [type, payload, by]
    rpc,        \* rpc[k]: the append request of call k and its answer
    snapshot,   \* what load_snapshot would return: a snapshot or NoSnapshot
    cache,      \* the store's cached handle for this instance
    apc,        \* apc[a]: where the task of actor a is
    state,      \* state[a]: the aggregate, as the history of its fold
    version,    \* version[a]: stream_version, None before the first event
    mailbox,    \* mailbox[a]: the calls queued in its channel
    cur,        \* cur[a]: the call whose message it is processing
    attempt,    \* attempt[a]: appends of cur[a] refused so far
    produced,   \* produced[a]: domain_events of the running attempt
    base,       \* base[a]: version[a] when cur[a] was taken (history only)
    cpc,        \* cpc[k]: where call k is
    req,        \* req[k]: its request
    handle,     \* handle[k]: the AggregateHandle it holds
    seed,       \* seed[k]: the snapshot its spawn_actor loaded
    reply       \* reply[k]: what it returned

callVars   == <<cpc, req, handle, seed, reply>>
taskVars   == <<apc, state, version, mailbox, cur, attempt, produced, base>>
serverVars == <<log, rpc>>
vars       == <<log, rpc, snapshot, cache, apc, state, version, mailbox, cur,
                attempt, produced, base, cpc, req, handle, seed, reply>>

-----------------------------------------------------------------------------
\* Mutant: reads from the last version seen, which is folded in twice.
NextVersionInclusive(v) == IF v = None THEN 0 ELSE v

\* stream_version.map_or(0, |v| v + 1)
NextVersion(v) == IF v = None THEN 0 ELSE v + 1

\* Mutant: the re-read replaces the aggregate instead of extending it.
StateAfterReadReplaced(l, s, v) == Visit(ReadFrom(l, NextVersion(v)))

\* The loops that follow read_stream(from) in spawn_actor, execute_with_retry and
\* Inject, on the stream l: every event read is visited, and afterwards
\* `stream_version = Some(ev.stream_version)'.
StateAfterRead(l, s, v) == s \o Visit(ReadFrom(l, NextVersion(v)))
VersionAfterRead(l, v) ==
    IF NextVersion(v) < Len(l) THEN LastVersion(l) ELSE v

\* Mutant: the append is not conditional on the version decided on.
ExpectedVersionUnchecked(v) == AnyVersion

\* Mutant: a new stream is created without asking that it does not exist.
ExpectedVersionLaxStart(v) == IF v = None THEN AnyVersion ELSE Exact(v)

\* The precondition of an append by an actor at version v.
ExpectedVersion(v) == IF v = None THEN NoStream ELSE Exact(v)

NoSnapshot  == [state |-> <<>>, version |-> None]   \* Ok(None)
NoRequest   == [kind |-> "none", arg |-> None]
NoReply     == [tag |-> "none", val |-> <<>>, base |-> None, at |-> None]

\* An append of a call: not made, sent, or answered by the server.
Answered(status, last) ==
    [status |-> status, expected |-> AnyVersion, events |-> <<>>, last |-> last]
NoRpc              == Answered("none", None)
Accepted(last)     == Answered("ok", last)
FailedPrecondition == Answered("conflict", None)
Sent(expected, events) ==
    [status |-> "sent", expected |-> expected, events |-> events, last |-> None]

Refusal(tag) == [NoReply EXCEPT !.tag = tag]
Reply(tag, val, a, v) ==
    [tag |-> tag, val |-> val, base |-> base[a], at |-> v]

Init ==
    /\ log = InitStream
    /\ rpc = [k \in Calls |-> NoRpc]
    /\ snapshot = NoSnapshot
    /\ cache = NoActor
    /\ apc = [a \in Actors |-> "gone"]
    /\ state = [a \in Actors |-> <<>>]
    /\ version = [a \in Actors |-> None]
    /\ mailbox = [a \in Actors |-> <<>>]
    /\ cur = [a \in Actors |-> Other]
    /\ attempt = [a \in Actors |-> 0]
    /\ produced = [a \in Actors |-> <<>>]
    /\ base = [a \in Actors |-> None]
    /\ cpc = [k \in Calls |-> "new"]
    /\ req = [k \in Calls |-> NoRequest]
    /\ handle = [k \in Calls |-> NoActor]
    /\ seed = [k \in Calls |-> NoSnapshot]
    /\ reply = [k \in Calls |-> NoReply]

-----------------------------------------------------------------------------
(* AggregateStore::get, spawn_actor_with_store                              *)

\* A caller decides to use the instance.
Issue(k, r) ==
    /\ cpc[k] = "new"
    /\ cpc' = [cpc EXCEPT ![k] = "get"]
    /\ req' = [req EXCEPT ![k] = r]
    /\ UNCHANGED <<serverVars, taskVars, snapshot, cache, handle, seed, reply>>

\* A handle is cached and its channel open (is_alive).
Cached == cache # NoActor /\ apc[cache] # "gone"

\* Fast path, under the cache's read lock: the live cached handle is cloned.
GetCached(k) ==
    /\ cpc[k] = "get"
    /\ Cached
    /\ handle' = [handle EXCEPT ![k] = cache]
    /\ cpc' = [cpc EXCEPT ![k] = "ready"]
    /\ UNCHANGED <<serverVars, taskVars, snapshot, cache, req, seed, reply>>

\* No live handle: the read lock is released before the write lock is taken.
GetMiss(k) ==
    /\ cpc[k] = "get"
    /\ ~Cached
    /\ cpc' = [cpc EXCEPT ![k] = "evict"]
    /\ UNCHANGED <<serverVars, taskVars, snapshot, cache, handle, req, seed, reply>>

\* Slow path: whatever is cached by now is removed, alive or not.
GetEvict(k) ==
    /\ cpc[k] = "evict"
    /\ cache' = NoActor
    /\ cpc' = [cpc EXCEPT ![k] = "load"]
    /\ UNCHANGED <<serverVars, taskVars, snapshot, handle, req, seed, reply>>

\* load_snapshot, then the catch-up read is requested.
SpawnLoad(k) ==
    /\ cpc[k] = "load"
    /\ seed' = [seed EXCEPT ![k] = snapshot]
    /\ cpc' = [cpc EXCEPT ![k] = "read"]
    /\ UNCHANGED <<serverVars, taskVars, snapshot, cache, handle, req, reply>>

\* The snapshot cannot be read (an I/O error other than NotFound), or the
\* catch-up read fails: `get' returns the status.
SpawnFails(k) ==
    /\ cpc[k] \in {"load", "read"}
    /\ cpc' = [cpc EXCEPT ![k] = "done"]
    /\ seed' = [seed EXCEPT ![k] = NoSnapshot]
    /\ reply' = [reply EXCEPT ![k] = Refusal("spawn_error")]
    /\ UNCHANGED <<serverVars, taskVars, snapshot, cache, handle, req>>

Unused(a) ==
    /\ apc[a] = "gone"
    /\ cache # a
    /\ \A k \in Calls : handle[k] # a

\* Events after the snapshot are folded in and the task is started on a new
\* channel.
SpawnCatchUp(k, a) ==
    /\ cpc[k] = "read"
    /\ Unused(a)
    /\ apc' = [apc EXCEPT ![a] = "recv"]
    /\ state' = [state EXCEPT ![a] = StateAfterRead(log, seed[k].state, seed[k].version)]
    /\ version' = [version EXCEPT ![a] = VersionAfterRead(log, seed[k].version)]
    /\ cpc' = [cpc EXCEPT ![k] = "insert"]
    /\ handle' = [handle EXCEPT ![k] = a]
    /\ seed' = [seed EXCEPT ![k] = NoSnapshot]
    /\ UNCHANGED <<serverVars, mailbox, cur, attempt, produced, base, snapshot,
                   cache, req, reply>>

\* The new handle replaces whatever another `get' inserted meanwhile.
GetInsert(k) ==
    /\ cpc[k] = "insert"
    /\ cache' = handle[k]
    /\ cpc' = [cpc EXCEPT ![k] = "ready"]
    /\ UNCHANGED <<serverVars, taskVars, snapshot, handle, req, seed, reply>>

-----------------------------------------------------------------------------
(* AggregateHandle: execute, state, inject_via_actor                        *)

\* The message enters the bounded channel.  Shutdown carries no reply sender,
\* so its sender is done at once.
Send(k) ==
    /\ cpc[k] = "ready"
    /\ apc[handle[k]] # "gone"
    /\ Len(mailbox[handle[k]]) < MailboxCapacity
    /\ mailbox' = [mailbox EXCEPT ![handle[k]] = Append(@, k)]
    /\ \/ /\ req[k].kind = "shutdown"
          /\ cpc' = [cpc EXCEPT ![k] = "done"]
          /\ reply' = [reply EXCEPT ![k] = Refusal("sent")]
          /\ handle' = [handle EXCEPT ![k] = NoActor]
       \/ /\ req[k].kind # "shutdown"
          /\ cpc' = [cpc EXCEPT ![k] = "queued"]
          /\ UNCHANGED <<reply, handle>>
    /\ UNCHANGED <<serverVars, apc, state, version, cur, attempt, produced, base,
                   snapshot, cache, req, seed>>

\* The receiver is gone: `send' fails and the caller gets ActorGone.
SendFails(k) ==
    /\ cpc[k] = "ready"
    /\ apc[handle[k]] = "gone"
    /\ cpc' = [cpc EXCEPT ![k] = "done"]
    /\ handle' = [handle EXCEPT ![k] = NoActor]
    /\ reply' = [reply EXCEPT ![k] = Refusal("actor_gone")]
    /\ UNCHANGED <<serverVars, taskVars, snapshot, cache, req, seed>>

\* The caller drops the future it was awaiting, in `get' or afterwards; a task it
\* has spawned keeps running and a message it has sent stays queued.
Abandon(k) ==
    /\ cpc[k] \notin {"new", "done"}
    /\ cpc' = [cpc EXCEPT ![k] = "done"]
    /\ handle' = [handle EXCEPT ![k] = NoActor]
    /\ seed' = [seed EXCEPT ![k] = NoSnapshot]
    /\ reply' = [reply EXCEPT ![k] = Refusal("abandoned")]
    /\ UNCHANGED <<serverVars, taskVars, snapshot, cache, req>>

\* `let _ = reply.send(..)': nothing happens if the caller has gone.
Answer(k, r) ==
    IF cpc[k] = "queued"
    THEN /\ cpc' = [cpc EXCEPT ![k] = "done"]
         /\ reply' = [reply EXCEPT ![k] = r]
         /\ handle' = [handle EXCEPT ![k] = NoActor]
    ELSE UNCHANGED <<cpc, reply, handle>>

-----------------------------------------------------------------------------
(* run_actor, execute_with_retry                                            *)

\* Mutant: the message is looked at, not taken off the channel.
NextMessagePeeked(a, kind) ==
    /\ apc[a] = "recv"
    /\ mailbox[a] # <<>>
    /\ req[Head(mailbox[a])].kind = kind
    /\ UNCHANGED mailbox

NextMessage(a, kind) ==
    /\ apc[a] = "recv"
    /\ mailbox[a] # <<>>
    /\ req[Head(mailbox[a])].kind = kind
    /\ mailbox' = [mailbox EXCEPT ![a] = Tail(@)]

\* Back to `rx.recv()' with the locals of the message dropped.
Resume(a) ==
    /\ apc' = [apc EXCEPT ![a] = "recv"]
    /\ cur' = [cur EXCEPT ![a] = Other]
    /\ attempt' = [attempt EXCEPT ![a] = 0]
    /\ produced' = [produced EXCEPT ![a] = <<>>]
    /\ base' = [base EXCEPT ![a] = None]

RecvExecute(a) ==
    /\ NextMessage(a, "execute")
    /\ apc' = [apc EXCEPT ![a] = "decide"]
    /\ cur' = [cur EXCEPT ![a] = Head(mailbox[a])]
    /\ base' = [base EXCEPT ![a] = version[a]]
    /\ UNCHANGED <<serverVars, callVars, state, version, attempt, produced,
                   snapshot, cache>>

\* handle(cmd) errs, or yields no events: nothing to append.
DecideNothing(a) ==
    LET k == cur[a]
        d == Handle(state[a], req[k].arg)
    IN  /\ apc[a] = "decide"
        /\ attempt[a] < MAX_RETRIES
        /\ d.ok => d.events = <<>>
        /\ Answer(k, Reply(IF d.ok THEN "ok" ELSE "domain", <<>>, a, version[a]))
        /\ Resume(a)
        /\ UNCHANGED <<serverVars, state, version, mailbox, snapshot, cache, req, seed>>

\* encode_domain_event fails on one of the events: ExecuteError::Io.
EncodeFails(a) ==
    LET d == Handle(state[a], req[cur[a]].arg)
    IN  /\ apc[a] = "decide"
        /\ attempt[a] < MAX_RETRIES
        /\ d.ok /\ d.events # <<>>
        /\ Answer(cur[a], Reply("io", <<>>, a, version[a]))
        /\ Resume(a)
        /\ UNCHANGED <<serverVars, state, version, mailbox, snapshot, cache, req, seed>>

\* Mutant: the retry bound is not tested.
DecideAppendUnbounded(a) ==
    LET k == cur[a]
        d == Handle(state[a], req[k].arg)
    IN  /\ apc[a] = "decide"
        /\ d.ok /\ d.events # <<>>
        /\ produced' = [produced EXCEPT ![a] = d.events]
        /\ rpc' = [rpc EXCEPT ![k] = Sent(ExpectedVersion(version[a]),
                                          EncodeAll(d.events, k))]
        /\ apc' = [apc EXCEPT ![a] = "append"]
        /\ UNCHANGED <<callVars, log, state, version, mailbox, cur, attempt, base,
                       snapshot, cache>>

\* Mutant: the events are applied before the server has accepted them.
DecideAppendEager(a) ==
    LET k == cur[a]
        d == Handle(state[a], req[k].arg)
    IN  /\ apc[a] = "decide"
        /\ attempt[a] < MAX_RETRIES
        /\ d.ok /\ d.events # <<>>
        /\ state' = [state EXCEPT ![a] = @ \o d.events]
        /\ rpc' = [rpc EXCEPT ![k] = Sent(ExpectedVersion(version[a]),
                                          EncodeAll(d.events, k))]
        /\ apc' = [apc EXCEPT ![a] = "append"]
        /\ UNCHANGED <<callVars, log, version, mailbox, cur, attempt, produced, base,
                       snapshot, cache>>

\* handle(cmd) yields events: they are encoded and an append under the actor's
\* own version is sent.
DecideAppend(a) ==
    LET k == cur[a]
        d == Handle(state[a], req[k].arg)
    IN  /\ apc[a] = "decide"
        /\ attempt[a] < MAX_RETRIES
        /\ d.ok /\ d.events # <<>>
        /\ produced' = [produced EXCEPT ![a] = d.events]
        /\ rpc' = [rpc EXCEPT ![k] = Sent(ExpectedVersion(version[a]),
                                          EncodeAll(d.events, k))]
        /\ apc' = [apc EXCEPT ![a] = "append"]
        /\ UNCHANGED <<callVars, log, state, version, mailbox, cur, attempt, base,
                       snapshot, cache>>

\* The append succeeded: the produced events are applied as they are, without
\* a re-read, and the version becomes resp.last_stream_version.
AppendOk(a) ==
    LET k == cur[a]
    IN  /\ apc[a] = "append"
        /\ rpc[k].status = "ok"
        /\ state' = [state EXCEPT ![a] = @ \o produced[a]]
        /\ version' = [version EXCEPT ![a] = rpc[k].last]
        /\ rpc' = [rpc EXCEPT ![k] = NoRpc]
        /\ Answer(k, Reply("ok", produced[a], a, rpc[k].last))
        /\ Resume(a)
        /\ UNCHANGED <<log, mailbox, snapshot, cache, req, seed>>

\* Mutant: the next attempt is made without reading the stream again.
AppendConflictBlindRetry(a) ==
    /\ apc[a] = "append"
    /\ rpc[cur[a]].status = "conflict"
    /\ rpc' = [rpc EXCEPT ![cur[a]] = NoRpc]
    /\ apc' = [apc EXCEPT ![a] = "decide"]
    /\ attempt' = [attempt EXCEPT ![a] = @ + 1]
    /\ produced' = [produced EXCEPT ![a] = <<>>]
    /\ UNCHANGED <<callVars, log, state, version, mailbox, cur, base, snapshot, cache>>

\* FAILED_PRECONDITION: the stream is read again before the next attempt.
AppendConflict(a) ==
    LET k == cur[a]
    IN  /\ apc[a] = "append"
        /\ rpc[k].status = "conflict"
        /\ rpc' = [rpc EXCEPT ![k] = NoRpc]
        /\ apc' = [apc EXCEPT ![a] = "reread"]
        /\ produced' = [produced EXCEPT ![a] = <<>>]
        /\ UNCHANGED <<callVars, log, state, version, mailbox, cur, attempt, base,
                       snapshot, cache>>

\* A transport error reaches the actor: the request may never arrive, may
\* still be under way, or may have been carried out and its answer lost.
Forget(k) == IF rpc[k].status = "sent" THEN rpc[k] ELSE NoRpc

\* Mutant: every append error is reported as a version conflict.
AppendFailsAsConflict(a) ==
    /\ apc[a] = "append"
    /\ rpc' = [rpc EXCEPT ![cur[a]] = Forget(cur[a])]
    /\ Answer(cur[a], Reply("wrong_expected_version", <<>>, a, version[a]))
    /\ Resume(a)
    /\ UNCHANGED <<log, state, version, mailbox, snapshot, cache, req, seed>>

\* Mutant: a transport error is retried like a conflict.
AppendFailsRetried(a) ==
    /\ apc[a] = "append"
    /\ rpc' = [rpc EXCEPT ![cur[a]] = Forget(cur[a])]
    /\ apc' = [apc EXCEPT ![a] = "reread"]
    /\ produced' = [produced EXCEPT ![a] = <<>>]
    /\ UNCHANGED <<callVars, log, state, version, mailbox, cur, attempt, base,
                   snapshot, cache>>

AppendFails(a) ==
    LET k == cur[a]
    IN  /\ apc[a] = "append"
        /\ rpc' = [rpc EXCEPT ![k] = Forget(k)]
        /\ Answer(k, Reply("transport", <<>>, a, version[a]))
        /\ Resume(a)
        /\ UNCHANGED <<log, state, version, mailbox, snapshot, cache, req, seed>>

Reread(a) ==
    /\ apc[a] = "reread"
    /\ state' = [state EXCEPT ![a] = StateAfterRead(log, @, version[a])]
    /\ version' = [version EXCEPT ![a] = VersionAfterRead(log, @)]
    /\ attempt' = [attempt EXCEPT ![a] = @ + 1]
    /\ apc' = [apc EXCEPT ![a] = "decide"]
    /\ UNCHANGED <<serverVars, callVars, mailbox, cur, produced, base, snapshot, cache>>

RereadFails(a) ==
    /\ apc[a] = "reread"
    /\ Answer(cur[a], Reply("transport", <<>>, a, version[a]))
    /\ Resume(a)
    /\ UNCHANGED <<serverVars, state, version, mailbox, snapshot, cache, req, seed>>

\* The loop `for attempt in 0..MAX_RETRIES' is over.
GiveUp(a) ==
    /\ apc[a] = "decide"
    /\ attempt[a] = MAX_RETRIES
    /\ Answer(cur[a], Reply("wrong_expected_version", <<>>, a, version[a]))
    /\ Resume(a)
    /\ UNCHANGED <<serverVars, state, version, mailbox, snapshot, cache, req, seed>>

RecvGetState(a) ==
    /\ NextMessage(a, "state")
    /\ Answer(Head(mailbox[a]), Reply("state", state[a], a, version[a]))
    /\ UNCHANGED <<serverVars, apc, state, version, cur, attempt, produced, base,
                   snapshot, cache, req, seed>>

RecvInject(a) ==
    LET k == Head(mailbox[a])
    IN  /\ NextMessage(a, "inject")
        /\ rpc' = [rpc EXCEPT ![k] = Sent(AnyVersion, <<Stamp(req[k].arg, k)>>)]
        /\ apc' = [apc EXCEPT ![a] = "inject"]
        /\ cur' = [cur EXCEPT ![a] = k]
        /\ UNCHANGED <<callVars, log, state, version, attempt, produced, base,
                       snapshot, cache>>

InjectOk(a) ==
    /\ apc[a] = "inject"
    /\ rpc[cur[a]].status = "ok"
    /\ rpc' = [rpc EXCEPT ![cur[a]] = NoRpc]
    /\ apc' = [apc EXCEPT ![a] = "inject_read"]
    /\ UNCHANGED <<callVars, log, state, version, mailbox, cur, attempt, produced,
                   base, snapshot, cache>>

\* Mutant: a failed injection is answered like a successful one.
InjectFailsAsOk(a) ==
    /\ apc[a] = "inject"
    /\ rpc' = [rpc EXCEPT ![cur[a]] = Forget(cur[a])]
    /\ Answer(cur[a], Reply("injected", <<>>, a, version[a]))
    /\ Resume(a)
    /\ UNCHANGED <<log, state, version, mailbox, snapshot, cache, req, seed>>

InjectFails(a) ==
    /\ apc[a] = "inject"
    /\ rpc' = [rpc EXCEPT ![cur[a]] = Forget(cur[a])]
    /\ Answer(cur[a], Reply("transport", <<>>, a, version[a]))
    /\ Resume(a)
    /\ UNCHANGED <<log, state, version, mailbox, snapshot, cache, req, seed>>

\* After a successful injection the actor reads the stream; a failed read is
\* ignored, and the reply is Ok(()) either way.
InjectRead(a) ==
    /\ apc[a] = "inject_read"
    /\ \/ /\ state' = [state EXCEPT ![a] = StateAfterRead(log, @, version[a])]
          /\ version' = [version EXCEPT ![a] = VersionAfterRead(log, @)]
       \/ UNCHANGED <<state, version>>
    /\ Answer(cur[a], Reply("injected", <<>>, a, version[a]))
    /\ Resume(a)
    /\ UNCHANGED <<serverVars, mailbox, snapshot, cache, req, seed>>

-----------------------------------------------------------------------------
(* The three ways out of run_actor                                          *)

Leave(a) ==
    /\ apc' = [apc EXCEPT ![a] = "exiting"]
    /\ UNCHANGED <<serverVars, callVars, state, version, cur, attempt, produced,
                   base, snapshot, cache>>

RecvShutdown(a) == NextMessage(a, "shutdown") /\ Leave(a)

\* timeout(idle, rx.recv()) elapses: recv found the channel empty.
IdleTimeout(a) ==
    /\ apc[a] = "recv"
    /\ mailbox[a] = <<>>
    /\ UNCHANGED mailbox
    /\ Leave(a)

\* recv() returns None: every sender is dropped and the queue is drained.
ChannelClosed(a) ==
    /\ apc[a] = "recv"
    /\ mailbox[a] = <<>>
    /\ cache # a /\ \A k \in Calls : handle[k] # a
    /\ UNCHANGED mailbox
    /\ Leave(a)

\* Mutant: the snapshot records the next version instead of the last one.
SavedSnapshotsAhead(a) ==
    {[state |-> state[a], version |-> version[a] + 1], snapshot, NoSnapshot}

\* What save_snapshot_quietly may leave behind: the new snapshot, the old one
\* (the error is only logged), or a file that no longer parses, which loads as
\* None (two actors share one .tmp path; rename without fsync).
SavedSnapshots(a) ==
    IF SnapshotsWritable
    THEN {[state   |-> state[a],
           version |-> IF version[a] = None THEN 0 ELSE version[a]],
          snapshot, NoSnapshot}
    ELSE {snapshot}

\* Mutant: callers whose messages are dropped are never told.
ExitSilently(a) ==
    /\ apc[a] = "exiting"
    /\ snapshot' \in SavedSnapshots(a)
    /\ apc' = [apc EXCEPT ![a] = "gone"]
    /\ state' = [state EXCEPT ![a] = <<>>]
    /\ version' = [version EXCEPT ![a] = None]
    /\ mailbox' = [mailbox EXCEPT ![a] = <<>>]
    /\ UNCHANGED <<serverVars, callVars, cur, attempt, produced, base, cache>>

\* The snapshot is saved, then the receiver is dropped with all it still holds:
\* callers that got into the channel meanwhile see their oneshot closed.
Exit(a) ==
    LET lost == {k \in Range(mailbox[a]) : cpc[k] = "queued"}
    IN  /\ apc[a] = "exiting"
        /\ snapshot' \in SavedSnapshots(a)
        /\ apc' = [apc EXCEPT ![a] = "gone"]
        /\ state' = [state EXCEPT ![a] = <<>>]
        /\ version' = [version EXCEPT ![a] = None]
        /\ mailbox' = [mailbox EXCEPT ![a] = <<>>]
        /\ cpc' = [k \in Calls |-> IF k \in lost THEN "done" ELSE cpc[k]]
        /\ handle' = [k \in Calls |-> IF k \in lost THEN NoActor ELSE handle[k]]
        /\ reply' = [k \in Calls |-> IF k \in lost
                                     THEN Refusal("actor_gone")
                                     ELSE reply[k]]
        /\ UNCHANGED <<serverVars, cur, attempt, produced, base, cache, req, seed>>

-----------------------------------------------------------------------------
(* The environment                                                          *)

\* The server carries out an append it has received.
ServerAppend(k) ==
    /\ rpc[k].status = "sent"
    /\ \/ /\ Accepts(log, rpc[k].expected)
          /\ log' = log \o rpc[k].events
          /\ rpc' = [rpc EXCEPT ![k] = Accepted(LastVersion(log'))]
       \/ /\ ~Accepts(log, rpc[k].expected)
          /\ rpc' = [rpc EXCEPT ![k] = FailedPrecondition]
          /\ UNCHANGED log
    /\ UNCHANGED <<taskVars, callVars, snapshot, cache>>

\* Another process, or AggregateStore::inject_event, appends with Any.
OtherAppend(e) ==
    /\ Len(log) < ForeignLimit
    /\ log' = Append(log, Stamp(e, Other))
    /\ UNCHANGED <<taskVars, callVars, rpc, snapshot, cache>>

\* The process dies and is started again: tasks, channels and the cache are
\* lost; requests already sent may still be carried out.
Crash ==
    LET hit == {k \in Calls : cpc[k] \notin {"new", "done"}}
    IN  /\ snapshot' \in {snapshot, NoSnapshot}
        /\ cache' = NoActor
        /\ rpc' = [k \in Calls |-> Forget(k)]
        /\ apc' = [a \in Actors |-> "gone"]
        /\ state' = [a \in Actors |-> <<>>]
        /\ version' = [a \in Actors |-> None]
        /\ mailbox' = [a \in Actors |-> <<>>]
        /\ cur' = [a \in Actors |-> Other]
        /\ attempt' = [a \in Actors |-> 0]
        /\ produced' = [a \in Actors |-> <<>>]
        /\ base' = [a \in Actors |-> None]
        /\ cpc' = [k \in Calls |-> IF k \in hit THEN "done" ELSE cpc[k]]
        /\ handle' = [k \in Calls |-> NoActor]
        /\ seed' = [k \in Calls |-> NoSnapshot]
        /\ reply' = [k \in Calls |-> IF k \in hit
                                     THEN Refusal("crashed")
                                     ELSE reply[k]]
        /\ UNCHANGED <<log, req>>

-----------------------------------------------------------------------------
CallStep(k) ==
    \/ GetCached(k) \/ GetMiss(k) \/ GetEvict(k) \/ SpawnLoad(k)
    \/ (\E a \in Actors : SpawnCatchUp(k, a)) \/ GetInsert(k)
    \/ Send(k) \/ SendFails(k)

ActorStep(a) ==
    \/ RecvExecute(a) \/ DecideNothing(a) \/ DecideAppend(a) \/ AppendOk(a)
    \/ AppendConflict(a) \/ Reread(a) \/ GiveUp(a) \/ RecvGetState(a)
    \/ RecvInject(a) \/ InjectOk(a) \/ InjectRead(a) \/ RecvShutdown(a)
    \/ ChannelClosed(a) \/ Exit(a)

Failure ==
    \/ \E k \in Calls : SpawnFails(k) \/ Abandon(k)
    \/ \E a \in Actors :
           \/ EncodeFails(a) \/ AppendFails(a) \/ RereadFails(a) \/ InjectFails(a)
           \/ IdleTimeout(a)
    \/ Crash

Next ==
    \/ \E k \in Calls, r \in Requests : Issue(k, r)
    \/ \E k \in Calls : CallStep(k) \/ ServerAppend(k)
    \/ \E a \in Actors : ActorStep(a)
    \/ \E e \in ForeignEvents : OtherAppend(e)
    \/ Failure

Spec == Init /\ [][Next]_vars

-----------------------------------------------------------------------------
(* Correctness                                                              *)

Recorded  == [type : EventTypes, payload : Payloads, by : Calls \cup {Other}]
History   == Seq(DomainEvents \cup {NoEvent})
Versions  == Nat \cup {None}
Snapshots == [state : History, version : Versions]
Expected  == [kind : {"any", "no_stream", "exact"}, version : Versions]
Rpcs      == [status : {"none", "sent", "ok", "conflict"}, expected : Expected,
              events : Seq(Recorded), last : Versions]
Tags      == {"none", "sent", "spawn_error", "actor_gone", "abandoned", "crashed", "ok",
              "domain", "io", "transport", "wrong_expected_version", "state", "injected"}
Replies   == [tag : Tags, val : History, base : Versions, at : Versions]
ActorPcs  == {"gone", "recv", "decide", "append", "reread", "inject", "inject_read",
              "exiting"}
CallPcs   == {"new", "get", "evict", "load", "read", "insert", "ready", "queued", "done"}

\* Type invariant of the write side.
TypeOK ==
    /\ log \in Seq(Recorded)
    /\ rpc \in [Calls -> Rpcs]
    /\ snapshot \in Snapshots
    /\ cache \in Actors \cup {NoActor}
    /\ apc \in [Actors -> ActorPcs]
    /\ state \in [Actors -> History]
    /\ version \in [Actors -> Versions]
    /\ mailbox \in [Actors -> Seq(Calls)]
    /\ cur \in [Actors -> Calls \cup {Other}]
    /\ attempt \in [Actors -> 0 .. MAX_RETRIES]
    /\ produced \in [Actors -> Seq(DomainEvents)]
    /\ base \in [Actors -> Versions]
    /\ cpc \in [Calls -> CallPcs]
    /\ req \in [Calls -> Requests \cup {NoRequest}]
    /\ handle \in [Calls -> Actors \cup {NoActor}]
    /\ seed \in [Calls -> Snapshots]
    /\ reply \in [Calls -> Replies]

\* s is what folding events 0..v of the stream l, and nothing else, yields.
IsFold(l, s, v) ==
    /\ v < Len(l)
    /\ s = Visit(SubSeq(l, 1, v + 1))

\* The aggregate of a running actor is always the fold of the stream up to the
\* version it will append under, whatever mix of snapshot, catch-up, local
\* apply, conflict re-read and injection re-read produced it
\* (actor.rs:369-379, 492-513, 587-605).
StateIsFold ==
    \A a \in Actors : apc[a] # "gone" => IsFold(log, state[a], version[a])

\* "If a snapshot exists at stream_version N, events 0..=N have been applied"
\* (actor.rs:587-589): the file an actor leaves behind, and the copy a starting
\* actor has loaded, never skip or repeat an event.
SnapshotIsFold ==
    /\ IsFold(log, snapshot.state, snapshot.version)
    /\ \A k \in Calls : IsFold(log, seed[k].state, seed[k].version)

\* Where call k's events are in the stream.
Written(k) == {i \in 1 .. Len(log) : log[i].by = k}

\* Optimistic concurrency makes a command atomic: if any event of an Execute is
\* in the stream, then all of them are, once, next to each other, and they are
\* what handle() decides on the fold of exactly the events before them - through
\* retries, lost answers, late requests, duplicate actors and other writers
\* (execute_with_retry, actor.rs:465-528).
CommandsAreAtomic ==
    \A k \in Calls :
        req[k].kind = "execute" /\ Written(k) # {} =>
            \E n \in 0 .. Len(log) - 1 :
                LET d == Handle(Visit(SubSeq(log, 1, n)), req[k].arg)
                IN  /\ d.ok
                    /\ Written(k) = (n + 1) .. (n + Len(d.events))
                    /\ SubSeq(log, n + 1, n + Len(d.events)) = EncodeAll(d.events, k)

\* execute() returning Ok(events) means exactly those events are in the stream,
\* ending at the version the actor recorded; inject returning Ok means the event
\* is there once (actor.rs:352, 364-379, 493-502).
OkMeansAppended ==
    \A k \in Calls :
        /\ reply[k].tag = "ok" =>
               /\ Written(k) = (reply[k].at + 2 - Len(reply[k].val)) .. (reply[k].at + 1)
               /\ Visit(SubSeq(log, reply[k].at + 2 - Len(reply[k].val), reply[k].at + 1))
                      = reply[k].val
        /\ reply[k].tag = "injected" =>
               \E i \in 1 .. Len(log) : Written(k) = {i} /\ log[i] = Stamp(req[k].arg, k)

\* Domain, Io, WrongExpectedVersion and ActorGone are final: no event of such a call
\* is in the stream, or ever gets there (only Transport is ambiguous).  ActorGone
\* covers messages still queued when an actor leaves (actor.rs:205, 386-419).
ErrorMeansNoEffect ==
    \A k \in Calls :
        reply[k].tag \in {"domain", "io", "wrong_expected_version", "actor_gone", "spawn_error"}
            => Written(k) = {} /\ rpc[k].status # "sent"

\* What a caller is told was true of the stream at some moment: a rejection, an
\* accepted no-op and a state() answer all come from the fold of a prefix of the
\* stream, never from a value the aggregate did not have (actor.rs:356, 467-475).
AnswersComeFromHistory ==
    \A k \in Calls :
        LET past == Visit(SubSeq(log, 1, reply[k].at + 1))
        IN  /\ reply[k].tag = "state" => reply[k].val = past
            /\ reply[k].tag = "domain" => ~Handle(past, req[k].arg).ok
            /\ reply[k].tag = "ok" /\ reply[k].val = <<>> =>
                   Handle(past, req[k].arg) = [ok |-> TRUE, events |-> <<>>]

\* WrongExpectedVersion is only returned when other writers really won: the
\* actor learned of at least MAX_RETRIES events it did not know when it took the
\* command (actor.rs:465, 504-528; ExecuteError::WrongExpectedVersion).
GaveUpOnlyUnderContention ==
    \A k \in Calls :
        reply[k].tag = "wrong_expected_version" => reply[k].at >= reply[k].base + MAX_RETRIES

\* A running actor only ever moves forward: the version does not decrease and
\* what has been folded is kept.
ActorNeverGoesBack ==
    [][\A a \in Actors :
           apc[a] # "gone" /\ apc'[a] # "gone" =>
               /\ version'[a] >= version[a]
               /\ Len(state'[a]) >= Len(state[a])
               /\ SubSeq(state'[a], 1, Len(state[a])) = state[a]]_vars

\* Scheduling and delivery the runtime provides: tasks that can run do run, the
\* server answers, callers that hold a handle use it.  Timeouts, transport
\* errors, crashes and other writers are never relied on.
Fairness ==
    /\ \A k \in Calls : WF_vars(CallStep(k)) /\ WF_vars(ServerAppend(k))
    /\ \A a \in Actors : WF_vars(ActorStep(a))

FairSpec == Spec /\ Fairness

\* The crate's promise about an instance's stream, see CommandLog: every command
\* takes effect at one moment, decided on the whole stream before it.
Abstract == INSTANCE CommandLog
ImplementsCommandLog == Abstract!Spec

\* Every call returns: retries are bounded, a message is answered, refused, or
\* dropped with its channel, and no spawn is starved (actor.rs:191-206, 465).
EveryCallReturns ==
    \A k \in Calls : cpc[k] = "get" ~> cpc[k] = "done"

=============================================================================
