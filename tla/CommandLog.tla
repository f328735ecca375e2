----------------------------- MODULE CommandLog -----------------------------
(***************************************************************************)
(* What the write side promises about one aggregate instance, with no      *)
(* actors, mailboxes, caches, snapshots, versions, retries or messages:    *)
(* a stream of events to which a command is applied in one indivisible     *)
(* step, decided on the fold of everything already in the stream, at most  *)
(* once; injected events and other writers add to it freely.               *)
(***************************************************************************)
EXTENDS EventCodec

CONSTANTS Calls, Requests, Handle(_, _), InitStream, ForeignEvents, Other

VARIABLES log, req

NotYet(k) == \A i \in 1 .. Len(log) : log[i].by # k

Init ==
    /\ log = InitStream
    /\ req = [k \in Calls |-> [kind |-> "none", arg |-> -1]]

Ask(k, r) ==
    /\ req[k].kind = "none"
    /\ req' = [req EXCEPT ![k] = r]
    /\ UNCHANGED log

\* The command of call k takes effect.
Commit(k) ==
    LET d == Handle(Visit(log), req[k].arg)
    IN  /\ req[k].kind = "execute"
        /\ NotYet(k)
        /\ d.ok
        /\ log' = log \o EncodeAll(d.events, k)
        /\ UNCHANGED req

\* The pre-built event of call k is added.
Inject(k) ==
    /\ req[k].kind = "inject"
    /\ NotYet(k)
    /\ log' = Append(log, Stamp(req[k].arg, k))
    /\ UNCHANGED req

OtherAppend(e) ==
    /\ log' = Append(log, Stamp(e, Other))
    /\ UNCHANGED req

Next ==
    \/ \E k \in Calls : Commit(k) \/ Inject(k) \/ \E r \in Requests : Ask(k, r)
    \/ \E e \in ForeignEvents : OtherAppend(e)

Spec == Init /\ [][Next]_<<log, req>>

=============================================================================
