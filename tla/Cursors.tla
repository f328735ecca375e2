------------------------------ MODULE Cursors -------------------------------
(***************************************************************************)
(* What the read side promises, without locks, subscriptions, callers or   *)
(* files that are being written: one append-only log; runners that move    *)
(* over it one event at a time; a saved position per runner that a restart *)
(* goes back to; and commands that are carried out for events their        *)
(* manager has moved past.                                                 *)
(***************************************************************************)
EXTENDS Integers, Sequences

CONSTANT Runner

VARIABLES
    log,
    pos,    \* pos[r]: how many events runner r has been given
    saved,  \* saved[r]: where r starts again after a restart
    done    \* commands dispatched or dead-lettered, with their manager and event

Init ==
    /\ log = <<>>
    /\ pos = [r \in Runner |-> 0]
    /\ saved = [r \in Runner |-> 0]
    /\ done = {}

\* Events are appended, several at once if they answer one command.
Grow ==
    /\ Len(log) < Len(log')
    /\ SubSeq(log', 1, Len(log)) = log
    /\ UNCHANGED <<pos, saved, done>>

\* No event is passed over and none comes back.
Deliver(r) ==
    /\ pos[r] < Len(log)
    /\ pos' = [pos EXCEPT ![r] = @ + 1]
    /\ UNCHANGED <<log, saved, done>>

Save(r) ==
    /\ saved' = [saved EXCEPT ![r] = pos[r]]
    /\ UNCHANGED <<log, pos, done>>

CarryOut ==
    /\ \E x \in done' : x.pos < pos[x.pm] /\ done' = done \cup {x}
    /\ UNCHANGED <<log, pos, saved>>

\* Files that are lost send their runners back to the start of the log.
Restart ==
    /\ \A r \in Runner : saved'[r] \in {0, saved[r]}
    /\ pos' = saved'
    /\ UNCHANGED <<log, done>>

Next == Grow \/ CarryOut \/ Restart \/ \E r \in Runner : Deliver(r) \/ Save(r)

Spec == Init /\ [][Next]_<<log, pos, saved, done>>

=============================================================================
