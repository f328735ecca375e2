----------------------------- MODULE EventStore -----------------------------
(***************************************************************************)
(* The part of the eventfold-db server the crate relies on, for one        *)
(* stream: an append-only sequence of events, version n being its element  *)
(* n+1, appended to under an expected version and read from a version on.  *)
(* External: written from the way client.rs and actor.rs use it.           *)
(***************************************************************************)
EXTENDS Integers, Sequences

\* Option<u64> stream versions: -1 is None, the stream has no event yet.
None == -1

\* ExpectedVersionArg
AnyVersion      == [kind |-> "any", version |-> None]
NoStream == [kind |-> "no_stream", version |-> None]
Exact(v) == [kind |-> "exact", version |-> v]

\* The version of a stream's last event, None for a stream never written.
LastVersion(stream) == Len(stream) - 1

\* The server's precondition for an append; FAILED_PRECONDITION otherwise.
Accepts(stream, expected) ==
    \/ expected.kind = "any"
    \/ expected.kind = "no_stream" /\ Len(stream) = 0
    \/ expected.kind = "exact" /\ Len(stream) > 0 /\ LastVersion(stream) = expected.version

\* ReadStream from a version to the end.  A stream that does not exist reads
\* as empty: EsClient::read_stream maps NOT_FOUND to an empty vector.
ReadFrom(stream, from) == SubSeq(stream, from + 1, Len(stream))

=============================================================================
