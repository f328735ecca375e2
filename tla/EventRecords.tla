---------------------------- MODULE EventRecords ----------------------------
(***************************************************************************)
(* What an event carries besides its type and payload: the identity of its *)
(* aggregate and the context of its command, from the writer to the global *)
(* log and from there to projections and process managers.                 *)
(*                                                                         *)
(* A name (aggregate type, instance id) is the sequence of its parts       *)
(* between slashes, so the empty string is <<"">>.                         *)
(***************************************************************************)
EXTENDS EventCodec

CONSTANTS
    Absent,     \* an Option that is None, a key that is not in a JSON object
    BadUuid,    \* an event id or stream id that does not parse
    NoStored    \* None of decode_stored_event

EmptyName == <<"">>

\* UUID v5 of "{aggregate_type}/{instance_id}", the hash taken to be injective.
stream_uuid(aggregate_type, instance_id) == aggregate_type \o instance_id

\* EventMetadata; the context's own `metadata' is not among what is copied.
Metadata(ctx, aggregate_type, instance_id) ==
    [aggregate_type |-> aggregate_type,
     instance_id    |-> instance_id,
     actor          |-> ctx.actor,
     correlation_id |-> ctx.correlation_id,
     source_device  |-> ctx.source_device]

\* Mutant: the context is not passed on.
encode_domain_event_bare(d, ctx, aggregate_type, instance_id) ==
    [type     |-> d.type,
     payload  |-> EncodePayload(d),
     metadata |-> [Metadata(ctx, aggregate_type, instance_id) EXCEPT !.correlation_id = Absent]]

encode_domain_event(d, ctx, aggregate_type, instance_id) ==
    [type     |-> d.type,
     payload  |-> EncodePayload(d),
     metadata |-> Metadata(ctx, aggregate_type, instance_id)]

\* to_proto_event, and the server's own fields: the proposed event as recorded.
Recorded(proposed, stream_id) ==
    [event_id |-> "uuid", stream_id |-> stream_id, type |-> proposed.type,
     payload |-> proposed.payload, metadata |-> proposed.metadata]

\* A required field: there, a string, and not empty.
IsName(v) == v \notin {Absent, EmptyName}

\* decode_stored_event: an event of another program, or one whose identity is
\* not two non-empty names, is no event to projections and process managers.
decode_stored_event(e) ==
    IF /\ e.metadata # Malformed
       /\ IsName(e.metadata.aggregate_type)
       /\ IsName(e.metadata.instance_id)
       /\ BadUuid \notin {e.event_id, e.stream_id}
       /\ e.payload # Malformed
    THEN [stream_id      |-> e.stream_id,
          aggregate_type |-> e.metadata.aggregate_type,
          instance_id    |-> e.metadata.instance_id,
          type           |-> e.type,
          payload        |-> IF e.payload = EmptyBytes THEN JsonNull ELSE e.payload,
          metadata       |-> e.metadata]
    ELSE NoStored

=============================================================================
