----------------------------- MODULE EventCodec -----------------------------
(***************************************************************************)
(* How a domain event becomes the (event_type, payload) pair stored by the *)
(* server, and how a stored pair becomes a domain event again.             *)
(*                                                                         *)
(* A domain event is an adjacently tagged value: a record with its variant *)
(* name `type' and its `data', NoData for a unit variant.  A payload is    *)
(* one of the bytes the code tells apart: no bytes at all (EmptyBytes),    *)
(* the JSON text `null' (JsonNull), bytes that are not UTF-8 or not JSON   *)
(* (Malformed), or the JSON text of some data.                             *)
(***************************************************************************)
EXTENDS Integers, Sequences

CONSTANTS
    EventTypes,     \* variant names, `event_type'
    DataValues,     \* JSON values other than null
    DomainEvents,   \* what `A::DomainEvent' deserializes from
    NoData,         \* a unit variant has no "data" key
    JsonNull,       \* payload bytes "null"
    EmptyBytes,     \* payload of length 0
    Malformed,      \* payload that is not UTF-8 JSON
    NoEvent         \* `None': the stored event is not a domain event

Payloads == DataValues \cup {JsonNull, EmptyBytes, Malformed}
Stored   == [type : EventTypes, payload : Payloads]

\* No variant carries data whose JSON is a bare null: serde writes that exactly
\* as it writes a unit variant, so such an event would not survive a re-read.
ASSUME CodecAssumption ==
    /\ DomainEvents \subseteq [type : EventTypes, data : DataValues \cup {NoData}]
    /\ DataValues \cap {NoData, JsonNull, EmptyBytes, Malformed} = {}
    /\ JsonNull # Malformed /\ EmptyBytes # Malformed
    /\ NoEvent \notin DomainEvents

\* encode_domain_event: the variant name becomes event_type; an absent "data"
\* key becomes Value::Null, whose payload bytes are "null".
EncodePayload(d) == IF d.data = NoData THEN JsonNull ELSE d.data

\* decode_domain_event, first half: the envelope {"type"} or {"type","data"}.
Envelope(type, payload) ==
    [type |-> type,
     data |-> IF payload \in {JsonNull, EmptyBytes} THEN NoData ELSE payload]

\* decode_domain_event: None when the bytes do not parse, or when the envelope
\* is not a variant of the aggregate's event type.
Decode(type, payload) ==
    IF payload # Malformed /\ Envelope(type, payload) \in DomainEvents
    THEN Envelope(type, payload)
    ELSE NoEvent

-----------------------------------------------------------------------------
\* In a stream, an event also carries its author, which stands for the event id
\* and the metadata stamped on it.
Encode(d, k) == [type |-> d.type, payload |-> EncodePayload(d), by |-> k]
Stamp(e, k)  == [type |-> e.type, payload |-> e.payload, by |-> k]

EncodeAll(ds, k) == [i \in 1 .. Len(ds) |-> Encode(ds[i], k)]

\* What a fold loop makes of the events it reads, one entry per event: the
\* domain event it applies, or NoEvent when it only advances the version.
Visit(events) ==
    [i \in 1 .. Len(events) |-> Decode(events[i].type, events[i].payload)]

=============================================================================
