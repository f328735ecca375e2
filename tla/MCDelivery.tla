----------------------------- MODULE MCDelivery -----------------------------
(***************************************************************************)
(* An order process: m1 answers `Placed' by reserving stock, m2 answers    *)
(* `Reserved' with a command that has no dispatcher, so that only a dead   *)
(* letter can deliver it.  Other events are an injected one without        *)
(* payload and one of a program without metadata.                          *)
(***************************************************************************)
EXTENDS Delivery, TLC

CONSTANTS p1, m1, m2, c1, c2, absent, badUuid, noStored, noData, jsonNull, emptyBytes,
          malformed, noEvent

Orders   == <<"order">>
Stock    == <<"stock">>
Shipping == <<"shipping">>
One      == <<"1">>

MCEventTypes   == {"Placed", "Reserved", "Shipped", "Noise"}
MCDataValues   == {"two"}
Reserved       == [type |-> "Reserved", data |-> "two"]
Shipped        == [type |-> "Shipped", data |-> "two"]
MCDomainEvents == {Reserved, Shipped}

MCBuilder == [projections      |-> <<p1, p1>>,
              process_managers |-> <<m1, m2>>,
              aggregate_types  |-> <<Orders, Stock>>]
MCOrder   == <<p1, m1, m2>>

Answered(m, e) == \/ m = m1 /\ e.type = "Placed"
                  \/ m = m2 /\ e.type = "Reserved"
MCEnvelopes(m, e) == IF Answered(m, e) THEN 1 ELSE 0

MCCommandOf(m, stored, i) ==
    IF m = m1
    THEN [aggregate_type |-> Stock, instance_id |-> One, command |-> "reserve"]
    ELSE [aggregate_type |-> Shipping, instance_id |-> One, command |-> "ship"]
MCCommandsOf(type) == IF type = Stock THEN {"reserve"} ELSE {}
MCOutcome(command) == IF command = "reserve" THEN <<Reserved>> ELSE <<Shipped>>

NoContext == [actor |-> absent, correlation_id |-> absent, metadata |-> absent, source_device |-> absent]
Placed    == [type     |-> "Placed",
              payload  |-> emptyBytes,
              metadata |-> Metadata(NoContext, Orders, One)]
MCInjections == {[aggregate_type |-> Orders, instance_id |-> One, proposed |-> Placed]}
Noise        == [event_id |-> "uuid", stream_id |-> <<"noise", "1">>, type |-> "Noise",
                 payload |-> jsonNull, metadata |-> malformed]
MCOutside    == {Noise}

Results  == {Recorded(encode_domain_event(Reserved, Context([pm |-> m1, pos |-> n, nr |-> 1]), Stock, One),
                      stream_uuid(Stock, One)) : n \in 0 .. LogLimit - 1}
MCEvents == MCOutside \cup Results \cup {InjectedEvent(x) : x \in MCInjections}
MCDecodable == {e \in MCEvents : decode_stored_event(e) # NoStored}

MCOperations == (c1 :> {"projection", "run_process_managers", "inject_and_run"}) @@ (c2 :> {"inject"})
=============================================================================
