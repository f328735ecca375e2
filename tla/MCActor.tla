------------------------------ MODULE MCActor -------------------------------
(***************************************************************************)
(* Actor on the Counter aggregate of the repository's tests                *)
(* (aggregate.rs, test_fixtures): unit events, a data event, a command     *)
(* that is rejected at zero.  `drain' stands for commands that produce     *)
(* several events, or none.                                                *)
(***************************************************************************)
EXTENDS ActorInv, FiniteSets, TLC

CONSTANTS k1, k2, a1, a2, noData, jsonNull, emptyBytes, malformed, noEvent

MCEventTypes   == {"Incremented", "Decremented", "Added"}
MCDataValues   == {"two"}
Incremented    == [type |-> "Incremented", data |-> noData]
Decremented    == [type |-> "Decremented", data |-> noData]
AddedTwo       == [type |-> "Added", data |-> "two"]
MCDomainEvents == {Incremented, Decremented, AddedTwo}

Tally(s, d) == Cardinality({i \in 1 .. Len(s) : s[i] = d})
Value(s)    == Tally(s, Incremented) + 2 * Tally(s, AddedTwo) - Tally(s, Decremented)
Accept(es)  == [ok |-> TRUE, events |-> es]

MCHandle(s, c) ==
    CASE c = "add_two"   -> Accept(<<AddedTwo>>)
      [] c = "decrement" -> IF Value(s) <= 0 THEN [ok |-> FALSE, events |-> <<>>]
                            ELSE Accept(<<Decremented>>)
      [] c = "drain"     -> Accept([i \in 1 .. Value(s) |-> Decremented])

MCCommands == {"add_two", "decrement", "drain"}

Wire(t, p) == [type |-> t, payload |-> p]
Execute(c) == [kind |-> "execute", arg |-> c]
MCRequestsAll ==
    {Execute("decrement"), Execute("drain"),
     [kind |-> "inject", arg |-> Wire("Incremented", emptyBytes)],
     [kind |-> "state", arg |-> None], [kind |-> "shutdown", arg |-> None]}
MCRequestsLive ==
    {Execute("decrement"), [kind |-> "shutdown", arg |-> None],
     [kind |-> "inject", arg |-> Wire("Incremented", emptyBytes)]}
MCRequestsExecute == {Execute("decrement"), Execute("add_two")}

MCForeign    == {Wire("Incremented", jsonNull), Wire("Incremented", malformed)}
MCForeignOne == {Wire("Added", "two")}

MCStreamOne   == <<Stamp(Wire("Incremented", jsonNull), Other)>>
MCStreamEmpty == <<>>

Symmetry == Permutations(Calls) \cup Permutations(Actors)
=============================================================================
