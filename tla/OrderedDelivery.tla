-------------------------- MODULE OrderedDelivery --------------------------
(***************************************************************************)
(* What the chat outbox promises: the events of a stream are announced in  *)
(* the order of their versions.  An event stays open until it is announced *)
(* or, while it is the newest of its stream, withdrawn; both are final.    *)
(***************************************************************************)
EXTENDS Integers

CONSTANTS Streams, Versions

VARIABLE entry

States == {"none", "open", "announced", "withdrawn"}

Newest(s, v) == \A u \in Versions : u > v => entry[s][u] = "none"

Init == entry = [s \in Streams |-> [v \in Versions |-> "none"]]

Become(s, v, state) == entry' = [entry EXCEPT ![s] = [@ EXCEPT ![v] = state]]

Append(s, v) ==
    /\ entry[s][v] = "none" /\ Newest(s, v)
    /\ Become(s, v, "open")

Announce(s, v) ==
    /\ entry[s][v] = "open"
    /\ \A u \in Versions : u < v => entry[s][u] # "open"
    /\ Become(s, v, "announced")

Withdraw(s, v) ==
    /\ entry[s][v] = "open" /\ Newest(s, v)
    /\ Become(s, v, "withdrawn")

Next == \E s \in Streams, v \in Versions :
            Append(s, v) \/ Announce(s, v) \/ Withdraw(s, v)

Spec == Init /\ [][Next]_entry

=============================================================================
