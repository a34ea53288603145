----------------------------- MODULE PacketPipe -----------------------------
(***************************************************************************)
(* What a tunnel connection promises the packets it carries.  In each      *)
(* direction (a flow) packets are accepted from a TUN device and delivered *)
(* to the other one.  A flow may lose what it has not delivered, but only  *)
(* all of it at once, by closing: until then it loses, repeats, reorders   *)
(* and invents nothing, and once it is closed it delivers nothing.         *)
(***************************************************************************)
EXTENDS Naturals, Sequences

CONSTANTS Flow,    \* the directions of all connections
          Packet   \* what a TUN device reads and writes

VARIABLES accepted,   \* accepted[f]: the packets flow f has taken, in order
          delivered,  \* delivered[f]: the packets it has handed over, in order
          closed      \* the flows that deliver nothing any more

vars == <<accepted, delivered, closed>>

Init == /\ accepted = [f \in Flow |-> <<>>]
        /\ delivered = [f \in Flow |-> <<>>]
        /\ closed = {}

Accept(f, p) ==
    /\ accepted' = [accepted EXCEPT ![f] = Append(@, p)]
    /\ UNCHANGED <<delivered, closed>>

Deliver(f) ==
    /\ f \notin closed
    /\ Len(delivered[f]) < Len(accepted[f])
    /\ delivered' = [delivered EXCEPT
                        ![f] = Append(@, accepted[f][Len(delivered[f]) + 1])]
    /\ UNCHANGED <<accepted, closed>>

\* One or more flows close together: a process that dies ends all of its own.
Close(S) == /\ closed' = closed \cup S
            /\ UNCHANGED <<accepted, delivered>>

Next == \/ \E f \in Flow, p \in Packet : Accept(f, p)
        \/ \E f \in Flow : Deliver(f)
        \/ \E S \in SUBSET Flow : Close(S)

Spec == Init /\ [][Next]_vars
=============================================================================
