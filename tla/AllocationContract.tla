-------------------------- MODULE AllocationContract --------------------------
(***************************************************************************)
(* What trade relies on when it asks for a mailbox: an order gets one      *)
(* address, no other order of its project ever got it, and an address that *)
(* was given back stays with the order as its history.                     *)
(***************************************************************************)
CONSTANTS Orders, Addresses, Project

VARIABLES given,   \* the addresses an order got
          ended    \* the orders that gave their address back

TypeOK == given \in [Orders -> SUBSET Addresses] /\ ended \subseteq Orders

Fresh(o, a) == \A q \in Orders : Project[q] = Project[o] => a \notin given[q]

Give(o, a) ==
  /\ given[o] = {} /\ Fresh(o, a)
  /\ given' = [given EXCEPT ![o] = {a}]
  /\ UNCHANGED ended

Return(o) ==
  /\ given[o] # {} /\ o \notin ended
  /\ ended' = ended \cup {o}
  /\ UNCHANGED given

Init == given = [o \in Orders |-> {}] /\ ended = {}

Next == \E o \in Orders : Return(o) \/ \E a \in Addresses : Give(o, a)

Spec == Init /\ [][Next]_<<given, ended>>
================================================================================
