------------------------------ MODULE NatStore ------------------------------
(* What the NAT driver promises its clients: a store of rules by handle.  An *)
(* add that succeeds hands out a handle nobody holds; a delete releases the  *)
(* handle it is given and no other; a call that fails changes nothing.       *)
CONSTANTS Handles, Rules, NoRule

VARIABLE store

Init == store = [h \in Handles |-> NoRule]

Add(h, r) == store[h] = NoRule /\ store' = [store EXCEPT ![h] = r]

Del(h) == store[h] # NoRule /\ store' = [store EXCEPT ![h] = NoRule]

Next == \E h \in Handles : Del(h) \/ \E r \in Rules : Add(h, r)

Spec == Init /\ [][Next]_store
=============================================================================
