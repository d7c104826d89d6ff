-------------------------------- MODULE MCForget --------------------------------
(* A segment of two events, a memory drawn from one or both of them and room  *)
(* for another, and what may be forgotten of it.                               *)
EXTENDS Forget

CONSTANTS e1, e2, m1, m2

Narrow == {[kind |-> "memory_ids", ids |-> {m1}, mode |-> "everywhere"],
           [kind |-> "memory_ids", ids |-> {m1}, mode |-> "memory_only"],
           [kind |-> "event_ids", ids |-> {e1}, mode |-> "everywhere"]}
AnyRequest == Narrow \cup {[kind |-> "all_user_data", ids |-> {}, mode |-> "everywhere"]}
TwoModes == {r \in Narrow : r.kind = "memory_ids"}
OneOrBoth == {[m \in Memory |-> IF m = m1 THEN E ELSE {}] : E \in {{e1}, {e1, e2}}}
=================================================================================
