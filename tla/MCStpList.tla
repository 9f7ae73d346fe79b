------------------------------ MODULE MCStpList ------------------------------
(* Instances of StpList for TLC. *)
EXTENDS StpList, TLC

(* No address is special: nodes are only compared, insertion and removal   *)
(* clear the caches, and a freed node is as good as another one.  Of the   *)
(* lists that differ in their addresses only, one stands for all.  A list  *)
(* of more than five nodes has one name for all of them: it is there for   *)
(* the walks by index from both ends and, both ways and in both halves,    *)
(* from the cached node.                                                   *)
Addresses == 1 .. 9
Representative ==
    /\ \A k \in 1 .. Len(order) - 1 : order[k] < order[k + 1]
    /\ Len(order) > 5 =>
          \A k \in DOMAIN order : order[k] = k /\ data[k] = [n \in Kinds |-> "a"]
    /\ Len(order) <= 5 => live \subseteq 1 .. 6
=============================================================================
