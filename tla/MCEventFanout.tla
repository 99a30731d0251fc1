---------------------------- MODULE MCEventFanout ----------------------------
(***************************************************************************)
(* Ann has tabs t1 and t2, bob has t3; e1 is ann's entry and e2 is bob's.  *)
(* Where there are two instances, t2's stream ends up on the second.       *)
(***************************************************************************)
EXTENDS EventFanout

CONSTANTS ann, bob, e1, e2, s1, s2, t1, t2, t3, i1, i2

MCOwnerOf == [e \in Entries |-> IF e = e1 THEN ann ELSE bob]
MCUserOf == [t \in Tabs |-> IF t = t3 THEN bob ELSE ann]
MCInstanceOf == [t \in Tabs |-> IF t = t2 /\ i2 \in Instances THEN i2 ELSE i1]

=============================================================================
