--------------------------- MODULE ExclusiveLease ---------------------------
(***************************************************************************)
(* What the control lease promises the rest of the service: at any time at *)
(* most one control service works on a state root.  A service takes the    *)
(* lease when nobody has it, and gives it up by releasing it or by dying.  *)
(***************************************************************************)
CONSTANTS Service, Nobody

VARIABLE holder

TypeOK == holder \in Service \union {Nobody}

Init == holder = Nobody

Acquire(p) ==
  /\ holder = Nobody
  /\ holder' = p

GiveUp ==
  /\ holder # Nobody
  /\ holder' = Nobody

Next == (\E p \in Service : Acquire(p)) \/ GiveUp

Spec == Init /\ [][Next]_holder
=============================================================================
