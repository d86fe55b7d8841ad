------------------------- MODULE ApplicationPromise -------------------------
(***************************************************************************)
(* What the controlled application of proposals promises an operator: a    *)
(* command has one answer and happens as a whole or not at all.  A         *)
(* promotion puts its definition in force on top of what was there, a      *)
(* rollback takes away the topmost layer and puts back what it covered,    *)
(* and nothing but a command or a person moves a target.                   *)
(***************************************************************************)
EXTENDS Naturals, Sequences

CONSTANTS Target, TargetOf(_), Proposal, Command, Definition, None

VARIABLES
  value,    \* what a target holds
  inForce,  \* the proposal that is in force on it
  layers,   \* the applications below, the topmost first, with what each of them covered
  answer,   \* what became of a command
  meddled   \* somebody edited the target since a command last began on it

promise == <<value, inForce, layers, answer, meddled>>

Init ==
  /\ layers = [t \in Target |-> <<>>] /\ answer = [c \in Command |-> None]
  /\ meddled = [t \in Target |-> FALSE]
  /\ DOMAIN value = Target /\ DOMAIN inForce = Target

Layer(p) == [proposal |-> p, covered |-> value[TargetOf(p)]]
Answer(c, a) == answer[c] = None /\ answer' = [answer EXCEPT ![c] = a]
\* The target comes to hold x, unless somebody edited it while the command was under way.
Put(t, x) ==
  /\ value' = [value EXCEPT ![t] = value'[t]] /\ value'[t] # x => meddled[t]
  /\ UNCHANGED meddled

Promote(c, p) ==
  LET t == TargetOf(p) IN
  /\ inForce[t] = None \/ layers[t] # <<>>
  /\ Answer(c, "applied") /\ Put(t, Definition[p])
  /\ inForce' = [inForce EXCEPT ![t] = p]
  /\ layers' = [layers EXCEPT ![t] = <<Layer(p)>> \o @]

Rollback(c, t) ==
  /\ layers[t] # <<>> /\ layers[t][1].proposal = inForce[t]
  /\ Answer(c, "rolled-back") /\ Put(t, layers[t][1].covered)
  /\ inForce' = [inForce EXCEPT ![t] = IF Len(layers[t]) > 1 THEN layers[t][2].proposal ELSE None]
  /\ layers' = [layers EXCEPT ![t] = Tail(@)]

\* A proposal in force without a layer gets one, and at most one below it for its predecessor.
Reconcile(c, p) ==
  LET t == TargetOf(p) IN
  /\ inForce[t] = p /\ layers[t] = <<>>
  /\ \E a \in {"applied", "adopted"} : Answer(c, a)
  /\ Put(t, Definition[p])
  /\ \E below \in {<<>>} \union {<<Layer(q)>> : q \in Proposal \ {p}} :
       layers' = [layers EXCEPT ![t] = <<Layer(p)>> \o below]
  /\ UNCHANGED inForce

Abort(c, t) ==
  Answer(c, "aborted") /\ Put(t, value[t]) /\ UNCHANGED <<inForce, layers>>

Edit(t) ==
  /\ value' = [value EXCEPT ![t] = value'[t]] /\ meddled' = [meddled EXCEPT ![t] = TRUE]
  /\ UNCHANGED <<inForce, layers, answer>>
\* A command begins on the target as it is.
Begin(t) ==
  meddled' = [meddled EXCEPT ![t] = FALSE] /\ UNCHANGED <<value, inForce, layers, answer>>

Next ==
  \/ \E c \in Command, p \in Proposal : Promote(c, p) \/ Reconcile(c, p)
  \/ \E c \in Command, t \in Target : Rollback(c, t) \/ Abort(c, t)
  \/ \E t \in Target : Edit(t) \/ Begin(t)

Spec == Init /\ [][Next]_promise
=============================================================================
