-------------------------- MODULE LiveTurn_proofs ---------------------------
(***************************************************************************)
(* What an invocation of a role promises its operator, for any number of   *)
(* profiles, operators, redirects and recoveries.                          *)
(***************************************************************************)
EXTENDS LiveTurn, SequenceTheorems, TLAPS

\* What the session and the agent write to each other.
Written == [type : {"turn", "interrupt", "steer"}, turn : TurnNumber, by : Sender]
Heard ==
  {[type |-> "exit"]} \union [type : {"reply", "refusal"}, turn : TurnNumber, by : Sender]
    \union [type : {"end"}, turn : TurnNumber, status : {"completed", "failed", "interrupted"}]
Turn ==
  [number : TurnNumber, known : BOOLEAN, forced : {None, "failed", "interrupted"},
   requested : BOOLEAN, redirect : BOOLEAN, timers : SUBSET Timer, grace : SUBSET Timer,
   redirects : 0..MaxRedirects]

\* Besides the types: each further turn was paid for by a redirect or a recovery.
Typed ==
  /\ kind \in Kinds
  /\ stage \in {"gate", "claim", "report"} \union Live \union Terminal
  /\ profile \in 1..Profiles
  /\ outcome \in {None, "answer", "failure", "operator", "aborted"}
  /\ turn \in Turn
  /\ stall \in [pending : BOOLEAN, recoveries : 0..MaxRecoveries]
  /\ directive \in Intervention \union {None}
  /\ asked \in [Intervention -> {None} \union Asked]
  /\ pending \subseteq Request
  /\ inbox \in Seq(Written) /\ outbox \in Seq(Heard)
  /\ agent \in {None, 0} \union TurnNumber
  /\ aborted \in BOOLEAN
  /\ interrupted \subseteq Intervention
  /\ stage = "turn" => turn.number <= 1 + turn.redirects + stall.recoveries

\* Nobody has asked anything of a turn or a profile that is still to come.
AskedSoFar ==
  \A i \in Intervention : asked[i] # None =>
    /\ asked[i].profile <= profile
    /\ asked[i].profile = profile =>
         /\ stage \notin {"gate", "claim"}
         /\ asked[i].turn <= turn.number
         /\ stage = "handshake" => asked[i].state = "rejected"

\* Who waits for a reply has asked and was told nothing yet.
Waiting == \A i \in pending \intersect Intervention : asked[i] # None /\ asked[i].state = "sent"

\* The registry keeps a directive for the turn that goes on, and for no other.
DirectiveKept ==
  /\ stage # "turn" => directive = None
  /\ stage = "handshake" => turn.number = 1
  /\ DirectiveOfThisTurn

\* This intervention was not told that it failed, and no other meddles with it.
Stands(i) == asked[i] # None /\ asked[i].state # "rejected" /\ Alone(i)

\* The directive is that of the only operator who interrupts the turn.
DirectiveTaken ==
  stage = "turn" =>
    \A i \in Intervention :
      /\ Stands(i) /\ IsOf(asked[i], profile, turn.number)
      /\ asked[i].wish \in {"stop", "redirect"}
      => directive = i

\* A stop that stands has ended the turns, and the chain ends with it.
StopEnds ==
  \A i \in interrupted :
    /\ asked[i] # None
    /\ asked[i].wish = "stop" /\ Stands(i) =>
         /\ IsOf(asked[i], profile, turn.number)
         /\ \/ stage \in {"operator", "aborted", "observer"}
            \/ stage = "report" /\ (outcome = "operator" \/ (outcome = "aborted" /\ aborted))

TurnInv == Typed /\ AskedSoFar /\ Waiting /\ DirectiveKept /\ DirectiveTaken /\ StopEnds

-----------------------------------------------------------------------------
LEMMA Names ==
  /\ Kinds \subseteq {"codex", "claude"}
  /\ Timer \subseteq Request /\ "start" \in Request /\ Intervention \subseteq Request
  /\ Request \subseteq Sender /\ "stall" \in Sender
  /\ \A i \in Intervention : i # None /\ i \notin Timer /\ i # "start" /\ i # "stall"
  /\ "start" \notin Timer
BY KindAssumption, InterventionAssumption DEF Request, Sender, Timer

LEMMA Bounds ==
  /\ 1 \in TurnNumber /\ 0 \in 0..MaxRedirects /\ 0 \in 0..MaxRecoveries /\ 1 \in 1..Profiles
  /\ TurnNumber \subseteq Nat /\ MaxRedirects \in Nat /\ MaxRecoveries \in Nat
  /\ \A n \in Nat : n \in TurnNumber <=> n >= 1 /\ n <= 1 + MaxRedirects + MaxRecoveries
BY TurnBoundAssumption DEF TurnNumber

\* The turn that a session begins.
LEMMA NewTurnIsTurn ==
  ASSUME kind \in Kinds, NEW n \in TurnNumber, NEW r \in 0..MaxRedirects, NEW timers \in SUBSET Timer
  PROVE  /\ NewTurn(n, r, timers) \in Turn
         /\ NewTurn(n, r, timers).number = n /\ NewTurn(n, r, timers).redirects = r
BY DEF NewTurn, Turn

\* What becomes of an intervention that was asked: it stays what it is, and a failure stays one.
AskedOn ==
  /\ asked' \in [Intervention -> {None} \union Asked]
  /\ \A i \in Intervention : asked[i] # None =>
       /\ asked'[i] # None
       /\ asked'[i].wish = asked[i].wish
       /\ asked'[i].profile = asked[i].profile /\ asked'[i].turn = asked[i].turn
       /\ asked[i].state = "rejected" => asked'[i].state = "rejected"
       /\ asked[i].state \in {"refused", "rejected"} => asked'[i].state \in {"refused", "rejected"}

\* Who stands now stood before.
LEMMA StandsNoMore ==
  ASSUME Typed, AskedOn, NEW i \in Intervention, asked[i] # None, Stands(i)'
  PROVE  Stands(i)
<1>1. asked'[i] # None /\ asked'[i].state # "rejected" /\ asked[i].state # "rejected"
  BY DEF AskedOn, Stands
<1>2. ASSUME NEW j \in Intervention \ {i}, asked[j] # None, asked[j].profile = asked[i].profile
      PROVE  asked[j].turn < asked[i].turn /\ asked[j].state \in {"sent", "agreed", "done"}
  <2>1. asked'[j] # None /\ asked'[j].profile = asked'[i].profile
    BY <1>2 DEF AskedOn
  <2>2. asked'[j].turn < asked'[i].turn /\ asked'[j].state \in {"sent", "agreed", "done"}
    BY <2>1 DEF Stands, Alone
  <2>3. asked[j].state \in {"sent", "agreed", "refused", "done", "rejected"}
    BY <1>2 DEF Typed, Asked
  <2>4. asked[j].turn < asked[i].turn /\ asked[j].state \notin {"refused", "rejected"}
    BY <1>2, <2>2 DEF AskedOn
  <2> QED
    BY <2>3, <2>4
<1> QED
  BY <1>1, <1>2 DEF Stands, Alone

\* A step that leaves the interventions and the place of the invocation alone.
LEMMA QuietKeeps ==
  ASSUME TurnInv, Typed', UNCHANGED <<stage, profile, outcome, directive, asked, interrupted>>,
         turn'.number = turn.number, aborted => aborted',
         pending' \intersect Intervention \subseteq pending
  PROVE  TurnInv'
<1>1. AskedSoFar' /\ Waiting' /\ DirectiveKept'
  BY DEF TurnInv, AskedSoFar, Waiting, DirectiveKept, DirectiveOfThisTurn, IsOf
<1>2. DirectiveTaken' /\ StopEnds'
  BY DEF TurnInv, DirectiveTaken, StopEnds, Stands, Alone, IsOf
<1> QED
  BY <1>1, <1>2 DEF TurnInv

\* The interventions go on, in a turn or after it.
LEMMA AskedOnKeeps ==
  ASSUME TurnInv, Typed', AskedOn, UNCHANGED <<stage, profile, outcome, interrupted, aborted>>,
         turn'.number = turn.number, Waiting',
         \A i \in Intervention : asked[i] = None => asked'[i] = None,
         \/ directive' = directive
         \/ directive' = None /\ \A i \in Intervention :
              stage = "turn" /\ IsOf(asked'[i], profile, turn.number) => ~ Stands(i)'
  PROVE  TurnInv'
<1>1. AskedSoFar'
  BY DEF TurnInv, AskedSoFar, AskedOn
<1>2. DirectiveKept'
  BY DEF TurnInv, Typed, DirectiveKept, DirectiveOfThisTurn, IsOf, AskedOn
<1>3. \A i \in Intervention : Stands(i)' => asked[i] # None /\ Stands(i)
  BY StandsNoMore DEF TurnInv, Stands
<1>4. DirectiveTaken'
  BY <1>3 DEF TurnInv, DirectiveTaken, IsOf, AskedOn
<1>5. StopEnds'
  BY <1>3 DEF TurnInv, Typed, StopEnds, IsOf, AskedOn
<1> QED
  BY <1>1, <1>2, <1>4, <1>5 DEF TurnInv

-----------------------------------------------------------------------------
\* Whose turn has ended as interrupted.
EndsFor(more) ==
  /\ interrupted' = interrupted \union more
  /\ more \subseteq {i \in Intervention : stage = "turn" /\ IsOf(asked[i], profile, turn.number)}

\* The end of an attempt: whoever waits is refused, and a stop that stands is the result.
LEMMA FinishKeeps ==
  ASSUME TurnInv, stage \in Live, NEW result \in {"answer", "failure", "operator", "aborted"},
         Finish(result), NEW more, EndsFor(more),
         \A i \in more : Stands(i) /\ asked[i].wish = "stop"
           => result = "operator" \/ (result = "aborted" /\ aborted)
  PROVE  TurnInv'
<1>1. /\ stage' = "report" /\ outcome' = result /\ directive' = None /\ stall' = NoStall
      /\ turn' = NewTurn(turn.number, turn.redirects, {})
      /\ asked' = [i \in Intervention |->
           IF i \in pending THEN [asked[i] EXCEPT !.state = "refused"] ELSE asked[i]]
      /\ pending' = {} /\ inbox' = <<>> /\ outbox' = <<>> /\ agent' = None
      /\ UNCHANGED <<kind, profile, aborted>>
  BY DEF Finish
<1>2. /\ kind \in Kinds /\ turn.number \in TurnNumber /\ turn.redirects \in 0..MaxRedirects
      /\ asked \in [Intervention -> {None} \union Asked]
  BY DEF TurnInv, Typed, Turn
<1>3. turn' \in Turn /\ turn'.number = turn.number
  BY <1>1, <1>2, NewTurnIsTurn
<1>4. AskedOn
  <2>1. ASSUME NEW i \in Intervention, i \in pending
        PROVE  /\ asked'[i] \in Asked /\ asked'[i] # None /\ asked'[i].state = "refused"
               /\ asked[i].state = "sent"
               /\ asked'[i].wish = asked[i].wish
               /\ asked'[i].profile = asked[i].profile /\ asked'[i].turn = asked[i].turn
    <3>1. asked[i] \in Asked /\ asked[i].state = "sent"
      BY <1>2, <2>1 DEF TurnInv, Waiting
    <3>2. asked'[i] = [asked[i] EXCEPT !.state = "refused"]
      BY <1>1, <2>1
    <3> QED
      BY <3>1, <3>2, NotAskedAssumption DEF Asked
  <2>2. \A i \in Intervention : i \notin pending => asked'[i] = asked[i]
    BY <1>1
  <2>3. asked' \in [Intervention -> {None} \union Asked]
    BY <1>1, <1>2, <2>1, <2>2
  <2> QED
    BY <2>1, <2>2, <2>3 DEF AskedOn
<1>5. Typed'
  <2>1. stall' \in [pending : BOOLEAN, recoveries : 0..MaxRecoveries]
    BY <1>1, Bounds DEF NoStall
  <2>2. interrupted' \subseteq Intervention
    BY DEF TurnInv, Typed, EndsFor
  <2>3. asked' \in [Intervention -> {None} \union Asked]
    BY <1>4 DEF AskedOn
  <2> QED
    BY <1>1, <1>3, <2>1, <2>2, <2>3 DEF TurnInv, Typed
<1>6. AskedSoFar' /\ Waiting' /\ DirectiveKept' /\ DirectiveTaken'
  <2>1. AskedSoFar'
    <3> SUFFICES ASSUME NEW i \in Intervention, asked'[i] # None
                 PROVE  /\ asked'[i].profile <= profile'
                        /\ asked'[i].profile = profile' => asked'[i].turn <= turn'.number
      BY <1>1 DEF AskedSoFar
    <3>1. asked[i] # None
      BY <1>1 DEF TurnInv, Waiting
    <3>2. asked'[i].profile = asked[i].profile /\ asked'[i].turn = asked[i].turn
      BY <1>4, <3>1 DEF AskedOn
    <3>3. /\ asked[i].profile <= profile
          /\ asked[i].profile = profile => asked[i].turn <= turn.number
      BY <3>1 DEF TurnInv, AskedSoFar
    <3>4. profile' = profile /\ turn'.number = turn.number
      BY <1>1, <1>3
    <3> QED
      BY <3>2, <3>3, <3>4
  <2> QED
    BY <1>1, <2>1 DEF Waiting, DirectiveKept, DirectiveOfThisTurn, DirectiveTaken
<1>7. StopEnds'
  <2> SUFFICES ASSUME NEW i \in interrupted'
               PROVE  /\ asked'[i] # None
                      /\ asked'[i].wish = "stop" /\ Stands(i)' =>
                           /\ IsOf(asked'[i], profile, turn.number)
                           /\ result = "operator" \/ (result = "aborted" /\ aborted)
    BY <1>1, <1>3 DEF StopEnds
  <2>1. i \in Intervention /\ asked[i] # None
    BY DEF EndsFor, TurnInv, Typed, StopEnds, IsOf
  <2>2. asked'[i] # None /\ asked'[i].wish = asked[i].wish
        /\ (IsOf(asked[i], profile, turn.number) => IsOf(asked'[i], profile, turn.number))
    BY <1>4, <2>1 DEF AskedOn, IsOf
  <2>3. Stands(i)' => Stands(i)
    BY <1>4, <2>1, StandsNoMore DEF TurnInv
  <2>4. CASE i \in interrupted
    BY <2>2, <2>3, <2>4 DEF TurnInv, StopEnds, Live
  <2>5. CASE i \in more
    BY <2>2, <2>3, <2>5 DEF EndsFor
  <2> QED
    BY <2>2, <2>4, <2>5 DEF EndsFor
<1> QED
  BY <1>5, <1>6, <1>7 DEF TurnInv

\* The next turn of the session: a stop that stands would have ended the chain.
LEMMA AnotherTurnKeeps ==
  ASSUME TurnInv, stage = "turn", NEW redirects \in 0..MaxRedirects, NEW recoveries \in 0..MaxRecoveries,
         redirects + recoveries = turn.redirects + stall.recoveries + 1,
         NEW unread \in Seq(Heard), AnotherTurn(redirects, recoveries, unread), NEW more, EndsFor(more),
         \A i \in more : ~ (Stands(i) /\ asked[i].wish = "stop")
  PROVE  TurnInv'
<1> DEFINE number == turn.number + 1
<1>1. /\ turn' = NewTurn(number, redirects, Timer) /\ directive' = None /\ outbox' = unread
      /\ pending' = (pending \ Timer) \union (IF kind = "codex" THEN {"start"} ELSE {})
      /\ inbox' = Append(inbox, [type |-> "turn", turn |-> number, by |-> "start"])
      /\ stall' = [pending |-> FALSE, recoveries |-> recoveries]
      /\ UNCHANGED <<kind, stage, profile, outcome, asked, agent, aborted>>
  BY DEF AnotherTurn
<1>2. /\ kind \in Kinds /\ turn.number \in TurnNumber /\ turn.redirects \in Nat
      /\ stall.recoveries \in Nat /\ turn.number <= 1 + turn.redirects + stall.recoveries
  BY Bounds DEF TurnInv, Typed, Turn
<1>3. number \in TurnNumber /\ number <= 1 + redirects + recoveries /\ turn.number < number
  <2>1. turn.number \in Nat /\ turn.number >= 1
    BY <1>2 DEF TurnNumber
  <2>2. /\ redirects \in Nat /\ recoveries \in Nat
        /\ redirects <= MaxRedirects /\ recoveries <= MaxRecoveries
    BY TurnBoundAssumption
  <2>3. redirects + recoveries = turn.redirects + stall.recoveries + 1
    OBVIOUS
  <2>4. number <= 1 + redirects + recoveries /\ number \in Nat /\ number >= 1 /\ turn.number < number
    BY <1>2, <2>1, <2>2, <2>3, SMTT(20)
  <2> QED
    BY <2>2, <2>4, TurnBoundAssumption DEF TurnNumber
<1> HIDE DEF number
<1>4. turn' \in Turn /\ turn'.number = number /\ turn'.redirects = redirects
  BY <1>1, <1>2, <1>3, NewTurnIsTurn
<1>5. Typed'
  <2>1. [type |-> "turn", turn |-> number, by |-> "start"] \in Written
    BY <1>3, Names DEF Written
  <2>2. inbox' \in Seq(Written)
    BY <1>1, <2>1 DEF TurnInv, Typed
  <2>3. pending' \subseteq Request
    BY <1>1, Names DEF TurnInv, Typed
  <2>4. stall' \in [pending : BOOLEAN, recoveries : 0..MaxRecoveries] /\ stall'.recoveries = recoveries
    BY <1>1
  <2>5. interrupted' \subseteq Intervention
    BY DEF TurnInv, Typed, EndsFor
  <2>6. turn'.number <= 1 + turn'.redirects + stall'.recoveries
    BY <1>3, <1>4, <2>4
  <2> QED
    BY <1>1, <1>4, <2>2, <2>3, <2>4, <2>5, <2>6 DEF TurnInv, Typed
<1>6. \A i \in Intervention : asked[i] # None /\ asked[i].profile = profile => asked[i].turn <= turn.number
                                 /\ asked[i].turn \in Nat
  BY Bounds DEF TurnInv, AskedSoFar, Typed, Asked
<1>7. AskedSoFar' /\ DirectiveKept'
  <2>1. turn.number \in Nat /\ number \in Nat
    BY <1>2, <1>3, Bounds
  <2>2. \A i \in Intervention : asked[i] # None /\ asked[i].profile = profile => asked[i].turn <= number
    BY <1>3, <1>6, <2>1
  <2>3. AskedSoFar'
    BY <1>1, <1>4, <2>2 DEF TurnInv, AskedSoFar
  <2> QED
    BY <1>1, <2>3 DEF DirectiveKept, DirectiveOfThisTurn
<1>8. Waiting'
  BY <1>1, Names DEF TurnInv, Waiting
<1>9. DirectiveTaken'
  <2>0. turn.number \in Nat /\ number \in Nat /\ ~ (number <= turn.number)
    BY <1>2, <1>3, Bounds
  <2>1. \A i \in Intervention : ~ IsOf(asked[i], profile, number)
    BY <1>6, <2>0, SMTT(40) DEF IsOf
  <2> QED
    BY <1>1, <1>4, <2>1 DEF DirectiveTaken
<1>10. StopEnds'
  <2> SUFFICES ASSUME NEW i \in interrupted'
               PROVE  asked[i] # None /\ ~ (asked[i].wish = "stop" /\ Stands(i)')
    BY <1>1 DEF StopEnds
  <2>1. Stands(i)' = Stands(i)
    BY <1>1 DEF Stands, Alone
  <2>2. CASE i \in interrupted
    BY <2>1, <2>2 DEF TurnInv, StopEnds
  <2>3. CASE i \in more
    BY <2>1, <2>3 DEF EndsFor, IsOf
  <2> QED
    BY <2>2, <2>3 DEF EndsFor
<1> QED
  BY <1>5, <1>7, <1>8, <1>9, <1>10 DEF TurnInv

\* However a turn ends, the invocation, its directive and its stops are right afterwards.
LEMMA TurnEndsKeeps ==
  ASSUME TurnInv, stage = "turn", NEW status \in {"completed", "failed", "interrupted"},
         NEW unread \in Seq(Heard), TurnEnds(status, unread)
  PROVE  TurnInv'
<1> DEFINE more == {i \in Intervention : status = "interrupted" /\ IsOf(asked[i], profile, turn.number)}
           taken == status = "interrupted" /\ ~aborted /\ directive # None
<1>1. EndsFor(more) /\ stage \in Live
  BY DEF TurnEnds, EndsFor, Live
<1>2. \A i \in more : Stands(i) /\ asked[i].wish = "stop" => directive = i /\ i # None /\ status = "interrupted"
  BY Names DEF TurnInv, DirectiveTaken
<1>3. /\ turn.redirects \in 0..MaxRedirects /\ stall.recoveries \in 0..MaxRecoveries
      /\ MaxRedirects \in Nat /\ MaxRecoveries \in Nat
  BY Bounds DEF TurnInv, Typed, Turn
<1>4. CASE status = "completed"
  <2>1. Finish("answer")
    BY <1>4 DEF TurnEnds
  <2> QED
    BY <1>1, <1>2, <1>4, <2>1, FinishKeeps
<1>5. CASE status = "failed"
  <2>1. Finish("failure")
    BY <1>5 DEF TurnEnds
  <2> QED
    BY <1>1, <1>2, <1>5, <2>1, FinishKeeps
<1>6. CASE status = "interrupted" /\ aborted
  <2>1. Finish("aborted")
    BY <1>6 DEF TurnEnds
  <2> QED
    BY <1>1, <1>6, <2>1, FinishKeeps
<1>7. CASE taken /\ asked[directive].wish = "stop"
  <2>1. Finish("operator")
    BY <1>7 DEF TurnEnds
  <2> QED
    BY <1>1, <2>1, FinishKeeps
<1>8. CASE taken /\ asked[directive].wish = "redirect"
  <2>1. CASE turn.redirects >= MaxRedirects
    <3>1. Finish("operator")
      BY <1>8, <2>1 DEF TurnEnds
    <3> QED
      BY <1>1, <3>1, FinishKeeps
  <2>2. CASE ~ (turn.redirects >= MaxRedirects)
    <3>1. AnotherTurn(turn.redirects + 1, stall.recoveries, unread)
      BY <1>8, <2>2 DEF TurnEnds
    <3>2. turn.redirects + 1 \in 0..MaxRedirects
          /\ (turn.redirects + 1) + stall.recoveries = turn.redirects + stall.recoveries + 1
      BY <1>3, <2>2
    <3>3. \A i \in more : ~ (Stands(i) /\ asked[i].wish = "stop")
      BY <1>2, <1>8
    <3> QED
      BY <1>1, <1>3, <3>1, <3>2, <3>3, AnotherTurnKeeps
  <2> QED
    BY <2>1, <2>2
<1>9. CASE ~aborted /\ status = "interrupted" /\ ~ (taken /\ asked[directive].wish \in {"stop", "redirect"})
  <2>1. \A i \in more : ~ (Stands(i) /\ asked[i].wish = "stop")
    BY <1>2, <1>9
  <2>2. CASE stall.pending /\ stall.recoveries < MaxRecoveries
    <3>1. AnotherTurn(turn.redirects, stall.recoveries + 1, unread)
      BY <1>9, <2>2 DEF TurnEnds
    <3>2. stall.recoveries + 1 \in 0..MaxRecoveries
          /\ turn.redirects + (stall.recoveries + 1) = turn.redirects + stall.recoveries + 1
      BY <1>3, <2>2
    <3> QED
      BY <1>1, <1>3, <2>1, <3>1, <3>2, AnotherTurnKeeps
  <2>3. CASE ~ (stall.pending /\ stall.recoveries < MaxRecoveries)
    <3>1. Finish("failure")
      BY <1>9, <2>3 DEF TurnEnds
    <3> QED
      BY <1>1, <2>1, <3>1, FinishKeeps
  <2> QED
    BY <2>2, <2>3
<1> QED
  BY <1>4, <1>5, <1>6, <1>7, <1>8, <1>9

-----------------------------------------------------------------------------
LEMMA MessageIsWritten ==
  ASSUME Typed, NEW type \in {"turn", "interrupt", "steer"}, NEW by \in Sender
  PROVE  /\ Message(type, by) \in Written /\ Append(inbox, Message(type, by)) \in Seq(Written)
         /\ <<Message(type, by)>> \in Seq(Written)
<1>1. Message(type, by) \in Written
  BY DEF Typed, Turn, Message, Written
<1> QED
  BY <1>1 DEF Typed

LEMMA SaidIsHeard ==
  ASSUME Typed, outbox # <<>>
  PROVE  /\ Said \in Heard /\ Tail(outbox) \in Seq(Heard)
         /\ Said.type = "end" => Said.status \in {"completed", "failed", "interrupted"}
         /\ Said.type \in {"reply", "refusal"} => Said.by \in Sender
<1>1. Said \in Heard /\ Tail(outbox) \in Seq(Heard)
  BY DEF Typed, Said
<1> QED
  BY <1>1 DEF Heard

\* The parts of a session that a quiet step changes keep their types.
LEMMA QuietStep ==
  ASSUME TurnInv, UNCHANGED <<kind, stage, profile, outcome, directive, asked, interrupted>>,
         turn' \in Turn, turn'.number = turn.number, turn'.redirects = turn.redirects,
         stall' \in [pending : BOOLEAN, recoveries : 0..MaxRecoveries],
         stall'.recoveries = stall.recoveries, pending' \subseteq Request,
         pending' \intersect Intervention \subseteq pending,
         inbox' \in Seq(Written), outbox' \in Seq(Heard), agent' \in {None, 0} \union TurnNumber,
         aborted' \in BOOLEAN, aborted => aborted'
  PROVE  TurnInv'
<1>1. Typed'
  BY DEF TurnInv, Typed
<1> QED
  BY <1>1, QuietKeeps

LEMMA SessionReads ==
  ASSUME TurnInv, StartAgreed \/ TimerSettled \/ ReplyIgnored \/ ConsumeRedirect \/ EndIgnored
  PROVE  TurnInv'
<1>1. /\ turn \in Turn /\ stall \in [pending : BOOLEAN, recoveries : 0..MaxRecoveries]
      /\ pending \subseteq Request /\ inbox \in Seq(Written) /\ Typed /\ aborted \in BOOLEAN
      /\ agent \in {None, 0} \union TurnNumber
  BY DEF TurnInv, Typed
<1>2. outbox # <<>> /\ outbox' = Tail(outbox) /\ outbox' \in Seq(Heard)
  BY <1>1, SaidIsHeard
     DEF StartAgreed, TimerSettled, ReplyIgnored, ConsumeRedirect, EndIgnored, Reads, Hears, EndOfTurn
<1>3. UNCHANGED <<kind, stage, profile, outcome, stall, directive, asked, agent, aborted, interrupted>>
  BY DEF StartAgreed, TimerSettled, ReplyIgnored, ConsumeRedirect, EndIgnored
<1>4. CASE StartAgreed
  <2>1. turn' \in Turn /\ turn'.number = turn.number /\ turn'.redirects = turn.redirects
        /\ pending' = pending \ {"start"} /\ inbox' = inbox
    BY <1>1, <1>4 DEF StartAgreed, Turn
  <2> QED
    BY <1>1, <1>2, <1>3, <2>1, QuietStep
<1>5. CASE TimerSettled
  <2>1. turn' \in Turn /\ turn'.number = turn.number /\ turn'.redirects = turn.redirects
        /\ pending' = pending \ {Said.by} /\ inbox' = inbox
    BY <1>1, <1>5 DEF TimerSettled, Turn
  <2> QED
    BY <1>1, <1>2, <1>3, <2>1, QuietStep
<1>6. CASE ReplyIgnored \/ EndIgnored
  <2>1. UNCHANGED <<turn, pending, inbox>>
    BY <1>6 DEF ReplyIgnored, EndIgnored
  <2> QED
    BY <1>1, <1>2, <1>3, <2>1, QuietStep
<1>7. CASE ConsumeRedirect
  <2>1. turn' \in Turn /\ turn'.number = turn.number /\ turn'.redirects = turn.redirects
        /\ pending' = pending /\ inbox' = Append(inbox, Message("turn", "start"))
    BY <1>1, <1>7 DEF ConsumeRedirect, Turn
  <2>2. inbox' \in Seq(Written)
    BY <1>1, <2>1, MessageIsWritten, Names
  <2> QED
    BY <1>1, <1>2, <1>3, <2>1, <2>2, QuietStep
<1> QED
  BY <1>4, <1>5, <1>6, <1>7

\* What a timer does to the turn that it ends by force.
LEMMA ForceChanges ==
  ASSUME Typed, NEW timer \in Timer, NEW status \in {"failed", "interrupted"}, ForceEnd(timer, status)
  PROVE  /\ turn' \in Turn /\ turn'.number = turn.number /\ turn'.redirects = turn.redirects
         /\ pending' \subseteq Request /\ pending' \intersect Intervention \subseteq pending
         /\ inbox' \in Seq(Written)
<1>1. turn \in Turn /\ pending \subseteq Request /\ inbox \in Seq(Written) /\ timer \in Sender
  BY Names DEF Typed
<1>2. turn' \in Turn /\ turn'.number = turn.number /\ turn'.redirects = turn.redirects
  <2>1. (turn.requested \/ kind = "claude") \in BOOLEAN /\ (turn.redirect /\ kind # "claude") \in BOOLEAN
    BY <1>1 DEF Turn
  <2> QED
    BY <1>1, <2>1 DEF ForceEnd, Turn
<1>3. pending' \subseteq Request /\ pending' \intersect Intervention \subseteq pending
  BY <1>1, Names DEF ForceEnd
<1>4. inbox' \in Seq(Written)
  BY <1>1, MessageIsWritten DEF ForceEnd
<1> QED
  BY <1>2, <1>3, <1>4

LEMMA TimePasses ==
  ASSUME TurnInv, TimeoutFires \/ AbortRun \/ StallFires
  PROVE  TurnInv'
<1>1. /\ turn \in Turn /\ stall \in [pending : BOOLEAN, recoveries : 0..MaxRecoveries]
      /\ pending \subseteq Request /\ inbox \in Seq(Written) /\ Typed /\ aborted \in BOOLEAN
      /\ agent \in {None, 0} \union TurnNumber /\ outbox \in Seq(Heard)
  BY DEF TurnInv, Typed
<1>2. UNCHANGED <<kind, stage, profile, outcome, directive, asked, outbox, agent, interrupted>>
  BY DEF TimeoutFires, AbortRun, StallFires
<1>3. CASE TimeoutFires
  <2>1. ForceEnd("timeout", "failed") /\ UNCHANGED <<stall, aborted>>
    BY <1>3 DEF TimeoutFires
  <2>2. "timeout" \in Timer
    BY DEF Timer
  <2> QED
    BY <1>1, <1>2, <2>1, <2>2, ForceChanges, QuietStep
<1>4. CASE AbortRun
  <2>1. aborted' = TRUE /\ stall' = stall
        /\ (ForceEnd("abort", "interrupted") \/ UNCHANGED <<turn, pending, inbox>>)
    BY <1>4 DEF AbortRun
  <2>2. "abort" \in Timer
    BY DEF Timer
  <2>3. CASE ForceEnd("abort", "interrupted")
    BY <1>1, <1>2, <2>1, <2>2, <2>3, ForceChanges, QuietStep
  <2>4. CASE UNCHANGED <<turn, pending, inbox>>
    BY <1>1, <1>2, <2>1, <2>4, QuietStep
  <2> QED
    BY <2>1, <2>3, <2>4
<1>5. CASE StallFires
  <2>1. /\ stall' = [stall EXCEPT !.pending = TRUE] /\ UNCHANGED <<pending, aborted>>
        /\ turn' = [turn EXCEPT !.requested = turn.requested \/ kind = "claude"]
        /\ inbox' \in {inbox, Append(inbox, Message("interrupt", "stall"))}
    BY <1>5 DEF StallFires
  <2>2. turn' \in Turn /\ turn'.number = turn.number /\ turn'.redirects = turn.redirects
    BY <1>1, <2>1 DEF Turn
  <2>3. inbox' \in Seq(Written)
    BY <1>1, <2>1, MessageIsWritten, Names
  <2>4. stall' \in [pending : BOOLEAN, recoveries : 0..MaxRecoveries] /\ stall'.recoveries = stall.recoveries
    BY <1>1, <2>1
  <2> QED
    BY <1>1, <1>2, <2>1, <2>2, <2>3, <2>4, QuietStep
<1> QED
  BY <1>3, <1>4, <1>5

\* What the agent reads and writes changes nothing that an operator was promised.
LEMMA AgentActs ==
  ASSUME TurnInv, AgentBegins \/ AgentStops \/ AgentHasStopped \/ AgentSteered \/ AgentEnds \/ AgentDies
  PROVE  TurnInv'
<1>1. /\ turn \in Turn /\ stall \in [pending : BOOLEAN, recoveries : 0..MaxRecoveries]
      /\ pending \subseteq Request /\ inbox \in Seq(Written) /\ outbox \in Seq(Heard)
      /\ aborted \in BOOLEAN /\ agent \in {None, 0} \union TurnNumber
  BY DEF TurnInv, Typed
<1>2. /\ UNCHANGED <<kind, stage, profile, outcome, turn, stall, directive, asked, pending,
                     aborted, interrupted>>
      /\ inbox' = inbox \/ (inbox # <<>> /\ inbox' = Tail(inbox))
  BY DEF AgentBegins, AgentStops, AgentHasStopped, AgentSteered, AgentEnds, AgentDies, AgentReads
<1>3. inbox' \in Seq(Written) /\ (inbox # <<>> => Head(inbox) \in Written)
  BY <1>1, <1>2
<1>4. \A m \in Written, type \in {"reply", "refusal"} : Verdict(type, m) \in Heard
  BY DEF Verdict, Written, Heard
<1>5. \A n \in TurnNumber, status \in {"completed", "failed", "interrupted"} : EndOf(n, status) \in Heard
  BY DEF EndOf, Heard
<1>6. \A messages \in Seq(Heard) : Says(messages) => outbox' \in Seq(Heard)
  BY <1>1 DEF Says
<1>7. \A m \in Written, type \in {"reply", "refusal"} : Answers(type, m) => outbox' \in Seq(Heard)
  <2> SUFFICES ASSUME NEW m \in Written, NEW type \in {"reply", "refusal"}, Answers(type, m)
               PROVE  outbox' \in Seq(Heard)
    OBVIOUS
  <2>1. <<Verdict(type, m)>> \in Seq(Heard) /\ <<>> \in Seq(Heard)
    BY <1>4
  <2>2. Says(<<Verdict(type, m)>>) \/ Says(<<>>)
    BY DEF Answers
  <2> QED
    BY <1>6, <2>1, <2>2
<1>8. agent' \in {None, 0} \union TurnNumber /\ outbox' \in Seq(Heard)
  <2>1. CASE AgentBegins
    BY <1>1, <1>3, <1>7, <2>1 DEF AgentBegins, AgentReads, Written
  <2>2. CASE AgentStops
    <3> DEFINE m == Head(inbox)
               verdict == IF m.by = "stall" THEN <<>> ELSE <<Verdict("reply", m)>>
               end(status) == <<EndOf(agent, status)>>
    <3>1. m \in Written /\ agent \in TurnNumber /\ agent' = 0
      BY <1>1, <1>3, <2>2 DEF AgentStops, AgentReads, WorksOn
    <3>2. verdict \in Seq(Heard) /\ \A status \in {"completed", "failed", "interrupted"} : end(status) \in Seq(Heard)
      BY <1>4, <1>5, <3>1
    <3>3. \/ Says(verdict \o end("interrupted")) \/ Says(end("interrupted") \o verdict)
          \/ \E status \in {"completed", "failed"} : Says(end(status))
      BY <2>2 DEF AgentStops
    <3> HIDE DEF verdict, end
    <3>4. verdict \o end("interrupted") \in Seq(Heard) /\ end("interrupted") \o verdict \in Seq(Heard)
      BY <3>2
    <3> QED
      BY <1>6, <3>1, <3>2, <3>3, <3>4
  <2>3. CASE AgentHasStopped
    BY <1>1, <1>3, <1>7, <2>3 DEF AgentHasStopped, AgentReads
  <2>4. CASE AgentSteered
    BY <1>1, <1>3, <1>7, <2>4 DEF AgentSteered, AgentReads
  <2>5. CASE AgentEnds
    <3>1. agent \in TurnNumber /\ agent' = 0
      BY <1>1, <2>5 DEF AgentEnds
    <3>2. PICK status \in {"completed", "failed"} : Says(<<EndOf(agent, status)>>)
      BY <2>5 DEF AgentEnds
    <3>3. <<EndOf(agent, status)>> \in Seq(Heard)
      BY <1>5, <3>1
    <3> QED
      BY <1>6, <3>1, <3>2, <3>3
  <2>6. CASE AgentDies
    <3>1. [type |-> "exit"] \in Heard
      BY DEF Heard
    <3>2. <<[type |-> "exit"]>> \in Seq(Heard)
      BY <3>1
    <3> QED
      BY <1>6, <2>6, <3>2 DEF AgentDies
  <2> QED
    BY <2>1, <2>2, <2>3, <2>4, <2>5, <2>6
<1> QED
  BY <1>1, <1>2, <1>3, <1>8, QuietStep

\* A turn ends by what the agent says, by a clock, or with the session.
LEMMA TurnIsOver ==
  ASSUME TurnInv,
         \/ TurnCompleted \/ StartRefused \/ AgentExited \/ HandshakeFails
         \/ \E timer \in Timer : GraceExpires(timer)
  PROVE  TurnInv'
<1>1. Typed /\ outbox \in Seq(Heard)
  BY DEF TurnInv, Typed
<1>2. CASE TurnCompleted
  <2>1. stage = "turn" /\ outbox # <<>> /\ Said.type = "end" /\ TurnEnds(EndStatus, Tail(outbox))
    BY <1>2 DEF TurnCompleted, EndOfTurn, Hears, Said
  <2>2. Tail(outbox) \in Seq(Heard) /\ Said.status \in {"completed", "failed", "interrupted"}
    BY <1>1, <2>1, SaidIsHeard
  <2>3. turn.forced \in {None, "failed", "interrupted"}
    BY <1>1 DEF Typed, Turn
  <2>4. EndStatus \in {"completed", "failed", "interrupted"}
    BY <2>2, <2>3 DEF EndStatus
  <2> QED
    BY <2>1, <2>2, <2>4, TurnEndsKeeps
<1>3. CASE StartRefused \/ AgentExited \/ HandshakeFails
  <2>1. stage \in Live /\ Finish("failure") /\ interrupted' = interrupted
    BY <1>3 DEF StartRefused, AgentExited, HandshakeFails, Live
  <2>2. EndsFor({})
    BY <2>1 DEF EndsFor
  <2> QED
    BY <2>1, <2>2, FinishKeeps
<1>4. CASE \E timer \in Timer : GraceExpires(timer)
  <2>1. PICK timer \in Timer : GraceExpires(timer)
    BY <1>4
  <2>2. stage = "turn" /\ \E status \in {"failed", "interrupted"} : TurnEnds(status, outbox)
    BY <2>1 DEF GraceExpires
  <2> QED
    BY <1>1, <2>2, TurnEndsKeeps
<1> QED
  BY <1>2, <1>3, <1>4

-----------------------------------------------------------------------------
\* An intervention that was asked for goes on; its name and its turn stay.
LEMMA StateChanges ==
  ASSUME TurnInv, NEW i \in Intervention, asked[i] # None, asked[i].state # "rejected",
         NEW state \in {"sent", "agreed", "refused", "done", "rejected"},
         asked[i].state = "refused" => state = "rejected",
         asked' = [asked EXCEPT ![i].state = state]
  PROVE  /\ AskedOn /\ asked'[i].state = state
         /\ \A j \in Intervention \ {i} : asked'[j] = asked[j]
         /\ \A j \in Intervention : asked[j] = None => asked'[j] = None
<1>1. asked \in [Intervention -> {None} \union Asked] /\ asked[i] \in Asked
  BY DEF TurnInv, Typed
<1>2. /\ asked'[i] = [asked[i] EXCEPT !.state = state]
      /\ \A j \in Intervention \ {i} : asked'[j] = asked[j]
  BY <1>1
<1>3. /\ asked'[i] \in Asked /\ asked'[i].state = state /\ asked'[i].wish = asked[i].wish
      /\ asked'[i].profile = asked[i].profile /\ asked'[i].turn = asked[i].turn
  BY <1>1, <1>2 DEF Asked
<1>4. asked' \in [Intervention -> {None} \union Asked]
  BY <1>1, <1>2, <1>3
<1>5. asked'[i] # None
  BY <1>3, NotAskedAssumption
<1> QED
  BY <1>2, <1>3, <1>4, <1>5 DEF AskedOn

\* The request of an operator is answered, or nobody answers it in time.
LEMMA SettledKeeps ==
  ASSUME TurnInv, NEW i \in pending \intersect Intervention, NEW state \in {"agreed", "refused"},
         asked' = [asked EXCEPT ![i].state = state], pending' = pending \ {i}, outbox' \in Seq(Heard),
         UNCHANGED <<kind, stage, profile, outcome, turn, stall, directive, inbox, agent, aborted,
                     interrupted>>
  PROVE  TurnInv'
<1>1. asked[i] # None /\ asked[i].state = "sent"
  BY DEF TurnInv, Waiting
<1>2. /\ AskedOn /\ \A j \in Intervention \ {i} : asked'[j] = asked[j]
      /\ \A j \in Intervention : asked[j] = None => asked'[j] = None
  BY <1>1, StateChanges
<1>3. Typed'
  BY <1>2 DEF TurnInv, Typed, AskedOn
<1>4. Waiting'
  BY <1>2 DEF TurnInv, Waiting
<1> QED
  BY <1>2, <1>3, <1>4, AskedOnKeeps

LEMMA AnswersArrive ==
  ASSUME TurnInv, InterventionSettled \/ \E request \in Request : RequestTimesOut(request)
  PROVE  TurnInv'
<1>1. Typed /\ outbox \in Seq(Heard) /\ turn \in Turn
  BY DEF TurnInv, Typed
<1>2. CASE InterventionSettled
  <2>1. /\ outbox # <<>> /\ outbox' = Tail(outbox) /\ Said.by \in pending \intersect Intervention
        /\ \E state \in {"agreed", "refused"} : asked' = [asked EXCEPT ![Said.by].state = state]
        /\ pending' = pending \ {Said.by}
        /\ UNCHANGED <<kind, stage, profile, outcome, turn, stall, directive, inbox, agent, aborted,
                       interrupted>>
    BY <1>2 DEF InterventionSettled, Reads, Hears
  <2>2. outbox' \in Seq(Heard)
    BY <1>1, <2>1, SaidIsHeard
  <2>3. PICK i : i = Said.by
    OBVIOUS
  <2>4. PICK state \in {"agreed", "refused"} : asked' = [asked EXCEPT ![i].state = state]
    BY <2>1, <2>3
  <2>5. i \in pending \intersect Intervention /\ pending' = pending \ {i}
    BY <2>1, <2>3
  <2> QED
    BY <2>1, <2>2, <2>4, <2>5, SettledKeeps
<1>3. CASE \E request \in Request : RequestTimesOut(request)
  <2>1. PICK request \in Request : RequestTimesOut(request)
    BY <1>3
  <2>2. stage = "turn" /\ request \in pending /\ interrupted' = interrupted
    BY <2>1 DEF RequestTimesOut
  <2>3. CASE request = "start"
    <3>1. Finish("failure")
      BY <2>1, <2>3, Names DEF RequestTimesOut
    <3>2. EndsFor({}) /\ stage \in Live
      BY <2>2 DEF EndsFor, Live
    <3> QED
      BY <3>1, <3>2, FinishKeeps
  <2>4. CASE request \in Timer
    <3>1. NoReply(request, [turn EXCEPT !.grace = @ \union {request}], asked)
      BY <2>1, <2>4, Names DEF RequestTimesOut
    <3>2. /\ pending' = pending \ {request} /\ turn' = [turn EXCEPT !.grace = @ \union {request}]
          /\ UNCHANGED <<kind, stage, profile, outcome, asked, stall, directive, inbox, outbox, agent,
                         aborted>>
      BY <3>1 DEF NoReply
    <3>3. turn' \in Turn /\ turn'.number = turn.number /\ turn'.redirects = turn.redirects
      BY <1>1, <2>4, <3>2 DEF Turn
    <3>4. pending' \subseteq Request
      BY <1>1, <3>2 DEF Typed
    <3>5. /\ stall' \in [pending : BOOLEAN, recoveries : 0..MaxRecoveries]
          /\ inbox' \in Seq(Written) /\ outbox' \in Seq(Heard)
          /\ agent' \in {None, 0} \union TurnNumber /\ aborted' \in BOOLEAN
      BY <1>1, <3>2 DEF Typed
    <3> QED
      BY <2>2, <3>2, <3>3, <3>4, <3>5, QuietStep
  <2>5. CASE request # "start" /\ request \notin Timer
    <3>1. request \in Intervention \intersect pending
      BY <2>2, <2>5 DEF Request
    <3>2. NoReply(request, turn, [asked EXCEPT ![request].state = "refused"])
      BY <2>1, <2>5 DEF RequestTimesOut
    <3> QED
      BY <1>1, <2>2, <3>1, <3>2, SettledKeeps DEF NoReply
  <2> QED
    BY <2>3, <2>4, <2>5
<1> QED
  BY <1>2, <1>3

\* A refused interrupt takes the directive back: then nobody stands in this turn.
LEMMA OperatorGoesOn ==
  ASSUME TurnInv, NEW i \in Intervention, Continue(i)
  PROVE  TurnInv'
<1> DEFINE state == IF asked[i].state = "agreed" THEN "done" ELSE "rejected"
<1>1. /\ asked[i] # None /\ asked[i].state \in {"agreed", "refused"}
      /\ asked' = [asked EXCEPT ![i].state = state]
      /\ UNCHANGED <<kind, stage, profile, outcome, turn, stall, pending, inbox, outbox, agent,
                     aborted, interrupted>>
  BY DEF Continue
<1>2. asked[i].state = "refused" => state = "rejected"
  OBVIOUS
<1>3. state \in {"done", "rejected"}
  OBVIOUS
<1> HIDE DEF state
<1>4. /\ AskedOn /\ asked'[i].state = state
      /\ \A j \in Intervention \ {i} : asked'[j] = asked[j]
      /\ \A j \in Intervention : asked[j] = None => asked'[j] = None
  BY <1>1, <1>2, <1>3, StateChanges
<1>5. \/ directive' = directive
      \/ directive' = None /\ asked[i].state = "refused" /\ asked[i].profile = profile
  BY DEF Continue
<1>6. Typed'
  BY <1>1, <1>4, <1>5 DEF TurnInv, Typed, AskedOn
<1>7. Waiting'
  <2>1. i \notin pending
    BY <1>1 DEF TurnInv, Waiting
  <2> QED
    BY <1>1, <1>4, <2>1 DEF TurnInv, Waiting
<1>8. ASSUME asked[i].state = "refused", asked[i].profile = profile, NEW j \in Intervention,
             IsOf(asked'[j], profile, turn.number)
      PROVE  ~ Stands(j)'
  <2>1. asked'[i] # None /\ asked'[i].state = "rejected" /\ asked'[i].profile = profile
    BY <1>1, <1>2, <1>4, <1>8 DEF AskedOn
  <2>2. CASE j = i
    BY <2>1, <2>2 DEF Stands
  <2>3. CASE j # i
    BY <1>8, <2>1, <2>3 DEF Stands, Alone, IsOf
  <2> QED
    BY <2>2, <2>3
<1> QED
  BY <1>1, <1>4, <1>5, <1>6, <1>7, <1>8, AskedOnKeeps

\* An operator asks something of the turn that runs; nobody else stands in it then.
LEMMA AsksKeeps ==
  ASSUME TurnInv, NEW i \in Intervention, asked[i] = None, stage \in Live,
         NEW wish \in {"stop", "redirect", "steer"}, NEW state \in {"sent", "done", "rejected"},
         stage = "handshake" => state = "rejected", Asks(i, wish, state),
         directive' = IF wish = "steer" THEN directive ELSE IF state = "rejected" THEN None ELSE i,
         turn' \in Turn, turn'.number = turn.number, turn'.redirects = turn.redirects,
         pending' \subseteq Request, pending' \intersect Intervention \subseteq pending \union {i},
         i \in pending' => state = "sent", inbox' \in Seq(Written),
         UNCHANGED <<kind, stage, profile, outcome, stall, outbox, agent, aborted, interrupted>>
  PROVE  TurnInv'
<1>1. /\ asked \in [Intervention -> {None} \union Asked] /\ turn.number \in TurnNumber
      /\ profile \in 1..Profiles /\ profile \in Nat /\ turn.number \in Nat
  <2>1. /\ asked \in [Intervention -> {None} \union Asked] /\ turn.number \in TurnNumber
        /\ profile \in 1..Profiles
    BY DEF TurnInv, Typed, Turn
  <2>2. profile \in Nat /\ turn.number \in Nat
    BY <2>1, TurnBoundAssumption DEF TurnNumber
  <2> QED
    BY <2>1, <2>2
<1>2. /\ asked'[i] = [wish |-> wish, profile |-> profile, turn |-> turn.number, state |-> state]
      /\ \A j \in Intervention \ {i} : asked'[j] = asked[j]
  BY <1>1 DEF Asks
<1>3. asked'[i] \in Asked /\ asked'[i] # None
  <2>1. asked'[i] \in Asked
    BY <1>1, <1>2 DEF Asked
  <2> QED
    BY <2>1, NotAskedAssumption
<1>4. asked' \in [Intervention -> {None} \union Asked]
  BY <1>1, <1>3 DEF Asks
<1>5. AskedOn
  BY <1>2, <1>3, <1>4 DEF AskedOn
<1>6. Typed'
  BY <1>4 DEF TurnInv, Typed
<1>7. AskedSoFar'
  BY <1>1, <1>2 DEF TurnInv, AskedSoFar, Live
<1>8. Waiting'
  BY <1>2, <1>3 DEF TurnInv, Waiting
<1>9. DirectiveKept'
  <2>1. directive # None => directive \in Intervention \ {i} /\ IsOf(asked'[directive], profile, turn.number)
    BY <1>2 DEF TurnInv, Typed, DirectiveKept, DirectiveOfThisTurn, IsOf
  <2>2. IsOf(asked'[i], profile, turn.number)
    BY <1>2, <1>3 DEF IsOf
  <2>3. stage' # "turn" => directive' = None
    BY DEF TurnInv, DirectiveKept, Live
  <2>4. DirectiveOfThisTurn'
    BY <2>1, <2>2 DEF DirectiveOfThisTurn, IsOf
  <2> QED
    BY <2>3, <2>4 DEF TurnInv, DirectiveKept
<1>10. DirectiveTaken'
  <2> SUFFICES ASSUME stage = "turn", NEW j \in Intervention, Stands(j)',
                      IsOf(asked'[j], profile, turn.number), asked'[j].wish \in {"stop", "redirect"}
               PROVE  directive' = j
    BY DEF DirectiveTaken, IsOf
  <2>1. CASE j = i
    BY <1>2, <2>1 DEF Stands
  <2>2. CASE j # i
    <3>1. asked'[i].turn < asked'[j].turn
      BY <1>2, <1>3, <2>2 DEF Stands, Alone, IsOf
    <3> QED
      BY <1>1, <1>2, <3>1 DEF IsOf
  <2> QED
    BY <2>1, <2>2
<1>11. StopEnds'
  <2> SUFFICES ASSUME NEW j \in interrupted
               PROVE  asked'[j] # None /\ ~ (asked'[j].wish = "stop" /\ Stands(j)')
    BY DEF StopEnds
  <2>1. j \in Intervention \ {i} /\ asked[j] # None /\ asked'[j] = asked[j]
    BY <1>2 DEF TurnInv, Typed, StopEnds
  <2>2. ~ (asked[j].wish = "stop" /\ Stands(j))
    BY DEF TurnInv, StopEnds, Live
  <2>3. Stands(j)' => Stands(j)
    BY <1>5, <2>1, StandsNoMore DEF TurnInv
  <2> QED
    BY <2>1, <2>2, <2>3
<1> QED
  BY <1>6, <1>7, <1>8, <1>9, <1>10, <1>11 DEF TurnInv

LEMMA OperatorAsks ==
  ASSUME TurnInv, NEW i \in Intervention,
         \/ \E wish \in {"stop", "redirect", "steer"} : AskTooEarly(i, wish)
         \/ \E wish \in {"stop", "redirect"} : Interrupt(i, wish)
         \/ Steer(i)
  PROVE  TurnInv'
<1>1. /\ Typed /\ turn \in Turn /\ pending \subseteq Request /\ inbox \in Seq(Written) /\ i \in Request
      /\ i \in Sender /\ turn.requested \in BOOLEAN /\ turn.redirect \in BOOLEAN
      /\ (asked[i] = None => i \notin pending)
  BY Names DEF TurnInv, Typed, Turn, Waiting
<1>2. CASE \E wish \in {"stop", "redirect", "steer"} : AskTooEarly(i, wish)
  <2>1. PICK wish \in {"stop", "redirect", "steer"} : AskTooEarly(i, wish)
    BY <1>2
  <2>2. /\ stage \in Live /\ asked[i] = None /\ Asks(i, wish, "rejected")
        /\ directive' = IF wish = "steer" THEN directive ELSE None
        /\ UNCHANGED <<kind, stage, profile, outcome, turn, stall, pending, inbox, outbox, agent,
                       aborted, interrupted>>
    BY <2>1 DEF AskTooEarly
  <2> QED
    BY <1>1, <2>2, AsksKeeps
<1>3. CASE \E wish \in {"stop", "redirect"} : Interrupt(i, wish)
  <2>1. PICK wish \in {"stop", "redirect"} : Interrupt(i, wish)
    BY <1>3
  <2>2. PICK state \in {"sent", "done"} : state = IF kind = "codex" THEN "sent" ELSE "done"
    OBVIOUS
  <2>3. /\ stage = "turn" /\ asked[i] = None /\ directive' = i
        /\ Asks(i, wish, state)
        /\ pending' = (IF kind = "codex" THEN pending \union {i} ELSE pending)
        /\ turn' = [turn EXCEPT !.requested = turn.requested \/ kind = "claude"]
        /\ inbox' = Append(inbox, Message("interrupt", i))
        /\ UNCHANGED <<kind, stage, profile, outcome, stall, outbox, agent, aborted, interrupted>>
    BY <2>1, <2>2 DEF Interrupt
  <2>4. turn' \in Turn /\ turn'.number = turn.number /\ turn'.redirects = turn.redirects
    BY <1>1, <2>3 DEF Turn
  <2>5. inbox' \in Seq(Written)
    BY <1>1, <2>3, MessageIsWritten
  <2>6. /\ pending' \subseteq Request /\ pending' \intersect Intervention \subseteq pending \union {i}
        /\ i \in pending' => state = "sent"
    BY <1>1, <2>2, <2>3
  <2>7. directive' = IF wish = "steer" THEN directive ELSE IF state = "rejected" THEN None ELSE i
    BY <2>3
  <2> QED
    BY <2>3, <2>4, <2>5, <2>6, <2>7, AsksKeeps DEF Live
<1>4. CASE Steer(i)
  <2>1. PICK state \in {"sent", "done"} : state = IF kind = "codex" THEN "sent" ELSE "done"
    OBVIOUS
  <2>2. PICK type \in {"interrupt", "steer"} : type = IF kind = "codex" THEN "steer" ELSE "interrupt"
    OBVIOUS
  <2>3. /\ stage = "turn" /\ asked[i] = None
        /\ Asks(i, "steer", state)
        /\ pending' = (IF kind = "codex" THEN pending \union {i} ELSE pending)
        /\ turn' = [turn EXCEPT !.requested = turn.requested \/ kind = "claude",
                                !.redirect = turn.redirect \/ kind = "claude"]
        /\ inbox' = Append(inbox, Message(type, i))
        /\ UNCHANGED <<kind, stage, profile, outcome, stall, directive, outbox, agent, aborted,
                       interrupted>>
    BY <1>4, <2>1, <2>2 DEF Steer
  <2>4. turn' \in Turn /\ turn'.number = turn.number /\ turn'.redirects = turn.redirects
    BY <1>1, <2>3 DEF Turn
  <2>5. inbox' \in Seq(Written)
    BY <1>1, <2>3, MessageIsWritten
  <2>6. /\ pending' \subseteq Request /\ pending' \intersect Intervention \subseteq pending \union {i}
        /\ i \in pending' => state = "sent"
    BY <1>1, <2>1, <2>3
  <2> QED
    BY <2>3, <2>4, <2>5, <2>6, AsksKeeps DEF Live
<1> QED
  BY <1>2, <1>3, <1>4

-----------------------------------------------------------------------------
\* The chain goes on only where no stop stands, and then nobody has asked anything of its place.
LEMMA ChainMoves ==
  ASSUME TurnInv, stage \notin Live, UNCHANGED <<asked, interrupted, aborted, kind>>, Typed',
         directive' = None, pending' \subseteq pending,
         profile' = profile \/ (profile' = profile + 1 /\ stage' \notin {"turn", "handshake"}),
         \/ stage \in {"gate", "claim"}
         \/ profile' = profile + 1 /\ stage' = "gate"
         \/ stage' \notin {"gate", "claim", "handshake", "turn"} /\ turn' = turn,
         stage' = "handshake" => turn'.number = 1,
         \/ stage' \in {"operator", "aborted", "observer"} /\ turn' = turn /\ profile' = profile
         \/ \A i \in interrupted : ~ (asked[i].wish = "stop" /\ Stands(i))
  PROVE  TurnInv'
<1>1. profile \in Nat
  BY TurnBoundAssumption DEF TurnInv, Typed
<1>2. \A i \in Intervention : asked[i] # None => asked[i].profile \in Nat
  BY TurnBoundAssumption DEF TurnInv, Typed, Asked
<1>3. AskedSoFar'
  <2> SUFFICES ASSUME NEW i \in Intervention, asked[i] # None
               PROVE  /\ asked[i].profile <= profile'
                      /\ asked[i].profile = profile' =>
                           stage' \notin {"gate", "claim", "handshake"} /\ asked[i].turn <= turn'.number
    BY DEF AskedSoFar
  <2>1. /\ asked[i].profile <= profile
        /\ asked[i].profile = profile => stage \notin {"gate", "claim"} /\ asked[i].turn <= turn.number
    BY DEF TurnInv, AskedSoFar
  <2>2. CASE profile' = profile + 1
    BY <1>1, <1>2, <2>1, <2>2
  <2>3. CASE profile' = profile
    BY <1>1, <2>1, <2>3
  <2> QED
    BY <2>2, <2>3
<1>4. Waiting' /\ DirectiveKept'
  BY DEF TurnInv, Waiting, DirectiveKept, DirectiveOfThisTurn
<1>5. DirectiveTaken'
  <2>1. stage' = "turn" => stage \in {"gate", "claim"} /\ profile' = profile
    OBVIOUS
  <2>2. stage \in {"gate", "claim"} => \A i \in Intervention : ~ (asked[i] # None /\ asked[i].profile = profile)
    BY DEF TurnInv, AskedSoFar
  <2> QED
    BY <2>1, <2>2 DEF DirectiveTaken, IsOf
<1>6. StopEnds'
  <2>1. \A i \in Intervention : Stands(i)' <=> Stands(i)
    BY DEF Stands, Alone
  <2>2. \A i \in interrupted : i \in Intervention /\ asked[i] # None
    BY DEF TurnInv, Typed, StopEnds
  <2>3. CASE stage' \in {"operator", "aborted", "observer"} /\ turn' = turn /\ profile' = profile
    BY <2>1, <2>2, <2>3 DEF TurnInv, StopEnds
  <2>4. CASE \A i \in interrupted : ~ (asked[i].wish = "stop" /\ Stands(i))
    BY <2>1, <2>2, <2>4 DEF StopEnds
  <2> QED
    BY <2>3, <2>4
<1> QED
  BY <1>3, <1>4, <1>5, <1>6 DEF TurnInv

\* Where a stop stands, the chain is over or about to be told so.
LEMMA StopsAtTheEnd ==
  ASSUME TurnInv, NEW i \in interrupted, asked[i].wish = "stop", Stands(i)
  PROVE  \/ stage \in {"operator", "aborted", "observer"}
         \/ stage = "report" /\ (outcome = "operator" \/ (outcome = "aborted" /\ aborted))
BY DEF TurnInv, StopEnds

LEMMA ChainGoesOn ==
  ASSUME TurnInv, SkipCandidate \/ AllowAttempt \/ PrepareFails \/ RefuseInvocation \/ Report \/ ReportFails
  PROVE  TurnInv'
<1>1. /\ UNCHANGED <<kind, outcome, turn, stall, directive, asked, pending, inbox, outbox, agent,
                     aborted, interrupted>>
      /\ stage \in {"gate", "claim", "report"} /\ stage \notin Live /\ directive = None
  BY DEF SkipCandidate, AllowAttempt, PrepareFails, RefuseInvocation, Report, ReportFails, Live,
     TurnInv, DirectiveKept
<1>2. NextProfile =>
        /\ \/ profile' = profile + 1 /\ stage' = "gate"
           \/ profile' = profile /\ stage' = "exhausted"
        /\ profile' \in 1..Profiles
  BY TurnBoundAssumption DEF NextProfile, TurnInv, Typed
<1>3. CASE SkipCandidate
  <2>1. NextProfile /\ stage = "gate"
    BY <1>3 DEF SkipCandidate
  <2>2. Typed'
    BY <1>1, <1>2, <2>1 DEF TurnInv, Typed, Terminal
  <2>3. \A i \in interrupted : ~ (asked[i].wish = "stop" /\ Stands(i))
    BY <2>1, StopsAtTheEnd
  <2> QED
    BY <1>1, <1>2, <2>1, <2>2, <2>3, ChainMoves
<1>4. CASE AllowAttempt
  <2>1. stage = "gate" /\ stage' = "claim" /\ profile' = profile
    BY <1>4 DEF AllowAttempt
  <2>2. Typed'
    BY <1>1, <2>1 DEF TurnInv, Typed
  <2>3. \A i \in interrupted : ~ (asked[i].wish = "stop" /\ Stands(i))
    BY <2>1, StopsAtTheEnd
  <2> QED
    BY <1>1, <2>1, <2>2, <2>3, ChainMoves
<1>5. CASE PrepareFails \/ RefuseInvocation \/ ReportFails
  <2>1. stage' \in {"aborted", "observer"} /\ profile' = profile
    BY <1>5 DEF PrepareFails, RefuseInvocation, ReportFails
  <2>2. Typed'
    BY <1>1, <2>1 DEF TurnInv, Typed, Terminal
  <2> QED
    BY <1>1, <2>1, <2>2, ChainMoves
<1>6. CASE Report
  <2>1. stage = "report"
    BY <1>6 DEF Report
  <2>2. CASE stage' \in {"operator", "aborted"} /\ profile' = profile
    <3>1. Typed'
      BY <1>1, <2>2 DEF TurnInv, Typed, Terminal
    <3> QED
      BY <1>1, <2>2, <3>1, ChainMoves
  <2>3. CASE outcome = "answer" /\ stage' = "answered" /\ profile' = profile
    <3>1. Typed'
      BY <1>1, <2>3 DEF TurnInv, Typed, Terminal
    <3>2. \A i \in interrupted : ~ (asked[i].wish = "stop" /\ Stands(i))
      BY <2>1, <2>3, StopsAtTheEnd
    <3> QED
      BY <1>1, <2>3, <3>1, <3>2, ChainMoves
  <2>4. CASE outcome # "operator" /\ ~aborted /\ NextProfile
    <3>1. Typed'
      BY <1>1, <1>2, <2>1, <2>4 DEF TurnInv, Typed, Terminal
    <3>2. \A i \in interrupted : ~ (asked[i].wish = "stop" /\ Stands(i))
      BY <2>1, <2>4, StopsAtTheEnd
    <3> QED
      BY <1>1, <1>2, <2>4, <3>1, <3>2, ChainMoves
  <2>5. \/ stage' \in {"operator", "aborted"} /\ profile' = profile
        \/ outcome = "answer" /\ stage' = "answered" /\ profile' = profile
        \/ outcome # "operator" /\ ~aborted /\ NextProfile
    BY <1>6 DEF Report
  <2> QED
    BY <2>2, <2>3, <2>4, <2>5
<1> QED
  BY <1>3, <1>4, <1>5, <1>6

LEMMA SessionOpens ==
  ASSUME TurnInv, OpenSession \/ Handshake
  PROVE  TurnInv'
<1>1. /\ UNCHANGED <<kind, profile, asked, aborted, interrupted>> /\ kind \in Kinds
      /\ 1 \in TurnNumber /\ 0 \in 0..MaxRedirects /\ MaxRedirects \in Nat /\ MaxRecoveries \in Nat
  BY Bounds DEF OpenSession, Handshake, TurnInv, Typed
<1>2. \A timers \in SUBSET Timer :
        /\ NewTurn(1, 0, timers) \in Turn
        /\ NewTurn(1, 0, timers).number = 1 /\ NewTurn(1, 0, timers).redirects = 0
  BY <1>1, NewTurnIsTurn
<1>3. \A i \in interrupted : ~ (asked[i].wish = "stop" /\ Stands(i))
  <2>1. stage \in {"claim", "handshake"}
    BY DEF OpenSession, Handshake
  <2> QED
    BY <2>1, StopsAtTheEnd
<1>4. CASE OpenSession
  <2>1. /\ stage = "claim" /\ stage \notin Live /\ stage' \in {"report", "handshake", "turn"}
        /\ directive' = None /\ pending' = {} /\ stall' = NoStall /\ turn' = NewTurn(1, 0, Timer)
        /\ outcome' \in {"aborted", None} /\ outbox' = <<>> /\ agent' \in {None, 0}
        /\ inbox' \in {<<>>, <<[type |-> "turn", turn |-> 1, by |-> "start"]>>}
    BY <1>4 DEF OpenSession, Live
  <2>2. [type |-> "turn", turn |-> 1, by |-> "start"] \in Written
    BY <1>1, Names DEF Written
  <2>3. inbox' \in Seq(Written)
    <3> DEFINE first == [type |-> "turn", turn |-> 1, by |-> "start"]
    <3>1. first \in Written /\ (inbox' = <<>> \/ inbox' = <<first>>)
      BY <2>1, <2>2
    <3> HIDE DEF first
    <3>2. <<first>> \in Seq(Written) /\ <<>> \in Seq(Written)
      BY <3>1
    <3> QED
      BY <3>1, <3>2
  <2>4. stall' \in [pending : BOOLEAN, recoveries : 0..MaxRecoveries] /\ stall'.recoveries = 0
    BY <1>1, <2>1 DEF NoStall
  <2>5. turn' \in Turn /\ turn'.number = 1 /\ turn'.redirects = 0
    BY <1>2, <2>1
  <2>6. Typed'
    BY <1>1, <2>1, <2>3, <2>4, <2>5 DEF TurnInv, Typed, Live
  <2>7. /\ profile' = profile /\ stage \in {"gate", "claim"} /\ pending' \subseteq pending
        /\ stage \notin Live /\ directive' = None
        /\ UNCHANGED <<asked, interrupted, aborted, kind>>
    BY <1>1, <2>1
  <2>8. stage' = "handshake" => turn'.number = 1
    BY <2>5
  <2> QED
    BY <1>3, <2>6, <2>7, <2>8, ChainMoves
<1>5. CASE Handshake
  <2>1. /\ stage = "handshake" /\ stage' = "turn" /\ turn' = NewTurn(1, 0, TimersOf)
        /\ pending' = {"start"} /\ inbox' = <<Message("turn", "start")>>
        /\ UNCHANGED <<outcome, stall, directive, outbox, agent>>
    BY <1>5 DEF Handshake
  <2>2. turn.number = 1 /\ directive = None
    BY <2>1 DEF TurnInv, DirectiveKept
  <2>3. TimersOf \in SUBSET Timer
    BY DEF TimersOf, Timer
  <2>4. turn' \in Turn /\ turn'.number = 1 /\ turn'.redirects = 0
    BY <1>2, <2>1, <2>3
  <2>5. inbox' \in Seq(Written) /\ pending' \subseteq Request
    BY <2>1, Names, MessageIsWritten DEF TurnInv
  <2>6. Typed'
    BY <1>1, <2>1, <2>2, <2>4, <2>5 DEF TurnInv, Typed, Live
  <2>7. AskedSoFar'
    BY <1>1, <2>1, <2>2, <2>4 DEF TurnInv, AskedSoFar
  <2>8. Waiting' /\ DirectiveKept'
    BY <2>1, <2>2, Names DEF Waiting, DirectiveKept, DirectiveOfThisTurn
  <2>9. DirectiveTaken'
    <3>1. \A i \in Intervention : asked[i] # None /\ asked[i].profile = profile => asked[i].state = "rejected"
      BY <2>1 DEF TurnInv, AskedSoFar
    <3> QED
      BY <1>1, <3>1 DEF DirectiveTaken, Stands, IsOf
  <2>10. StopEnds'
    <3>1. \A i \in Intervention : Stands(i)' <=> Stands(i)
      BY <1>1 DEF Stands, Alone
    <3> QED
      BY <1>1, <1>3, <3>1 DEF TurnInv, Typed, StopEnds
  <2> QED
    BY <2>6, <2>7, <2>8, <2>9, <2>10 DEF TurnInv
<1> QED
  BY <1>4, <1>5

-----------------------------------------------------------------------------
LEMMA InitEstablishes ==
  ASSUME TurnInit
  PROVE  TurnInv
<1>1. turn \in Turn /\ turn.number = 1 /\ turn.redirects = 0
  BY Bounds, NewTurnIsTurn DEF TurnInit
<1>2. stall \in [pending : BOOLEAN, recoveries : 0..MaxRecoveries] /\ stall.recoveries = 0
  BY Bounds DEF TurnInit, NoStall
<1>3. Typed
  <2>1. asked \in [Intervention -> {None} \union Asked] /\ profile \in 1..Profiles
    BY Bounds DEF TurnInit
  <2>2. inbox \in Seq(Written) /\ outbox \in Seq(Heard)
    BY DEF TurnInit
  <2>3. stage = "gate"
    BY DEF TurnInit
  <2>4. /\ kind \in Kinds /\ outcome = None /\ directive = None /\ pending = {} /\ agent = None
        /\ aborted = FALSE /\ interrupted = {}
    BY DEF TurnInit
  <2> QED
    BY <1>1, <1>2, <2>1, <2>2, <2>3, <2>4 DEF Typed
<1> QED
  BY <1>3 DEF TurnInit, TurnInv, AskedSoFar, Waiting, DirectiveKept, DirectiveOfThisTurn,
              DirectiveTaken, Stands, StopEnds

LEMMA StepPreserves ==
  ASSUME TurnInv, [TurnNext]_turnVars
  PROVE  TurnInv'
<1>1. CASE ServiceStep
  BY <1>1, ChainGoesOn, SessionOpens, TurnIsOver, SessionReads, AnswersArrive, TimePasses
     DEF ServiceStep
<1>2. CASE AbortRun \/ StallFires
  BY <1>2, TimePasses
<1>3. CASE \E i \in InterventionsIn[kind] :
             \/ \E wish \in {"stop", "redirect", "steer"} : AskTooEarly(i, wish)
             \/ \E wish \in {"stop", "redirect"} : Interrupt(i, wish)
             \/ Steer(i)
             \/ Continue(i)
  <2>1. InterventionsIn[kind] \subseteq Intervention
    BY InterventionAssumption DEF TurnInv, Typed
  <2> QED
    BY <1>3, <2>1, OperatorAsks, OperatorGoesOn
<1>4. CASE AgentBegins \/ AgentStops \/ AgentHasStopped \/ AgentSteered \/ AgentEnds \/ AgentDies
  BY <1>4, AgentActs
<1>5. CASE UNCHANGED turnVars
  <2>1. UNCHANGED <<kind, stage, profile, outcome, turn, stall, directive, asked, pending, inbox,
                    outbox, agent, aborted, interrupted>>
    BY <1>5 DEF turnVars
  <2>2. Typed'
    BY <2>1 DEF TurnInv, Typed
  <2>3. turn'.number = turn.number /\ (aborted => aborted') /\ pending' \intersect Intervention \subseteq pending
    BY <2>1
  <2> QED
    BY <2>1, <2>2, <2>3, QuietKeeps
<1> QED
  BY <1>1, <1>2, <1>3, <1>4, <1>5 DEF TurnNext

\* The invariant that the rest follows from.
THEOREM TurnInductive == TurnSpec => []TurnInv
<1>1. TurnInit => TurnInv
  BY InitEstablishes
<1>2. TurnInv /\ [TurnNext]_turnVars => TurnInv'
  BY StepPreserves
<1> QED
  BY <1>1, <1>2, PTL DEF TurnSpec

\* Every variable of an invocation has its type, for every chain and every number of turns.
THEOREM TurnTypeCorrect == TurnSpec => []TurnTypeOK
<1>1. TurnInv => TurnTypeOK
  <2> SUFFICES ASSUME TurnInv PROVE TurnTypeOK
    OBVIOUS
  <2>1. Typed
    BY DEF TurnInv
  <2>2. /\ \A i \in DOMAIN inbox : inbox[i] \in Written
        /\ \A i \in DOMAIN outbox : outbox[i] \in Heard
    BY <2>1 DEF Typed
  <2> QED
    BY <2>1, <2>2 DEF Typed, TurnTypeOK, Turn, Written, Heard
<1> QED
  BY <1>1, TurnInductive, PTL

\* The directive that the end of a turn would take (interventions/registry.ts) was given for
\* that turn, not for an earlier one and not for another session.
THEOREM DirectiveIsCurrent == TurnSpec => []DirectiveOfThisTurn
<1>1. TurnInv => DirectiveOfThisTurn
  BY DEF TurnInv, DirectiveKept
<1> QED
  BY <1>1, TurnInductive, PTL

\* A stop that its operator has no reason to doubt ends the invocation: no turn and no profile
\* follows, whatever the watchdog, the clocks and the agent did beside it (agents/service.ts).
THEOREM StopsAreHonoured == TurnSpec => []StopIsHonoured
<1>1. TurnInv => StopIsHonoured
  <2> SUFFICES ASSUME TurnInv, NEW i \in interrupted, asked[i].wish = "stop",
                      asked[i].state # "rejected", Alone(i)
               PROVE  /\ IsOf(asked[i], profile, turn.number)
                      /\ stage \notin {"gate", "claim", "exhausted"} \union Live
    BY DEF StopIsHonoured
  <2>1. Stands(i)
    BY DEF TurnInv, StopEnds, Stands
  <2> QED
    BY <2>1 DEF TurnInv, StopEnds, Live
<1> QED
  BY <1>1, TurnInductive, PTL
====
