------------------------------- MODULE LiveTurn -------------------------------
(***************************************************************************)
(* One invocation of a role: a chain of profiles is tried, each through a  *)
(* live session with an agent process, in turns that an operator can       *)
(* interrupt, redirect or steer, that a watchdog interrupts when they are  *)
(* silent, and that end by a timeout or the abort of the run               *)
(* (agents/service.ts, agents/live-invoke.ts, interventions/registry.ts,   *)
(* sessions/codex-session.ts, sessions/claude-session.ts).                 *)
(*                                                                         *)
(* What the session writes and what the agent writes arrive in order; the  *)
(* agent may answer late or never.  What follows the end of a turn, up to  *)
(* the start of the next one, waits for nothing and is one step; what an   *)
(* intervention does once its request is answered is a step of its own.    *)
(***************************************************************************)
EXTENDS Integers, Sequences, FiniteSets

CONSTANTS
  Kinds,         \* of the session: "codex", "claude"
  Profiles,      \* how many profiles the chain has
  Intervention,  \* what operators do, each once
  InterventionsIn, \* those they may do in a session of each kind
  None,
  MaxRedirects,  \* MAX_REDIRECTS
  MaxRecoveries  \* turns that may follow a stall

Timer == {"timeout", "abort"}   \* what ends a turn by force

ASSUME KindAssumption == Kinds \subseteq {"codex", "claude"}
ASSUME InterventionAssumption ==
  /\ InterventionsIn \in [Kinds -> SUBSET Intervention]
  /\ None \notin Intervention
  /\ Intervention \intersect (Timer \union {"start", "stall"}) = {}
ASSUME TurnBoundAssumption ==
  Profiles \in Nat \ {0} /\ MaxRedirects \in Nat /\ MaxRecoveries \in Nat

VARIABLES
  kind,
  stage,       \* where the invocation is
  profile,     \* the place of the profile in the chain
  outcome,     \* of its attempt, once the turns are over
  turn,        \* the turn of its session
  stall,       \* the watchdog, and what its interrupt left behind
  directive,   \* the interrupt the registry keeps for the end of the turn
  asked,       \* where each intervention is, and for which turn it was meant
  pending,     \* requests of the session that wait for a reply
  inbox,       \* what the session wrote and the agent has not read
  outbox,      \* what the agent wrote and the session has not read
  agent,       \* the turn it works on; 0 when it waits for one; None when it is gone
  aborted,     \* the run was paused, cancelled or out of time
  interrupted  \* history: the interventions whose turn ended as interrupted

turnVars == <<kind, stage, profile, outcome, turn, stall, directive, asked, pending, inbox,
              outbox, agent, aborted, interrupted>>

-----------------------------------------------------------------------------
Terminal == {"answered", "operator", "aborted", "observer", "exhausted"}
Live == {"handshake", "turn"}    \* the session is attached to the registry
TurnNumber == 1..(1 + MaxRedirects + MaxRecoveries)
Request == Intervention \union Timer \union {"start"}
Sender == Request \union {"stall"}

NoStall == [pending |-> FALSE, recoveries |-> 0]
NewTurn(number, redirects, timers) ==
  [number |-> number, known |-> kind = "claude", forced |-> None, requested |-> FALSE,
   redirect |-> FALSE, timers |-> timers, grace |-> {}, redirects |-> redirects]

\* What the registry and the session know of an intervention.
Asked ==
  [wish : {"stop", "redirect", "steer"}, profile : 1..Profiles, turn : TurnNumber,
   state : {"sent", "agreed", "refused", "done", "rejected"}]
ASSUME NotAskedAssumption == None \notin Asked

TurnTypeOK ==
  /\ kind \in Kinds
  /\ stage \in {"gate", "claim", "report"} \union Live \union Terminal
  /\ profile \in 1..Profiles
  /\ outcome \in {None, "answer", "failure", "operator", "aborted"}
  /\ turn \in [number : TurnNumber, known : BOOLEAN, forced : {None, "failed", "interrupted"},
               requested : BOOLEAN, redirect : BOOLEAN, timers : SUBSET Timer,
               grace : SUBSET Timer, redirects : 0..MaxRedirects]
  /\ stall \in [pending : BOOLEAN, recoveries : 0..MaxRecoveries]
  /\ directive \in Intervention \union {None}
  /\ asked \in [Intervention -> {None} \union Asked]
  /\ pending \subseteq Request
  /\ \A i \in DOMAIN inbox :
       inbox[i] \in [type : {"turn", "interrupt", "steer"}, turn : TurnNumber, by : Sender]
  /\ \A i \in DOMAIN outbox :
       outbox[i] \in {[type |-> "exit"]} \union [type : {"reply", "refusal"}, turn : TurnNumber, by : Sender]
         \union [type : {"end"}, turn : TurnNumber, status : {"completed", "failed", "interrupted"}]
  /\ agent \in {None, 0} \union TurnNumber
  /\ aborted \in BOOLEAN
  /\ interrupted \subseteq Intervention

TurnInit ==
  /\ kind \in Kinds
  /\ stage = "gate" /\ profile = 1 /\ outcome = None
  /\ turn = NewTurn(1, 0, {})
  /\ stall = NoStall
  /\ directive = None
  /\ asked = [i \in Intervention |-> None]
  /\ pending = {} /\ inbox = <<>> /\ outbox = <<>>
  /\ agent = None
  /\ aborted = FALSE
  /\ interrupted = {}

-----------------------------------------------------------------------------
(* The chain of profiles (agents/service.ts). *)

NextProfile ==
  /\ stage' = IF profile < Profiles THEN "gate" ELSE "exhausted"
  /\ profile' = IF profile < Profiles THEN profile + 1 ELSE profile

(* allowAttempt: the circuit of a profile is what other invocations made of it. *)
SkipCandidate ==
  /\ stage = "gate"
  /\ NextProfile
  /\ UNCHANGED <<kind, outcome, turn, stall, directive, asked, pending, inbox, outbox, agent,
                 aborted, interrupted>>

AllowAttempt ==
  /\ stage = "gate"
  /\ stage' = "claim"
  /\ UNCHANGED <<kind, profile, outcome, turn, stall, directive, asked, pending, inbox, outbox,
                 agent, aborted, interrupted>>

(* The artifacts of the attempt cannot be prepared: that ends the invocation. *)
PrepareFails ==
  /\ stage = "gate"
  /\ stage' = "observer"
  /\ UNCHANGED <<kind, profile, outcome, turn, stall, directive, asked, pending, inbox, outbox,
                 agent, aborted, interrupted>>

(* beforeInvocation throws: nothing is reported, and the chain stops. *)
RefuseInvocation ==
  /\ stage = "claim"
  /\ stage' = IF aborted THEN "aborted" ELSE "observer"
  /\ UNCHANGED <<kind, profile, outcome, turn, stall, directive, asked, pending, inbox, outbox,
                 agent, aborted, interrupted>>

(* armTurnTimers: a signal that is aborted already is never heard. *)
TimersOf == IF aborted THEN {"timeout"} ELSE Timer

(* This was asked for that turn. *)
IsOf(intervention, p, n) ==
  intervention # None /\ intervention.profile = p /\ intervention.turn = n

Message(type, by) == [type |-> type, turn |-> turn.number, by |-> by]

(* The session is opened and attached, and its first turn begins, in a codex *)
(* session after the handshake.  A run that was aborted begins no turn.      *)
OpenSession ==
  /\ stage = "claim"
  /\ stage' = CASE aborted -> "report" [] kind = "codex" -> "handshake" [] OTHER -> "turn"
  /\ outcome' = IF aborted THEN "aborted" ELSE None
  /\ turn' = NewTurn(1, 0, Timer)
  /\ stall' = NoStall
  /\ directive' = None
  /\ pending' = {} /\ outbox' = <<>>
  /\ inbox' = IF kind = "claude" /\ ~aborted
                THEN <<[type |-> "turn", turn |-> 1, by |-> "start"]>> ELSE <<>>
  /\ agent' = IF aborted THEN None ELSE 0
  /\ UNCHANGED <<kind, profile, asked, aborted, interrupted>>

Handshake ==
  /\ stage = "handshake"
  /\ agent # None
  /\ stage' = "turn"
  /\ turn' = NewTurn(1, 0, TimersOf)
  /\ pending' = {"start"}
  /\ inbox' = <<Message("turn", "start")>>
  /\ UNCHANGED <<kind, profile, outcome, stall, directive, asked, outbox, agent, aborted,
                 interrupted>>

(* The attempt is over: the watchdog stops, the session is detached and closed, *)
(* and whoever waits for a reply is refused.  The process is waited for.        *)
Finish(result) ==
  /\ stage' = "report"
  /\ outcome' = result
  /\ directive' = None
  /\ turn' = NewTurn(turn.number, turn.redirects, {})
  /\ stall' = NoStall
  /\ asked' = [i \in Intervention |->
       IF i \in pending THEN [asked[i] EXCEPT !.state = "refused"] ELSE asked[i]]
  /\ pending' = {} /\ inbox' = <<>> /\ outbox' = <<>>
  /\ agent' = None
  /\ UNCHANGED <<kind, profile, aborted>>

(* A request of the handshake was refused, or timed out, or the agent died. *)
HandshakeFails ==
  /\ stage = "handshake"
  /\ Finish("failure")
  /\ UNCHANGED interrupted

\* Mutant of Report: an operator's stop counts as a failure of the profile.
ReportStopAsFailure ==
  /\ stage = "report"
  /\ CASE outcome = "answer" -> stage' = "answered" /\ UNCHANGED profile
       [] outcome # "answer" /\ aborted -> stage' = "aborted" /\ UNCHANGED profile
       [] OTHER -> NextProfile
  /\ UNCHANGED <<kind, outcome, turn, stall, directive, asked, pending, inbox, outbox, agent,
                 aborted, interrupted>>

(* afterInvocation returns: the answer is given, or the chain stops, or the *)
(* next profile is tried.                                                   *)
Report ==
  /\ stage = "report"
  /\ CASE outcome = "answer" -> stage' = "answered" /\ UNCHANGED profile
       [] outcome # "answer" /\ aborted -> stage' = "aborted" /\ UNCHANGED profile
       [] outcome = "operator" /\ ~aborted -> stage' = "operator" /\ UNCHANGED profile
       [] OTHER -> NextProfile
  /\ UNCHANGED <<kind, outcome, turn, stall, directive, asked, pending, inbox, outbox, agent,
                 aborted, interrupted>>

(* It throws: the chain stops. *)
ReportFails ==
  /\ stage = "report"
  /\ stage' = IF aborted THEN "aborted" ELSE "observer"
  /\ UNCHANGED <<kind, profile, outcome, turn, stall, directive, asked, pending, inbox, outbox,
                 agent, aborted, interrupted>>

-----------------------------------------------------------------------------
(* The end of a turn (runWithRedirects), by an event of the agent or by force. *)

\* Mutant of AnotherTurn: the directive that was taken stays with the registry.
AnotherTurnKeepingDirective(redirects, recoveries, unread) ==
  LET number == turn.number + 1 IN
  /\ turn' = NewTurn(number, redirects, Timer)
  /\ pending' = (pending \ Timer) \union (IF kind = "codex" THEN {"start"} ELSE {})
  /\ inbox' = Append(inbox, [type |-> "turn", turn |-> number, by |-> "start"])
  /\ outbox' = unread
  /\ stall' = [pending |-> FALSE, recoveries |-> recoveries]
  /\ UNCHANGED <<kind, stage, profile, outcome, directive, asked, agent, aborted>>

(* The next turn of the session; the signal of the run was not aborted. *)
AnotherTurn(redirects, recoveries, unread) ==
  LET number == turn.number + 1 IN
  /\ turn' = NewTurn(number, redirects, Timer)
  /\ pending' = (pending \ Timer) \union (IF kind = "codex" THEN {"start"} ELSE {})
  /\ inbox' = Append(inbox, [type |-> "turn", turn |-> number, by |-> "start"])
  /\ directive' = None
  /\ outbox' = unread
  /\ stall' = [pending |-> FALSE, recoveries |-> recoveries]
  /\ UNCHANGED <<kind, stage, profile, outcome, asked, agent, aborted>>

TurnEnds(status, unread) ==
  LET taken == status = "interrupted" /\ ~aborted /\ directive # None IN
  /\ CASE status = "completed" -> Finish("answer")
       [] status = "failed" -> Finish("failure")
       [] status = "interrupted" /\ aborted -> Finish("aborted")
       [] taken /\ asked[directive].wish = "stop" -> Finish("operator")
       [] taken /\ asked[directive].wish = "redirect" ->
            IF turn.redirects >= MaxRedirects
              THEN Finish("operator")
              ELSE AnotherTurn(turn.redirects + 1, stall.recoveries, unread)
       [] OTHER ->
            IF stall.pending /\ stall.recoveries < MaxRecoveries
              THEN AnotherTurn(turn.redirects, stall.recoveries + 1, unread)
              ELSE Finish("failure")
  /\ interrupted' = interrupted \union
       {i \in Intervention : status = "interrupted" /\ IsOf(asked[i], profile, turn.number)}

-----------------------------------------------------------------------------
(* What the session reads. *)

Hears(type) == outbox # <<>> /\ Head(outbox).type = type
Reads(type) == Hears(type) /\ outbox' = Tail(outbox)
Said == Head(outbox)

(* A reply to turn/start names the turn, a refusal fails it. *)
StartAgreed ==
  /\ stage = "turn"
  /\ Reads("reply") /\ Said.by = "start"
  /\ turn' = [turn EXCEPT !.known = TRUE]
  /\ pending' = pending \ {"start"}
  /\ UNCHANGED <<kind, stage, profile, outcome, stall, directive, asked, inbox, agent, aborted,
                 interrupted>>

StartRefused ==
  /\ stage = "turn"
  /\ Hears("refusal") /\ Said.by = "start"
  /\ Finish("failure")
  /\ UNCHANGED interrupted

(* The request of an operator is settled; the operator goes on in Continue. *)
InterventionSettled ==
  /\ stage = "turn"
  /\ \E type \in {"reply", "refusal"} :
       /\ Reads(type) /\ Said.by \in Intervention \intersect pending
       /\ asked' = [asked EXCEPT ![Said.by].state = IF type = "reply" THEN "agreed" ELSE "refused"]
  /\ pending' = pending \ {Said.by}
  /\ UNCHANGED <<kind, stage, profile, outcome, turn, stall, directive, inbox, agent, aborted,
                 interrupted>>

(* So is the request of a timer: its grace begins. *)
TimerSettled ==
  /\ stage = "turn"
  /\ \E type \in {"reply", "refusal"} : Reads(type)
  /\ Said.turn = turn.number /\ Said.by \in Timer \intersect pending
  /\ turn' = [turn EXCEPT !.grace = @ \union {Said.by}]
  /\ pending' = pending \ {Said.by}
  /\ UNCHANGED <<kind, stage, profile, outcome, stall, directive, asked, inbox, agent, aborted,
                 interrupted>>

(* Nobody waits for it any more. *)
ReplyIgnored ==
  /\ stage = "turn"
  /\ \E type \in {"reply", "refusal"} : Reads(type)
  /\ Said.by \in pending => Said.by \in Timer /\ Said.turn # turn.number
  /\ UNCHANGED <<kind, stage, profile, outcome, turn, stall, directive, asked, pending, inbox,
                 agent, aborted, interrupted>>

(* The end of a turn.  Codex names the turn, claude does not; a forced status *)
(* wins there, then a request to interrupt, then what the agent says.         *)
EndOfTurn ==
  stage = "turn" /\ Hears("end") /\ (kind = "codex" /\ turn.known => Said.turn = turn.number)

EndStatus ==
  IF kind = "codex" THEN Said.status
  ELSE IF turn.forced # None THEN turn.forced
  ELSE IF turn.requested THEN "interrupted" ELSE Said.status

(* consumeRedirect: the guidance goes back, and the turn goes on. *)
Redirected == kind = "claude" /\ turn.requested /\ turn.redirect

ConsumeRedirect ==
  /\ EndOfTurn
  /\ Redirected
  /\ outbox' = Tail(outbox)
  /\ turn' = [turn EXCEPT !.requested = FALSE, !.redirect = FALSE]
  /\ inbox' = Append(inbox, Message("turn", "start"))
  /\ UNCHANGED <<kind, stage, profile, outcome, stall, directive, asked, pending, agent, aborted,
                 interrupted>>

TurnCompleted ==
  /\ EndOfTurn
  /\ ~Redirected
  /\ TurnEnds(EndStatus, Tail(outbox))

EndIgnored ==
  /\ stage = "turn"
  /\ Reads("end")
  /\ kind = "codex" /\ turn.known /\ Said.turn # turn.number
  /\ UNCHANGED <<kind, stage, profile, outcome, turn, stall, directive, asked, pending, inbox,
                 agent, aborted, interrupted>>

(* handleExit: every waiter is refused, and the turn fails. *)
AgentExited ==
  /\ stage = "turn"
  /\ Hears("exit")
  /\ Finish("failure")
  /\ UNCHANGED interrupted

-----------------------------------------------------------------------------
(* Time: a request without a reply, the timeout of a turn, the abort of the *)
(* run, the grace that a forced turn has, and the watchdog.                 *)

NoReply(request, turnAfter, askedAfter) ==
  /\ pending' = pending \ {request}
  /\ turn' = turnAfter
  /\ asked' = askedAfter
  /\ UNCHANGED <<kind, stage, profile, outcome, stall, directive, inbox, outbox, agent, aborted>>

\* Mutant of RequestTimesOut: the grace of a forced turn waits for a reply.
RequestTimesOutForGood(request) ==
  /\ stage = "turn"
  /\ request \in pending
  /\ CASE request = "start" -> Finish("failure")
       [] request \in Timer -> NoReply(request, turn, asked)
       [] OTHER -> NoReply(request, turn, [asked EXCEPT ![request].state = "refused"])
  /\ UNCHANGED interrupted

RequestTimesOut(request) ==
  /\ stage = "turn"
  /\ request \in pending
  /\ CASE request = "start" -> Finish("failure")
       [] request \in Timer -> NoReply(request, [turn EXCEPT !.grace = @ \union {request}], asked)
       [] OTHER -> NoReply(request, turn, [asked EXCEPT ![request].state = "refused"])
  /\ UNCHANGED interrupted

(* interruptWithGrace and forceInterrupt: codex has its grace once the request *)
(* to interrupt is settled, claude at once.                                    *)
ForceEnd(timer, status) ==
  LET waits == kind = "codex" /\ turn.known IN
  /\ turn' = [turn EXCEPT !.timers = @ \ {timer},
                          !.grace = IF waits THEN @ ELSE @ \union {timer},
                          !.requested = @ \/ kind = "claude",
                          !.redirect = @ /\ kind # "claude",
                          !.forced = IF kind = "claude" THEN status ELSE @]
  /\ pending' = IF waits THEN pending \union {timer} ELSE pending
  /\ inbox' = IF waits \/ kind = "claude" THEN Append(inbox, Message("interrupt", timer)) ELSE inbox

TimeoutFires ==
  /\ stage = "turn"
  /\ "timeout" \in turn.timers
  /\ ForceEnd("timeout", "failed")
  /\ UNCHANGED <<kind, stage, profile, outcome, stall, directive, asked, outbox, agent, aborted,
                 interrupted>>

AbortRun ==
  /\ stage \notin Terminal
  /\ ~aborted
  /\ aborted' = TRUE
  /\ IF stage = "turn" /\ "abort" \in turn.timers
       THEN ForceEnd("abort", "interrupted") ELSE UNCHANGED <<turn, pending, inbox>>
  /\ UNCHANGED <<kind, stage, profile, outcome, stall, directive, asked, outbox, agent,
                 interrupted>>

(* A codex turn is not over before its request to start is settled. *)
GraceExpires(timer) ==
  /\ stage = "turn"
  /\ timer \in turn.grace
  /\ "start" \notin pending
  /\ TurnEnds(IF timer = "timeout" THEN "failed" ELSE "interrupted", outbox)

(* The watchdog fires when nothing was heard for its time, no tool runs and no *)
(* question is open: at any time, as far as this module tells.  What becomes   *)
(* of its interrupt is ignored.  Bound: one of them unread at a time.          *)
StallFires ==
  /\ stage \in Live
  /\ \A i \in DOMAIN inbox : inbox[i].by # "stall"
  /\ stall' = [stall EXCEPT !.pending = TRUE]
  /\ turn' = [turn EXCEPT !.requested = @ \/ kind = "claude"]
  /\ inbox' = IF stage = "turn" /\ turn.known THEN Append(inbox, Message("interrupt", "stall"))
                                              ELSE inbox
  /\ UNCHANGED <<kind, stage, profile, outcome, directive, asked, pending, outbox, agent, aborted,
                 interrupted>>

-----------------------------------------------------------------------------
(* Operators (interventions/registry.ts); the session is attached. *)

Asks(i, wish, state) ==
  asked' = [asked EXCEPT ![i] = [wish |-> wish, profile |-> profile, turn |-> turn.number,
                                 state |-> state]]

(* A turn that has no name yet: the session throws, and the registry forgets *)
(* the directive.                                                            *)
AskTooEarly(i, wish) ==
  /\ stage \in Live /\ asked[i] = None
  /\ ~turn.known
  /\ Asks(i, wish, "rejected")
  /\ directive' = IF wish = "steer" THEN directive ELSE None
  /\ UNCHANGED <<kind, stage, profile, outcome, turn, stall, pending, inbox, outbox, agent,
                 aborted, interrupted>>

(* interrupt, with a note to redirect or without one to stop. *)
Interrupt(i, wish) ==
  /\ stage = "turn" /\ asked[i] = None
  /\ turn.known
  /\ directive' = i
  /\ Asks(i, wish, IF kind = "codex" THEN "sent" ELSE "done")
  /\ pending' = IF kind = "codex" THEN pending \union {i} ELSE pending
  /\ turn' = [turn EXCEPT !.requested = @ \/ kind = "claude"]
  /\ inbox' = Append(inbox, Message("interrupt", i))
  /\ UNCHANGED <<kind, stage, profile, outcome, stall, outbox, agent, aborted, interrupted>>

(* steer: claude interrupts the turn, to go on with the guidance. *)
Steer(i) ==
  /\ stage = "turn" /\ asked[i] = None
  /\ turn.known
  /\ Asks(i, "steer", IF kind = "codex" THEN "sent" ELSE "done")
  /\ pending' = IF kind = "codex" THEN pending \union {i} ELSE pending
  /\ turn' = [turn EXCEPT !.requested = @ \/ kind = "claude", !.redirect = @ \/ kind = "claude"]
  /\ inbox' = Append(inbox, Message(IF kind = "codex" THEN "steer" ELSE "interrupt", i))
  /\ UNCHANGED <<kind, stage, profile, outcome, stall, directive, outbox, agent, aborted,
                 interrupted>>

(* The request is settled; a refused interrupt takes back whatever directive *)
(* the registry has for the session by now.                                  *)
Continue(i) ==
  /\ asked[i] # None /\ asked[i].state \in {"agreed", "refused"}
  /\ asked' = [asked EXCEPT ![i].state = IF @ = "agreed" THEN "done" ELSE "rejected"]
  /\ directive' = IF asked[i].state = "refused" /\ asked[i].wish # "steer"
                       /\ asked[i].profile = profile
                    THEN None ELSE directive
  /\ UNCHANGED <<kind, stage, profile, outcome, turn, stall, pending, inbox, outbox, agent,
                 aborted, interrupted>>

-----------------------------------------------------------------------------
(* The agent, as the sessions understand it. *)

Says(messages) == outbox' = outbox \o messages
Verdict(type, m) == [type |-> type, turn |-> m.turn, by |-> m.by]
EndOf(number, status) == [type |-> "end", turn |-> number, status |-> status]
Answers(type, m) == Says(IF kind = "codex" /\ m.by # "stall" THEN <<Verdict(type, m)>> ELSE <<>>)

AgentReads(type) ==
  /\ agent # None
  /\ inbox # <<>> /\ Head(inbox).type = type
  /\ inbox' = Tail(inbox)
  /\ UNCHANGED <<kind, stage, profile, outcome, turn, stall, directive, asked, pending, aborted,
                 interrupted>>

AgentBegins ==
  /\ AgentReads("turn")
  /\ \/ Answers("reply", Head(inbox)) /\ agent' = Head(inbox).turn
     \/ kind = "codex" /\ Answers("refusal", Head(inbox)) /\ UNCHANGED agent

(* An interrupt of the turn it works on ends that turn; codex answers the *)
(* request and names the turn, in either order.                           *)
WorksOn(m) == agent # 0 /\ (kind = "codex" => agent = m.turn)

AgentStops ==
  LET m == Head(inbox) IN
  /\ AgentReads("interrupt")
  /\ WorksOn(m)
  /\ agent' = 0
  /\ IF kind = "codex"
       THEN LET verdict == IF m.by = "stall" THEN <<>> ELSE <<Verdict("reply", m)>>
                end == <<EndOf(agent, "interrupted")>>
            IN \/ Says(verdict \o end)
               \/ Says(end \o verdict)
       ELSE \E status \in {"completed", "failed"} : Says(<<EndOf(agent, status)>>)

AgentHasStopped ==
  /\ AgentReads("interrupt")
  /\ ~WorksOn(Head(inbox))
  /\ Answers("refusal", Head(inbox))
  /\ UNCHANGED agent

AgentSteered ==
  /\ AgentReads("steer")
  /\ \E type \in {"reply", "refusal"} :
       /\ type = "reply" => WorksOn(Head(inbox))
       /\ Answers(type, Head(inbox))
  /\ UNCHANGED agent

AgentEnds ==
  /\ agent \notin {None, 0}
  /\ agent' = 0
  /\ \E status \in {"completed", "failed"} : Says(<<EndOf(agent, status)>>)
  /\ UNCHANGED <<kind, stage, profile, outcome, turn, stall, directive, asked, pending, inbox,
                 aborted, interrupted>>

AgentDies ==
  /\ stage \in Live
  /\ agent # None
  /\ agent' = None
  /\ Says(<<[type |-> "exit"]>>)
  /\ UNCHANGED <<kind, stage, profile, outcome, turn, stall, directive, asked, pending, inbox,
                 aborted, interrupted>>

-----------------------------------------------------------------------------
(* What the service does without being asked, timers included. *)
ServiceStep ==
  \/ SkipCandidate
  \/ AllowAttempt
  \/ PrepareFails
  \/ RefuseInvocation
  \/ OpenSession
  \/ Handshake
  \/ HandshakeFails
  \/ Report
  \/ ReportFails
  \/ StartAgreed
  \/ StartRefused
  \/ InterventionSettled
  \/ TimerSettled
  \/ ReplyIgnored
  \/ ConsumeRedirect
  \/ TurnCompleted
  \/ EndIgnored
  \/ AgentExited
  \/ \E request \in Request : RequestTimesOut(request)
  \/ TimeoutFires
  \/ \E timer \in Timer : GraceExpires(timer)

TurnNext ==
  \/ ServiceStep
  \/ AbortRun
  \/ StallFires
  \/ \E i \in InterventionsIn[kind] :
       \/ \E wish \in {"stop", "redirect", "steer"} : AskTooEarly(i, wish)
       \/ \E wish \in {"stop", "redirect"} : Interrupt(i, wish)
       \/ Steer(i)
       \/ Continue(i)
  \/ AgentBegins
  \/ AgentStops
  \/ AgentHasStopped
  \/ AgentSteered
  \/ AgentEnds
  \/ AgentDies

TurnSpec == TurnInit /\ [][TurnNext]_turnVars

(* The service and its clocks go on; the agent, the operators and the *)
(* watchdog may do nothing for ever.                                  *)
FairTurnSpec == TurnSpec /\ WF_turnVars(ServiceStep)

-----------------------------------------------------------------------------
(* The directive that the end of a turn would take was given for that turn, *)
(* and not for an earlier one or for another session.                       *)
DirectiveOfThisTurn ==
  directive # None => IsOf(asked[directive], profile, turn.number)

(* No other intervention meddles with this one: it is of another session, or *)
(* of an earlier turn and was not refused.                                   *)
Alone(i) ==
  \A j \in Intervention \ {i} :
    asked[j] # None /\ asked[j].profile = asked[i].profile
      => asked[j].turn < asked[i].turn /\ asked[j].state \in {"sent", "agreed", "done"}

(* When a turn ends as interrupted, and its only operator asked to stop it and *)
(* was not told that this failed, the invocation goes no further: no turn and  *)
(* no profile follows, whatever the watchdog and the clocks did beside that.   *)
StopIsHonoured ==
  \A i \in interrupted :
    asked[i].wish = "stop" /\ asked[i].state # "rejected" /\ Alone(i)
    => IsOf(asked[i], profile, turn.number) /\ stage \notin {"gate", "claim", "exhausted"} \union Live

(* An invocation always comes to its end: whatever the agent fails to answer, *)
(* and however often it is interrupted, redirected or found silent.           *)
InvocationEnds == <>(stage \in Terminal)
=============================================================================
