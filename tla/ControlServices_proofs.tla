------------------------ MODULE ControlServices_proofs ------------------------
(***************************************************************************)
(* Two services of the control process that share no state: the budget of  *)
(* invocations, for any number of agents, any limit and any number of      *)
(* failed saves and deaths, and the intake of work, for any number of      *)
(* triggers, threads, commands, runs and deaths.                           *)
(***************************************************************************)
EXTENDS RunBudget, RunIntake, FiniteSetTheorems, SequenceTheorems, TLAPS

-----------------------------------------------------------------------------
(***************************************************************************)
(* The budget: only the first caller of the chain is past its count, so    *)
(* that the count stands still until its claim is saved and announced; the *)
(* store writes in the order of the calls, so that what is saved only      *)
(* grows; and what is announced was saved before.                          *)
(***************************************************************************)

Counted(c) == caller[c] \in {"saving", "saved"}

(* Who waits in the chain, and who is past its count. *)
ChainInv ==
  /\ \A c \in Caller :
       caller[c] \in {"claiming", "saving", "saved"} => \E i \in DOMAIN incrementChain : incrementChain[i] = c
  /\ \A i \in DOMAIN incrementChain : caller[incrementChain[i]] \in {"claiming", "saving", "saved"}
  /\ \A i, j \in DOMAIN incrementChain : incrementChain[i] = incrementChain[j] => i = j
  /\ \A c \in Caller : Counted(c) => IsFirst(c)

(* The saves under way, in the order of their counts. *)
QueueInv ==
  /\ \A i \in DOMAIN saveQueue : \A c \in Caller :
       saveQueue[i].by = c => /\ caller[c] \in {"saving", "reporting"}
                              /\ caller[c] = "saving" => saveQueue[i].invocations = agentInvocations
  /\ \A i, j \in DOMAIN saveQueue :
       saveQueue[i].by = saveQueue[j].by /\ saveQueue[i].by \in Caller => i = j
  /\ \A i, j \in DOMAIN saveQueue : i < j => saveQueue[i].invocations <= saveQueue[j].invocations
  /\ \A i \in DOMAIN saveQueue : /\ saveQueue[i].invocations <= agentInvocations
                                 /\ saved <= saveQueue[i].invocations

(* How the count, the saved count and what was announced compare. *)
CountInv ==
  /\ ~tracking => saveQueue = <<>> /\ incrementChain = <<>> /\ \A c \in Caller : caller[c] = "idle"
  /\ tracking => saved <= agentInvocations
  /\ \A c \in Caller : caller[c] = "saved" => saved = agentInvocations
  /\ Len(announced) <= saved
  /\ \A i \in DOMAIN announced : announced[i] <= saved
  /\ \A i, j \in DOMAIN announced : i < j => announced[i] < announced[j]
  /\ \A c \in Caller : Counted(c) =>
       /\ Len(announced) < agentInvocations
       /\ \A i \in DOMAIN announced : announced[i] < agentInvocations

BudgetInv == BudgetTypeOK /\ ChainInv /\ QueueInv /\ CountInv

-----------------------------------------------------------------------------
(***************************************************************************)
(* Sequences, first element gone and one appended.                         *)
(***************************************************************************)
LEMMA Shorter ==
  ASSUME NEW S, NEW s \in Seq(S), s # <<>>
  PROVE  /\ 1 \in DOMAIN s /\ Head(s) = s[1] /\ Head(s) \in S
         /\ Tail(s) \in Seq(S)
         /\ \A i \in DOMAIN Tail(s) : i \in Nat /\ i >= 1 /\ i + 1 \in DOMAIN s /\ Tail(s)[i] = s[i + 1]
         /\ \A i \in DOMAIN s : i # 1 => i - 1 \in DOMAIN Tail(s) /\ Tail(s)[i - 1] = s[i]
OBVIOUS

LEMMA Longer ==
  ASSUME NEW S, NEW s \in Seq(S), NEW e \in S
  PROVE  /\ Append(s, e) \in Seq(S) /\ Append(s, e) # <<>>
         /\ Len(Append(s, e)) = Len(s) + 1
         /\ s # <<>> => Head(Append(s, e)) = Head(s)
         /\ Len(s) + 1 \in DOMAIN Append(s, e) /\ Append(s, e)[Len(s) + 1] = e
         /\ \A i \in DOMAIN s : i \in 1..Len(s) /\ i \in DOMAIN Append(s, e) /\ Append(s, e)[i] = s[i]
         /\ \A i \in DOMAIN Append(s, e) : i # Len(s) + 1 => i \in DOMAIN s
<1>1. /\ Append(s, e) \in Seq(S) /\ Len(Append(s, e)) = Len(s) + 1
      /\ \A i \in 1..Len(s) : Append(s, e)[i] = s[i]
      /\ Append(s, e)[Len(s) + 1] = e
  BY AppendProperties
<1>2. Len(s) \in Nat /\ DOMAIN s = 1..Len(s) /\ DOMAIN Append(s, e) = 1..(Len(s) + 1)
  BY <1>1
<1>3. Append(s, e) # <<>> /\ (s # <<>> => Head(Append(s, e)) = Head(s))
  BY <1>1
<1> QED
  BY <1>1, <1>2, <1>3

SaveRequest == [invocations : 0..MaxAgentInvocations, by : Caller \union {Workflow}]

-----------------------------------------------------------------------------
(***************************************************************************)
(* What the steps do to the chain of claims.                               *)
(***************************************************************************)
Waits(c) == caller[c] \in {"claiming", "saving", "saved"}

LEMMA ChainStays ==
  ASSUME BudgetTypeOK, ChainInv, incrementChain' = incrementChain,
         \A c \in Caller : Waits(c)' <=> Waits(c),
         \A c \in Caller : Counted(c)' => IsFirst(c)
  PROVE  ChainInv'
<1>1. \A i \in DOMAIN incrementChain : incrementChain[i] \in Caller
  BY DEF BudgetTypeOK
<1> QED
  BY <1>1 DEF ChainInv, Waits, IsFirst

LEMMA ChainShrinks ==
  ASSUME BudgetTypeOK, ChainInv, incrementChain # <<>>, incrementChain' = Tail(incrementChain),
         caller'[Head(incrementChain)] \notin {"claiming", "saving", "saved"},
         \A c \in Caller : c # Head(incrementChain) => caller'[c] = caller[c]
  PROVE  ChainInv'
<1> DEFINE first == Head(incrementChain)
<1>1. /\ 1 \in DOMAIN incrementChain /\ first = incrementChain[1] /\ first \in Caller
      /\ \A i \in DOMAIN incrementChain' :
           i \in Nat /\ i >= 1 /\ i + 1 \in DOMAIN incrementChain /\ incrementChain'[i] = incrementChain[i + 1]
      /\ \A i \in DOMAIN incrementChain :
           i # 1 => i - 1 \in DOMAIN incrementChain' /\ incrementChain'[i - 1] = incrementChain[i]
  BY Shorter DEF BudgetTypeOK
<1>2. \A i \in DOMAIN incrementChain : incrementChain[i] \in Caller
  BY DEF BudgetTypeOK
<1>3. \A c \in Caller : ~Counted(c)'
  <2>1. \A c \in Caller : Counted(c) => c = first
    BY DEF ChainInv, IsFirst
  <2> QED
    BY <2>1 DEF Counted, Waits
<1>4. \A c \in Caller : Waits(c)' => \E i \in DOMAIN incrementChain' : incrementChain'[i] = c
  <2> SUFFICES ASSUME NEW c \in Caller, Waits(c)'
               PROVE  \E i \in DOMAIN incrementChain' : incrementChain'[i] = c
    OBVIOUS
  <2>1. c # first /\ Waits(c)
    BY DEF Waits
  <2>2. PICK i \in DOMAIN incrementChain : incrementChain[i] = c
    BY <2>1 DEF ChainInv, Waits
  <2> QED
    BY <1>1, <2>1, <2>2
<1>5. \A i \in DOMAIN incrementChain' : caller'[incrementChain'[i]] \in {"claiming", "saving", "saved"}
  <2> SUFFICES ASSUME NEW i \in DOMAIN incrementChain'
               PROVE  caller'[incrementChain'[i]] \in {"claiming", "saving", "saved"}
    OBVIOUS
  <2>1. i + 1 # 1 /\ i + 1 \in DOMAIN incrementChain /\ incrementChain'[i] = incrementChain[i + 1]
    BY <1>1
  <2>2. incrementChain[i + 1] # first
    BY <1>1, <2>1 DEF ChainInv
  <2> QED
    BY <1>2, <2>1, <2>2 DEF ChainInv, Waits
<1>6. \A i, j \in DOMAIN incrementChain' : incrementChain'[i] = incrementChain'[j] => i = j
  <2> SUFFICES ASSUME NEW i \in DOMAIN incrementChain', NEW j \in DOMAIN incrementChain',
                      incrementChain'[i] = incrementChain'[j]
               PROVE  i = j
    OBVIOUS
  <2>1. i + 1 = j + 1
    BY <1>1 DEF ChainInv
  <2> QED
    BY <1>1, <2>1
<1> QED
  BY <1>3, <1>4, <1>5, <1>6 DEF ChainInv, Waits

-----------------------------------------------------------------------------
(***************************************************************************)
(* What the steps do to the saves under way.                               *)
(***************************************************************************)
LEMMA QueueGrows ==
  ASSUME BudgetTypeOK, QueueInv, NEW b \in Caller \union {Workflow},
         agentInvocations' \in 0..MaxAgentInvocations,
         Save(agentInvocations', b),
         agentInvocations <= agentInvocations', saved' = saved, saved <= agentInvocations',
         b \in Caller => /\ caller[b] \notin {"saving", "reporting"}
                         /\ caller'[b] \in {"saving", "reporting"},
         \A c \in Caller : c # b => /\ caller'[c] = caller[c]
                                    /\ caller[c] = "saving" => agentInvocations' = agentInvocations
  PROVE  QueueInv' /\ saveQueue' \in Seq(SaveRequest)
<1> DEFINE last == Len(saveQueue) + 1
           entry == [invocations |-> agentInvocations', by |-> b]
<1>1. entry \in SaveRequest /\ saveQueue \in Seq(SaveRequest) /\ saveQueue' = Append(saveQueue, entry)
  BY DEF SaveRequest, BudgetTypeOK, Save
<1>2. /\ saveQueue' \in Seq(SaveRequest)
      /\ last \in DOMAIN saveQueue' /\ saveQueue'[last] = entry
      /\ \A i \in DOMAIN saveQueue : i \in 1..Len(saveQueue) /\ i \in DOMAIN saveQueue' /\ saveQueue'[i] = saveQueue[i]
      /\ \A i \in DOMAIN saveQueue' : i # last => i \in DOMAIN saveQueue
  BY <1>1, Longer
<1>3. \A i \in DOMAIN saveQueue : i \in Int /\ i < last
  BY <1>1, <1>2
<1>4. entry.by = b /\ entry.invocations = agentInvocations'
  OBVIOUS
<1>5. b \in Caller => \A i \in DOMAIN saveQueue : saveQueue[i].by # b
  BY DEF QueueInv
<1> HIDE DEF last, entry
<1>6. ASSUME NEW i \in DOMAIN saveQueue', NEW c \in Caller, saveQueue'[i].by = c
      PROVE  /\ caller'[c] \in {"saving", "reporting"}
             /\ caller'[c] = "saving" => saveQueue'[i].invocations = agentInvocations'
  BY <1>2, <1>4, <1>5, <1>6 DEF QueueInv
<1>7. ASSUME NEW i \in DOMAIN saveQueue', NEW j \in DOMAIN saveQueue',
             saveQueue'[i].by = saveQueue'[j].by, saveQueue'[i].by \in Caller
      PROVE  i = j
  BY <1>2, <1>4, <1>5, <1>7 DEF QueueInv
<1>8. ASSUME NEW i \in DOMAIN saveQueue'
      PROVE  /\ saveQueue'[i].invocations <= agentInvocations'
             /\ saved' <= saveQueue'[i].invocations
  <2>1. CASE i = last
    BY <1>2, <1>4, <2>1 DEF BudgetTypeOK
  <2>2. CASE i # last
    <3>1. i \in DOMAIN saveQueue /\ saveQueue'[i] = saveQueue[i] /\ saveQueue[i] \in SaveRequest
      BY <1>1, <1>2, <2>2
    <3>2. saveQueue[i].invocations \in Int /\ saveQueue[i].invocations <= agentInvocations
          /\ saved <= saveQueue[i].invocations
      BY <3>1 DEF QueueInv, SaveRequest
    <3> QED
      BY <3>1, <3>2, BudgetAssumption DEF BudgetTypeOK, BudgetAssumption
  <2> QED
    BY <2>1, <2>2
<1>9. ASSUME NEW i \in DOMAIN saveQueue', NEW j \in DOMAIN saveQueue', i < j
      PROVE  saveQueue'[i].invocations <= saveQueue'[j].invocations
  <2>1. CASE j = last
    BY <1>2, <1>4, <1>8, <2>1
  <2>2. CASE j # last
    <3>1. i # last
      BY <1>2, <1>3, <1>9, <2>2
    <3> QED
      BY <1>2, <1>9, <2>2, <3>1 DEF QueueInv
  <2> QED
    BY <2>1, <2>2
<1> QED
  BY <1>2, <1>6, <1>7, <1>8, <1>9 DEF QueueInv

LEMMA QueueShrinks ==
  ASSUME BudgetTypeOK, QueueInv, saveQueue # <<>>, saveQueue' = Tail(saveQueue),
         agentInvocations' = agentInvocations,
         saved' = saved \/ saved' = Head(saveQueue).invocations,
         \A c \in Caller : c # Head(saveQueue).by => caller'[c] = caller[c]
  PROVE  QueueInv' /\ saveQueue' \in Seq(SaveRequest)
<1>1. saveQueue \in Seq(SaveRequest)
  BY DEF SaveRequest, BudgetTypeOK
<1>2. /\ 1 \in DOMAIN saveQueue /\ Head(saveQueue) = saveQueue[1]
      /\ saveQueue' \in Seq(SaveRequest)
      /\ \A i \in DOMAIN saveQueue' :
           i \in Nat /\ i >= 1 /\ i + 1 \in DOMAIN saveQueue /\ saveQueue'[i] = saveQueue[i + 1]
  BY <1>1, Shorter
<1>3. ASSUME NEW i \in DOMAIN saveQueue', NEW c \in Caller, saveQueue'[i].by = c
      PROVE  /\ caller'[c] \in {"saving", "reporting"}
             /\ caller'[c] = "saving" => saveQueue'[i].invocations = agentInvocations'
  <2>1. i + 1 # 1 /\ i + 1 \in DOMAIN saveQueue /\ saveQueue[i + 1].by = c
    BY <1>2, <1>3
  <2>2. c # Head(saveQueue).by
    BY <1>2, <2>1 DEF QueueInv
  <2> QED
    BY <1>2, <2>1, <2>2 DEF QueueInv
<1>4. ASSUME NEW i \in DOMAIN saveQueue', NEW j \in DOMAIN saveQueue',
             saveQueue'[i].by = saveQueue'[j].by, saveQueue'[i].by \in Caller
      PROVE  i = j
  <2>1. i + 1 = j + 1
    BY <1>2, <1>4 DEF QueueInv
  <2> QED
    BY <1>2, <2>1
<1>5. ASSUME NEW i \in DOMAIN saveQueue', NEW j \in DOMAIN saveQueue', i < j
      PROVE  saveQueue'[i].invocations <= saveQueue'[j].invocations
  <2>1. i + 1 < j + 1
    BY <1>2, <1>5
  <2> QED
    BY <1>2, <2>1 DEF QueueInv
<1>6. ASSUME NEW i \in DOMAIN saveQueue'
      PROVE  /\ saveQueue'[i].invocations <= agentInvocations'
             /\ saved' <= saveQueue'[i].invocations
  <2>1. 1 < i + 1
    BY <1>2
  <2> QED
    BY <1>2, <2>1 DEF QueueInv
<1> QED
  BY <1>2, <1>3, <1>4, <1>5, <1>6 DEF QueueInv

-----------------------------------------------------------------------------
(***************************************************************************)
(* Each step keeps the invariant.                                          *)
(***************************************************************************)
LEMMA BudgetInitInv == BudgetInit => BudgetInv
<1> SUFFICES ASSUME BudgetInit PROVE BudgetInv
  OBVIOUS
<1>1. BudgetTypeOK
  BY BudgetAssumption DEF BudgetInit, BudgetTypeOK, CallerPlace, BudgetAssumption
<1>2. ChainInv /\ QueueInv /\ CountInv
  BY DEF BudgetInit, ChainInv, QueueInv, CountInv, Counted, IsFirst
<1> QED
  BY <1>1, <1>2 DEF BudgetInv

LEMMA CallerMoves ==
  ASSUME BudgetTypeOK, NEW c \in Caller, NEW from, NEW to \in CallerPlace, Moves(c, from, to)
  PROVE  /\ caller' \in [Caller -> CallerPlace]
         /\ caller[c] = from /\ caller'[c] = to
         /\ \A d \in Caller : d # c => caller'[d] = caller[d]
BY DEF Moves, BudgetTypeOK

LEMMA BeforeInvocationInv ==
  ASSUME BudgetInv, NEW c \in Caller, BeforeInvocation(c)
  PROVE  BudgetInv'
<1> USE DEF BudgetInv
<1>1. /\ caller' \in [Caller -> CallerPlace] /\ caller[c] = "idle" /\ caller'[c] = "claiming"
      /\ \A d \in Caller : d # c => caller'[d] = caller[d]
  BY CallerMoves DEF BeforeInvocation, CallerPlace
<1>2. /\ incrementChain' \in Seq(Caller) /\ incrementChain' # <<>>
      /\ incrementChain # <<>> => Head(incrementChain') = Head(incrementChain)
      /\ Len(incrementChain) + 1 \in DOMAIN incrementChain'
      /\ incrementChain'[Len(incrementChain) + 1] = c
      /\ \A i \in DOMAIN incrementChain : i \in DOMAIN incrementChain' /\ incrementChain'[i] = incrementChain[i]
      /\ \A i \in DOMAIN incrementChain' : i # Len(incrementChain) + 1 => i \in DOMAIN incrementChain
  BY Longer DEF BeforeInvocation, BudgetTypeOK
<1>3. BudgetTypeOK'
  BY <1>1, <1>2 DEF BeforeInvocation, BudgetTypeOK
<1>4. ChainInv'
  <2>1. \A i \in DOMAIN incrementChain : incrementChain[i] \in Caller \ {c}
    BY <1>1 DEF BudgetTypeOK, ChainInv
  <2>2. \A d \in Caller : Waits(d)' => \E i \in DOMAIN incrementChain' : incrementChain'[i] = d
    BY <1>1, <1>2 DEF ChainInv, Waits
  <2>3. \A i \in DOMAIN incrementChain' : caller'[incrementChain'[i]] \in {"claiming", "saving", "saved"}
    BY <1>1, <1>2, <2>1 DEF ChainInv
  <2>4. \A i, j \in DOMAIN incrementChain' : incrementChain'[i] = incrementChain'[j] => i = j
    BY <1>2, <2>1 DEF ChainInv
  <2>5. \A d \in Caller : Counted(d)' => IsFirst(d)'
    BY <1>1, <1>2 DEF ChainInv, Counted, IsFirst
  <2> QED
    BY <2>2, <2>3, <2>4, <2>5 DEF ChainInv, Waits
<1>5. QueueInv'
  BY <1>1 DEF QueueInv, BeforeInvocation
<1>6. CountInv'
  BY <1>1 DEF CountInv, BeforeInvocation, Counted
<1> QED
  BY <1>3, <1>4, <1>5, <1>6

LEMMA FirstAlone ==
  ASSUME BudgetInv, NEW c \in Caller, IsFirst(c), NEW d \in Caller, d # c
  PROVE  ~Counted(d)
BY DEF BudgetInv, ChainInv, IsFirst

LEMMA ClaimInv ==
  ASSUME BudgetInv, NEW c \in Caller, Claim(c)
  PROVE  BudgetInv'
<1> USE DEF BudgetInv
<1>1. /\ caller' \in [Caller -> CallerPlace] /\ caller[c] = "claiming" /\ caller'[c] = "saving"
      /\ \A d \in Caller : d # c => caller'[d] = caller[d]
  BY CallerMoves DEF Claim, CallerPlace
<1>2. tracking
  BY <1>1 DEF CountInv
<1>3. /\ agentInvocations \in Nat /\ agentInvocations' = agentInvocations + 1
      /\ agentInvocations' \in 0..MaxAgentInvocations
      /\ saved' = saved /\ saved \in Nat /\ saved <= agentInvocations
  BY <1>2, BudgetAssumption DEF Claim, BudgetTypeOK, CountInv, BudgetAssumption
<1>4. \A d \in Caller : d # c => ~Counted(d)
  BY FirstAlone DEF Claim
<1>5. QueueInv' /\ saveQueue' \in Seq(SaveRequest)
  <2>1. Save(agentInvocations', c)
    BY <1>3 DEF Claim
  <2>2. c \in Caller \union {Workflow}
    OBVIOUS
  <2>3. \A d \in Caller : d # c => caller'[d] = caller[d] /\ caller[d] # "saving"
    BY <1>1, <1>4 DEF Counted
  <2> QED
    BY QueueGrows, <1>1, <1>3, <2>1, <2>2, <2>3
<1>6. BudgetTypeOK'
  BY <1>1, <1>3, <1>5 DEF Claim, BudgetTypeOK, SaveRequest
<1>7. ChainInv'
  BY ChainStays, <1>1, <1>4 DEF Claim, Waits, Counted
<1>8. CountInv'
  <2>1. \A d \in Caller : caller'[d] # "saved"
    BY <1>1, <1>4 DEF Counted
  <2>2. announced \in Seq(1..MaxAgentInvocations) /\ Len(announced) \in Nat
        /\ \A i \in DOMAIN announced : announced[i] \in Int
    BY BudgetAssumption DEF BudgetTypeOK, BudgetAssumption
  <2>3. UNCHANGED <<announced, tracking>>
    BY DEF Claim
  <2>4. Len(announced) < agentInvocations' /\ \A i \in DOMAIN announced : announced[i] < agentInvocations'
    BY <1>3, <2>2 DEF CountInv
  <2> QED
    BY <1>2, <1>3, <2>1, <2>3, <2>4 DEF CountInv
<1> QED
  BY <1>5, <1>6, <1>7, <1>8

LEMMA RejectClaimInv ==
  ASSUME BudgetInv, NEW c \in Caller, RejectClaim(c)
  PROVE  BudgetInv'
<1> USE DEF BudgetInv
<1>1. /\ caller' \in [Caller -> CallerPlace] /\ caller[c] = "claiming" /\ caller'[c] = "idle"
      /\ \A d \in Caller : d # c => caller'[d] = caller[d]
  BY CallerMoves DEF RejectClaim, CallerPlace
<1>2. incrementChain # <<>> /\ Head(incrementChain) = c /\ incrementChain' = Tail(incrementChain)
  BY DEF RejectClaim, IsFirst, LeaveChain
<1>3. incrementChain' \in Seq(Caller)
  BY <1>2, Shorter DEF BudgetTypeOK
<1>4. BudgetTypeOK'
  BY <1>1, <1>3 DEF RejectClaim, BudgetTypeOK
<1>5. ChainInv'
  BY ChainShrinks, <1>1, <1>2
<1>6. QueueInv'
  BY <1>1 DEF QueueInv, RejectClaim
<1>7. CountInv'
  BY <1>1 DEF CountInv, RejectClaim, Counted
<1> QED
  BY <1>4, <1>5, <1>6, <1>7

LEMMA AnnounceInvocationInv ==
  ASSUME BudgetInv, NEW c \in Caller, AnnounceInvocation(c)
  PROVE  BudgetInv'
<1> USE DEF BudgetInv
<1>1. /\ caller' \in [Caller -> CallerPlace] /\ caller[c] = "saved" /\ caller'[c] = "invoking"
      /\ \A d \in Caller : d # c => caller'[d] = caller[d]
  BY CallerMoves DEF AnnounceInvocation, CallerPlace
<1>2. Counted(c) /\ IsFirst(c)
  BY <1>1 DEF Counted, ChainInv
<1>3. incrementChain # <<>> /\ Head(incrementChain) = c /\ incrementChain' = Tail(incrementChain)
  BY <1>2 DEF AnnounceInvocation, IsFirst, LeaveChain
<1>4. /\ saved = agentInvocations /\ tracking
      /\ Len(announced) < agentInvocations /\ \A i \in DOMAIN announced : announced[i] < agentInvocations
  BY <1>1, <1>2 DEF CountInv
<1>5. /\ announced \in Seq(1..MaxAgentInvocations) /\ Len(announced) \in Nat
      /\ agentInvocations \in 1..MaxAgentInvocations
      /\ announced' = Append(announced, agentInvocations)
  BY <1>4, BudgetAssumption DEF BudgetTypeOK, BudgetAssumption, AnnounceInvocation
<1>6. /\ announced' \in Seq(1..MaxAgentInvocations) /\ Len(announced') = Len(announced) + 1
      /\ Len(announced) + 1 \in DOMAIN announced' /\ announced'[Len(announced) + 1] = agentInvocations
      /\ \A i \in DOMAIN announced : announced'[i] = announced[i]
      /\ \A i \in DOMAIN announced' : i # Len(announced) + 1 => i \in DOMAIN announced
  BY <1>5, Longer
<1>7. incrementChain' \in Seq(Caller)
  BY <1>3, Shorter DEF BudgetTypeOK
<1>8. BudgetTypeOK'
  BY <1>1, <1>6, <1>7 DEF AnnounceInvocation, BudgetTypeOK
<1>9. ChainInv'
  BY ChainShrinks, <1>1, <1>3
<1>10. QueueInv'
  BY <1>1 DEF QueueInv, AnnounceInvocation
<1>11. CountInv'
  <2>1. UNCHANGED <<saved, agentInvocations, tracking>> /\ saved \in Int
    BY DEF AnnounceInvocation, BudgetTypeOK
  <2>2. \A d \in Caller : ~Counted(d)'
    BY <1>1, <1>2, FirstAlone DEF Counted
  <2>3. Len(announced') <= saved'
    BY <1>4, <1>5, <1>6, <2>1
  <2>4. \A i \in DOMAIN announced : i \in Int /\ i <= Len(announced) /\ announced[i] \in Int
    BY <1>5, BudgetAssumption DEF BudgetAssumption
  <2>5. \A i \in DOMAIN announced' : announced'[i] <= saved'
    BY <1>4, <1>6, <2>1, <2>4
  <2>6. \A i, j \in DOMAIN announced' : i < j => announced'[i] < announced'[j]
    <3> SUFFICES ASSUME NEW i \in DOMAIN announced', NEW j \in DOMAIN announced', i < j
                 PROVE  announced'[i] < announced'[j]
      OBVIOUS
    <3>1. CASE j = Len(announced) + 1
      BY <1>4, <1>5, <1>6, <3>1
    <3>2. CASE j # Len(announced) + 1
      <4>1. j \in DOMAIN announced /\ j <= Len(announced)
        BY <1>6, <2>4, <3>2
      <4>2. i # Len(announced) + 1
        BY <1>5, <2>4, <4>1
      <4> QED
        BY <1>6, <4>1, <4>2 DEF CountInv
    <3> QED
      BY <3>1, <3>2
  <2> QED
    BY <1>4, <2>1, <2>2, <2>3, <2>5, <2>6 DEF CountInv, Counted
<1> QED
  BY <1>8, <1>9, <1>10, <1>11

LEMMA AfterInvocationInv ==
  ASSUME BudgetInv, NEW c \in Caller, AfterInvocation(c)
  PROVE  BudgetInv'
<1> USE DEF BudgetInv
<1>1. /\ caller' \in [Caller -> CallerPlace] /\ caller[c] = "invoking" /\ caller'[c] = "reporting"
      /\ \A d \in Caller : d # c => caller'[d] = caller[d]
  BY CallerMoves DEF AfterInvocation, CallerPlace
<1>2. /\ tracking /\ agentInvocations' = agentInvocations /\ agentInvocations \in Nat
      /\ agentInvocations' \in 0..MaxAgentInvocations
      /\ saved' = saved /\ saved <= agentInvocations' /\ Save(agentInvocations', c)
  BY <1>1, BudgetAssumption DEF CountInv, AfterInvocation, BudgetTypeOK, BudgetAssumption
<1>3. QueueInv' /\ saveQueue' \in Seq(SaveRequest)
  BY QueueGrows, <1>1, <1>2
<1>4. BudgetTypeOK'
  BY <1>1, <1>2, <1>3 DEF AfterInvocation, BudgetTypeOK, SaveRequest
<1>5. ChainInv'
  BY ChainStays, <1>1 DEF AfterInvocation, Waits, Counted, ChainInv
<1>6. CountInv'
  BY <1>1, <1>2 DEF CountInv, AfterInvocation, Counted
<1> QED
  BY <1>3, <1>4, <1>5, <1>6

LEMMA WorkflowSavesInv ==
  ASSUME BudgetInv, WorkflowSaves
  PROVE  BudgetInv'
<1> USE DEF BudgetInv
<1>1. /\ tracking /\ agentInvocations' = agentInvocations /\ agentInvocations \in Nat
      /\ agentInvocations' \in 0..MaxAgentInvocations
      /\ saved' = saved /\ saved <= agentInvocations' /\ Save(agentInvocations', Workflow)
  BY BudgetAssumption DEF CountInv, WorkflowSaves, BudgetTypeOK, BudgetAssumption
<1>2. Workflow \notin Caller /\ caller' = caller
  BY CallerAssumption DEF CallerAssumption, WorkflowSaves
<1>3. QueueInv' /\ saveQueue' \in Seq(SaveRequest)
  BY QueueGrows, <1>1, <1>2
<1>4. BudgetTypeOK'
  BY <1>1, <1>3 DEF WorkflowSaves, BudgetTypeOK, SaveRequest
<1>5. ChainInv'
  BY DEF ChainInv, WorkflowSaves, Counted, IsFirst
<1>6. CountInv'
  BY <1>1 DEF CountInv, WorkflowSaves, Counted
<1> QED
  BY <1>3, <1>4, <1>5, <1>6

LEMMA FirstSave ==
  ASSUME BudgetTypeOK, QueueInv, saveQueue # <<>>
  PROVE  /\ Head(saveQueue).by \in Caller \union {Workflow}
         /\ Head(saveQueue).invocations \in 0..MaxAgentInvocations
         /\ saved <= Head(saveQueue).invocations /\ Head(saveQueue).invocations <= agentInvocations
         /\ \A c \in Caller : c = Head(saveQueue).by =>
              /\ caller[c] \in {"saving", "reporting"}
              /\ caller[c] = "saving" => Head(saveQueue).invocations = agentInvocations
<1>1. saveQueue \in Seq(SaveRequest)
  BY DEF SaveRequest, BudgetTypeOK
<1>2. 1 \in DOMAIN saveQueue /\ Head(saveQueue) = saveQueue[1] /\ Head(saveQueue) \in SaveRequest
  BY <1>1, Shorter
<1> QED
  BY <1>2 DEF QueueInv, SaveRequest

LEMMA WriteStateInv ==
  ASSUME BudgetInv, WriteState
  PROVE  BudgetInv'
<1> USE DEF BudgetInv
<1> DEFINE by == Head(saveQueue).by
           invocations == Head(saveQueue).invocations
<1>1. /\ saveQueue # <<>> /\ saved' = invocations /\ saveQueue' = Tail(saveQueue)
      /\ UNCHANGED <<agentInvocations, incrementChain, announced, tracking, budgetFailures>>
  BY DEF WriteState
<1>2. /\ by \in Caller \union {Workflow} /\ invocations \in 0..MaxAgentInvocations
      /\ saved <= invocations /\ invocations <= agentInvocations
      /\ \A c \in Caller : c = by => /\ caller[c] \in {"saving", "reporting"}
                                     /\ caller[c] = "saving" => invocations = agentInvocations
  BY <1>1, FirstSave
<1>3. /\ caller' \in [Caller -> CallerPlace]
      /\ \A c \in Caller : c # by => caller'[c] = caller[c]
      /\ \A c \in Caller : c = by => caller'[c] = IF caller[c] = "saving" THEN "saved" ELSE "idle"
  BY DEF WriteState, BudgetTypeOK, CallerPlace
<1>4. QueueInv' /\ saveQueue' \in Seq(SaveRequest)
  BY QueueShrinks, <1>1, <1>3
<1> HIDE DEF by, invocations
<1>5. BudgetTypeOK'
  BY <1>1, <1>2, <1>3, <1>4 DEF BudgetTypeOK, SaveRequest
<1>6. \A c \in Caller : Counted(c)' => Counted(c)
  BY <1>2, <1>3 DEF Counted
<1>7. \A c \in Caller : Waits(c)' <=> Waits(c)
  BY <1>2, <1>3 DEF Waits
<1>8. ChainInv'
  BY ChainStays, <1>1, <1>6, <1>7 DEF ChainInv
<1>9. CountInv'
  <2>1. /\ agentInvocations \in Int /\ saved \in Int /\ invocations \in Int /\ Len(announced) \in Int
        /\ \A i \in DOMAIN announced : announced[i] \in Int
    BY <1>2, BudgetAssumption DEF BudgetTypeOK, BudgetAssumption
  <2>2. tracking
    BY <1>1 DEF CountInv
  <2>3. \A c \in Caller : caller'[c] = "saved" => saved' = agentInvocations'
    BY <1>1, <1>2, <1>3, <2>1, <2>2 DEF CountInv
  <2>4. Len(announced) <= invocations /\ \A i \in DOMAIN announced : announced[i] <= invocations
    BY <1>2, <2>1 DEF CountInv
  <2> QED
    BY <1>1, <1>2, <1>6, <2>2, <2>3, <2>4 DEF CountInv, Counted
<1> QED
  BY <1>4, <1>5, <1>8, <1>9

LEMMA FailSaveInv ==
  ASSUME BudgetInv, FailSave
  PROVE  BudgetInv'
<1> USE DEF BudgetInv
<1> DEFINE by == Head(saveQueue).by
<1>1. /\ saveQueue # <<>> /\ saveQueue' = Tail(saveQueue)
      /\ saved' \in {saved, Head(saveQueue).invocations}
      /\ UNCHANGED <<agentInvocations, announced, tracking>>
      /\ budgetFailures' \in 0..MaxBudgetFailures
  BY BudgetAssumption DEF FailSave, BudgetTypeOK, BudgetAssumption
<1>2. /\ by \in Caller \union {Workflow} /\ saved' \in 0..MaxAgentInvocations
      /\ saved <= saved' /\ saved' <= agentInvocations
      /\ \A c \in Caller : c = by => caller[c] \in {"saving", "reporting"}
  BY <1>1, FirstSave, BudgetAssumption DEF BudgetTypeOK, BudgetAssumption
<1>3. /\ caller' \in [Caller -> CallerPlace]
      /\ \A c \in Caller : c # by => caller'[c] = caller[c]
      /\ \A c \in Caller : c = by => caller'[c] = "idle"
  BY DEF FailSave, BudgetTypeOK, CallerPlace
<1>4. QueueInv' /\ saveQueue' \in Seq(SaveRequest)
  BY QueueShrinks, <1>1, <1>3
<1>5. ChainInv' /\ incrementChain' \in Seq(Caller)
  <2>1. CASE \E c \in Caller : c = by /\ caller[c] = "saving"
    <3>1. by \in Caller /\ Counted(by)
      BY <2>1 DEF Counted
    <3>2. incrementChain # <<>> /\ Head(incrementChain) = by
      BY <3>1 DEF ChainInv, IsFirst
    <3>3. incrementChain' = Tail(incrementChain)
      BY <2>1 DEF FailSave
    <3>4. incrementChain' \in Seq(Caller)
      BY <3>2, <3>3, Shorter DEF BudgetTypeOK
    <3>5. caller'[Head(incrementChain)] \notin {"claiming", "saving", "saved"}
      BY <1>3, <3>1, <3>2
    <3>6. \A c \in Caller : c # Head(incrementChain) => caller'[c] = caller[c]
      BY <1>3, <3>2
    <3> QED
      BY ChainShrinks, <3>2, <3>3, <3>4, <3>5, <3>6
  <2>2. CASE ~ \E c \in Caller : c = by /\ caller[c] = "saving"
    <3>1. incrementChain' = incrementChain
      BY <2>2 DEF FailSave
    <3>2. \A c \in Caller : Waits(c)' <=> Waits(c)
      BY <1>2, <1>3, <2>2 DEF Waits
    <3>3. \A c \in Caller : Counted(c)' => IsFirst(c)
      BY <1>3 DEF Counted, ChainInv
    <3> QED
      BY ChainStays, <3>1, <3>2, <3>3 DEF BudgetTypeOK
  <2> QED
    BY <2>1, <2>2
<1> HIDE DEF by
<1>6. BudgetTypeOK'
  BY <1>1, <1>2, <1>3, <1>4, <1>5 DEF BudgetTypeOK, SaveRequest
<1>7. CountInv'
  <2>1. /\ agentInvocations \in Int /\ saved \in Int /\ saved' \in Int /\ Len(announced) \in Int
        /\ \A i \in DOMAIN announced : announced[i] \in Int
    BY <1>2, BudgetAssumption DEF BudgetTypeOK, BudgetAssumption
  <2>2. tracking
    BY <1>1 DEF CountInv
  <2>3. \A c \in Caller : caller'[c] = "saved" => saved' = agentInvocations'
    BY <1>1, <1>2, <1>3, <2>1, <2>2 DEF CountInv
  <2>4. Len(announced) <= saved' /\ \A i \in DOMAIN announced : announced[i] <= saved'
    BY <1>2, <2>1 DEF CountInv
  <2> QED
    BY <1>1, <1>2, <1>3, <2>2, <2>3, <2>4 DEF CountInv, Counted
<1> QED
  BY <1>4, <1>5, <1>6, <1>7

LEMMA LoseTrackerInv ==
  ASSUME BudgetInv, LoseTracker
  PROVE  BudgetInv'
<1> USE DEF BudgetInv
<1>1. /\ ~tracking' /\ saveQueue' = <<>> /\ incrementChain' = <<>> /\ agentInvocations' = 0
      /\ caller' \in [Caller -> CallerPlace] /\ \A c \in Caller : caller'[c] = "idle"
      /\ UNCHANGED <<saved, announced>> /\ budgetFailures' \in 0..MaxBudgetFailures
  BY BudgetAssumption DEF LoseTracker, BudgetTypeOK, CallerPlace, BudgetAssumption
<1>2. BudgetTypeOK'
  <2>1. agentInvocations' \in 0..MaxAgentInvocations
    BY <1>1, BudgetAssumption DEF BudgetAssumption
  <2>2. tracking' \in BOOLEAN
    BY DEF LoseTracker
  <2>3. saveQueue' \in Seq([invocations : 0..MaxAgentInvocations, by : Caller \union {Workflow}])
    BY <1>1
  <2>4. incrementChain' \in Seq(Caller)
    BY <1>1
  <2> QED
    BY <1>1, <2>1, <2>2, <2>3, <2>4 DEF BudgetTypeOK
<1>3. ChainInv' /\ QueueInv'
  BY <1>1 DEF ChainInv, QueueInv, Counted
<1>4. CountInv'
  BY <1>1 DEF CountInv, Counted
<1> QED
  BY <1>2, <1>3, <1>4

LEMMA ResumeTrackingInv ==
  ASSUME BudgetInv, ResumeTracking
  PROVE  BudgetInv'
<1> USE DEF BudgetInv
<1>1. /\ saveQueue' = <<>> /\ incrementChain' = <<>> /\ \A c \in Caller : caller'[c] = "idle"
      /\ tracking' /\ agentInvocations' = saved
      /\ UNCHANGED <<saved, caller, announced, budgetFailures>>
  BY DEF CountInv, ResumeTracking
<1>2. BudgetTypeOK'
  BY <1>1, BudgetAssumption DEF ResumeTracking, BudgetTypeOK, BudgetAssumption
<1>3. ChainInv' /\ QueueInv'
  BY <1>1 DEF ChainInv, QueueInv, Counted
<1>4. CountInv'
  BY <1>1 DEF CountInv, Counted, BudgetTypeOK
<1> QED
  BY <1>2, <1>3, <1>4

LEMMA BudgetStepInv == BudgetInv /\ [BudgetNext]_budgetVars => BudgetInv'
<1> SUFFICES ASSUME BudgetInv, [BudgetNext]_budgetVars PROVE BudgetInv'
  OBVIOUS
<1>1. CASE \E c \in Caller : \/ BeforeInvocation(c) \/ Claim(c) \/ RejectClaim(c)
                             \/ AnnounceInvocation(c) \/ AfterInvocation(c)
  BY <1>1, BeforeInvocationInv, ClaimInv, RejectClaimInv, AnnounceInvocationInv, AfterInvocationInv
<1>2. CASE WorkflowSaves \/ WriteState \/ FailSave \/ LoseTracker \/ ResumeTracking
  BY <1>2, WorkflowSavesInv, WriteStateInv, FailSaveInv, LoseTrackerInv, ResumeTrackingInv
<1>3. CASE UNCHANGED budgetVars
  BY <1>3 DEF budgetVars, BudgetInv, BudgetTypeOK, ChainInv, QueueInv, CountInv, Counted, IsFirst
<1> QED
  BY <1>1, <1>2, <1>3 DEF BudgetNext

(***************************************************************************)
(* Every reachable state of a run's budget satisfies the invariant.        *)
(***************************************************************************)
THEOREM BudgetInvariance == BudgetSpec => []BudgetInv
BY BudgetInitInv, BudgetStepInv, PTL DEF BudgetSpec

(***************************************************************************)
(* The count never passes the limit of the strategy, in memory, in a save  *)
(* under way, on the disk or in an event (serializeInvocationNumber).      *)
(***************************************************************************)
THEOREM BudgetTypeCorrect == BudgetSpec => []BudgetTypeOK
<1>1. BudgetInv => BudgetTypeOK
  BY DEF BudgetInv
<1> QED
  BY <1>1, BudgetInvariance, PTL

(***************************************************************************)
(* No two invocations of a run have one number, none lies beyond the limit *)
(* and none is lost from the count a resume starts from, for any number of *)
(* agents, failed saves and deaths of the service.                         *)
(***************************************************************************)
THEOREM BudgetHolds == BudgetSpec => []WithinBudget
<1>1. BudgetInv => WithinBudget
  <2> SUFFICES ASSUME BudgetInv PROVE WithinBudget
    OBVIOUS
  <2>1. saved \in Int /\ saved <= MaxAgentInvocations /\ MaxAgentInvocations \in Nat /\ Len(announced) \in Int
    BY BudgetAssumption DEF BudgetInv, BudgetTypeOK, BudgetAssumption
  <2>2. Len(announced) <= MaxAgentInvocations
    BY <2>1 DEF BudgetInv, CountInv
  <2> QED
    BY <2>2 DEF BudgetInv, CountInv, WithinBudget
<1> QED
  BY <1>1, BudgetInvariance, PTL

-----------------------------------------------------------------------------
(***************************************************************************)
(* The intake: a run that is active, or recorded, holds the claim of its   *)
(* command, and a started trigger stays with its ticket; an executing run  *)
(* holds the running assignment of its ticket until it settles itself.     *)
(***************************************************************************)

(* What an active run was started with. *)
ActiveInv ==
  \A r \in Run :
    /\ Active(r) \/ record[r] # Nothing => request[r] # Nothing
    /\ workflow[r] = "binding" => request[r].start.ticketId # Nothing
    /\ bookkeeping[r] = "attach" => tickets[r] # Nothing

(* Who executes for a ticket holds its assignment, and holds it alone. *)
AssignmentInv ==
  /\ \A r \in Run :
       workflow[r] = "executing" /\ request[r].start.ticketId # Nothing
         => /\ tickets[request[r].start.ticketId] # Nothing
            /\ tickets[request[r].start.ticketId].assignments[r] = "running"
  /\ \A t \in Ticket : tickets[t] # Nothing =>
       \A r, s \in Run : r \in RunningAssignment(t) /\ s \in RunningAssignment(t) => r = s

(* The command of an active or recorded run is claimed by that run. *)
RecordedInv ==
  \A r \in Run :
    (Active(r) \/ record[r] # Nothing) /\ request[r].key # Nothing
      => claims[request[r].key] # Nothing /\ claims[request[r].key].run = r

(* A started trigger is no longer admitted; both are triggers of the ticket. *)
TriggerInv ==
  /\ \A t \in admitted : tickets[ThreadOf[t]] # Nothing /\ t \in tickets[ThreadOf[t]].triggerIds
  /\ \A r \in Run : request[r] # Nothing /\ request[r].trigger # Nothing =>
       /\ request[r].trigger \notin admitted
       /\ tickets[ThreadOf[request[r].trigger]] # Nothing
       /\ request[r].trigger \in tickets[ThreadOf[request[r].trigger]].triggerIds
       /\ \A s \in Run : request[s] # Nothing /\ request[s].trigger = request[r].trigger => r = s

IntakeInv == IntakeTypeOK /\ ActiveInv /\ AssignmentInv /\ RecordedInv /\ TriggerInv

-----------------------------------------------------------------------------
(***************************************************************************)
(* Tickets under the operations on them.                                   *)
(***************************************************************************)
LEMMA TypedState ==
  ASSUME IntakeTypeOK
  PROVE  /\ \A t \in Ticket : tickets[t] # Nothing =>
              /\ tickets[t] \in TicketRecord /\ tickets[t].triggerIds \subseteq Trigger
              /\ tickets[t].assignments \in [Run -> {"none", "running", "ended"}]
         /\ \A r \in Run : request[r] # Nothing =>
              /\ request[r] \in StartedRun /\ request[r].start \in StartRequest
              /\ request[r].start.ticketId \in Ticket \union {Nothing}
              /\ request[r].start.parentRunId \in Run \union {Nothing}
              /\ request[r].key \in Key \union {Nothing}
              /\ request[r].trigger \in Trigger \union {Nothing}
         /\ \A r \in Run : record[r] # Nothing => record[r] \in RunRecord
         /\ \A t \in Trigger : ThreadOf[t] \in Ticket
BY ThreadAssumption DEF IntakeTypeOK, TicketRecord, StartedRun, StartRequest, Ticket, ThreadAssumption

LEMMA AssignedTicket ==
  ASSUME IntakeTypeOK, NEW t \in Ticket, tickets[t] # Nothing, NEW r \in Run, tickets' = Assigned(t, r)
  PROVE  /\ tickets' \in [Ticket -> {Nothing} \union TicketRecord]
         /\ \A u \in Ticket : u # t => tickets'[u] = tickets[u]
         /\ tickets'[t] # Nothing /\ tickets'[t].triggerIds = tickets[t].triggerIds
         /\ \A s \in Run : tickets'[t].assignments[s] = IF s = r THEN "running" ELSE tickets[t].assignments[s]
<1>1. tickets[t] \in TicketRecord
  BY DEF IntakeTypeOK
<1>2. /\ tickets'[t] \in TicketRecord /\ tickets'[t].triggerIds = tickets[t].triggerIds
      /\ \A s \in Run : tickets'[t].assignments[s] = IF s = r THEN "running" ELSE tickets[t].assignments[s]
  BY <1>1 DEF IntakeTypeOK, Assigned, TicketRecord
<1>3. \A u \in Ticket : u # t => tickets'[u] = tickets[u]
  BY DEF IntakeTypeOK, Assigned
<1>4. tickets' \in [Ticket -> {Nothing} \union TicketRecord]
  BY <1>2, <1>3 DEF IntakeTypeOK, Assigned
<1> QED
  BY <1>2, <1>3, <1>4, NothingAssumption DEF NothingAssumption

LEMMA EndedTicket ==
  ASSUME IntakeTypeOK, NEW t \in Ticket, tickets[t] # Nothing, NEW r \in Run, tickets' = Ended(t, {r})
  PROVE  /\ tickets' \in [Ticket -> {Nothing} \union TicketRecord]
         /\ \A u \in Ticket : u # t => tickets'[u] = tickets[u]
         /\ tickets'[t] # Nothing /\ tickets'[t].triggerIds = tickets[t].triggerIds
         /\ \A s \in Run : s # r => tickets'[t].assignments[s] = tickets[t].assignments[s]
         /\ tickets'[t].assignments[r] # "running"
<1>1. tickets[t] \in TicketRecord
  BY DEF IntakeTypeOK
<1>2. /\ tickets'[t] \in TicketRecord /\ tickets'[t].triggerIds = tickets[t].triggerIds
      /\ \A s \in Run : tickets'[t].assignments[s] =
           IF s = r /\ tickets[t].assignments[s] = "running" THEN "ended" ELSE tickets[t].assignments[s]
  BY <1>1 DEF IntakeTypeOK, Ended, TicketRecord
<1>3. \A u \in Ticket : u # t => tickets'[u] = tickets[u]
  BY DEF IntakeTypeOK, Ended
<1>4. tickets' \in [Ticket -> {Nothing} \union TicketRecord]
  BY <1>2, <1>3 DEF IntakeTypeOK, Ended
<1> QED
  BY <1>2, <1>3, <1>4, NothingAssumption DEF NothingAssumption

LEMMA OpenedTicket ==
  ASSUME NEW triggers \in SUBSET Trigger
  PROVE  /\ NewTicket(triggers) \in TicketRecord /\ NewTicket(triggers) # Nothing
         /\ NewTicket(triggers).triggerIds = triggers
         /\ \A r \in Run : NewTicket(triggers).assignments[r] = "none"
<1>1. NewTicket(triggers) \in TicketRecord
  BY DEF NewTicket, TicketRecord
<1> QED
  BY <1>1, NothingAssumption DEF NewTicket, NothingAssumption

(***************************************************************************)
(* What a step that only adds to the tickets leaves of the invariant.      *)
(***************************************************************************)
TicketsGrow ==
  \A t \in Ticket : tickets[t] # Nothing =>
    tickets'[t] # Nothing /\ tickets[t].triggerIds \subseteq tickets'[t].triggerIds

LEMMA TriggersKept ==
  ASSUME IntakeTypeOK, TriggerInv, TicketsGrow, request' = request, admitted' \subseteq admitted
  PROVE  TriggerInv'
<1>1. \A t \in admitted : ThreadOf[t] \in Ticket
  BY TypedState DEF IntakeTypeOK
<1>2. \A r \in Run : request[r] # Nothing /\ request[r].trigger # Nothing => ThreadOf[request[r].trigger] \in Ticket
  BY TypedState
<1> QED
  BY <1>1, <1>2 DEF TriggerInv, TicketsGrow

LEMMA ClaimsKept ==
  ASSUME RecordedInv, claims' = claims, request' = request,
         \A r \in Run : Active(r)' \/ record'[r] # Nothing => Active(r) \/ record[r] # Nothing
  PROVE  RecordedInv'
BY DEF RecordedInv

LEMMA AssignmentsKept ==
  ASSUME AssignmentInv, tickets' = tickets, request' = request,
         \A r \in Run : workflow'[r] = "executing" => workflow[r] = "executing" \/ request[r].start.ticketId = Nothing
  PROVE  AssignmentInv'
BY DEF AssignmentInv, RunningAssignment

-----------------------------------------------------------------------------
(***************************************************************************)
(* Admission and start.                                                    *)
(***************************************************************************)
LEMMA IntakeInitInv == IntakeInit => IntakeInv
<1> SUFFICES ASSUME IntakeInit PROVE IntakeInv
  OBVIOUS
<1>1. IntakeTypeOK
  BY IntakeAssumption DEF IntakeInit, IntakeTypeOK, Place, IntakeAssumption
<1>2. ActiveInv /\ AssignmentInv /\ RecordedInv /\ TriggerInv
  BY DEF IntakeInit, ActiveInv, AssignmentInv, RecordedInv, TriggerInv, Active
<1> QED
  BY <1>1, <1>2 DEF IntakeInv

LEMMA AdmitInv ==
  ASSUME IntakeInv, NEW t \in Trigger, Admit(t)
  PROVE  IntakeInv'
<1> USE DEF IntakeInv
<1> DEFINE thread == ThreadOf[t]
<1>1. thread \in Ticket
  BY TypedState
<1>2. ASSUME tickets[thread] = Nothing
      PROVE  /\ tickets' \in [Ticket -> {Nothing} \union TicketRecord] /\ TicketsGrow /\ AssignmentInv'
             /\ tickets'[thread] # Nothing /\ t \in tickets'[thread].triggerIds
  <2>1. /\ tickets' \in [Ticket -> {Nothing} \union TicketRecord]
        /\ tickets'[thread] = NewTicket({t})
        /\ \A u \in Ticket : u # thread => tickets'[u] = tickets[u]
    BY <1>1, <1>2, OpenedTicket DEF Admit, IntakeTypeOK
  <2>2. tickets'[thread] # Nothing /\ t \in tickets'[thread].triggerIds
        /\ \A r \in Run : tickets'[thread].assignments[r] = "none"
    BY <2>1, OpenedTicket
  <2>3. TicketsGrow
    BY <1>2, <2>1 DEF TicketsGrow
  <2>4. AssignmentInv'
    <3>1. \A r \in Run : request[r] # Nothing => request[r].start.ticketId \in Ticket \union {Nothing}
      BY TypedState
    <3>2. \A r \in Run : workflow[r] = "executing" => request[r] # Nothing
      BY DEF ActiveInv, Active
    <3> QED
      BY <1>2, <2>1, <2>2, <3>1, <3>2, ZenonT(40) DEF Admit, AssignmentInv, RunningAssignment
  <2> QED
    BY <2>1, <2>2, <2>3, <2>4
<1>3. ASSUME tickets[thread] # Nothing
      PROVE  /\ tickets' \in [Ticket -> {Nothing} \union TicketRecord] /\ TicketsGrow /\ AssignmentInv'
             /\ tickets'[thread] # Nothing /\ t \in tickets'[thread].triggerIds
  <2>1. tickets[thread] \in TicketRecord
    BY <1>1, <1>3, TypedState
  <2>2. /\ tickets'[thread] \in TicketRecord
        /\ tickets'[thread].triggerIds = tickets[thread].triggerIds \union {t}
        /\ tickets'[thread].assignments = tickets[thread].assignments
        /\ \A u \in Ticket : u # thread => tickets'[u] = tickets[u]
    <3>1. /\ tickets'[thread] = Accepted(tickets[thread], t)
          /\ \A u \in Ticket : u # thread => tickets'[u] = tickets[u]
      BY <1>1, <1>3 DEF Admit, IntakeTypeOK
    <3> QED
      BY <2>1, <3>1 DEF Accepted, TicketRecord
  <2>3. tickets' \in [Ticket -> {Nothing} \union TicketRecord]
    BY <1>1, <2>2 DEF Admit, IntakeTypeOK
  <2>4. tickets'[thread] # Nothing
    BY <2>2, NothingAssumption DEF NothingAssumption
  <2>5. TicketsGrow
    BY <2>2, <2>4 DEF TicketsGrow
  <2>6. AssignmentInv'
    <3>1. \A u \in Ticket : /\ tickets'[u] # Nothing <=> tickets[u] # Nothing
                            /\ tickets[u] # Nothing => tickets'[u].assignments = tickets[u].assignments
      BY <1>3, <2>2, <2>4
    <3>2. \A r \in Run : request[r] # Nothing => request[r].start.ticketId \in Ticket \union {Nothing}
      BY TypedState
    <3>3. \A r \in Run : workflow[r] = "executing" => request[r] # Nothing
      BY DEF ActiveInv, Active
    <3> QED
      BY <3>1, <3>2, <3>3, ZenonT(40) DEF Admit, AssignmentInv, RunningAssignment
  <2> QED
    BY <2>2, <2>3, <2>4, <2>5, <2>6
<1>4. /\ tickets' \in [Ticket -> {Nothing} \union TicketRecord] /\ TicketsGrow /\ AssignmentInv'
      /\ tickets'[thread] # Nothing /\ t \in tickets'[thread].triggerIds
  BY <1>2, <1>3
<1>5. UNCHANGED <<claims, record, request, workflow, bookkeeping, serving, deaths>> /\ admitted' = admitted \union {t}
  BY DEF Admit
<1>6. IntakeTypeOK'
  BY <1>4, <1>5 DEF IntakeTypeOK
<1>7. ActiveInv'
  BY <1>4, <1>5 DEF ActiveInv, Active, TicketsGrow, Ticket
<1>8. RecordedInv'
  BY <1>5, ClaimsKept DEF Active
<1>9. TriggerInv'
  <2>1. \A u \in admitted : ThreadOf[u] \in Ticket
    BY TypedState DEF IntakeTypeOK
  <2>2. \A r \in Run : request[r] # Nothing /\ request[r].trigger # Nothing => ThreadOf[request[r].trigger] \in Ticket
    BY TypedState
  <2>3. tickets[thread] # Nothing => t \notin tickets[thread].triggerIds
    BY DEF Admit
  <2>4. \A r \in Run : request[r] # Nothing /\ request[r].trigger # Nothing => request[r].trigger # t
    BY <2>3 DEF TriggerInv
  <2> QED
    BY <1>4, <1>5, <2>1, <2>2, <2>4 DEF TriggerInv, TicketsGrow
<1> QED
  BY <1>4, <1>6, <1>7, <1>8, <1>9

LEMMA NewRun ==
  ASSUME IntakeInv, NEW r \in Run, NextRun(r)
  PROVE  request[r] = Nothing /\ record[r] = Nothing /\ ~Active(r)
<1>1. r \in Int
  BY IntakeAssumption DEF Run, IntakeAssumption
<1>2. request[r] = Nothing
  BY <1>1 DEF NextRun
<1> QED
  BY <1>2 DEF IntakeInv, ActiveInv

LEMMA LaunchInv ==
  ASSUME IntakeInv, NEW r \in Run, NEW start \in StartRequest, NEW key \in Key \union {Nothing},
         NEW trigger \in admitted \union {Nothing},
         Launch(r, start, key, trigger), Claimed(key, start, r), admitted' = admitted \ {trigger},
         UNCHANGED <<tickets, record, serving, deaths>>
  PROVE  IntakeInv'
<1> USE DEF IntakeInv
<1> DEFINE started == [start |-> start, key |-> key, trigger |-> trigger]
<1>1. request[r] = Nothing /\ record[r] = Nothing /\ ~Active(r)
  BY NewRun DEF Launch
<1>2. started \in StartedRun /\ started # Nothing
  BY NothingAssumption DEF StartedRun, IntakeTypeOK, NothingAssumption
<1>3. /\ request' \in [Run -> {Nothing} \union StartedRun] /\ request'[r] = started
      /\ \A s \in Run : s # r => request'[s] = request[s]
  BY <1>2 DEF Launch, IntakeTypeOK
<1>4. /\ workflow' \in [Run -> Place] /\ bookkeeping' \in [Run -> {"none", "ensure", "attach", "done"}]
      /\ workflow'[r] = IF start.ticketId = Nothing THEN "executing" ELSE "binding"
      /\ bookkeeping'[r] \in {"ensure", "none"}
      /\ \A s \in Run : s # r => workflow'[s] = workflow[s] /\ bookkeeping'[s] = bookkeeping[s]
  BY DEF Launch, IntakeTypeOK, Place
<1>5. started.start = start /\ started.key = key /\ started.trigger = trigger
  OBVIOUS
<1> HIDE DEF started
<1>6. /\ claims' \in [Key -> {Nothing} \union CommandClaim]
      /\ key # Nothing => claims[key] = Nothing /\ claims'[key] # Nothing /\ claims'[key].run = r
      /\ \A k \in Key : k # key => claims'[k] = claims[k]
  <2>1. CASE key = Nothing
    BY <2>1 DEF Claimed, IntakeTypeOK
  <2>2. CASE key # Nothing
    <3>1. Hash(start) \in Run \union {Nothing}
      BY DEF Hash, StartRequest
    <3>2. /\ [hash |-> Hash(start), run |-> r] \in CommandClaim /\ [hash |-> Hash(start), run |-> r] # Nothing
      BY <3>1, NothingAssumption DEF CommandClaim, NothingAssumption
    <3> QED
      BY <2>2, <3>2 DEF Claimed, IntakeTypeOK
  <2> QED
    BY <2>1, <2>2
<1>7. IntakeTypeOK'
  BY <1>3, <1>4, <1>6 DEF IntakeTypeOK
<1>8. ActiveInv'
  BY <1>1, <1>2, <1>3, <1>4, <1>5 DEF ActiveInv, Active
<1>9. AssignmentInv'
  BY <1>3, <1>4, <1>5 DEF AssignmentInv, RunningAssignment
<1>10. RecordedInv'
  <2> SUFFICES ASSUME NEW s \in Run, Active(s)' \/ record'[s] # Nothing, request'[s].key # Nothing
               PROVE  claims'[request'[s].key] # Nothing /\ claims'[request'[s].key].run = s
    BY DEF RecordedInv
  <2>1. CASE s = r
    BY <1>3, <1>5, <1>6, <2>1
  <2>2. CASE s # r
    <3>1. (Active(s) \/ record[s] # Nothing) /\ request'[s] = request[s]
      BY <1>3, <1>4, <2>2 DEF Active
    <3>2. request[s] # Nothing /\ request[s].key \in Key
      BY <3>1, TypedState DEF ActiveInv
    <3>3. claims[request[s].key] # Nothing /\ claims[request[s].key].run = s
      BY <3>1 DEF RecordedInv
    <3>4. request[s].key # key
      BY <1>6, <3>2, <3>3 DEF Key
    <3> QED
      BY <1>6, <3>1, <3>2, <3>3, <3>4
  <2> QED
    BY <2>1, <2>2
<1>11. TriggerInv'
  <2>1. \A t \in admitted' : tickets[ThreadOf[t]] # Nothing /\ t \in tickets[ThreadOf[t]].triggerIds
    BY DEF TriggerInv
  <2>2. ASSUME NEW s \in Run, request'[s] # Nothing, request'[s].trigger # Nothing
        PROVE  /\ request'[s].trigger \notin admitted'
               /\ tickets[ThreadOf[request'[s].trigger]] # Nothing
               /\ request'[s].trigger \in tickets[ThreadOf[request'[s].trigger]].triggerIds
               /\ \A u \in Run : request'[u] # Nothing /\ request'[u].trigger = request'[s].trigger => s = u
    <3>1. \A u \in Run : u # r /\ request[u] # Nothing /\ request[u].trigger # Nothing => request[u].trigger # trigger
      BY DEF TriggerInv
    <3>2. CASE s = r
      BY <1>3, <1>5, <2>2, <3>1, <3>2 DEF TriggerInv
    <3>3. CASE s # r
      BY <1>3, <1>5, <2>2, <3>1, <3>3 DEF TriggerInv
    <3> QED
      BY <3>2, <3>3
  <2> QED
    BY <2>1, <2>2 DEF TriggerInv
<1> QED
  BY <1>7, <1>8, <1>9, <1>10, <1>11

LEMMA StartAdmittedInv ==
  ASSUME IntakeInv, NEW t \in Trigger, NEW r \in Run, StartAdmitted(t, r)
  PROVE  IntakeInv'
<1>1. [ticketId |-> ThreadOf[t], parentRunId |-> Nothing] \in StartRequest
  BY ThreadAssumption DEF StartRequest, ThreadAssumption, Ticket
<1>2. Claimed(Nothing, [ticketId |-> ThreadOf[t], parentRunId |-> Nothing], r)
  BY DEF StartAdmitted, Claimed
<1> QED
  BY LaunchInv, <1>1, <1>2 DEF StartAdmitted

LEMMA StartRunInv ==
  ASSUME IntakeInv, NEW r \in Run, NEW key \in StartKey, NEW ticketId \in Thread \union {Nothing},
         StartRun(r, key, ticketId)
  PROVE  IntakeInv'
<1>1. [ticketId |-> ticketId, parentRunId |-> Nothing] \in StartRequest /\ key \in Key \union {Nothing}
  BY DEF StartRequest, Ticket, Key
<1>2. admitted' = admitted \ {Nothing}
  BY NothingAssumption DEF StartRun, IntakeInv, IntakeTypeOK, NothingAssumption
<1> QED
  BY LaunchInv, <1>1, <1>2 DEF StartRun

LEMMA RetryRunInv ==
  ASSUME IntakeInv, NEW source \in Run, NEW r \in Run, NEW key \in RetryKey, RetryRun(source, r, key)
  PROVE  IntakeInv'
<1>1. record[source] \in RunRecord
  BY TypedState DEF RetryRun, IntakeInv
<1>2. [ticketId |-> record[source].ticketId, parentRunId |-> source] \in StartRequest /\ key \in Key \union {Nothing}
  BY <1>1 DEF StartRequest, RunRecord, Key
<1>3. admitted' = admitted \ {Nothing}
  BY NothingAssumption DEF RetryRun, IntakeInv, IntakeTypeOK, NothingAssumption
<1> QED
  BY LaunchInv, <1>2, <1>3 DEF RetryRun

LEMMA StartAdmittedThrowsInv ==
  ASSUME IntakeInv, NEW t \in Trigger, StartAdmittedThrows(t)
  PROVE  IntakeInv'
<1> USE DEF IntakeInv
<1>1. /\ UNCHANGED <<tickets, claims, record, request, workflow, bookkeeping, serving, deaths>>
      /\ admitted' \subseteq admitted
  BY DEF StartAdmittedThrows
<1>2. IntakeTypeOK'
  BY <1>1 DEF IntakeTypeOK
<1>3. TriggerInv'
  BY <1>1, TriggersKept DEF TicketsGrow
<1> QED
  BY <1>1, <1>2, <1>3 DEF ActiveInv, Active, AssignmentInv, RunningAssignment, RecordedInv

-----------------------------------------------------------------------------
(***************************************************************************)
(* The assignments of tickets.                                             *)
(***************************************************************************)
LEMMA AttachRunInv ==
  ASSUME IntakeInv, NEW r \in Run, AttachRun(r)
  PROVE  IntakeInv'
<1> USE DEF IntakeInv
<1> DEFINE t == request[r].start.ticketId
<1>1. request[r] # Nothing /\ t \in Ticket
  BY TypedState DEF AttachRun, ActiveInv, Active
<1>2. tickets[t] # Nothing /\ tickets' = Assigned(t, r)
  BY DEF AttachRun
<1>3. /\ tickets' \in [Ticket -> {Nothing} \union TicketRecord]
      /\ \A u \in Ticket : u # t => tickets'[u] = tickets[u]
      /\ tickets'[t] # Nothing /\ tickets'[t].triggerIds = tickets[t].triggerIds
      /\ \A s \in Run : tickets'[t].assignments[s] = IF s = r THEN "running" ELSE tickets[t].assignments[s]
  BY <1>1, <1>2, AssignedTicket
<1>4. /\ workflow' \in [Run -> Place] /\ workflow[r] = "binding" /\ workflow'[r] = "executing"
      /\ \A s \in Run : s # r => workflow'[s] = workflow[s]
      /\ UNCHANGED <<claims, record, request, bookkeeping, admitted, serving, deaths>>
  BY DEF AttachRun, IntakeTypeOK, Place
<1>5. \A s \in Run : s \notin RunningAssignment(t)
  BY DEF AttachRun
<1> HIDE DEF t
<1>6. IntakeTypeOK'
  BY <1>3, <1>4 DEF IntakeTypeOK
<1>7. ActiveInv'
  BY <1>3, <1>4 DEF ActiveInv, Active, Ticket
<1>8. AssignmentInv'
  <2>1. \A s \in Run : request[s] # Nothing => request[s].start.ticketId \in Ticket \union {Nothing}
    BY TypedState
  <2>2. \A s \in Run : workflow[s] = "executing" => request[s] # Nothing
    BY DEF ActiveInv, Active
  <2>3. ASSUME NEW s \in Run, workflow'[s] = "executing", request'[s].start.ticketId # Nothing
        PROVE  /\ tickets'[request'[s].start.ticketId] # Nothing
               /\ tickets'[request'[s].start.ticketId].assignments[s] = "running"
    <3>1. CASE s = r
      BY <1>3, <1>4, <3>1 DEF t
    <3>2. CASE s # r
      BY <1>3, <1>4, <2>1, <2>2, <2>3, <3>2 DEF AssignmentInv
    <3> QED
      BY <3>1, <3>2
  <2>4. ASSUME NEW u \in Ticket, tickets'[u] # Nothing
        PROVE  \A a, b \in Run : tickets'[u].assignments[a] = "running" /\ tickets'[u].assignments[b] = "running" => a = b
    <3>1. CASE u = t
      BY <1>3, <1>5, <3>1 DEF RunningAssignment
    <3>2. CASE u # t
      BY <1>3, <2>4, <3>2 DEF AssignmentInv, RunningAssignment
    <3> QED
      BY <3>1, <3>2
  <2> QED
    BY <2>3, <2>4 DEF AssignmentInv, RunningAssignment
<1>9. RecordedInv'
  BY <1>4, ClaimsKept DEF Active
<1>10. TriggerInv'
  <2>1. TicketsGrow
    BY <1>3 DEF TicketsGrow
  <2> QED
    BY <1>4, <2>1, TriggersKept
<1> QED
  BY <1>6, <1>7, <1>8, <1>9, <1>10

LEMMA RefuseRunInv ==
  ASSUME IntakeInv, NEW r \in Run, RefuseRun(r)
  PROVE  IntakeInv'
<1> USE DEF IntakeInv
<1>1. /\ workflow' \in [Run -> Place] /\ workflow[r] = "binding" /\ workflow'[r] = "failing"
      /\ \A s \in Run : s # r => workflow'[s] = workflow[s]
      /\ UNCHANGED <<tickets, claims, record, request, bookkeeping, admitted, serving, deaths>>
  BY DEF RefuseRun, IntakeTypeOK, Place
<1>2. IntakeTypeOK' /\ ActiveInv'
  BY <1>1 DEF IntakeTypeOK, ActiveInv, Active
<1>3. AssignmentInv'
  BY <1>1, AssignmentsKept
<1>4. RecordedInv'
  BY <1>1, ClaimsKept DEF Active
<1>5. TriggerInv'
  BY <1>1, TriggersKept DEF TicketsGrow
<1> QED
  BY <1>2, <1>3, <1>4, <1>5

LEMMA EnsureTicketInv ==
  ASSUME IntakeInv, NEW r \in Run, EnsureTicket(r)
  PROVE  IntakeInv'
<1> USE DEF IntakeInv
<1>1. /\ bookkeeping' \in [Run -> {"none", "ensure", "attach", "done"}]
      /\ \A s \in Run : s # r => bookkeeping'[s] = bookkeeping[s]
      /\ UNCHANGED <<claims, record, request, workflow, admitted, serving, deaths>>
  BY DEF EnsureTicket, IntakeTypeOK
<1>2. r \in Ticket
  BY DEF Ticket
<1>3. /\ tickets' \in [Ticket -> {Nothing} \union TicketRecord]
      /\ \A u \in Ticket : tickets[u] # Nothing \/ u # r => tickets'[u] = tickets[u]
      /\ tickets'[r] # Nothing
      /\ tickets[r] = Nothing => \A s \in Run : tickets'[r].assignments[s] = "none"
  BY <1>2, OpenedTicket DEF EnsureTicket, IntakeTypeOK
<1>4. IntakeTypeOK'
  BY <1>1, <1>3 DEF IntakeTypeOK
<1>5. ActiveInv'
  BY <1>1, <1>3 DEF ActiveInv, Active, Ticket
<1>6. AssignmentInv'
  <2>1. \A s \in Run : request[s] # Nothing => request[s].start.ticketId \in Ticket \union {Nothing}
    BY TypedState
  <2>2. \A s \in Run : workflow[s] = "executing" => request[s] # Nothing
    BY DEF ActiveInv, Active
  <2>3. ASSUME NEW s \in Run, workflow'[s] = "executing", request'[s].start.ticketId # Nothing
        PROVE  /\ tickets'[request'[s].start.ticketId] # Nothing
               /\ tickets'[request'[s].start.ticketId].assignments[s] = "running"
    BY <1>1, <1>3, <2>1, <2>2, <2>3 DEF AssignmentInv
  <2>4. ASSUME NEW u \in Ticket, tickets'[u] # Nothing
        PROVE  \A a, b \in Run : tickets'[u].assignments[a] = "running" /\ tickets'[u].assignments[b] = "running" => a = b
    BY <1>3, <2>4 DEF AssignmentInv, RunningAssignment
  <2> QED
    BY <2>3, <2>4 DEF AssignmentInv, RunningAssignment
<1>7. RecordedInv'
  BY <1>1, ClaimsKept DEF Active
<1>8. TriggerInv'
  BY <1>1, <1>3, TriggersKept, NothingAssumption DEF TicketsGrow
<1> QED
  BY <1>4, <1>5, <1>6, <1>7, <1>8

LEMMA AttachLocalRunInv ==
  ASSUME IntakeInv, NEW r \in Run, AttachLocalRun(r)
  PROVE  IntakeInv'
<1> USE DEF IntakeInv
<1>1. /\ bookkeeping' \in [Run -> {"none", "ensure", "attach", "done"}] /\ bookkeeping'[r] = "done"
      /\ \A s \in Run : s # r => bookkeeping'[s] = bookkeeping[s]
      /\ UNCHANGED <<claims, record, request, workflow, admitted, serving, deaths>>
  BY DEF AttachLocalRun, IntakeTypeOK
<1>2. r \in Ticket /\ tickets[r] # Nothing
  BY DEF Ticket, AttachLocalRun, ActiveInv
<1>3. CASE RunningAssignment(r) # {}
  <2>1. tickets' = tickets
    BY <1>3 DEF AttachLocalRun
  <2>2. IntakeTypeOK' /\ ActiveInv'
    BY <1>1, <2>1 DEF IntakeTypeOK, ActiveInv, Active
  <2> QED
    BY <1>1, <2>1, <2>2, AssignmentsKept, ClaimsKept, TriggersKept DEF Active, TicketsGrow
<1>4. CASE RunningAssignment(r) = {}
  <2>1. /\ tickets' \in [Ticket -> {Nothing} \union TicketRecord]
        /\ \A u \in Ticket : u # r => tickets'[u] = tickets[u]
        /\ tickets'[r] # Nothing /\ tickets'[r].triggerIds = tickets[r].triggerIds
        /\ \A s \in Run : tickets'[r].assignments[s] = IF s = r THEN "running" ELSE tickets[r].assignments[s]
    BY <1>2, <1>4, AssignedTicket DEF AttachLocalRun
  <2>2. IntakeTypeOK' /\ ActiveInv'
    BY <1>1, <2>1 DEF IntakeTypeOK, ActiveInv, Active, Ticket
  <2>3. AssignmentInv'
    <3>1. \A s \in Run : request[s] # Nothing => request[s].start.ticketId \in Ticket \union {Nothing}
      BY TypedState
    <3>2. \A s \in Run : workflow[s] = "executing" => request[s] # Nothing
      BY DEF ActiveInv, Active
    <3>3. \A s \in Run : tickets[r].assignments[s] # "running"
      BY <1>4 DEF RunningAssignment
    <3>4. ASSUME NEW s \in Run, workflow'[s] = "executing", request'[s].start.ticketId # Nothing
          PROVE  /\ tickets'[request'[s].start.ticketId] # Nothing
                 /\ tickets'[request'[s].start.ticketId].assignments[s] = "running"
      BY <1>1, <2>1, <3>1, <3>2, <3>3, <3>4 DEF AssignmentInv
    <3>5. ASSUME NEW u \in Ticket, tickets'[u] # Nothing
          PROVE  \A a, b \in Run : tickets'[u].assignments[a] = "running" /\ tickets'[u].assignments[b] = "running" => a = b
      BY <2>1, <3>3, <3>5 DEF AssignmentInv, RunningAssignment
    <3> QED
      BY <3>4, <3>5 DEF AssignmentInv, RunningAssignment
  <2>4. TicketsGrow
    BY <2>1 DEF TicketsGrow
  <2> QED
    BY <1>1, <2>2, <2>3, <2>4, ClaimsKept, TriggersKept DEF Active
<1> QED
  BY <1>3, <1>4

LEMMA SettleRunInv ==
  ASSUME IntakeInv, NEW r \in Run, SettleRun(r)
  PROVE  IntakeInv'
<1> USE DEF IntakeInv
<1> DEFINE t == TicketOf(r)
<1>1. request[r] # Nothing
  BY DEF SettleRun, ActiveInv, Active
<1>2. t \in Ticket
  BY <1>1, TypedState DEF TicketOf, Ticket
<1>3. /\ workflow' \in [Run -> Place] /\ workflow'[r] \in {"settled", "failed"} /\ workflow[r] \in {"settling", "failing"}
      /\ \A s \in Run : s # r => workflow'[s] = workflow[s]
      /\ UNCHANGED <<claims, record, request, bookkeeping, admitted, serving, deaths>>
  BY DEF SettleRun, IntakeTypeOK, Place
<1> HIDE DEF t
<1>4. CASE UNCHANGED tickets
  <2>1. tickets' = tickets
    BY <1>4
  <2>2. IntakeTypeOK' /\ ActiveInv'
    BY <1>3, <2>1 DEF IntakeTypeOK, ActiveInv, Active
  <2> QED
    BY <1>3, <2>1, <2>2, AssignmentsKept, ClaimsKept, TriggersKept DEF Active, TicketsGrow
<1>5. CASE tickets[t] # Nothing /\ ~ UNCHANGED tickets
  <2>1. tickets' = Ended(t, {r})
    BY <1>5 DEF SettleRun, t
  <2>2. /\ tickets' \in [Ticket -> {Nothing} \union TicketRecord]
        /\ \A u \in Ticket : u # t => tickets'[u] = tickets[u]
        /\ tickets'[t] # Nothing /\ tickets'[t].triggerIds = tickets[t].triggerIds
        /\ \A s \in Run : s # r => tickets'[t].assignments[s] = tickets[t].assignments[s]
        /\ tickets'[t].assignments[r] # "running"
    BY <1>2, <1>5, <2>1, EndedTicket
  <2>3. IntakeTypeOK' /\ ActiveInv'
    BY <1>3, <2>2 DEF IntakeTypeOK, ActiveInv, Active, Ticket
  <2>4. AssignmentInv'
    <3>1. \A s \in Run : request[s] # Nothing => request[s].start.ticketId \in Ticket \union {Nothing}
      BY TypedState
    <3>2. \A s \in Run : workflow[s] = "executing" => request[s] # Nothing
      BY DEF ActiveInv, Active
    <3>3. ASSUME NEW s \in Run, workflow'[s] = "executing", request'[s].start.ticketId # Nothing
          PROVE  /\ tickets'[request'[s].start.ticketId] # Nothing
                 /\ tickets'[request'[s].start.ticketId].assignments[s] = "running"
      BY <1>3, <2>2, <3>1, <3>2, <3>3 DEF AssignmentInv
    <3>4. ASSUME NEW u \in Ticket, tickets'[u] # Nothing
          PROVE  \A a, b \in Run : tickets'[u].assignments[a] = "running" /\ tickets'[u].assignments[b] = "running" => a = b
      <4>1. tickets[u] # Nothing
        BY <1>5, <2>2, <3>4
      <4>2. \A a \in Run : tickets'[u].assignments[a] = "running" => tickets[u].assignments[a] = "running"
        BY <2>2, <3>4
      <4> QED
        BY <4>1, <4>2 DEF AssignmentInv, RunningAssignment
    <3> QED
      BY <3>3, <3>4 DEF AssignmentInv, RunningAssignment
  <2>5. TicketsGrow
    BY <2>2 DEF TicketsGrow
  <2> QED
    BY <1>3, <2>3, <2>4, <2>5, ClaimsKept, TriggersKept DEF Active
<1>6. \/ UNCHANGED tickets
      \/ tickets[t] # Nothing /\ ~ UNCHANGED tickets
  BY DEF SettleRun, t
<1> QED
  BY <1>4, <1>5, <1>6

LEMMA BookkeepingFailsInv ==
  ASSUME IntakeInv, NEW r \in Run, BookkeepingFails(r)
  PROVE  IntakeInv'
<1> USE DEF IntakeInv
<1>1. /\ bookkeeping' \in [Run -> {"none", "ensure", "attach", "done"}] /\ bookkeeping'[r] = "done"
      /\ \A s \in Run : s # r => bookkeeping'[s] = bookkeeping[s]
      /\ UNCHANGED <<tickets, claims, record, request, workflow, admitted, serving, deaths>>
  BY DEF BookkeepingFails, IntakeTypeOK
<1>2. IntakeTypeOK' /\ ActiveInv'
  BY <1>1 DEF IntakeTypeOK, ActiveInv, Active
<1> QED
  BY <1>1, <1>2, AssignmentsKept, ClaimsKept, TriggersKept DEF Active, TicketsGrow

-----------------------------------------------------------------------------
(***************************************************************************)
(* Records, deletion, death and restart.                                   *)
(***************************************************************************)
LEMMA PersistRunInv ==
  ASSUME IntakeInv, NEW r \in Run, PersistRun(r)
  PROVE  IntakeInv'
<1> USE DEF IntakeInv
<1> DEFINE new == [status |-> "executing", ticketId |-> Nothing, parentRunId |-> request[r].start.parentRunId]
<1>1. request[r] # Nothing /\ Active(r)
  BY DEF PersistRun, ActiveInv, Active
<1>2. new \in RunRecord
  BY <1>1, TypedState DEF RunRecord, Status
<1> HIDE DEF new
<1>3. /\ record' \in [Run -> {Nothing} \union RunRecord]
      /\ \A s \in Run : s # r => record'[s] = record[s]
      /\ UNCHANGED <<tickets, claims, request, workflow, bookkeeping, admitted, serving, deaths>>
  BY <1>2 DEF PersistRun, IntakeTypeOK, new
<1>4. IntakeTypeOK' /\ ActiveInv'
  BY <1>1, <1>3 DEF IntakeTypeOK, ActiveInv, Active
<1>5. \A s \in Run : Active(s)' \/ record'[s] # Nothing => Active(s) \/ record[s] # Nothing
  BY <1>1, <1>3 DEF Active
<1> QED
  BY <1>3, <1>4, <1>5, AssignmentsKept, ClaimsKept, TriggersKept DEF TicketsGrow

LEMMA WithStatus ==
  ASSUME IntakeInv, NEW r \in Run, record[r] # Nothing, NEW status \in Status
  PROVE  [record[r] EXCEPT !.status = status] \in RunRecord /\ [record[r] EXCEPT !.status = status] # Nothing
<1>1. record[r] \in RunRecord
  BY TypedState DEF IntakeInv
<1>2. [record[r] EXCEPT !.status = status] \in RunRecord
  BY <1>1 DEF RunRecord
<1> QED
  BY <1>2, NothingAssumption DEF NothingAssumption

LEMMA EndWorkflowInv ==
  ASSUME IntakeInv, NEW r \in Run, NEW status \in Rest, EndWorkflow(r, status)
  PROVE  IntakeInv'
<1> USE DEF IntakeInv
<1>1. /\ [record[r] EXCEPT !.status = status] \in RunRecord
      /\ record' = [record EXCEPT ![r] = [record[r] EXCEPT !.status = status]]
  BY WithStatus DEF EndWorkflow, Status, IntakeTypeOK
<1>2. /\ record' \in [Run -> {Nothing} \union RunRecord]
      /\ \A s \in Run : s # r => record'[s] = record[s]
  BY <1>1 DEF IntakeTypeOK
<1>3. /\ workflow' \in [Run -> Place] /\ workflow'[r] \in {"none", "settling"} /\ Active(r)
      /\ \A s \in Run : s # r => workflow'[s] = workflow[s]
      /\ UNCHANGED <<tickets, claims, request, bookkeeping, admitted, serving, deaths>>
  BY DEF EndWorkflow, IntakeTypeOK, Place, Active
<1>4. IntakeTypeOK' /\ ActiveInv'
  BY <1>2, <1>3 DEF IntakeTypeOK, ActiveInv, Active
<1>5. \A s \in Run : Active(s)' \/ record'[s] # Nothing => Active(s) \/ record[s] # Nothing
  BY <1>2, <1>3 DEF Active
<1> QED
  BY <1>3, <1>4, <1>5, AssignmentsKept, ClaimsKept, TriggersKept DEF TicketsGrow

LEMMA WorkflowThrowsInv ==
  ASSUME IntakeInv, NEW r \in Run, WorkflowThrows(r)
  PROVE  IntakeInv'
<1> USE DEF IntakeInv
<1>1. /\ workflow' \in [Run -> Place] /\ workflow'[r] \in {"none", "failing"} /\ Active(r)
      /\ \A s \in Run : s # r => workflow'[s] = workflow[s]
      /\ UNCHANGED <<tickets, claims, record, request, bookkeeping, admitted, serving, deaths>>
  BY DEF WorkflowThrows, IntakeTypeOK, Place, Active
<1>2. IntakeTypeOK' /\ ActiveInv'
  BY <1>1 DEF IntakeTypeOK, ActiveInv, Active
<1>3. \A s \in Run : Active(s)' \/ record'[s] # Nothing => Active(s) \/ record[s] # Nothing
  BY <1>1 DEF Active
<1> QED
  BY <1>1, <1>2, <1>3, AssignmentsKept, ClaimsKept, TriggersKept DEF TicketsGrow

LEMMA UntrackInv ==
  ASSUME IntakeInv, NEW r \in Run, Untrack(r)
  PROVE  IntakeInv'
<1> USE DEF IntakeInv
<1>1. request[r] # Nothing /\ Active(r)
  BY DEF Untrack, ActiveInv, Active
<1>2. TicketOf(r) \in Ticket
  BY <1>1, TypedState DEF TicketOf, Ticket
<1>3. /\ record' \in [Run -> {Nothing} \union RunRecord]
      /\ \A s \in Run : s # r => record'[s] = record[s]
  <2>1. CASE UNCHANGED record
    BY <2>1 DEF IntakeTypeOK
  <2>2. CASE record[r] # Nothing /\ ~ UNCHANGED record
    <3>1. record[r] \in RunRecord
      BY <2>2, TypedState
    <3>2. [record[r] EXCEPT !.ticketId = TicketOf(r)] \in RunRecord
      BY <1>2, <3>1 DEF RunRecord
    <3>3. record' = [record EXCEPT ![r] = [record[r] EXCEPT !.ticketId = TicketOf(r)]]
      BY <2>2 DEF Untrack, IntakeTypeOK
    <3> QED
      BY <3>2, <3>3 DEF IntakeTypeOK
  <2> QED
    BY <2>1, <2>2 DEF Untrack
<1>4. record[r] = Nothing => record'[r] = Nothing
  BY DEF Untrack
<1>5. /\ workflow' \in [Run -> Place] /\ workflow'[r] = "none"
      /\ \A s \in Run : s # r => workflow'[s] = workflow[s]
      /\ workflow[r] \in {"settled", "failed"}
      /\ UNCHANGED <<tickets, request, bookkeeping, admitted, serving, deaths>>
  BY DEF Untrack, IntakeTypeOK, Place
<1>6. /\ claims' \in [Key -> {Nothing} \union CommandClaim]
      /\ \A k \in Key : claims'[k] = claims[k] \/ (record[r] = Nothing /\ request[r].key = k)
  <2> DEFINE deleted(k) == /\ workflow[r] = "failed" /\ record[r] = Nothing
                           /\ request[r].key = k /\ claims[k] # Nothing
                           /\ claims[k].hash = Hash(request[r].start)
  <2>1. claims' = [k \in Key |-> IF deleted(k) THEN Nothing ELSE claims[k]]
    BY DEF Untrack
  <2>2. \A k \in Key : deleted(k) => record[r] = Nothing /\ request[r].key = k
    OBVIOUS
  <2>3. \A k \in Key : claims[k] \in {Nothing} \union CommandClaim
    BY DEF IntakeTypeOK
  <2> HIDE DEF deleted
  <2> QED
    BY <2>1, <2>2, <2>3
<1>7. IntakeTypeOK' /\ ActiveInv'
  BY <1>1, <1>3, <1>5, <1>6 DEF IntakeTypeOK, ActiveInv, Active
<1>8. RecordedInv'
  <2> SUFFICES ASSUME NEW s \in Run, Active(s)' \/ record'[s] # Nothing, request'[s].key # Nothing
               PROVE  claims'[request'[s].key] # Nothing /\ claims'[request'[s].key].run = s
    BY DEF RecordedInv
  <2>1. Active(s) \/ record[s] # Nothing
    BY <1>1, <1>3, <1>5 DEF Active
  <2>2. request[s] # Nothing /\ request[s].key \in Key /\ request'[s] = request[s]
    BY <1>5, <2>1, TypedState DEF ActiveInv
  <2>3. claims[request[s].key] # Nothing /\ claims[request[s].key].run = s
    BY <2>1, <2>2, <1>5 DEF RecordedInv
  <2>4. CASE s = r
    BY <1>4, <1>5, <1>6, <2>2, <2>3, <2>4 DEF Active
  <2>5. CASE s # r
    <3>1. request[r].key = request[s].key => claims[request[s].key].run = r
      BY <1>1, <2>2 DEF RecordedInv, Key
    <3>2. request[r].key # request[s].key
      BY <2>3, <2>5, <3>1
    <3> QED
      BY <1>6, <2>2, <2>3, <3>2
  <2> QED
    BY <2>4, <2>5
<1> QED
  BY <1>5, <1>7, <1>8, AssignmentsKept, TriggersKept DEF TicketsGrow

LEMMA ContinueRunInv ==
  ASSUME IntakeInv, NEW r \in Run, ContinueRun(r)
  PROVE  IntakeInv'
<1> USE DEF IntakeInv
<1>1. /\ [record[r] EXCEPT !.status = "executing"] \in RunRecord
      /\ record' = [record EXCEPT ![r] = [record[r] EXCEPT !.status = "executing"]]
  BY WithStatus DEF ContinueRun, Status, IntakeTypeOK
<1>2. /\ record' \in [Run -> {Nothing} \union RunRecord] /\ record[r] # Nothing
      /\ \A s \in Run : s # r => record'[s] = record[s]
  BY <1>1 DEF IntakeTypeOK, ContinueRun
<1>3. /\ workflow' \in [Run -> Place] /\ workflow'[r] = "continuing"
      /\ \A s \in Run : s # r => workflow'[s] = workflow[s]
      /\ UNCHANGED <<tickets, claims, request, bookkeeping, admitted, serving, deaths>>
  BY DEF ContinueRun, IntakeTypeOK, Place
<1>4. IntakeTypeOK' /\ ActiveInv'
  BY <1>2, <1>3 DEF IntakeTypeOK, ActiveInv, Active
<1>5. \A s \in Run : Active(s)' \/ record'[s] # Nothing => Active(s) \/ record[s] # Nothing
  BY <1>2, <1>3 DEF Active
<1> QED
  BY <1>3, <1>4, <1>5, AssignmentsKept, ClaimsKept, TriggersKept DEF TicketsGrow

LEMMA DeleteRunInv ==
  ASSUME IntakeInv, NEW r \in Run, DeleteRun(r)
  PROVE  IntakeInv'
<1> USE DEF IntakeInv
<1>1. /\ record' \in [Run -> {Nothing} \union RunRecord] /\ record'[r] = Nothing /\ ~Active(r)
      /\ \A s \in Run : s # r => record'[s] = record[s]
      /\ UNCHANGED <<tickets, request, workflow, bookkeeping, admitted, serving, deaths>>
  BY DEF DeleteRun, IntakeTypeOK
<1>2. /\ claims' \in [Key -> {Nothing} \union CommandClaim]
      /\ \A k \in Key : claims[k] # Nothing /\ claims[k].run # r => claims'[k] = claims[k]
  BY DEF DeleteRun, IntakeTypeOK
<1>3. IntakeTypeOK' /\ ActiveInv'
  BY <1>1, <1>2 DEF IntakeTypeOK, ActiveInv, Active
<1>4. RecordedInv'
  <2> SUFFICES ASSUME NEW s \in Run, Active(s)' \/ record'[s] # Nothing, request'[s].key # Nothing
               PROVE  claims'[request'[s].key] # Nothing /\ claims'[request'[s].key].run = s
    BY DEF RecordedInv
  <2>1. s # r /\ (Active(s) \/ record[s] # Nothing)
    BY <1>1 DEF Active
  <2>2. request[s] # Nothing /\ request[s].key \in Key /\ request'[s] = request[s]
    BY <1>1, <2>1, TypedState DEF ActiveInv
  <2>3. claims[request[s].key] # Nothing /\ claims[request[s].key].run = s
    BY <1>1, <2>1, <2>2 DEF RecordedInv
  <2> QED
    BY <1>2, <2>1, <2>2, <2>3
<1> QED
  BY <1>1, <1>3, <1>4, AssignmentsKept, TriggersKept DEF TicketsGrow

LEMMA DieInv ==
  ASSUME IntakeInv, Die
  PROVE  IntakeInv'
<1> USE DEF IntakeInv
<1>1. /\ workflow' \in [Run -> Place] /\ \A r \in Run : workflow'[r] = "none"
      /\ bookkeeping' \in [Run -> {"none", "ensure", "attach", "done"}]
      /\ \A r \in Run : bookkeeping'[r] = "none"
      /\ admitted' = {} /\ UNCHANGED <<tickets, claims, record, request>>
  BY DEF Die, Place
<1>2. serving' \in BOOLEAN
  BY DEF Die
<1>3. deaths' \in 0..MaxDeaths
  BY IntakeAssumption DEF Die, IntakeTypeOK, IntakeAssumption
<1>4. IntakeTypeOK' /\ ActiveInv'
  BY <1>1, <1>2, <1>3 DEF IntakeTypeOK, ActiveInv, Active
<1> QED
  BY <1>1, <1>4, AssignmentsKept, ClaimsKept, TriggersKept DEF Active, TicketsGrow

LEMMA ServeAgainInv ==
  ASSUME IntakeInv, ServeAgain
  PROVE  IntakeInv'
<1> USE DEF IntakeInv
<1>1. \A r \in Run : record[r] # Nothing =>
        [record[r] EXCEPT !.status = "interrupted"] \in RunRecord
  BY WithStatus DEF Status
<1>2. /\ record' \in [Run -> {Nothing} \union RunRecord]
      /\ \A r \in Run : record[r] = Nothing => record'[r] = Nothing
      /\ UNCHANGED <<tickets, claims, request, workflow, bookkeeping, admitted, deaths>>
  BY <1>1 DEF ServeAgain, IntakeTypeOK
<1>3. serving' \in BOOLEAN
  BY DEF ServeAgain
<1>4. IntakeTypeOK' /\ ActiveInv'
  BY <1>2, <1>3 DEF IntakeTypeOK, ActiveInv, Active
<1>5. \A s \in Run : Active(s)' \/ record'[s] # Nothing => Active(s) \/ record[s] # Nothing
  BY <1>2 DEF Active
<1> QED
  BY <1>2, <1>4, <1>5, AssignmentsKept, ClaimsKept, TriggersKept DEF TicketsGrow

-----------------------------------------------------------------------------
LEMMA IntakeStepInv == IntakeInv /\ [IntakeNext]_intakeVars => IntakeInv'
<1> SUFFICES ASSUME IntakeInv, [IntakeNext]_intakeVars PROVE IntakeInv'
  OBVIOUS
<1>1. CASE \E t \in Trigger : \/ Admit(t) \/ StartAdmittedThrows(t)
                              \/ \E r \in Run : StartAdmitted(t, r)
  BY <1>1, AdmitInv, StartAdmittedThrowsInv, StartAdmittedInv
<1>2. CASE \E r \in Run :
             \/ \E key \in StartKey, ticketId \in Thread \union {Nothing} : StartRun(r, key, ticketId)
             \/ \E source \in Run, key \in RetryKey : RetryRun(source, r, key)
  BY <1>2, StartRunInv, RetryRunInv
<1>3. CASE \E r \in Run : AttachRun(r) \/ RefuseRun(r) \/ EnsureTicket(r) \/ AttachLocalRun(r)
                          \/ BookkeepingFails(r) \/ SettleRun(r)
  BY <1>3, AttachRunInv, RefuseRunInv, EnsureTicketInv, AttachLocalRunInv, BookkeepingFailsInv, SettleRunInv
<1>4. CASE \E r \in Run : \/ PersistRun(r) \/ WorkflowThrows(r) \/ Untrack(r) \/ ContinueRun(r) \/ DeleteRun(r)
                          \/ \E status \in Rest : EndWorkflow(r, status)
  BY <1>4, PersistRunInv, WorkflowThrowsInv, UntrackInv, ContinueRunInv, DeleteRunInv, EndWorkflowInv
<1>5. CASE Die \/ ServeAgain
  BY <1>5, DieInv, ServeAgainInv
<1>6. CASE UNCHANGED intakeVars
  BY <1>6 DEF intakeVars, IntakeInv, IntakeTypeOK, ActiveInv, Active, AssignmentInv, RunningAssignment,
             RecordedInv, TriggerInv
<1> QED
  BY <1>1, <1>2, <1>3, <1>4, <1>5, <1>6 DEF IntakeNext

(***************************************************************************)
(* Every reachable state of the intake satisfies the invariant.            *)
(***************************************************************************)
THEOREM IntakeInvariance == IntakeSpec => []IntakeInv
BY IntakeInitInv, IntakeStepInv, PTL DEF IntakeSpec

(***************************************************************************)
(* Tickets, claims and records keep their shape (tickets.json, the table   *)
(* command_idempotency, state.json), whatever fails beside them.           *)
(***************************************************************************)
THEOREM IntakeTypeCorrect == IntakeSpec => []IntakeTypeOK
<1>1. IntakeInv => IntakeTypeOK
  BY DEF IntakeInv
<1> QED
  BY <1>1, IntakeInvariance, PTL

(***************************************************************************)
(* attachRun and settleRun let one run at a time work for a ticket: with   *)
(* any number of triggers, starts, retries and restarts.                   *)
(***************************************************************************)
THEOREM OneRunPerTicket == IntakeSpec => []OneAssignment
<1>1. IntakeInv => OneAssignment
  <2> SUFFICES ASSUME IntakeInv PROVE OneAssignment
    OBVIOUS
  <2>1. ASSUME NEW t \in Ticket, tickets[t] # Nothing
        PROVE  Cardinality(RunningAssignment(t)) <= 1
    <3>1. CASE RunningAssignment(t) = {}
      BY <3>1, FS_EmptySet
    <3>2. CASE RunningAssignment(t) # {}
      <4>1. PICK r \in Run : r \in RunningAssignment(t)
        BY <3>2 DEF RunningAssignment
      <4>2. \A s \in RunningAssignment(t) : s = r
        <5>1. \A s \in RunningAssignment(t) : s \in Run
          BY DEF RunningAssignment
        <5> QED
          BY <2>1, <4>1, <5>1 DEF IntakeInv, AssignmentInv
      <4>3. RunningAssignment(t) = {r}
        BY <4>1, <4>2
      <4>4. Cardinality({r}) = 1
        BY FS_Singleton
      <4> QED
        BY <4>3, <4>4
    <3> QED
      BY <3>1, <3>2
  <2> QED
    BY <2>1 DEF IntakeInv, AssignmentInv, OneAssignment
<1> QED
  BY <1>1, IntakeInvariance, PTL

(***************************************************************************)
(* claimCommand and the tickets' triggers keep deliveries apart: of two    *)
(* recorded runs no command started both, and no trigger started two runs. *)
(***************************************************************************)
THEOREM NothingStartsTwice == IntakeSpec => []StartedOnce
<1>1. IntakeInv => StartedOnce
  BY DEF IntakeInv, RecordedInv, TriggerInv, ActiveInv, StartedOnce
<1> QED
  BY <1>1, IntakeInvariance, PTL
=============================================================================
