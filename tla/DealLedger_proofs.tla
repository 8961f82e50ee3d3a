-------------------------- MODULE DealLedger_proofs --------------------------
(***************************************************************************)
(* Theorems about DealLedger, for every set of parties, deals, allocations *)
(* and terms, checked by TLAPS.                                            *)
(***************************************************************************)
EXTENDS DealLedger, FiniteSetTheorems, NaturalsInduction, WellFoundedInduction, TLAPS

-----------------------------------------------------------------------------
\* Type correctness

\* Every contract a choice creates is well typed.
LEMMA SuccessorType ==
  ASSUME NEW c \in Contract, NEW tpl \in Templates
  PROVE  /\ Successor(c, tpl) \in Contract
         /\ Successor(c, tpl).tpl = tpl
         /\ Successor(c, tpl).deal = c.deal
         /\ Successor(c, tpl).terms = c.terms
         /\ Successor(c, tpl).round = c.round
         /\ Successor(c, tpl).alloc = c.alloc
         /\ Successor(c, tpl).root = c.root
         /\ \A a \in AllocIds : [Successor(c, tpl) EXCEPT !.alloc = a] \in Contract
         /\ c.round < MaxRound => [Successor(c, tpl) EXCEPT !.round = @ + 1] \in Contract
<1>1. /\ Successor(c, tpl) \in Contract
      /\ Successor(c, tpl).tpl = tpl
      /\ Successor(c, tpl).deal = c.deal
      /\ Successor(c, tpl).terms = c.terms
      /\ Successor(c, tpl).round = c.round
      /\ Successor(c, tpl).alloc = c.alloc
      /\ Successor(c, tpl).root = c.root
  BY DEF Contract, Successor
<1>2. ASSUME NEW a \in AllocIds
      PROVE  [Successor(c, tpl) EXCEPT !.alloc = a] \in Contract
  BY <1>1 DEF Contract
<1>3. ASSUME c.round < MaxRound
      PROVE  [Successor(c, tpl) EXCEPT !.round = @ + 1] \in Contract
  <2>1. c.round + 1 \in 0 .. MaxRound
    BY <1>3, BoundsAssumption DEF Contract
  <2> QED
    BY <1>1, <2>1 DEF Contract
<1> QED
  BY <1>1, <1>2, <1>3

LEMMA ProposalType ==
  ASSUME NEW r \in Roots, NEW d \in Deals, NEW t \in Terms
  PROVE  Proposal(r, d, t) \in Contract
BY BoundsAssumption DEF Contract, Proposal, Templates

LEMMA CreatedType ==
  ASSUME NEW r \in Roots, NEW n \in Creations
  PROVE  /\ Created(r, n) \in Contract
         /\ Created(r, n).tpl \in {"DealFulfillment", "DealRevisionRequest", "FulfillmentApproval"}
         /\ Created(r, n).alloc = n.alloc
         /\ Created(r, n).root = r
BY CreationsAssumption DEF Contract, Created, Templates

LEMMA SpecsTyped ==
  ASSUME NEW s \in Specs
  PROVE  /\ s.amount \in Int
         /\ Account(s.sender, s) \in Accounts
         /\ Account(s.receiver, s) \in Accounts
BY SpecsAssumption DEF AllocSpec, Account, Accounts

\* The part of the state the registry owns, and the part the contracts own.
RegistryType ==
  /\ allocState \in [AllocIds -> {"none", "live", "withdrawn", "executed"}]
  /\ allocSpec \in [AllocIds -> Specs \cup {None}]
  /\ \A a \in AllocIds : allocState[a] # "none" => allocSpec[a] \in Specs
  /\ balance \in [Accounts -> Nat]

\* Locked amounts are positive, so giving them back never makes a debt.
LiveAmountsPositive ==
  \A a \in AllocIds : allocState[a] # "none" => allocSpec[a].amount > 0

TypeInv == TypeOK /\ LiveAmountsPositive

\* What the contract n that a choice on c creates looks like.
Follows(c, n) ==
  /\ n.deal = c.deal
  /\ n.terms = c.terms
  /\ n.root = c.root
  /\ n.round = IF c.tpl = "DealRevisionRequest" THEN c.round + 1 ELSE c.round
  /\ n.tpl = "DealEscrow" =>
       /\ UsesEscrow(c.terms)
       /\ n.alloc \in AllocIds
       /\ allocState[n.alloc] # "none"
       /\ SpecFits(allocSpec[n.alloc], c.deal, c.terms)
  /\ n.tpl # "DealEscrow" => n.alloc = c.alloc
  /\ \/ c.tpl = "DealProposal" /\ n.tpl = "DealAgreement"
     \/ c.tpl = "DealAgreement" /\ n.tpl = "DealFulfillment" /\ ~UsesEscrow(c.terms)
     \/ c.tpl = "DealAgreement" /\ n.tpl = "DealEscrow"
     \/ c.tpl = "DealEscrow" /\ n.tpl = "DealFulfillment"
     \/ c.tpl = "DealFulfillment" /\ n.tpl = "FulfillmentApproval"
     \/ c.tpl = "DealFulfillment" /\ n.tpl = "DealRevisionRequest"
     \/ c.tpl = "DealRevisionRequest" /\ n.tpl = "DealFulfillment"
     \/ c.tpl = "FulfillmentApproval" /\ n.tpl = "SettlementReceipt" /\ c.alloc # None

\* What one signatory can take back.
Retractable == {"DealProposal", "DealFulfillment", "DealRevisionRequest", "FulfillmentApproval"}

\* A choice archives the contract it is exercised on and creates at most one,
\* which follows it.
LEMMA ChoiceShape ==
  ASSUME TypeInv, NEW p \in Parties, NEW c \in acs, Choice(p, c)
  PROVE  /\ c \in Contract
         /\ \/ c.tpl \in Retractable /\ Consume(c, {})
            \/ \E n \in Contract : Consume(c, {n}) /\ Follows(c, n)
<1>0. c \in Contract
  BY DEF TypeInv, TypeOK
<1>1. CASE Accept(p, c)
  <2>1. Successor(c, "DealAgreement") \in Contract
    BY <1>0, SuccessorType DEF Templates
  <2>2. Follows(c, Successor(c, "DealAgreement"))
    BY <1>0, <1>1, SuccessorType DEF Follows, Accept, Templates
  <2> QED
    BY <1>0, <1>1, <2>1, <2>2 DEF Accept
<1>2. CASE Reject(p, c)
  BY <1>0, <1>2 DEF Reject, Retractable
<1>10. CASE Retract(p, c)
  BY <1>0, <1>10, NoneAssumption DEF Retract, SoleSignatory, Retractable
<1>3. CASE SubmitFulfillment(p, c)
  <2>1. Successor(c, "DealFulfillment") \in Contract
    BY <1>0, SuccessorType DEF Templates
  <2>2. Follows(c, Successor(c, "DealFulfillment"))
    BY <1>0, <1>3, SuccessorType DEF Follows, SubmitFulfillment, Templates
  <2> QED
    BY <1>0, <1>3, <2>1, <2>2 DEF SubmitFulfillment
<1>4. ASSUME NEW a \in AllocIds, FundEscrow(p, c, a)
      PROVE  \E n \in Contract : Consume(c, {n}) /\ Follows(c, n)
  <2> DEFINE n == [Successor(c, "DealEscrow") EXCEPT !.alloc = a]
  <2>1. n \in Contract
    BY <1>0, SuccessorType DEF Templates
  <2>2. /\ n.tpl = "DealEscrow" /\ n.alloc = a /\ n.deal = c.deal
        /\ n.terms = c.terms /\ n.round = c.round /\ n.root = c.root
    BY <1>0 DEF Contract, Successor
  <2>3. Consume(c, {n})
    BY <1>4 DEF FundEscrow
  <2> HIDE DEF n
  <2>4. Follows(c, n)
    BY <1>4, <2>2 DEF FundEscrow, Follows
  <2> QED
    BY <2>1, <2>3, <2>4
<1>5. CASE SubmitFundedFulfillment(p, c)
  <2>1. Successor(c, "DealFulfillment") \in Contract
    BY <1>0, SuccessorType DEF Templates
  <2>2. Follows(c, Successor(c, "DealFulfillment"))
    BY <1>0, <1>5, SuccessorType DEF Follows, SubmitFundedFulfillment, Templates
  <2> QED
    BY <1>0, <1>5, <2>1, <2>2 DEF SubmitFundedFulfillment
<1>6. CASE Approve(p, c)
  <2>1. Successor(c, "FulfillmentApproval") \in Contract
    BY <1>0, SuccessorType DEF Templates
  <2>2. Follows(c, Successor(c, "FulfillmentApproval"))
    BY <1>0, <1>6, SuccessorType DEF Follows, Approve, Templates
  <2> QED
    BY <1>0, <1>6, <2>1, <2>2 DEF Approve
<1>7. CASE RequestRevision(p, c)
  <2>1. Successor(c, "DealRevisionRequest") \in Contract
    BY <1>0, SuccessorType DEF Templates
  <2>2. Follows(c, Successor(c, "DealRevisionRequest"))
    BY <1>0, <1>7, SuccessorType DEF Follows, RequestRevision, Templates
  <2> QED
    BY <1>0, <1>7, <2>1, <2>2 DEF RequestRevision
<1>8. CASE SubmitRevision(p, c)
  <2> DEFINE n == [Successor(c, "DealFulfillment") EXCEPT !.round = @ + 1]
  <2>1. n \in Contract
    BY <1>0, <1>8, SuccessorType DEF Templates, SubmitRevision
  <2>2. /\ n.tpl = "DealFulfillment" /\ n.alloc = c.alloc /\ n.deal = c.deal
        /\ n.terms = c.terms /\ n.round = c.round + 1 /\ n.root = c.root
    BY <1>0 DEF Contract, Successor
  <2>3. Consume(c, {n})
    BY <1>8 DEF SubmitRevision
  <2> HIDE DEF n
  <2>4. Follows(c, n)
    BY <1>8, <2>2 DEF SubmitRevision, Follows
  <2> QED
    BY <1>0, <2>1, <2>3, <2>4
<1>9. CASE Settle(p, c)
  <2>1. Successor(c, "SettlementReceipt") \in Contract
    BY <1>0, SuccessorType DEF Templates
  <2>2. Follows(c, Successor(c, "SettlementReceipt"))
    BY <1>0, <1>9, SuccessorType DEF Follows, Settle, Templates
  <2> QED
    BY <1>0, <1>9, <2>1, <2>2 DEF Settle
<1> QED
  BY <1>0, <1>1, <1>2, <1>3, <1>4, <1>5, <1>6, <1>7, <1>8, <1>9, <1>10, Choice(p, c) DEF Choice

LEMMA ChoiceContracts ==
  ASSUME TypeInv, NEW p \in Parties, NEW c \in acs, Choice(p, c)
  PROVE  acs' \subseteq Contract /\ archived' \subseteq Contract
BY ChoiceShape DEF Consume, TypeInv, TypeOK

\* What a choice does to the registry: nothing, or the one transfer of Settle.
LEMMA ChoiceRegistry ==
  ASSUME NEW p, NEW c, Choice(p, c)
  PROVE  \/ UNCHANGED <<now, allocState, allocSpec, balance>>
         \/ Settle(p, c)
BY DEF Choice, Accept, Reject, Retract, SubmitFulfillment, FundEscrow,
       SubmitFundedFulfillment, Approve, RequestRevision, SubmitRevision

LEMMA SettleRegistry ==
  ASSUME TypeInv, NEW p \in Parties, NEW c \in acs, Settle(p, c)
  PROVE  /\ c.alloc \in AllocIds
         /\ allocState[c.alloc] = "live"
         /\ allocState' = [allocState EXCEPT ![c.alloc] = "executed"]
         /\ allocSpec' = allocSpec
         /\ RegistryType' /\ LiveAmountsPositive' /\ now' = now
<1> USE DEF TypeInv, TypeOK, RegistryType
<1>1. c.alloc \in AllocIds
  BY DEF Settle, Contract
<1>2. allocState[c.alloc] = "live" /\ allocSpec' = allocSpec /\ now' = now
  BY <1>1 DEF Settle, ExecuteTransfer
<1>3. allocState' = [allocState EXCEPT ![c.alloc] = "executed"]
  BY <1>1 DEF Settle, ExecuteTransfer
<1>4. balance' \in [Accounts -> Nat]
  <2> DEFINE s == allocSpec[c.alloc]
             k == Account(s.receiver, s)
  <2>1. s \in Specs /\ s.amount > 0
    BY <1>1, <1>2 DEF LiveAmountsPositive
  <2>2. s.amount \in Nat /\ k \in Accounts
    BY <2>1, SpecsTyped
  <2>3. balance' = [balance EXCEPT ![k] = @ + s.amount]
    BY DEF Settle, ExecuteTransfer
  <2> HIDE DEF s, k
  <2> QED
    BY <2>2, <2>3
<1> QED
  BY <1>1, <1>2, <1>3, <1>4 DEF LiveAmountsPositive

LEMMA AllocateType ==
  ASSUME TypeInv, NEW a \in AllocIds, NEW s \in Specs, Allocate(a, s)
  PROVE  TypeInv'
<1> DEFINE k == Account(s.sender, s)
<1>1. k \in Accounts /\ s.amount \in Int /\ s.amount > 0 /\ balance[k] >= s.amount
  BY SpecsTyped DEF Allocate
<1>2. balance' = [balance EXCEPT ![k] = @ - s.amount]
  BY DEF Allocate
<1> HIDE DEF k
<1>3. balance' \in [Accounts -> Nat]
  BY <1>1, <1>2 DEF TypeInv, TypeOK
<1>4. /\ allocState' \in [AllocIds -> {"none", "live", "withdrawn", "executed"}]
      /\ allocSpec' \in [AllocIds -> Specs \cup {None}]
      /\ \A b \in AllocIds : allocState'[b] # "none" => allocSpec'[b] \in Specs
      /\ LiveAmountsPositive'
  BY <1>1 DEF Allocate, TypeInv, TypeOK, LiveAmountsPositive
<1> QED
  BY <1>3, <1>4 DEF Allocate, TypeInv, TypeOK

LEMMA WithdrawType ==
  ASSUME TypeInv, NEW a \in AllocIds, Withdraw(a)
  PROVE  TypeInv'
<1> DEFINE s == allocSpec[a]
           k == Account(s.sender, s)
<1>1. s \in Specs /\ s.amount > 0
  BY DEF Withdraw, TypeInv, TypeOK, LiveAmountsPositive
<1>2. k \in Accounts /\ s.amount \in Nat
  BY <1>1, SpecsTyped
<1>3. balance' = [balance EXCEPT ![k] = @ + s.amount]
  BY DEF Withdraw
<1> HIDE DEF s, k
<1>4. balance' \in [Accounts -> Nat]
  BY <1>2, <1>3 DEF TypeInv, TypeOK
<1> QED
  BY <1>4 DEF Withdraw, TypeInv, TypeOK, LiveAmountsPositive

LEMMA TypeInductive == TypeInv /\ [Next]_vars => TypeInv'
<1> SUFFICES ASSUME TypeInv, [Next]_vars PROVE TypeInv'
  OBVIOUS
<1>1. CASE UNCHANGED vars
  BY <1>1 DEF vars, TypeInv, TypeOK, LiveAmountsPositive
<1>2. ASSUME NEW p \in Parties, NEW r \in Roots, NEW d \in Deals, NEW t \in Terms,
             Propose(p, r, d, t)
      PROVE  TypeInv'
  BY <1>2, ProposalType DEF Propose, TypeInv, TypeOK, LiveAmountsPositive
<1>7. ASSUME NEW p \in Parties, NEW r \in Roots, NEW n \in Creations, CreateDirectly(p, r, n)
      PROVE  TypeInv'
  BY <1>7, CreatedType DEF CreateDirectly, TypeInv, TypeOK, LiveAmountsPositive
<1>3. ASSUME NEW p \in Parties, NEW c \in acs, Choice(p, c)
      PROVE  TypeInv'
  <2>1. acs' \subseteq Contract /\ archived' \subseteq Contract
    BY <1>3, ChoiceContracts
  <2>2. CASE UNCHANGED <<now, allocState, allocSpec, balance>>
    BY <2>1, <2>2 DEF TypeInv, TypeOK, LiveAmountsPositive
  <2>3. CASE Settle(p, c)
    BY <1>3, <2>1, <2>3, SettleRegistry DEF TypeInv, TypeOK, RegistryType
  <2> QED
    BY <1>3, <2>2, <2>3, ChoiceRegistry
<1>4. ASSUME NEW a \in AllocIds, NEW s \in Specs, Allocate(a, s)
      PROVE  TypeInv'
  BY <1>4, AllocateType
<1>5. ASSUME NEW a \in AllocIds, Withdraw(a)
      PROVE  TypeInv'
  BY <1>5, WithdrawType
<1>6. CASE Tick
  BY <1>6, BoundsAssumption DEF Tick, TypeInv, TypeOK, LiveAmountsPositive
<1> QED
  BY <1>1, <1>2, <1>3, <1>4, <1>5, <1>6, <1>7 DEF Next

\* The state of the ledger is well typed: no allocation, balance or contract
\* ever leaves its range, and no step of the registry makes a balance negative.
THEOREM TypeCorrect == Spec => []TypeOK
<1>1. Init => TypeInv
  BY BoundsAssumption DEF Init, TypeInv, TypeOK, LiveAmountsPositive
<1>2. TypeInv => TypeOK
  BY DEF TypeInv
<1> QED
  BY <1>1, <1>2, TypeInductive, PTL DEF Spec

-----------------------------------------------------------------------------
\* Steps and creations

\* What a party may create: an offer, or one of the contracts it signs alone.
Beginning(n) ==
  \/ n.tpl = "DealProposal" /\ n.alloc = None /\ n.round = 0
  \/ /\ n.tpl \in {"DealFulfillment", "DealRevisionRequest", "FulfillmentApproval"}
     /\ n.alloc # None => allocState[n.alloc] # "none"

\* A step that is not a choice on a contract leaves all of them alone, or adds
\* one that begins a line of its own.
LEMMA OtherSteps ==
  ASSUME [Next]_vars, ~ \E p \in Parties, c \in acs : Choice(p, c)
  PROVE  \/ UNCHANGED <<acs, archived>>
         \/ /\ UNCHANGED <<now, archived, allocState, allocSpec, balance>>
            /\ \E n \in Contract : Beginning(n) /\ Fresh(n.root) /\ acs' = acs \cup {n}
<1>1. ASSUME NEW p \in Parties, NEW r \in Roots, NEW d \in Deals, NEW t \in Terms,
             Propose(p, r, d, t)
      PROVE  /\ UNCHANGED <<now, archived, allocState, allocSpec, balance>>
             /\ \E n \in Contract : Beginning(n) /\ Fresh(n.root) /\ acs' = acs \cup {n}
  <2> DEFINE n == Proposal(r, d, t)
  <2>1. n.tpl = "DealProposal" /\ n.alloc = None /\ n.round = 0 /\ n.root = r
    BY DEF Proposal
  <2>2. n \in Contract
    BY ProposalType
  <2> QED
    BY <1>1, <2>1, <2>2 DEF Propose, Beginning
<1>2. ASSUME NEW p \in Parties, NEW r \in Roots, NEW m \in Creations, CreateDirectly(p, r, m)
      PROVE  /\ UNCHANGED <<now, archived, allocState, allocSpec, balance>>
             /\ \E n \in Contract : Beginning(n) /\ Fresh(n.root) /\ acs' = acs \cup {n}
  <2> DEFINE n == Created(r, m)
  <2>1. /\ n \in Contract /\ n.root = r /\ n.alloc = m.alloc
        /\ n.tpl \in {"DealFulfillment", "DealRevisionRequest", "FulfillmentApproval"}
    BY CreatedType
  <2>2. acs' = acs \cup {n} /\ Fresh(r) /\ (m.alloc # None => allocState[m.alloc] # "none")
    BY <1>2 DEF CreateDirectly
  <2> HIDE DEF n
  <2> QED
    BY <1>2, <2>1, <2>2 DEF CreateDirectly, Beginning
<1> QED
  BY <1>1, <1>2 DEF Next, vars, Allocate, Withdraw, Tick

\* What the registry may do to an allocation in one step.
LEMMA AllocationsMoveForward ==
  ASSUME TypeInv, [Next]_vars, NEW a \in AllocIds
  PROVE  /\ allocState[a] # "none" =>
              allocState'[a] # "none" /\ allocSpec'[a] = allocSpec[a]
         /\ allocState[a] = "executed" => allocState'[a] = "executed"
         /\ (allocState'[a] = "executed" /\ allocState[a] # "executed") =>
              \E p \in Parties, c \in acs : Settle(p, c) /\ c.alloc = a
<1> USE DEF TypeInv, TypeOK
<1>1. ASSUME NEW p \in Parties, NEW c \in acs, Choice(p, c)
      PROVE  \/ UNCHANGED <<allocState, allocSpec>>
             \/ /\ Settle(p, c) /\ c.alloc \in AllocIds
                /\ allocState[c.alloc] = "live"
                /\ allocState' = [allocState EXCEPT ![c.alloc] = "executed"]
                /\ allocSpec' = allocSpec
  BY <1>1, ChoiceRegistry, SettleRegistry
<1>2. CASE \E p \in Parties, c \in acs : Choice(p, c)
  BY <1>1, <1>2
<1>3. ASSUME NEW b \in AllocIds, NEW s \in Specs, Allocate(b, s)
      PROVE  /\ allocState[a] # "none" =>
                  allocState'[a] = allocState[a] /\ allocSpec'[a] = allocSpec[a]
             /\ allocState[a] = "none" => allocState'[a] # "executed"
  BY <1>3 DEF Allocate
<1>4. ASSUME NEW b \in AllocIds, Withdraw(b)
      PROVE  /\ allocSpec' = allocSpec
             /\ allocState[a] # "none" => allocState'[a] # "none"
             /\ allocState[a] = "executed" <=> allocState'[a] = "executed"
  BY <1>4 DEF Withdraw
<1>5. CASE \/ Tick \/ UNCHANGED vars
           \/ \E p \in Parties, r \in Roots, d \in Deals, t \in Terms : Propose(p, r, d, t)
           \/ \E p \in Parties, r \in Roots, n \in Creations : CreateDirectly(p, r, n)
  BY <1>5 DEF Tick, vars, Propose, CreateDirectly
<1> QED
  BY <1>2, <1>3, <1>4, <1>5 DEF Next

-----------------------------------------------------------------------------
\* One path per creation

\* Before funding a contract carries no allocation, so that FundEscrow gives
\* the line its first one.
OnePath ==
  /\ OneActivePerLine
  /\ HistoryBehind
  /\ \A c \in History : c.tpl \in {"DealProposal", "DealAgreement"} => c.alloc = None

LEMMA StageGrows ==
  ASSUME NEW c \in Contract, NEW n \in Contract, Follows(c, n)
  PROVE  Stage(c) \in Nat /\ Stage(n) \in Nat /\ Stage(c) < Stage(n)
<1>1. c.round \in Nat /\ n.round \in Nat
  BY BoundsAssumption DEF Contract
<1> QED
  BY <1>1 DEF Follows, Stage

LEMMA StageInt ==
  ASSUME NEW c \in Contract
  PROVE  /\ Stage(c) \in Int
         /\ Stage(c) < 1 => c.tpl = "DealProposal"
<1>1. c.round \in Int /\ c.round >= 0 /\ c.tpl \in Templates
  BY BoundsAssumption DEF Contract
<1> QED
  BY <1>1 DEF Stage, Templates

\* What two contracts of a line have in common.
Akin(x, y) ==
  x.deal = y.deal /\ x.terms = y.terms /\ (x.alloc = y.alloc \/ None \in {x.alloc, y.alloc})

LEMMA OnePathInductive == TypeInv /\ OnePath /\ [Next]_vars => OnePath'
<1> SUFFICES ASSUME TypeInv, OnePath, [Next]_vars PROVE OnePath'
  OBVIOUS
<1>0. acs \subseteq Contract /\ archived \subseteq Contract /\ History \subseteq Contract
  BY DEF TypeInv, TypeOK, History
<1>1. ASSUME NEW p \in Parties, NEW c \in acs, Choice(p, c)
      PROVE  OnePath'
  <2>1. c \in Contract /\ archived \subseteq Contract /\ c \in History
    BY <1>0 DEF History
  <2>2. CASE Consume(c, {})
    BY <2>2 DEF Consume, History, OnePath, OneActivePerLine, HistoryBehind
  <2>3. ASSUME NEW n \in Contract, Consume(c, {n}), Follows(c, n)
        PROVE  OnePath'
    <3>1. n.root = c.root
      BY <2>3 DEF Follows
    <3>2. /\ acs' = (acs \ {c}) \cup {n}
          /\ archived' = archived \cup {c}
          /\ History' = History \cup {n}
      BY <2>3 DEF Consume, History
    <3>3. Stage(c) \in Nat /\ Stage(n) \in Nat /\ Stage(c) < Stage(n)
      BY <2>1, <2>3, StageGrows
    <3>4. \A c1, c2 \in acs' : c1.root = c2.root => c1 = c2
      BY <3>1, <3>2 DEF OnePath, OneActivePerLine
    <3>5. ASSUME NEW old \in archived', NEW cur \in acs', old.root = cur.root
          PROVE  Stage(old) < Stage(cur)
      <4>1. Stage(old) \in Int
        BY <2>1, <3>2, StageInt
      <4>2. CASE cur = n /\ old # c
        <5>1. Stage(old) < Stage(c)
          BY <3>1, <3>2, <3>5, <4>2 DEF OnePath, HistoryBehind
        <5> QED
          BY <3>3, <4>1, <4>2, <5>1
      <4>3. CASE cur = n /\ old = c
        BY <3>3, <4>3
      <4>4. CASE cur # n
        BY <3>1, <3>2, <3>5, <4>4 DEF OnePath, OneActivePerLine, HistoryBehind
      <4> QED
        BY <4>2, <4>3, <4>4
    <3>6. ASSUME NEW x \in History, x.root = n.root
          PROVE  Akin(x, n)
      <4>1. Akin(x, c)
        BY <2>1, <3>1, <3>6 DEF OnePath, OneActivePerLine, Akin
      <4>2. n.deal = c.deal /\ n.terms = c.terms
        BY <2>3 DEF Follows
      <4>3. CASE n.alloc = c.alloc
        BY <4>1, <4>2, <4>3 DEF Akin
      <4>4. CASE n.alloc # c.alloc
        <5>1. c.tpl = "DealAgreement"
          BY <2>3, <4>4 DEF Follows
        <5>2. x = c \/ x.tpl = "DealProposal"
          <6>1. CASE x \in acs
            BY <3>1, <3>6, <6>1 DEF OnePath, OneActivePerLine
          <6>2. CASE x \in archived
            <7>1. Stage(x) < Stage(c) /\ x \in Contract
              BY <1>0, <3>1, <3>6, <6>2 DEF OnePath, HistoryBehind
            <7>2. Stage(c) = 1
              BY <5>1 DEF Stage
            <7> QED
              BY <7>1, <7>2, StageInt
          <6> QED
            BY <6>1, <6>2 DEF History
        <5>3. x.alloc = None
          BY <2>1, <5>1, <5>2 DEF OnePath
        <5> QED
          BY <4>1, <4>2, <5>3 DEF Akin
      <4> QED
        BY <4>3, <4>4
    <3>7. \A c1, c2 \in History' : c1.root = c2.root => Akin(c1, c2)
      <4>1. \A c1, c2 \in History : c1.root = c2.root => Akin(c1, c2)
        BY DEF OnePath, OneActivePerLine, Akin
      <4>2. \A x, y : Akin(x, y) => Akin(y, x)
        BY DEF Akin
      <4>3. Akin(n, n)
        BY DEF Akin
      <4> HIDE DEF Akin
      <4> QED
        BY <3>2, <3>6, <4>1, <4>2, <4>3
    <3>8. n.tpl \in {"DealProposal", "DealAgreement"} => n.alloc = None
      BY <2>1, <2>3 DEF Follows, OnePath
    <3>9. \A x \in History' : x.tpl \in {"DealProposal", "DealAgreement"} => x.alloc = None
      BY <3>2, <3>8 DEF OnePath
    <3> QED
      BY <3>4, <3>5, <3>7, <3>9 DEF OnePath, OneActivePerLine, HistoryBehind, Akin
  <2> QED
    BY <1>1, <2>2, <2>3, ChoiceShape
<1>2. CASE UNCHANGED <<acs, archived>>
  BY <1>2 DEF History, OnePath, OneActivePerLine, HistoryBehind
<1>3. ASSUME NEW n \in Contract, Beginning(n), Fresh(n.root),
             acs' = acs \cup {n}, archived' = archived
      PROVE  OnePath'
  <2>1. History' = History \cup {n} /\ \A c \in History : c.root # n.root
    BY <1>3 DEF History, Fresh
  <2>2. n.tpl \in {"DealProposal", "DealAgreement"} => n.alloc = None
    BY <1>3 DEF Beginning
  <2>3. OneActivePerLine'
    BY <1>3, <2>1 DEF OnePath, OneActivePerLine, History
  <2>4. HistoryBehind'
    BY <1>3, <2>1 DEF OnePath, HistoryBehind, History
  <2> QED
    BY <2>1, <2>2, <2>3, <2>4 DEF OnePath
<1> QED
  BY <1>1, <1>2, <1>3, OtherSteps

\* Whatever the parties submit, contracts they create past the choices included,
\* the descendants of one creation never fork, never return to a stage they have
\* left, and keep the deal, the terms and the allocation they were given.
THEOREM LinesNeverFork == Spec => [](OneActivePerLine /\ HistoryBehind)
<1>1. Init => TypeInv /\ OnePath
  BY BoundsAssumption DEF Init, TypeInv, TypeOK, LiveAmountsPositive,
     History, OnePath, OneActivePerLine, HistoryBehind
<1>2. OnePath => OneActivePerLine /\ HistoryBehind
  BY DEF OnePath
<1> QED
  BY <1>1, <1>2, TypeInductive, OnePathInductive, PTL DEF Spec

-----------------------------------------------------------------------------
\* Offers and orderly deals

\* No contract of the past is forgotten.
LEMMA HistoryGrows ==
  ASSUME TypeInv, [Next]_vars
  PROVE  /\ archived \subseteq archived'
         /\ \A c \in acs : c.tpl = "SettlementReceipt" => c \in acs'
         /\ History \subseteq History'
<1>1. ASSUME NEW p \in Parties, NEW c \in acs, Choice(p, c)
      PROVE  /\ archived \subseteq archived'
             /\ \A r \in acs : r.tpl = "SettlementReceipt" => r \in acs'
             /\ History \subseteq History'
  BY <1>1, ChoiceShape DEF Consume, Follows, History, Retractable
<1> QED
  BY <1>1, OtherSteps DEF History

\* A contract carries an allocation only once that exists.
CarriedExist == \A c \in History : c.alloc # None => allocState[c.alloc] # "none"

LEMMA NewContract ==
  ASSUME TypeInv, [Next]_vars, NEW n \in History', n \notin History
  PROVE  \/ \E p \in Parties, c \in acs :
              Choice(p, c) /\ n \in Contract /\ Consume(c, {n}) /\ Follows(c, n)
         \/ /\ UNCHANGED <<now, archived, allocState, allocSpec, balance>>
            /\ n \in Contract /\ Beginning(n) /\ Fresh(n.root) /\ acs' = acs \cup {n}
<1>1. CASE \E p \in Parties, c \in acs : Choice(p, c)
  <2> PICK p \in Parties, c \in acs : Choice(p, c)
    BY <1>1
  <2>1. c \in History
    BY DEF History
  <2>2. CASE Consume(c, {})
    BY <2>1, <2>2 DEF Consume, History
  <2>3. ASSUME NEW m \in Contract, Consume(c, {m}), Follows(c, m)
        PROVE  n \in Contract /\ Consume(c, {n}) /\ Follows(c, n)
    BY <2>1, <2>3 DEF Consume, History
  <2> QED
    BY <2>2, <2>3, ChoiceShape
<1>2. CASE ~ \E p \in Parties, c \in acs : Choice(p, c)
  BY <1>2, OtherSteps DEF History
<1> QED
  BY <1>1, <1>2

LEMMA CarriedInductive == TypeInv /\ CarriedExist /\ [Next]_vars => CarriedExist'
<1> SUFFICES ASSUME TypeInv, CarriedExist, [Next]_vars,
                    NEW n \in History', n.alloc # None
             PROVE  allocState'[n.alloc] # "none"
  BY DEF CarriedExist
<1>1. n.alloc \in AllocIds /\ allocState[n.alloc] # "none"
  <2>1. CASE n \in History
    BY <2>1 DEF CarriedExist, TypeInv, TypeOK, History, Contract
  <2>2. CASE n \notin History
    <3>1. n \in Contract
      BY <2>2, NewContract
    <3>2. ASSUME NEW c \in acs, Follows(c, n)
          PROVE  allocState[n.alloc] # "none"
      BY <3>2 DEF Follows, CarriedExist, History
    <3>3. ASSUME Beginning(n)
          PROVE  allocState[n.alloc] # "none"
      BY <3>3 DEF Beginning
    <3>4. allocState[n.alloc] # "none"
      BY <2>2, <3>2, <3>3, NewContract
    <3> QED
      BY <3>1, <3>4 DEF Contract
  <2> QED
    BY <2>1, <2>2
<1> QED
  BY <1>1, AllocationsMoveForward

\* A line that began with an offer always did; one that did not never will.
LEMMA OffersKept ==
  ASSUME TypeInv, [Next]_vars
  PROVE  /\ \A c \in History : FromOffer(c)' <=> FromOffer(c)
         /\ OfferLines \subseteq OfferLines'
<1>1. OfferLines \subseteq OfferLines'
  BY HistoryGrows DEF OfferLines
<1>2. ASSUME NEW c \in History, c.root \in OfferLines'
      PROVE  c.root \in OfferLines
  <2>1. PICK x \in History' : x.tpl = "DealProposal" /\ x.root = c.root
    BY <1>2 DEF OfferLines
  <2>2. CASE x \in History
    BY <2>1, <2>2 DEF OfferLines
  <2>3. CASE x \notin History
    BY <2>1, <2>3, NewContract DEF Follows, Fresh
  <2> QED
    BY <2>2, <2>3
<1> QED
  BY <1>1, <1>2 DEF FromOffer

LEMMA TouchesKept ==
  ASSUME TypeInv, CarriedExist, [Next]_vars, NEW c \in History, NEW d
  PROVE  Touches(c, d)' <=> Touches(c, d)
<1>1. c.alloc # None => c.alloc \in AllocIds /\ allocState[c.alloc] # "none"
  BY DEF CarriedExist, TypeInv, TypeOK, History, Contract
<1> QED
  BY <1>1, AllocationsMoveForward DEF Touches

\* Only a creation can take the order from a deal, and nothing restores it.
LEMMA OrderLost ==
  ASSUME TypeInv, CarriedExist, [Next]_vars, NEW d, Orderly(d)'
  PROVE  Orderly(d)
<1>1. Lines(d) \subseteq Lines(d)'
  BY HistoryGrows, TouchesKept DEF Lines
<1>2. ASSUME NEW r \in Lines(d) PROVE r \in OfferLines
  <2>1. PICK c \in History : c.root = r
    BY DEF Lines
  <2>2. FromOffer(c)'
    BY <1>1, <2>1 DEF Orderly, FromOffer
  <2> QED
    BY <2>1, <2>2, OffersKept DEF FromOffer
<1> QED
  BY <1>1, <1>2 DEF Orderly

LEMMA OrderKept ==
  ASSUME TypeInv, CarriedExist, [Next]_vars, NEW d,
         \A n \in History' \ History :
           Touches(n, d)' => \E c \in History : c.root = n.root /\ Touches(c, d)
  PROVE  Orderly(d)' <=> Orderly(d)
<1>1. Lines(d)' = Lines(d)
  <2>1. Lines(d) \subseteq Lines(d)'
    BY HistoryGrows, TouchesKept DEF Lines
  <2>2. ASSUME NEW n \in History', Touches(n, d)'
        PROVE  n.root \in Lines(d)
    <3>1. CASE n \in History
      BY <2>2, <3>1, TouchesKept DEF Lines
    <3>2. CASE n \notin History
      BY <2>2, <3>2 DEF Lines
    <3> QED
      BY <3>1, <3>2
  <2> QED
    BY <2>1, <2>2 DEF Lines
<1>2. Orderly(d) => Orderly(d)'
  BY <1>1, OffersKept DEF Orderly
<1> QED
  BY <1>2, OrderLost

LEMMA ChoiceKeepsOrder ==
  ASSUME TypeInv, CarriedExist, [Next]_vars, NEW p \in Parties, NEW c \in acs, Choice(p, c), NEW d
  PROVE  Orderly(d)' <=> Orderly(d)
<1>1. ASSUME NEW n \in Contract, Follows(c, n), Touches(n, d)'
      PROVE  Touches(c, d)
  <2>1. n.deal = c.deal /\ n.root = c.root
    BY <1>1 DEF Follows
  <2>2. CASE n.tpl = "DealEscrow"
    <3>1. n.alloc \in AllocIds /\ allocState[n.alloc] # "none" /\ allocSpec[n.alloc].deal = c.deal
      BY <1>1, <2>2 DEF Follows, SpecFits
    <3>2. allocSpec'[n.alloc] = allocSpec[n.alloc]
      BY <3>1, AllocationsMoveForward
    <3> QED
      BY <1>1, <2>1, <3>1, <3>2 DEF Touches
  <2>3. CASE n.tpl # "DealEscrow"
    <3>1. n.alloc = c.alloc
      BY <1>1, <2>3 DEF Follows
    <3>2. Touches(c, d)'
      BY <1>1, <2>1, <3>1 DEF Touches
    <3> QED
      BY <3>2, TouchesKept DEF History
  <2> QED
    BY <2>2, <2>3
<1>2. ASSUME NEW n \in History' \ History, Touches(n, d)'
      PROVE  \E x \in History : x.root = n.root /\ Touches(x, d)
  <2>1. n \in Contract /\ Follows(c, n)
    <3>1. c \in History
      BY DEF History
    <3>2. CASE Consume(c, {})
      BY <3>1, <3>2 DEF Consume, History
    <3>3. ASSUME NEW m \in Contract, Consume(c, {m}), Follows(c, m)
          PROVE  n \in Contract /\ Follows(c, n)
      BY <3>1, <3>3 DEF Consume, History
    <3> QED
      BY <3>2, <3>3, ChoiceShape
  <2>2. Touches(c, d) /\ c.root = n.root /\ c \in History
    BY <1>1, <1>2, <2>1 DEF Follows, History
  <2> QED
    BY <2>2
<1> QED
  BY <1>2, OrderKept

-----------------------------------------------------------------------------
\* Escrow and payment

\* Agreements and escrows need both signatures, so they descend from an offer.
EscrowShape ==
  /\ EscrowBacked
  /\ FundedBeforeWork
  /\ CarriedExist
  /\ \A c \in History : c.tpl \in {"DealProposal", "DealAgreement"} => c.alloc = None
  /\ \A c \in History : c.tpl \in {"DealAgreement", "DealEscrow"} => FromOffer(c)

LEMMA ProposalsOffer == \A c \in History : c.tpl = "DealProposal" => FromOffer(c)
BY DEF FromOffer, OfferLines

LEMMA EscrowShapeInductive == TypeInv /\ EscrowShape /\ [Next]_vars => EscrowShape'
<1> SUFFICES ASSUME TypeInv, EscrowShape, [Next]_vars PROVE EscrowShape'
  OBVIOUS
<1> DEFINE Sound(c) ==
      /\ c.tpl = "DealEscrow" \/ (FromOffer(c) /\ c.alloc # None) =>
           /\ c.alloc # None
           /\ allocState[c.alloc] # "none"
           /\ SpecFits(allocSpec[c.alloc], c.deal, c.terms)
      /\ (FromOffer(c) /\ c.tpl \notin {"DealProposal", "DealAgreement"}) =>
           (c.alloc # None <=> UsesEscrow(c.terms))
      /\ c.tpl \in {"DealProposal", "DealAgreement"} => c.alloc = None
      /\ c.tpl \in {"DealAgreement", "DealEscrow"} => FromOffer(c)
<1>1. \A c \in History : Sound(c)
  BY DEF EscrowShape, EscrowBacked, FundedBeforeWork
<1>2. History \subseteq Contract
  BY DEF TypeInv, TypeOK, History
<1>3. ASSUME NEW c \in Contract, Sound(c), FromOffer(c)' <=> FromOffer(c)
      PROVE  Sound(c)'
  <2>1. c.alloc \in AllocIds \/ c.alloc = None
    BY DEF Contract
  <2>2. CASE c.alloc \in AllocIds /\ allocState[c.alloc] # "none"
    <3>1. allocState'[c.alloc] # "none" /\ allocSpec'[c.alloc] = allocSpec[c.alloc]
      BY <2>2, AllocationsMoveForward
    <3> QED
      BY <1>3, <3>1
  <2>3. CASE c.alloc = None \/ allocState[c.alloc] = "none"
    <3>1. c.tpl # "DealEscrow" /\ ~ (FromOffer(c) /\ c.alloc # None)
      BY <1>3, <2>3
    <3> QED
      BY <1>3, <3>1
  <2> QED
    BY <2>1, <2>2, <2>3
<1>4. ASSUME NEW n \in History' PROVE Sound(n)'
  <2>1. CASE n \in History
    <3>1. n \in Contract /\ Sound(n) /\ (FromOffer(n)' <=> FromOffer(n))
      BY <1>1, <1>2, <2>1, OffersKept
    <3> QED
      BY <1>3, <3>1
  <2>2. CASE n \notin History
    <3>1. ASSUME NEW c \in acs, n \in Contract, Follows(c, n)
          PROVE  Sound(n)'
      <4>1. Sound(c) /\ c \in Contract /\ c \in History /\ n.root = c.root
        BY <1>1, <1>2, <3>1 DEF History, Follows
      <4>2. c.tpl = "DealProposal" => FromOffer(c)
        BY <4>1, ProposalsOffer
      <4>3. FromOffer(n) <=> FromOffer(c)
        BY <4>1 DEF FromOffer
      <4>4. Sound(n)
        <5> HIDE DEF FromOffer, SpecFits, UsesEscrow
        <5>1. CASE n.tpl = "DealEscrow"
          BY <3>1, <4>1, <4>2, <4>3, <5>1, NoneAssumption DEF Follows
        <5>2. CASE n.tpl # "DealEscrow"
          BY <3>1, <4>1, <4>2, <4>3, <5>2, NoneAssumption DEF Follows
        <5> QED
          BY <5>1, <5>2
      <4>5. FromOffer(n)' <=> FromOffer(n)
        BY <4>1, OffersKept DEF FromOffer
      <4> HIDE DEF Sound
      <4> QED
        BY <3>1, <4>4, <4>5, <1>3
    <3>2. ASSUME n \in Contract, Beginning(n), Fresh(n.root), acs' = acs \cup {n}, archived' = archived
          PROVE  Sound(n)'
      <4>1. CASE n.tpl = "DealProposal"
        BY <3>2, <4>1 DEF Beginning
      <4>2. CASE n.tpl # "DealProposal"
        <5>1. ~ FromOffer(n)'
          BY <3>2, <4>2 DEF FromOffer, OfferLines, Fresh, History
        <5> QED
          BY <3>2, <4>2, <5>1 DEF Beginning
      <4> QED
        BY <4>1, <4>2
    <3> QED
      BY <2>2, <3>1, <3>2, NewContract
  <2> QED
    BY <2>1, <2>2
<1>5. CarriedExist'
  BY CarriedInductive DEF EscrowShape
<1> QED
  BY <1>4, <1>5 DEF EscrowShape, EscrowBacked, FundedBeforeWork

\* Every escrow, and every fulfillment, revision request, approval and receipt
\* that descends from an offer with a registry, carries an allocation that fits
\* the agreed terms, and escrowed work on an offer never starts without one: the
\* checks of FundEscrow and the refusal of SubmitFulfillment are enough, for any
\* allocation a wallet makes and whatever else the parties create.
THEOREM EscrowIsBacked == Spec => [](EscrowBacked /\ FundedBeforeWork)
<1>1. Init => TypeInv /\ EscrowShape
  BY BoundsAssumption DEF Init, TypeInv, TypeOK, LiveAmountsPositive,
     EscrowShape, EscrowBacked, FundedBeforeWork, CarriedExist, History
<1>2. EscrowShape => EscrowBacked /\ FundedBeforeWork
  BY DEF EscrowShape
<1> QED
  BY <1>1, <1>2, TypeInductive, EscrowShapeInductive, PTL DEF Spec

\* An approval that descends from an offer follows a fulfillment of its round.
ApprovalsReviewed ==
  \A c \in History :
    (FromOffer(c) /\ c.tpl = "FulfillmentApproval") => Successor(c, "DealFulfillment") \in archived

\* No two receipts stand for one allocation.
ReceiptsApart ==
  \A c1, c2 \in History :
    (c1.tpl = "SettlementReceipt" /\ c2.tpl = "SettlementReceipt"
       /\ c1.alloc = c2.alloc) => c1 = c2

PayInv == PaidExactlyWhenApproved /\ ApprovalsReviewed /\ ReceiptsApart

\* The receipt c of the executed allocation a.
Receipt(c, a) ==
  /\ c.tpl = "SettlementReceipt"
  /\ c.alloc = a
  /\ Successor(c, "FulfillmentApproval") \in archived
  /\ {allocSpec[a].sender, allocSpec[a].receiver} \subseteq {c.terms.reviewer, c.terms.fulfiller}
  /\ Orderly(allocSpec[a].deal) =>
       /\ SpecFits(allocSpec[a], c.deal, c.terms)
       /\ Successor(c, "DealFulfillment") \in archived

LEMMA SuccessorBack ==
  ASSUME NEW c \in Contract, NEW n \in Contract,
         n.deal = c.deal, n.terms = c.terms, n.round = c.round, n.alloc = c.alloc,
         n.root = c.root
  PROVE  /\ n = Successor(c, n.tpl)
         /\ c = Successor(n, c.tpl)
         /\ \A tpl \in Templates : Successor(n, tpl) = Successor(c, tpl)
BY DEF Contract, Successor

\* An allocation of an orderly deal that a contract carries is of that contract's
\* deal and fits its terms.
LEMMA OrderlyFits ==
  ASSUME EscrowShape, NEW c \in History, c.alloc # None, Orderly(allocSpec[c.alloc].deal)
  PROVE  /\ FromOffer(c)
         /\ SpecFits(allocSpec[c.alloc], c.deal, c.terms)
         /\ c.deal = allocSpec[c.alloc].deal
<1>1. FromOffer(c)
  BY DEF Orderly, Lines, Touches, FromOffer
<1> QED
  BY <1>1 DEF EscrowShape, EscrowBacked, SpecFits

\* What only Settle creates, and only from an approval.
LEMMA ReceiptIsSettled ==
  ASSUME NEW p \in Parties, NEW c \in acs, Choice(p, c), NEW n, n \notin acs,
         Consume(c, {n}), Follows(c, n), n.tpl = "SettlementReceipt"
  PROVE  Settle(p, c) /\ n.alloc = c.alloc /\ c.alloc # None
<1>1. c.tpl = "FulfillmentApproval" /\ n.alloc = c.alloc /\ c.alloc # None
  BY DEF Follows
<1>2. ~ Retract(p, c)
  BY DEF Retract, Consume
<1>3. Settle(p, c)
  BY <1>1, <1>2 DEF Choice, Accept, Reject, SubmitFulfillment, FundEscrow,
     SubmitFundedFulfillment, Approve, RequestRevision, SubmitRevision
<1> QED
  BY <1>1, <1>3

LEMMA PayInductive == TypeInv /\ EscrowShape /\ PayInv /\ [Next]_vars => PayInv'
<1> SUFFICES ASSUME TypeInv, EscrowShape, PayInv, [Next]_vars PROVE PayInv'
  OBVIOUS
<1>0. /\ acs \subseteq Contract /\ archived \subseteq Contract /\ History \subseteq Contract
      /\ CarriedExist
  BY DEF TypeInv, TypeOK, History, EscrowShape
<1>1. ASSUME NEW a \in AllocIds, allocState'[a] = "executed"
      PROVE  \E c \in acs' : Receipt(c, a)'
  <2>1. CASE allocState[a] = "executed"
    <3>1. PICK c \in acs : Receipt(c, a)
      BY <2>1 DEF PayInv, PaidExactlyWhenApproved, Receipt
    <3>2. c \in acs' /\ archived \subseteq archived'
      BY <3>1, HistoryGrows DEF Receipt
    <3>3. allocSpec'[a] = allocSpec[a]
      BY <2>1, AllocationsMoveForward
    <3>4. Orderly(allocSpec[a].deal)' => Orderly(allocSpec[a].deal)
      <4> DEFINE d == allocSpec[a].deal
      <4>1. \A e : Orderly(e)' => Orderly(e)
        BY <1>0, OrderLost
      <4>2. PICK e : e = allocSpec[a].deal /\ e = allocSpec'[a].deal
        BY <3>3
      <4>3. Orderly(e)' => Orderly(e)
        BY <4>1
      <4> QED
        BY <4>2, <4>3 DEF Orderly, Lines, Touches
    <3>5. Receipt(c, a)'
      <4> HIDE DEF Orderly
      <4> QED
        BY <3>1, <3>2, <3>3, <3>4 DEF Receipt
    <3> QED
      BY <3>2, <3>5
  <2>2. CASE allocState[a] # "executed"
    <3>1. PICK p \in Parties, c \in acs : Settle(p, c) /\ c.alloc = a
      BY <1>1, <2>2, AllocationsMoveForward
    <3> DEFINE n == Successor(c, "SettlementReceipt")
    <3>2. c \in Contract /\ c \in History /\ c.tpl = "FulfillmentApproval" /\ c.alloc # None
      BY <1>0, <3>1 DEF Settle, History
    <3>3. /\ n \in Contract /\ n.tpl = "SettlementReceipt" /\ n.deal = c.deal
          /\ n.terms = c.terms /\ n.round = c.round /\ n.alloc = c.alloc /\ n.root = c.root
      BY <3>2, SuccessorType DEF Templates
    <3>4. n \in acs' /\ c \in archived'
      BY <3>1 DEF Settle, Consume
    <3> HIDE DEF n
    <3>5. c = Successor(n, "FulfillmentApproval")
      BY <3>2, <3>3, SuccessorBack
    <3>6. Successor(n, "DealFulfillment") = Successor(c, "DealFulfillment")
      BY <3>2, <3>3, SuccessorBack DEF Templates
    <3>7. allocSpec' = allocSpec
      BY <3>1 DEF Settle
    <3>8. {allocSpec[a].sender, allocSpec[a].receiver} \subseteq {c.terms.reviewer, c.terms.fulfiller}
      BY <3>1 DEF Settle, ExecuteTransfer
    <3>9. ASSUME Orderly(allocSpec[a].deal)'
          PROVE  /\ SpecFits(allocSpec[a], c.deal, c.terms)
                 /\ Successor(c, "DealFulfillment") \in archived'
      <4>1. PICK d : d = allocSpec[a].deal
        OBVIOUS
      <4>2. Orderly(d)'
        BY <3>7, <3>9, <4>1 DEF Orderly, Lines, Touches
      <4>3. Orderly(allocSpec[c.alloc].deal)
        BY <1>0, <3>1, <4>1, <4>2, OrderLost
      <4>4. FromOffer(c) /\ SpecFits(allocSpec[c.alloc], c.deal, c.terms)
        BY <3>2, <4>3, OrderlyFits
      <4>5. Successor(c, "DealFulfillment") \in archived'
        BY <3>2, <4>4, HistoryGrows DEF PayInv, ApprovalsReviewed
      <4> QED
        BY <3>1, <4>4, <4>5
    <3>10. Receipt(n, a)'
      <4> HIDE DEF Orderly, SpecFits
      <4> QED
        BY <3>1, <3>3, <3>4, <3>5, <3>6, <3>7, <3>8, <3>9 DEF Receipt
    <3> QED
      BY <3>4, <3>10
  <2> QED
    BY <2>1, <2>2
<1>2. ASSUME NEW n \in History', n.tpl = "SettlementReceipt", n \notin History
      PROVE  \E p \in Parties, c \in acs :
               /\ Settle(p, c) /\ n \in acs' /\ n.alloc = c.alloc
               /\ Consume(c, {n})
  <2>1. ~ Beginning(n)
    BY <1>2 DEF Beginning
  <2>2. PICK p \in Parties, c \in acs : Choice(p, c) /\ Consume(c, {n}) /\ Follows(c, n)
    BY <1>2, <2>1, NewContract
  <2>3. n \notin acs /\ n \in acs'
    BY <1>2, <2>2 DEF Consume, History
  <2> QED
    BY <1>2, <2>2, <2>3, ReceiptIsSettled
<1>3. ASSUME NEW n \in History', n.tpl = "SettlementReceipt"
      PROVE  /\ n \in acs' /\ n.alloc # None
             /\ allocState'[n.alloc] = "executed"
  <2>1. CASE n \in History
    <3>1. n \in acs /\ n.alloc # None /\ allocState[n.alloc] = "executed"
      BY <1>3, <2>1 DEF PayInv, PaidExactlyWhenApproved
    <3>2. n.alloc \in AllocIds
      BY <1>0, <3>1 DEF Contract
    <3> QED
      BY <1>3, <3>1, <3>2, HistoryGrows, AllocationsMoveForward
  <2>2. CASE n \notin History
    <3>1. PICK p \in Parties, c \in acs : Settle(p, c) /\ n \in acs' /\ n.alloc = c.alloc
      BY <1>2, <1>3, <2>2
    <3>2. /\ c.alloc \in AllocIds
          /\ allocState' = [allocState EXCEPT ![c.alloc] = "executed"]
      BY <3>1, SettleRegistry
    <3> QED
      BY <3>1, <3>2, NoneAssumption DEF TypeInv, TypeOK
  <2> QED
    BY <2>1, <2>2
<1>4. ASSUME NEW n \in History', n.tpl = "FulfillmentApproval", FromOffer(n)'
      PROVE  Successor(n, "DealFulfillment") \in archived'
  <2>1. CASE n \in History
    BY <1>4, <2>1, HistoryGrows, OffersKept DEF PayInv, ApprovalsReviewed
  <2>2. CASE n \notin History
    <3>1. ASSUME NEW c \in acs, n \in Contract, Consume(c, {n}), Follows(c, n)
          PROVE  Successor(n, "DealFulfillment") \in archived'
      <4>1. /\ c.tpl = "DealFulfillment" /\ n.deal = c.deal /\ n.terms = c.terms
            /\ n.round = c.round /\ n.alloc = c.alloc /\ n.root = c.root
        BY <1>4, <3>1 DEF Follows
      <4>2. c = Successor(n, "DealFulfillment")
        BY <1>0, <3>1, <4>1, SuccessorBack
      <4> QED
        BY <3>1, <4>2 DEF Consume
    <3>2. ASSUME Fresh(n.root), acs' = acs \cup {n}, archived' = archived
          PROVE  FALSE
      BY <1>4, <3>2 DEF FromOffer, OfferLines, Fresh, History
    <3> QED
      BY <2>2, <3>1, <3>2, NewContract
  <2> QED
    BY <2>1, <2>2
<1>5. ASSUME NEW c1 \in History', NEW c2 \in History',
             c1.tpl = "SettlementReceipt", c2.tpl = "SettlementReceipt", c1.alloc = c2.alloc
      PROVE  c1 = c2
  <2>1. ASSUME NEW x \in History, NEW n \in History', n \notin History,
               x.tpl = "SettlementReceipt", n.tpl = "SettlementReceipt", x.alloc = n.alloc
        PROVE  FALSE
    <3>1. PICK p \in Parties, c \in acs : Settle(p, c) /\ n.alloc = c.alloc
      BY <1>2, <2>1
    <3>2. allocState[n.alloc] = "live"
      BY <3>1, SettleRegistry
    <3>3. allocState[x.alloc] = "executed"
      BY <2>1 DEF PayInv, PaidExactlyWhenApproved
    <3> QED
      BY <2>1, <3>2, <3>3
  <2>2. CASE c1 \in History /\ c2 \in History
    BY <1>5, <2>2 DEF PayInv, ReceiptsApart
  <2>3. CASE c1 \notin History /\ c2 \notin History
    <3>1. PICK c \in acs : Consume(c, {c1})
      BY <1>2, <1>5, <2>3
    <3>2. c2 \in acs'
      BY <1>3, <1>5
    <3> QED
      BY <2>3, <3>1, <3>2 DEF Consume, History
  <2> QED
    BY <1>5, <2>1, <2>2, <2>3
<1>6. PaidExactlyWhenApproved'
  BY <1>1, <1>3 DEF PaidExactlyWhenApproved, Receipt
<1> QED
  BY <1>4, <1>5, <1>6 DEF PayInv, ApprovalsReviewed, ReceiptsApart

LEMMA PayStart == Init => TypeInv /\ EscrowShape /\ PayInv
BY BoundsAssumption DEF Init, TypeInv, TypeOK, LiveAmountsPositive,
   PayInv, PaidExactlyWhenApproved, ApprovalsReviewed, ReceiptsApart, History,
   EscrowShape, EscrowBacked, FundedBeforeWork, CarriedExist

\* No allocation is executed but by settling an approval its reviewer signed,
\* between the parties it names, even if the parties create contracts past the
\* choices; for an orderly deal the receipt is the deal's own and its delivery
\* came first.  Every receipt stands for an executed allocation.
THEOREM PaymentNeedsApproval == Spec => []PaidExactlyWhenApproved
<1>1. PayInv => PaidExactlyWhenApproved
  BY DEF PayInv
<1> QED
  BY <1>1, PayStart, TypeInductive, EscrowShapeInductive, PayInductive, PTL DEF Spec

LEMMA PaysOnce == PayInv /\ OnePath => NoDoubleSettlement
<1> SUFFICES ASSUME PayInv, OnePath,
                    NEW a \in AllocIds, NEW b \in AllocIds,
                    allocState[a] = "executed", allocState[b] = "executed",
                    allocSpec[a].deal = allocSpec[b].deal, Orderly(allocSpec[a].deal)
             PROVE  a = b
  BY DEF NoDoubleSettlement, PayInv, ReceiptsApart
<1>1. PICK c \in acs : c.alloc = a /\ SpecFits(allocSpec[a], c.deal, c.terms)
  BY DEF PayInv, PaidExactlyWhenApproved
<1>2. PICK e \in acs : e.alloc = b /\ SpecFits(allocSpec[b], e.deal, e.terms)
  BY DEF PayInv, PaidExactlyWhenApproved
<1>3. c.deal = allocSpec[a].deal /\ e.deal = allocSpec[a].deal
  BY <1>1, <1>2 DEF SpecFits
<1>4. c.root = e.root
  BY <1>3 DEF Orderly, Lines, Touches, History
<1>5. c = e
  BY <1>4 DEF OnePath, OneActivePerLine
<1> QED
  BY <1>1, <1>2, <1>5

LEMMA PathStart == Init => OnePath
BY DEF Init, History, OnePath, OneActivePerLine, HistoryBehind

\* No allocation is claimed by two receipts, and two executed allocations never
\* name one orderly deal: it is paid at most once.
THEOREM PaidAtMostOnce == Spec => []NoDoubleSettlement
BY PayStart, PathStart, PaysOnce, TypeInductive, PayInductive, EscrowShapeInductive,
   OnePathInductive, PTL DEF Spec

-----------------------------------------------------------------------------
\* Revision rounds

\* Funding changes the allocation a line carries, so the rounds before it must
\* be none: this is what the induction needs besides the property.
RoundsInv ==
  /\ RoundsAreRequested
  /\ \A c \in History :
       c.tpl \in {"DealProposal", "DealAgreement", "DealEscrow"} => c.round = 0

LEMMA RoundsInductive == TypeInv /\ RoundsInv /\ [Next]_vars => RoundsInv'
<1> SUFFICES ASSUME TypeInv, RoundsInv, [Next]_vars PROVE RoundsInv'
  OBVIOUS
<1> DEFINE Asked(x, q, r) ==
      q.tpl = "DealRevisionRequest" /\ q.root = x.root /\ q.alloc = x.alloc /\ q.round = r
<1>0. History \subseteq Contract /\ archived \subseteq archived' /\ acs \subseteq History
  BY HistoryGrows DEF TypeInv, TypeOK, History
<1>1. ASSUME NEW x \in History, FromOffer(x)', NEW r \in 0 .. x.round - 1
      PROVE  \E q \in archived' : Asked(x, q, r)
  BY <1>0, <1>1, OffersKept DEF RoundsInv, RoundsAreRequested
<1>2. ASSUME NEW c \in acs, NEW n \in Contract, Consume(c, {n}), Follows(c, n)
      PROVE  /\ n.tpl \in {"DealProposal", "DealAgreement", "DealEscrow"} => n.round = 0
             /\ FromOffer(n)' => \A r \in 0 .. n.round - 1 : \E q \in archived' : Asked(n, q, r)
  <2>1. c.round \in Nat /\ n.round \in Nat /\ n.root = c.root /\ c \in archived' /\ c \in History
    BY <1>0, <1>2, BoundsAssumption DEF Contract, Follows, Consume
  <2>2. n.tpl \in {"DealProposal", "DealAgreement", "DealEscrow"} => n.round = 0
    BY <1>2, <2>1 DEF Follows, RoundsInv
  <2>3. ASSUME FromOffer(n)', NEW r \in 0 .. n.round - 1
        PROVE  \E q \in archived' : Asked(n, q, r)
    <3>1. FromOffer(c)'
      BY <2>1, <2>3 DEF FromOffer
    <3>2. CASE c.tpl = "DealRevisionRequest" /\ r = c.round
      BY <1>2, <2>1, <3>2 DEF Follows
    <3>3. CASE r < c.round
      <4>1. n.alloc = c.alloc
        BY <1>2, <2>1, <2>3, <3>3 DEF Follows, RoundsInv
      <4>2. r \in 0 .. c.round - 1
        BY <2>1, <2>3, <3>3
      <4>3. PICK q \in archived' : Asked(c, q, r)
        BY <1>1, <2>1, <3>1, <4>2
      <4> QED
        BY <2>1, <4>1, <4>3
    <3>4. r < c.round \/ (c.tpl = "DealRevisionRequest" /\ r = c.round)
      BY <1>2, <2>1, <2>3 DEF Follows
    <3> QED
      BY <3>2, <3>3, <3>4
  <2> QED
    BY <2>2, <2>3
<1>3. ASSUME NEW n \in Contract, Beginning(n), Fresh(n.root), acs' = acs \cup {n}, archived' = archived
      PROVE  /\ n.tpl \in {"DealProposal", "DealAgreement", "DealEscrow"} => n.round = 0
             /\ FromOffer(n)' => \A r \in 0 .. n.round - 1 : \E q \in archived' : Asked(n, q, r)
  <2>1. CASE n.tpl = "DealProposal"
    BY <1>3, <2>1 DEF Beginning
  <2>2. CASE n.tpl # "DealProposal"
    <3>1. ~ FromOffer(n)'
      BY <1>3, <2>2 DEF FromOffer, OfferLines, Fresh, History
    <3> QED
      BY <1>3, <2>2, <3>1 DEF Beginning
  <2> QED
    BY <2>1, <2>2
<1>4. ASSUME NEW n \in History'
      PROVE  /\ n.tpl \in {"DealProposal", "DealAgreement", "DealEscrow"} => n.round = 0
             /\ FromOffer(n)' => \A r \in 0 .. n.round - 1 : \E q \in archived' : Asked(n, q, r)
  <2>1. CASE n \in History
    BY <1>1, <2>1 DEF RoundsInv
  <2>2. CASE n \notin History
    BY <1>2, <1>3, <2>2, NewContract
  <2> QED
    BY <2>1, <2>2
<1> QED
  BY <1>4 DEF RoundsInv, RoundsAreRequested

\* The revision counter is honest: a fulfillment of round r that descends from
\* an offer follows r requests of the reviewer, one per earlier round and all on
\* the escrow it carries, so SubmitRevision cannot skip or repeat a round.
THEOREM RoundsHonest == Spec => []RoundsAreRequested
<1>1. Init => TypeInv /\ RoundsInv
  BY BoundsAssumption DEF Init, TypeInv, TypeOK, LiveAmountsPositive,
     RoundsInv, RoundsAreRequested, History
<1>2. RoundsInv => RoundsAreRequested
  BY DEF RoundsInv
<1> QED
  BY <1>1, <1>2, TypeInductive, RoundsInductive, PTL DEF Spec

-----------------------------------------------------------------------------
\* Refinement: the contracts implement EscrowPromise

\* What the refinement mapping needs to know of a state.
PromiseInv == TypeInv /\ OnePath /\ EscrowShape /\ PayInv

LEMMA PromiseInductive == PromiseInv /\ [Next]_vars => PromiseInv'
BY TypeInductive, OnePathInductive, EscrowShapeInductive, PayInductive DEF PromiseInv

\* An orderly deal has at most one active contract, and stands where that is,
\* before a step and after it.
LEMMA PhaseAt ==
  ASSUME OneActivePerLine, NEW c \in acs, Orderly(c.deal)
  PROVE  /\ DealPhase(c.deal) = PhaseOf[c.tpl]
         /\ \A e \in acs : e.deal = c.deal => e = c
<1>1. \A e \in acs : e.deal = c.deal => e = c
  BY DEF Orderly, Lines, Touches, History, OneActivePerLine
<1>2. (CHOOSE e \in acs : e.deal = c.deal) = c
  BY <1>1
<1> QED
  BY <1>1, <1>2 DEF DealPhase

LEMMA PhaseAtNext ==
  ASSUME OneActivePerLine', NEW c \in acs', Orderly(c.deal)'
  PROVE  /\ DealPhase(c.deal)' = PhaseOf[c.tpl]
         /\ \A e \in acs' : e.deal = c.deal => e = c
<1>1. \A e \in acs' : e.deal = c.deal => e = c
  BY DEF Orderly, Lines, Touches, History, OneActivePerLine
<1>2. (CHOOSE e \in acs' : e.deal = c.deal) = c
  BY <1>1
<1> QED
  BY <1>1, <1>2 DEF DealPhase

\* A deal is backed by an allocation if its active contract carries one.
Backed(d) == Orderly(d) /\ \E c \in acs : c.deal = d /\ c.alloc # None

\* A step that takes no deal's order leaves a deal whose contracts it does not
\* touch where it is.
LEMMA PhaseKept ==
  ASSUME OneActivePerLine, OneActivePerLine', NEW d, Orderly(d)' <=> Orderly(d),
         Orderly(d) =>
           \A c : c.deal = d => (c \in acs <=> c \in acs') /\ (c \in archived <=> c \in archived')
  PROVE  DealPhase(d)' = DealPhase(d) /\ (Backed(d)' <=> Backed(d))
<1>1. CASE ~ Orderly(d)
  BY <1>1 DEF DealPhase, Backed
<1>2. CASE Orderly(d) /\ \E c \in acs : c.deal = d
  <2>1. PICK c \in acs : c.deal = d
    BY <1>2
  <2>2. DealPhase(d) = PhaseOf[c.tpl]
    BY <1>2, <2>1, PhaseAt
  <2>3. DealPhase(d)' = PhaseOf[c.tpl]
    <3>1. c \in acs' /\ Orderly(d)'
      BY <1>2, <2>1
    <3> QED
      BY <2>1, <3>1, PhaseAtNext
  <2>4. Backed(d)' <=> Backed(d)
    <3> HIDE DEF Orderly
    <3> QED
      BY <1>2 DEF Backed
  <2> QED
    BY <2>2, <2>3, <2>4
<1>3. CASE Orderly(d) /\ ~ \E c \in acs : c.deal = d
  <2>1. ~ \E c \in acs' : c.deal = d
    BY <1>3
  <2>2. (\E c \in archived : c.deal = d) <=> (\E c \in archived' : c.deal = d)
    BY <1>3
  <2> QED
    BY <1>3, <2>1, <2>2 DEF DealPhase, Backed
<1> QED
  BY <1>1, <1>2, <1>3

\* What the step on deal d may be: every other deal stays where it is and d goes
\* to another phase.
Moves(d, to) ==
  /\ d \in Deals
  /\ DealPhase(d)' = to
  /\ \A e \in Deals \ {d} : DealPhase(e)' = DealPhase(e) /\ (Backed(e)' <=> Backed(e))

LEMMA MoveIsGoto ==
  ASSUME NEW d, NEW to, Moves(d, to)
  PROVE  Promise!Goto(d, to)
BY DEF Moves, Promise!Goto

LEMMA EscrowedAre == Escrowed = {d \in Deals : Backed(d)}
BY DEF Escrowed, Backed

LEMMA EscrowedNext ==
  ASSUME NEW d, NEW to, Moves(d, to)
  PROVE  /\ (Backed(d)' <=> Backed(d)) => Escrowed' = Escrowed
         /\ Backed(d)' => Escrowed' = Escrowed \cup {d}
         /\ ~ Backed(d)' => Escrowed' = Escrowed \ {d}
<1>1. Escrowed = {e \in Deals : Backed(e)} /\ Escrowed' = {e \in Deals : Backed(e)'}
  BY DEF Escrowed, Backed
<1>2. d \in Deals /\ \A e \in Deals \ {d} : (Backed(e)' <=> Backed(e))
  BY DEF Moves
<1> DEFINE B(e) == Backed(e)
           C(e) == Backed(e)'
<1>3. /\ Escrowed = {e \in Deals : B(e)} /\ Escrowed' = {e \in Deals : C(e)}
      /\ \A e \in Deals \ {d} : C(e) <=> B(e)
  BY <1>1, <1>2
<1>4. B(d) <=> Backed(d)
  OBVIOUS
<1>5. C(d) <=> Backed(d)'
  OBVIOUS
<1> HIDE DEF B, C
<1>6. (C(d) <=> B(d)) => Escrowed' = Escrowed
  BY <1>2, <1>3
<1>7. C(d) => Escrowed' = Escrowed \cup {d}
  BY <1>2, <1>3
<1>8. ~ C(d) => Escrowed' = Escrowed \ {d}
  BY <1>2, <1>3
<1> QED
  BY <1>4, <1>5, <1>6, <1>7, <1>8

\* Payments of an orderly deal change only when an allocation is executed.
LEMMA PaymentsKept ==
  ASSUME TypeInv, [Next]_vars, NEW d, Orderly(d)' <=> Orderly(d),
         Orderly(d) =>
           \A a \in AllocIds : allocSpec[a].deal = d =>
             (allocState'[a] = "executed" => allocState[a] = "executed")
  PROVE  PaymentsFor(d)' = PaymentsFor(d)
<1>1. ASSUME NEW a \in AllocIds, allocState[a] # "none"
      PROVE  /\ allocState'[a] # "none" /\ allocSpec'[a] = allocSpec[a]
             /\ allocState[a] = "executed" => allocState'[a] = "executed"
  BY <1>1, AllocationsMoveForward
<1>2. ASSUME NEW a \in AllocIds, allocState'[a] = "executed"
      PROVE  allocSpec'[a] = allocSpec[a]
  <2>1. CASE allocState[a] # "executed"
    <3>1. PICK p \in Parties, c \in acs : Settle(p, c)
      BY <1>2, <2>1, AllocationsMoveForward
    <3> QED
      BY <3>1 DEF Settle
  <2>2. CASE allocState[a] = "executed"
    BY <1>1, <2>2
  <2> QED
    BY <2>1, <2>2
<1>3. CASE Orderly(d)
  <2>1. \A a \in AllocIds :
          (allocState'[a] = "executed" /\ allocSpec'[a].deal = d)
            <=> (allocState[a] = "executed" /\ allocSpec[a].deal = d)
    BY <1>1, <1>2, <1>3
  <2>2. {a \in AllocIds : allocState'[a] = "executed" /\ allocSpec'[a].deal = d}
          = {a \in AllocIds : allocState[a] = "executed" /\ allocSpec[a].deal = d}
    BY <2>1
  <2> HIDE DEF Orderly
  <2> QED
    BY <1>3, <2>2 DEF PaymentsFor
<1>4. CASE ~ Orderly(d)
  BY <1>4 DEF PaymentsFor
<1> QED
  BY <1>3, <1>4

\* A choice leaves the deals its contract does not name where they are, and a
\* deal that is not orderly too.
LEMMA OthersStay ==
  ASSUME PromiseInv, PromiseInv', [Next]_vars, NEW p \in Parties, NEW c \in acs, Choice(p, c),
         NEW e, e # c.deal \/ ~ Orderly(e)
  PROVE  DealPhase(e)' = DealPhase(e) /\ (Backed(e)' <=> Backed(e))
<1>1. Orderly(e)' <=> Orderly(e)
  BY ChoiceKeepsOrder DEF PromiseInv, EscrowShape
<1>2. e # c.deal =>
        \A x : x.deal = e => (x \in acs <=> x \in acs') /\ (x \in archived <=> x \in archived')
  BY ChoiceShape DEF PromiseInv, Consume, Follows
<1>3. OneActivePerLine /\ OneActivePerLine'
  BY DEF PromiseInv, OnePath
<1> HIDE DEF Orderly
<1> QED
  BY <1>1, <1>2, <1>3, PhaseKept

\* The choice on c that creates n takes an orderly deal from the phase of c to
\* that of n.
LEMMA ChoiceMoves ==
  ASSUME PromiseInv, PromiseInv', [Next]_vars, NEW p \in Parties, NEW c \in acs, Choice(p, c),
         Orderly(c.deal), NEW n \in Contract, Consume(c, {n}), Follows(c, n)
  PROVE  /\ DealPhase(c.deal) = PhaseOf[c.tpl]
         /\ Moves(c.deal, PhaseOf[n.tpl])
         /\ Backed(c.deal) <=> c.alloc # None
         /\ Backed(c.deal)' <=> n.alloc # None
<1>1. n.deal = c.deal /\ c.deal \in Deals
  BY DEF PromiseInv, TypeInv, TypeOK, Contract, Follows
<1>2. n \in acs'
  BY DEF Consume
<1>3. OneActivePerLine /\ OneActivePerLine'
  BY DEF PromiseInv, OnePath
<1>4. PICK d : d = c.deal
  OBVIOUS
<1>5. Orderly(d) /\ Orderly(d)'
  <2>1. Orderly(d)' <=> Orderly(d)
    BY ChoiceKeepsOrder DEF PromiseInv, EscrowShape
  <2> QED
    BY <1>4, <2>1
<1>6. DealPhase(d) = PhaseOf[c.tpl] /\ \A x \in acs : x.deal = d => x = c
  BY <1>3, <1>4, PhaseAt
<1>7. DealPhase(d)' = PhaseOf[n.tpl] /\ \A x \in acs' : x.deal = d => x = n
  BY <1>1, <1>2, <1>3, <1>4, <1>5, PhaseAtNext
<1>8. Moves(d, PhaseOf[n.tpl])
  <2> HIDE DEF Orderly
  <2> QED
    BY <1>1, <1>4, <1>7, OthersStay DEF Moves
<1>9. Backed(d) <=> c.alloc # None
  BY <1>4, <1>5, <1>6 DEF Backed
<1>10. Backed(d)' <=> n.alloc # None
  BY <1>1, <1>2, <1>4, <1>5, <1>7 DEF Backed
<1> QED
  BY <1>4, <1>6, <1>8, <1>9, <1>10 DEF Moves, Backed

\* The choice on c that creates nothing closes an orderly deal.
LEMMA CloseMoves ==
  ASSUME PromiseInv, PromiseInv', [Next]_vars, NEW p \in Parties, NEW c \in acs, Choice(p, c),
         Orderly(c.deal), Consume(c, {})
  PROVE  /\ DealPhase(c.deal) = PhaseOf[c.tpl]
         /\ Moves(c.deal, "closed")
         /\ ~ Backed(c.deal)'
<1>1. c.deal \in Deals
  BY DEF PromiseInv, TypeInv, TypeOK, Contract
<1>2. acs' = acs \ {c} /\ archived' = archived \cup {c}
  BY DEF Consume
<1>3. OneActivePerLine
  BY DEF PromiseInv, OnePath
<1>4. PICK d : d = c.deal
  OBVIOUS
<1>5. Orderly(d)'
  <2>1. Orderly(d)' <=> Orderly(d)
    BY ChoiceKeepsOrder DEF PromiseInv, EscrowShape
  <2> QED
    BY <1>4, <2>1
<1>6. DealPhase(d) = PhaseOf[c.tpl] /\ \A x \in acs : x.deal = d => x = c
  BY <1>3, <1>4, PhaseAt
<1>7. (~ \E x \in acs' : x.deal = d) /\ \E x \in archived' : x.deal = d
  BY <1>2, <1>4, <1>6
<1>8. DealPhase(d)' = "closed" /\ ~ Backed(d)'
  BY <1>5, <1>7 DEF DealPhase, Backed
<1>9. Moves(d, "closed")
  <2> HIDE DEF Orderly
  <2> QED
    BY <1>1, <1>4, <1>8, OthersStay DEF Moves
<1> QED
  BY <1>4, <1>6, <1>8, <1>9 DEF Moves, Backed

\* An orderly deal has at most one executed allocation.
PaidOnce ==
  \A d : Orderly(d) =>
    \A a, b \in AllocIds :
      (allocState[a] = "executed" /\ allocState[b] = "executed"
         /\ allocSpec[a].deal = d /\ allocSpec[b].deal = d) => a = b

LEMMA OncePerDeal == PayInv /\ OnePath => PaidOnce
BY PaysOnce DEF NoDoubleSettlement, PaidOnce

\* Settling pays an orderly deal, which had no payment before, or one whose
\* promise is void.
LEMMA SettlePays ==
  ASSUME PromiseInv, PromiseInv', [Next]_vars, NEW p \in Parties, NEW c \in acs, Settle(p, c)
  PROVE  /\ \A d \in Deals : (d # c.deal \/ ~ Orderly(d)) => PaymentsFor(d)' = PaymentsFor(d)
         /\ Orderly(c.deal) => PaymentsFor(c.deal)' = PaymentsFor(c.deal) + 1
<1>0. TypeInv /\ EscrowShape /\ CarriedExist /\ c \in History
  BY DEF PromiseInv, EscrowShape, History
<1>1. /\ c.alloc \in AllocIds /\ c.alloc # None /\ allocState[c.alloc] = "live"
      /\ allocState' = [allocState EXCEPT ![c.alloc] = "executed"]
      /\ allocSpec' = allocSpec
  BY <1>0, SettleRegistry DEF Settle
<1>2. allocState \in [AllocIds -> {"none", "live", "withdrawn", "executed"}]
  BY <1>0 DEF TypeInv, TypeOK
<1>3. \A d : Orderly(d)' <=> Orderly(d)
  <2>1. Choice(p, c)
    BY DEF Choice
  <2> QED
    BY <1>0, <2>1, ChoiceKeepsOrder
<1>4. ASSUME NEW d \in Deals, d # c.deal \/ ~ Orderly(d)
      PROVE  PaymentsFor(d)' = PaymentsFor(d)
  <2>1. Orderly(d) => allocSpec[c.alloc].deal # d
    BY <1>0, <1>1, <1>4, OrderlyFits
  <2>2. Orderly(d) =>
          \A a \in AllocIds : allocSpec[a].deal = d =>
            (allocState'[a] = "executed" => allocState[a] = "executed")
    BY <1>1, <1>2, <2>1
  <2>3. Orderly(d)' <=> Orderly(d)
    BY <1>3
  <2> HIDE DEF Orderly
  <2> QED
    BY <1>0, <2>2, <2>3, PaymentsKept
<1>5. ASSUME Orderly(c.deal)
      PROVE  PaymentsFor(c.deal)' = PaymentsFor(c.deal) + 1
  <2>1. PICK d : d = c.deal
    OBVIOUS
  <2>2. Orderly(d) /\ Orderly(d)'
    BY <1>3, <1>5, <2>1
  <2>3. allocSpec[c.alloc].deal = d
    <3>1. FromOffer(c)
      BY <1>0, <1>5 DEF Orderly, Lines, Touches, FromOffer
    <3> QED
      BY <1>0, <1>1, <2>1, <3>1 DEF EscrowShape, EscrowBacked, SpecFits
  <2>4. \A a, b \in AllocIds :
          (allocState'[a] = "executed" /\ allocState'[b] = "executed"
             /\ allocSpec'[a].deal = d /\ allocSpec'[b].deal = d) => a = b
    <3>1. PayInv' /\ OnePath' => PaidOnce'
      BY OncePerDeal, PTL
    <3>2. PaidOnce'
      BY <3>1 DEF PromiseInv
    <3> QED
      BY <2>2, <3>2 DEF PaidOnce
  <2>5. {a \in AllocIds : allocState[a] = "executed" /\ allocSpec[a].deal = d} = {}
    BY <1>1, <1>2, <2>3, <2>4
  <2>6. {a \in AllocIds : allocState'[a] = "executed" /\ allocSpec'[a].deal = d} = {c.alloc}
    BY <1>1, <1>2, <2>3, <2>4
  <2>7. Cardinality({}) = 0 /\ Cardinality({c.alloc}) = 1
    BY FS_EmptySet, FS_Singleton
  <2>8. PaymentsFor(d) = 0 /\ PaymentsFor(d)' = 1
    <3> HIDE DEF Orderly
    <3> QED
      BY <2>2, <2>5, <2>6, <2>7 DEF PaymentsFor
  <2> QED
    BY <2>1, <2>8 DEF PaymentsFor
<1> QED
  BY <1>4, <1>5

\* A choice is a step its deal may take, or one the promise does not see.
LEMMA ChoiceRefines ==
  ASSUME PromiseInv, PromiseInv', [Next]_vars, NEW p \in Parties, NEW c \in acs, Choice(p, c)
  PROVE  Promise!Next \/ UNCHANGED Promise!vars
<1> DEFINE phases == [d \in Deals |-> DealPhase(d)]
           paid == [d \in Deals |-> PaymentsFor(d)]
           at == DealPhase(c.deal)
<1>0. TypeInv /\ c.deal \in Deals /\ \A d : Orderly(d)' <=> Orderly(d)
  BY ChoiceKeepsOrder DEF PromiseInv, TypeInv, TypeOK, Contract, EscrowShape
<1>1. ASSUME ~ Settle(p, c), NEW d \in Deals
      PROVE  PaymentsFor(d)' = PaymentsFor(d)
  <2>1. UNCHANGED <<allocState, allocSpec>>
    BY <1>0, <1>1, ChoiceRegistry
  <2>2. Orderly(d)' <=> Orderly(d)
    BY <1>0
  <2> HIDE DEF Orderly
  <2> QED
    BY <1>0, <2>1, <2>2, PaymentsKept
<1>2. CASE ~ Orderly(c.deal)
  <2>1. \A d \in Deals : DealPhase(d)' = DealPhase(d) /\ (Backed(d)' <=> Backed(d))
    BY <1>2, OthersStay
  <2>2. \A d \in Deals : PaymentsFor(d)' = PaymentsFor(d)
    BY <1>1, <1>2, SettlePays
  <2>3. Escrowed' = Escrowed
    BY <2>1 DEF Escrowed, Backed
  <2> QED
    BY <2>1, <2>2, <2>3 DEF Promise!vars
<1>3. CASE Orderly(c.deal) /\ Consume(c, {}) /\ c.tpl \in Retractable
  <2>1. at = PhaseOf[c.tpl] /\ Moves(c.deal, "closed") /\ ~ Backed(c.deal)'
    BY <1>3, CloseMoves
  <2>2. Promise!Goto(c.deal, "closed")
    BY <2>1, MoveIsGoto
  <2>3. Escrowed' = Escrowed \ {c.deal}
    BY <2>1, EscrowedNext
  <2>4. ~ Settle(p, c)
    <3>1. c \in Contract /\ OneActivePerLine
      BY DEF PromiseInv, TypeInv, TypeOK, OnePath
    <3> DEFINE n == Successor(c, "SettlementReceipt")
    <3>2. n.tpl = "SettlementReceipt" /\ n.root = c.root
      BY <3>1, SuccessorType DEF Templates
    <3> HIDE DEF n
    <3>3. c.tpl = "FulfillmentApproval" => n \notin acs
      BY <3>1, <3>2 DEF OneActivePerLine
    <3> QED
      BY <1>3, <3>3 DEF Settle, Consume, n
  <2>5. paid' = paid
    BY <1>1, <2>4
  <2>6. Promise!Close(c.deal)
    BY <2>2, <2>3, <2>5 DEF Promise!Close
  <2>7. at \in {"offered", "delivered", "revising", "approved"}
    BY <1>3, <2>1 DEF PhaseOf, Retractable, Templates
  <2>8. Promise!Step(c.deal, at)
    <3> HIDE DEF at
    <3> QED
      BY <2>6, <2>7 DEF Promise!Step
  <2> QED
    BY <1>0, <2>8 DEF Promise!Next
<1>4. ASSUME Orderly(c.deal), NEW n \in Contract, Consume(c, {n}), Follows(c, n)
      PROVE  Promise!Next
  <2> DEFINE d == c.deal
             to == PhaseOf[n.tpl]
  <2>1. /\ at = PhaseOf[c.tpl]
        /\ Moves(d, to)
        /\ Backed(d) <=> c.alloc # None
        /\ Backed(d)' <=> n.alloc # None
    BY <1>4, ChoiceMoves
  <2>2. Promise!Goto(d, to)
    BY <2>1, MoveIsGoto
  <2>3. CASE n.tpl = "DealEscrow"
    <3>1. c.tpl = "DealAgreement" /\ n.alloc # None
      BY <1>4, <2>3, NoneAssumption DEF Follows
    <3>2. at = "agreed" /\ to = "funded"
      BY <2>1, <2>3, <3>1 DEF PhaseOf, Templates
    <3>3. Escrowed' = Escrowed \cup {d}
      BY <2>1, <3>1, EscrowedNext
    <3>4. paid' = paid
      BY <1>1, <3>1 DEF Settle
    <3>5. Promise!Fund(d)
      BY <2>2, <3>2, <3>3, <3>4 DEF Promise!Fund
    <3>6. Promise!Step(d, at)
      BY <3>2, <3>5 DEF Promise!Step
    <3> QED
      BY <1>0, <3>6 DEF Promise!Next
  <2>4. CASE n.tpl # "DealEscrow"
    <3>1. n.alloc = c.alloc
      BY <1>4, <2>4 DEF Follows
    <3>2. Escrowed' = Escrowed
      BY <2>1, <3>1, EscrowedNext
    <3>3. CASE Settle(p, c)
      <4>1. n.tpl = "SettlementReceipt" /\ c.tpl = "FulfillmentApproval" /\ c.alloc # None
        BY <1>4, <3>3 DEF Follows, Settle
      <4>2. at = "approved" /\ to = "settled"
        BY <2>1, <4>1 DEF PhaseOf, Templates
      <4>3. paid' = [paid EXCEPT ![d] = @ + 1]
        BY <1>0, <1>4, <3>3, SettlePays
      <4>4. d \in Escrowed
        BY <1>0, <2>1, <4>1 DEF Escrowed, Backed
      <4>5. Promise!Pay(d)
        BY <2>2, <3>2, <4>2, <4>3, <4>4 DEF Promise!Pay
      <4>6. Promise!Step(d, at)
        BY <4>2, <4>5 DEF Promise!Step
      <4> QED
        BY <1>0, <4>6 DEF Promise!Next
    <3>4. CASE ~ Settle(p, c)
      <4>1. n.tpl # "SettlementReceipt"
        <5>1. ~ Retract(p, c)
          <6>1. n \notin acs
            BY <1>4 DEF Follows, PromiseInv, OnePath, OneActivePerLine
          <6> QED
            BY <1>4, <6>1 DEF Retract, Consume
        <5> QED
          BY <1>4, <3>4, <5>1 DEF Follows, Choice, Accept, Reject, SubmitFulfillment, FundEscrow,
             SubmitFundedFulfillment, Approve, RequestRevision, SubmitRevision
      <4>2. <<at, to>> \in {<<"offered", "agreed">>, <<"agreed", "delivered">>,
                              <<"funded", "delivered">>, <<"delivered", "approved">>,
                              <<"delivered", "revising">>, <<"revising", "delivered">>}
        BY <1>4, <2>1, <2>4, <4>1 DEF Follows, PhaseOf, Templates
      <4>3. paid' = paid
        BY <1>1, <3>4
      <4> HIDE DEF at, to
      <4>4. Promise!Step(d, at)
        BY <2>2, <3>2, <4>2, <4>3
           DEF Promise!Step, Promise!Agree, Promise!Deliver, Promise!SendBack, Promise!Approve
      <4> QED
        BY <1>0, <4>4 DEF Promise!Next, at
    <3> QED
      BY <3>3, <3>4
  <2> QED
    BY <2>3, <2>4
<1> QED
  BY <1>0, <1>2, <1>3, <1>4, ChoiceShape

\* What a creation does to the deals: it offers one that is new, or takes the
\* order from the deals it touches, which voids their promise.
LEMMA CreationRefines ==
  ASSUME PromiseInv, PromiseInv', [Next]_vars,
         UNCHANGED <<now, archived, allocState, allocSpec, balance>>,
         NEW n \in Contract, Beginning(n), Fresh(n.root), acs' = acs \cup {n}
  PROVE  Promise!Next
<1> DEFINE S == {d \in Deals : Orderly(d) /\ ~ Orderly(d)'}
<1>0. /\ TypeInv /\ CarriedExist /\ OneActivePerLine /\ OneActivePerLine'
      /\ n.deal \in Deals
      /\ History' = History \cup {n}
      /\ \A x \in History : x.root # n.root
  BY DEF PromiseInv, OnePath, EscrowShape, Contract, History, Fresh
<1>1. ASSUME NEW d, ~ Touches(n, d)
      PROVE  /\ Orderly(d)' <=> Orderly(d)
             /\ DealPhase(d)' = DealPhase(d)
             /\ Backed(d)' <=> Backed(d)
  <2>1. ~ Touches(n, d)'
    BY <1>1 DEF Touches
  <2>2. Orderly(d)' <=> Orderly(d)
    BY <1>0, <2>1, OrderKept
  <2>3. \A x : x.deal = d => (x \in acs <=> x \in acs') /\ (x \in archived <=> x \in archived')
    BY <1>1 DEF Touches
  <2> HIDE DEF Orderly
  <2> QED
    BY <1>0, <2>2, <2>3, PhaseKept
<1>2. ASSUME NEW d, Orderly(d)' <=> Orderly(d)
      PROVE  PaymentsFor(d)' = PaymentsFor(d)
  BY <1>0, <1>2, PaymentsKept
<1>3. \A d : Orderly(d)' => Orderly(d)
  BY <1>0, OrderLost
<1>4. ASSUME \A d : Touches(n, d) => ~ Orderly(d)'
      PROVE  Promise!Void(S)
  <2>1. ASSUME NEW d \in Deals
        PROVE  /\ DealPhase(d)' = IF d \in S THEN "void" ELSE DealPhase(d)
               /\ Backed(d)' <=> (Backed(d) /\ d \notin S)
               /\ PaymentsFor(d)' = IF d \in S THEN 0 ELSE PaymentsFor(d)
    <3>1. CASE Touches(n, d)
      <4>1. ~ Orderly(d)' /\ (d \in S <=> Orderly(d))
        BY <1>4, <3>1
      <4>2. DealPhase(d)' = "void" /\ ~ Backed(d)' /\ PaymentsFor(d)' = 0
        BY <4>1 DEF DealPhase, Backed, PaymentsFor
      <4>3. d \notin S => DealPhase(d) = "void" /\ ~ Backed(d) /\ PaymentsFor(d) = 0
        BY <4>1 DEF DealPhase, Backed, PaymentsFor
      <4> HIDE DEF S
      <4> QED
        BY <4>2, <4>3
    <3>2. CASE ~ Touches(n, d)
      <4>1. Orderly(d)' <=> Orderly(d)
        BY <1>1, <3>2
      <4>2. d \notin S
        BY <4>1
      <4>3. PaymentsFor(d)' = PaymentsFor(d)
        BY <1>2, <4>1
      <4> HIDE DEF S
      <4> QED
        BY <1>1, <3>2, <4>2, <4>3
    <3> QED
      BY <3>1, <3>2
  <2>2. Escrowed' = Escrowed \ S
    <3> HIDE DEF S
    <3>1. Escrowed' = {d \in Deals : Backed(d)'} /\ Escrowed = {d \in Deals : Backed(d)}
      BY DEF Escrowed, Backed
    <3>2. {d \in Deals : Backed(d)'} = {d \in Deals : Backed(d) /\ d \notin S}
      BY <2>1
    <3> QED
      BY <3>1, <3>2
  <2> HIDE DEF S
  <2> QED
    BY <2>1, <2>2 DEF Promise!Void
<1>5. S \in SUBSET Deals
  OBVIOUS
<1>6. CASE n.tpl # "DealProposal"
  <2>1. n.root \notin OfferLines'
    BY <1>0, <1>6 DEF OfferLines
  <2>2. ASSUME NEW d, Touches(n, d)
        PROVE  ~ Orderly(d)'
    <3>1. n.root \in Lines(d)'
      BY <1>0, <2>2 DEF Lines, Touches
    <3> QED
      BY <2>1, <3>1 DEF Orderly
  <2> HIDE DEF S
  <2> QED
    BY <1>4, <1>5, <2>2 DEF Promise!Next
<1>7. CASE n.tpl = "DealProposal" /\ Lines(n.deal) # {}
  <2>1. n.alloc = None
    BY <1>7 DEF Beginning
  <2>2. PICK x \in History : Touches(x, n.deal)
    BY <1>7 DEF Lines
  <2>3. ~ Orderly(n.deal)'
    <3>1. Touches(n, n.deal)' /\ Touches(x, n.deal)'
      BY <2>2 DEF Touches
    <3>2. n.root \in Lines(n.deal)' /\ x.root \in Lines(n.deal)'
      BY <1>0, <3>1 DEF Lines
    <3> QED
      BY <1>0, <3>2 DEF Orderly
  <2>4. \A d : Touches(n, d) => ~ Orderly(d)'
    BY <2>1, <2>3 DEF Touches, Orderly, Lines
  <2> HIDE DEF S
  <2> QED
    BY <1>4, <1>5, <2>4 DEF Promise!Next
<1>8. CASE n.tpl = "DealProposal" /\ Lines(n.deal) = {}
  <2>1. n.alloc = None
    BY <1>8 DEF Beginning
  <2>2. PICK d : d = n.deal
    OBVIOUS
  <2>3. d \in Deals /\ \A x \in History : ~ Touches(x, d)
    BY <1>0, <1>8, <2>2 DEF Lines
  <2>4. \A x \in History : x.deal # d
    BY <2>3 DEF Touches
  <2>5. Orderly(d) /\ DealPhase(d) = "none"
    <3> HIDE DEF S
    <3>1. Orderly(d)
      BY <1>8, <2>2 DEF Orderly
    <3> HIDE DEF Orderly
    <3> QED
      BY <2>4, <3>1 DEF DealPhase, History
  <2>6. Orderly(d)'
    <3>1. Lines(d)' = {n.root}
      BY <1>0, <2>2, <2>3 DEF Lines, Touches
    <3>2. n.root \in OfferLines'
      BY <1>0, <1>8 DEF OfferLines
    <3> QED
      BY <3>1, <3>2 DEF Orderly
  <2>7. DealPhase(d)' = "offered"
    <3>1. n \in acs'
      OBVIOUS
    <3>2. DealPhase(d)' = PhaseOf[n.tpl]
      BY <1>0, <2>2, <2>6, <3>1, PhaseAtNext
    <3> QED
      BY <1>8, <3>2 DEF PhaseOf, Templates
  <2>8. ~ Backed(d) /\ ~ Backed(d)'
    BY <2>1, <2>4 DEF Backed, History
  <2>9. \A e : e # d => ~ Touches(n, e)
    BY <2>1, <2>2 DEF Touches
  <2>10. Moves(d, "offered")
    BY <1>1, <2>3, <2>7, <2>9 DEF Moves
  <2>11. \A e \in Deals : Orderly(e)' <=> Orderly(e)
    BY <1>1, <2>5, <2>6, <2>9
  <2>12. [e \in Deals |-> PaymentsFor(e)]' = [e \in Deals |-> PaymentsFor(e)]
    BY <1>2, <2>11
  <2>13. Promise!Offer(d)
    BY <2>8, <2>10, <2>12, MoveIsGoto, EscrowedNext DEF Promise!Offer
  <2>14. Promise!Step(d, DealPhase(d))
    BY <2>5, <2>13 DEF Promise!Step
  <2> QED
    BY <2>3, <2>14 DEF Promise!Next
<1> QED
  BY <1>6, <1>7, <1>8

\* Every step of the contracts and the registry is a step the promise allows,
\* or one it does not see.
LEMMA StepRefines ==
  ASSUME PromiseInv, PromiseInv', [Next]_vars
  PROVE  [Promise!Next]_(Promise!vars)
<1>1. CASE \E p \in Parties, c \in acs : Choice(p, c)
  BY <1>1, ChoiceRefines
<1>2. ASSUME UNCHANGED <<acs, archived>>, ~ \E p \in Parties, c \in acs : Choice(p, c)
      PROVE  UNCHANGED Promise!vars
  <2>0. TypeInv /\ CarriedExist /\ OneActivePerLine /\ OneActivePerLine' /\ History' = History
    BY <1>2 DEF PromiseInv, OnePath, EscrowShape, History
  <2>1. \A d : Orderly(d)' <=> Orderly(d)
    BY <2>0, OrderKept
  <2>2. ASSUME NEW d
        PROVE  DealPhase(d)' = DealPhase(d) /\ (Backed(d)' <=> Backed(d))
    <3>1. Orderly(d)' <=> Orderly(d)
      BY <2>1
    <3> HIDE DEF Orderly
    <3> QED
      BY <1>2, <2>0, <3>1, PhaseKept
  <2>3. Escrowed' = Escrowed
    BY <2>2 DEF Escrowed, Backed
  <2>4. \A a \in AllocIds : allocState'[a] = "executed" => allocState[a] = "executed"
    <3>1. \A q \in Parties, x \in acs : ~ Settle(q, x)
      BY <1>2 DEF Choice
    <3> QED
      BY <2>0, <3>1, AllocationsMoveForward
  <2>5. ASSUME NEW d PROVE PaymentsFor(d)' = PaymentsFor(d)
    <3>1. Orderly(d)' <=> Orderly(d)
      BY <2>1
    <3> HIDE DEF Orderly
    <3> QED
      BY <2>0, <2>4, <3>1, PaymentsKept
  <2> QED
    BY <2>2, <2>3, <2>5 DEF Promise!vars
<1> QED
  BY <1>1, <1>2, OtherSteps, CreationRefines

LEMMA InitRefines == Init => Promise!Init
<1> SUFFICES ASSUME Init PROVE Promise!Init
  OBVIOUS
<1>1. \A d \in Deals : PaymentsFor(d) = 0
  BY FS_EmptySet DEF Init, PaymentsFor
<1>2. \A d \in Deals : DealPhase(d) = "none"
  BY DEF Init, DealPhase, Orderly, Lines, History
<1>3. Escrowed = {}
  BY DEF Init, Escrowed
<1> QED
  BY <1>1, <1>2, <1>3 DEF Promise!Init

\* The contracts and the registry implement EscrowPromise: whatever the two
\* parties submit, a deal follows one of the promised paths, is backed by an
\* allocation from its funding on, and is paid by the step that settles it,
\* until a party creates a contract of the deal past the choices; that voids
\* the promise of the deals it touches and of no others.
THEOREM ContractsKeepPromise == Spec => ImplementsPromise
<1>1. Init => PromiseInv
  BY PayStart, PathStart DEF PromiseInv
<1>2. PromiseInv /\ PromiseInv' /\ [Next]_vars => [Promise!Next]_(Promise!vars)
  BY StepRefines
<1> QED
  BY <1>1, <1>2, InitRefines, PromiseInductive, PTL DEF Spec, ImplementsPromise, Promise!Spec

-----------------------------------------------------------------------------
\* Conservation: sums

\* A non-empty set of numbers has a least one.
LEMMA LeastNatural ==
  ASSUME NEW S, S \subseteq Nat, S # {}
  PROVE  \E x \in S : \A y \in S : x <= y
<1>1. PICK x \in S : \A y \in S : <<y, x>> \notin OpToRel(<, Nat)
  BY NatLessThanWellFounded, WFMin, Zenon
<1>2. \A y \in S : ~ (y < x)
  BY <1>1, Zenon DEF OpToRel
<1> QED
  BY <1>2

\* The summand a fold takes next, and the fold as a function on sets of indices.
Taken(s) == CHOOSE x \in s : TRUE

Sums(f, S, it) ==
  it = [s \in SUBSET S |-> IF s = {} THEN 0 ELSE f[Taken(s)] + it[s \ {Taken(s)}]]

SumsOf(f, S) == CHOOSE it : Sums(f, S, it)

LEMMA SumIsFold ==
  ASSUME NEW f
  PROVE  SumFunction(f) = SumsOf(f, DOMAIN f)[DOMAIN f]
BY DEF SumFunction, SumFunctionOnSet, FoldFunctionOnSet, MapThenFoldSet, SumsOf, Sums, Taken

\* What the fold does on sets of at most k indices, and that there is such a
\* function: k + 1 goes on from k, and a finite set is among the sets of some k.
Small(S, k) == {s \in SUBSET S : Cardinality(s) <= k}

SumsUpTo(f, S, k, it) ==
  it = [s \in Small(S, k) |-> IF s = {} THEN 0 ELSE f[Taken(s)] + it[s \ {Taken(s)}]]

LEMMA TakenIn == ASSUME NEW s, s # {} PROVE Taken(s) \in s
BY DEF Taken

LEMMA SmallLess ==
  ASSUME NEW S, IsFiniteSet(S), NEW k \in Nat, NEW s \in Small(S, k), NEW x \in s
  PROVE  s \ {x} \in SUBSET S /\ k > 0 /\ s \ {x} \in Small(S, k - 1)
<1>1. IsFiniteSet(s) /\ s \subseteq S /\ Cardinality(s) <= k
  BY FS_Subset DEF Small
<1>2. Cardinality(s) \in Nat /\ Cardinality(s \ {x}) = Cardinality(s) - 1 /\ Cardinality(s \ {x}) \in Nat
  <2>1. Cardinality(s) \in Nat /\ Cardinality(s \ {x}) = Cardinality(s) - 1
    BY <1>1, FS_CardinalityType, FS_RemoveElement
  <2>2. IsFiniteSet(s \ {x})
    BY <1>1, FS_RemoveElement
  <2>3. QED
    BY <2>1, <2>2, FS_CardinalityType
<1>3. QED
  BY <1>1, <1>2 DEF Small

LEMMA SumsUpToExists ==
  ASSUME NEW f, NEW S, IsFiniteSet(S), NEW k \in Nat
  PROVE  \E it : SumsUpTo(f, S, k, it)
<1> DEFINE Fails == {j \in Nat : ~ \E it : SumsUpTo(f, S, j, it)}
<1> SUFFICES ASSUME Fails # {} PROVE FALSE
  OBVIOUS
<1>1. PICK j \in Fails : \A i \in Fails : j <= i
  BY LeastNatural
<1>2. j \in Nat /\ ~ \E it : SumsUpTo(f, S, j, it)
  BY <1>1
<1>3. CASE j = 0
  <2>1. \A s \in Small(S, 0) : s = {}
    <3> SUFFICES ASSUME NEW s \in Small(S, 0), NEW x \in s PROVE FALSE
      OBVIOUS
    <3>1. s \subseteq S /\ Cardinality(s) <= 0
      BY DEF Small
    <3>2. IsFiniteSet(s) /\ Cardinality(s) = 0
      BY <3>1, FS_Subset, FS_CardinalityType
    <3>3. QED
      BY <3>2, FS_EmptySet
  <2>2. SumsUpTo(f, S, 0, [s \in Small(S, 0) |-> 0])
    BY <2>1 DEF SumsUpTo
  <2>3. QED
    BY <1>2, <1>3, <2>2
<1>4. CASE j > 0
  <2>1. j - 1 \in Nat /\ j - 1 \notin Fails
    BY <1>1, <1>2, <1>4
  <2>2. PICK it : SumsUpTo(f, S, j - 1, it)
    BY <2>1
  <2> DEFINE more == [s \in Small(S, j) |-> IF s = {} THEN 0 ELSE f[Taken(s)] + it[s \ {Taken(s)}]]
  <2>3. \A s \in Small(S, j) : s # {} => more[s \ {Taken(s)}] = it[s \ {Taken(s)}]
    <3> SUFFICES ASSUME NEW s \in Small(S, j), s # {}
                 PROVE  more[s \ {Taken(s)}] = it[s \ {Taken(s)}]
      OBVIOUS
    <3> DEFINE t == s \ {Taken(s)}
    <3>1. t \in Small(S, j - 1)
      BY <1>2, TakenIn, SmallLess
    <3>2. t \in Small(S, j)
      BY <1>2, <3>1, FS_Subset, FS_CardinalityType DEF Small
    <3> HIDE DEF t
    <3>3. it[t] = IF t = {} THEN 0 ELSE f[Taken(t)] + it[t \ {Taken(t)}]
      BY <2>2, <3>1 DEF SumsUpTo
    <3>4. more[t] = IF t = {} THEN 0 ELSE f[Taken(t)] + it[t \ {Taken(t)}]
      BY <3>2
    <3>5. QED
      BY <3>3, <3>4 DEF t
  <2>4. SumsUpTo(f, S, j, more)
    BY <2>3 DEF SumsUpTo
  <2>5. QED
    BY <1>2, <2>4
<1>5. QED
  BY <1>2, <1>3, <1>4

LEMMA SumsExists ==
  ASSUME NEW f, NEW S, IsFiniteSet(S)
  PROVE  Sums(f, S, SumsOf(f, S))
<1>1. Cardinality(S) \in Nat
  BY FS_CardinalityType
<1>2. Small(S, Cardinality(S)) = SUBSET S
  BY FS_Subset DEF Small
<1>3. PICK it : SumsUpTo(f, S, Cardinality(S), it)
  BY <1>1, SumsUpToExists
<1>4. Sums(f, S, it)
  BY <1>2, <1>3 DEF SumsUpTo, Sums
<1>5. QED
  BY <1>4 DEF SumsOf

\* The sum of the values at the indices in s.
Over(f, s) == SumsOf(f, DOMAIN f)[s]

Numbers(f) == IsFiniteSet(DOMAIN f) /\ f = [x \in DOMAIN f |-> f[x]] /\ \A x \in DOMAIN f : f[x] \in Int

LEMMA OverTaken ==
  ASSUME NEW f, Numbers(f), NEW s \in SUBSET DOMAIN f
  PROVE  Over(f, s) = IF s = {} THEN 0 ELSE f[Taken(s)] + Over(f, s \ {Taken(s)})
<1>1. Sums(f, DOMAIN f, SumsOf(f, DOMAIN f))
  BY SumsExists DEF Numbers
<1>2. QED
  BY <1>1 DEF Sums, Over

LEMMA OverNothing ==
  ASSUME NEW f, Numbers(f)
  PROVE  Over(f, {}) = 0
<1>1. {} \in SUBSET DOMAIN f
  OBVIOUS
<1>2. QED
  BY <1>1, OverTaken

\* Of sets of indices with something wrong there is a smallest one.
LEMMA SmallestSet ==
  ASSUME NEW S, IsFiniteSet(S), NEW F, F \subseteq SUBSET S, F # {}
  PROVE  \E s \in F : \A x \in s : s \ {x} \notin F
<1> DEFINE Sizes == {Cardinality(s) : s \in F}
<1>1. \A s \in F : IsFiniteSet(s) /\ Cardinality(s) \in Nat
  BY FS_Subset, FS_CardinalityType
<1>2. PICK n \in Sizes : \A m \in Sizes : n <= m
  <2>1. Sizes \subseteq Nat /\ Sizes # {}
    BY <1>1
  <2> HIDE DEF Sizes
  <2>2. QED
    BY <2>1, LeastNatural
<1>3. PICK s \in F : n = Cardinality(s)
  BY <1>2
<1>4. ASSUME NEW x \in s, s \ {x} \in F PROVE FALSE
  <2>1. Cardinality(s \ {x}) = Cardinality(s) - 1
    BY <1>1, FS_RemoveElement
  <2>2. Cardinality(s) <= Cardinality(s \ {x})
    BY <1>2, <1>3, <1>4
  <2>3. QED
    BY <1>1, <2>1, <2>2
<1>5. QED
  BY <1>4

LEMMA OverInt ==
  ASSUME NEW f, Numbers(f), NEW s \in SUBSET DOMAIN f
  PROVE  Over(f, s) \in Int
<1> DEFINE F == {t \in SUBSET DOMAIN f : Over(f, t) \notin Int}
<1> SUFFICES ASSUME F # {} PROVE FALSE
  OBVIOUS
<1>1. PICK t \in F : \A x \in t : t \ {x} \notin F
  <2>1. F \subseteq SUBSET DOMAIN f /\ IsFiniteSet(DOMAIN f)
    BY DEF Numbers
  <2> HIDE DEF F
  <2>2. QED
    BY <2>1, SmallestSet
<1>2. t \in SUBSET DOMAIN f /\ Over(f, t) \notin Int
  BY <1>1
<1>3. CASE t = {}
  BY <1>2, <1>3, OverNothing
<1>4. CASE t # {}
  <2>1. Taken(t) \in t
    BY <1>4, TakenIn
  <2>2. Over(f, t \ {Taken(t)}) \in Int /\ f[Taken(t)] \in Int
    BY <1>1, <1>2, <2>1 DEF Numbers
  <2>3. Over(f, t) = f[Taken(t)] + Over(f, t \ {Taken(t)})
    BY <1>2, <1>4, OverTaken
  <2>4. QED
    BY <1>2, <2>2, <2>3
<1>5. QED
  BY <1>3, <1>4

\* The order in which a sum is taken makes no difference.
LEMMA OverRemove ==
  ASSUME NEW f, Numbers(f), NEW s \in SUBSET DOMAIN f, NEW x \in s
  PROVE  Over(f, s) = f[x] + Over(f, s \ {x})
<1> DEFINE Wrong(t) == \E z \in t : Over(f, t) # f[z] + Over(f, t \ {z})
<1> DEFINE F == {t \in SUBSET DOMAIN f : Wrong(t)}
<1> SUFFICES ASSUME F # {} PROVE FALSE
  OBVIOUS
<1>1. PICK t \in F : \A z \in t : t \ {z} \notin F
  <2>1. F \subseteq SUBSET DOMAIN f /\ IsFiniteSet(DOMAIN f)
    BY DEF Numbers
  <2> HIDE DEF F
  <2>2. QED
    BY <2>1, SmallestSet
<1>2. PICK z \in t : Over(f, t) # f[z] + Over(f, t \ {z})
  BY <1>1
<1>3. t \in SUBSET DOMAIN f /\ \A y \in t : f[y] \in Int
  BY <1>1 DEF Numbers
<1>4. PICK y \in t : y = Taken(t)
  BY TakenIn
<1>5. Over(f, t) = f[y] + Over(f, t \ {y})
  BY <1>3, <1>4, OverTaken
<1>6. y # z
  BY <1>2, <1>5
<1>7. Over(f, t \ {y}) = f[z] + Over(f, (t \ {y}) \ {z})
  <2>1. ~ Wrong(t \ {y})
    BY <1>1, <1>3
  <2>2. QED
    BY <1>6, <2>1
<1>8. Over(f, t \ {z}) = f[y] + Over(f, (t \ {z}) \ {y})
  <2>1. ~ Wrong(t \ {z})
    BY <1>1, <1>3
  <2>2. QED
    BY <1>6, <2>1
<1>9. PICK n \in Int : n = Over(f, (t \ {y}) \ {z}) /\ n = Over(f, (t \ {z}) \ {y})
  <2>1. (t \ {y}) \ {z} = (t \ {z}) \ {y} /\ (t \ {y}) \ {z} \in SUBSET DOMAIN f
    BY <1>3
  <2>2. QED
    BY <2>1, OverInt
<1>10. f[y] \in Int /\ f[z] \in Int /\ f[y] + (f[z] + n) = f[z] + (f[y] + n)
  BY <1>3
<1>11. QED
  BY <1>2, <1>5, <1>7, <1>8, <1>9, <1>10

LEMMA OverAgrees ==
  ASSUME NEW f, NEW g, Numbers(f), Numbers(g),
         NEW s \in SUBSET DOMAIN f, s \in SUBSET DOMAIN g, \A x \in s : f[x] = g[x]
  PROVE  Over(f, s) = Over(g, s)
<1> DEFINE F == {t \in SUBSET s : Over(f, t) # Over(g, t)}
<1> SUFFICES ASSUME F # {} PROVE FALSE
  OBVIOUS
<1>1. PICK t \in F : \A x \in t : t \ {x} \notin F
  <2>1. F \subseteq SUBSET DOMAIN f /\ IsFiniteSet(DOMAIN f)
    BY DEF Numbers
  <2> HIDE DEF F
  <2>2. QED
    BY <2>1, SmallestSet
<1>2. t \in SUBSET DOMAIN f /\ t \in SUBSET DOMAIN g /\ Over(f, t) # Over(g, t)
  BY <1>1
<1>3. t # {}
  BY <1>2, OverTaken
<1>4. PICK x \in t : x = Taken(t)
  BY <1>3, TakenIn
<1>5. Over(f, t) = f[x] + Over(f, t \ {x}) /\ Over(g, t) = g[x] + Over(g, t \ {x})
  BY <1>2, OverRemove
<1>6. f[x] = g[x] /\ Over(f, t \ {x}) = Over(g, t \ {x})
  BY <1>1
<1>7. QED
  BY <1>2, <1>5, <1>6

-----------------------------------------------------------------------------
\* What follows for the sum of a function.

LEMMA SumIsOver == ASSUME NEW f PROVE SumFunction(f) = Over(f, DOMAIN f)
BY SumIsFold DEF Over

LEMMA SumInt == ASSUME NEW f, Numbers(f) PROVE SumFunction(f) \in Int
BY SumIsOver, OverInt

\* One value changes.
LEMMA SumChanges ==
  ASSUME NEW f, NEW g, Numbers(f), Numbers(g), DOMAIN f = DOMAIN g, NEW x \in DOMAIN f,
         \A y \in DOMAIN f : y # x => f[y] = g[y]
  PROVE  SumFunction(g) = SumFunction(f) - f[x] + g[x]
<1>1. Over(f, DOMAIN f) = f[x] + Over(f, DOMAIN f \ {x})
  BY OverRemove
<1>2. Over(g, DOMAIN f) = g[x] + Over(g, DOMAIN f \ {x})
  BY OverRemove
<1>3. Over(f, DOMAIN f \ {x}) = Over(g, DOMAIN f \ {x}) /\ Over(f, DOMAIN f \ {x}) \in Int
  BY OverAgrees, OverInt
<1>4. f[x] \in Int /\ g[x] \in Int
  BY DEF Numbers
<1>5. QED
  BY <1>1, <1>2, <1>3, <1>4, SumIsOver

\* One index is new.
LEMMA SumGains ==
  ASSUME NEW f, NEW g, Numbers(f), Numbers(g), NEW x, x \notin DOMAIN f,
         DOMAIN g = DOMAIN f \cup {x}, \A y \in DOMAIN f : f[y] = g[y]
  PROVE  SumFunction(g) = SumFunction(f) + g[x]
<1>1. Over(g, DOMAIN g) = g[x] + Over(g, DOMAIN f)
  <2>1. x \in DOMAIN g /\ DOMAIN g \ {x} = DOMAIN f
    OBVIOUS
  <2>2. QED
    BY <2>1, OverRemove
<1>2. Over(g, DOMAIN f) = Over(f, DOMAIN f) /\ Over(f, DOMAIN f) \in Int
  BY OverAgrees, OverInt
<1>3. g[x] \in Int
  BY DEF Numbers
<1>4. QED
  BY <1>1, <1>2, <1>3, SumIsOver

LEMMA SumOfNothing ==
  ASSUME NEW f, Numbers(f), DOMAIN f = {}
  PROVE  SumFunction(f) = 0
BY SumIsOver, OverNothing

LEMMA SumOfEqual ==
  ASSUME NEW f, Numbers(f), NEW w \in Int, \A x \in DOMAIN f : f[x] = w
  PROVE  SumFunction(f) = w * Cardinality(DOMAIN f)
<1> DEFINE F == {t \in SUBSET DOMAIN f : Over(f, t) # w * Cardinality(t)}
<1> SUFFICES ASSUME F # {} PROVE FALSE
  BY SumIsOver
<1>1. PICK t \in F : \A x \in t : t \ {x} \notin F
  <2>1. F \subseteq SUBSET DOMAIN f /\ IsFiniteSet(DOMAIN f)
    BY DEF Numbers
  <2> HIDE DEF F
  <2>2. QED
    BY <2>1, SmallestSet
<1>2. t \in SUBSET DOMAIN f /\ Over(f, t) # w * Cardinality(t) /\ IsFiniteSet(t)
  BY <1>1, FS_Subset DEF Numbers
<1>3. CASE t = {}
  BY <1>2, <1>3, OverNothing, FS_EmptySet
<1>4. ASSUME NEW x \in t PROVE FALSE
  <2>1. Over(f, t) = w + Over(f, t \ {x})
    BY <1>2, OverRemove
  <2>2. Over(f, t \ {x}) = w * Cardinality(t \ {x})
    BY <1>1, <1>2
  <2>3. Cardinality(t \ {x}) = Cardinality(t) - 1 /\ Cardinality(t) \in Int
    BY <1>2, FS_RemoveElement, FS_CardinalityType
  <2>4. \A n \in Int : w + w * (n - 1) = w * n
    OBVIOUS
  <2>5. QED
    BY <1>2, <2>1, <2>2, <2>3, <2>4
<1>5. QED
  BY <1>3, <1>4

-----------------------------------------------------------------------------
\* Conservation: the registry

\* What is held and locked, of the values of the registry's variables.
Held(b, r, i) == [p \in Parties |-> b[<<p, r, i>>]]

Live(st, sp, r, i) ==
  {a \in AllocIds : st[a] = "live" /\ sp[a].admin = r /\ sp[a].instrument = i}

Lock(st, sp, r, i) == [a \in Live(st, sp, r, i) |-> sp[a].amount]

Balanced(b, st, sp) ==
  \A r \in Admins, i \in Instruments :
    SumFunction(Held(b, r, i)) + SumFunction(Lock(st, sp, r, i)) = Wealth * Cardinality(Parties)

\* Whatever AllocIds is, there are finitely many allocations at any time.
Allocations(st, sp) ==
  /\ st \in [AllocIds -> {"none", "live", "withdrawn", "executed"}]
  /\ sp \in [AllocIds -> Specs \cup {None}]
  /\ \A a \in AllocIds : st[a] # "none" => sp[a] \in Specs
  /\ IsFiniteSet({a \in AllocIds : st[a] = "live"})

LEMMA HeldNumbers ==
  ASSUME NEW b \in [Accounts -> Nat], NEW r \in Admins, NEW i \in Instruments
  PROVE  Numbers(Held(b, r, i)) /\ DOMAIN Held(b, r, i) = Parties
BY PartiesAssumption DEF Numbers, Held, Accounts

LEMMA LockNumbers ==
  ASSUME NEW st, NEW sp, Allocations(st, sp), NEW r, NEW i
  PROVE  Numbers(Lock(st, sp, r, i)) /\ DOMAIN Lock(st, sp, r, i) = Live(st, sp, r, i)
<1>1. IsFiniteSet(Live(st, sp, r, i))
  <2>1. Live(st, sp, r, i) \subseteq {a \in AllocIds : st[a] = "live"}
    BY DEF Live
  <2>2. QED
    BY <2>1, FS_Subset DEF Allocations
<1>2. \A a \in Live(st, sp, r, i) : sp[a].amount \in Int
  BY SpecsTyped DEF Live, Allocations
<1>3. QED
  BY <1>1, <1>2 DEF Numbers, Lock

\* n is put on the account k.
Moved(b, c, k, n) ==
  /\ b \in [Accounts -> Nat] /\ c \in [Accounts -> Nat]
  /\ k \in Accounts /\ n \in Int
  /\ c = [b EXCEPT ![k] = @ + n]

LEMMA HeldMoves ==
  ASSUME NEW b, NEW c, NEW k, NEW n, Moved(b, c, k, n), NEW r \in Admins, NEW i \in Instruments
  PROVE  SumFunction(Held(c, r, i))
           = SumFunction(Held(b, r, i)) + (IF k[2] = r /\ k[3] = i THEN n ELSE 0)
<1>1. PICK f : f = Held(b, r, i)
  OBVIOUS
<1>2. PICK g : g = Held(c, r, i)
  OBVIOUS
<1>3. Numbers(f) /\ Numbers(g) /\ DOMAIN f = Parties /\ DOMAIN g = Parties
  BY <1>1, <1>2, HeldNumbers DEF Moved
<1>4. SumFunction(f) \in Int
  BY <1>3, SumInt
<1>5. CASE k[2] = r /\ k[3] = i
  <2>1. PICK p \in Parties : k = <<p, r, i>>
    BY <1>5 DEF Moved, Accounts
  <2>2. /\ f[p] \in Int /\ n \in Int /\ g[p] = f[p] + n
        /\ \A o \in Parties : o # p => f[o] = g[o]
    BY <1>1, <1>2, <2>1 DEF Moved, Held, Accounts
  <2>3. SumFunction(g) = SumFunction(f) - f[p] + g[p]
    BY <1>3, <2>2, SumChanges
  <2>4. QED
    BY <1>1, <1>2, <1>4, <1>5, <2>2, <2>3
<1>6. CASE ~ (k[2] = r /\ k[3] = i)
  <2>1. f = g
    BY <1>1, <1>2, <1>6 DEF Moved, Held, Accounts
  <2>2. QED
    BY <1>1, <1>2, <1>4, <1>6, <2>1
<1>7. QED
  BY <1>5, <1>6

\* The allocation a becomes live for s; read backwards, it is live no more.
Locking(st, sp, new, newSp, a, s) ==
  /\ Allocations(st, sp) /\ Allocations(new, newSp)
  /\ a \in AllocIds /\ s \in Specs /\ st[a] # "live"
  /\ new = [st EXCEPT ![a] = "live"] /\ newSp = [sp EXCEPT ![a] = s]

LEMMA LockGains ==
  ASSUME NEW st, NEW sp, NEW new, NEW newSp, NEW a, NEW s, Locking(st, sp, new, newSp, a, s),
         NEW r, NEW i
  PROVE  SumFunction(Lock(new, newSp, r, i))
           = SumFunction(Lock(st, sp, r, i))
               + (IF s.admin = r /\ s.instrument = i THEN s.amount ELSE 0)
<1>1. PICK f : f = Lock(st, sp, r, i)
  OBVIOUS
<1>2. PICK g : g = Lock(new, newSp, r, i)
  OBVIOUS
<1>3. /\ Numbers(f) /\ DOMAIN f = Live(st, sp, r, i)
      /\ Numbers(g) /\ DOMAIN g = Live(new, newSp, r, i)
  BY <1>1, <1>2, LockNumbers DEF Locking
<1>4. SumFunction(f) \in Int /\ s.amount \in Int
  BY <1>3, SumInt, SpecsTyped DEF Locking
<1>5. /\ a \in AllocIds /\ st[a] # "live" /\ new[a] = "live" /\ newSp[a] = s
      /\ \A b \in AllocIds : b # a => new[b] = st[b] /\ newSp[b] = sp[b]
  BY DEF Locking, Allocations
<1>6. \A b \in Live(st, sp, r, i) : b \in Live(new, newSp, r, i) /\ newSp[b] = sp[b]
  BY <1>5 DEF Live
<1>7. \A b \in Live(st, sp, r, i) : f[b] = g[b]
  BY <1>1, <1>2, <1>6 DEF Lock
<1>8. CASE s.admin = r /\ s.instrument = i
  <2>1. DOMAIN g = DOMAIN f \cup {a} /\ a \notin DOMAIN f
    BY <1>3, <1>5, <1>8 DEF Live
  <2>2. g[a] = s.amount
    BY <1>2, <1>3, <1>5, <2>1 DEF Lock
  <2>3. SumFunction(g) = SumFunction(f) + g[a]
    BY <1>3, <1>7, <2>1, SumGains
  <2>4. QED
    BY <1>1, <1>2, <1>8, <2>2, <2>3
<1>9. CASE ~ (s.admin = r /\ s.instrument = i)
  <2>1. DOMAIN g = DOMAIN f
    BY <1>3, <1>5, <1>9 DEF Live
  <2>2. f = g
    BY <1>3, <1>7, <2>1 DEF Numbers
  <2>3. QED
    BY <1>1, <1>2, <1>4, <1>9, <2>2
<1>10. QED
  BY <1>8, <1>9

\* What becomes locked is taken from an account, and what is unlocked put on one.
LEMMA LockKeeps ==
  ASSUME NEW st, NEW sp, NEW new, NEW newSp, NEW a, NEW s, Locking(st, sp, new, newSp, a, s),
         NEW b, NEW c, NEW p,
         Moved(b, c, Account(p, s), - s.amount) \/ Moved(c, b, Account(p, s), s.amount)
  PROVE  Balanced(b, st, sp) <=> Balanced(c, new, newSp)
<1>1. s.amount \in Int /\ - s.amount \in Int
  BY SpecsTyped DEF Locking
<1>2. PICK k : k = Account(p, s)
  OBVIOUS
<1>3. k[2] = s.admin /\ k[3] = s.instrument
  BY <1>2 DEF Account
<1>4. ASSUME NEW r \in Admins, NEW i \in Instruments
      PROVE  SumFunction(Held(b, r, i)) + SumFunction(Lock(st, sp, r, i))
               = SumFunction(Held(c, r, i)) + SumFunction(Lock(new, newSp, r, i))
  <2>1. /\ SumFunction(Held(b, r, i)) \in Int /\ SumFunction(Held(c, r, i)) \in Int
        /\ SumFunction(Lock(st, sp, r, i)) \in Int
    BY HeldNumbers, LockNumbers, SumInt DEF Moved, Locking
  <2>2. SumFunction(Lock(new, newSp, r, i))
          = SumFunction(Lock(st, sp, r, i))
              + (IF s.admin = r /\ s.instrument = i THEN s.amount ELSE 0)
    BY LockGains
  <2>3. CASE Moved(c, b, k, s.amount)
    <3>1. SumFunction(Held(b, r, i))
            = SumFunction(Held(c, r, i)) + (IF k[2] = r /\ k[3] = i THEN s.amount ELSE 0)
      BY <2>3, HeldMoves
    <3>2. QED
      BY <1>1, <1>3, <2>1, <2>2, <3>1
  <2>4. CASE Moved(b, c, k, - s.amount)
    <3>1. SumFunction(Held(c, r, i))
            = SumFunction(Held(b, r, i)) + (IF k[2] = r /\ k[3] = i THEN - s.amount ELSE 0)
      BY <2>4, HeldMoves
    <3>2. QED
      BY <1>1, <1>3, <2>1, <2>2, <3>1
  <2>5. QED
    BY <1>2, <2>3, <2>4
<1>5. QED
  BY <1>4 DEF Balanced

RegistryInv ==
  /\ Allocations(allocState, allocSpec)
  /\ Balanced(balance, allocState, allocSpec)

\* Other steps leave the registry alone.
LEMMA RegistryInductive == TypeInv /\ RegistryInv /\ [Next]_vars => RegistryInv'
<1> SUFFICES ASSUME TypeInv, RegistryInv, [Next]_vars PROVE RegistryInv'
  OBVIOUS
<1>0. TypeInv' /\ balance \in [Accounts -> Nat] /\ balance' \in [Accounts -> Nat]
  BY TypeInductive DEF TypeInv, TypeOK
<1>1. CASE UNCHANGED <<allocState, allocSpec, balance>>
  BY <1>1 DEF RegistryInv, Allocations, Balanced, Held, Lock, Live
<1>2. ASSUME NEW a \in AllocIds, NEW s \in Specs, Allocate(a, s) PROVE RegistryInv'
  <2>1. /\ allocState[a] = "none" /\ s.sender \in Parties
        /\ allocState' = [allocState EXCEPT ![a] = "live"] /\ allocSpec' = [allocSpec EXCEPT ![a] = s]
        /\ balance' = [balance EXCEPT ![Account(s.sender, s)] = @ - s.amount]
    BY <1>2, SpecsAssumption DEF Allocate, AllocSpec
  <2>2. Allocations(allocState', allocSpec')
    <3>1. {b \in AllocIds : allocState'[b] = "live"} = {b \in AllocIds : allocState[b] = "live"} \cup {a}
      BY <2>1 DEF RegistryInv, Allocations
    <3>2. IsFiniteSet({b \in AllocIds : allocState'[b] = "live"})
      BY <3>1, FS_AddElement DEF RegistryInv, Allocations
    <3>3. QED
      BY <1>0, <3>2 DEF TypeInv, TypeOK, Allocations
  <2>3. Locking(allocState, allocSpec, allocState', allocSpec', a, s)
    BY <2>1, <2>2 DEF Locking, RegistryInv
  <2>4. Moved(balance, balance', Account(s.sender, s), - s.amount)
    <3>1. Account(s.sender, s) \in Accounts /\ s.amount \in Int
      BY SpecsTyped
    <3>2. balance' = [balance EXCEPT ![Account(s.sender, s)] = @ + (- s.amount)]
      BY <1>0, <2>1, <3>1
    <3>3. QED
      BY <1>0, <3>1, <3>2 DEF Moved
  <2>5. Balanced(balance', allocState', allocSpec')
    BY <2>3, <2>4, LockKeeps DEF RegistryInv
  <2>6. QED
    BY <2>2, <2>5 DEF RegistryInv, Allocations, Balanced, Held, Lock, Live
<1>3. ASSUME NEW a \in AllocIds, NEW p \in Parties, NEW left, allocState[a] = "live", left # "live",
             allocState' = [allocState EXCEPT ![a] = left], allocSpec' = allocSpec,
             balance' = [balance EXCEPT ![Account(p, allocSpec[a])] = @ + allocSpec[a].amount]
      PROVE  RegistryInv'
  <2>1. allocSpec[a] \in Specs
    BY <1>3 DEF TypeInv, TypeOK
  <2>2. Allocations(allocState', allocSpec')
    <3>1. {b \in AllocIds : allocState'[b] = "live"} \subseteq {b \in AllocIds : allocState[b] = "live"}
      BY <1>3 DEF RegistryInv, Allocations
    <3>2. IsFiniteSet({b \in AllocIds : allocState'[b] = "live"})
      BY <3>1, FS_Subset DEF RegistryInv, Allocations
    <3>3. QED
      BY <1>0, <3>2 DEF TypeInv, TypeOK, Allocations
  <2>3. /\ allocState = [allocState' EXCEPT ![a] = "live"] /\ allocState'[a] # "live"
        /\ allocSpec = [allocSpec' EXCEPT ![a] = allocSpec[a]]
    BY <1>3 DEF RegistryInv, Allocations
  <2>4. Locking(allocState', allocSpec', allocState, allocSpec, a, allocSpec[a])
    BY <2>1, <2>2, <2>3 DEF Locking, RegistryInv
  <2>5. Moved(balance, balance', Account(p, allocSpec[a]), allocSpec[a].amount)
    <3>1. Account(p, allocSpec[a]) \in Accounts /\ allocSpec[a].amount \in Int
      BY <2>1, SpecsAssumption DEF AllocSpec, Account, Accounts
    <3>2. QED
      BY <1>0, <1>3, <3>1 DEF Moved
  <2>6. Balanced(balance', allocState', allocSpec')
    BY <2>4, <2>5, LockKeeps DEF RegistryInv
  <2>7. QED
    BY <2>2, <2>6 DEF RegistryInv, Allocations, Balanced, Held, Lock, Live
<1>4. ASSUME NEW a \in AllocIds, Withdraw(a) PROVE RegistryInv'
  <2>1. allocSpec[a] \in Specs
    BY <1>4 DEF Withdraw, TypeInv, TypeOK
  <2>2. allocSpec[a].sender \in Parties
    BY <2>1, SpecsAssumption DEF AllocSpec
  <2>3. QED
    BY <1>3, <1>4, <2>2 DEF Withdraw
<1>5. ASSUME NEW p \in Parties, NEW c \in acs, Settle(p, c) PROVE RegistryInv'
  <2>1. /\ c.alloc \in AllocIds /\ allocState[c.alloc] = "live"
        /\ allocState' = [allocState EXCEPT ![c.alloc] = "executed"] /\ allocSpec' = allocSpec
    BY <1>5, SettleRegistry
  <2>2. balance' = [balance EXCEPT ![Account(allocSpec[c.alloc].receiver, allocSpec[c.alloc])]
                                     = @ + allocSpec[c.alloc].amount]
    BY <1>5 DEF Settle, ExecuteTransfer
  <2>3. allocSpec[c.alloc] \in Specs
    BY <2>1 DEF TypeInv, TypeOK
  <2>4. allocSpec[c.alloc].receiver \in Parties
    BY <2>3, SpecsAssumption DEF AllocSpec
  <2>5. QED
    BY <1>3, <2>1, <2>2, <2>4
<1>6. ASSUME NEW p \in Parties, NEW c \in acs, Choice(p, c) PROVE RegistryInv'
  BY <1>1, <1>5, <1>6, ChoiceRegistry
<1>7. ASSUME NEW p \in Parties, NEW r \in Roots, NEW d \in Deals, NEW t \in Terms,
             Propose(p, r, d, t)
      PROVE  RegistryInv'
  BY <1>1, <1>7 DEF Propose
<1>10. ASSUME NEW p \in Parties, NEW r \in Roots, NEW n \in Creations, CreateDirectly(p, r, n)
       PROVE  RegistryInv'
  BY <1>1, <1>10 DEF CreateDirectly
<1>8. CASE Tick \/ UNCHANGED vars
  BY <1>1, <1>8 DEF Tick, vars
<1>9. QED
  BY <1>2, <1>4, <1>6, <1>7, <1>8, <1>10 DEF Next

LEMMA InitBalanced == Init => RegistryInv
<1> SUFFICES ASSUME Init PROVE RegistryInv
  OBVIOUS
<1>1. {a \in AllocIds : allocState[a] = "live"} = {}
  BY DEF Init
<1>2. Allocations(allocState, allocSpec)
  BY <1>1, FS_EmptySet DEF Init, Allocations
<1>3. ASSUME NEW r \in Admins, NEW i \in Instruments
      PROVE  SumFunction(Held(balance, r, i)) + SumFunction(Lock(allocState, allocSpec, r, i))
               = Wealth * Cardinality(Parties)
  <2>1. SumFunction(Held(balance, r, i)) = Wealth * Cardinality(Parties)
    <3>1. balance \in [Accounts -> Nat] /\ \A p \in Parties : Held(balance, r, i)[p] = Wealth
      BY BoundsAssumption DEF Init, Held, Accounts
    <3>2. Numbers(Held(balance, r, i)) /\ DOMAIN Held(balance, r, i) = Parties
      BY <3>1, HeldNumbers
    <3>3. Wealth \in Int
      BY BoundsAssumption
    <3>4. QED
      BY <3>1, <3>2, <3>3, SumOfEqual
  <2>2. SumFunction(Lock(allocState, allocSpec, r, i)) = 0
    <3>1. Live(allocState, allocSpec, r, i) = {}
      BY DEF Init, Live
    <3>2. QED
      BY <1>2, <3>1, LockNumbers, SumOfNothing
  <2>3. Wealth * Cardinality(Parties) \in Int
    <3>1. Cardinality(Parties) \in Int /\ Wealth \in Int
      BY BoundsAssumption, PartiesAssumption, FS_CardinalityType
    <3>2. QED
      BY <3>1
  <2>4. QED
    BY <2>1, <2>2, <2>3
<1>4. QED
  BY <1>2, <1>3 DEF RegistryInv, Balanced

\* In every instrument of every registry, what the parties hold and what live
\* allocations lock is what they started with, whoever allocates, withdraws and
\* settles: no choice pays twice, or pays what was not locked.
THEOREM NothingIsCreated == Spec => []Conservation
<1>1. RegistryInv => Conservation
  BY DEF RegistryInv, Balanced, Held, Lock, Live, Conservation, Holdings, Locked, LiveIn
<1>2. Init => TypeInv
  BY BoundsAssumption DEF Init, TypeInv, TypeOK, LiveAmountsPositive
<1>3. QED
  BY <1>1, <1>2, InitBalanced, TypeInductive, RegistryInductive, PTL DEF Spec
=============================================================================
