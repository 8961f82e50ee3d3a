------------------------------ MODULE DealLedger ------------------------------
(***************************************************************************)
(* The deal contracts of daml/Vinss/Deal.daml on a Canton ledger, together *)
(* with the token registry whose allocations they reference.               *)
(*                                                                         *)
(* A contract comes to be by a choice on an earlier one, or by a create    *)
(* command of its only signatory: that needs nobody's consent but the      *)
(* template's ensure clause, and the deal it names is any text.  A         *)
(* contract is a record of its own fields and of its root, the creation it *)
(* descends from; since every choice of Deal.daml archives the contract it *)
(* is exercised on, root, template and round tell contracts apart and the  *)
(* record stands for the contract identifier as well (HistoryBehind, below,*)
(* is what makes that sound).  Hashes and conversation identifiers never   *)
(* influence a choice and are left out.  A ledger transaction is atomic:   *)
(* each choice is one action.  Submissions several parties sign together   *)
(* are not modelled.                                                       *)
(***************************************************************************)
EXTENDS Integers, FiniteSets, Functions

CONSTANTS
  Parties,      \* parties that make deals
  Admins,       \* parties that administer a token registry
  Instruments,  \* instrument identifiers
  Deals,        \* deal identifiers: a text of the creator's choice, no key
  Roots,        \* identifiers of the create commands
  AllocIds,     \* contract identifiers of allocations
  Terms,        \* the terms a seller may propose
  Specs,        \* the allocation specifications a wallet may request
  Wealth,       \* initial balance of every party in every instrument
  MaxTime,      \* bound: ledger time runs over 0 .. MaxTime
  MaxRound,     \* bound: number of revision rounds of a deal
  Creations,    \* bound: what parties create past the choices, besides proposals
  LateWithdrawals,  \* does the registry allow a withdrawal after allocateBefore?
  None          \* Daml's None: no registry, no allocation

DealTerms ==
  [seller : Parties, buyer : Parties, fulfiller : Parties, reviewer : Parties,
   admin : Admins \cup {None}, instrument : Instruments,
   amount : Int \cup {None},    \* None: a text parseDecimal does not accept
   expires : Nat]

AllocSpec ==
  [deal : Deals, sender : Parties, receiver : Parties, executor : Parties,
   admin : Admins, instrument : Instruments, amount : Int,
   allocateBefore : Nat, settleBefore : Nat]

ASSUME NoneAssumption == None \notin Parties \cup Admins \cup Deals \cup AllocIds \cup Int
ASSUME PartiesAssumption == IsFiniteSet(Parties)
ASSUME TermsAssumption == Terms \subseteq DealTerms
ASSUME SpecsAssumption == Specs \subseteq AllocSpec
ASSUME BoundsAssumption == MaxTime \in Nat /\ MaxRound \in Nat /\ Wealth \in Nat
ASSUME CreationsAssumption ==
  Creations \subseteq
    [tpl : {"DealFulfillment", "DealRevisionRequest", "FulfillmentApproval"},
     deal : Deals, terms : Terms, round : 0 .. MaxRound, alloc : AllocIds \cup {None}]
ASSUME RegistryAssumption == LateWithdrawals \in BOOLEAN

VARIABLES
  now,          \* ledger time, in minutes
  acs,          \* active contracts
  archived,     \* contracts that were archived
  allocState,   \* where each allocation stands with its registry
  allocSpec,    \* the specification each allocation was made with
  balance       \* unlocked holdings, summed per party, admin and instrument

vars == <<now, acs, archived, allocState, allocSpec, balance>>

-----------------------------------------------------------------------------
\* Contracts

Templates == {"DealProposal", "DealAgreement", "DealEscrow", "DealFulfillment",
              "DealRevisionRequest", "FulfillmentApproval", "SettlementReceipt"}

Contract == [tpl : Templates, deal : Deals, terms : Terms, round : 0 .. MaxRound,
             alloc : AllocIds \cup {None}, root : Roots]

UsesEscrow(t) == t.admin # None

AdminIsIndependent(t) == UsesEscrow(t) => t.admin \notin {t.seller, t.buyer}

\* The ensure clause of a proposal.  That it expires after createdAt says nothing
\* of ledger time: createdAt is a field the seller fills in.
ProposalEnsure(t) ==
  /\ t.seller # t.buyer
  /\ t.fulfiller # t.reviewer
  /\ t.fulfiller \in {t.seller, t.buyer}
  /\ t.reviewer \in {t.seller, t.buyer}
  /\ AdminIsIndependent(t)

Proposal(r, d, t) ==
  [tpl |-> "DealProposal", deal |-> d, terms |-> t, round |-> 0, alloc |-> None, root |-> r]

\* The contract with the fields of n that the creation r makes.
Created(r, n) ==
  [tpl |-> n.tpl, deal |-> n.deal, terms |-> n.terms, round |-> n.round,
   alloc |-> n.alloc, root |-> r]

\* Agreements, escrows and receipts have two signatories, the others one.
SoleSignatory(n) ==
  CASE n.tpl = "DealProposal"        -> n.terms.seller
    [] n.tpl = "DealFulfillment"     -> n.terms.fulfiller
    [] n.tpl = "DealRevisionRequest" -> n.terms.reviewer
    [] n.tpl = "FulfillmentApproval" -> n.terms.reviewer
    [] OTHER                         -> None

\* The contract a choice on c creates: same deal, same terms, same root.
Successor(c, tpl) == [c EXCEPT !.tpl = tpl]

History == acs \cup archived
\* Mutant: a choice that does not consume its contract.
KeepActive(c, created) ==
  /\ acs' = acs \cup created
  /\ archived' = archived \cup {c}

\* A consuming choice on c that creates the contracts of `created`.
Consume(c, created) ==
  /\ acs' = (acs \ {c}) \cup created
  /\ archived' = archived \cup {c}

-----------------------------------------------------------------------------
\* The token registry

Accounts == Parties \X Admins \X Instruments

Account(p, s) == <<p, s.admin, s.instrument>>
\* Mutant: holdings are not checked.
AllocateUncovered(a, s) ==
  /\ allocState[a] = "none"
  /\ s.amount > 0
  /\ s.allocateBefore > now
  /\ s.settleBefore > s.allocateBefore
  /\ allocState' = [allocState EXCEPT ![a] = "live"]
  /\ allocSpec' = [allocSpec EXCEPT ![a] = s]
  /\ balance' = [balance EXCEPT ![Account(s.sender, s)] = @ - s.amount]
  /\ UNCHANGED <<now, acs, archived>>

\* AllocationFactory_Allocate: lock the sender's holdings for the transfer leg.
Allocate(a, s) ==
  /\ allocState[a] = "none"
  /\ s.amount > 0
  /\ s.allocateBefore > now
  /\ s.settleBefore > s.allocateBefore
  /\ balance[Account(s.sender, s)] >= s.amount
  /\ allocState' = [allocState EXCEPT ![a] = "live"]
  /\ allocSpec' = [allocSpec EXCEPT ![a] = s]
  /\ balance' = [balance EXCEPT ![Account(s.sender, s)] = @ - s.amount]
  /\ UNCHANGED <<now, acs, archived>>

\* Allocation_Withdraw by the sender.  The repository's own token refuses it from
\* allocateBefore on, a registry of the network decides for itself.
Withdraw(a) ==
  /\ allocState[a] = "live"
  /\ LateWithdrawals \/ now < allocSpec[a].allocateBefore
  /\ allocState' = [allocState EXCEPT ![a] = "withdrawn"]
  /\ LET s == allocSpec[a]
     IN  balance' = [balance EXCEPT ![Account(s.sender, s)] = @ + s.amount]
  /\ UNCHANGED <<now, acs, archived, allocSpec>>
\* Mutant: the executed allocation stays live.
TransferAndKeep(a, authorizers) ==
  LET s == allocSpec[a]
  IN  /\ allocState[a] = "live"
      /\ {s.sender, s.receiver, s.executor} \subseteq authorizers
      /\ now < s.settleBefore
      /\ balance' = [balance EXCEPT ![Account(s.receiver, s)] = @ + s.amount]
      /\ UNCHANGED allocState

\* Allocation_ExecuteTransfer, exercised from within Settle: it needs sender,
\* receiver and executor to have authorised it.
ExecuteTransfer(a, authorizers) ==
  LET s == allocSpec[a]
  IN  /\ allocState[a] = "live"
      /\ {s.sender, s.receiver, s.executor} \subseteq authorizers
      /\ now < s.settleBefore
      /\ allocState' = [allocState EXCEPT ![a] = "executed"]
      /\ balance' = [balance EXCEPT ![Account(s.receiver, s)] = @ + s.amount]

-----------------------------------------------------------------------------
\* Creation and archival by a contract's only signatory.  p is the acting party.

Fresh(r) == \A c \in History : c.root # r

\* A seller creates a proposal.  Nothing asks for a deal identifier that is new.
Propose(p, r, d, t) ==
  /\ p = t.seller
  /\ ProposalEnsure(t)
  /\ Fresh(r)
  /\ acs' = acs \cup {Proposal(r, d, t)}
  /\ UNCHANGED <<now, archived, allocState, allocSpec, balance>>

\* A party creates a fulfillment, a revision request or an approval that no
\* choice made: of any deal and round, with any allocation there is.
CreateDirectly(p, r, n) ==
  /\ p = SoleSignatory(n)
  /\ n.terms.fulfiller # n.terms.reviewer
  /\ n.alloc # None => allocState[n.alloc] # "none"
  /\ Fresh(r)
  /\ acs' = acs \cup {Created(r, n)}
  /\ UNCHANGED <<now, archived, allocState, allocSpec, balance>>

\* Daml's own choice Archive, of the signatories together.
Retract(p, c) ==
  /\ c \in acs
  /\ p = SoleSignatory(c)
  /\ Consume(c, {})
  /\ UNCHANGED <<now, allocState, allocSpec, balance>>

-----------------------------------------------------------------------------
\* The deal choices.

Accept(p, c) ==
  /\ c \in acs
  /\ c.tpl = "DealProposal"
  /\ p = c.terms.buyer
  /\ now <= c.terms.expires
  /\ Consume(c, {Successor(c, "DealAgreement")})
  /\ UNCHANGED <<now, allocState, allocSpec, balance>>

Reject(p, c) ==
  /\ c \in acs
  /\ c.tpl = "DealProposal"
  /\ p = c.terms.buyer
  /\ Consume(c, {})
  /\ UNCHANGED <<now, allocState, allocSpec, balance>>
\* Mutant: work may start on an unfunded escrow deal.
SubmitUnfunded(p, c) ==
  /\ c \in acs
  /\ c.tpl = "DealAgreement"
  /\ p = c.terms.fulfiller
  /\ Consume(c, {Successor(c, "DealFulfillment")})
  /\ UNCHANGED <<now, allocState, allocSpec, balance>>

SubmitFulfillment(p, c) ==
  /\ c \in acs
  /\ c.tpl = "DealAgreement"
  /\ p = c.terms.fulfiller
  /\ ~UsesEscrow(c.terms)
  /\ Consume(c, {Successor(c, "DealFulfillment")})
  /\ UNCHANGED <<now, allocState, allocSpec, balance>>

\* What FundEscrow requires of the allocation it is handed.
SpecFits(s, d, t) ==
  /\ s.admin = t.admin
  /\ s.instrument = t.instrument
  /\ t.amount # None
  /\ s.amount = t.amount
  /\ s.deal = d
  /\ s.sender = t.reviewer
  /\ s.receiver = t.fulfiller
  /\ s.executor = t.fulfiller
\* Mutants: the deal an allocation names is not compared, or the agreement
\* stays active after its funding.
FundWithAnyDeal(p, c, a) ==
  /\ c \in acs
  /\ c.tpl = "DealAgreement"
  /\ p = c.terms.reviewer
  /\ UsesEscrow(c.terms)
  /\ allocState[a] = "live"
  /\ SpecFits(allocSpec[a], allocSpec[a].deal, c.terms)
  /\ Consume(c, {[Successor(c, "DealEscrow") EXCEPT !.alloc = a]})
  /\ UNCHANGED <<now, allocState, allocSpec, balance>>

FundAgain(p, c, a) ==
  /\ c \in acs
  /\ c.tpl = "DealAgreement"
  /\ p = c.terms.reviewer
  /\ UsesEscrow(c.terms)
  /\ allocState[a] = "live"
  /\ SpecFits(allocSpec[a], c.deal, c.terms)
  /\ acs' = acs \cup {[Successor(c, "DealEscrow") EXCEPT !.alloc = a]}
  /\ UNCHANGED <<now, archived, allocState, allocSpec, balance>>

FundEscrow(p, c, a) ==
  /\ c \in acs
  /\ c.tpl = "DealAgreement"
  /\ p = c.terms.reviewer
  /\ UsesEscrow(c.terms)
  /\ allocState[a] = "live"
  /\ SpecFits(allocSpec[a], c.deal, c.terms)
  /\ Consume(c, {[Successor(c, "DealEscrow") EXCEPT !.alloc = a]})
  /\ UNCHANGED <<now, allocState, allocSpec, balance>>

SubmitFundedFulfillment(p, c) ==
  /\ c \in acs
  /\ c.tpl = "DealEscrow"
  /\ p = c.terms.fulfiller
  /\ Consume(c, {Successor(c, "DealFulfillment")})
  /\ UNCHANGED <<now, allocState, allocSpec, balance>>
\* Mutant: work that was sent back can be approved.
ApproveReturned(p, c) ==
  /\ c \in acs
  /\ c.tpl \in {"DealFulfillment", "DealRevisionRequest"}
  /\ p = c.terms.reviewer
  /\ Consume(c, {Successor(c, "FulfillmentApproval")})
  /\ UNCHANGED <<now, allocState, allocSpec, balance>>

Approve(p, c) ==
  /\ c \in acs
  /\ c.tpl = "DealFulfillment"
  /\ p = c.terms.reviewer
  /\ Consume(c, {Successor(c, "FulfillmentApproval")})
  /\ UNCHANGED <<now, allocState, allocSpec, balance>>

RequestRevision(p, c) ==
  /\ c \in acs
  /\ c.tpl = "DealFulfillment"
  /\ p = c.terms.reviewer
  /\ Consume(c, {Successor(c, "DealRevisionRequest")})
  /\ UNCHANGED <<now, allocState, allocSpec, balance>>
\* Mutants: a revision nobody asked for, and one that does not count.
SubmitUnasked(p, c) ==
  /\ c \in acs
  /\ c.tpl \in {"DealRevisionRequest", "DealFulfillment"}
  /\ p = c.terms.fulfiller
  /\ c.round < MaxRound
  /\ Consume(c, {[Successor(c, "DealFulfillment") EXCEPT !.round = @ + 1]})
  /\ UNCHANGED <<now, allocState, allocSpec, balance>>

SubmitSameRound(p, c) ==
  /\ c \in acs
  /\ c.tpl = "DealRevisionRequest"
  /\ p = c.terms.fulfiller
  /\ Consume(c, {Successor(c, "DealFulfillment")})
  /\ UNCHANGED <<now, allocState, allocSpec, balance>>

SubmitRevision(p, c) ==
  /\ c \in acs
  /\ c.tpl = "DealRevisionRequest"
  /\ p = c.terms.fulfiller
  /\ c.round < MaxRound
  /\ Consume(c, {[Successor(c, "DealFulfillment") EXCEPT !.round = @ + 1]})
  /\ UNCHANGED <<now, allocState, allocSpec, balance>>
\* Mutant: the receipt is created without moving the money.
SettleUnpaid(p, c) ==
  /\ c \in acs
  /\ c.tpl = "FulfillmentApproval"
  /\ p = c.terms.fulfiller
  /\ c.alloc # None
  /\ Consume(c, {Successor(c, "SettlementReceipt")})
  /\ UNCHANGED <<now, allocState, allocSpec, balance>>

Settle(p, c) ==
  /\ c \in acs
  /\ c.tpl = "FulfillmentApproval"
  /\ p = c.terms.fulfiller
  /\ c.alloc # None
  /\ ExecuteTransfer(c.alloc, {c.terms.reviewer, c.terms.fulfiller})
  /\ Consume(c, {Successor(c, "SettlementReceipt")})
  /\ UNCHANGED <<now, allocSpec>>

Tick ==
  /\ now < MaxTime
  /\ now' = now + 1
  /\ UNCHANGED <<acs, archived, allocState, allocSpec, balance>>

-----------------------------------------------------------------------------
Init ==
  /\ now = 0
  /\ acs = {}
  /\ archived = {}
  /\ allocState = [a \in AllocIds |-> "none"]
  /\ allocSpec = [a \in AllocIds |-> None]
  /\ balance = [k \in Accounts |-> Wealth]

Choice(p, c) ==
  \/ Accept(p, c)
  \/ Reject(p, c)
  \/ Retract(p, c)
  \/ SubmitFulfillment(p, c)
  \/ \E a \in AllocIds : FundEscrow(p, c, a)
  \/ SubmitFundedFulfillment(p, c)
  \/ Approve(p, c)
  \/ RequestRevision(p, c)
  \/ SubmitRevision(p, c)
  \/ Settle(p, c)

Next ==
  \/ \E p \in Parties, r \in Roots, d \in Deals, t \in Terms : Propose(p, r, d, t)
  \/ \E p \in Parties, r \in Roots, n \in Creations : CreateDirectly(p, r, n)
  \/ \E p \in Parties, c \in acs : Choice(p, c)
  \/ \E a \in AllocIds, s \in Specs : Allocate(a, s)
  \/ \E a \in AllocIds : Withdraw(a)
  \/ Tick

Spec == Init /\ [][Next]_vars

-----------------------------------------------------------------------------
\* Properties

TypeOK ==
  /\ now \in 0 .. MaxTime
  /\ acs \subseteq Contract
  /\ archived \subseteq Contract
  /\ allocState \in [AllocIds -> {"none", "live", "withdrawn", "executed"}]
  /\ allocSpec \in [AllocIds -> Specs \cup {None}]
  /\ \A a \in AllocIds : allocState[a] # "none" => allocSpec[a] \in Specs
  /\ balance \in [Accounts -> Nat]

\* How far along its line a contract is; a revision round takes two stages.
Stage(c) ==
  CASE c.tpl = "DealProposal"        -> 0
    [] c.tpl = "DealAgreement"       -> 1
    [] c.tpl = "DealEscrow"          -> 2
    [] c.tpl = "DealFulfillment"     -> 3 + 2 * c.round
    [] c.tpl = "DealRevisionRequest" -> 4 + 2 * c.round
    [] c.tpl = "FulfillmentApproval" -> 4 + 2 * c.round
    [] c.tpl = "SettlementReceipt"   -> 5 + 2 * c.round

\* The lines that began with an offer; others began with a contract a party
\* created past the choices.
OfferLines == {c.root : c \in {x \in History : x.tpl = "DealProposal"}}

FromOffer(c) == c.root \in OfferLines

\* A contract touches the deal it names and the deal its allocation is for.
Touches(c, d) == c.deal = d \/ (c.alloc # None /\ allocSpec[c.alloc].deal = d)

Lines(d) == {c.root : c \in {x \in History : Touches(x, d)}}

\* Nobody reused the identifier of the deal or created a contract of it past the
\* choices: all that touches it descends from one offer.  createOffer takes a
\* fresh UUID and the clients never create anything else, so every deal is
\* orderly unless a party bypasses them.
Orderly(d) == Lines(d) \subseteq OfferLines /\ \A r1, r2 \in Lines(d) : r1 = r2

\* No line forks: whatever either party submits and in whatever order, a
\* creation has at most one active descendant, so no two tabs can advance the
\* same contract along two branches (approve it and send it back, say); and its
\* descendants keep the deal, the terms and the allocation they were given.
OneActivePerLine ==
  /\ \A c1, c2 \in acs : c1.root = c2.root => c1 = c2
  /\ \A c1, c2 \in History :
       c1.root = c2.root => /\ c1.deal = c2.deal /\ c1.terms = c2.terms
                            /\ c1.alloc = c2.alloc \/ None \in {c1.alloc, c2.alloc}

\* An archived contract is strictly behind the active one of its line: no
\* choice brings a line back to a stage it has left.
HistoryBehind ==
  \A old \in archived, cur \in acs :
    old.root = cur.root => Stage(old) < Stage(cur)

\* From the funding on, the allocation of a deal both parties agreed to is one
\* that exists, that names this deal and that fits the very terms they agreed to.
\* What a party creates past the choices may carry any allocation; an escrow
\* cannot be created that way.
EscrowBacked ==
  \A c \in History :
    c.tpl = "DealEscrow" \/ (FromOffer(c) /\ c.alloc # None) =>
      /\ c.alloc # None
      /\ allocState[c.alloc] # "none"
      /\ SpecFits(allocSpec[c.alloc], c.deal, c.terms)

\* An offer that names a registry is never worked on without funding: past the
\* agreement it carries an allocation, and one without registry never does.
FundedBeforeWork ==
  \A c \in History :
    (FromOffer(c) /\ c.tpl \notin {"DealProposal", "DealAgreement"}) =>
      (c.alloc # None <=> UsesEscrow(c.terms))

\* Money leaves an allocation only with its payer's consent, and never without
\* a trace.  Every executed allocation has a receipt for it: of an approval the
\* reviewer signed, between the very parties the allocation names, whatever the
\* two of them created past the choices.  When the deal it names is orderly the
\* receipt is that deal's, and a fulfillment of that round came before the
\* approval.  Conversely every receipt has its executed allocation.
PaidExactlyWhenApproved ==
  /\ \A a \in AllocIds : allocState[a] = "executed" =>
       \E c \in acs :
         /\ c.tpl = "SettlementReceipt"
         /\ c.alloc = a
         /\ Successor(c, "FulfillmentApproval") \in archived
         /\ {allocSpec[a].sender, allocSpec[a].receiver} \subseteq {c.terms.reviewer, c.terms.fulfiller}
         /\ Orderly(allocSpec[a].deal) =>
              /\ SpecFits(allocSpec[a], c.deal, c.terms)
              /\ Successor(c, "DealFulfillment") \in archived
  /\ \A c \in History : c.tpl = "SettlementReceipt" =>
       /\ c \in acs
       /\ c.alloc # None
       /\ allocState[c.alloc] = "executed"

\* No payment is claimed twice, and an orderly deal is paid at most once, however
\* often it is revised or retried and however many allocations were made for it.
NoDoubleSettlement ==
  /\ \A c1, c2 \in History :
       (c1.tpl = "SettlementReceipt" /\ c2.tpl = "SettlementReceipt"
          /\ c1.alloc = c2.alloc) => c1 = c2
  /\ \A a, b \in AllocIds :
       (allocState[a] = "executed" /\ allocState[b] = "executed"
          /\ allocSpec[a].deal = allocSpec[b].deal /\ Orderly(allocSpec[a].deal)) => a = b

\* The revision counter is honest: a fulfillment of round r that descends from
\* an offer was preceded by the reviewer's request for every earlier round, on
\* the same escrow.
RoundsAreRequested ==
  \A c \in History : FromOffer(c) =>
    \A r \in 0 .. c.round - 1 :
      \E q \in archived : /\ q.tpl = "DealRevisionRequest"
                          /\ q.root = c.root
                          /\ q.alloc = c.alloc
                          /\ q.round = r

\* What the parties hold of an instrument, and what live allocations lock of it.
Holdings(r, i) == SumFunction([p \in Parties |-> balance[<<p, r, i>>]])

LiveIn(r, i) ==
  {a \in AllocIds :
     allocState[a] = "live" /\ allocSpec[a].admin = r /\ allocSpec[a].instrument = i}

Locked(r, i) == SumFunction([a \in LiveIn(r, i) |-> allocSpec[a].amount])

\* Nothing is created or lost: in every instrument of every registry, what the
\* parties hold and what live allocations lock is what they started with.
Conservation ==
  \A r \in Admins, i \in Instruments :
    Holdings(r, i) + Locked(r, i) = Wealth * Cardinality(Parties)

-----------------------------------------------------------------------------
\* Refinement: the contracts implement EscrowPromise.

PhaseOf ==
  [tpl \in Templates |->
     CASE tpl = "DealProposal"        -> "offered"
       [] tpl = "DealAgreement"       -> "agreed"
       [] tpl = "DealEscrow"          -> "funded"
       [] tpl = "DealFulfillment"     -> "delivered"
       [] tpl = "DealRevisionRequest" -> "revising"
       [] tpl = "FulfillmentApproval" -> "approved"
       [] tpl = "SettlementReceipt"   -> "settled"]

\* An orderly deal stands where its active contract is; one with a past but no
\* active contract was rejected or retracted.
DealPhase(d) ==
  IF ~ Orderly(d) THEN "void"
  ELSE IF \E c \in acs : c.deal = d
  THEN PhaseOf[(CHOOSE c \in acs : c.deal = d).tpl]
  ELSE IF \E c \in archived : c.deal = d THEN "closed" ELSE "none"

Escrowed == {d \in Deals : Orderly(d) /\ \E c \in acs : c.deal = d /\ c.alloc # None}

\* Payments are counted at the registry, not in VINSS's contracts.
PaymentsFor(d) ==
  IF Orderly(d)
  THEN Cardinality({a \in AllocIds : allocState[a] = "executed" /\ allocSpec[a].deal = d})
  ELSE 0

Promise == INSTANCE EscrowPromise
  WITH phase    <- [d \in Deals |-> DealPhase(d)],
       escrowed <- Escrowed,
       payments <- [d \in Deals |-> PaymentsFor(d)]

\* Every behaviour of the contracts and the registry is one EscrowPromise
\* allows: one path per deal, funding before escrowed work, one payment, made
\* by the step that settles an approved deal; and nothing but a party's own
\* creation past the choices ends the promise of a deal.
ImplementsPromise == Promise!Spec
=============================================================================
