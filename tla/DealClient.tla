------------------------------ MODULE DealClient ------------------------------
(***************************************************************************)
(* The browser side of a deal: the room runtime                            *)
(* (frontend/lib/canton-room-runtime.ts), the deal provider                *)
(* (src/canton/http-offer-provider.ts) and the token wallet                *)
(* (src/canton/token-wallet.ts), as tabs that read the ledger, submit      *)
(* commands and announce what they did in the encrypted conversation.      *)
(*                                                                         *)
(* Every read of the active contracts, every submission and every notice   *)
(* is awaited separately, so each is a step of its own; a submission       *)
(* reaches the ledger later, or never, and goes on living when the tab     *)
(* that made it has timed out or was reloaded.  Command identifiers are    *)
(* random, so the ledger does not deduplicate a retry.  A tab has one      *)
(* operation at a time: the page's `busy` flag disables its buttons (the   *)
(* runtime's queue only orders the messages).  Both parties use this       *)
(* client: nobody creates or archives contracts past the choices.          *)
(***************************************************************************)
EXTENDS DealLedger

CONSTANTS
  Sessions,       \* browser tabs
  PartyOf,        \* the party each tab acts for
  OneMinute,      \* ONE_MINUTE of the token wallet, in units of `now`
  FiveMinutes,    \* FIVE_MINUTES of the token wallet
  MaxLost         \* bound: submissions dropped and operations abandoned

ASSUME SessionsAssumption ==
  /\ IsFiniteSet(Sessions)
  /\ None \notin Sessions
  /\ PartyOf \in [Sessions -> Parties]
ASSUME ClockAssumption ==
  OneMinute \in Nat /\ FiveMinutes \in Nat /\ MaxLost \in Nat

VARIABLES
  job,        \* the operation each tab is awaiting, or Idle
  inflight,   \* submissions that have not reached the ledger yet
  notices,    \* deal messages sent in the conversation
  lost,       \* how many submissions and operations were lost so far
  abandoned   \* per deal, the Allocate submissions nobody waits for any more

clientVars == <<job, inflight, notices, lost, abandoned>>
allVars == <<vars, clientVars>>

-----------------------------------------------------------------------------
\* Operations of the room, by the name of the deal message that announces them.

Actions == {"deal_proposal", "accept", "reject", "submit_fulfillment",
            "request_revision", "submit_revision", "approve_fulfillment", "settled"}

\* The template of the contract an operation leaves.
To(op) ==
  CASE op = "deal_proposal"       -> "DealProposal"
    [] op = "accept"              -> "DealAgreement"
    [] op = "submit_fulfillment"  -> "DealFulfillment"
    [] op = "request_revision"    -> "DealRevisionRequest"
    [] op = "submit_revision"     -> "DealFulfillment"
    [] op = "approve_fulfillment" -> "FulfillmentApproval"
    [] op = "settled"             -> "SettlementReceipt"
    [] OTHER                      -> "none"

\* offer.own: the seller's tabs deliver and settle, the buyer's accept and review.
SellerOps == {"submit_fulfillment", "submit_revision", "settled"}

MayRun(s, op, t) == PartyOf[s] = IF op \in SellerOps THEN t.seller ELSE t.buyer

Idle == [op |-> "idle", deal |-> None, step |-> "idle", on |-> None]

Job(op, d, step, c) == [op |-> op, deal |-> d, step |-> step, on |-> c]

\* What is submitted: choice `choice` on contract `on`, or the creation of a
\* proposal with terms `data`, or of an allocation with specification `data`.
Submission(s, choice, c, a, data) ==
  [sess |-> s, by |-> PartyOf[s], choice |-> choice, on |-> c, alloc |-> a, data |-> data]

\* Deals are known from their offer message in the conversation.
Offered(d) == \E n \in notices : n.deal = d /\ n.action = "deal_proposal"

ActiveOf(d, tpls) == {c \in acs : c.deal = d /\ c.tpl \in tpls}

Submit(s, m, j) ==
  /\ inflight' = inflight \cup {m}
  /\ job' = [job EXCEPT ![s] = j]
  /\ UNCHANGED <<vars, notices, lost, abandoned>>

GoTo(s, j) ==
  /\ job' = [job EXCEPT ![s] = j]
  /\ UNCHANGED <<vars, inflight, notices, lost, abandoned>>

-----------------------------------------------------------------------------
\* createOffer: a fresh UUID names the deal; the creator delivers, the peer pays.
\* It refuses amounts that are not positive, but not every text parseDecimal does.
CreateOffer(s, d, t) ==
  /\ job[s] = Idle
  /\ PartyOf[s] = t.seller /\ t.fulfiller = t.seller /\ t.reviewer = t.buyer
  /\ t.expires > now
  /\ t.amount # None => t.amount > 0
  /\ \A c \in History : c.deal # d
  /\ \A x \in Sessions : job[x].deal # d
  /\ \A m \in inflight : m.choice = "Create" => m.on # d
  /\ Submit(s, Submission(s, "Create", d, None, t), Job("deal_proposal", d, "waiting", None))
\* Mutant: acceptance does not resume from the agreement.
AcceptProposalOnly(s, d) ==
  /\ job[s] = Idle
  /\ Offered(d)
  /\ \E c \in ActiveOf(d, {"DealProposal"}) :
       /\ MayRun(s, "accept", c.terms)
       /\ Submit(s, Submission(s, "accept", c, None, None), Job("accept", d, "waiting", c))

\* acceptOffer resumes from a live agreement of the deal, or accepts the
\* proposal the offer message names; it fails when neither is active.
AcceptOffer(s, d) ==
  /\ job[s] = Idle
  /\ Offered(d)
  /\ \/ \E c \in ActiveOf(d, {"DealAgreement"}) :
          /\ MayRun(s, "accept", c.terms)
          /\ GoTo(s, Job("accept", d, IF UsesEscrow(c.terms) THEN "escrow" ELSE "notify", c))
     \/ /\ ActiveOf(d, {"DealAgreement"}) = {}
        /\ \E c \in ActiveOf(d, {"DealProposal"}) :
             /\ MayRun(s, "accept", c.terms)
             /\ Submit(s, Submission(s, "accept", c, None, None), Job("accept", d, "waiting", c))

\* Every other operation reads the contract it acts on, found by deal identifier
\* and template, and submits its choice.
Operate(s, op, c) ==
  /\ job[s] = Idle
  /\ Offered(c.deal)
  /\ MayRun(s, op, c.terms)
  /\ Submit(s, Submission(s, op, c, None, None), Job(op, c.deal, "waiting", c))

RejectOffer(s, d) ==
  \E c \in ActiveOf(d, {"DealProposal"}) : Operate(s, "reject", c)

\* An agreement with a registry has to be funded first.
SubmitWork(s, d) ==
  \E c \in ActiveOf(d, {"DealEscrow", "DealAgreement"}) :
    /\ c.tpl = "DealAgreement" => ~UsesEscrow(c.terms)
    /\ Operate(s, "submit_fulfillment", c)

AskRevision(s, d) ==
  \E c \in ActiveOf(d, {"DealFulfillment"}) : Operate(s, "request_revision", c)

SendRevision(s, d) ==
  \E c \in ActiveOf(d, {"DealRevisionRequest"}) : Operate(s, "submit_revision", c)

ApproveWork(s, d) ==
  \E c \in ActiveOf(d, {"DealFulfillment"}) : Operate(s, "approve_fulfillment", c)

\* settleWithRegistry: the registry is asked about an allocation that must
\* still be there.
AllocationPresent(c) == c.alloc # None /\ allocState[c.alloc] = "live"

SettleOffer(s, d) ==
  \E c \in ActiveOf(d, {"FulfillmentApproval"}) :
    /\ AllocationPresent(c)
    /\ Operate(s, "settled", c)

-----------------------------------------------------------------------------
\* Token wallet: allocateAndFundEscrow
\* Mutant: the payer is named as the executor.
SpecForPayer(d, t) ==
  [deal |-> d, sender |-> t.reviewer, receiver |-> t.fulfiller, executor |-> t.reviewer,
   admin |-> t.admin, instrument |-> t.instrument, amount |-> t.amount,
   allocateBefore |-> t.expires - OneMinute, settleBefore |-> t.expires]

\* The specification the wallet requests at time t0.
SpecAt(d, t, t0) ==
  [deal |-> d, sender |-> t.reviewer, receiver |-> t.fulfiller, executor |-> t.fulfiller,
   admin |-> t.admin, instrument |-> t.instrument, amount |-> t.amount,
   allocateBefore |-> IF t0 + FiveMinutes < t.expires - OneMinute
                      THEN t0 + FiveMinutes ELSE t.expires - OneMinute,
   settleBefore |-> t.expires]

WalletSpec(d, t) == SpecAt(d, t, now)

\* Specs is meant to hold whatever the wallet may request.
ASSUME RequestsAssumption ==
  \A d \in Deals, t \in Terms, t0 \in 0 .. MaxTime :
    (UsesEscrow(t) /\ t.amount # None /\ t.amount > 0 /\ t.expires > t0 + OneMinute)
      => SpecAt(d, t, t0) \in Specs
\* Mutant: existing allocations are not looked at.
NeverReusable(a, d, t) == FALSE

\* allocationMatchesAgreement
Reusable(a, d, t) ==
  /\ allocState[a] = "live"
  /\ SpecFits(allocSpec[a], d, t)
  /\ allocSpec[a].settleBefore > now

UnusedAllocIds ==
  {a \in AllocIds : allocState[a] = "none" /\ \A m \in inflight : m.alloc # a}

CanAllocate(s, d, t) ==
  /\ PartyOf[s] = t.reviewer
  /\ t.amount # None
  /\ t.amount > 0
  /\ t.expires > now + OneMinute
  /\ balance[<<t.reviewer, t.admin, t.instrument>>] >= t.amount

\* fundEscrow of the provider first checks that the agreement is still active.
SubmitFunding(s, d, c, a) ==
  IF c \in acs
  THEN Submit(s, Submission(s, "fund", c, a, None), Job("accept", d, "funding", c))
  ELSE GoTo(s, Idle)

\* Reuse a live allocation that matches, otherwise lock new holdings.
AllocateOrReuse(s) ==
  LET d == job[s].deal
      c == job[s].on
      usable == {a \in AllocIds : Reusable(a, d, c.terms)}
  IN  /\ job[s].step = "escrow"
      /\ \/ \E a \in usable : SubmitFunding(s, d, c, a)
         \/ /\ usable = {} /\ CanAllocate(s, d, c.terms)
            /\ \E a \in UnusedAllocIds :
                 Submit(s, Submission(s, "allocate", c, a, WalletSpec(d, c.terms)),
                        Job("accept", d, "allocating", c))
         \/ /\ usable = {} /\ ~CanAllocate(s, d, c.terms)
            /\ GoTo(s, Idle)

\* Once the allocation committed, the wallet looks it up again, by deal
\* identifier only, and funds with whichever it finds last.
FundWithAllocation(s) ==
  LET d == job[s].deal
      found == {a \in AllocIds : allocState[a] = "live" /\ allocSpec[a].deal = d}
  IN  /\ job[s].step = "allocated"
      /\ \/ \E a \in found : SubmitFunding(s, d, job[s].on, a)
         \/ found = {} /\ GoTo(s, Idle)

-----------------------------------------------------------------------------
\* After the ledger's answer
\* Mutants: the operation waits for the contract to appear, or ends when the
\* escrow is found, without a notice.
LookUpForEver(s) ==
  LET j == job[s]
      tpl == IF j.step = "funded" THEN "DealEscrow" ELSE To(j.op)
  IN  /\ j.step \in {"answered", "funded"}
      /\ \E c \in ActiveOf(j.deal, {tpl}) :
           GoTo(s, [j EXCEPT !.step = "notify", !.on = IF j.step = "funded" THEN @ ELSE c])

LookUpSilently(s) ==
  LET j == job[s]
      tpl == IF j.step = "funded" THEN "DealEscrow" ELSE To(j.op)
  IN  /\ j.step \in {"answered", "funded"}
      /\ \/ \E c \in ActiveOf(j.deal, {tpl}) :
              GoTo(s, IF j.op = "settled" THEN Idle ELSE [j EXCEPT !.step = "notify", !.on = c])
         \/ ActiveOf(j.deal, {tpl}) = {} /\ GoTo(s, Idle)

\* Every operation but a rejection looks up the contract it created, by deal
\* identifier and template; when it has been consumed since, it fails although
\* its choice committed.
LookUp(s) ==
  LET j == job[s]
      tpl == IF j.step = "funded" THEN "DealEscrow" ELSE To(j.op)
  IN  /\ j.step \in {"answered", "funded"}
      /\ IF j.op = "reject"
         THEN GoTo(s, [j EXCEPT !.step = "notify", !.on = None])
         ELSE \/ \E c \in ActiveOf(j.deal, {tpl}) :
                   GoTo(s, [j EXCEPT
                     !.step = IF j.op = "accept" /\ j.step = "answered" /\ UsesEscrow(c.terms)
                              THEN "escrow" ELSE "notify",
                     !.on = IF j.step = "funded" THEN @ ELSE c])
              \/ ActiveOf(j.deal, {tpl}) = {} /\ GoTo(s, Idle)
\* Mutant: the notice names the template instead of the action.
NotifyTemplate(s) ==
  /\ job[s].step = "notify"
  /\ notices' = notices \cup {[deal |-> job[s].deal, action |-> To(job[s].op), contract |-> job[s].on]}
  /\ job' = [job EXCEPT ![s] = Idle]
  /\ UNCHANGED <<vars, inflight, lost, abandoned>>

\* sendDealAction, or the offer message of createOffer.
Notify(s) ==
  /\ job[s].step = "notify"
  /\ notices' = notices \cup {[deal |-> job[s].deal, action |-> job[s].op, contract |-> job[s].on]}
  /\ job' = [job EXCEPT ![s] = Idle]
  /\ UNCHANGED <<vars, inflight, lost, abandoned>>

-----------------------------------------------------------------------------
\* Submissions reach the ledger, are refused, or get lost

\* What the ledger does with a submission.
Apply(m) ==
  \/ m.choice = "Create" /\ \E r \in Roots : Propose(m.by, r, m.on, m.data)
  \/ m.choice = "allocate" /\ Allocate(m.alloc, m.data)
  \/ m.choice = "accept" /\ Accept(m.by, m.on)
  \/ m.choice = "reject" /\ Reject(m.by, m.on)
  \/ m.choice = "fund" /\ FundEscrow(m.by, m.on, m.alloc)
  \/ m.choice = "submit_fulfillment" /\ SubmitFulfillment(m.by, m.on)
  \/ m.choice = "submit_fulfillment" /\ SubmitFundedFulfillment(m.by, m.on)
  \/ m.choice = "request_revision" /\ RequestRevision(m.by, m.on)
  \/ m.choice = "submit_revision" /\ SubmitRevision(m.by, m.on)
  \/ m.choice = "approve_fulfillment" /\ Approve(m.by, m.on)
  \/ m.choice = "settled" /\ Settle(m.by, m.on)

NextStep(step) ==
  CASE step = "waiting"    -> "answered"
    [] step = "allocating" -> "allocated"
    [] step = "funding"    -> "funded"

Commit(m) ==
  /\ Apply(m)
  /\ inflight' = inflight \ {m}
  /\ job' = IF m.sess = None THEN job
            ELSE [job EXCEPT ![m.sess].step = NextStep(@)]
  /\ UNCHANGED <<notices, lost, abandoned>>
\* Mutant: the error is swallowed and the action announced.
FailSilently(m) ==
  /\ inflight' = inflight \ {m}
  /\ job' = IF m.sess = None THEN job ELSE [job EXCEPT ![m.sess].step = "notify"]
  /\ UNCHANGED <<vars, notices, abandoned>>

\* A submission that did not commit makes the operation awaiting it fail.
Fail(m) ==
  /\ inflight' = inflight \ {m}
  /\ job' = IF m.sess = None THEN job ELSE [job EXCEPT ![m.sess] = Idle]
  /\ UNCHANGED <<vars, notices, abandoned>>

Refuse(m) ==
  /\ ~ENABLED Apply(m)
  /\ Fail(m)
  /\ UNCHANGED lost

Drop(m) ==
  /\ lost < MaxLost
  /\ lost' = lost + 1
  /\ Fail(m)

\* The tab is reloaded, or the request times out: its operation is forgotten,
\* but what it submitted may still commit.
Abandon(s) ==
  LET mine == {m \in inflight : m.sess = s}
  IN  /\ job[s] # Idle
      /\ lost < MaxLost
      /\ lost' = lost + 1
      /\ job' = [job EXCEPT ![s] = Idle]
      /\ inflight' = (inflight \ mine) \cup {[m EXCEPT !.sess = None] : m \in mine}
      /\ abandoned' = IF job[s].step = "allocating"
                      THEN [abandoned EXCEPT ![job[s].deal] = @ + 1] ELSE abandoned
      /\ UNCHANGED <<vars, notices>>

-----------------------------------------------------------------------------
ClientInit ==
  /\ Init
  /\ job = [s \in Sessions |-> Idle]
  /\ inflight = {}
  /\ notices = {}
  /\ lost = 0
  /\ abandoned = [d \in Deals |-> 0]

\* The steps a tab takes on its own once an operation is started.
Continue(s) == AllocateOrReuse(s) \/ FundWithAllocation(s) \/ LookUp(s) \/ Notify(s)

ClientNext ==
  \/ \E s \in Sessions, d \in Deals, t \in Terms : CreateOffer(s, d, t)
  \/ \E s \in Sessions, d \in Deals : AcceptOffer(s, d)
  \/ \E s \in Sessions, d \in Deals : RejectOffer(s, d)
  \/ \E s \in Sessions, d \in Deals : SubmitWork(s, d)
  \/ \E s \in Sessions, d \in Deals : AskRevision(s, d)
  \/ \E s \in Sessions, d \in Deals : SendRevision(s, d)
  \/ \E s \in Sessions, d \in Deals : ApproveWork(s, d)
  \/ \E s \in Sessions, d \in Deals : SettleOffer(s, d)
  \/ \E s \in Sessions : AllocateOrReuse(s)
  \/ \E s \in Sessions : FundWithAllocation(s)
  \/ \E s \in Sessions : LookUp(s)
  \/ \E s \in Sessions : Notify(s)
  \/ \E m \in inflight : Commit(m)
  \/ \E m \in inflight : Refuse(m)
  \/ \E m \in inflight : Drop(m)
  \/ \E s \in Sessions : Abandon(s)
  \/ Tick /\ UNCHANGED clientVars

ClientSpec == ClientInit /\ [][ClientNext]_allVars

\* The payer's own wallet may also withdraw an allocation.
WalletNext ==
  \/ ClientNext
  \/ \E a \in AllocIds : Withdraw(a) /\ UNCHANGED clientVars

WithWithdrawals == ClientInit /\ [][WalletNext]_allVars

\* The ledger answers, and a tab that was not reloaded runs on.
Progress ==
  /\ \A s \in Sessions : WF_allVars(Continue(s))
  /\ \A s \in Sessions :
       WF_allVars(\E m \in inflight : m.sess = s /\ (Commit(m) \/ Refuse(m)))

\* A user who presses Accept again whenever the operation is over and the deal
\* is not funded.
PersistentPayer == \A s \in Sessions, d \in Deals : WF_allVars(AcceptOffer(s, d))

PersistentSpec == ClientSpec /\ Progress /\ PersistentPayer

-----------------------------------------------------------------------------
\* Properties

SubmissionOK(m) ==
  /\ m.sess \in Sessions \cup {None}
  /\ m.by \in Parties
  /\ m.choice \in Actions \cup {"Create", "allocate", "fund"}

ClientTypeOK ==
  /\ TypeOK
  /\ \A s \in Sessions :
       /\ job[s].op \in Actions \cup {"idle"}
       /\ job[s].deal \in Deals \cup {None}
       /\ job[s].step \in {"idle", "waiting", "answered", "escrow", "allocating",
                           "allocated", "funding", "funded", "notify"}
       /\ job[s].on \in Contract \cup {None}
  /\ \A m \in inflight : SubmissionOK(m)
  /\ \A n \in notices : n.deal \in Deals /\ n.action \in Actions
  /\ lost \in 0 .. MaxLost
  /\ abandoned \in [Deals -> 0 .. MaxLost]

\* What the conversation says about a deal is true on the ledger: a notice is
\* sent only after its choice committed, and names a contract of that deal with
\* the template the action leaves; an accept notice of a deal with a registry
\* means that it is funded, a settled notice that the payee has the money.
NoticesAreTrue ==
  \A n \in notices :
    IF n.action = "reject"
    THEN \E c \in archived : c.deal = n.deal /\ \A x \in acs : x.deal # n.deal
    ELSE /\ n.contract \in History
         /\ n.contract.deal = n.deal /\ n.contract.tpl = To(n.action)
         /\ (n.action = "accept" /\ UsesEscrow(n.contract.terms)) =>
              \E c \in History : c.deal = n.deal /\ c.tpl = "DealEscrow"
         /\ n.action = "settled" => allocState[n.contract.alloc] = "executed"

\* Holdings locked, or about to be locked, for a deal.
Locks(d) ==
  {a \in AllocIds : allocState[a] \in {"live", "executed"} /\ allocSpec[a].deal = d}
    \cup {m.alloc : m \in {x \in inflight : x.choice = "allocate" /\ x.data.deal = d}}

PayerTabs(d) ==
  {s \in Sessions : \E c \in History : c.deal = d /\ PartyOf[s] = c.terms.reviewer}

\* Retrying a failed funding does not lock the payer's holdings again: each tab
\* of the payer locks at most once, plus once for every Allocate whose outcome
\* was never learnt (a reload or timeout while it was in flight).
LocksBounded ==
  \A d \in Deals :
    Locks(d) # {} => Cardinality(Locks(d)) <= Cardinality(PayerTabs(d)) + abandoned[d]

\* The wallet and the contract agree: no allocation the wallet picks to fund a
\* deal is one FundEscrow would refuse as unfit, however it was found.
FundingFits ==
  \A m \in inflight :
    m.choice = "fund" => SpecFits(allocSpec[m.alloc], m.on.deal, m.on.terms)

\* When nothing was lost and nobody is working on a deal, the stage it is in has
\* been announced in the conversation, unless it is an agreement that still
\* waits for its funding.
StageAnnounced ==
  lost = 0 =>
    \A c \in acs :
      \/ \E s \in Sessions : job[s].deal = c.deal
      \/ \E n \in notices : n.contract = c
      \/ c.tpl = "DealAgreement" /\ UsesEscrow(c.terms)
      \/ c.tpl = "DealEscrow" /\ \E n \in notices : n.deal = c.deal /\ n.action = "accept"

\* Every operation ends, with a result or an error: no tab waits for ever.
OperationsEnd ==
  \A s \in Sessions : (job[s] # Idle) ~> (job[s] = Idle)

\* A deal that waits for funding is funded if the payer keeps trying, unless the
\* holdings do not suffice, too little time is left to allocate, or the amount
\* is a text parseDecimal refuses, which createOffer and Accept let through.
Unfunded(d) == Offered(d) /\ \E c \in ActiveOf(d, {"DealAgreement"}) : UsesEscrow(c.terms)

OutOfReach(d) ==
  \E c \in History :
    /\ c.deal = d /\ UsesEscrow(c.terms)
    /\ ~ \E a \in AllocIds : Reusable(a, d, c.terms)
    /\ \/ c.terms.amount = None
       \/ c.terms.expires <= now + OneMinute
       \/ balance[<<c.terms.reviewer, c.terms.admin, c.terms.instrument>>] < c.terms.amount

RetryFunds ==
  \A d \in Deals :
    Unfunded(d) ~> (~Unfunded(d) \/ OutOfReach(d))
=============================================================================
