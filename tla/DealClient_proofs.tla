-------------------------- MODULE DealClient_proofs --------------------------
(***************************************************************************)
(* Theorems about DealClient, for every set of tabs, parties, deals and    *)
(* terms: whatever the tabs submit, lose and retry, the ledger keeps what  *)
(* DealLedger_proofs proves of it, and what the conversation says is true. *)
(***************************************************************************)
EXTENDS DealClient, DealLedger_proofs

-----------------------------------------------------------------------------
\* Types

Steps == {"idle", "waiting", "answered", "escrow", "allocating",
          "allocated", "funding", "funded", "notify"}

JobType == [op : Actions \cup {"idle"}, deal : Deals \cup {None}, step : Steps,
            on : Contract \cup {None}]

Choices == Actions \cup {"Create", "allocate", "fund"}

SubmissionType ==
  [sess : Sessions \cup {None}, by : Parties, choice : Choices,
   on : Contract \cup Deals, alloc : AllocIds \cup {None},
   data : Terms \cup Specs \cup {None}]

NoticeType == [deal : Deals, action : Actions, contract : Contract \cup {None}]

\* What each submission carries.
Carries(m) ==
  /\ m.choice = "Create" => m.on \in Deals /\ m.data \in Terms
  /\ m.choice # "Create" => m.on \in Contract
  /\ m.choice = "allocate" => m.alloc \in AllocIds /\ m.data \in Specs
  /\ m.choice = "fund" => m.alloc \in AllocIds

\* A tab that is busy is busy with an operation on a deal.
Busy(j) == j.step # "idle" => j.op \in Actions /\ j.deal \in Deals

\* While it funds a deal, a tab holds on to the agreement.
FundingSteps == {"escrow", "allocating", "allocated", "funding", "funded"}

Holds(j) ==
  j.step \in FundingSteps =>
    /\ j.op = "accept" /\ j.on \in Contract
    /\ j.on.tpl = "DealAgreement" /\ j.on.deal = j.deal /\ UsesEscrow(j.on.terms)

JobsTyped ==
  job \in [Sessions -> JobType] /\ \A s \in Sessions : Busy(job[s]) /\ Holds(job[s])

RestTyped ==
  /\ inflight \subseteq SubmissionType
  /\ \A m \in inflight : Carries(m)
  /\ notices \subseteq NoticeType
  /\ lost \in 0 .. MaxLost
  /\ abandoned \in [Deals -> Nat]
  /\ \A d \in Deals : abandoned[d] <= lost

ClientTypes == TypeInv /\ JobsTyped /\ RestTyped

-----------------------------------------------------------------------------
\* What a step does

\* Every operation but createOffer submits a choice on the contract it read.
Chooses(s, op, c) ==
  /\ op \in Actions \ {"deal_proposal"}
  /\ c \in acs
  /\ op = "approve_fulfillment" => c.tpl = "DealFulfillment"
  /\ job[s] = Idle
  /\ Submit(s, Submission(s, op, c, None, None), Job(op, c.deal, "waiting", c))

\* Acceptance goes on from a live agreement.
Resumes(s, c) ==
  /\ c \in acs /\ c.tpl = "DealAgreement"
  /\ job[s] = Idle
  /\ GoTo(s, Job("accept", c.deal, IF UsesEscrow(c.terms) THEN "escrow" ELSE "notify", c))

\* The wallet requests an allocation for the agreement it holds.
LocksHoldings(s, a) ==
  /\ job[s].step = "escrow"
  /\ \A b \in AllocIds : ~Reusable(b, job[s].deal, job[s].on.terms)
  /\ CanAllocate(s, job[s].deal, job[s].on.terms)
  /\ a \in UnusedAllocIds
  /\ Submit(s, Submission(s, "allocate", job[s].on, a, WalletSpec(job[s].deal, job[s].on.terms)),
            Job("accept", job[s].deal, "allocating", job[s].on))

\* It funds the agreement with an allocation of that deal.
Funds(s, a) ==
  /\ job[s].step \in {"escrow", "allocated"}
  /\ job[s].on \in acs
  /\ a \in AllocIds /\ allocState[a] = "live" /\ allocSpec[a].deal = job[s].deal
  /\ Submit(s, Submission(s, "fund", job[s].on, a, None),
            Job("accept", job[s].deal, "funding", job[s].on))

GivesUp(s) ==
  /\ job[s].step \in {"escrow", "allocated", "answered", "funded"}
  /\ job[s].step = "answered" => ActiveOf(job[s].deal, {To(job[s].op)}) = {}
  /\ job[s].step = "funded" => ActiveOf(job[s].deal, {"DealEscrow"}) = {}
  /\ GoTo(s, Idle)

\* The lookup after the answer found what it was looking for.
Finds(s, c) ==
  /\ job[s].step = "answered" /\ job[s].op # "reject"
  /\ c \in acs /\ c.deal = job[s].deal /\ c.tpl = To(job[s].op)
  /\ GoTo(s, [job[s] EXCEPT
       !.step = IF job[s].op = "accept" /\ UsesEscrow(c.terms) THEN "escrow" ELSE "notify",
       !.on = c])

FindsEscrow(s, c) ==
  /\ job[s].step = "funded"
  /\ c \in acs /\ c.deal = job[s].deal /\ c.tpl = "DealEscrow"
  /\ GoTo(s, [job[s] EXCEPT !.step = "notify"])

ReportsRejection(s) ==
  /\ job[s].step = "answered" /\ job[s].op = "reject"
  /\ GoTo(s, [job[s] EXCEPT !.step = "notify", !.on = None])

LEMMA RefuseFails ==
  ASSUME NEW m, Refuse(m)
  PROVE  Fail(m) /\ UNCHANGED lost
BY DEF Refuse



LEMMA StartCases ==
  ASSUME NEW s, NEW d,
         \/ AcceptOffer(s, d) \/ RejectOffer(s, d) \/ SubmitWork(s, d) \/ AskRevision(s, d)
         \/ SendRevision(s, d) \/ ApproveWork(s, d) \/ SettleOffer(s, d)
  PROVE  \E c \in acs : Resumes(s, c) \/ \E op \in Actions : Chooses(s, op, c)
<1> USE DEF ActiveOf, Chooses, Actions
<1>1. CASE AcceptOffer(s, d)
  BY <1>1 DEF AcceptOffer, Resumes
<1>2. CASE RejectOffer(s, d)
  BY <1>2 DEF RejectOffer, Operate
<1>3. CASE SubmitWork(s, d)
  BY <1>3 DEF SubmitWork, Operate
<1>4. CASE AskRevision(s, d)
  BY <1>4 DEF AskRevision, Operate
<1>5. CASE SendRevision(s, d)
  BY <1>5 DEF SendRevision, Operate
<1>6. CASE ApproveWork(s, d)
  BY <1>6 DEF ApproveWork, Operate
<1>7. CASE SettleOffer(s, d)
  BY <1>7 DEF SettleOffer, Operate
<1> QED
  BY <1>1, <1>2, <1>3, <1>4, <1>5, <1>6, <1>7

LEMMA EscrowCases ==
  ASSUME ClientTypes, NEW s \in Sessions, AllocateOrReuse(s) \/ FundWithAllocation(s)
  PROVE  GivesUp(s) \/ \E a \in AllocIds : LocksHoldings(s, a) \/ Funds(s, a)
<1> USE DEF SubmitFunding, GivesUp
<1>1. CASE AllocateOrReuse(s)
  <2> DEFINE usable == {a \in AllocIds : Reusable(a, job[s].deal, job[s].on.terms)}
  <2>0. job[s].step = "escrow"
    BY <1>1 DEF AllocateOrReuse
  <2>1. ASSUME NEW a \in usable, SubmitFunding(s, job[s].deal, job[s].on, a)
        PROVE  GivesUp(s) \/ Funds(s, a)
    BY <2>0, <2>1 DEF Funds, Reusable, SpecFits
  <2>2. ASSUME usable = {}, CanAllocate(s, job[s].deal, job[s].on.terms), NEW a \in UnusedAllocIds,
               Submit(s, Submission(s, "allocate", job[s].on, a,
                                    WalletSpec(job[s].deal, job[s].on.terms)),
                      Job("accept", job[s].deal, "allocating", job[s].on))
        PROVE  a \in AllocIds /\ LocksHoldings(s, a)
    BY <2>0, <2>2 DEF LocksHoldings, UnusedAllocIds
  <2>3. ASSUME GoTo(s, Idle)
        PROVE  GivesUp(s)
    BY <2>0, <2>3
  <2> QED
    BY <1>1, <2>1, <2>2, <2>3 DEF AllocateOrReuse
<1>2. CASE FundWithAllocation(s)
  BY <1>2 DEF FundWithAllocation, Funds
<1> QED
  BY <1>1, <1>2

LEMMA LookUpCases ==
  ASSUME ClientTypes, NEW s \in Sessions, LookUp(s)
  PROVE  GivesUp(s) \/ ReportsRejection(s) \/ \E c \in acs : Finds(s, c) \/ FindsEscrow(s, c)
<1> DEFINE j == job[s]
<1>1. j \in JobType /\ Holds(j) /\ j.step \in {"answered", "funded"}
  BY DEF LookUp, ClientTypes, JobsTyped
<1>2. CASE j.op = "reject"
  <2>1. j.step = "answered"
    BY <1>1, <1>2 DEF Holds, FundingSteps
  <2> QED
    BY <1>1, <1>2, <2>1 DEF LookUp, ReportsRejection
<1>3. CASE j.op # "reject" /\ j.step = "funded"
  <2>1. ASSUME NEW c \in acs
        PROVE  [j EXCEPT !.step = IF j.op = "accept" /\ j.step = "answered" /\ UsesEscrow(c.terms)
                                  THEN "escrow" ELSE "notify",
                         !.on = IF j.step = "funded" THEN @ ELSE c]
                 = [j EXCEPT !.step = "notify"]
    BY <1>1, <1>3 DEF JobType
  <2> QED
    BY <1>1, <1>3, <2>1 DEF LookUp, ActiveOf, FindsEscrow, GivesUp
<1>4. CASE j.op # "reject" /\ j.step = "answered"
  <2>1. ASSUME NEW c \in acs
        PROVE  [j EXCEPT !.step = IF j.op = "accept" /\ j.step = "answered" /\ UsesEscrow(c.terms)
                                  THEN "escrow" ELSE "notify",
                         !.on = IF j.step = "funded" THEN @ ELSE c]
                 = [j EXCEPT !.step = IF j.op = "accept" /\ UsesEscrow(c.terms)
                                      THEN "escrow" ELSE "notify",
                             !.on = c]
    BY <1>1, <1>4 DEF JobType
  <2> QED
    BY <1>1, <1>4, <2>1 DEF LookUp, ActiveOf, Finds, GivesUp
<1> QED
  BY <1>1, <1>2, <1>3, <1>4

\* Every step is one of these.
LEMMA StepCases ==
  ASSUME ClientTypes, [WalletNext]_allVars
  PROVE  \/ UNCHANGED allVars
         \/ (Tick \/ \E a \in AllocIds : Withdraw(a)) /\ UNCHANGED clientVars
         \/ \E s \in Sessions, d \in Deals, t \in Terms : CreateOffer(s, d, t)
         \/ \E s \in Sessions, c \in acs : Resumes(s, c)
         \/ \E s \in Sessions, c \in acs, op \in Actions : Chooses(s, op, c)
         \/ \E s \in Sessions, a \in AllocIds : LocksHoldings(s, a)
         \/ \E s \in Sessions, a \in AllocIds : Funds(s, a)
         \/ \E s \in Sessions : GivesUp(s)
         \/ \E s \in Sessions : ReportsRejection(s)
         \/ \E s \in Sessions, c \in acs : Finds(s, c)
         \/ \E s \in Sessions, c \in acs : FindsEscrow(s, c)
         \/ \E s \in Sessions : Notify(s)
         \/ \E m \in inflight : Commit(m)
         \/ \E m \in inflight : Fail(m) /\ (lost' = lost \/ (lost < MaxLost /\ lost' = lost + 1))
         \/ \E s \in Sessions : Abandon(s)
<1>1. CASE Tick /\ UNCHANGED clientVars
  BY <1>1
<1>2. CASE \E a \in AllocIds : Withdraw(a) /\ UNCHANGED clientVars
  BY <1>2
<1>3. CASE \E m \in inflight : Refuse(m) \/ Drop(m)
  <2>1. ASSUME NEW m \in inflight, Refuse(m)
        PROVE  Fail(m) /\ lost' = lost
    BY <2>1, RefuseFails
  <2>2. ASSUME NEW m \in inflight, Drop(m)
        PROVE  Fail(m) /\ lost < MaxLost /\ lost' = lost + 1
    BY <2>2 DEF Drop
  <2>3. PICK m \in inflight : Refuse(m) \/ Drop(m)
    BY <1>3
  <2>4. Fail(m) /\ (lost' = lost \/ (lost < MaxLost /\ lost' = lost + 1))
    BY <2>1, <2>2, <2>3
  <2> QED
    BY <2>4
<1>4. CASE \E s \in Sessions, d \in Deals :
             \/ AcceptOffer(s, d) \/ RejectOffer(s, d) \/ SubmitWork(s, d) \/ AskRevision(s, d)
             \/ SendRevision(s, d) \/ ApproveWork(s, d) \/ SettleOffer(s, d)
  BY <1>4, StartCases
<1>5. CASE \E s \in Sessions : AllocateOrReuse(s) \/ FundWithAllocation(s)
  BY <1>5, EscrowCases
<1>6. CASE \E s \in Sessions : LookUp(s)
  BY <1>6, LookUpCases
<1> QED
  BY <1>1, <1>2, <1>3, <1>4, <1>5, <1>6 DEF WalletNext, ClientNext

-----------------------------------------------------------------------------
\* Type correctness, and which submission a tab is waiting for

\* The submission m is the one the operation j waits for.
Serves(m, j) ==
  /\ m.choice = "Create" => j.op = "deal_proposal" /\ j.step = "waiting" /\ j.deal = m.on
  /\ m.choice = "allocate" => j.op = "accept" /\ j.step = "allocating" /\ j.on = m.on
  /\ m.choice = "fund" => j.op = "accept" /\ j.step = "funding" /\ j.on = m.on
  /\ m.choice \in Actions => j.op = m.choice /\ j.step = "waiting" /\ j.on = m.on
  /\ m.choice # "Create" => j.deal = m.on.deal

\* A tab waits for one submission at most.
Awaited ==
  /\ \A m \in inflight : m.sess # None => Serves(m, job[m.sess])
  /\ \A m1, m2 \in inflight : m1.sess = m2.sess /\ m1.sess # None => m1 = m2

Control == ClientTypes /\ Awaited

LEMMA ServedSteps ==
  ASSUME NEW m \in SubmissionType, NEW j, Serves(m, j)
  PROVE  j.step \in {"waiting", "allocating", "funding"}
BY DEF SubmissionType, Serves, Choices

LEMMA CommitSteps ==
  ASSUME Control, NEW m \in inflight, Commit(m)
  PROVE  [Next]_vars
<1>1. m \in SubmissionType /\ Carries(m)
  BY DEF Control, ClientTypes, RestTyped
<1>2. m.by \in Parties
  BY <1>1 DEF SubmissionType
<1>3. CASE m.choice = "Create" /\ \E r \in Roots : Propose(m.by, r, m.on, m.data)
  BY <1>1, <1>2, <1>3 DEF Carries, Next
<1>4. CASE m.choice = "allocate" /\ Allocate(m.alloc, m.data)
  BY <1>1, <1>4 DEF Carries, Next
<1>5. CASE m.choice = "fund" /\ FundEscrow(m.by, m.on, m.alloc)
  <2>1. m.on \in acs
    BY <1>5 DEF FundEscrow
  <2> QED
    BY <1>1, <1>2, <1>5, <2>1 DEF Carries, Next, Choice
<1>6. CASE \/ Accept(m.by, m.on) \/ Reject(m.by, m.on) \/ SubmitFulfillment(m.by, m.on)
           \/ SubmitFundedFulfillment(m.by, m.on) \/ RequestRevision(m.by, m.on)
           \/ SubmitRevision(m.by, m.on) \/ Approve(m.by, m.on) \/ Settle(m.by, m.on)
  <2>1. m.on \in acs
    BY <1>6 DEF Accept, Reject, SubmitFulfillment, SubmitFundedFulfillment, RequestRevision,
                SubmitRevision, Approve, Settle
  <2> QED
    BY <1>2, <1>6, <2>1 DEF Next, Choice
<1> QED
  BY <1>3, <1>4, <1>5, <1>6 DEF Commit, Apply

LEMMA ClientKeepsLedger ==
  ASSUME Control, [WalletNext]_allVars
  PROVE  [Next]_vars
<1> USE DEF Submit, GoTo
<1>1. ClientTypes
  BY DEF Control
<1>2. ASSUME NEW s \in Sessions
      PROVE  /\ \A d \in Deals, t \in Terms : CreateOffer(s, d, t) => UNCHANGED vars
             /\ \A c \in acs : Resumes(s, c) \/ Finds(s, c) \/ FindsEscrow(s, c) => UNCHANGED vars
             /\ \A c \in acs, op \in Actions : Chooses(s, op, c) => UNCHANGED vars
             /\ \A a \in AllocIds : LocksHoldings(s, a) \/ Funds(s, a) => UNCHANGED vars
             /\ GivesUp(s) \/ ReportsRejection(s) \/ Notify(s) \/ Abandon(s) => UNCHANGED vars
  BY DEF CreateOffer, Resumes, Finds, FindsEscrow, Chooses, LocksHoldings, Funds, GivesUp,
         ReportsRejection, Notify, Abandon
<1>3. ASSUME NEW m \in inflight, Fail(m)
      PROVE  UNCHANGED vars
  BY <1>3 DEF Fail
<1>4. UNCHANGED allVars => UNCHANGED vars
  BY DEF allVars
<1>5. Tick \/ (\E a \in AllocIds : Withdraw(a)) => Next
  BY DEF Next
<1> QED
  BY <1>1, <1>2, <1>3, <1>4, <1>5, StepCases, CommitSteps

LEMMA SetJob ==
  ASSUME JobsTyped, NEW s \in Sessions, NEW j \in JobType, Busy(j), Holds(j),
         job' = [job EXCEPT ![s] = j]
  PROVE  JobsTyped'
BY DEF JobsTyped

LEMMA IdleTyped == Idle \in JobType /\ Busy(Idle) /\ Holds(Idle)
BY DEF Idle, JobType, Busy, Holds, Steps, FundingSteps

LEMMA JobFields ==
  ASSUME NEW op \in Actions, NEW d \in Deals, NEW step \in Steps, NEW c \in Contract \cup {None}
  PROVE  /\ Job(op, d, step, c) \in JobType
         /\ Busy(Job(op, d, step, c))
         /\ (step \in FundingSteps =>
               op = "accept" /\ c \in Contract /\ c.tpl = "DealAgreement" /\ c.deal = d
               /\ UsesEscrow(c.terms)) => Holds(Job(op, d, step, c))
         /\ Job(op, d, step, c).step = step /\ Job(op, d, step, c).op = op
         /\ Job(op, d, step, c).deal = d /\ Job(op, d, step, c).on = c
BY DEF Job, JobType, Busy, Holds

\* The effect of a step that submits m and leaves the tab s with the job j.
LEMMA SubmitTypes ==
  ASSUME Control, NEW s \in Sessions, NEW m \in SubmissionType, NEW j \in JobType,
         job[s].step \in {"idle", "escrow", "allocated"},
         Submit(s, m, j), Carries(m), m.sess = s, Serves(m, j), Busy(j), Holds(j)
  PROVE  Control'
<1> USE DEF Submit
<1>1. JobsTyped'
  BY SetJob DEF Control, ClientTypes
<1>2. RestTyped'
  BY DEF Control, ClientTypes, RestTyped
<1>3. TypeInv'
  <2>1. UNCHANGED vars
    OBVIOUS
  <2> QED
    BY <2>1, TypeInductive DEF Control, ClientTypes
<1>4. \A x \in inflight : x.sess # s
  BY ServedSteps, SessionsAssumption DEF Control, ClientTypes, RestTyped, Awaited
<1>5. \A x \in inflight : x.sess # None => job'[x.sess] = job[x.sess]
  BY <1>4 DEF Control, ClientTypes, JobsTyped, RestTyped, SubmissionType
<1>6. job'[s] = j
  BY DEF Control, ClientTypes, JobsTyped
<1>7. Awaited'
  BY <1>4, <1>5, <1>6 DEF Control, Awaited
<1> QED
  BY <1>1, <1>2, <1>3, <1>7 DEF Control, ClientTypes

\* The effect of a step that only moves the tab s on, to the job j.
LEMMA GoToTypes ==
  ASSUME Control, NEW s \in Sessions, NEW j \in JobType,
         job[s].step \notin {"waiting", "allocating", "funding"},
         job' = [job EXCEPT ![s] = j], UNCHANGED <<vars, inflight, lost, abandoned>>,
         notices' \subseteq NoticeType, Busy(j), Holds(j)
  PROVE  Control'
<1>1. JobsTyped'
  BY SetJob DEF Control, ClientTypes
<1>2. RestTyped'
  BY DEF Control, ClientTypes, RestTyped
<1>3. TypeInv'
  BY TypeInductive DEF Control, ClientTypes
<1>4. \A x \in inflight : x.sess # s
  BY ServedSteps, SessionsAssumption DEF Control, ClientTypes, RestTyped, Awaited
<1>5. \A x \in inflight : x.sess # None => job'[x.sess] = job[x.sess]
  BY <1>4 DEF Control, ClientTypes, JobsTyped, RestTyped, SubmissionType
<1>6. Awaited'
  BY <1>4, <1>5 DEF Control, Awaited
<1> QED
  BY <1>1, <1>2, <1>3, <1>6 DEF Control, ClientTypes

LEMMA CreateTypes ==
  ASSUME Control, NEW s \in Sessions, NEW d \in Deals, NEW t \in Terms, CreateOffer(s, d, t)
  PROVE  Control'
<1> DEFINE m == Submission(s, "Create", d, None, t)
           j == Job("deal_proposal", d, "waiting", None)
<1>1. m \in SubmissionType /\ m.sess = s /\ m.choice = "Create" /\ m.on = d /\ m.data = t
  BY SessionsAssumption DEF Submission, SubmissionType, Choices
<1>2. /\ j \in JobType /\ Busy(j) /\ Holds(j)
      /\ j.op = "deal_proposal" /\ j.step = "waiting" /\ j.deal = d
  BY JobFields DEF Actions, Steps, FundingSteps
<1>3. Carries(m) /\ Serves(m, j)
  BY <1>1, <1>2 DEF Carries, Serves, Actions
<1>4. job[s].step = "idle" /\ Submit(s, m, j)
  BY DEF CreateOffer, Idle
<1> HIDE DEF m, j
<1> QED
  BY <1>1, <1>2, <1>3, <1>4, SubmitTypes

LEMMA ChooseTypes ==
  ASSUME Control, NEW s \in Sessions, NEW c \in acs, NEW op \in Actions, Chooses(s, op, c)
  PROVE  Control'
<1> DEFINE m == Submission(s, op, c, None, None)
           j == Job(op, c.deal, "waiting", c)
<1>0. c \in Contract /\ c.deal \in Deals
  BY DEF Control, ClientTypes, TypeInv, TypeOK, Contract
<1>1. m \in SubmissionType /\ m.sess = s /\ m.choice = op /\ m.on = c
  BY <1>0, SessionsAssumption DEF Submission, SubmissionType, Choices
<1>2. /\ j \in JobType /\ Busy(j) /\ Holds(j)
      /\ j.op = op /\ j.step = "waiting" /\ j.deal = c.deal /\ j.on = c
  BY <1>0, JobFields DEF Steps, FundingSteps
<1>3. Carries(m) /\ Serves(m, j)
  BY <1>0, <1>1, <1>2 DEF Carries, Serves, Actions
<1>4. job[s].step = "idle" /\ Submit(s, m, j)
  BY DEF Chooses, Idle
<1> HIDE DEF m, j
<1> QED
  BY <1>1, <1>2, <1>3, <1>4, SubmitTypes

LEMMA ResumeTypes ==
  ASSUME Control, NEW s \in Sessions, NEW c \in acs, Resumes(s, c)
  PROVE  Control'
<1> DEFINE step == IF UsesEscrow(c.terms) THEN "escrow" ELSE "notify"
           j == Job("accept", c.deal, step, c)
<1>0. c \in Contract /\ c.deal \in Deals /\ c.tpl = "DealAgreement"
  BY DEF Control, ClientTypes, TypeInv, TypeOK, Contract, Resumes
<1>1. j \in JobType /\ Busy(j) /\ Holds(j)
  BY <1>0, JobFields DEF Actions, Steps, FundingSteps
<1>2. job[s].step = "idle" /\ GoTo(s, j)
  BY DEF Resumes, Idle
<1>3. notices' \subseteq NoticeType
  BY <1>2 DEF GoTo, Control, ClientTypes, RestTyped
<1> HIDE DEF j
<1> QED
  BY <1>1, <1>2, <1>3, GoToTypes DEF GoTo

\* What the wallet requests is a specification an allocation can have.
LEMMA RequestTyped ==
  ASSUME Control, NEW s \in Sessions, NEW a, LocksHoldings(s, a)
  PROVE  /\ WalletSpec(job[s].deal, job[s].on.terms) \in Specs
         /\ SpecFits(WalletSpec(job[s].deal, job[s].on.terms), job[s].deal, job[s].on.terms)
         /\ WalletSpec(job[s].deal, job[s].on.terms).deal = job[s].deal
         /\ WalletSpec(job[s].deal, job[s].on.terms).settleBefore = job[s].on.terms.expires
<1> DEFINE j == job[s]
<1>1. /\ job[s].step = "escrow" /\ Busy(job[s]) /\ Holds(job[s])
  BY DEF Control, ClientTypes, JobsTyped, LocksHoldings
<1>2. /\ job[s].deal \in Deals /\ job[s].on \in Contract /\ UsesEscrow(job[s].on.terms)
  BY <1>1 DEF Busy, Holds, FundingSteps
<1>3. job[s].on.terms \in Terms /\ now \in 0 .. MaxTime
  BY <1>2 DEF Contract, Control, ClientTypes, TypeInv, TypeOK
<1>4. CanAllocate(s, job[s].deal, job[s].on.terms)
  BY DEF LocksHoldings
<1>5. WalletSpec(job[s].deal, job[s].on.terms) \in Specs
  BY <1>2, <1>3, <1>4, RequestsAssumption DEF CanAllocate, WalletSpec
<1> QED
  BY <1>4, <1>5 DEF SpecFits, WalletSpec, SpecAt, CanAllocate

LEMMA LockTypes ==
  ASSUME Control, NEW s \in Sessions, NEW a \in AllocIds, LocksHoldings(s, a)
  PROVE  Control'
<1> DEFINE m == Submission(s, "allocate", job[s].on, a, WalletSpec(job[s].deal, job[s].on.terms))
           j == Job("accept", job[s].deal, "allocating", job[s].on)
<1>0. /\ job[s].step = "escrow" /\ Busy(job[s]) /\ Holds(job[s])
  BY DEF Control, ClientTypes, JobsTyped, LocksHoldings
<1>1. /\ job[s].deal \in Deals /\ job[s].on \in Contract /\ UsesEscrow(job[s].on.terms)
      /\ job[s].on.tpl = "DealAgreement" /\ job[s].on.deal = job[s].deal
  BY <1>0 DEF Busy, Holds, FundingSteps
<1>2. /\ m \in SubmissionType /\ m.sess = s /\ m.choice = "allocate" /\ m.on = job[s].on
      /\ m.alloc = a /\ m.data \in Specs
  BY <1>1, RequestTyped, SessionsAssumption DEF Submission, SubmissionType, Choices
<1>3. /\ j \in JobType /\ Busy(j) /\ Holds(j)
      /\ j.op = "accept" /\ j.step = "allocating" /\ j.deal = job[s].deal /\ j.on = job[s].on
  BY <1>1, JobFields DEF Actions, Steps, FundingSteps
<1>4. Carries(m) /\ Serves(m, j)
  BY <1>1, <1>2, <1>3 DEF Carries, Serves, Actions
<1>5. Submit(s, m, j)
  BY DEF LocksHoldings
<1> HIDE DEF m, j
<1> QED
  BY <1>0, <1>2, <1>3, <1>4, <1>5, SubmitTypes

LEMMA FundTypes ==
  ASSUME Control, NEW s \in Sessions, NEW a \in AllocIds, Funds(s, a)
  PROVE  Control'
<1> DEFINE m == Submission(s, "fund", job[s].on, a, None)
           j == Job("accept", job[s].deal, "funding", job[s].on)
<1>0. /\ job[s].step \in {"escrow", "allocated"} /\ Busy(job[s]) /\ Holds(job[s])
  BY DEF Control, ClientTypes, JobsTyped, Funds
<1>1. /\ job[s].deal \in Deals /\ job[s].on \in Contract /\ UsesEscrow(job[s].on.terms)
      /\ job[s].on.tpl = "DealAgreement" /\ job[s].on.deal = job[s].deal
  BY <1>0 DEF Busy, Holds, FundingSteps
<1>2. /\ m \in SubmissionType /\ m.sess = s /\ m.choice = "fund" /\ m.on = job[s].on
      /\ m.alloc = a
  BY <1>1, SessionsAssumption DEF Submission, SubmissionType, Choices
<1>3. /\ j \in JobType /\ Busy(j) /\ Holds(j)
      /\ j.op = "accept" /\ j.step = "funding" /\ j.deal = job[s].deal /\ j.on = job[s].on
  BY <1>1, JobFields DEF Actions, Steps, FundingSteps
<1>4. Carries(m) /\ Serves(m, j)
  BY <1>1, <1>2, <1>3 DEF Carries, Serves, Actions
<1>5. Submit(s, m, j)
  BY DEF Funds
<1> HIDE DEF m, j
<1> QED
  BY <1>0, <1>2, <1>3, <1>4, <1>5, SubmitTypes

LEMMA GiveUpTypes ==
  ASSUME Control, NEW s \in Sessions, GivesUp(s)
  PROVE  Control'
<1>1. notices' \subseteq NoticeType
  BY DEF GivesUp, GoTo, Control, ClientTypes, RestTyped
<1> QED
  BY <1>1, IdleTyped, GoToTypes DEF GivesUp, GoTo

LEMMA ReportTypes ==
  ASSUME Control, NEW s \in Sessions, ReportsRejection(s)
  PROVE  Control'
<1> DEFINE j == [job[s] EXCEPT !.step = "notify", !.on = None]
<1>0. job[s] \in JobType /\ Busy(job[s]) /\ job[s].step = "answered"
  BY DEF Control, ClientTypes, JobsTyped, ReportsRejection
<1>1. j \in JobType /\ Busy(j) /\ Holds(j)
  BY <1>0 DEF JobType, Busy, Holds, Steps, FundingSteps
<1>2. notices' \subseteq NoticeType
  BY DEF ReportsRejection, GoTo, Control, ClientTypes, RestTyped
<1>3. GoTo(s, j)
  BY DEF ReportsRejection
<1> HIDE DEF j
<1> QED
  BY <1>0, <1>1, <1>2, <1>3, GoToTypes DEF GoTo

LEMMA FindTypes ==
  ASSUME Control, NEW s \in Sessions, NEW c \in acs, Finds(s, c)
  PROVE  Control'
<1> DEFINE step == IF job[s].op = "accept" /\ UsesEscrow(c.terms) THEN "escrow" ELSE "notify"
           j == [job[s] EXCEPT !.step = step, !.on = c]
<1>0. job[s] \in JobType /\ Busy(job[s]) /\ job[s].step = "answered"
  BY DEF Control, ClientTypes, JobsTyped, Finds
<1>1. c \in Contract /\ c.deal = job[s].deal /\ c.tpl = To(job[s].op)
  BY DEF Finds, Control, ClientTypes, TypeInv, TypeOK
<1>2. /\ j \in JobType /\ j.op = job[s].op /\ j.deal = job[s].deal /\ j.on = c /\ j.step = step
  BY <1>0, <1>1 DEF JobType, Steps
<1>3. Busy(j) /\ Holds(j)
  BY <1>0, <1>1, <1>2 DEF Busy, Holds, FundingSteps, To
<1>4. notices' \subseteq NoticeType
  BY DEF Finds, GoTo, Control, ClientTypes, RestTyped
<1>5. GoTo(s, j)
  BY DEF Finds
<1> HIDE DEF j, step
<1> QED
  BY <1>0, <1>2, <1>3, <1>4, <1>5, GoToTypes DEF GoTo

LEMMA FindEscrowTypes ==
  ASSUME Control, NEW s \in Sessions, NEW c \in acs, FindsEscrow(s, c)
  PROVE  Control'
<1> DEFINE j == [job[s] EXCEPT !.step = "notify"]
<1>0. job[s] \in JobType /\ Busy(job[s]) /\ job[s].step = "funded"
  BY DEF Control, ClientTypes, JobsTyped, FindsEscrow
<1>1. j \in JobType /\ Busy(j) /\ Holds(j)
  BY <1>0 DEF JobType, Busy, Holds, Steps, FundingSteps
<1>2. notices' \subseteq NoticeType
  BY DEF FindsEscrow, GoTo, Control, ClientTypes, RestTyped
<1>3. GoTo(s, j)
  BY DEF FindsEscrow
<1> HIDE DEF j
<1> QED
  BY <1>0, <1>1, <1>2, <1>3, GoToTypes DEF GoTo

LEMMA NotifyTypes ==
  ASSUME Control, NEW s \in Sessions, Notify(s)
  PROVE  Control'
<1> DEFINE n == [deal |-> job[s].deal, action |-> job[s].op, contract |-> job[s].on]
<1>1. job[s] \in JobType /\ Busy(job[s]) /\ job[s].step = "notify"
  BY DEF Control, ClientTypes, JobsTyped, Notify
<1>2. n \in NoticeType
  BY <1>1 DEF JobType, Busy, NoticeType
<1>3. notices' \subseteq NoticeType
  BY <1>2 DEF Notify, Control, ClientTypes, RestTyped
<1> QED
  BY <1>1, <1>3, IdleTyped, GoToTypes DEF Notify

\* An answer, or a failure, ends the waiting of the tab that submitted.
LEMMA AnswerTypes ==
  ASSUME Control, [Next]_vars, NEW m \in inflight, inflight' = inflight \ {m},
         UNCHANGED notices, lost' \in lost .. MaxLost, UNCHANGED abandoned,
         \/ m.sess = None /\ job' = job
         \/ /\ m.sess \in Sessions
            /\ \E j \in JobType : Busy(j) /\ Holds(j) /\ job' = [job EXCEPT ![m.sess] = j]
  PROVE  Control'
<1>1. JobsTyped'
  <2>1. CASE job' = job
    BY <2>1 DEF Control, ClientTypes, JobsTyped
  <2> QED
    BY <2>1, SetJob DEF Control, ClientTypes
<1>2. RestTyped'
  <2>1. lost \in Nat /\ lost' \in 0 .. MaxLost /\ lost <= lost'
    BY ClockAssumption DEF Control, ClientTypes, RestTyped
  <2>2. \A d \in Deals : abandoned'[d] <= lost'
    BY <2>1 DEF Control, ClientTypes, RestTyped
  <2> QED
    BY <2>1, <2>2 DEF Control, ClientTypes, RestTyped
<1>3. TypeInv'
  BY TypeInductive DEF Control, ClientTypes
<1>4. \A x \in inflight' : x.sess # None => x.sess # m.sess
  BY DEF Control, Awaited
<1>5. \A x \in inflight' : x.sess # None => job'[x.sess] = job[x.sess]
  BY <1>4 DEF Control, ClientTypes, JobsTyped, RestTyped, SubmissionType
<1>6. Awaited'
  BY <1>5 DEF Control, Awaited
<1> QED
  BY <1>1, <1>2, <1>3, <1>6 DEF Control, ClientTypes

LEMMA FailTypes ==
  ASSUME Control, NEW m \in inflight, Fail(m),
         lost' = lost \/ (lost < MaxLost /\ lost' = lost + 1)
  PROVE  Control'
<1>1. m \in SubmissionType /\ lost \in 0 .. MaxLost
  BY DEF Control, ClientTypes, RestTyped
<1>2. lost' \in lost .. MaxLost
  BY <1>1, ClockAssumption
<1>3. [Next]_vars
  BY DEF Fail
<1>4. m.sess \in Sessions \cup {None}
  BY <1>1 DEF SubmissionType
<1> QED
  BY <1>2, <1>3, <1>4, IdleTyped, AnswerTypes DEF Fail

\* The job of a tab after its submission committed.
LEMMA CommittedJob ==
  ASSUME Control, NEW m \in inflight, Commit(m), m.sess # None
  PROVE  /\ m.sess \in Sessions
         /\ job' = [job EXCEPT ![m.sess] = [job[m.sess] EXCEPT !.step = NextStep(job[m.sess].step)]]
         /\ m.choice = "allocate" => NextStep(job[m.sess].step) = "allocated"
         /\ m.choice = "fund" => NextStep(job[m.sess].step) = "funded"
         /\ m.choice \notin {"allocate", "fund"} => NextStep(job[m.sess].step) = "answered"
<1>1. m \in SubmissionType /\ Serves(m, job[m.sess])
  BY DEF Control, ClientTypes, RestTyped, Awaited
<1>2. m.sess \in Sessions /\ job[m.sess] \in JobType
  BY <1>1 DEF SubmissionType, Control, ClientTypes, JobsTyped
<1>3. job' = [job EXCEPT ![m.sess] = [job[m.sess] EXCEPT !.step = NextStep(job[m.sess].step)]]
  BY <1>2 DEF Commit
<1>4. m.choice \in Actions \cup {"Create", "allocate", "fund"}
  BY <1>1 DEF SubmissionType, Choices
<1> QED
  BY <1>1, <1>2, <1>3, <1>4 DEF Serves, NextStep

LEMMA CommitTypes ==
  ASSUME Control, NEW m \in inflight, Commit(m)
  PROVE  Control'
<1>0. m \in SubmissionType /\ m.sess \in Sessions \cup {None} /\ lost \in lost .. MaxLost
  BY ClockAssumption DEF Control, ClientTypes, RestTyped, SubmissionType
<1>1. CASE m.sess = None
  BY <1>0, <1>1, CommitSteps, AnswerTypes DEF Commit
<1>2. CASE m.sess # None
  <2> DEFINE step == NextStep(job[m.sess].step)
             j == [job[m.sess] EXCEPT !.step = step]
  <2>1. job[m.sess] \in JobType /\ Busy(job[m.sess]) /\ Holds(job[m.sess]) /\ Serves(m, job[m.sess])
    BY <1>2, CommittedJob DEF Control, ClientTypes, JobsTyped, Awaited
  <2>2. job[m.sess].step # "idle" /\ step \in {"answered", "allocated", "funded"}
    BY <1>0, <1>2, <2>1, ServedSteps, CommittedJob
  <2>3. step # "answered" => job[m.sess].step \in {"allocating", "funding"}
    BY <1>0, <1>2, <2>1, CommittedJob DEF Serves
  <2>4. /\ j \in JobType /\ j.op = job[m.sess].op /\ j.deal = job[m.sess].deal
        /\ j.on = job[m.sess].on /\ j.step = step
    BY <2>1, <2>2 DEF JobType, Steps
  <2>5. Busy(j) /\ Holds(j)
    BY <2>1, <2>2, <2>3, <2>4 DEF Busy, Holds, FundingSteps
  <2>6. job' = [job EXCEPT ![m.sess] = j]
    BY <1>2, CommittedJob
  <2> HIDE DEF j, step
  <2> QED
    BY <1>0, <1>2, <2>4, <2>5, <2>6, CommitSteps, AnswerTypes DEF Commit
<1> QED
  BY <1>1, <1>2

\* What a tab that is abandoned leaves in flight.
Orphan(m) == [m EXCEPT !.sess = None]

LEMMA OrphanFields ==
  ASSUME NEW m \in SubmissionType
  PROVE  /\ Orphan(m) \in SubmissionType
         /\ Orphan(m).sess = None /\ Orphan(m).by = m.by /\ Orphan(m).choice = m.choice
         /\ Orphan(m).on = m.on /\ Orphan(m).alloc = m.alloc /\ Orphan(m).data = m.data
         /\ Carries(m) => Carries(Orphan(m))
<1>1. /\ Orphan(m) \in SubmissionType
      /\ Orphan(m).sess = None /\ Orphan(m).by = m.by /\ Orphan(m).choice = m.choice
      /\ Orphan(m).on = m.on /\ Orphan(m).alloc = m.alloc /\ Orphan(m).data = m.data
  BY DEF Orphan, SubmissionType
<1> QED
  BY <1>1 DEF Carries

LEMMA AbandonLeaves ==
  ASSUME Control, NEW s \in Sessions, Abandon(s)
  PROVE  /\ \A m \in inflight' : \/ m \in inflight /\ m.sess # s
                                 \/ \E x \in inflight : x.sess = s /\ m = Orphan(x)
         /\ \A m \in inflight : m.sess # s => m \in inflight'
         /\ \A m \in inflight : m.sess = s => Orphan(m) \in inflight'
BY DEF Abandon, Orphan

LEMMA AbandonTypes ==
  ASSUME Control, NEW s \in Sessions, Abandon(s)
  PROVE  Control'
<1>1. JobsTyped'
  BY SetJob, IdleTyped DEF Abandon, Control, ClientTypes
<1>2. inflight' \subseteq SubmissionType /\ \A m \in inflight' : Carries(m)
  BY AbandonLeaves, OrphanFields DEF Control, ClientTypes, RestTyped
<1>3. lost \in Nat /\ lost' \in 0 .. MaxLost /\ lost' = lost + 1
  BY ClockAssumption DEF Abandon, Control, ClientTypes, RestTyped
<1>4. abandoned' \in [Deals -> Nat] /\ \A d \in Deals : abandoned'[d] <= lost'
  <2>1. abandoned \in [Deals -> Nat] /\ \A d \in Deals : abandoned[d] <= lost
    BY DEF Control, ClientTypes, RestTyped
  <2>2. CASE job[s].step = "allocating"
    <3>1. job[s].deal \in Deals /\ abandoned' = [abandoned EXCEPT ![job[s].deal] = @ + 1]
      BY <2>2 DEF Abandon, Control, ClientTypes, JobsTyped, Busy
    <3> QED
      BY <1>3, <2>1, <3>1
  <2>3. CASE job[s].step # "allocating"
    BY <1>3, <2>1, <2>3 DEF Abandon
  <2> QED
    BY <2>2, <2>3
<1>5. RestTyped'
  BY <1>2, <1>3, <1>4 DEF Abandon, Control, ClientTypes, RestTyped
<1>6. TypeInv'
  BY TypeInductive DEF Abandon, Control, ClientTypes
<1>7. \A m \in inflight' : m.sess # None => m \in inflight /\ m.sess # s
  BY AbandonLeaves, OrphanFields DEF Control, ClientTypes, RestTyped
<1>8. \A m \in inflight' : m.sess # None => job'[m.sess] = job[m.sess]
  BY <1>7 DEF Abandon, Control, ClientTypes, JobsTyped, RestTyped, SubmissionType
<1>9. Awaited'
  BY <1>7, <1>8 DEF Control, Awaited
<1> QED
  BY <1>1, <1>5, <1>6, <1>9 DEF Control, ClientTypes

LEMMA ControlInductive == Control /\ [WalletNext]_allVars => Control'
<1> SUFFICES ASSUME Control, [WalletNext]_allVars PROVE Control'
  OBVIOUS
<1>0. ClientTypes
  BY DEF Control
<1>1. CASE UNCHANGED allVars
  <2>1. UNCHANGED <<vars, job, inflight, notices, lost, abandoned>>
    BY <1>1 DEF allVars, clientVars
  <2> QED
    BY <2>1, TypeInductive DEF Control, ClientTypes, JobsTyped, RestTyped, Awaited
<1>2. CASE (Tick \/ \E a \in AllocIds : Withdraw(a)) /\ UNCHANGED clientVars
  <2>1. UNCHANGED <<job, inflight, notices, lost, abandoned>> /\ TypeInv'
    BY <1>2, TypeInductive DEF Next, clientVars, Control, ClientTypes
  <2> QED
    BY <2>1 DEF Control, ClientTypes, JobsTyped, RestTyped, Awaited
<1> QED
  BY <1>0, <1>1, <1>2, StepCases, CreateTypes, ChooseTypes, ResumeTypes, LockTypes, FundTypes,
     GiveUpTypes, ReportTypes, FindTypes, FindEscrowTypes, NotifyTypes, CommitTypes,
     FailTypes, AbandonTypes

LEMMA ControlInit == ClientInit => Control
<1> SUFFICES ASSUME ClientInit PROVE Control
  OBVIOUS
<1>1. TypeInv
  BY BoundsAssumption DEF ClientInit, Init, TypeInv, TypeOK, LiveAmountsPositive
<1>2. JobsTyped
  BY IdleTyped DEF ClientInit, JobsTyped
<1>3. RestTyped
  BY ClockAssumption DEF ClientInit, RestTyped
<1>4. Awaited
  BY DEF ClientInit, Awaited
<1> QED
  BY <1>1, <1>2, <1>3, <1>4 DEF Control, ClientTypes

\* A payer who never withdraws is a payer who may withdraw.
LEMMA WithoutWithdrawals == ClientSpec => WithWithdrawals
<1>1. [ClientNext]_allVars => [WalletNext]_allVars
  BY DEF WalletNext
<1> QED
  BY <1>1, PTL DEF ClientSpec, WithWithdrawals

\* The tabs change the ledger only through the choices of the contracts and the
\* registry, whatever they submit, lose or retry: every behaviour of the clients
\* is one of DealLedger, so that all its theorems hold of the deployed system.
THEOREM ClientsStayOnTheLedger == WithWithdrawals => Spec
<1>1. ClientInit => Init
  BY DEF ClientInit
<1>2. ClientInit => Control
  BY ControlInit
<1>3. Control /\ [WalletNext]_allVars => [Next]_vars
  BY ClientKeepsLedger
<1> QED
  BY <1>1, <1>2, <1>3, ControlInductive, PTL DEF WithWithdrawals, Spec

\* Tabs, submissions, notices and losses stay within their types.
THEOREM ClientTypeCorrect == WithWithdrawals => []ClientTypeOK
<1>1. Control => ClientTypeOK
  <2> SUFFICES ASSUME Control PROVE ClientTypeOK
    OBVIOUS
  <2>1. TypeOK
    BY DEF Control, ClientTypes, TypeInv
  <2>2. ASSUME NEW s \in Sessions
        PROVE  /\ job[s].op \in Actions \cup {"idle"}
               /\ job[s].deal \in Deals \cup {None}
               /\ job[s].step \in {"idle", "waiting", "answered", "escrow", "allocating",
                                   "allocated", "funding", "funded", "notify"}
               /\ job[s].on \in Contract \cup {None}
    <3>1. job[s] \in JobType
      BY DEF Control, ClientTypes, JobsTyped
    <3> QED
      BY <3>1 DEF JobType, Steps
  <2>3. \A m \in inflight : SubmissionOK(m)
    BY DEF Control, ClientTypes, RestTyped, SubmissionType, SubmissionOK, Choices
  <2>4. \A n \in notices : n.deal \in Deals /\ n.action \in Actions
    BY DEF Control, ClientTypes, RestTyped, NoticeType
  <2>5. lost \in 0 .. MaxLost /\ abandoned \in [Deals -> 0 .. MaxLost]
    <3>1. abandoned \in [Deals -> Nat] /\ \A d \in Deals : abandoned[d] \in 0 .. MaxLost
      BY ClockAssumption DEF Control, ClientTypes, RestTyped
    <3>2. abandoned \in [Deals -> 0 .. MaxLost]
      BY <3>1
    <3> QED
      BY <3>2 DEF Control, ClientTypes, RestTyped
  <2> QED
    BY <2>1, <2>2, <2>3, <2>4, <2>5 DEF ClientTypeOK
<1> QED
  BY <1>1, ControlInit, ControlInductive, PTL DEF WithWithdrawals

-----------------------------------------------------------------------------
\* What no step of the ledger takes back

\* A contract is created by a submission, and has the template its choice leaves.
LEMMA NewContracts ==
  ASSUME Control, [WalletNext]_allVars, NEW c \in acs', c \notin acs
  PROVE  \E m \in inflight :
           /\ Commit(m)
           /\ \/ m.choice = "Create" /\ c.tpl = "DealProposal" /\ c.deal = m.on
              \/ m.choice = "fund" /\ c.tpl = "DealEscrow" /\ c.deal = m.on.deal
              \/ /\ m.choice \in Actions \ {"reject"}
                 /\ c.tpl = To(m.choice) /\ c.deal = m.on.deal
<1>0. ClientTypes /\ acs \subseteq Contract
  BY DEF Control, ClientTypes, TypeInv, TypeOK
<1>1. ASSUME NEW m \in inflight, Commit(m)
      PROVE  \/ m.choice = "Create" /\ c.tpl = "DealProposal" /\ c.deal = m.on
             \/ m.choice = "fund" /\ c.tpl = "DealEscrow" /\ c.deal = m.on.deal
             \/ /\ m.choice \in Actions \ {"reject"}
                /\ c.tpl = To(m.choice) /\ c.deal = m.on.deal
  <2> USE DEF To, Actions, Consume
  <2>1. CASE m.choice = "Create" /\ \E r \in Roots : Propose(m.by, r, m.on, m.data)
    BY <2>1 DEF Propose, Proposal
  <2>2. CASE m.choice = "accept" /\ Accept(m.by, m.on)
    <3>1. c = Successor(m.on, "DealAgreement") /\ m.on \in Contract
      BY <1>0, <2>2 DEF Accept
    <3> QED
      BY <2>2, <3>1, SuccessorType DEF Templates
  <2>3. CASE m.choice = "fund" /\ FundEscrow(m.by, m.on, m.alloc)
    <3>1. c = [Successor(m.on, "DealEscrow") EXCEPT !.alloc = m.alloc] /\ m.on \in Contract
      BY <1>0, <2>3 DEF FundEscrow
    <3> QED
      BY <2>3, <3>1 DEF Successor, Contract
  <2>4. CASE m.choice = "submit_fulfillment" /\ SubmitFulfillment(m.by, m.on)
    <3>1. c = Successor(m.on, "DealFulfillment") /\ m.on \in Contract
      BY <1>0, <2>4 DEF SubmitFulfillment
    <3> QED
      BY <2>4, <3>1, SuccessorType DEF Templates
  <2>5. CASE m.choice = "submit_fulfillment" /\ SubmitFundedFulfillment(m.by, m.on)
    <3>1. c = Successor(m.on, "DealFulfillment") /\ m.on \in Contract
      BY <1>0, <2>5 DEF SubmitFundedFulfillment
    <3> QED
      BY <2>5, <3>1, SuccessorType DEF Templates
  <2>6. CASE m.choice = "request_revision" /\ RequestRevision(m.by, m.on)
    <3>1. c = Successor(m.on, "DealRevisionRequest") /\ m.on \in Contract
      BY <1>0, <2>6 DEF RequestRevision
    <3> QED
      BY <2>6, <3>1, SuccessorType DEF Templates
  <2>7. CASE m.choice = "submit_revision" /\ SubmitRevision(m.by, m.on)
    <3>1. /\ c = [Successor(m.on, "DealFulfillment") EXCEPT !.round = @ + 1]
          /\ m.on \in Contract
      BY <1>0, <2>7 DEF SubmitRevision
    <3> QED
      BY <2>7, <3>1 DEF Successor, Contract
  <2>8. CASE m.choice = "approve_fulfillment" /\ Approve(m.by, m.on)
    <3>1. c = Successor(m.on, "FulfillmentApproval") /\ m.on \in Contract
      BY <1>0, <2>8 DEF Approve
    <3> QED
      BY <2>8, <3>1, SuccessorType DEF Templates
  <2>9. CASE m.choice = "settled" /\ Settle(m.by, m.on)
    <3>1. c = Successor(m.on, "SettlementReceipt") /\ m.on \in Contract
      BY <1>0, <2>9 DEF Settle
    <3> QED
      BY <2>9, <3>1, SuccessorType DEF Templates
  <2>10. ~(m.choice = "allocate" /\ Allocate(m.alloc, m.data)) /\ ~(m.choice = "reject" /\ Reject(m.by, m.on))
    BY DEF Allocate, Reject
  <2> QED
    BY <1>1, <2>1, <2>2, <2>3, <2>4, <2>5, <2>6, <2>7, <2>8, <2>9, <2>10 DEF Commit, Apply
<1>2. ~ UNCHANGED acs
  OBVIOUS
<1>3. ASSUME NEW s \in Sessions
      PROVE  /\ \A d \in Deals, t \in Terms : CreateOffer(s, d, t) => UNCHANGED acs
             /\ \A e \in acs : Resumes(s, e) \/ Finds(s, e) \/ FindsEscrow(s, e) => UNCHANGED acs
             /\ \A e \in acs, op \in Actions : Chooses(s, op, e) => UNCHANGED acs
             /\ \A a \in AllocIds : LocksHoldings(s, a) \/ Funds(s, a) => UNCHANGED acs
             /\ GivesUp(s) \/ ReportsRejection(s) \/ Notify(s) \/ Abandon(s) => UNCHANGED acs
  BY DEF CreateOffer, Resumes, Finds, FindsEscrow, Chooses, LocksHoldings, Funds, GivesUp,
         ReportsRejection, Notify, Abandon, Submit, GoTo, vars
<1>4. ASSUME NEW m \in inflight, Fail(m)
      PROVE  UNCHANGED acs
  BY <1>4 DEF Fail, vars
<1>5. (Tick \/ (\E a \in AllocIds : Withdraw(a)) \/ UNCHANGED allVars) => UNCHANGED acs
  BY DEF Tick, Withdraw, allVars, vars
<1> QED
  BY <1>0, <1>1, <1>2, <1>3, <1>4, <1>5, StepCases

\* The clients create nothing past the choices and reuse no deal identifier: all
\* contracts descend from offers, those of one deal from one offer.
Pristine ==
  /\ \A c \in History : FromOffer(c)
  /\ \A c1, c2 \in History : c1.deal = c2.deal => c1.root = c2.root

LedgerInv == PromiseInv /\ Pristine

\* An offer on its way names a deal that nothing else names.
FreshCreates ==
  /\ \A m \in inflight : m.choice = "Create" => \A c \in History : c.deal # m.on
  /\ \A m1, m2 \in inflight :
       (m1.choice = "Create" /\ m2.choice = "Create" /\ m1.on = m2.on) => m1 = m2

ClientInv == Control /\ LedgerInv /\ FreshCreates

\* What that makes of the ledger's properties: every deal is orderly, has one
\* active contract and one set of terms, and leaves its stages behind.
OneTerms ==
  \A c1, c2 \in History : c1.deal = c2.deal => c1.terms = c2.terms

OneActivePerDeal ==
  \A c1, c2 \in acs : c1.deal = c2.deal => c1 = c2

DealBehind ==
  \A old \in archived, cur \in acs : old.deal = cur.deal => Stage(old) < Stage(cur)

LEMMA DealFacts ==
  ClientInv => OneTerms /\ OneActivePerDeal /\ DealBehind /\ \A d : Orderly(d)
<1> SUFFICES ASSUME ClientInv
             PROVE  OneTerms /\ OneActivePerDeal /\ DealBehind /\ \A d : Orderly(d)
  OBVIOUS
<1>1. Pristine /\ OneActivePerLine /\ HistoryBehind /\ EscrowBacked
  BY DEF ClientInv, LedgerInv, PromiseInv, OnePath, EscrowShape
<1>2. OneTerms
  BY <1>1 DEF Pristine, OneActivePerLine, OneTerms
<1>3. OneActivePerDeal /\ DealBehind
  BY <1>1 DEF Pristine, OneActivePerLine, HistoryBehind, OneActivePerDeal, DealBehind, History
<1>4. ASSUME NEW d PROVE Orderly(d)
  <2>1. \A c \in History : Touches(c, d) => c.deal = d
    BY <1>1 DEF Touches, Pristine, EscrowBacked, SpecFits
  <2> QED
    BY <1>1, <2>1 DEF Orderly, Lines, Pristine, FromOffer
<1> QED
  BY <1>2, <1>3, <1>4

\* A contract is new when a choice created it, or an offer of a new deal.
LEMMA ContractsMove ==
  ASSUME Control, FreshCreates, [WalletNext]_allVars, NEW n \in History', n \notin History
  PROVE  \/ \E c \in acs : n.deal = c.deal /\ n.root = c.root
         \/ /\ n.tpl = "DealProposal" /\ History' = History \cup {n}
            /\ \E m \in inflight : m.choice = "Create" /\ m.on = n.deal /\ Commit(m)
            /\ \A c \in History : c.deal # n.deal
<1>1. [Next]_vars /\ TypeInv
  BY ClientKeepsLedger DEF Control, ClientTypes
<1>2. ASSUME NEW c \in acs, Follows(c, n)
      PROVE  n.deal = c.deal /\ n.root = c.root
  BY <1>2 DEF Follows
<1>3. ASSUME archived' = archived, acs' = acs \cup {n}
      PROVE  \/ \E c \in acs : n.deal = c.deal /\ n.root = c.root
             \/ /\ n.tpl = "DealProposal" /\ History' = History \cup {n}
                /\ \E m \in inflight : m.choice = "Create" /\ m.on = n.deal /\ Commit(m)
                /\ \A c \in History : c.deal # n.deal
  <2>1. n \in acs' /\ n \notin acs /\ History' = History \cup {n}
    BY <1>3 DEF History
  <2>2. PICK m \in inflight :
           /\ Commit(m)
           /\ \/ m.choice = "Create" /\ n.tpl = "DealProposal" /\ n.deal = m.on
              \/ m.choice = "fund" /\ n.tpl = "DealEscrow" /\ n.deal = m.on.deal
              \/ /\ m.choice \in Actions \ {"reject"}
                 /\ n.tpl = To(m.choice) /\ n.deal = m.on.deal
    BY <2>1, NewContracts
  <2>3. CASE m.choice = "Create"
    BY <2>1, <2>2, <2>3 DEF FreshCreates, Actions
  <2>4. CASE m.choice # "Create"
    <3>1. m.by \in Parties /\ Carries(m)
      BY DEF Control, ClientTypes, RestTyped, SubmissionType
    <3>2. ~ (m.choice = "allocate" /\ Allocate(m.alloc, m.data))
      BY <2>1 DEF Allocate
    <3>3. m.on \in acs /\ Choice(m.by, m.on)
      BY <2>2, <2>4, <3>1, <3>2 DEF Commit, Apply, Choice, Carries, Accept, Reject, FundEscrow,
         SubmitFulfillment, SubmitFundedFulfillment, RequestRevision, SubmitRevision, Approve, Settle
    <3>4. ~ Consume(m.on, {})
      BY <2>1 DEF Consume
    <3>5. PICK k \in Contract : Consume(m.on, {k}) /\ Follows(m.on, k)
      BY <1>1, <3>1, <3>3, <3>4, ChoiceShape
    <3>6. n = k
      BY <2>1, <3>5 DEF Consume
    <3> QED
      BY <1>2, <3>3, <3>5, <3>6
  <2> QED
    BY <2>3, <2>4
<1> QED
  BY <1>1, <1>2, <1>3, NewContract

LEMMA PristineInductive ==
  Control /\ Pristine /\ FreshCreates /\ [WalletNext]_allVars => Pristine'
<1> SUFFICES ASSUME Control, Pristine, FreshCreates, [WalletNext]_allVars PROVE Pristine'
  OBVIOUS
<1>1. [Next]_vars /\ TypeInv /\ acs \subseteq History
  BY ClientKeepsLedger DEF Control, ClientTypes, History
<1>2. ASSUME NEW n \in History' PROVE FromOffer(n)'
  <2>1. CASE n \in History
    BY <1>1, <2>1, OffersKept DEF Pristine
  <2>2. CASE n.tpl = "DealProposal"
    BY <2>2 DEF FromOffer, OfferLines
  <2>3. ASSUME NEW c \in acs, n.root = c.root
        PROVE  FromOffer(n)'
    <3>1. FromOffer(c)'
      BY <1>1, OffersKept DEF Pristine
    <3> QED
      BY <2>3, <3>1 DEF FromOffer
  <2> QED
    BY <2>1, <2>2, <2>3, ContractsMove
<1>3. ASSUME NEW n1 \in History', NEW n2 \in History', n1.deal = n2.deal
      PROVE  n1.root = n2.root
  <2>1. CASE n1 \notin History /\ History' = History \cup {n1} /\ \A c \in History : c.deal # n1.deal
    BY <1>3, <2>1
  <2>2. CASE n2 \notin History /\ History' = History \cup {n2} /\ \A c \in History : c.deal # n2.deal
    BY <1>3, <2>2
  <2>3. CASE /\ n1 \in History \/ \E c \in acs : n1.deal = c.deal /\ n1.root = c.root
             /\ n2 \in History \/ \E c \in acs : n2.deal = c.deal /\ n2.root = c.root
    BY <1>1, <1>3, <2>3 DEF Pristine
  <2> QED
    BY <2>1, <2>2, <2>3, ContractsMove
<1> QED
  BY <1>2, <1>3 DEF Pristine

\* A rejected deal stays rejected.
Rejected(d) == (\E c \in archived : c.deal = d) /\ \A x \in acs : x.deal # d

LEMMA RejectedStays ==
  ASSUME Control, FreshCreates, [WalletNext]_allVars, NEW d, Rejected(d)
  PROVE  Rejected(d)'
<1>1. [Next]_vars /\ TypeInv /\ archived \subseteq archived'
  BY ClientKeepsLedger, HistoryGrows DEF Control, ClientTypes
<1>2. ASSUME NEW x \in acs', x.deal = d
      PROVE  FALSE
  <2>1. x \in History'
    BY DEF History
  <2>2. CASE x \in archived
    <3>1. x \in acs
      <4>1. CASE \E p \in Parties, c \in acs : Choice(p, c)
        <5>1. ASSUME NEW c \in acs, NEW n, acs' = (acs \ {c}) \cup {n}, n.deal = c.deal
              PROVE  x \in acs
          BY <1>2, <5>1 DEF Rejected
        <5> QED
          BY <1>1, <1>2, <4>1, <5>1, ChoiceShape DEF Consume, Follows
      <4>2. CASE ~ \E p \in Parties, c \in acs : Choice(p, c)
        BY <1>1, <1>2, <2>2, <4>2, OtherSteps DEF Fresh, History
      <4> QED
        BY <4>1, <4>2
    <3> QED
      BY <1>2, <3>1 DEF Rejected
  <2>3. CASE x \in acs
    BY <1>2, <2>3 DEF Rejected
  <2>4. CASE x \notin History
    BY <1>2, <2>1, <2>4, ContractsMove DEF Rejected, History
  <2> QED
    BY <2>2, <2>3, <2>4 DEF History
<1> QED
  BY <1>1, <1>2 DEF Rejected

\* Offers on their way stay the first of their deals.
LEMMA CreateStarts ==
  ASSUME Control, [WalletNext]_allVars
  PROVE  \/ \E s \in Sessions, d \in Deals, t \in Terms : CreateOffer(s, d, t)
         \/ \A m \in inflight' : m.choice = "Create" =>
              m \in inflight \/ \E s \in Sessions, x \in inflight :
                                  Abandon(s) /\ x.sess = s /\ m = Orphan(x)
<1> USE DEF Submit, GoTo
<1>0. ClientTypes
  BY DEF Control
<1>1. ASSUME ~ \E s \in Sessions, d \in Deals, t \in Terms : CreateOffer(s, d, t),
             NEW m \in inflight', m.choice = "Create"
      PROVE  m \in inflight \/ \E s \in Sessions, x \in inflight :
                                 Abandon(s) /\ x.sess = s /\ m = Orphan(x)
  <2>1. ASSUME NEW s \in Sessions
        PROVE  /\ \A c \in acs, op \in Actions : Chooses(s, op, c) => m \in inflight
               /\ \A a \in AllocIds : LocksHoldings(s, a) \/ Funds(s, a) => m \in inflight
    BY <1>1 DEF Chooses, LocksHoldings, Funds, Submission, Actions
  <2>2. ASSUME NEW s \in Sessions
        PROVE  /\ \A c \in acs : Resumes(s, c) \/ Finds(s, c) \/ FindsEscrow(s, c) => m \in inflight
               /\ GivesUp(s) \/ ReportsRejection(s) \/ Notify(s) => m \in inflight
    BY DEF Resumes, Finds, FindsEscrow, GivesUp, ReportsRejection, Notify
  <2>3. ASSUME NEW s \in Sessions, Abandon(s)
        PROVE  m \in inflight \/ \E x \in inflight : x.sess = s /\ m = Orphan(x)
    BY <2>3, AbandonLeaves
  <2>4. ASSUME NEW x \in inflight, Commit(x) \/ Fail(x)
        PROVE  m \in inflight
    BY <2>4 DEF Commit, Fail
  <2>5. UNCHANGED allVars \/ UNCHANGED clientVars => m \in inflight
    BY DEF allVars, clientVars
  <2> HIDE DEF Submit, GoTo
  <2> QED
    BY <1>0, <1>1, <2>1, <2>2, <2>3, <2>4, <2>5, StepCases
<1> QED
  BY <1>1


LEMMA FreshInductive == Control /\ FreshCreates /\ [WalletNext]_allVars => FreshCreates'
<1> SUFFICES ASSUME Control, FreshCreates, [WalletNext]_allVars PROVE FreshCreates'
  OBVIOUS
<1>1. ASSUME NEW s \in Sessions, NEW d \in Deals, NEW t \in Terms, CreateOffer(s, d, t)
      PROVE  FreshCreates'
  <2> DEFINE new == Submission(s, "Create", d, None, t)
  <2>1. new.choice = "Create" /\ new.on = d
    BY DEF Submission
  <2>2. inflight' = inflight \cup {new} /\ History' = History
    BY <1>1 DEF CreateOffer, Submit, vars, History
  <2>3. /\ \A c \in History : c.deal # d
        /\ \A m \in inflight : m.choice = "Create" => m.on # d
    BY <1>1 DEF CreateOffer
  <2> HIDE DEF new
  <2> QED
    BY <2>1, <2>2, <2>3 DEF FreshCreates
<1>2. ASSUME \A m \in inflight' : m.choice = "Create" =>
               m \in inflight \/ \E s \in Sessions, x \in inflight :
                                   Abandon(s) /\ x.sess = s /\ m = Orphan(x)
      PROVE  FreshCreates'
  <2>1. ASSUME NEW m \in inflight', m.choice = "Create"
        PROVE  \E x \in inflight :
                 /\ x.choice = "Create" /\ x.on = m.on
                 /\ m = x \/ (m = Orphan(x) /\ \E s \in Sessions : Abandon(s) /\ x.sess = s)
    <3>1. CASE m \in inflight
      BY <2>1, <3>1
    <3>2. ASSUME NEW s \in Sessions, NEW x \in inflight, Abandon(s), x.sess = s, m = Orphan(x)
          PROVE  x.choice = "Create" /\ x.on = m.on
      BY <2>1, <3>2, OrphanFields DEF Control, ClientTypes, RestTyped
    <3> QED
      BY <1>2, <2>1, <3>1, <3>2
  <2>2. ASSUME NEW m \in inflight', m.choice = "Create", NEW c \in History'
        PROVE  c.deal # m.on
    <3>1. PICK x \in inflight :
            /\ x.choice = "Create" /\ x.on = m.on
            /\ m = x \/ \E s \in Sessions : Abandon(s)
      BY <2>1, <2>2
    <3>2. \A b \in History : b.deal # m.on
      BY <3>1 DEF FreshCreates
    <3>3. CASE c \in History
      BY <3>2, <3>3
    <3>4. ASSUME NEW b \in acs, c.deal = b.deal
          PROVE  c.deal # m.on
      BY <3>2, <3>4 DEF History
    <3>5. ASSUME NEW w \in inflight, w.choice = "Create", w.on = c.deal, Commit(w)
          PROVE  c.deal # m.on
      <4>1. inflight' = inflight \ {w}
        BY <3>5 DEF Commit
      <4>2. lost' = lost /\ lost \in Nat
        BY <3>5 DEF Commit, Control, ClientTypes, RestTyped
      <4>3. ~ \E s \in Sessions : Abandon(s)
        BY <4>2 DEF Abandon
      <4>4. x # w
        BY <2>2, <3>1, <4>1, <4>3
      <4> QED
        BY <3>1, <3>5, <4>4 DEF FreshCreates
    <3>6. c \in History \/ (\E b \in acs : c.deal = b.deal)
             \/ \E w \in inflight : w.choice = "Create" /\ w.on = c.deal /\ Commit(w)
      <4> HIDE DEF Commit, History
      <4> QED
        BY <2>2, ContractsMove
    <3> QED
      BY <3>3, <3>4, <3>5, <3>6
  <2>3. ASSUME NEW m1 \in inflight', NEW m2 \in inflight',
               m1.choice = "Create", m2.choice = "Create", m1.on = m2.on
        PROVE  m1 = m2
    <3>1. PICK x1 \in inflight :
            /\ x1.choice = "Create" /\ x1.on = m1.on
            /\ m1 = x1 \/ (m1 = Orphan(x1) /\ \E s \in Sessions : Abandon(s) /\ x1.sess = s)
      BY <2>1, <2>3
    <3>2. PICK x2 \in inflight :
            /\ x2.choice = "Create" /\ x2.on = m2.on
            /\ m2 = x2 \/ (m2 = Orphan(x2) /\ \E s \in Sessions : Abandon(s) /\ x2.sess = s)
      BY <2>1, <2>3
    <3>3. x1 = x2
      BY <2>3, <3>1, <3>2 DEF FreshCreates
    <3>4. ASSUME NEW s \in Sessions, Abandon(s), x1.sess = s
          PROVE  m1 = Orphan(x1) /\ m2 = Orphan(x1)
      <4>1. x1 \notin inflight'
        <5>1. s # None /\ \A x \in inflight : Orphan(x).sess = None
          BY OrphanFields, SessionsAssumption DEF Control, ClientTypes, RestTyped
        <5> QED
          BY <3>4, <5>1, AbandonLeaves
      <4> QED
        BY <2>3, <3>1, <3>2, <3>3, <4>1
    <3> QED
      BY <3>1, <3>2, <3>3, <3>4
  <2> QED
    BY <2>2, <2>3 DEF FreshCreates
<1> QED
  BY <1>1, <1>2, CreateStarts

LEMMA ClientInvInductive == ClientInv /\ [WalletNext]_allVars => ClientInv'
BY ControlInductive, ClientKeepsLedger, PromiseInductive, PristineInductive, FreshInductive
   DEF ClientInv, LedgerInv, Control, ClientTypes

LEMMA ClientInvInit == ClientInit => ClientInv
<1> SUFFICES ASSUME ClientInit PROVE ClientInv
  OBVIOUS
<1>1. Init /\ History = {} /\ inflight = {}
  BY DEF ClientInit, Init, History
<1>2. PromiseInv
  BY <1>1, PayStart, PathStart DEF PromiseInv
<1> QED
  BY <1>1, <1>2, ControlInit DEF ClientInv, LedgerInv, Pristine, FreshCreates

\* What the ledger said of contracts, allocations and deals, it still says.
LEMMA LedgerKeeps ==
  ASSUME ClientInv, [WalletNext]_allVars
  PROVE  /\ [Next]_vars /\ TypeInv /\ History \subseteq History'
         /\ \A a \in AllocIds : allocState[a] # "none" =>
              allocState'[a] # "none" /\ allocSpec'[a] = allocSpec[a]
         /\ \A a \in AllocIds : allocState[a] = "executed" => allocState'[a] = "executed"
         /\ \A d : Rejected(d) => Rejected(d)'
<1>1. [Next]_vars /\ TypeInv /\ Control /\ FreshCreates
  BY ClientKeepsLedger DEF ClientInv, Control, ClientTypes
<1> QED
  BY <1>1, HistoryGrows, AllocationsMoveForward, RejectedStays

-----------------------------------------------------------------------------
\* Where jobs and submissions come from

\* A step changes the job of one tab at most.
LEMMA JobCases ==
  ASSUME Control, [WalletNext]_allVars, NEW s \in Sessions
  PROVE  \/ job'[s] = job[s]
         \/ job'[s] = Idle
         \/ job'[s].step = "waiting"
         \/ \E c \in acs : Resumes(s, c)
         \/ \E a \in AllocIds : LocksHoldings(s, a) \/ Funds(s, a)
         \/ ReportsRejection(s)
         \/ \E c \in acs : Finds(s, c) \/ FindsEscrow(s, c)
         \/ \E m \in inflight : Commit(m) /\ m.sess = s
<1> USE DEF Submit, GoTo
<1>0. ClientTypes /\ job \in [Sessions -> JobType]
  BY DEF Control, ClientTypes, JobsTyped
<1>1. ASSUME NEW x \in Sessions
      PROVE  /\ \A d \in Deals, t \in Terms : CreateOffer(x, d, t) =>
                  job'[s] = job[s] \/ (x = s /\ job'[s].step = "waiting")
             /\ \A c \in acs, op \in Actions : Chooses(x, op, c) =>
                  job'[s] = job[s] \/ (x = s /\ job'[s].step = "waiting")
             /\ GivesUp(x) \/ Notify(x) \/ Abandon(x) => job'[s] = job[s] \/ job'[s] = Idle
  BY <1>0 DEF CreateOffer, Chooses, Job, GivesUp, Notify, Abandon
<1>2. ASSUME NEW x \in Sessions
      PROVE  /\ \A c \in acs : Resumes(x, c) => job'[s] = job[s] \/ x = s
             /\ \A a \in AllocIds : LocksHoldings(x, a) \/ Funds(x, a) => job'[s] = job[s] \/ x = s
             /\ ReportsRejection(x) => job'[s] = job[s] \/ x = s
             /\ \A c \in acs : Finds(x, c) \/ FindsEscrow(x, c) => job'[s] = job[s] \/ x = s
  BY <1>0 DEF Resumes, LocksHoldings, Funds, ReportsRejection, Finds, FindsEscrow
<1>3. ASSUME NEW m \in inflight
      PROVE  /\ Fail(m) => job'[s] = job[s] \/ job'[s] = Idle
             /\ Commit(m) => job'[s] = job[s] \/ m.sess = s
  BY <1>0, CommittedJob DEF Fail, Commit
<1>4. UNCHANGED allVars \/ UNCHANGED clientVars => job'[s] = job[s]
  BY DEF allVars, clientVars
<1> HIDE DEF Submit, GoTo
<1> QED
  BY <1>0, <1>1, <1>2, <1>3, <1>4, StepCases

LEMMA SubmissionCases ==
  ASSUME Control, [WalletNext]_allVars, NEW m \in inflight'
  PROVE  \/ m \in inflight
         \/ \E x \in inflight, s \in Sessions : Abandon(s) /\ x.sess = s /\ m = Orphan(x)
         \/ m.choice = "Create" /\ UNCHANGED vars
         \/ \E s \in Sessions, c \in acs, op \in Actions :
              Chooses(s, op, c) /\ m = Submission(s, op, c, None, None)
         \/ \E s \in Sessions, a \in AllocIds :
              /\ LocksHoldings(s, a)
              /\ m = Submission(s, "allocate", job[s].on, a,
                                WalletSpec(job[s].deal, job[s].on.terms))
         \/ \E s \in Sessions, a \in AllocIds :
              Funds(s, a) /\ m = Submission(s, "fund", job[s].on, a, None)
<1> USE DEF Submit, GoTo
<1>0. ClientTypes
  BY DEF Control
<1>1. ASSUME NEW s \in Sessions
      PROVE  /\ \A d \in Deals, t \in Terms : CreateOffer(s, d, t) =>
                  m \in inflight \/ (m.choice = "Create" /\ UNCHANGED vars)
             /\ \A c \in acs, op \in Actions : Chooses(s, op, c) =>
                  m \in inflight \/ m = Submission(s, op, c, None, None)
             /\ \A a \in AllocIds : LocksHoldings(s, a) =>
                  m \in inflight \/ m = Submission(s, "allocate", job[s].on, a,
                                                   WalletSpec(job[s].deal, job[s].on.terms))
             /\ \A a \in AllocIds : Funds(s, a) =>
                  m \in inflight \/ m = Submission(s, "fund", job[s].on, a, None)
  BY DEF CreateOffer, Chooses, LocksHoldings, Funds, Submission
<1>2. ASSUME NEW s \in Sessions
      PROVE  /\ \A c \in acs : Resumes(s, c) \/ Finds(s, c) \/ FindsEscrow(s, c) => m \in inflight
             /\ GivesUp(s) \/ ReportsRejection(s) \/ Notify(s) => m \in inflight
  BY DEF Resumes, Finds, FindsEscrow, GivesUp, ReportsRejection, Notify
<1>3. ASSUME NEW s \in Sessions, Abandon(s)
      PROVE  m \in inflight \/ \E x \in inflight : x.sess = s /\ m = Orphan(x)
  BY <1>3, AbandonLeaves
<1>4. ASSUME NEW x \in inflight, Commit(x) \/ Fail(x)
      PROVE  m \in inflight
  BY <1>4 DEF Commit, Fail
<1>5. UNCHANGED allVars \/ UNCHANGED clientVars => m \in inflight
  BY DEF allVars, clientVars
<1> HIDE DEF Submit, GoTo
<1> QED
  BY <1>0, <1>1, <1>2, <1>3, <1>4, <1>5, StepCases

\* Only a submission of the wallet makes an allocation.
LEMMA AllocationCases ==
  ASSUME Control, [WalletNext]_allVars, NEW a \in AllocIds, allocState'[a] # "none"
  PROVE  \/ allocState[a] # "none" /\ allocSpec'[a] = allocSpec[a]
         \/ \E m \in inflight : /\ m.choice = "allocate" /\ m.alloc = a
                                /\ allocSpec'[a] = m.data /\ Commit(m)
<1>0. ClientTypes /\ allocState \in [AllocIds -> {"none", "live", "withdrawn", "executed"}]
      /\ allocSpec \in [AllocIds -> Specs \cup {None}]
  BY DEF Control, ClientTypes, TypeInv, TypeOK
<1>1. [Next]_vars
  BY ClientKeepsLedger
<1>2. CASE allocState[a] # "none"
  BY <1>0, <1>1, <1>2, AllocationsMoveForward DEF ClientTypes
<1>3. CASE allocState[a] = "none"
  <2>1. ~ UNCHANGED allocState
    BY <1>3
  <2>2. ASSUME NEW m \in inflight, Commit(m)
        PROVE  m.choice = "allocate" /\ m.alloc = a /\ allocSpec'[a] = m.data
    <3>1. CASE m.choice = "allocate" /\ Allocate(m.alloc, m.data)
      BY <1>0, <1>3, <3>1 DEF Allocate
    <3>2. CASE m.choice = "settled" /\ Settle(m.by, m.on)
      <4>1. m.by \in Parties /\ m.on \in acs
        BY <3>2 DEF Control, ClientTypes, RestTyped, SubmissionType, Settle
      <4>2. /\ allocState[m.on.alloc] = "live"
            /\ allocState' = [allocState EXCEPT ![m.on.alloc] = "executed"]
        BY <1>0, <3>2, <4>1, SettleRegistry DEF ClientTypes
      <4> QED
        BY <1>0, <1>3, <4>2
    <3> QED
      BY <2>1, <2>2, <3>1, <3>2
      DEF Commit, Apply, Propose, Accept, Reject, FundEscrow, SubmitFulfillment,
          SubmitFundedFulfillment, RequestRevision, SubmitRevision, Approve
  <2>3. ASSUME NEW b \in AllocIds, Withdraw(b)
        PROVE  allocState'[a] = "none"
    BY <1>0, <1>3, <2>3 DEF Withdraw
  <2>4. ~ UNCHANGED vars
    BY <2>1 DEF vars
  <2>5. ASSUME NEW s \in Sessions
        PROVE  /\ \A d \in Deals, t \in Terms : CreateOffer(s, d, t) => UNCHANGED vars
               /\ \A c \in acs : Resumes(s, c) \/ Finds(s, c) \/ FindsEscrow(s, c) => UNCHANGED vars
               /\ \A c \in acs, op \in Actions : Chooses(s, op, c) => UNCHANGED vars
               /\ \A b \in AllocIds : LocksHoldings(s, b) \/ Funds(s, b) => UNCHANGED vars
               /\ GivesUp(s) \/ ReportsRejection(s) \/ Notify(s) \/ Abandon(s) => UNCHANGED vars
    BY DEF CreateOffer, Resumes, Finds, FindsEscrow, Chooses, LocksHoldings, Funds, GivesUp,
           ReportsRejection, Notify, Abandon, Submit, GoTo
  <2>6. ASSUME NEW m \in inflight, Fail(m)
        PROVE  UNCHANGED vars
    BY <2>6 DEF Fail
  <2>7. ~Tick /\ ~ UNCHANGED allVars
    BY <2>1, <2>4 DEF Tick, allVars
  <2> QED
    BY <1>0, <2>2, <2>3, <2>4, <2>5, <2>6, <2>7, StepCases
<1> QED
  BY <1>2, <1>3

-----------------------------------------------------------------------------
\* The allocations that are found and used

\* The specification sp is one that a contract of its deal asked for.
Requested(sp, d, t) == SpecFits(sp, d, t) /\ sp.settleBefore = t.expires

AskedFor(sp) == \E c \in History : Requested(sp, c.deal, c.terms)

\* All specifications that were requested fit the deal they name, so that it is
\* enough to look for an allocation by its deal.
FundingInv ==
  /\ \A s \in Sessions : job[s].step \in FundingSteps => job[s].on \in History
  /\ \A a \in AllocIds : allocState[a] # "none" => AskedFor(allocSpec[a])
  /\ \A m \in inflight : m.choice = "allocate" =>
       m.on \in History /\ Requested(m.data, m.on.deal, m.on.terms)
  /\ \A m \in inflight : m.choice = "fund" =>
       /\ m.on \in History
       /\ allocState[m.alloc] # "none"
       /\ SpecFits(allocSpec[m.alloc], m.on.deal, m.on.terms)

\* A tab that goes on funding holds the agreement it held, or one it just read.
LEMMA FundingJobs ==
  ASSUME Control, [WalletNext]_allVars, NEW s \in Sessions, job'[s].step \in FundingSteps
  PROVE  \/ job[s].step \in FundingSteps /\ job'[s].on = job[s].on /\ job'[s].deal = job[s].deal
         \/ job'[s].on \in acs
<1>0. job \in [Sessions -> JobType] /\ job[s] \in JobType
  BY DEF Control, ClientTypes, JobsTyped
<1>1. ASSUME NEW c \in acs, Resumes(s, c)
      PROVE  job'[s].on \in acs
  BY <1>0, <1>1 DEF Resumes, GoTo, Job
<1>2. ASSUME NEW a \in AllocIds, LocksHoldings(s, a) \/ Funds(s, a)
      PROVE  /\ job[s].step \in FundingSteps
             /\ job'[s].on = job[s].on /\ job'[s].deal = job[s].deal
  BY <1>0, <1>2 DEF LocksHoldings, Funds, Submit, Job, FundingSteps
<1>3. ASSUME NEW c \in acs, Finds(s, c)
      PROVE  job'[s].on \in acs
  BY <1>0, <1>3 DEF Finds, GoTo, JobType
<1>4. ASSUME ReportsRejection(s)
      PROVE  FALSE
  <2>1. job'[s].step = "notify"
    BY <1>0, <1>4 DEF ReportsRejection, GoTo, JobType
  <2> QED
    BY <2>1 DEF FundingSteps
<1>5. ASSUME NEW c \in acs, FindsEscrow(s, c)
      PROVE  FALSE
  <2>1. job'[s].step = "notify"
    BY <1>0, <1>5 DEF FindsEscrow, GoTo, JobType
  <2> QED
    BY <2>1 DEF FundingSteps
<1>6. ASSUME NEW m \in inflight, Commit(m), m.sess = s
      PROVE  /\ job[s].step \in FundingSteps
             /\ job'[s].on = job[s].on /\ job'[s].deal = job[s].deal
  <2>1. m \in SubmissionType /\ Serves(m, job[s]) /\ s # None
    BY <1>6, SessionsAssumption DEF Control, ClientTypes, RestTyped, Awaited
  <2>2. job'[s] = [job[s] EXCEPT !.step = NextStep(job[s].step)]
    BY <1>0, <1>6, <2>1, CommittedJob
  <2>3. job'[s].step = NextStep(job[s].step) /\ job'[s].on = job[s].on /\ job'[s].deal = job[s].deal
    BY <1>0, <2>2 DEF JobType
  <2>4. m.choice \in {"allocate", "fund"}
    BY <1>6, <2>1, <2>3, CommittedJob DEF FundingSteps
  <2> QED
    BY <2>1, <2>3, <2>4 DEF Serves, FundingSteps
<1>7. CASE job'[s] = Idle
  BY <1>7 DEF Idle, FundingSteps
<1>8. CASE job'[s].step = "waiting"
  BY <1>8 DEF FundingSteps
<1> QED
  BY <1>1, <1>2, <1>3, <1>4, <1>5, <1>6, <1>7, <1>8, JobCases

LEMMA FundingInductive == ClientInv /\ FundingInv /\ [WalletNext]_allVars => FundingInv'
<1> SUFFICES ASSUME ClientInv, FundingInv, [WalletNext]_allVars PROVE FundingInv'
  OBVIOUS
<1>0. Control /\ ClientTypes /\ TypeInv /\ JobsTyped /\ RestTyped
  BY DEF ClientInv, Control, ClientTypes
<1>1. /\ History \subseteq History' /\ acs \subseteq History
      /\ \A a \in AllocIds : allocState[a] # "none" =>
           allocState'[a] # "none" /\ allocSpec'[a] = allocSpec[a]
  BY LedgerKeeps DEF History
<1>2. ASSUME NEW s \in Sessions, job'[s].step \in FundingSteps
      PROVE  job'[s].on \in History'
  BY <1>0, <1>1, <1>2, FundingJobs DEF FundingInv
<1>3. ASSUME NEW a \in AllocIds, allocState'[a] # "none"
      PROVE  AskedFor(allocSpec[a])'
  <2>1. CASE allocState[a] # "none" /\ allocSpec'[a] = allocSpec[a]
    <3>1. PICK c \in History : Requested(allocSpec[a], c.deal, c.terms)
      BY <2>1 DEF FundingInv, AskedFor
    <3> QED
      BY <1>1, <2>1, <3>1 DEF AskedFor
  <2>2. CASE \E m \in inflight : m.choice = "allocate" /\ m.alloc = a /\ allocSpec'[a] = m.data
    <3>1. PICK m \in inflight : m.choice = "allocate" /\ m.alloc = a /\ allocSpec'[a] = m.data
      BY <2>2
    <3>2. m.on \in History' /\ Requested(allocSpec'[a], m.on.deal, m.on.terms)
      BY <1>1, <3>1 DEF FundingInv
    <3> QED
      BY <3>2 DEF AskedFor
  <2> QED
    BY <1>0, <1>3, <2>1, <2>2, AllocationCases
<1>4. ASSUME NEW m \in inflight', m.choice \in {"allocate", "fund"}
      PROVE  /\ m.choice = "allocate" =>
                  m.on \in History' /\ Requested(m.data, m.on.deal, m.on.terms)
             /\ m.choice = "fund" =>
                  /\ m.on \in History'
                  /\ allocState'[m.alloc] # "none"
                  /\ SpecFits(allocSpec'[m.alloc], m.on.deal, m.on.terms)
  <2>1. ASSUME NEW x \in inflight, m.choice = x.choice, m.on = x.on, m.alloc = x.alloc, m.data = x.data
        PROVE  /\ m.choice = "allocate" =>
                    m.on \in History' /\ Requested(m.data, m.on.deal, m.on.terms)
               /\ m.choice = "fund" =>
                    /\ m.on \in History'
                    /\ allocState'[m.alloc] # "none"
                    /\ SpecFits(allocSpec'[m.alloc], m.on.deal, m.on.terms)
    BY <1>0, <1>1, <2>1 DEF FundingInv, RestTyped, Carries
  <2>2. ASSUME NEW s \in Sessions, NEW a \in AllocIds, LocksHoldings(s, a),
               m = Submission(s, "allocate", job[s].on, a, WalletSpec(job[s].deal, job[s].on.terms))
        PROVE  /\ m.choice = "allocate" /\ m.on \in History'
               /\ Requested(m.data, m.on.deal, m.on.terms)
    <3>1. job[s].step = "escrow" /\ Holds(job[s])
      BY <1>0, <2>2 DEF LocksHoldings, JobsTyped
    <3>2. job[s].on \in History' /\ job[s].on.deal = job[s].deal
      BY <1>1, <3>1 DEF FundingInv, Holds, FundingSteps
    <3> QED
      BY <1>0, <2>2, <3>2, RequestTyped DEF Submission, Requested
  <2>3. ASSUME NEW s \in Sessions, NEW a \in AllocIds, Funds(s, a),
               m = Submission(s, "fund", job[s].on, a, None)
        PROVE  /\ m.choice = "fund" /\ m.on \in History'
               /\ allocState'[m.alloc] # "none"
               /\ SpecFits(allocSpec'[m.alloc], m.on.deal, m.on.terms)
    <3>1. /\ job[s].step \in FundingSteps /\ Holds(job[s])
          /\ allocState[a] = "live" /\ allocSpec[a].deal = job[s].deal
      BY <1>0, <2>3 DEF Funds, JobsTyped, FundingSteps
    <3>2. job[s].on \in History /\ job[s].on.deal = job[s].deal
      BY <3>1 DEF FundingInv, Holds
    <3>3. PICK c \in History : Requested(allocSpec[a], c.deal, c.terms)
      BY <3>1 DEF FundingInv, AskedFor
    <3>4. c.deal = job[s].on.deal
      BY <3>1, <3>2, <3>3 DEF Requested, SpecFits
    <3>5. c.terms = job[s].on.terms
      BY <3>2, <3>4, DealFacts DEF OneTerms
    <3>6. m.on = job[s].on /\ m.alloc = a /\ m.choice = "fund"
      BY <2>3 DEF Submission
    <3>7. allocState'[a] # "none" /\ allocSpec'[a] = allocSpec[a]
      BY <1>1, <3>1
    <3> QED
      BY <1>1, <3>2, <3>3, <3>4, <3>5, <3>6, <3>7 DEF Requested
  <2>4. ASSUME NEW x \in inflight, m = Orphan(x)
        PROVE  m.choice = x.choice /\ m.on = x.on /\ m.alloc = x.alloc /\ m.data = x.data
    BY <1>0, <2>4, OrphanFields DEF RestTyped
  <2>5. ASSUME NEW s \in Sessions, NEW c \in acs, NEW op \in Actions,
               Chooses(s, op, c), m = Submission(s, op, c, None, None)
        PROVE  FALSE
    BY <1>4, <2>5 DEF Submission, Actions
  <2>6. m.choice # "Create"
    BY <1>4
  <2> QED
    BY <1>0, <2>1, <2>2, <2>3, <2>4, <2>5, <2>6, SubmissionCases
<1> QED
  BY <1>2, <1>3, <1>4 DEF FundingInv

\* The wallet and the contract agree on which allocation backs a deal: one found
\* by the deal it names, long after it was requested and perhaps by another tab,
\* is never one that FundEscrow refuses as unfit.
THEOREM FoundAllocationsFit == WithWithdrawals => []FundingFits
<1>1. ClientInit => FundingInv
  BY DEF ClientInit, Init, FundingInv, Idle, FundingSteps
<1>2. FundingInv => FundingFits
  BY DEF FundingInv, FundingFits
<1> QED
  BY <1>1, <1>2, ClientInvInit, ClientInvInductive, FundingInductive, PTL DEF WithWithdrawals

-----------------------------------------------------------------------------
\* What the conversation says

NoticeTrue(n) ==
  IF n.action = "reject"
  THEN Rejected(n.deal)
  ELSE /\ n.contract \in History
       /\ n.contract.deal = n.deal /\ n.contract.tpl = To(n.action)
       /\ (n.action = "accept" /\ UsesEscrow(n.contract.terms)) =>
            \E c \in History : c.deal = n.deal /\ c.tpl = "DealEscrow"
       /\ n.action = "settled" => allocState[n.contract.alloc] = "executed"

NoticeOf(j) == [deal |-> j.deal, action |-> j.op, contract |-> j.on]

\* What is about to be announced is true already when the tab decides so.
NoticeInv ==
  /\ \A n \in notices : NoticeTrue(n)
  /\ \A s \in Sessions : \A n :
       job[s].step = "notify" /\ n = NoticeOf(job[s]) => NoticeTrue(n)
  /\ \A s \in Sessions : \A d :
       job[s].step = "answered" /\ job[s].op = "reject" /\ d = job[s].deal => Rejected(d)

\* A receipt of the ledger stands for an executed allocation.
LEMMA ReceiptPaid ==
  ASSUME ClientInv, NEW c \in History, c.tpl = "SettlementReceipt"
  PROVE  c.alloc \in AllocIds /\ allocState[c.alloc] = "executed"
<1>1. c \in Contract
  BY DEF ClientInv, Control, ClientTypes, TypeInv, TypeOK, History
<1> QED
  BY <1>1 DEF Contract, ClientInv, LedgerInv, PromiseInv, PayInv, PaidExactlyWhenApproved

LEMMA NoticeStays ==
  ASSUME ClientInv, [WalletNext]_allVars, NEW n, NoticeTrue(n)
  PROVE  NoticeTrue(n)'
<1>1. CASE n.action = "reject"
  BY <1>1, LedgerKeeps DEF NoticeTrue
<1>2. CASE n.action # "reject"
  <2>1. /\ n.contract \in History /\ n.contract \in History'
        /\ n.contract.deal = n.deal /\ n.contract.tpl = To(n.action)
    BY <1>2, LedgerKeeps DEF NoticeTrue
  <2>2. ASSUME n.action = "settled"
        PROVE  allocState'[n.contract.alloc] = "executed"
    <3>1. n.contract.tpl = "SettlementReceipt"
      BY <2>1, <2>2 DEF To
    <3> QED
      BY <2>1, <3>1, ReceiptPaid, LedgerKeeps
  <2>3. ASSUME n.action = "accept", UsesEscrow(n.contract.terms)
        PROVE  \E c \in History' : c.deal = n.deal /\ c.tpl = "DealEscrow"
    BY <2>3, LedgerKeeps DEF NoticeTrue
  <2> QED
    BY <1>2, <2>1, <2>2, <2>3 DEF NoticeTrue
<1> QED
  BY <1>1, <1>2

\* A rejection that commits leaves the deal without an active contract.
LEMMA RejectionCommits ==
  ASSUME ClientInv, NEW m \in inflight, Commit(m), m.choice = "reject"
  PROVE  Rejected(m.on.deal)'
<1>1. Reject(m.by, m.on)
  BY DEF Commit, Apply
<1>2. m.on \in acs /\ acs' = acs \ {m.on} /\ archived' = archived \cup {m.on}
  BY <1>1 DEF Reject, Consume
<1>3. \A x \in acs : x.deal = m.on.deal => x = m.on
  BY <1>2, DealFacts DEF OneActivePerDeal
<1> QED
  BY <1>2, <1>3 DEF Rejected

\* A tab that has found its contract announces what is on the ledger.
LEMMA FoundIsTrue ==
  ASSUME ClientInv, NEW c \in acs, NEW op \in Actions \ {"reject"}, c.tpl = To(op),
         ~(op = "accept" /\ UsesEscrow(c.terms))
  PROVE  NoticeTrue([deal |-> c.deal, action |-> op, contract |-> c])
<1>1. c \in History
  BY DEF History
<1>2. op = "settled" => c.tpl = "SettlementReceipt"
  BY DEF To
<1> QED
  BY <1>1, <1>2, ReceiptPaid DEF NoticeTrue

LEMMA NotifyingJobs ==
  ASSUME ClientInv, FundingInv, NoticeInv, [WalletNext]_allVars, NEW s \in Sessions,
         job'[s].step = "notify", NEW n, n = NoticeOf(job'[s])
  PROVE  NoticeTrue(n)'
<1>0. /\ Control /\ JobsTyped /\ job \in [Sessions -> JobType] /\ job[s] \in JobType
      /\ Busy(job[s]) /\ Holds(job[s])
  BY DEF ClientInv, Control, ClientTypes, JobsTyped
<1>1. CASE job'[s] = job[s]
  <2>1. n = NoticeOf(job[s])
    BY <1>1 DEF NoticeOf
  <2>2. NoticeTrue(n)
    BY <1>1, <2>1 DEF NoticeInv
  <2> QED
    BY <2>2, NoticeStays
<1>2. ASSUME NEW c \in acs, Resumes(s, c)
      PROVE  NoticeTrue(n)'
  <2>1. /\ job'[s] = Job("accept", c.deal, IF UsesEscrow(c.terms) THEN "escrow" ELSE "notify", c)
        /\ c.tpl = "DealAgreement"
    BY <1>0, <1>2 DEF Resumes, GoTo
  <2>2. ~UsesEscrow(c.terms)
    BY <1>0, <2>1 DEF Job
  <2>3. n = [deal |-> c.deal, action |-> "accept", contract |-> c]
    BY <2>1 DEF NoticeOf, Job
  <2>4. NoticeTrue(n)
    BY <2>1, <2>2, <2>3, FoundIsTrue DEF To, Actions
  <2> QED
    BY <2>4, NoticeStays
<1>3. ASSUME NEW a \in AllocIds, LocksHoldings(s, a) \/ Funds(s, a)
      PROVE  FALSE
  BY <1>0, <1>3 DEF LocksHoldings, Funds, Submit, Job
<1>4. ASSUME ReportsRejection(s)
      PROVE  NoticeTrue(n)'
  <2>1. /\ job'[s] = [job[s] EXCEPT !.step = "notify", !.on = None]
        /\ job[s].step = "answered" /\ job[s].op = "reject"
    BY <1>0, <1>4 DEF ReportsRejection, GoTo
  <2>2. PICK d : d = job[s].deal /\ Rejected(d)
    BY <2>1 DEF NoticeInv
  <2>3. Rejected(d)'
    BY <2>2, LedgerKeeps
  <2>4. n.deal = d /\ n.action = "reject"
    BY <1>0, <2>1, <2>2 DEF JobType, NoticeOf
  <2> QED
    BY <2>3, <2>4 DEF NoticeTrue, Rejected
<1>5. ASSUME NEW c \in acs, Finds(s, c)
      PROVE  NoticeTrue(n)'
  <2>0. /\ job[s].step = "answered" /\ job[s].op # "reject" /\ job[s].op \in Actions
        /\ c.deal = job[s].deal /\ c.tpl = To(job[s].op)
    BY <1>0, <1>5 DEF Finds, Busy
  <2>1. /\ job'[s].op = job[s].op /\ job'[s].deal = job[s].deal /\ job'[s].on = c
        /\ job'[s].step = IF job[s].op = "accept" /\ UsesEscrow(c.terms) THEN "escrow" ELSE "notify"
    BY <1>0, <1>5 DEF Finds, GoTo, JobType
  <2>2. n = [deal |-> c.deal, action |-> job[s].op, contract |-> c]
    BY <2>0, <2>1 DEF NoticeOf
  <2>3. NoticeTrue(n)
    BY <2>0, <2>1, <2>2, FoundIsTrue
  <2> QED
    BY <2>3, NoticeStays
<1>6. ASSUME NEW c \in acs, FindsEscrow(s, c)
      PROVE  NoticeTrue(n)'
  <2>0. /\ job[s].step = "funded" /\ c.deal = job[s].deal /\ c.tpl = "DealEscrow"
        /\ job[s].op = "accept" /\ job[s].on \in History
        /\ job[s].on.tpl = "DealAgreement" /\ job[s].on.deal = job[s].deal
    BY <1>0, <1>6 DEF FindsEscrow, Holds, FundingSteps, FundingInv
  <2>1. job'[s].op = job[s].op /\ job'[s].deal = job[s].deal /\ job'[s].on = job[s].on
    BY <1>0, <1>6 DEF FindsEscrow, GoTo, JobType
  <2>2. n.deal = c.deal /\ n.action = "accept" /\ n.contract = job[s].on
    BY <2>0, <2>1 DEF NoticeOf
  <2>3. NoticeTrue(n)
    BY <2>0, <2>2 DEF NoticeTrue, To, History
  <2> QED
    BY <2>3, NoticeStays
<1>7. ASSUME NEW m \in inflight, Commit(m), m.sess = s
      PROVE  FALSE
  <2>1. m \in SubmissionType /\ m.sess # None
    BY <1>0, <1>7, SessionsAssumption DEF Control, ClientTypes, RestTyped
  <2>2. job'[s].step \in {"allocated", "funded", "answered"}
    <3>1. job'[s] = [job[s] EXCEPT !.step = NextStep(job[s].step)]
      BY <1>0, <1>7, <2>1, CommittedJob
    <3>2. job'[s].step = NextStep(job[s].step)
      BY <1>0, <3>1 DEF JobType
    <3> QED
      BY <1>0, <1>7, <2>1, <3>2, CommittedJob
  <2> QED
    BY <2>2
<1>8. job'[s] # Idle
  BY DEF Idle
<1> QED
  BY <1>0, <1>1, <1>2, <1>3, <1>4, <1>5, <1>6, <1>7, <1>8, JobCases

LEMMA RejectingJobs ==
  ASSUME ClientInv, NoticeInv, [WalletNext]_allVars, NEW s \in Sessions,
         job'[s].step = "answered", job'[s].op = "reject", NEW d, d = job'[s].deal
  PROVE  Rejected(d)'
<1>0. Control /\ job \in [Sessions -> JobType] /\ job[s] \in JobType
  BY DEF ClientInv, Control, ClientTypes, JobsTyped
<1>1. CASE job'[s] = job[s]
  <2>1. Rejected(d)
    BY <1>1 DEF NoticeInv
  <2> QED
    BY <2>1, LedgerKeeps
<1>2. ASSUME NEW m \in inflight, Commit(m), m.sess = s
      PROVE  Rejected(d)'
  <2>1. m \in SubmissionType /\ m.sess # None /\ Serves(m, job[s])
    BY <1>0, <1>2, SessionsAssumption DEF Control, ClientTypes, RestTyped, Awaited
  <2>2. job'[s] = [job[s] EXCEPT !.step = NextStep(job[s].step)]
    BY <1>0, <1>2, <2>1, CommittedJob
  <2>3. job'[s].op = job[s].op /\ job'[s].deal = job[s].deal
    BY <1>0, <2>2 DEF JobType
  <2>4. m.choice = "reject"
    BY <2>1, <2>3 DEF Serves, SubmissionType, Choices
  <2>5. d = m.on.deal
    BY <2>1, <2>3, <2>4 DEF Serves
  <2> QED
    BY <1>2, <2>4, <2>5, RejectionCommits DEF Rejected
<1>3. ASSUME NEW c \in acs
      PROVE  ~Resumes(s, c) /\ ~Finds(s, c) /\ ~FindsEscrow(s, c)
  <2>1. Resumes(s, c) => job'[s].step \in {"escrow", "notify"}
    BY <1>0 DEF Resumes, GoTo, Job
  <2>2. Finds(s, c) => job'[s].step \in {"escrow", "notify"}
    BY <1>0 DEF Finds, GoTo, JobType
  <2>3. FindsEscrow(s, c) => job'[s].step = "notify"
    BY <1>0 DEF FindsEscrow, GoTo, JobType
  <2> QED
    BY <2>1, <2>2, <2>3
<1>4. ASSUME NEW a \in AllocIds
      PROVE  ~LocksHoldings(s, a) /\ ~Funds(s, a)
  BY <1>0 DEF LocksHoldings, Funds, Submit, Job
<1>5. ~ReportsRejection(s)
  <2>1. ReportsRejection(s) => job'[s].step = "notify"
    BY <1>0 DEF ReportsRejection, GoTo, JobType
  <2> QED
    BY <2>1
<1>6. job'[s] # Idle
  BY DEF Idle
<1> QED
  BY <1>0, <1>1, <1>2, <1>3, <1>4, <1>5, <1>6, JobCases

\* Only Notify adds to the conversation.
LEMMA NoticeCases ==
  ASSUME Control, [WalletNext]_allVars, NEW n \in notices'
  PROVE  n \in notices \/ \E s \in Sessions : job[s].step = "notify" /\ n = NoticeOf(job[s])
<1>1. ASSUME NEW s \in Sessions
      PROVE  /\ \A d \in Deals, t \in Terms : CreateOffer(s, d, t) => UNCHANGED notices
             /\ \A c \in acs : Resumes(s, c) \/ Finds(s, c) \/ FindsEscrow(s, c) => UNCHANGED notices
             /\ \A c \in acs, op \in Actions : Chooses(s, op, c) => UNCHANGED notices
             /\ \A a \in AllocIds : LocksHoldings(s, a) \/ Funds(s, a) => UNCHANGED notices
             /\ GivesUp(s) \/ ReportsRejection(s) \/ Abandon(s) => UNCHANGED notices
  BY DEF CreateOffer, Resumes, Finds, FindsEscrow, Chooses, LocksHoldings, Funds, GivesUp,
         ReportsRejection, Abandon, Submit, GoTo
<1>2. ASSUME NEW s \in Sessions, Notify(s)
      PROVE  n \in notices \/ (job[s].step = "notify" /\ n = NoticeOf(job[s]))
  BY <1>2 DEF Notify, NoticeOf
<1>3. ASSUME NEW m \in inflight, Commit(m) \/ Fail(m)
      PROVE  UNCHANGED notices
  BY <1>3 DEF Commit, Fail
<1>4. UNCHANGED allVars \/ UNCHANGED clientVars => UNCHANGED notices
  BY DEF allVars, clientVars
<1>5. ClientTypes
  BY DEF Control
<1> QED
  BY <1>1, <1>2, <1>3, <1>4, <1>5, StepCases

LEMMA NoticeInductive ==
  ClientInv /\ FundingInv /\ NoticeInv /\ [WalletNext]_allVars => NoticeInv'
<1> SUFFICES ASSUME ClientInv, FundingInv, NoticeInv, [WalletNext]_allVars PROVE NoticeInv'
  OBVIOUS
<1>1. ASSUME NEW n \in notices'
      PROVE  NoticeTrue(n)'
  <2>1. NoticeTrue(n)
    BY NoticeCases DEF NoticeInv, ClientInv
  <2> QED
    BY <2>1, NoticeStays
<1>2. ASSUME NEW s \in Sessions, NEW n, job'[s].step = "notify", n = NoticeOf(job'[s])
      PROVE  NoticeTrue(n)'
  BY <1>2, NotifyingJobs
<1>3. ASSUME NEW s \in Sessions, NEW d, job'[s].step = "answered", job'[s].op = "reject",
             d = job'[s].deal
      PROVE  Rejected(d)'
  BY <1>3, RejectingJobs
<1> QED
  BY <1>1, <1>2, <1>3 DEF NoticeInv, NoticeOf

\* What the conversation says about a deal is true on the ledger, whichever tab
\* says it and however late: an accepted deal with a registry is funded, a
\* settled one is paid, a rejected one has no contract any more.
THEOREM NoticesStayTrue == WithWithdrawals => []NoticesAreTrue
<1>1. ClientInit => FundingInv /\ NoticeInv
  BY DEF ClientInit, Init, FundingInv, NoticeInv, Idle, FundingSteps
<1>2. NoticeInv => NoticesAreTrue
  BY DEF NoticeInv, NoticesAreTrue, NoticeTrue, Rejected
<1> QED
  BY <1>1, <1>2, ClientInvInit, ClientInvInductive, FundingInductive, NoticeInductive, PTL
  DEF WithWithdrawals

-----------------------------------------------------------------------------
\* Every stage is announced

\* The operation j will announce c, unless c is consumed before it looks.
Reports(j, c) ==
  /\ j.deal = c.deal
  /\ \/ j.step = "answered" /\ j.op # "reject" /\ To(j.op) = c.tpl
     \/ j.step = "notify" /\ j.on = c
     \/ j.step = "funded" /\ c.tpl = "DealEscrow"
     \/ j.step = "notify" /\ j.op = "accept" /\ c.tpl = "DealEscrow"

AnnounceInv ==
  lost = 0 =>
    /\ \A m \in inflight : m.sess # None
    /\ \A c \in acs :
         \/ \E s \in Sessions : Reports(job[s], c)
         \/ \E n \in notices : n.contract = c
         \/ c.tpl = "DealAgreement" /\ UsesEscrow(c.terms)
         \/ c.tpl = "DealEscrow" /\ \E n \in notices : n.deal = c.deal /\ n.action = "accept"

\* A tab that is about to announce something is not started or answered anew.
LEMMA ReportingMoves ==
  ASSUME Control, [WalletNext]_allVars, NEW s \in Sessions, NEW c, Reports(job[s], c)
  PROVE  \/ job'[s] = job[s]
         \/ GivesUp(s) \/ Notify(s) \/ Abandon(s)
         \/ \E e \in acs : Finds(s, e) \/ FindsEscrow(s, e)
<1> USE DEF Submit, GoTo
<1>0. /\ ClientTypes /\ job \in [Sessions -> JobType]
      /\ job[s].step \in {"answered", "notify", "funded"}
  BY DEF Control, ClientTypes, JobsTyped, Reports
<1>1. ASSUME NEW x \in Sessions
      PROVE  /\ \A d \in Deals, t \in Terms : CreateOffer(x, d, t) => job'[s] = job[s]
             /\ \A e \in acs, op \in Actions : Chooses(x, op, e) => job'[s] = job[s]
             /\ \A e \in acs : Resumes(x, e) => job'[s] = job[s]
             /\ \A a \in AllocIds : LocksHoldings(x, a) \/ Funds(x, a) => job'[s] = job[s]
  BY <1>0 DEF CreateOffer, Chooses, Resumes, LocksHoldings, Funds, Idle
<1>2. ASSUME NEW x \in Sessions
      PROVE  /\ GivesUp(x) \/ Notify(x) \/ Abandon(x) => job'[s] = job[s] \/ x = s
             /\ \A e \in acs : Finds(x, e) \/ FindsEscrow(x, e) => job'[s] = job[s] \/ x = s
             /\ ReportsRejection(x) => job'[s] = job[s]
  BY <1>0 DEF GivesUp, Notify, Abandon, Finds, FindsEscrow, ReportsRejection, Reports
<1>3. ASSUME NEW m \in inflight, Fail(m) \/ Commit(m)
      PROVE  job'[s] = job[s]
  <2>1. m.sess # s
    <3>1. m.sess = s => Serves(m, job[s]) /\ m \in SubmissionType
      BY SessionsAssumption DEF Control, ClientTypes, RestTyped, Awaited
    <3> QED
      BY <1>0, <3>1, ServedSteps
  <2> QED
    BY <1>0, <1>3, <2>1 DEF Fail, Commit
<1>4. UNCHANGED allVars \/ UNCHANGED clientVars => job'[s] = job[s]
  BY DEF allVars, clientVars
<1> HIDE DEF Submit, GoTo
<1> QED
  BY <1>0, <1>1, <1>2, <1>3, <1>4, StepCases

\* What is said of the stage c is in.
Told(c) ==
  \/ \E n \in notices : n.contract = c
  \/ c.tpl = "DealAgreement" /\ UsesEscrow(c.terms)
  \/ c.tpl = "DealEscrow" /\ \E n \in notices : n.deal = c.deal /\ n.action = "accept"

LEMMA NoticesGrow ==
  ASSUME Control, [WalletNext]_allVars
  PROVE  notices \subseteq notices' /\ (lost' = 0 => lost = 0 /\ \A s \in Sessions : ~Abandon(s))
<1> USE DEF Submit, GoTo
<1>0. ClientTypes /\ lost \in Nat
  BY ClockAssumption DEF Control, ClientTypes, RestTyped
<1>1. ASSUME NEW s \in Sessions
      PROVE  /\ \A d \in Deals, t \in Terms : CreateOffer(s, d, t) => UNCHANGED <<notices, lost>>
             /\ \A e \in acs : Resumes(s, e) \/ Finds(s, e) \/ FindsEscrow(s, e)
                                 => UNCHANGED <<notices, lost>>
             /\ \A e \in acs, op \in Actions : Chooses(s, op, e) => UNCHANGED <<notices, lost>>
             /\ \A a \in AllocIds : LocksHoldings(s, a) \/ Funds(s, a) => UNCHANGED <<notices, lost>>
             /\ GivesUp(s) \/ ReportsRejection(s) => UNCHANGED <<notices, lost>>
  BY DEF CreateOffer, Resumes, Finds, FindsEscrow, Chooses, LocksHoldings, Funds, GivesUp,
         ReportsRejection
<1>2. ASSUME NEW s \in Sessions
      PROVE  /\ Notify(s) => notices \subseteq notices' /\ lost' = lost
             /\ Abandon(s) => notices' = notices /\ lost' = lost + 1
  BY DEF Notify, Abandon
<1>3. \A s \in Sessions : Abandon(s) => lost' # 0
  BY <1>0, <1>2
<1>4. ASSUME NEW m \in inflight
      PROVE  /\ Commit(m) => UNCHANGED <<notices, lost>>
             /\ Fail(m) => notices' = notices
  BY DEF Commit, Fail
<1>5. UNCHANGED allVars \/ UNCHANGED clientVars => UNCHANGED <<notices, lost>>
  BY DEF allVars, clientVars
<1> HIDE DEF Submit, GoTo
<1>6. notices \subseteq notices' /\ (lost' = 0 => lost = 0)
  BY <1>0, <1>1, <1>2, <1>3, <1>4, <1>5, StepCases
<1> QED
  BY <1>3, <1>6

\* A tab that reports a stage still does after a step, or has told it.
LEMMA ReportsLast ==
  ASSUME ClientInv, [WalletNext]_allVars, lost' = 0,
         NEW c \in acs, NEW s \in Sessions, Reports(job[s], c)
  PROVE  Reports(job'[s], c) \/ Told(c)'
<1>0. /\ Control /\ job \in [Sessions -> JobType] /\ job[s] \in JobType
      /\ Busy(job[s]) /\ Holds(job[s]) /\ c.deal = job[s].deal
  BY DEF ClientInv, Control, ClientTypes, JobsTyped, Reports
<1>1. CASE job'[s] = job[s]
  BY <1>1 DEF Reports
<1>2. CASE GivesUp(s)
  BY <1>0, <1>2 DEF GivesUp, ActiveOf, Reports
<1>3. CASE Notify(s)
  <2>1. PICK n : n = NoticeOf(job[s])
    OBVIOUS
  <2>2. n \in notices' /\ job[s].step = "notify"
    BY <1>3, <2>1 DEF Notify, NoticeOf
  <2>3. n.deal = job[s].deal /\ n.action = job[s].op /\ n.contract = job[s].on
    BY <2>1 DEF NoticeOf
  <2>4. job[s].on = c \/ (job[s].op = "accept" /\ c.tpl = "DealEscrow")
    BY <2>2 DEF Reports
  <2> QED
    BY <1>0, <2>2, <2>3, <2>4 DEF Told
<1>4. ~Abandon(s)
  BY <1>0, NoticesGrow
<1>5. ASSUME NEW e \in acs, Finds(s, e)
      PROVE  Reports(job'[s], c) \/ Told(c)'
  <2>1. job[s].step = "answered" /\ e.deal = job[s].deal
    BY <1>5 DEF Finds
  <2>2. e = c
    BY <1>0, <2>1, DealFacts DEF OneActivePerDeal
  <2>3. /\ job'[s].deal = job[s].deal /\ job'[s].on = c
        /\ job'[s].step = IF job[s].op = "accept" /\ UsesEscrow(c.terms) THEN "escrow" ELSE "notify"
    BY <1>0, <1>5, <2>2 DEF Finds, GoTo, JobType
  <2>4. CASE job[s].op = "accept" /\ UsesEscrow(c.terms)
    <3>1. c.tpl = "DealAgreement"
      BY <1>5, <2>2, <2>4 DEF Finds, To
    <3> QED
      BY <2>4, <3>1 DEF Told
  <2>5. CASE ~(job[s].op = "accept" /\ UsesEscrow(c.terms))
    BY <1>0, <2>3, <2>5 DEF Reports
  <2> QED
    BY <2>4, <2>5
<1>6. ASSUME NEW e \in acs, FindsEscrow(s, e)
      PROVE  Reports(job'[s], c)
  <2>1. /\ job[s].step = "funded" /\ job[s].op = "accept" /\ c.tpl = "DealEscrow"
    BY <1>0, <1>6 DEF FindsEscrow, Holds, FundingSteps, Reports
  <2>2. job'[s].deal = job[s].deal /\ job'[s].op = job[s].op /\ job'[s].step = "notify"
    BY <1>0, <1>6 DEF FindsEscrow, GoTo, JobType
  <2> QED
    BY <1>0, <2>1, <2>2 DEF Reports
<1> QED
  BY <1>0, <1>1, <1>2, <1>3, <1>4, <1>5, <1>6, ReportingMoves

LEMMA AnnounceInductive == ClientInv /\ AnnounceInv /\ [WalletNext]_allVars => AnnounceInv'
<1> SUFFICES ASSUME ClientInv, AnnounceInv, [WalletNext]_allVars, lost' = 0
             PROVE  /\ \A m \in inflight' : m.sess # None
                    /\ \A c \in acs' : (\E s \in Sessions : Reports(job'[s], c)) \/ Told(c)'
  BY DEF AnnounceInv, Told, Reports
<1>0. /\ Control /\ lost = 0 /\ notices \subseteq notices' /\ \A s \in Sessions : ~Abandon(s)
      /\ job \in [Sessions -> JobType]
  BY NoticesGrow DEF ClientInv, Control, ClientTypes, JobsTyped
<1>1. /\ \A m \in inflight : m.sess # None
      /\ \A c \in acs : (\E s \in Sessions : Reports(job[s], c)) \/ Told(c)
  BY <1>0 DEF AnnounceInv, Told
<1>2. ASSUME NEW m \in inflight'
      PROVE  m.sess # None
  <2>1. ASSUME NEW s \in Sessions
        PROVE  /\ \A c, op : m = Submission(s, op, c, None, None) => m.sess = s
               /\ \A a, c, sp : m = Submission(s, "allocate", c, a, sp) => m.sess = s
               /\ \A a, c : m = Submission(s, "fund", c, a, None) => m.sess = s
    BY DEF Submission
  <2>2. ASSUME m.choice = "Create", m \notin inflight
        PROVE  m.sess # None
    <3>1. ASSUME NEW s \in Sessions, NEW d \in Deals, NEW t \in Terms, CreateOffer(s, d, t)
          PROVE  m.sess = s
      BY <2>2, <3>1 DEF CreateOffer, Submit, Submission
    <3>2. ASSUME NEW s \in Sessions, NEW a \in AllocIds
          PROVE  /\ ~LocksHoldings(s, a) /\ ~Funds(s, a)
      BY <2>2 DEF LocksHoldings, Funds, Submit, Submission
    <3>3. ASSUME NEW s \in Sessions, NEW c \in acs, NEW op \in Actions
          PROVE  ~Chooses(s, op, c)
      BY <2>2 DEF Chooses, Submit, Submission, Actions
    <3>4. ASSUME NEW s \in Sessions, NEW c \in acs
          PROVE  ~Resumes(s, c) /\ ~Finds(s, c) /\ ~FindsEscrow(s, c)
      BY <2>2 DEF Resumes, Finds, FindsEscrow, GoTo
    <3>5. ASSUME NEW s \in Sessions
          PROVE  ~GivesUp(s) /\ ~ReportsRejection(s) /\ ~Notify(s)
      BY <2>2 DEF GivesUp, ReportsRejection, Notify, GoTo
    <3>6. ASSUME NEW x \in inflight
          PROVE  ~Commit(x) /\ ~Fail(x)
      BY <2>2 DEF Commit, Fail
    <3>7. ~ UNCHANGED allVars /\ ~ UNCHANGED clientVars
      BY <2>2 DEF allVars, clientVars
    <3>8. ClientTypes
      BY <1>0 DEF Control
    <3>9. \E s \in Sessions, d \in Deals, t \in Terms : CreateOffer(s, d, t)
      BY <1>0, <3>2, <3>3, <3>4, <3>5, <3>6, <3>7, <3>8, StepCases
    <3> QED
      BY <3>1, <3>9, SessionsAssumption
  <2> QED
    BY <1>0, <1>1, <2>1, <2>2, SubmissionCases, SessionsAssumption
<1>3. ASSUME NEW c \in acs', c \in acs
      PROVE  (\E s \in Sessions : Reports(job'[s], c)) \/ Told(c)'
  <2>1. CASE Told(c)
    BY <1>0, <2>1 DEF Told
  <2>2. CASE \E s \in Sessions : Reports(job[s], c)
    BY <1>3, <2>2, ReportsLast
  <2> QED
    BY <1>1, <1>3, <2>1, <2>2
<1>4. ASSUME NEW c \in acs', c \notin acs
      PROVE  \E s \in Sessions : Reports(job'[s], c)
  <2>1. PICK m \in inflight :
           /\ Commit(m)
           /\ \/ m.choice = "Create" /\ c.tpl = "DealProposal" /\ c.deal = m.on
              \/ m.choice = "fund" /\ c.tpl = "DealEscrow" /\ c.deal = m.on.deal
              \/ /\ m.choice \in Actions \ {"reject"}
                 /\ c.tpl = To(m.choice) /\ c.deal = m.on.deal
    BY <1>0, <1>4, NewContracts
  <2>2. m.sess # None /\ Serves(m, job[m.sess]) /\ m \in SubmissionType
    BY <1>0, <1>1 DEF Control, ClientTypes, RestTyped, Awaited
  <2>3. /\ m.sess \in Sessions
        /\ job' = [job EXCEPT ![m.sess] = [job[m.sess] EXCEPT !.step = NextStep(job[m.sess].step)]]
        /\ m.choice = "fund" => NextStep(job[m.sess].step) = "funded"
        /\ m.choice \notin {"allocate", "fund"} => NextStep(job[m.sess].step) = "answered"
    BY <1>0, <2>1, <2>2, CommittedJob
  <2>4. /\ job'[m.sess].deal = job[m.sess].deal /\ job'[m.sess].op = job[m.sess].op
        /\ job'[m.sess].step = NextStep(job[m.sess].step)
    BY <1>0, <2>3 DEF JobType
  <2>5. CASE m.choice = "Create" /\ c.tpl = "DealProposal" /\ c.deal = m.on
    BY <2>2, <2>3, <2>4, <2>5 DEF Serves, Reports, To
  <2>6. CASE m.choice = "fund" /\ c.tpl = "DealEscrow" /\ c.deal = m.on.deal
    BY <2>2, <2>3, <2>4, <2>6 DEF Serves, Reports
  <2>7. CASE m.choice \in Actions \ {"reject"} /\ c.tpl = To(m.choice) /\ c.deal = m.on.deal
    <3>1. m.choice \notin {"Create", "allocate", "fund"}
      BY <2>7 DEF Actions
    <3> QED
      BY <2>2, <2>3, <2>4, <2>7, <3>1 DEF Serves, Reports
  <2> QED
    BY <2>1, <2>5, <2>6, <2>7
<1> QED
  BY <1>2, <1>3, <1>4

\* When nothing was lost, no deal stands at a stage that nobody has announced or
\* is about to announce, whatever tabs work on it at the same time, except an
\* agreement that still waits for its funding.
THEOREM StagesAreAnnounced == WithWithdrawals => []StageAnnounced
<1>1. ClientInit => AnnounceInv
  BY DEF ClientInit, Init, AnnounceInv
<1>2. AnnounceInv => StageAnnounced
  BY DEF AnnounceInv, StageAnnounced, Reports
<1> QED
  BY <1>1, <1>2, ClientInvInit, ClientInvInductive, AnnounceInductive, PTL DEF WithWithdrawals

-----------------------------------------------------------------------------
\* How much a payer locks

\* The tab with job j may still lock holdings for the deal d, or is locking them.
Engaged(j, d) == j.deal = d /\ j.step \in {"escrow", "allocating"}

\* Past its first delivery a deal has no agreement any more to fund.
LEMMA DeliveredForGood ==
  ASSUME ClientInv, NEW c \in History, NEW x \in acs, x.deal = c.deal,
         c.tpl \in {"DealFulfillment", "FulfillmentApproval"}
  PROVE  x.tpl # "DealAgreement"
<1>1. c \in Contract /\ x \in Contract
  BY DEF ClientInv, Control, ClientTypes, TypeInv, TypeOK, History
<1>2. c.round \in Nat
  BY <1>1, BoundsAssumption DEF Contract
<1>3. CASE c \in acs
  BY <1>3, DealFacts DEF OneActivePerDeal
<1>4. CASE c \in archived
  <2>1. Stage(c) < Stage(x)
    BY <1>4, DealFacts DEF DealBehind
  <2>2. Stage(c) \in Nat /\ Stage(c) >= 3
    BY <1>2 DEF Stage
  <2> QED
    BY <2>1, <2>2 DEF Stage
<1> QED
  BY <1>3, <1>4 DEF History

\* A tab engages in a deal by reading its agreement.
LEMMA EngagedMoves ==
  ASSUME Control, [WalletNext]_allVars, NEW s \in Sessions, NEW d, Engaged(job'[s], d)
  PROVE  Engaged(job[s], d) \/ \E c \in acs : c.tpl = "DealAgreement" /\ c.deal = d
<1>0. job \in [Sessions -> JobType] /\ job[s] \in JobType
  BY DEF Control, ClientTypes, JobsTyped
<1>1. ASSUME NEW c \in acs, Resumes(s, c)
      PROVE  c.tpl = "DealAgreement" /\ c.deal = d
  BY <1>0, <1>1 DEF Resumes, GoTo, Job, Engaged
<1>2. ASSUME NEW a \in AllocIds, LocksHoldings(s, a) \/ Funds(s, a)
      PROVE  Engaged(job[s], d)
  <2>1. LocksHoldings(s, a) => job[s].step = "escrow" /\ job'[s].deal = job[s].deal
    BY <1>0 DEF LocksHoldings, Submit, Job
  <2>2. Funds(s, a) => job'[s].step = "funding"
    BY <1>0 DEF Funds, Submit, Job
  <2> QED
    BY <1>2, <2>1, <2>2 DEF Engaged
<1>3. ASSUME NEW c \in acs, Finds(s, c)
      PROVE  c.tpl = "DealAgreement" /\ c.deal = d
  <2>1. /\ job'[s].deal = job[s].deal /\ c.deal = job[s].deal /\ c.tpl = To(job[s].op)
        /\ job'[s].step = IF job[s].op = "accept" /\ UsesEscrow(c.terms) THEN "escrow" ELSE "notify"
    BY <1>0, <1>3 DEF Finds, GoTo, JobType
  <2> QED
    BY <2>1 DEF Engaged, To
<1>4. ~ReportsRejection(s)
  <2>1. ReportsRejection(s) => job'[s].step = "notify"
    BY <1>0 DEF ReportsRejection, GoTo, JobType
  <2> QED
    BY <2>1 DEF Engaged
<1>5. ASSUME NEW c \in acs
      PROVE  ~FindsEscrow(s, c)
  <2>1. FindsEscrow(s, c) => job'[s].step = "notify"
    BY <1>0 DEF FindsEscrow, GoTo, JobType
  <2> QED
    BY <2>1 DEF Engaged
<1>6. ASSUME NEW m \in inflight, Commit(m), m.sess = s
      PROVE  FALSE
  <2>1. m.sess # None
    BY <1>6, SessionsAssumption
  <2>2. job'[s].step = NextStep(job[s].step)
    <3>1. job'[s] = [job[s] EXCEPT !.step = NextStep(job[s].step)]
      BY <1>0, <1>6, <2>1, CommittedJob
    <3> QED
      BY <1>0, <3>1 DEF JobType
  <2> QED
    BY <1>6, <2>1, <2>2, CommittedJob DEF Engaged
<1>7. job'[s] # Idle /\ job'[s].step # "waiting"
  BY DEF Idle, Engaged
<1> QED
  BY <1>1, <1>2, <1>3, <1>4, <1>5, <1>6, <1>7, JobCases DEF Engaged

\* Only the payer's tabs allocate.
LEMMA AllocatingMoves ==
  ASSUME Control, [WalletNext]_allVars, NEW s \in Sessions, job'[s].step = "allocating"
  PROVE  /\ job'[s].on = job[s].on
         /\ job[s].step = "allocating" \/ PartyOf[s] = job[s].on.terms.reviewer
<1>0. job \in [Sessions -> JobType] /\ job[s] \in JobType
  BY DEF Control, ClientTypes, JobsTyped
<1>1. ASSUME NEW a \in AllocIds, LocksHoldings(s, a)
      PROVE  job'[s].on = job[s].on /\ PartyOf[s] = job[s].on.terms.reviewer
  BY <1>0, <1>1 DEF LocksHoldings, CanAllocate, Submit, Job
<1>2. ASSUME NEW a \in AllocIds, Funds(s, a)
      PROVE  FALSE
  BY <1>0, <1>2 DEF Funds, Submit, Job
<1>3. ASSUME NEW c \in acs
      PROVE  ~Resumes(s, c) /\ ~Finds(s, c) /\ ~FindsEscrow(s, c)
  <2>1. Resumes(s, c) => job'[s].step \in {"escrow", "notify"}
    BY <1>0 DEF Resumes, GoTo, Job
  <2>2. Finds(s, c) => job'[s].step \in {"escrow", "notify"}
    BY <1>0 DEF Finds, GoTo, JobType
  <2>3. FindsEscrow(s, c) => job'[s].step = "notify"
    BY <1>0 DEF FindsEscrow, GoTo, JobType
  <2> QED
    BY <2>1, <2>2, <2>3
<1>4. ~ReportsRejection(s)
  <2>1. ReportsRejection(s) => job'[s].step = "notify"
    BY <1>0 DEF ReportsRejection, GoTo, JobType
  <2> QED
    BY <2>1
<1>5. ASSUME NEW m \in inflight, Commit(m), m.sess = s
      PROVE  FALSE
  <2>1. m.sess # None
    BY <1>5, SessionsAssumption
  <2>2. job'[s].step = NextStep(job[s].step)
    <3>1. job'[s] = [job[s] EXCEPT !.step = NextStep(job[s].step)]
      BY <1>0, <1>5, <2>1, CommittedJob
    <3> QED
      BY <1>0, <3>1 DEF JobType
  <2> QED
    BY <1>5, <2>1, <2>2, CommittedJob
<1>6. job'[s] # Idle
  BY DEF Idle
<1> QED
  BY <1>1, <1>2, <1>3, <1>4, <1>5, <1>6, JobCases

\* Who approved a delivery, or asked to, is a tab of the payer's that does not
\* fund that deal any more.
HasReviewer(p, d) == \E b \in Sessions : PartyOf[b] = p /\ ~Engaged(job[b], d)

ReviewInv ==
  /\ \A s \in Sessions :
       job[s].step = "allocating" => PartyOf[s] = job[s].on.terms.reviewer
  /\ \A c \in History :
       c.tpl = "FulfillmentApproval" => HasReviewer(c.terms.reviewer, c.deal)
  /\ \A m \in inflight : m.choice = "approve_fulfillment" =>
       /\ m.on \in History /\ m.on.tpl = "DealFulfillment"
       /\ HasReviewer(m.by, m.on.deal)

LEMMA ReviewerStays ==
  ASSUME ClientInv, [WalletNext]_allVars, NEW p, NEW d, HasReviewer(p, d),
         NEW c \in History, c.deal = d, c.tpl \in {"DealFulfillment", "FulfillmentApproval"}
  PROVE  HasReviewer(p, d)'
<1>1. PICK b \in Sessions : PartyOf[b] = p /\ ~Engaged(job[b], d)
  BY DEF HasReviewer
<1>2. ~Engaged(job'[b], d)
  BY <1>1, EngagedMoves, DeliveredForGood DEF ClientInv
<1>3. ~Engaged(job[b], d)'
  BY <1>2 DEF Engaged
<1> QED
  BY <1>1, <1>3 DEF HasReviewer

\* An approval is new only when an Approve of the reviewer commits.
LEMMA NewApproval ==
  ASSUME Control, [WalletNext]_allVars, NEW c \in History', c \notin History,
         c.tpl = "FulfillmentApproval"
  PROVE  \E m \in inflight : /\ m.choice = "approve_fulfillment"
                             /\ c.deal = m.on.deal /\ c.terms = m.on.terms
                             /\ m.by = m.on.terms.reviewer
<1>0. TypeInv /\ [Next]_vars /\ acs \subseteq Contract
  BY ClientKeepsLedger DEF Control, ClientTypes, TypeInv, TypeOK
<1>1. archived' \subseteq History
  <2>1. ASSUME NEW p \in Parties, NEW e \in acs, Choice(p, e)
        PROVE  archived' \subseteq History
    BY <1>0, <2>1, ChoiceShape DEF Consume, History
  <2> QED
    BY <1>0, <2>1, OtherSteps DEF History
<1>2. c \in acs' /\ c \notin acs
  BY <1>1 DEF History
<1>3. PICK m \in inflight :
           /\ Commit(m)
           /\ \/ m.choice = "Create" /\ c.tpl = "DealProposal" /\ c.deal = m.on
              \/ m.choice = "fund" /\ c.tpl = "DealEscrow" /\ c.deal = m.on.deal
              \/ /\ m.choice \in Actions \ {"reject"}
                 /\ c.tpl = To(m.choice) /\ c.deal = m.on.deal
  BY <1>2, NewContracts
<1>4. m.choice = "approve_fulfillment"
  BY <1>3 DEF To, Actions
<1>5. Approve(m.by, m.on)
  BY <1>3, <1>4 DEF Commit, Apply
<1>6. m.on \in Contract /\ c = Successor(m.on, "FulfillmentApproval") /\ m.by = m.on.terms.reviewer
  BY <1>0, <1>2, <1>5 DEF Approve, Consume
<1> QED
  BY <1>4, <1>6, SuccessorType DEF Templates

LEMMA ReviewInductive == ClientInv /\ ReviewInv /\ [WalletNext]_allVars => ReviewInv'
<1> SUFFICES ASSUME ClientInv, ReviewInv, [WalletNext]_allVars PROVE ReviewInv'
  OBVIOUS
<1>0. /\ Control /\ History \subseteq History' /\ acs \subseteq History
      /\ job \in [Sessions -> JobType]
  BY LedgerKeeps DEF ClientInv, Control, ClientTypes, JobsTyped, History
<1>1. ASSUME NEW s \in Sessions, job'[s].step = "allocating"
      PROVE  PartyOf[s] = job'[s].on.terms.reviewer
  BY <1>0, <1>1, AllocatingMoves DEF ReviewInv
<1>2. ASSUME NEW c \in History', c.tpl = "FulfillmentApproval"
      PROVE  HasReviewer(c.terms.reviewer, c.deal)'
  <2>1. CASE c \in History
    <3>1. PICK p, d : p = c.terms.reviewer /\ d = c.deal
      OBVIOUS
    <3>2. HasReviewer(p, d)'
      BY <1>2, <2>1, <3>1, ReviewerStays DEF ReviewInv
    <3> QED
      BY <3>1, <3>2
  <2>2. CASE c \notin History
    <3>1. PICK m \in inflight : /\ m.choice = "approve_fulfillment"
                                /\ c.deal = m.on.deal /\ c.terms = m.on.terms
                                /\ m.by = m.on.terms.reviewer
      BY <1>0, <1>2, <2>2, NewApproval
    <3>2. /\ m.on \in History /\ m.on.tpl = "DealFulfillment"
          /\ HasReviewer(c.terms.reviewer, c.deal)
      BY <3>1 DEF ReviewInv
    <3>3. PICK p, d : p = c.terms.reviewer /\ d = c.deal
      OBVIOUS
    <3>4. HasReviewer(p, d)'
      BY <3>1, <3>2, <3>3, ReviewerStays
    <3> QED
      BY <3>3, <3>4
  <2> QED
    BY <2>1, <2>2
<1>3. ASSUME NEW m \in inflight', m.choice = "approve_fulfillment"
      PROVE  /\ m.on \in History' /\ m.on.tpl = "DealFulfillment"
             /\ HasReviewer(m.by, m.on.deal)'
  <2>1. ASSUME NEW x \in inflight, x.choice = m.choice, x.on = m.on, x.by = m.by
        PROVE  /\ m.on \in History' /\ m.on.tpl = "DealFulfillment"
               /\ HasReviewer(m.by, m.on.deal)'
    <3>1. /\ m.on \in History /\ m.on.tpl = "DealFulfillment"
          /\ HasReviewer(m.by, m.on.deal)
      BY <1>3, <2>1 DEF ReviewInv
    <3>2. PICK p, d : p = m.by /\ d = m.on.deal
      OBVIOUS
    <3>3. HasReviewer(p, d)'
      BY <3>1, <3>2, ReviewerStays
    <3> QED
      BY <1>0, <3>1, <3>2, <3>3
  <2>2. ASSUME NEW s \in Sessions, NEW c \in acs, NEW op \in Actions,
               Chooses(s, op, c), m = Submission(s, op, c, None, None)
        PROVE  /\ m.on \in History' /\ m.on.tpl = "DealFulfillment"
               /\ HasReviewer(m.by, m.on.deal)'
    <3>1. m.choice = op /\ m.on = c /\ m.by = PartyOf[s]
      BY <2>2 DEF Submission
    <3>2. c.tpl = "DealFulfillment" /\ job'[s] = Job(op, c.deal, "waiting", c)
      BY <1>0, <1>3, <2>2, <3>1 DEF Chooses, Submit
    <3>3. PICK p, d : p = m.by /\ d = m.on.deal
      OBVIOUS
    <3>4. ~Engaged(job'[s], d)
      BY <3>2 DEF Engaged, Job
    <3>5. HasReviewer(p, d)'
      BY <3>1, <3>3, <3>4 DEF HasReviewer, Engaged
    <3> QED
      BY <1>0, <3>1, <3>2, <3>3, <3>5
  <2>3. ASSUME NEW x \in inflight, m = Orphan(x)
        PROVE  x.choice = m.choice /\ x.on = m.on /\ x.by = m.by
    BY <1>0, <2>3, OrphanFields DEF Control, ClientTypes, RestTyped
  <2>4. ASSUME NEW s \in Sessions, NEW a \in AllocIds
        PROVE  /\ m # Submission(s, "allocate", job[s].on, a,
                                 WalletSpec(job[s].deal, job[s].on.terms))
               /\ m # Submission(s, "fund", job[s].on, a, None)
    BY <1>3 DEF Submission
  <2>5. m.choice # "Create"
    BY <1>3
  <2> QED
    BY <1>0, <2>1, <2>2, <2>3, <2>4, <2>5, SubmissionCases
<1> QED
  BY <1>1, <1>2, <1>3 DEF ReviewInv

Requesting(m, d) == m.choice = "allocate" /\ m.data.deal = d

\* Requests nobody waits for any more, and the tabs that wait for theirs.
Orphans(d) == {m \in inflight : Requesting(m, d) /\ m.sess = None}

Lockers(d) == {s \in Sessions : job[s].step = "allocating" /\ job[s].deal = d}

OrphansInv ==
  \A d \in Deals : IsFiniteSet(Orphans(d)) /\ Cardinality(Orphans(d)) <= abandoned[d]

LEMMA OneMore ==
  ASSUME NEW S, IsFiniteSet(S), NEW x
  PROVE  /\ IsFiniteSet(S \cup {x})
         /\ Cardinality(S) \in Nat /\ Cardinality(S \cup {x}) \in Nat
         /\ Cardinality(S \cup {x}) <= Cardinality(S) + 1
<1>1. PICK T : T = S \cup {x}
  OBVIOUS
<1>2. IsFiniteSet(T)
  BY <1>1, FS_AddElement
<1>3. Cardinality(T) = IF x \in S THEN Cardinality(S) ELSE Cardinality(S) + 1
  BY <1>1, FS_AddElement
<1>4. Cardinality(S) \in Nat /\ Cardinality(T) \in Nat
  BY <1>2, FS_CardinalityType
<1>5. Cardinality(T) <= Cardinality(S) + 1
  BY <1>3, <1>4
<1> QED
  BY <1>1, <1>2, <1>4, <1>5

\* As many together as apart, or fewer.
LEMMA UnionBound ==
  ASSUME NEW S, IsFiniteSet(S), NEW T, IsFiniteSet(T)
  PROVE  /\ IsFiniteSet(S \cup T)
         /\ Cardinality(S) \in Nat /\ Cardinality(T) \in Nat /\ Cardinality(S \cup T) \in Nat
         /\ Cardinality(S \cup T) <= Cardinality(S) + Cardinality(T)
<1>1. PICK U, V : U = S \cup T /\ V = S \cap T
  OBVIOUS
<1>2. IsFiniteSet(U) /\ IsFiniteSet(V)
  BY <1>1, FS_Union, FS_Intersection
<1>3. Cardinality(U) = Cardinality(S) + Cardinality(T) - Cardinality(V)
  BY <1>1, FS_Union
<1>4. /\ Cardinality(S) \in Nat /\ Cardinality(T) \in Nat
      /\ Cardinality(U) \in Nat /\ Cardinality(V) \in Nat
  BY <1>2, FS_CardinalityType
<1>5. Cardinality(U) <= Cardinality(S) + Cardinality(T)
  BY <1>3, <1>4
<1> QED
  BY <1>1, <1>2, <1>4, <1>5

\* No more requests than allocations named by them, and none more than tabs.
LEMMA NamesBound ==
  ASSUME NEW S, IsFiniteSet(S)
  PROVE  /\ IsFiniteSet({m.alloc : m \in S})
         /\ Cardinality({m.alloc : m \in S}) \in Nat
         /\ Cardinality({m.alloc : m \in S}) <= Cardinality(S)
<1>1. PICK T : T = {m.alloc : m \in S}
  OBVIOUS
<1>2. PICK f : f = [m \in S |-> m.alloc]
  OBVIOUS
<1>3. f \in Surjection(S, T)
  BY <1>1, <1>2 DEF Surjection
<1>4. IsFiniteSet(T) /\ Cardinality(T) <= Cardinality(S)
  BY <1>3, FS_Surjection
<1>5. Cardinality(T) \in Nat
  BY <1>4, FS_CardinalityType
<1> QED
  BY <1>1, <1>4, <1>5

LEMMA TabsBound ==
  ASSUME NEW S, NEW T, IsFiniteSet(T),
         \A m \in S : m.sess \in T,
         \A m1, m2 \in S : m1.sess = m2.sess => m1 = m2
  PROVE  IsFiniteSet(S) /\ Cardinality(S) <= Cardinality(T)
<1>1. PICK f : f = [m \in S |-> m.sess]
  OBVIOUS
<1>2. f \in Injection(S, T)
  BY <1>1 DEF Injection, IsInjective
<1> QED
  BY <1>2, FS_Injection

LEMMA AbandonedCases ==
  ASSUME Control, [WalletNext]_allVars
  PROVE  UNCHANGED abandoned \/ \E s \in Sessions : Abandon(s)
<1>1. ASSUME NEW s \in Sessions
      PROVE  /\ \A d \in Deals, t \in Terms : CreateOffer(s, d, t) => UNCHANGED abandoned
             /\ \A e \in acs : Resumes(s, e) \/ Finds(s, e) \/ FindsEscrow(s, e)
                                 => UNCHANGED abandoned
             /\ \A e \in acs, op \in Actions : Chooses(s, op, e) => UNCHANGED abandoned
             /\ \A a \in AllocIds : LocksHoldings(s, a) \/ Funds(s, a) => UNCHANGED abandoned
             /\ GivesUp(s) \/ ReportsRejection(s) \/ Notify(s) => UNCHANGED abandoned
  BY DEF CreateOffer, Resumes, Finds, FindsEscrow, Chooses, LocksHoldings, Funds, GivesUp,
         ReportsRejection, Notify, Submit, GoTo
<1>2. ASSUME NEW m \in inflight, Commit(m) \/ Fail(m)
      PROVE  UNCHANGED abandoned
  BY <1>2 DEF Commit, Fail
<1>3. UNCHANGED allVars \/ UNCHANGED clientVars => UNCHANGED abandoned
  BY DEF allVars, clientVars
<1>4. ClientTypes
  BY DEF Control
<1> QED
  BY <1>1, <1>2, <1>3, <1>4, StepCases

\* The bound of a deal never falls, and rises with a request that is abandoned.
LEMMA AbandonedGrows ==
  ASSUME Control, [WalletNext]_allVars, NEW d \in Deals
  PROVE  /\ abandoned[d] \in Nat /\ abandoned'[d] \in Nat /\ abandoned[d] <= abandoned'[d]
         /\ \A s \in Sessions :
              Abandon(s) /\ job[s].step = "allocating" /\ job[s].deal = d =>
                abandoned'[d] = abandoned[d] + 1
<1>1. abandoned \in [Deals -> Nat]
  BY DEF Control, ClientTypes, RestTyped
<1>2. ASSUME NEW s \in Sessions, Abandon(s)
      PROVE  \/ abandoned' = abandoned
             \/ job[s].deal \in Deals /\ abandoned' = [abandoned EXCEPT ![job[s].deal] = @ + 1]
  BY <1>2 DEF Abandon, Control, ClientTypes, JobsTyped, Busy
<1>3. ASSUME NEW s \in Sessions, Abandon(s), job[s].step = "allocating", job[s].deal = d
      PROVE  abandoned'[d] = abandoned[d] + 1
  BY <1>1, <1>3 DEF Abandon
<1>4. abandoned'[d] \in Nat /\ abandoned[d] <= abandoned'[d]
  BY <1>1, <1>2, AbandonedCases
<1> QED
  BY <1>1, <1>3, <1>4

\* The request a tab waits for is made for the deal it works on.
LEMMA ServedRequest ==
  ASSUME ClientInv, FundingInv, NEW m \in inflight, m.choice = "allocate", m.sess # None
  PROVE  /\ m.sess \in Sessions
         /\ job[m.sess].step = "allocating" /\ job[m.sess].deal = m.data.deal
<1>1. m \in SubmissionType /\ Serves(m, job[m.sess])
  BY DEF ClientInv, Control, ClientTypes, RestTyped, Awaited
<1>2. m.data.deal = m.on.deal
  BY DEF FundingInv, Requested, SpecFits
<1> QED
  BY <1>1, <1>2 DEF Serves, SubmissionType

LEMMA OrphansInductive == ClientInv /\ FundingInv /\ OrphansInv /\ [WalletNext]_allVars => OrphansInv'
<1> SUFFICES ASSUME ClientInv, FundingInv, OrphansInv, [WalletNext]_allVars, NEW d \in Deals
             PROVE  /\ IsFiniteSet(Orphans(d)') /\ Cardinality(Orphans(d)') <= abandoned'[d]
  BY DEF OrphansInv
<1>0. /\ Control /\ IsFiniteSet(Orphans(d)) /\ Cardinality(Orphans(d)) \in Nat
      /\ Cardinality(Orphans(d)) <= abandoned[d]
      /\ inflight \subseteq SubmissionType
  BY FS_CardinalityType DEF OrphansInv, ClientInv, Control, ClientTypes, RestTyped
<1>1. abandoned[d] \in Nat /\ abandoned'[d] \in Nat /\ abandoned[d] <= abandoned'[d]
  BY <1>0, AbandonedGrows
<1>2. ASSUME NEW m \in Orphans(d)'
      PROVE  \/ m \in Orphans(d)
             \/ \E x \in inflight, s \in Sessions :
                  /\ Abandon(s) /\ x.sess = s /\ m = Orphan(x)
                  /\ Requesting(x, d)
  <2>1. m \in inflight' /\ Requesting(m, d) /\ m.sess = None
    BY DEF Orphans, Requesting
  <2>2. ASSUME NEW x \in inflight, m = Orphan(x)
        PROVE  Requesting(x, d)
    BY <1>0, <2>1, <2>2, OrphanFields DEF Requesting
  <2>3. ASSUME NEW s \in Sessions
        PROVE  /\ \A c, op : m # Submission(s, op, c, None, None)
               /\ \A c, a, sp : m # Submission(s, "allocate", c, a, sp)
               /\ \A c, a : m # Submission(s, "fund", c, a, None)
    BY <2>1, SessionsAssumption DEF Submission
  <2>4. m.choice # "Create"
    BY <2>1 DEF Requesting
  <2> QED
    BY <1>0, <2>1, <2>2, <2>3, <2>4, SubmissionCases DEF Orphans
<1>3. CASE Orphans(d)' \subseteq Orphans(d)
  <2>1. IsFiniteSet(Orphans(d)') /\ Cardinality(Orphans(d)') <= Cardinality(Orphans(d))
    BY <1>0, <1>3, FS_Subset
  <2>2. Cardinality(Orphans(d)') \in Nat
    BY <2>1, FS_CardinalityType
  <2> QED
    BY <1>0, <1>1, <2>1, <2>2
<1>4. CASE ~(Orphans(d)' \subseteq Orphans(d))
  <2>1. PICK x \in inflight, s \in Sessions :
           /\ Abandon(s) /\ x.sess = s /\ Requesting(x, d)
    BY <1>2, <1>4
  <2>2. /\ job[s].step = "allocating" /\ job[s].deal = d
    BY <2>1, SessionsAssumption, ServedRequest DEF Requesting
  <2>3. abandoned'[d] = abandoned[d] + 1
    BY <1>0, <2>1, <2>2, AbandonedGrows
  <2>4. ASSUME NEW y \in inflight, NEW r \in Sessions, Abandon(r), y.sess = r, Requesting(y, d)
        PROVE  y = x
    <3>1. job[r].step = "allocating" /\ job'[r] = Idle
      BY <2>4, SessionsAssumption, ServedRequest
      DEF Requesting, Abandon, ClientInv, Control, ClientTypes, JobsTyped
    <3>2. r = s
      BY <2>1, <3>1 DEF Abandon, Idle, ClientInv, Control, ClientTypes, JobsTyped
    <3> QED
      BY <1>0, <2>1, <2>4, <3>2, SessionsAssumption DEF Control, Awaited
  <2>5. Orphans(d)' \subseteq Orphans(d) \cup {Orphan(x)}
    BY <1>2, <2>4
  <2>6. /\ IsFiniteSet(Orphans(d) \cup {Orphan(x)})
        /\ Cardinality(Orphans(d) \cup {Orphan(x)}) \in Nat
        /\ Cardinality(Orphans(d) \cup {Orphan(x)}) <= Cardinality(Orphans(d)) + 1
    BY <1>0, OneMore
  <2>7. /\ IsFiniteSet(Orphans(d)')
        /\ Cardinality(Orphans(d)') <= Cardinality(Orphans(d) \cup {Orphan(x)})
    BY <2>5, <2>6, FS_Subset
  <2>8. Cardinality(Orphans(d)') \in Nat
    BY <2>7, FS_CardinalityType
  <2> QED
    BY <1>0, <1>1, <2>3, <2>6, <2>7, <2>8
<1> QED
  BY <1>3, <1>4

\* The allocations of a deal that paid, and the tabs' requests for it.
PaidFor(d) == {a \in AllocIds : allocState[a] = "executed" /\ allocSpec[a].deal = d}

Served(d) == {m \in inflight : Requesting(m, d) /\ m.sess # None}

NoneLive(d) == \A a \in AllocIds : ~(allocState[a] = "live" /\ allocSpec[a].deal = d)

Bounded(d) ==
  /\ IsFiniteSet(Locks(d))
  /\ Cardinality(Locks(d)) <= Cardinality(PayerTabs(d)) + abandoned[d]

LockersInv == ClientInv /\ FundingInv /\ ReviewInv /\ OrphansInv

\* The tabs that wait for a request act for the payer.
LEMMA LockersPay ==
  ASSUME LockersInv, NEW d, NEW s \in Lockers(d)
  PROVE  s \in PayerTabs(d)
<1>1. s \in Sessions /\ job[s].step = "allocating" /\ job[s].deal = d
  BY DEF Lockers
<1>2. Holds(job[s])
  BY <1>1 DEF LockersInv, ClientInv, Control, ClientTypes, JobsTyped
<1>3. job[s].on \in History /\ job[s].on.deal = d
  BY <1>1, <1>2 DEF LockersInv, FundingInv, FundingSteps, Holds
<1>4. PartyOf[s] = job[s].on.terms.reviewer
  BY <1>1 DEF LockersInv, ReviewInv
<1> QED
  BY <1>1, <1>3, <1>4 DEF PayerTabs

\* Once a deal was paid, one tab of the payer's does not wait for a request:
\* the one that approved the delivery.
LEMMA ApproverPays ==
  ASSUME LockersInv, NEW d, NEW a \in PaidFor(d)
  PROVE  \E b \in PayerTabs(d) : b \notin Lockers(d)
<1>1. a \in AllocIds /\ allocState[a] = "executed" /\ allocSpec[a].deal = d
  BY DEF PaidFor
<1>2. /\ PaidExactlyWhenApproved /\ EscrowBacked /\ acs \subseteq Contract
  BY DEF LockersInv, ClientInv, LedgerInv, PromiseInv, PayInv, EscrowShape, TypeInv, TypeOK
<1>10. \A c \in History : FromOffer(c)
  BY DEF LockersInv, ClientInv, LedgerInv, Pristine
<1>3. PICK c \in acs : c.alloc = a /\ Successor(c, "FulfillmentApproval") \in archived
  BY <1>1, <1>2 DEF PaidExactlyWhenApproved
<1>4. c \in History /\ c.alloc # None
  BY <1>1, <1>3, NoneAssumption DEF History
<1>5. c.deal = d
  BY <1>1, <1>2, <1>3, <1>4, <1>10 DEF EscrowBacked, SpecFits
<1>6. PICK e : e = Successor(c, "FulfillmentApproval")
  OBVIOUS
<1>7. e \in History /\ e.tpl = "FulfillmentApproval" /\ e.deal = d
  BY <1>2, <1>3, <1>5, <1>6, SuccessorType DEF History, Templates
<1>8. HasReviewer(e.terms.reviewer, d)
  BY <1>7 DEF LockersInv, ReviewInv
<1>9. PICK b \in Sessions : PartyOf[b] = e.terms.reviewer /\ ~Engaged(job[b], d)
  BY <1>8 DEF HasReviewer
<1> QED
  BY <1>7, <1>9 DEF PayerTabs, Lockers, Engaged

\* With no live allocation of a deal, what is locked for it is the one that paid
\* it, the requests of the payer's tabs, and those nobody waits for.
LEMMA LocksCounted ==
  ASSUME LockersInv, NEW d \in Deals, NoneLive(d)
  PROVE  Bounded(d)
<1>0. /\ ClientInv /\ FundingInv /\ ReviewInv /\ OrphansInv
      /\ IsFiniteSet(Lockers(d)) /\ IsFiniteSet(PayerTabs(d))
  BY SessionsAssumption, FS_Subset DEF LockersInv, Lockers, PayerTabs
<1>1. abandoned[d] \in Nat
  BY <1>0 DEF ClientInv, Control, ClientTypes, RestTyped
<1>2. IsFiniteSet(Served(d)) /\ Cardinality(Served(d)) <= Cardinality(Lockers(d))
  <2>1. ASSUME NEW m \in Served(d)
        PROVE  m.sess \in Lockers(d)
    BY <1>0, <2>1, ServedRequest DEF Served, Requesting, Lockers
  <2>2. ASSUME NEW m1 \in Served(d), NEW m2 \in Served(d), m1.sess = m2.sess
        PROVE  m1 = m2
    BY <1>0, <2>2 DEF Served, ClientInv, Control, Awaited
  <2> QED
    BY <1>0, <2>1, <2>2, TabsBound
<1>3. IsFiniteSet(Orphans(d)) /\ Cardinality(Orphans(d)) <= abandoned[d]
  BY <1>0 DEF OrphansInv
<1>4. PICK R, N : R = Orphans(d) \cup Served(d) /\ N = {m.alloc : m \in R}
  OBVIOUS
<1>5. /\ IsFiniteSet(R)
      /\ Cardinality(R) \in Nat
      /\ Cardinality(R) <= Cardinality(Orphans(d)) + Cardinality(Served(d))
      /\ Cardinality(Orphans(d)) \in Nat /\ Cardinality(Served(d)) \in Nat
  BY <1>2, <1>3, <1>4, UnionBound
<1>6. IsFiniteSet(N) /\ Cardinality(N) \in Nat /\ Cardinality(N) <= Cardinality(R)
  BY <1>4, <1>5, NamesBound
<1>7. Cardinality(Lockers(d)) \in Nat /\ Cardinality(PayerTabs(d)) \in Nat
  BY <1>0, FS_CardinalityType
<1>8. Cardinality(N) <= Cardinality(Lockers(d)) + abandoned[d]
  BY <1>1, <1>2, <1>3, <1>5, <1>6, <1>7
<1>9. Locks(d) = PaidFor(d) \cup N
  <2>1. R = {m \in inflight : Requesting(m, d)}
    BY <1>4 DEF Orphans, Served
  <2>2. N = {m.alloc : m \in {x \in inflight : x.choice = "allocate" /\ x.data.deal = d}}
    BY <1>4, <2>1 DEF Requesting
  <2>3. {a \in AllocIds : allocState[a] \in {"live", "executed"} /\ allocSpec[a].deal = d}
          = PaidFor(d)
    BY DEF NoneLive, PaidFor
  <2> QED
    BY <2>2, <2>3 DEF Locks
<1>10. CASE PaidFor(d) = {}
  <2>1. Locks(d) = N
    BY <1>9, <1>10
  <2>2. Cardinality(Lockers(d)) <= Cardinality(PayerTabs(d))
    <3>1. Lockers(d) \subseteq PayerTabs(d)
      BY LockersPay
    <3> QED
      BY <1>0, <3>1, FS_Subset
  <2>3. Cardinality(N) <= Cardinality(PayerTabs(d)) + abandoned[d]
    BY <1>1, <1>6, <1>7, <1>8, <2>2
  <2> QED
    BY <1>6, <2>1, <2>3 DEF Bounded
<1>11. ASSUME NEW a \in PaidFor(d)
       PROVE  Bounded(d)
  <2>1. PaidFor(d) = {a}
    <3>1. PaidOnce
      BY <1>0, OncePerDeal DEF ClientInv, LedgerInv, PromiseInv
    <3>2. Orderly(d)
      BY <1>0, DealFacts
    <3> QED
      BY <1>11, <3>1, <3>2 DEF PaidFor, PaidOnce
  <2>2. Locks(d) = N \cup {a}
    BY <1>9, <2>1
  <2>3. /\ IsFiniteSet(Locks(d)) /\ Cardinality(Locks(d)) \in Nat
        /\ Cardinality(Locks(d)) <= Cardinality(N) + 1
    BY <1>6, <2>2, OneMore
  <2>4. PICK b \in PayerTabs(d) : b \notin Lockers(d)
    BY <1>11, ApproverPays
  <2>5. PICK L : L = Lockers(d) \cup {b}
    OBVIOUS
  <2>6. Cardinality(L) = Cardinality(Lockers(d)) + 1
    BY <1>0, <2>4, <2>5, FS_AddElement
  <2>7. Cardinality(L) <= Cardinality(PayerTabs(d))
    <3>1. L \subseteq PayerTabs(d)
      BY <2>4, <2>5, LockersPay
    <3> QED
      BY <1>0, <3>1, FS_Subset
  <2>8. Cardinality(Lockers(d)) + 1 <= Cardinality(PayerTabs(d))
    BY <2>6, <2>7
  <2>9. Cardinality(Locks(d)) <= Cardinality(PayerTabs(d)) + abandoned[d]
    BY <1>1, <1>6, <1>7, <1>8, <2>3, <2>8
  <2> QED
    BY <2>3, <2>9 DEF Bounded
<1> QED
  BY <1>10, <1>11

\* What the payer took back stays with the payer.
LEMMA WithdrawnStays ==
  ASSUME TypeInv, [Next]_vars, NEW a \in AllocIds, allocState'[a] \in {"live", "executed"},
         allocState[a] # "none"
  PROVE  allocState[a] \in {"live", "executed"}
<1> USE DEF TypeInv, TypeOK
<1>1. ASSUME NEW p \in Parties, NEW c \in acs, Choice(p, c)
      PROVE  allocState[a] \in {"live", "executed"}
  <2>1. \/ UNCHANGED <<allocState, allocSpec>>
        \/ /\ c.alloc \in AllocIds
           /\ allocState[c.alloc] = "live"
           /\ allocState' = [allocState EXCEPT ![c.alloc] = "executed"]
    BY <1>1, ChoiceRegistry, SettleRegistry
  <2> QED
    BY <2>1
<1>2. ASSUME NEW b \in AllocIds, NEW s \in Specs, Allocate(b, s)
      PROVE  allocState[a] \in {"live", "executed"}
  BY <1>2 DEF Allocate
<1>3. ASSUME NEW b \in AllocIds, Withdraw(b)
      PROVE  allocState[a] \in {"live", "executed"}
  BY <1>3 DEF Withdraw
<1>4. CASE \/ Tick \/ UNCHANGED vars
           \/ \E p \in Parties, r \in Roots, d \in Deals, t \in Terms : Propose(p, r, d, t)
           \/ \E p \in Parties, r \in Roots, n \in Creations : CreateDirectly(p, r, n)
  BY <1>4 DEF Tick, vars, Propose, CreateDirectly
<1> QED
  BY <1>1, <1>2, <1>3, <1>4 DEF Next

\* Only a tab that found nothing to reuse locks more for a deal.
LEMMA LocksGrow ==
  ASSUME ClientInv, [WalletNext]_allVars, NEW d \in Deals,
         NEW a, a \in Locks(d)', a \notin Locks(d)
  PROVE  \E s \in Sessions : LocksHoldings(s, a) /\ job[s].deal = d
<1>0. Control /\ TypeInv /\ [Next]_vars /\ inflight \subseteq SubmissionType
  BY ClientKeepsLedger DEF ClientInv, Control, ClientTypes, RestTyped
<1>1. ASSUME a \in AllocIds, allocState'[a] \in {"live", "executed"}, allocSpec'[a].deal = d
      PROVE  FALSE
  <2>1. ASSUME NEW m \in inflight, m.choice = "allocate", m.alloc = a, allocSpec'[a] = m.data
        PROVE  FALSE
    BY <1>1, <2>1 DEF Locks
  <2>2. allocState[a] # "none" /\ allocSpec'[a] = allocSpec[a]
    BY <1>0, <1>1, <2>1, AllocationCases
  <2>3. allocState[a] \in {"live", "executed"}
    BY <1>0, <1>1, <2>2, WithdrawnStays
  <2> QED
    BY <1>1, <2>2, <2>3 DEF Locks
<1>2. PICK m \in inflight' : Requesting(m, d) /\ m.alloc = a
  BY <1>1 DEF Locks, Requesting
<1>3. ASSUME NEW x \in inflight, x.choice = m.choice, x.data = m.data, x.alloc = m.alloc
      PROVE  FALSE
  BY <1>2, <1>3 DEF Locks, Requesting
<1>4. ASSUME NEW x \in inflight, m = Orphan(x)
      PROVE  x.choice = m.choice /\ x.data = m.data /\ x.alloc = m.alloc
  BY <1>0, <1>4, OrphanFields
<1>5. ASSUME NEW s \in Sessions, NEW b \in AllocIds, LocksHoldings(s, b),
             m = Submission(s, "allocate", job[s].on, b, WalletSpec(job[s].deal, job[s].on.terms))
      PROVE  b = a /\ job[s].deal = d
  BY <1>2, <1>5 DEF Submission, WalletSpec, SpecAt, Requesting
<1>6. ASSUME NEW s \in Sessions
      PROVE  /\ \A c, op : op \in Actions => m # Submission(s, op, c, None, None)
             /\ \A c, b : m # Submission(s, "fund", c, b, None)
             /\ m.choice # "Create"
  BY <1>2 DEF Submission, Requesting, Actions
<1>7. m.choice # "Create"
  BY <1>2 DEF Requesting
<1> QED
  BY <1>0, <1>3, <1>4, <1>5, <1>6, <1>7, SubmissionCases

\* It found nothing because nothing is live: what was requested for a deal can
\* be reused as long as there is time to allocate.
LEMMA NothingLive ==
  ASSUME ClientInv, FundingInv, NEW s \in Sessions, NEW a, LocksHoldings(s, a),
         NEW d, d = job[s].deal
  PROVE  NoneLive(d)'
<1>1. /\ job[s].step = "escrow" /\ CanAllocate(s, job[s].deal, job[s].on.terms)
      /\ \A b \in AllocIds : ~Reusable(b, job[s].deal, job[s].on.terms)
      /\ UNCHANGED vars /\ job'[s].deal = job[s].deal
  BY DEF LocksHoldings, Submit, Job, ClientInv, Control, ClientTypes, JobsTyped
<1>2. Holds(job[s]) /\ now \in Nat
  BY DEF ClientInv, Control, ClientTypes, JobsTyped, TypeInv, TypeOK
<1>3. job[s].on \in Contract /\ job[s].on \in History /\ job[s].on.deal = job[s].deal
  BY <1>1, <1>2 DEF Holds, FundingInv, FundingSteps
<1>4. job[s].on.terms \in Terms
  BY <1>3 DEF Contract
<1>5. job[s].on.terms.expires > now
  <2>1. PICK e : e = job[s].on.terms.expires
    OBVIOUS
  <2>2. e \in Int
    BY <1>4, <2>1, TermsAssumption DEF DealTerms
  <2>3. e > now + OneMinute
    BY <1>1, <2>1 DEF CanAllocate
  <2>4. e > now
    BY <1>2, <2>2, <2>3, ClockAssumption
  <2> QED
    BY <2>1, <2>4
<1>6. ASSUME NEW b \in AllocIds, allocState[b] = "live", allocSpec[b].deal = job[s].deal
      PROVE  FALSE
  <2>1. PICK c \in History : Requested(allocSpec[b], c.deal, c.terms)
    BY <1>6 DEF FundingInv, AskedFor
  <2>2. c.deal = job[s].deal
    BY <1>6, <2>1 DEF Requested, SpecFits
  <2>3. c.terms = job[s].on.terms
    BY <1>3, <2>2, DealFacts DEF OneTerms
  <2>4. Reusable(b, job[s].deal, job[s].on.terms)
    BY <1>5, <1>6, <2>1, <2>2, <2>3 DEF Reusable, Requested
  <2> QED
    BY <1>1, <2>4
<1> QED
  BY <1>1, <1>6 DEF NoneLive, vars

Quiet == \A d \in Deals : NoneLive(d) \/ Bounded(d)

LEMMA LocksInductive == LockersInv /\ Quiet /\ [WalletNext]_allVars => Quiet'
<1> SUFFICES ASSUME LockersInv, Quiet, [WalletNext]_allVars, NEW d \in Deals, ~NoneLive(d)'
             PROVE  Bounded(d)'
  BY DEF Quiet
<1>0. ClientInv /\ FundingInv /\ Control
  BY DEF LockersInv, ClientInv
<1>1. Bounded(d)
  BY LocksCounted DEF Quiet
<1>2. Locks(d)' \subseteq Locks(d)
  <2>1. ASSUME NEW a, a \in Locks(d)', a \notin Locks(d)
        PROVE  FALSE
    BY <1>0, <2>1, LocksGrow, NothingLive
  <2> QED
    BY <2>1
<1>3. PICK P, Q : P = PayerTabs(d) /\ Q = PayerTabs(d)'
  OBVIOUS
<1>4. P \subseteq Q /\ IsFiniteSet(Q)
  BY <1>0, <1>3, LedgerKeeps, SessionsAssumption, FS_Subset DEF PayerTabs
<1>5. /\ IsFiniteSet(P) /\ Cardinality(P) \in Nat /\ Cardinality(Q) \in Nat
      /\ Cardinality(P) <= Cardinality(Q)
  BY <1>4, FS_Subset, FS_CardinalityType
<1>6. PICK L, M : L = Locks(d) /\ M = Locks(d)'
  OBVIOUS
<1>7. /\ IsFiniteSet(M) /\ Cardinality(L) \in Nat /\ Cardinality(M) \in Nat
      /\ Cardinality(M) <= Cardinality(L)
  BY <1>1, <1>2, <1>6, FS_Subset, FS_CardinalityType DEF Bounded
<1>8. /\ abandoned[d] \in Nat /\ abandoned'[d] \in Nat /\ abandoned[d] <= abandoned'[d]
  BY <1>0, AbandonedGrows
<1>9. Cardinality(L) <= Cardinality(P) + abandoned[d]
  BY <1>1, <1>3, <1>6 DEF Bounded
<1>10. Cardinality(M) <= Cardinality(Q) + abandoned'[d]
  BY <1>5, <1>7, <1>8, <1>9
<1> QED
  BY <1>3, <1>6, <1>7, <1>10 DEF Bounded

\* A payer that retries never locks more of its holdings for a deal than its
\* tabs can each lock once, plus once for every request whose outcome nobody
\* learnt: the wallet looks for a live allocation before it requests another.
THEOREM LocksStayBounded == WithWithdrawals => []LocksBounded
<1>1. ClientInit => LockersInv /\ Quiet
  <2> SUFFICES ASSUME ClientInit PROVE LockersInv /\ Quiet
    OBVIOUS
  <2>1. ClientInv /\ FundingInv
    BY ClientInvInit DEF ClientInit, Init, FundingInv, Idle, FundingSteps
  <2>2. ReviewInv
    BY DEF ClientInit, Init, ReviewInv, Idle, History
  <2>3. OrphansInv
    <3>1. ASSUME NEW d \in Deals
          PROVE  Orphans(d) = {} /\ abandoned[d] = 0
      BY DEF ClientInit, Orphans
    <3>2. IsFiniteSet({}) /\ Cardinality({}) = 0
      BY FS_EmptySet
    <3> QED
      BY <3>1, <3>2 DEF OrphansInv
  <2>4. Quiet
    BY DEF ClientInit, Init, Quiet, NoneLive
  <2> QED
    BY <2>1, <2>2, <2>3, <2>4 DEF LockersInv
<1>2. LockersInv /\ [WalletNext]_allVars => LockersInv'
  BY ClientInvInductive, FundingInductive, ReviewInductive, OrphansInductive DEF LockersInv
<1>3. LockersInv /\ Quiet => LocksBounded
  BY LocksCounted DEF Quiet, Bounded, LocksBounded
<1> QED
  BY <1>1, <1>2, <1>3, LocksInductive, PTL DEF WithWithdrawals
=============================================================================
