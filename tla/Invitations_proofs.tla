---------------------------- MODULE Invitations_proofs ----------------------------
(***************************************************************************)
(* Theorems of Invitations: whoever is admitted was registered, for any    *)
(* rooms and guests and any order of submissions.                          *)
(***************************************************************************)
EXTENDS Invitations, NaturalsInduction, WellFoundedInduction, SequenceTheorems, TLAPS

-----------------------------------------------------------------------------
\* A non-empty set of numbers has a least one.
LEMMA LeastNatural ==
  ASSUME NEW S, S \subseteq Nat, S # {}
  PROVE  \E x \in S : \A y \in S : x <= y
<1>1. PICK x \in S : \A y \in S : <<y, x>> \notin OpToRel(<, Nat)
  BY NatLessThanWellFounded, WFMin
<1>2. \A y \in S : ~ (y < x)
  BY <1>1 DEF OpToRel
<1> QED
  BY <1>2

-----------------------------------------------------------------------------
\* InvitePeers: what its recursion computes, and how it goes on with the ledger.
\* Induction takes the form of a least number at which the claim fails.

\* f holds the peers found in the first n contracts of l, for each n up to m.
Finds(f, m, r, l) ==
  f = [n \in 0 .. m |-> IF n = 0 THEN <<>> ELSE WithPeer(f[n - 1], r, l[n])]

LEMMA FindsExists ==
  ASSUME NEW r, NEW l, NEW m \in Nat
  PROVE  \E f : Finds(f, m, r, l)
<1> DEFINE Fails == {k \in Nat : ~\E f : Finds(f, k, r, l)}
<1>1. SUFFICES ASSUME Fails # {} PROVE FALSE
  OBVIOUS
<1>2. PICK k \in Fails : \A j \in Fails : k <= j
  BY <1>1, LeastNatural
<1>3. CASE k = 0
  <2>1. Finds([n \in 0 .. 0 |-> <<>>], 0, r, l)
    BY DEF Finds
  <2>2. QED
    BY <1>3, <2>1
<1>4. CASE k # 0
  <2>1. k - 1 \in Nat /\ k - 1 \notin Fails
    BY <1>2, <1>4
  <2>2. PICK f : Finds(f, k - 1, r, l)
    BY <2>1
  <2> DEFINE g == [n \in 0 .. k |-> IF n = k THEN WithPeer(f[k - 1], r, l[k]) ELSE f[n]]
  <2>3. \A n \in 0 .. k - 1 : f[n] = IF n = 0 THEN <<>> ELSE WithPeer(f[n - 1], r, l[n])
    BY <2>2 DEF Finds
  <2>4. \A n \in 0 .. k : g[n] = IF n = 0 THEN <<>> ELSE WithPeer(g[n - 1], r, l[n])
    <3> SUFFICES ASSUME NEW n \in 0 .. k
                 PROVE  g[n] = IF n = 0 THEN <<>> ELSE WithPeer(g[n - 1], r, l[n])
      OBVIOUS
    <3>1. CASE n = k
      BY <1>4, <3>1
    <3>2. CASE n # k
      BY <2>1, <2>3, <3>2
    <3>3. QED
      BY <3>1, <3>2
  <2>5. Finds(g, k, r, l)
    BY <2>4 DEF Finds
  <2>6. QED
    BY <2>5
<1>5. QED
  BY <1>3, <1>4

\* What was found in a ledger is found in one that goes on from it.
LEMMA FindsAgree ==
  ASSUME NEW r, NEW l, NEW h, NEW f, NEW g, NEW m \in Nat, NEW k \in Nat,
         Finds(f, m, r, l), Finds(g, k, r, h),
         m <= k, \A n \in 1 .. m : h[n] = l[n]
  PROVE  \A n \in 0 .. m : g[n] = f[n]
<1> DEFINE Differ == {n \in 0 .. m : g[n] # f[n]}
<1>1. SUFFICES ASSUME Differ # {} PROVE FALSE
  OBVIOUS
<1>2. PICK n \in Differ : \A j \in Differ : n <= j
  <2>1. Differ \subseteq Nat
    OBVIOUS
  <2> HIDE DEF Differ
  <2>2. QED
    BY <1>1, <2>1, LeastNatural
<1>3. /\ f[n] = IF n = 0 THEN <<>> ELSE WithPeer(f[n - 1], r, l[n])
      /\ g[n] = IF n = 0 THEN <<>> ELSE WithPeer(g[n - 1], r, h[n])
  BY <1>2 DEF Finds
<1>4. CASE n = 0
  BY <1>2, <1>3, <1>4
<1>5. CASE n # 0
  <2>1. n - 1 \in 0 .. m /\ n - 1 \notin Differ /\ h[n] = l[n]
    BY <1>2, <1>5
  <2>2. QED
    BY <1>2, <1>3, <1>5, <2>1
<1>6. QED
  BY <1>4, <1>5

LEMMA PeersFound ==
  ASSUME NEW r, Len(log) \in Nat
  PROVE  \E f : Finds(f, Len(log), r, log) /\ InvitePeers(r) = f[Len(log)]
<1> DEFINE f == CHOOSE f : Finds(f, Len(log), r, log)
<1>1. Finds(f, Len(log), r, log)
  BY FindsExists
<1>2. InvitePeers(r) = f[Len(log)]
  BY DEF InvitePeers, Finds
<1>3. QED
  BY <1>1, <1>2

\* No registration, no peer.
LEMMA NoPeers ==
  ASSUME NEW r, log = <<>>
  PROVE  InvitePeers(r) = <<>>
<1>1. PICK f : Finds(f, Len(log), r, log) /\ InvitePeers(r) = f[Len(log)]
  BY PeersFound
<1>2. QED
  BY <1>1 DEF Finds

\* A contract more is a peer more, or none.
LEMMA PeersContinue ==
  ASSUME NEW r, NEW m \in Nat, Len(log) = m, Len(log') = m + 1,
         \A n \in 1 .. m : log'[n] = log[n]
  PROVE  InvitePeers(r)' = WithPeer(InvitePeers(r), r, log'[m + 1])
<1>1. PICK f : Finds(f, m, r, log) /\ InvitePeers(r) = f[m]
  BY PeersFound
<1>2. \E g : Finds(g, m + 1, r, log') /\ InvitePeers(r)' = g[m + 1]
  <2> DEFINE g == CHOOSE g : Finds(g, m + 1, r, log')
  <2>1. Finds(g, m + 1, r, log')
    BY FindsExists
  <2>2. InvitePeers(r)' = g[m + 1]
    BY DEF InvitePeers, Finds
  <2>3. QED
    BY <2>1, <2>2
<1>3. PICK g : Finds(g, m + 1, r, log') /\ InvitePeers(r)' = g[m + 1]
  BY <1>2
<1>4. \A n \in 0 .. m : g[n] = f[n]
  BY <1>1, <1>3, FindsAgree
<1>5. g[m + 1] = WithPeer(g[m], r, log'[m + 1])
  BY <1>3 DEF Finds
<1>6. QED
  BY <1>1, <1>3, <1>4, <1>5

LEMMA PeersGrow ==
  ASSUME NEW r, NEW S, log \in Seq(S), NEW c \in S, log' = Append(log, c)
  PROVE  InvitePeers(r)' = WithPeer(InvitePeers(r), r, c)
<1>1. /\ Len(log) \in Nat /\ Len(log') = Len(log) + 1 /\ log'[Len(log) + 1] = c
      /\ \A n \in 1 .. Len(log) : log'[n] = log[n]
  OBVIOUS
<1>2. QED
  BY <1>1, PeersContinue

-----------------------------------------------------------------------------
\* The inductive invariant

\* What somebody may submit.
IsContract(c) ==
  \/ \E r \in Rooms, g \in Guests : KindOf[r] # "job" /\ c = Request(r, g)
  \/ \E r \in Rooms : KindOf[r] = "job" /\ c = Request(r, None)
  \/ \E g \in Guests, at \in 1 .. clock : c = Offer(g, at)

\* The fields that every contract has.
Contracts ==
  [tpl : {"request", "offer"}, room : Rooms \cup {None}, by : Guests \cup {None}, at : Nat]

LedgerInv ==
  /\ clock \in Nat
  /\ log \in Seq(Contracts) /\ \A n \in DOMAIN log : IsContract(log[n])
  /\ \A m \in inflight : "contract" \in DOMAIN m /\ IsContract(m.contract)

\* The registration n of a room comes before all others.
IsFirst(n, r) == n \in Registrations(r) /\ \A k \in Registrations(r) : n <= k

\* The peers of a room are registered for it, the first of them first, and no two
\* of them share a Party or an installation.
PeersInv ==
  \A r \in Rooms : KindOf[r] # "job" =>
    LET peers == InvitePeers(r)
    IN  /\ peers \in Seq(Guests)
        /\ \A i \in DOMAIN peers : \E n \in Registrations(r) : log[n].by = peers[i]
        /\ peers = <<>> => Registrations(r) = {}
        /\ peers # <<>> => \E n \in Registrations(r) : IsFirst(n, r) /\ log[n].by = peers[1]
        /\ \A i, j \in DOMAIN peers :
             PartyOf(peers[i]) = PartyOf(peers[j]) \/ InstallationOf(peers[i]) = InstallationOf(peers[j])
             => i = j

\* Whom the creator may admit: the ledger lets that guest in and, in a group, the
\* roster names it.
Eligible(r, g) ==
  /\ g \in Guests
  /\ \E n \in Registrations(r) : Admits(n, r, g)
  /\ KindOf[r] = "group" => \E i \in DOMAIN InvitePeers(r) : InvitePeers(r)[i] = g

\* What the creator's pages hold follows from the ledger, whenever they read it.
HostInv ==
  \A r \in Rooms :
    /\ \A g \in bindings[r] : Eligible(r, g)
    /\ fetching[r] # None =>
         Eligible(r, fetching[r].guest) /\ ~IsMember(r, fetching[r].guest)

\* A member was eligible and is its installation's only one.
MembersInv ==
  \A r \in Rooms : \A a \in admitted[r] :
    /\ Eligible(r, a.guest)
    /\ a.offer \in DOMAIN log /\ log[a.offer].tpl = "offer" /\ log[a.offer].by = a.guest
    /\ \E n \in Registrations(r) : Admits(n, r, a.guest) /\ n < a.offer
    /\ \A b \in admitted[r] : InstallationOf(a.guest) = InstallationOf(b.guest) => a = b

\* Rooms are what these are functions of.
Shape ==
  /\ DOMAIN bindings = Rooms /\ DOMAIN fetching = Rooms /\ DOMAIN admitted = Rooms

InviteInv == LedgerInv /\ PeersInv /\ HostInv /\ MembersInv /\ Shape

-----------------------------------------------------------------------------
\* The ledger

LEMMA ContractHasFields ==
  ASSUME clock \in Nat, NEW c, IsContract(c)
  PROVE  c \in Contracts
<1>1. CASE \E r \in Rooms, g \in Guests : c = Request(r, g)
  BY <1>1 DEF Request, Contracts
<1>2. CASE \E r \in Rooms : c = Request(r, None)
  BY <1>2 DEF Request, Contracts
<1>3. CASE \E g \in Guests, at \in 1 .. clock : c = Offer(g, at)
  BY <1>3 DEF Offer, Contracts
<1>4. QED
  BY <1>1, <1>2, <1>3 DEF IsContract

\* What may be submitted may be submitted later, too.
LEMMA ContractsStay ==
  ASSUME clock \in Nat, clock' \in Nat, clock <= clock', NEW c, IsContract(c)
  PROVE  IsContract(c)'
BY DEF IsContract

\* A step submits, commits or gives up, or has nothing to do with the ledger.
Appends(c) == IsContract(c) /\ log' = Append(log, c)

LEMMA SubmitKeepsLedger ==
  ASSUME LedgerInv, NEW c, Submit(c), clock' \in Nat, clock <= clock', IsContract(c)', log' = log
  PROVE  LedgerInv'
<1>1. \A n \in DOMAIN log : IsContract(log[n])'
  BY ContractsStay DEF LedgerInv
<1>2. \A m \in inflight' : "contract" \in DOMAIN m /\ IsContract(m.contract)'
  <2> SUFFICES ASSUME NEW m \in inflight'
               PROVE  "contract" \in DOMAIN m /\ IsContract(m.contract)'
    OBVIOUS
  <2>1. CASE m \in inflight
    BY <2>1, ContractsStay DEF LedgerInv
  <2>2. CASE m = Submission(c)
    BY <2>2 DEF Submission
  <2>3. QED
    BY <2>1, <2>2 DEF Submit
<1>3. QED
  BY <1>1, <1>2 DEF LedgerInv

LEMMA CommitKeepsLedger ==
  ASSUME LedgerInv, NEW m \in inflight, Commit(m)
  PROVE  LedgerInv' /\ (UNCHANGED log \/ Appends(m.contract))
<1> DEFINE c == m.contract
<1>1. IsContract(c)
  BY DEF LedgerInv
<1>2. c \in Contracts
  BY <1>1, ContractHasFields DEF LedgerInv
<1>3. /\ inflight' = inflight \ {m} /\ UNCHANGED clock
      /\ log' = log \/ log' = Append(log, c)
  BY <1>2 DEF Commit
<1>4. \A d : IsContract(d) <=> IsContract(d)'
  BY <1>3 DEF IsContract
<1>5. log' \in Seq(Contracts) /\ \A n \in DOMAIN log' : IsContract(log'[n])
  <2>1. CASE log' = log
    BY <2>1 DEF LedgerInv
  <2>2. CASE log' = Append(log, c)
    BY <1>1, <1>2, <2>2 DEF LedgerInv
  <2>3. QED
    BY <1>3, <2>1, <2>2
<1>6. LedgerInv'
  BY <1>3, <1>4, <1>5 DEF LedgerInv
<1>7. QED
  BY <1>1, <1>2, <1>3, <1>6 DEF Appends

LEMMA GiveUpKeepsLedger ==
  ASSUME LedgerInv, NEW m \in inflight, GiveUp(m)
  PROVE  LedgerInv' /\ UNCHANGED log
<1>1. UNCHANGED <<log, clock>>
  BY DEF GiveUp
<1>2. \A d : IsContract(d) <=> IsContract(d)'
  BY <1>1 DEF IsContract
<1>3. "contract" \in DOMAIN m /\ IsContract(m.contract)
  BY DEF LedgerInv
<1> DEFINE unheard == [m EXCEPT !.heard = FALSE]
<1>4. "contract" \in DOMAIN unheard /\ unheard.contract = m.contract
  BY <1>3
<1>5. inflight' \subseteq inflight \cup {unheard}
  BY DEF GiveUp
<1> HIDE DEF unheard
<1>6. \A k \in inflight' : "contract" \in DOMAIN k /\ IsContract(k.contract)
  BY <1>3, <1>4, <1>5 DEF LedgerInv
<1>7. QED
  BY <1>1, <1>2, <1>6 DEF LedgerInv

\* Every step.
LEMMA LedgerStep ==
  ASSUME LedgerInv, [Next]_vars
  PROVE  LedgerInv' /\ (UNCHANGED log \/ \E c : Appends(c))
<1>1. CASE UNCHANGED <<log, inflight, clock>>
  BY <1>1 DEF LedgerInv, IsContract
<1>2. ASSUME NEW r \in Rooms, ApplyForJob(r)
      PROVE  LedgerInv' /\ UNCHANGED log
  <2>1. UNCHANGED <<log, clock>> /\ Submit(Request(r, None)) /\ clock \in Nat
    BY <1>2 DEF ApplyForJob, LedgerInv
  <2>2. IsContract(Request(r, None))'
    BY <1>2 DEF ApplyForJob, IsContract
  <2>3. QED
    BY <2>1, <2>2, SubmitKeepsLedger
<1>3. ASSUME NEW r \in Rooms, NEW g \in Guests, Join(r, g)
      PROVE  LedgerInv' /\ UNCHANGED log
  <2>1. /\ UNCHANGED <<log, clock>> /\ clock \in Nat /\ KindOf[r] # "job"
        /\ UNCHANGED inflight \/ Submit(Request(r, g))
    BY <1>3 DEF Join, LedgerInv
  <2>2. IsContract(Request(r, g))'
    BY <2>1 DEF IsContract
  <2>3. QED
    BY <1>1, <2>1, <2>2, SubmitKeepsLedger
<1>4. ASSUME NEW r \in Rooms, NEW g \in Guests, Advertise(r, g)
      PROVE  LedgerInv' /\ UNCHANGED log
  <2>1. PICK c : c = Offer(g, clock + 1) /\ Submit(c)
    BY <1>4 DEF Advertise
  <2>2. log' = log /\ clock' \in Nat /\ clock <= clock' /\ IsContract(c)'
    BY <1>4, <2>1 DEF Advertise, LedgerInv, IsContract
  <2>3. QED
    BY <2>1, <2>2, SubmitKeepsLedger
<1>5. ASSUME NEW r \in Rooms,
             \/ MakeInvite(r) \/ Resolve(r) \/ Refresh(r) \/ Reload(r) \/ Admit(r)
             \/ TryLater(r) \/ InviteExpires(r) \/ \E g \in Guests : Fetch(r, g)
      PROVE  UNCHANGED <<log, inflight, clock>>
  BY <1>5 DEF MakeInvite, Resolve, Refresh, Reload, Admit, TryLater, InviteExpires, Fetch
<1>6. CASE OfferExpires \/ UNCHANGED vars
  BY <1>1, <1>6 DEF OfferExpires, vars
<1>7. QED
  BY <1>1, <1>2, <1>3, <1>4, <1>5, <1>6, CommitKeepsLedger, GiveUpKeepsLedger
     DEF Next, OfCreator, OfGuest

-----------------------------------------------------------------------------
\* What the ledger says stays true

\* The ledger goes on from what it was.
LedgerKeeps ==
  /\ \A n \in DOMAIN log : n \in DOMAIN log' /\ log'[n] = log[n]
  /\ \A r \in Rooms : \A n \in Registrations(r) :
       n \in Registrations(r)' /\ \A g \in Guests : Admits(n, r, g) => Admits(n, r, g)'
  /\ \A r \in Rooms, g \in Guests : Eligible(r, g) => Eligible(r, g)'

LEMMA AppendDetails ==
  ASSUME LedgerInv, NEW c, Appends(c)
  PROVE  /\ log \in Seq(Contracts) /\ c \in Contracts /\ Len(log) \in Nat
         /\ DOMAIN log = 1 .. Len(log) /\ DOMAIN log' = 1 .. Len(log) + 1
         /\ \A n \in DOMAIN log : log'[n] = log[n]
         /\ log'[Len(log) + 1] = c
         /\ \A r \in Rooms : Registrations(r)' =
              Registrations(r) \cup (IF c.tpl = "request" /\ c.room = r THEN {Len(log) + 1} ELSE {})
         /\ \A r \in Rooms : InvitePeers(r)' = WithPeer(InvitePeers(r), r, c)
<1>1. log \in Seq(Contracts) /\ c \in Contracts /\ log' = Append(log, c)
  BY ContractHasFields DEF LedgerInv, Appends
<1>2. /\ Len(log) \in Nat
      /\ DOMAIN log = 1 .. Len(log) /\ DOMAIN log' = 1 .. Len(log) + 1
      /\ \A n \in DOMAIN log : log'[n] = log[n]
      /\ log'[Len(log) + 1] = c
  BY <1>1
<1>3. \A r \in Rooms : Registrations(r)' =
        Registrations(r) \cup (IF c.tpl = "request" /\ c.room = r THEN {Len(log) + 1} ELSE {})
  BY <1>2 DEF Registrations
<1>4. \A r \in Rooms : InvitePeers(r)' = WithPeer(InvitePeers(r), r, c)
  BY <1>1, PeersGrow
<1>5. QED
  BY <1>1, <1>2, <1>3, <1>4

\* A registration of a room other than a job's is by a guest, of a job's by its
\* creator.
LEMMA RegisteredByGuest ==
  ASSUME LedgerInv, NEW c, IsContract(c), c.tpl = "request", KindOf[c.room] # "job"
  PROVE  c.by \in Guests
BY DEF IsContract, Request, Offer

LEMMA RegisteredByCreator ==
  ASSUME NEW c, IsContract(c), c.tpl = "request", c.by = None
  PROVE  c.room \in Rooms /\ KindOf[c.room] = "job"
<1>1. None \notin Guests
  BY GuestsAssumption
<1>2. CASE \E r \in Rooms, g \in Guests : c = Request(r, g)
  BY <1>1, <1>2 DEF Request
<1>3. CASE \E r \in Rooms : KindOf[r] = "job" /\ c = Request(r, None)
  BY <1>3 DEF Request
<1>4. CASE \E g \in Guests, at \in 1 .. clock : c = Offer(g, at)
  BY <1>4 DEF Offer
<1>5. QED
  BY <1>2, <1>3, <1>4 DEF IsContract

\* Whoever is listed already is not listed again, nor a guest with one half of
\* what is listed.
LEMMA PeersStep ==
  ASSUME LedgerInv, PeersInv, NEW c, Appends(c)
  PROVE  PeersInv'
<1> DEFINE last == Len(log) + 1
<1>1. /\ log \in Seq(Contracts) /\ c \in Contracts /\ Len(log) \in Nat
      /\ DOMAIN log = 1 .. Len(log) /\ DOMAIN log' = 1 .. last
      /\ \A n \in DOMAIN log : log'[n] = log[n]
      /\ log'[last] = c
      /\ \A r \in Rooms : Registrations(r)' =
           Registrations(r) \cup (IF c.tpl = "request" /\ c.room = r THEN {last} ELSE {})
      /\ \A r \in Rooms : InvitePeers(r)' = WithPeer(InvitePeers(r), r, c)
  BY AppendDetails
<1> SUFFICES ASSUME NEW r \in Rooms, KindOf[r] # "job"
             PROVE
    LET peers == InvitePeers(r)'
    IN  /\ peers \in Seq(Guests)
        /\ \A i \in DOMAIN peers : \E n \in Registrations(r)' : log'[n].by = peers[i]
        /\ peers = <<>> => Registrations(r)' = {}
        /\ peers # <<>> => \E n \in Registrations(r)' : IsFirst(n, r)' /\ log'[n].by = peers[1]
        /\ \A i, j \in DOMAIN peers :
             PartyOf(peers[i]) = PartyOf(peers[j]) \/ InstallationOf(peers[i]) = InstallationOf(peers[j])
             => i = j
  BY DEF PeersInv
<1> DEFINE old == InvitePeers(r)
           regs == Registrations(r)
           new == InvitePeers(r)'
           newRegs == Registrations(r)'
           mine == c.tpl = "request" /\ c.room = r
<1>2. /\ old \in Seq(Guests)
      /\ \A i \in DOMAIN old : \E n \in regs : log[n].by = old[i]
      /\ old = <<>> => regs = {}
      /\ old # <<>> => \E n \in regs : (\A k \in regs : n <= k) /\ log[n].by = old[1]
      /\ \A i, j \in DOMAIN old :
           PartyOf(old[i]) = PartyOf(old[j]) \/ InstallationOf(old[i]) = InstallationOf(old[j]) => i = j
  BY DEF PeersInv, IsFirst
<1>3. /\ regs \subseteq 1 .. Len(log) /\ regs \subseteq newRegs
      /\ \A n \in regs : log'[n] = log[n]
      /\ newRegs = IF mine THEN regs \cup {last} ELSE regs
      /\ \A n \in newRegs : IsFirst(n, r)' <=> \A k \in newRegs : n <= k
  BY <1>1 DEF Registrations, IsFirst
<1>4. new = IF mine /\ ~Known(old, c.by) THEN Append(old, c.by) ELSE old
  BY <1>1 DEF WithPeer
<1>5. c.by \in Guests \/ ~mine
  BY RegisteredByGuest DEF Appends
<1>6. last \in Nat /\ \A n \in regs : n \in Nat /\ n <= last
  BY <1>1, <1>3
<1>7. log'[last] = c
  BY <1>1
<1>8. old # <<>> =>
        \E n \in newRegs : (\A k \in newRegs : n <= k) /\ log'[n].by = old[1]
  BY <1>2, <1>3, <1>6
<1> HIDE DEF old, regs, new, newRegs, mine, last
<1>9. CASE ~mine
  BY <1>2, <1>3, <1>4, <1>8, <1>9 DEF old, new, newRegs
<1>10. CASE mine /\ Known(old, c.by)
  <2>1. old # <<>> /\ new = old
    BY <1>2, <1>4, <1>10 DEF Known
  <2>2. QED
    BY <1>2, <1>3, <1>8, <2>1 DEF old, new, newRegs
<1>11. CASE mine /\ ~Known(old, c.by)
  <2> DEFINE m == Len(old)
  <2>1. /\ new \in Seq(Guests) /\ m \in Nat
        /\ DOMAIN old = 1 .. m /\ DOMAIN new = 1 .. m + 1
        /\ \A i \in 1 .. m : new[i] = old[i]
        /\ new[m + 1] = c.by
    BY <1>2, <1>4, <1>5, <1>11
  <2>2. \A i \in DOMAIN new : \E n \in newRegs : log'[n].by = new[i]
    <3> SUFFICES ASSUME NEW i \in DOMAIN new PROVE \E n \in newRegs : log'[n].by = new[i]
      OBVIOUS
    <3>1. CASE i \in 1 .. m
      BY <1>2, <1>3, <2>1, <3>1
    <3>2. CASE i = m + 1
      BY <1>3, <1>7, <1>11, <2>1, <3>2
    <3>3. QED
      BY <2>1, <3>1, <3>2
  <2>3. \E n \in newRegs : (\A k \in newRegs : n <= k) /\ log'[n].by = new[1]
    <3>1. CASE old = <<>>
      <4>1. m = 0 /\ newRegs = {last}
        BY <1>2, <1>3, <1>11, <3>1
      <4>2. QED
        BY <1>6, <1>7, <2>1, <4>1
    <3>2. CASE old # <<>>
      <4>1. new[1] = old[1]
        BY <1>2, <2>1, <3>2
      <4>2. QED
        BY <1>8, <3>2, <4>1
    <3>3. QED
      BY <3>1, <3>2
  <2>4. \A i \in 1 .. m : /\ PartyOf(old[i]) # PartyOf(c.by)
                          /\ InstallationOf(old[i]) # InstallationOf(c.by)
    BY <1>11, <2>1 DEF Known
  <2>5. ASSUME NEW i \in DOMAIN new, NEW j \in DOMAIN new,
               \/ PartyOf(new[i]) = PartyOf(new[j])
               \/ InstallationOf(new[i]) = InstallationOf(new[j])
        PROVE  i = j
    <3>1. CASE i \in 1 .. m /\ j \in 1 .. m
      BY <1>2, <2>1, <2>5, <3>1
    <3>2. CASE i = m + 1 /\ j \in 1 .. m
      BY <2>1, <2>4, <2>5, <3>2
    <3>3. CASE i \in 1 .. m /\ j = m + 1
      BY <2>1, <2>4, <2>5, <3>3
    <3>4. QED
      BY <2>1, <3>1, <3>2, <3>3
  <2>6. new # <<>>
    BY <2>1
  <2>7. QED
    BY <1>3, <2>1, <2>2, <2>3, <2>5, <2>6 DEF new, newRegs
<1>12. QED
  BY <1>9, <1>10, <1>11

\* What a registration allows, a later one does not take back.
LEMMA AppendKeeps ==
  ASSUME LedgerInv, PeersInv, NEW c, Appends(c)
  PROVE  LedgerKeeps
<1>1. /\ DOMAIN log = 1 .. Len(log) /\ DOMAIN log' = 1 .. Len(log) + 1 /\ Len(log) \in Nat
      /\ \A n \in DOMAIN log : log'[n] = log[n]
      /\ \A r \in Rooms : Registrations(r)' =
           Registrations(r) \cup (IF c.tpl = "request" /\ c.room = r THEN {Len(log) + 1} ELSE {})
      /\ \A r \in Rooms : InvitePeers(r)' = WithPeer(InvitePeers(r), r, c)
  BY AppendDetails
<1>2. \A r \in Rooms : Registrations(r) \subseteq DOMAIN log
  BY DEF Registrations
<1>3. \A r \in Rooms : \A n \in Registrations(r) :
        /\ n \in Registrations(r)'
        /\ \A g \in Guests : Admits(n, r, g) => Admits(n, r, g)'
  <2> SUFFICES ASSUME NEW r \in Rooms, NEW n \in Registrations(r), NEW g \in Guests, Admits(n, r, g)
               PROVE  Admits(n, r, g)'
    BY <1>1
  <2>1. log'[n] = log[n] /\ n \in 1 .. Len(log)
    BY <1>1, <1>2
  <2>2. \A k \in Registrations(r)' : k \in Registrations(r) \/ k = Len(log) + 1
    BY <1>1
  <2>3. KindOf[r] \in {"private", "group", "job"}
    BY KindsAssumption
  <2>4. (\A k \in Registrations(r) : n <= k) => \A k \in Registrations(r)' : n <= k
    <3>1. n <= Len(log) + 1
      BY <1>1, <2>1
    <3>2. QED
      BY <2>2, <3>1
  <2>5. CASE KindOf[r] = "private"
    BY <2>1, <2>4, <2>5 DEF Admits
  <2>6. CASE KindOf[r] # "private"
    BY <2>1, <2>3, <2>6 DEF Admits
  <2>7. QED
    BY <2>5, <2>6
<1>4. ASSUME NEW r \in Rooms, NEW g \in Guests, Eligible(r, g)
      PROVE  Eligible(r, g)'
  <2>1. \E n \in Registrations(r)' : Admits(n, r, g)'
    BY <1>3, <1>4 DEF Eligible
  <2>2. ASSUME KindOf[r] = "group"
        PROVE  \E i \in DOMAIN InvitePeers(r)' : InvitePeers(r)'[i] = g
    <3>1. PICK i \in DOMAIN InvitePeers(r) : InvitePeers(r)[i] = g
      BY <1>4, <2>2 DEF Eligible
    <3>2. InvitePeers(r) \in Seq(Guests)
      BY <2>2 DEF PeersInv
    <3>3. \/ InvitePeers(r)' = InvitePeers(r)
          \/ InvitePeers(r)' = Append(InvitePeers(r), c.by)
      BY <1>1 DEF WithPeer
    <3>4. QED
      BY <3>1, <3>2, <3>3
  <2>3. QED
    BY <1>4, <2>1, <2>2 DEF Eligible
<1>5. QED
  BY <1>1, <1>3, <1>4 DEF LedgerKeeps

LEMMA StutterKeeps ==
  ASSUME UNCHANGED log
  PROVE  LedgerKeeps /\ (PeersInv => PeersInv')
<1>1. \A r : InvitePeers(r)' = InvitePeers(r) /\ Registrations(r)' = Registrations(r)
  BY DEF InvitePeers, Registrations
<1>2. \A n, r, g : Admits(n, r, g)' <=> Admits(n, r, g)
  BY <1>1 DEF Admits
<1>3. \A r, g : Eligible(r, g)' <=> Eligible(r, g)
  BY <1>1, <1>2 DEF Eligible
<1>4. LedgerKeeps
  BY <1>1, <1>2, <1>3 DEF LedgerKeeps
<1>5. PeersInv => PeersInv'
  BY <1>1 DEF PeersInv, IsFirst
<1>6. QED
  BY <1>4, <1>5

-----------------------------------------------------------------------------
\* The creator's pages

\* A step of one room, r, leaves the others alone.
OnlyRoom(r) ==
  /\ DOMAIN bindings' = Rooms /\ DOMAIN fetching' = Rooms /\ DOMAIN admitted' = Rooms
  /\ \A s \in Rooms \ {r} :
       /\ bindings'[s] = bindings[s]
       /\ fetching'[s] = fetching[s] /\ admitted'[s] = admitted[s]

\* What HostInv and MembersInv say of a room.
HostOK(r) ==
  /\ \A g \in bindings[r] : Eligible(r, g)
  /\ fetching[r] # None =>
       Eligible(r, fetching[r].guest) /\ ~IsMember(r, fetching[r].guest)

MembersOK(r) ==
  \A a \in admitted[r] :
    /\ Eligible(r, a.guest)
    /\ a.offer \in DOMAIN log /\ log[a.offer].tpl = "offer" /\ log[a.offer].by = a.guest
    /\ \E n \in Registrations(r) : Admits(n, r, a.guest) /\ n < a.offer
    /\ \A b \in admitted[r] : InstallationOf(a.guest) = InstallationOf(b.guest) => a = b

\* The ledger's growth is no concern of what was read before.
LEMMA RoomKeeps ==
  ASSUME LedgerKeeps, NEW r \in Rooms
  PROVE  /\ bindings'[r] \subseteq bindings[r] /\ admitted'[r] = admitted[r]
            /\ (fetching'[r] = fetching[r] \/ fetching'[r] = None) /\ HostOK(r) => HostOK(r)'
         /\ admitted'[r] = admitted[r] /\ MembersOK(r) => MembersOK(r)'
<1>1. ASSUME bindings'[r] \subseteq bindings[r], admitted'[r] = admitted[r],
             fetching'[r] = fetching[r] \/ fetching'[r] = None, HostOK(r)
      PROVE  HostOK(r)'
  <2>1. \A g : Eligible(r, g) => g \in Guests /\ Eligible(r, g)'
    BY DEF Eligible, LedgerKeeps
  <2>2. \A g : IsMember(r, g)' <=> IsMember(r, g)
    BY <1>1 DEF IsMember, Members
  <2>3. QED
    BY <1>1, <2>1, <2>2 DEF HostOK
<1>2. ASSUME admitted'[r] = admitted[r], MembersOK(r)
      PROVE  MembersOK(r)'
  <2> SUFFICES ASSUME NEW a \in admitted[r]
               PROVE  /\ Eligible(r, a.guest)'
                      /\ a.offer \in DOMAIN log' /\ log'[a.offer] = log[a.offer]
                      /\ \E n \in Registrations(r)' : Admits(n, r, a.guest)' /\ n < a.offer
    BY <1>2 DEF MembersOK
  <2>1. a.guest \in Guests /\ Eligible(r, a.guest)'
    BY <1>2 DEF MembersOK, Eligible, LedgerKeeps
  <2>2. \E n \in Registrations(r)' : Admits(n, r, a.guest)' /\ n < a.offer
    BY <1>2, <2>1 DEF MembersOK, LedgerKeeps
  <2>3. QED
    BY <1>2, <2>1, <2>2 DEF MembersOK, LedgerKeeps
<1>3. QED
  BY <1>1, <1>2

LEMMA RoomStep ==
  ASSUME InviteInv, LedgerKeeps, NEW r \in Rooms, OnlyRoom(r), HostOK(r)', MembersOK(r)'
  PROVE  HostInv' /\ MembersInv' /\ Shape'
<1>1. \A s \in Rooms : HostOK(s) /\ MembersOK(s)
  BY DEF InviteInv, HostInv, MembersInv, HostOK, MembersOK
<1>2. \A s \in Rooms : HostOK(s)' /\ MembersOK(s)'
  BY <1>1, RoomKeeps DEF OnlyRoom
<1>3. QED
  BY <1>2 DEF HostInv, MembersInv, HostOK, MembersOK, Shape, OnlyRoom

LEMMA IdleStep ==
  ASSUME InviteInv, LedgerKeeps, UNCHANGED hostVars
  PROVE  HostInv' /\ MembersInv' /\ Shape'
<1>1. \A s \in Rooms : HostOK(s) /\ MembersOK(s)
  BY DEF InviteInv, HostInv, MembersInv, HostOK, MembersOK
<1>2. \A s \in Rooms : HostOK(s)' /\ MembersOK(s)'
  BY <1>1, RoomKeeps DEF hostVars
<1>3. QED
  BY <1>2 DEF HostInv, MembersInv, HostOK, MembersOK, Shape, hostVars, InviteInv

\* Guests are pairs.
LEMMA SameGuest ==
  ASSUME NEW g \in Guests, NEW h \in Guests,
         PartyOf(g) = PartyOf(h), InstallationOf(g) = InstallationOf(h)
  PROVE  g = h
BY GuestsAssumption DEF PartyOf, InstallationOf

\* Whom the ledger lists may be admitted.
LEMMA PeersAreEligible ==
  ASSUME InviteInv, NEW r \in Rooms
  PROVE  /\ KindOf[r] = "private" /\ InvitePeers(r) # <<>> => Eligible(r, Head(InvitePeers(r)))
         /\ KindOf[r] = "group" => \A g \in ToSet(InvitePeers(r)) : Eligible(r, g)
<1>1. ASSUME KindOf[r] = "private", InvitePeers(r) # <<>>
      PROVE  Eligible(r, Head(InvitePeers(r)))
  <2> DEFINE g == Head(InvitePeers(r))
  <2>1. InvitePeers(r) \in Seq(Guests)
    BY <1>1 DEF InviteInv, PeersInv
  <2>2. g \in Guests /\ g = InvitePeers(r)[1]
    BY <1>1, <2>1
  <2>3. PICK n \in Registrations(r) : IsFirst(n, r) /\ log[n].by = InvitePeers(r)[1]
    BY <1>1 DEF InviteInv, PeersInv
  <2> HIDE DEF g
  <2>4. Admits(n, r, g)
    BY <1>1, <2>2, <2>3 DEF Admits, IsFirst
  <2>5. Eligible(r, g)
    BY <1>1, <2>2, <2>4 DEF Eligible
  <2>6. QED
    BY <2>5 DEF g
<1>2. ASSUME KindOf[r] = "group", NEW g \in ToSet(InvitePeers(r))
      PROVE  Eligible(r, g)
  <2>1. PICK i \in DOMAIN InvitePeers(r) : InvitePeers(r)[i] = g
    BY DEF ToSet
  <2>2. InvitePeers(r) \in Seq(Guests) /\ \E n \in Registrations(r) : log[n].by = InvitePeers(r)[i]
    BY <1>2, <2>1 DEF InviteInv, PeersInv
  <2>3. g \in Guests
    BY <2>1, <2>2
  <2>4. \E n \in Registrations(r) : Admits(n, r, g)
    BY <1>2, <2>1, <2>2 DEF Admits
  <2>5. QED
    BY <2>1, <2>3, <2>4 DEF Eligible
<1>3. QED
  BY <1>1, <1>2

LEMMA ResolveStep ==
  ASSUME InviteInv, NEW r \in Rooms, Resolve(r) \/ Refresh(r), LedgerKeeps
  PROVE  HostInv' /\ MembersInv' /\ Shape'
<1>1. UNCHANGED <<log, fetching, admitted>>
  BY DEF Resolve, Refresh
<1>2. HostOK(r) /\ MembersOK(r)
  BY DEF InviteInv, HostInv, MembersInv, HostOK, MembersOK
<1>3. \A g \in bindings'[r] : Eligible(r, g)
  <2>1. CASE Resolve(r)
    <3>1. bindings'[r] = {Head(InvitePeers(r))}
      BY <2>1 DEF Resolve, InviteInv, Shape
    <3>2. QED
      BY <2>1, <3>1, PeersAreEligible DEF Resolve
  <2>2. CASE Refresh(r)
    <3>1. bindings'[r] = bindings[r] \cup ToSet(InvitePeers(r))
      BY <2>2 DEF Refresh, InviteInv, Shape
    <3>2. QED
      BY <1>2, <2>2, <3>1, PeersAreEligible DEF Refresh, HostOK
  <2>3. QED
    BY <2>1, <2>2
<1>4. \A g : Eligible(r, g) => Eligible(r, g)'
  BY DEF LedgerKeeps, Eligible
<1>5. HostOK(r)'
  BY <1>1, <1>2, <1>3, <1>4 DEF HostOK, IsMember, Members
<1>6. OnlyRoom(r)
  BY <1>1 DEF OnlyRoom, Resolve, Refresh, InviteInv, Shape
<1>7. QED
  BY <1>1, <1>2, <1>5, <1>6, RoomKeeps, RoomStep

LEMMA ForgetStep ==
  ASSUME InviteInv, NEW r \in Rooms, Reload(r) \/ TryLater(r), LedgerKeeps
  PROVE  HostInv' /\ MembersInv' /\ Shape'
<1>1. /\ bindings'[r] \subseteq bindings[r] /\ admitted'[r] = admitted[r] /\ fetching'[r] = None
      /\ OnlyRoom(r)
  BY DEF Reload, TryLater, OnlyRoom, InviteInv, Shape
<1>2. HostOK(r) /\ MembersOK(r)
  BY DEF InviteInv, HostInv, MembersInv, HostOK, MembersOK
<1>3. QED
  BY <1>1, <1>2, RoomKeeps, RoomStep

LEMMA FetchStep ==
  ASSUME InviteInv, NEW r \in Rooms, NEW g \in Guests, Fetch(r, g), LedgerKeeps
  PROVE  HostInv' /\ MembersInv' /\ Shape'
<1>1. /\ UNCHANGED <<bindings, admitted>> /\ OnlyRoom(r)
      /\ fetching'[r].guest = g
  BY DEF Fetch, OnlyRoom, InviteInv, Shape
<1>2. HostOK(r) /\ MembersOK(r)
  BY DEF InviteInv, HostInv, MembersInv, HostOK, MembersOK
<1>3. Eligible(r, g) /\ ~IsMember(r, g)
  BY <1>2 DEF Fetch, HostOK
<1>4. ~IsMember(r, g)'
  BY <1>1, <1>3 DEF IsMember, Members
<1>5. \A h : Eligible(r, h) => Eligible(r, h)'
  BY DEF LedgerKeeps, Eligible
<1>6. fetching'[r].guest = g /\ bindings'[r] = bindings[r]
  BY <1>1
<1>7. HostOK(r)'
  BY <1>2, <1>3, <1>4, <1>5, <1>6 DEF HostOK
<1>8. QED
  BY <1>1, <1>2, <1>7, RoomKeeps, RoomStep

-----------------------------------------------------------------------------
\* Admission

\* Of some KeyPackages one was made last.
LEMMA NewestIsOne ==
  ASSUME LedgerInv, NEW S \in SUBSET DOMAIN log, S # {}, \A n \in S : log[n].tpl = "offer"
  PROVE  Newest(S) \in S
<1>1. \A n \in S : log[n].at \in 1 .. clock /\ clock \in Nat
  BY DEF LedgerInv, IsContract, Request, Offer
<1> DEFINE ages == {clock - log[n].at : n \in S}
<1>2. ages \subseteq Nat /\ ages # {}
  BY <1>1
<1> HIDE DEF ages
<1>3. PICK a \in ages : \A b \in ages : a <= b
  BY <1>2, LeastNatural
<1>4. PICK n \in S : a = clock - log[n].at
  BY <1>3 DEF ages
<1>5. ASSUME NEW k \in S PROVE log[k].at <= log[n].at
  <2>1. clock - log[k].at \in ages
    BY DEF ages
  <2>2. QED
    BY <1>1, <1>3, <1>4, <2>1
<1>6. QED
  BY <1>5 DEF Newest

\* The registration that the KeyPackage must follow is one that lets the guest in.
LEMMA RegistrationAdmits ==
  ASSUME LedgerInv, NEW r \in Rooms, NEW g, Eligible(r, g)
  PROVE  Registration(r, g) \in Registrations(r) /\ Admits(Registration(r, g), r, g)
<1> DEFINE own == {n \in Registrations(r) :
         CASE KindOf[r] = "job"     -> log[n].by = None
           [] KindOf[r] = "private" -> PartyOf(log[n].by) = PartyOf(g)
           [] KindOf[r] = "group"   -> log[n].by = g}
<1>1. KindOf[r] \in {"private", "group", "job"}
  BY KindsAssumption
<1>2. PICK n \in Registrations(r) : Admits(n, r, g)
  BY DEF Eligible
<1>3. n \in own
  BY <1>1, <1>2 DEF Admits
<1>4. own \subseteq Nat /\ own # {}
  <2>1. DOMAIN log \subseteq Nat
    BY DEF LedgerInv
  <2>2. own \subseteq Registrations(r) /\ Registrations(r) \subseteq DOMAIN log
    BY DEF Registrations
  <2>3. QED
    BY <1>3, <2>1, <2>2
<1>5. PICK m \in own : \A k \in own : m <= k
  BY <1>4, LeastNatural
<1>6. Registration(r, g) \in own /\ \A k \in own : Registration(r, g) <= k
  BY <1>5 DEF Registration, Min
<1> DEFINE first == Registration(r, g)
<1>7. CASE KindOf[r] = "private"
  <2>1. n <= first /\ first <= n /\ n \in Nat /\ first \in Nat
    BY <1>2, <1>3, <1>4, <1>6, <1>7 DEF Admits
  <2>2. first = n
    BY <2>1
  <2>3. QED
    BY <1>2, <2>2
<1>8. CASE KindOf[r] = "group"
  BY <1>6, <1>8 DEF Admits
<1>9. CASE KindOf[r] = "job"
  BY <1>2, <1>6, <1>9 DEF Admits
<1>10. QED
  BY <1>1, <1>7, <1>8, <1>9

LEMMA AdmitStep ==
  ASSUME InviteInv, NEW r \in Rooms, Admit(r), LedgerKeeps
  PROVE  HostInv' /\ MembersInv' /\ Shape'
<1> DEFINE f == fetching[r]
           g == fetching[r].guest
           usable == Usable(r, f)
           member == [guest |-> g, offer |-> Newest(usable)]
<1>1. HostOK(r) /\ MembersOK(r) /\ LedgerInv
  BY DEF InviteInv, HostInv, MembersInv, HostOK, MembersOK
<1>2. Eligible(r, g) /\ ~IsMember(r, g) /\ usable # {}
  BY <1>1 DEF Admit, HostOK
<1>3. /\ UNCHANGED <<log, bindings>> /\ OnlyRoom(r)
      /\ admitted'[r] = admitted[r] \cup {member} /\ fetching'[r] = None
  BY DEF Admit, OnlyRoom, InviteInv, Shape
<1>4. usable \subseteq DOMAIN log /\ \A n \in usable : log[n].tpl = "offer"
  BY DEF Usable, Candidates, Offers
<1>5. \A n \in usable : log[n].by = g /\ n > Registration(r, g)
  <2> SUFFICES ASSUME NEW n \in usable PROVE log[n].by = g /\ n > Registration(r, g)
    OBVIOUS
  <2>1. log[n].by \in Guests
    BY <1>1, <1>4 DEF LedgerInv, IsContract, Request, Offer
  <2>2. /\ PartyOf(log[n].by) = PartyOf(g) /\ InstallationOf(log[n].by) = InstallationOf(g)
        /\ n > Registration(r, g)
    BY DEF Usable, Candidates, Offers
  <2>3. g \in Guests
    BY <1>2 DEF Eligible
  <2>4. QED
    BY <2>1, <2>2, <2>3, SameGuest
<1>6. Newest(usable) \in usable
  BY <1>1, <1>2, <1>4, NewestIsOne
<1>7. /\ Registration(r, g) \in Registrations(r) /\ Admits(Registration(r, g), r, g)
      /\ Registration(r, g) < Newest(usable)
  <2>1. Newest(usable) \in Nat
    BY <1>1, <1>4, <1>6 DEF LedgerInv
  <2>2. Registration(r, g) \in Registrations(r) /\ Admits(Registration(r, g), r, g)
    BY <1>1, <1>2, RegistrationAdmits
  <2>3. Registration(r, g) \in Nat
    BY <1>1, <2>2 DEF Registrations, LedgerInv
  <2>4. QED
    BY <1>5, <1>6, <2>1, <2>2, <2>3
<1>8. /\ member.guest = g /\ member.offer \in DOMAIN log
      /\ log[member.offer].tpl = "offer" /\ log[member.offer].by = g
      /\ \E n \in Registrations(r) : Admits(n, r, g) /\ n < member.offer
  BY <1>4, <1>5, <1>6, <1>7
<1>9. \A a \in admitted[r] : InstallationOf(a.guest) # InstallationOf(g)
  BY <1>2 DEF IsMember, Members
<1>10. \A a \in admitted'[r] : a \in admitted[r] \/ a = member
  BY <1>3
<1> HIDE DEF member, g, f, usable
<1>11. /\ \A h : Eligible(r, h)' <=> Eligible(r, h)
       /\ \A n, h : Admits(n, r, h)' <=> Admits(n, r, h)
       /\ Registrations(r)' = Registrations(r)
  BY <1>3 DEF Eligible, Admits, Registrations, InvitePeers
<1>12. ASSUME NEW a \in admitted'[r]
       PROVE  /\ Eligible(r, a.guest)
              /\ a.offer \in DOMAIN log /\ log[a.offer].tpl = "offer" /\ log[a.offer].by = a.guest
              /\ \E n \in Registrations(r) : Admits(n, r, a.guest) /\ n < a.offer
  <2>1. CASE a \in admitted[r]
    BY <1>1, <2>1 DEF MembersOK
  <2>2. CASE a = member
    BY <1>2, <1>8, <2>2
  <2>3. QED
    BY <1>10, <2>1, <2>2
<1>13. ASSUME NEW a \in admitted'[r], NEW b \in admitted'[r],
              InstallationOf(a.guest) = InstallationOf(b.guest)
       PROVE  a = b
  BY <1>1, <1>8, <1>9, <1>10, <1>13 DEF MembersOK
<1>14. MembersOK(r)'
  BY <1>3, <1>11, <1>12, <1>13 DEF MembersOK
<1>15. HostOK(r)'
  BY <1>1, <1>3, <1>11 DEF HostOK
<1>16. QED
  BY <1>3, <1>14, <1>15, RoomStep

-----------------------------------------------------------------------------
\* Every step

\* A guest of a job is admitted by the creator's own registration.
LEMMA CommitStep ==
  ASSUME InviteInv, NEW m \in inflight, Commit(m), LedgerKeeps
  PROVE  HostInv' /\ MembersInv' /\ Shape'
<1> DEFINE c == m.contract
<1>1. IsContract(c) /\ log \in Seq(Contracts) /\ clock \in Nat
  BY DEF InviteInv, LedgerInv
<1>2. CASE UNCHANGED bindings
  BY <1>2, IdleStep DEF Commit, hostVars
<1>3. CASE ~UNCHANGED bindings
  <2>1. /\ c.tpl = "request" /\ c.by = None /\ ~Refused(c)
        /\ bindings' = [bindings EXCEPT ![c.room] = Invited[c.room]]
        /\ UNCHANGED <<fetching, admitted>> /\ log' = Append(log, c)
    BY <1>3 DEF Commit
  <2>2. PICK r \in Rooms : KindOf[r] = "job" /\ c.room = r
    BY <1>1, <2>1, RegisteredByCreator
  <2>3. c \in Contracts
    BY <1>1, ContractHasFields
  <2>4. PICK n : n \in DOMAIN log' /\ log'[n] = c
    BY <1>1, <2>1, <2>3
  <2>5. n \in Registrations(r)'
    BY <2>1, <2>2, <2>4 DEF Registrations
  <2>6. \A g \in Invited[r] : g \in Guests /\ Admits(n, r, g)'
    BY <2>1, <2>2, <2>4, KindsAssumption DEF Admits
  <2>7. \A g \in Invited[r] : Eligible(r, g)'
    BY <2>2, <2>5, <2>6 DEF Eligible
  <2>8. OnlyRoom(r) /\ bindings'[r] = Invited[r]
    BY <2>1, <2>2 DEF OnlyRoom, InviteInv, Shape
  <2>9. HostOK(r) /\ MembersOK(r)
    BY DEF InviteInv, HostInv, MembersInv, HostOK, MembersOK
  <2>10. \A g : Eligible(r, g) => Eligible(r, g)'
    BY DEF LedgerKeeps, Eligible
  <2>11. HostOK(r)'
    BY <2>1, <2>7, <2>8, <2>9, <2>10 DEF HostOK, IsMember, Members
  <2>12. QED
    BY <2>1, <2>8, <2>9, <2>11, RoomKeeps, RoomStep
<1>4. QED
  BY <1>2, <1>3

LEMMA InviteStep == InviteInv /\ [Next]_vars => InviteInv'
<1> SUFFICES ASSUME InviteInv, [Next]_vars PROVE InviteInv'
  OBVIOUS
<1>1. LedgerInv' /\ (UNCHANGED log \/ \E c : Appends(c))
  BY LedgerStep DEF InviteInv
<1>2. PeersInv' /\ LedgerKeeps
  BY <1>1, PeersStep, AppendKeeps, StutterKeeps DEF InviteInv
<1>3. HostInv' /\ MembersInv' /\ Shape'
  <2>1. CASE UNCHANGED hostVars
    BY <1>2, <2>1, IdleStep
  <2>2. ASSUME NEW r \in Rooms, OfCreator(r)
        PROVE  HostInv' /\ MembersInv' /\ Shape'
    <3>1. CASE MakeInvite(r) \/ ApplyForJob(r) \/ InviteExpires(r)
      BY <2>1, <3>1 DEF MakeInvite, ApplyForJob, InviteExpires
    <3>2. CASE Resolve(r) \/ Refresh(r)
      BY <1>2, <3>2, ResolveStep
    <3>3. CASE Reload(r) \/ TryLater(r)
      BY <1>2, <3>3, ForgetStep
    <3>4. CASE \E g \in Guests : Fetch(r, g)
      BY <1>2, <3>4, FetchStep
    <3>5. CASE Admit(r)
      BY <1>2, <3>5, AdmitStep
    <3>6. QED
      BY <2>2, <3>1, <3>2, <3>3, <3>4, <3>5 DEF OfCreator
  <2>3. ASSUME NEW g \in Guests, OfGuest(g)
        PROVE  UNCHANGED hostVars
    BY <2>3 DEF OfGuest, Join, Advertise
  <2>4. ASSUME NEW m \in inflight, GiveUp(m)
        PROVE  UNCHANGED hostVars
    BY <2>4 DEF GiveUp
  <2>5. ASSUME NEW m \in inflight, Commit(m)
        PROVE  HostInv' /\ MembersInv' /\ Shape'
    BY <1>2, <2>5, CommitStep
  <2>6. CASE OfferExpires \/ UNCHANGED vars
    BY <2>1, <2>6 DEF OfferExpires, vars
  <2>7. QED
    BY <2>1, <2>2, <2>3, <2>4, <2>5, <2>6 DEF Next
<1>4. QED
  BY <1>1, <1>2, <1>3 DEF InviteInv

LEMMA InitInviteInv == Init => InviteInv
<1> SUFFICES ASSUME Init PROVE InviteInv
  OBVIOUS
<1>1. log = <<>> /\ inflight = {} /\ clock = 0
  BY DEF Init
<1>2. LedgerInv
  BY <1>1 DEF LedgerInv
<1>3. \A r : InvitePeers(r) = <<>> /\ Registrations(r) = {}
  BY <1>1, NoPeers DEF Registrations
<1>4. PeersInv
  <2>1. <<>> \in Seq(Guests) /\ DOMAIN <<>> = {}
    OBVIOUS
  <2>2. QED
    BY <1>3, <2>1 DEF PeersInv
<1>5. HostInv /\ MembersInv /\ Shape
  BY DEF Init, HostInv, MembersInv, Shape
<1>6. QED
  BY <1>2, <1>4, <1>5 DEF InviteInv

-----------------------------------------------------------------------------
\* The theorem

\* In a room there is one guest of a Party or of an installation that may be
\* admitted.
LEMMA OneEligible ==
  ASSUME InviteInv, NEW r \in Rooms, NEW g, NEW h, Eligible(r, g), Eligible(r, h),
         PartyOf(g) = PartyOf(h) \/ InstallationOf(g) = InstallationOf(h)
  PROVE  g = h
<1>1. KindOf[r] \in {"private", "group", "job"}
  BY KindsAssumption
<1>2. PICK n \in Registrations(r), k \in Registrations(r) : Admits(n, r, g) /\ Admits(k, r, h)
  BY DEF Eligible
<1>3. CASE KindOf[r] = "private"
  <2>1. DOMAIN log \subseteq Nat
    BY DEF InviteInv, LedgerInv
  <2>2. n \in Nat /\ k \in Nat
    BY <1>2, <2>1 DEF Registrations
  <2>3. n <= k /\ k <= n /\ log[n].by = g /\ log[k].by = h
    BY <1>2, <1>3 DEF Admits
  <2>4. n = k
    BY <2>2, <2>3
  <2>5. QED
    BY <2>3, <2>4
<1>4. CASE KindOf[r] = "group"
  BY <1>4 DEF Eligible, InviteInv, PeersInv
<1>5. CASE KindOf[r] = "job"
  BY <1>2, <1>5, KindsAssumption DEF Admits
<1>6. QED
  BY <1>1, <1>3, <1>4, <1>5

\* Whoever is admitted was registered, to a private room as the first; enters with
\* a KeyPackage of the same Party and installation that is newer than the
\* registration; and shares neither with another member: for any number of rooms,
\* guests, shared installations and losses (findInvitePeers, partyForInstallation
\* and fetchKeyPackages, each at another offset of the ledger).
THEOREM AdmissionIsSound == Spec => []AdmittedAsRegistered
<1>1. InviteInv => AdmittedAsRegistered
  <2> SUFFICES ASSUME InviteInv, NEW r \in Rooms, NEW a \in admitted[r]
               PROVE  /\ log[a.offer].tpl = "offer" /\ log[a.offer].by = a.guest
                      /\ \E n \in Registrations(r) : Admits(n, r, a.guest) /\ n < a.offer
                      /\ \A b \in admitted[r] :
                           \/ PartyOf(a.guest) = PartyOf(b.guest)
                           \/ InstallationOf(a.guest) = InstallationOf(b.guest)
                           => a = b
    BY DEF AdmittedAsRegistered
  <2>1. MembersOK(r)
    BY DEF InviteInv, MembersInv, MembersOK
  <2>2. ASSUME NEW b \in admitted[r],
               \/ PartyOf(a.guest) = PartyOf(b.guest)
               \/ InstallationOf(a.guest) = InstallationOf(b.guest)
        PROVE  a = b
    <3>1. a.guest = b.guest
      BY <2>1, <2>2, OneEligible DEF MembersOK
    <3>2. QED
      BY <2>1, <2>2, <3>1 DEF MembersOK
  <2>3. QED
    BY <2>1, <2>2 DEF MembersOK
<1>2. QED
  BY <1>1, InitInviteInv, InviteStep, PTL DEF Spec
=============================================================================
