------------------------------- MODULE Invitations -------------------------------
(***************************************************************************)
(* How a room finds its members: invitation links                          *)
(* (frontend/lib/canton-invite.ts, InvitePanel.tsx), discussions of a job  *)
(* (frontend/lib/job-conversations.ts), and the admission by the creator   *)
(* of a private room (canton-room-runtime.ts) or a group                   *)
(* (canton-group-runtime.ts), with the lookup of KeyPackages               *)
(* (messaging/canton/transport.ts) and of the Party behind an installation *)
(* (messaging/canton/authenticated-directory.ts).                          *)
(*                                                                         *)
(* A registration and an advertised KeyPackage are contracts; nobody       *)
(* archives them, and their place in `log` is their offset.  Submissions   *)
(* commit in any order.  All rooms are of one creator.  A guest is a Party *)
(* at an installation, which may have served two Parties (installationFor  *)
(* keeps what an earlier release stored for any wallet).                   *)
(***************************************************************************)
EXTENDS Integers, FiniteSets, SequencesExt

CONSTANTS
  Guests,        \* pairs of a Party and an installation
  Rooms,         \* rooms, each with its invitation or its job
  KindOf,        \* "private", "group" or "job"
  Invited,       \* the guests who have the link of a room, or published its job
  None,
  MaxMembers,    \* members a group admits (32, with its creator)
  MaxOffers,     \* bound: KeyPackages advertised
  MaxInflight,   \* bound: submissions under way at a time
  MaxFaults      \* bound: submissions or answers lost, reloads, expiries

ASSUME KindsAssumption ==
  /\ KindOf \in [Rooms -> {"private", "group", "job"}]
  /\ Invited \in [Rooms -> SUBSET Guests]
  /\ \A r \in Rooms : KindOf[r] = "job" => \E g \in Guests : Invited[r] = {g}

ASSUME GuestsAssumption ==
  /\ None \notin Guests
  /\ \A g \in Guests : g = <<g[1], g[2]>>

VARIABLES
  log,        \* the ledger's active contracts, by offset
  inflight,   \* submissions that are under way, and whether somebody waits for the answer
  made,       \* rooms whose invitation was created, or whose job was applied for
  lapsed,     \* invitations past their expiry
  bookmarks,  \* per guest, the rooms it may open
  bindings,   \* per room, the guests whom its creator admits
  fetching,   \* per room, the admission that is under way
  admitted,   \* per room, the guests admitted and the offset of their KeyPackage
  clock,      \* KeyPackages advertised so far
  stale,      \* those created up to then have expired
  faults

hostVars == <<bindings, fetching, admitted>>
vars == <<log, inflight, made, lapsed, bookmarks, hostVars, clock, stale, faults>>

\* What the creator registers, for a job, is by None.
Request(r, by) == [tpl |-> "request", room |-> r, by |-> by, at |-> 0]
Offer(by, at) == [tpl |-> "offer", room |-> None, by |-> by, at |-> at]

PartyOf(g) == g[1]
InstallationOf(g) == g[2]

Registrations(r) == {n \in DOMAIN log : log[n].tpl = "request" /\ log[n].room = r}

Submission(c) == [contract |-> c, heard |-> TRUE]

Submit(c) ==
  /\ Cardinality(inflight) < MaxInflight
  /\ inflight' = inflight \cup {Submission(c)}

Fault == faults < MaxFaults /\ faults' = faults + 1

-----------------------------------------------------------------------------
\* Invitations and registrations

\* findInvitePeers(): in the ledger's order, one guest per Party and installation.
Known(peers, g) ==
  \E k \in DOMAIN peers :
    PartyOf(peers[k]) = PartyOf(g) \/ InstallationOf(peers[k]) = InstallationOf(g)

WithPeer(peers, r, c) ==
  IF c.tpl = "request" /\ c.room = r /\ ~Known(peers, c.by) THEN Append(peers, c.by) ELSE peers

InvitePeers(r) ==
  LET peers[n \in 0 .. Len(log)] ==
        IF n = 0 THEN <<>> ELSE WithPeer(peers[n - 1], r, log[n])
  IN  peers[Len(log)]

\* makeInvite(), saveInvite(): in the creator's browser only.
MakeInvite(r) ==
  /\ KindOf[r] # "job" /\ r \notin made
  /\ made' = made \cup {r}
  /\ UNCHANGED <<log, inflight, lapsed, bookmarks, hostVars, clock, stale, faults>>

\* startJobConversation(): here the creator registers, and the guest is whoever
\* the listing names.
ApplyForJob(r) ==
  /\ KindOf[r] = "job" /\ r \notin made
  /\ made' = made \cup {r}
  /\ Submit(Request(r, None))
  /\ UNCHANGED <<log, lapsed, bookmarks, hostVars, clock, stale, faults>>

\* Whom registerInvite() finds registered already.
Existing(r, g) ==
  LET peers == ToSet(InvitePeers(r))
  IN  IF KindOf[r] = "group" THEN {p \in peers : PartyOf(p) = PartyOf(g)}
      ELSE IF peers = {} THEN {} ELSE {Head(InvitePeers(r))}

\* registerInvite(): a look at the ledger, then a submission, unless an earlier
\* one has made it.
Join(r, g) ==
  /\ r \in made \ lapsed /\ KindOf[r] # "job" /\ g \in Invited[r]
  /\ r \notin bookmarks[g] /\ Submission(Request(r, g)) \notin inflight
  /\ Existing(r, g) \subseteq {g}
  /\ IF Existing(r, g) = {g}
     THEN /\ bookmarks' = [bookmarks EXCEPT ![g] = @ \cup {r}]
          /\ UNCHANGED inflight
     ELSE /\ Submit(Request(r, g))
          /\ UNCHANGED bookmarks
  /\ UNCHANGED <<log, made, lapsed, hostVars, clock, stale, faults>>

\* A repeated registration has the command identifier of the first and is refused.
Refused(c) == c.tpl = "request" /\ \E n \in Registrations(c.room) : log[n].by = c.by

Commit(m) ==
  LET c == m.contract
      answered == c.tpl = "request" /\ m.heard /\ ~Refused(c)
  IN  /\ m \in inflight
      /\ log' = IF Refused(c) THEN log ELSE Append(log, c)
      /\ inflight' = inflight \ {m}
      /\ bookmarks' = IF answered /\ c.by # None
                      THEN [bookmarks EXCEPT ![c.by] = @ \cup {c.room}] ELSE bookmarks
      /\ bindings' = IF answered /\ c.by = None
                     THEN [bindings EXCEPT ![c.room] = Invited[c.room]] ELSE bindings
      /\ UNCHANGED <<made, lapsed, fetching, admitted, clock, stale, faults>>

\* A submission fails, or the one who made it waits no longer.
GiveUp(m) ==
  /\ Fault
  /\ m \in inflight /\ m.heard
  /\ \/ inflight' = inflight \ {m}
     \/ inflight' = (inflight \ {m}) \cup {[m EXCEPT !.heard = FALSE]}
  /\ UNCHANGED <<log, made, lapsed, bookmarks, hostVars, clock, stale>>

-----------------------------------------------------------------------------
\* A guest opens a room

\* incomingJobRooms(): the guest finds the rooms about its jobs on the ledger.
MayOpen(r, g) ==
  \/ r \in bookmarks[g]
  \/ KindOf[r] = "job" /\ g \in Invited[r] /\ Registrations(r) # {}

\* Connecting advertises a new KeyPackage to the creator, and a group's page does
\* it again when its members change.
Advertise(r, g) ==
  /\ MayOpen(r, g) /\ clock < MaxOffers
  /\ clock' = clock + 1
  /\ Submit(Offer(g, clock + 1))
  /\ UNCHANGED <<log, made, lapsed, bookmarks, hostVars, stale, faults>>

-----------------------------------------------------------------------------
\* The creator

\* resolveInvite(): the page of a private invitation polls until somebody has
\* registered, and remembers whom it found.
Resolve(r) ==
  /\ KindOf[r] = "private" /\ r \in made \ lapsed
  /\ bindings[r] = {} /\ InvitePeers(r) # <<>>
  /\ bindings' = [bindings EXCEPT ![r] = {Head(InvitePeers(r))}]
  /\ UNCHANGED <<log, inflight, made, lapsed, bookmarks, fetching, admitted, clock, stale,
                 faults>>

\* refresh() of a group adds to what the page knows.
Refresh(r) ==
  /\ KindOf[r] = "group" /\ r \in made \ lapsed
  /\ bindings' = [bindings EXCEPT ![r] = @ \cup ToSet(InvitePeers(r))]
  /\ UNCHANGED <<log, inflight, made, lapsed, bookmarks, fetching, admitted, clock, stale,
                 faults>>

\* After a reload an admission is gone; a group's page has to find its guests again.
Reload(r) ==
  /\ Fault
  /\ bindings[r] # {}
  /\ fetching' = [fetching EXCEPT ![r] = None]
  /\ bindings' = IF KindOf[r] = "group" THEN [bindings EXCEPT ![r] = {}] ELSE bindings
  /\ UNCHANGED <<log, inflight, made, lapsed, bookmarks, admitted, clock, stale>>

Members(r) == {a.guest : a \in admitted[r]}

IsMember(r, g) == \E m \in Members(r) : InstallationOf(m) = InstallationOf(g)

\* prepare() of a private room, or refresh() of a group: addMembers() for a guest
\* who is no member, beginning with a read of the advertised KeyPackages.  A
\* group's page goes through its guests one after the other.
Fetch(r, g) ==
  /\ fetching[r] = None
  /\ g \in bindings[r] /\ ~IsMember(r, g)
  /\ KindOf[r] = "group" => Cardinality(Members(r)) + 1 < MaxMembers
  /\ KindOf[r] # "group" => Members(r) = {}
  /\ fetching' = [fetching EXCEPT ![r] = [guest |-> g, upTo |-> Len(log)]]
  /\ UNCHANGED <<log, inflight, made, lapsed, bookmarks, bindings, admitted, clock, stale,
                 faults>>

\* keyPackageMinimumOffset(): the earliest registration of the room between the
\* two Parties, in a group that of the guest's installation.
Registration(r, g) ==
  Min({n \in Registrations(r) :
         CASE KindOf[r] = "job"     -> log[n].by = None
           [] KindOf[r] = "private" -> PartyOf(log[n].by) = PartyOf(g)
           [] KindOf[r] = "group"   -> log[n].by = g})

Unexpired(n) == log[n].at > stale

Offers(g) ==
  {n \in DOMAIN log : log[n].tpl = "offer" /\ InstallationOf(log[n].by) = InstallationOf(g)}

\* Mutant: KeyPackages of earlier rooms are not left out.
CandidatesOfAnyAge(r, f) == {n \in Offers(f.guest) : n <= f.upTo}

\* fetchKeyPackages(): what was advertised for the installation since.
Candidates(r, f) ==
  {n \in Offers(f.guest) : n <= f.upTo /\ n > Registration(r, f.guest)}

\* partyForInstallation(): all unexpired KeyPackages of the installation, of
\* whatever age, must be of one Party, the expected one.
Verified(g) ==
  {PartyOf(log[n].by) : n \in {k \in Offers(g) : Unexpired(k)}} = {PartyOf(g)}

\* Of those that are left, the one that expires last.
Usable(r, f) ==
  {n \in Candidates(r, f) : Unexpired(n) /\ PartyOf(log[n].by) = PartyOf(f.guest)}

Newest(offers) == CHOOSE n \in offers : \A k \in offers : log[k].at <= log[n].at

Admit(r) ==
  LET f == fetching[r]
  IN  /\ f # None
      /\ Verified(f.guest) /\ Usable(r, f) # {}
      /\ admitted' = [admitted EXCEPT ![r] =
           @ \cup {[guest |-> f.guest, offer |-> Newest(Usable(r, f))]}]
      /\ fetching' = [fetching EXCEPT ![r] = None]
      /\ UNCHANGED <<log, inflight, made, lapsed, bookmarks, bindings, clock, stale, faults>>

\* No KeyPackage, no verified binding or an ambiguous one: the page tries again.
TryLater(r) ==
  LET f == fetching[r]
  IN  /\ f # None
      /\ ~Verified(f.guest) \/ Usable(r, f) = {}
      /\ fetching' = [fetching EXCEPT ![r] = None]
      /\ UNCHANGED <<log, inflight, made, lapsed, bookmarks, bindings, admitted, clock, stale,
                     faults>>

-----------------------------------------------------------------------------
\* Time

InviteExpires(r) ==
  /\ Fault
  /\ KindOf[r] # "job" /\ r \in made \ lapsed
  /\ lapsed' = lapsed \cup {r}
  /\ UNCHANGED <<log, inflight, made, bookmarks, hostVars, clock, stale>>

\* Every KeyPackage lives equally long.
OfferExpires ==
  /\ Fault
  /\ stale < clock
  /\ stale' = stale + 1
  /\ UNCHANGED <<log, inflight, made, lapsed, bookmarks, hostVars, clock>>

-----------------------------------------------------------------------------
Init ==
  /\ log = <<>> /\ inflight = {}
  /\ made = {} /\ lapsed = {}
  /\ bookmarks = [g \in Guests |-> {}]
  /\ bindings = [r \in Rooms |-> {}]
  /\ fetching = [r \in Rooms |-> None]
  /\ admitted = [r \in Rooms |-> {}]
  /\ clock = 0 /\ stale = 0 /\ faults = 0

OfCreator(r) ==
  \/ MakeInvite(r)
  \/ ApplyForJob(r)
  \/ Resolve(r)
  \/ Refresh(r)
  \/ Reload(r)
  \/ \E g \in Guests : Fetch(r, g)
  \/ Admit(r)
  \/ TryLater(r)
  \/ InviteExpires(r)

OfGuest(g) ==
  \E r \in Rooms : Join(r, g) \/ Advertise(r, g)

Next ==
  \/ \E r \in Rooms : OfCreator(r)
  \/ \E g \in Guests : OfGuest(g)
  \/ \E m \in inflight : Commit(m) \/ GiveUp(m)
  \/ OfferExpires

Spec == Init /\ [][Next]_vars

-----------------------------------------------------------------------------
\* Properties

\* The registration that lets a guest into a room: in a private room the first
\* there is, in a group one of that guest, of a job the applicant's.
Admits(n, r, g) ==
  CASE KindOf[r] = "private" -> log[n].by = g /\ \A k \in Registrations(r) : n <= k
    [] KindOf[r] = "group"   -> log[n].by = g
    [] KindOf[r] = "job"     -> log[n].by = None /\ g \in Invited[r]

\* Creator and guest agree on who joins, however guests race, submissions commit
\* late and pages reload: whoever is admitted to a room was registered for it (to
\* a private one as the first), enters with a KeyPackage that the same Party
\* advertised for the same installation after the registration, and no two
\* members of a room share a Party or an installation.
AdmittedAsRegistered ==
  \A r \in Rooms : \A a \in admitted[r] :
    /\ log[a.offer].tpl = "offer" /\ log[a.offer].by = a.guest
    /\ \E n \in Registrations(r) : Admits(n, r, a.guest) /\ n < a.offer
    /\ \A b \in admitted[r] :
         \/ PartyOf(a.guest) = PartyOf(b.guest)
         \/ InstallationOf(a.guest) = InstallationOf(b.guest)
         => a = b
=============================================================================
