------------------------- MODULE RelayCheckpoints_proofs -------------------------
(***************************************************************************)
(* Theorems of RelayMessaging about what a checkpoint contains: the type   *)
(* invariant, that nothing behind the handshake cursor is missing from the *)
(* MLS state it is saved with, that every commit the relay has is in the   *)
(* stored checkpoint of its author, and that a sync gets on with what the  *)
(* relay serves it.  All four are about the agreement of the places that   *)
(* hold MLS state or its traces: a runtime's memory, the save it has in    *)
(* progress, the stored checkpoint, and the relay with its inboxes.        *)
(***************************************************************************)
EXTENDS RelayMessaging_proofs, NaturalsInduction, WellFoundedInduction, FiniteSetTheorems

-----------------------------------------------------------------------------
\* Sequences and sets of numbers

\* A non-empty set of numbers has a least one.
LEMMA LeastNatural ==
  ASSUME NEW S, S \subseteq Nat, S # {}
  PROVE  \E x \in S : \A y \in S : x <= y
<1>1. PICK x \in S : \A y \in S : <<y, x>> \notin OpToRel(<, Nat)
  BY NatLessThanWellFounded, WFMin, Zenon
<1>2. \A y \in S : ~ (y < x)
  BY <1>1, Zenon DEF OpToRel
<1> QED
  BY <1>2

LEMMA MinOfBatch ==
  ASSUME NEW S, S \subseteq Nat, S # {}
  PROVE  Min(S) \in S /\ \A y \in S : Min(S) <= y
BY LeastNatural DEF Min

\* A non-empty set of numbers with a bound has a greatest one: the least bound
\* it has is one of them.
LEMMA MaxOfBatch ==
  ASSUME NEW S, NEW k \in Nat, S \subseteq 1 .. k, S # {}
  PROVE  Max(S) \in S /\ \A y \in S : y <= Max(S)
<1> DEFINE Bounds == {b \in Nat : \A y \in S : y <= b}
<1>0. \A y \in S : y \in 1 .. k
  OBVIOUS
<1>1. PICK b \in Bounds : \A c \in Bounds : b <= c
  <2>1. Bounds \subseteq Nat /\ k \in Bounds
    BY <1>0
  <2> HIDE DEF Bounds
  <2>2. QED
    BY <2>1, LeastNatural
<1>2. b \in S
  <2> SUFFICES ASSUME b \notin S PROVE FALSE
    OBVIOUS
  <2>1. b \in Nat /\ \A y \in S : y \in Nat /\ y >= 1 /\ y <= b /\ y # b
    BY <1>0, <1>1
  <2>2. b - 1 \in Nat
    <3>1. PICK y \in S : TRUE
      OBVIOUS
    <3>2. QED
      BY <2>1, <3>1
  <2>3. \A y \in S : y <= b - 1
    BY <2>1
  <2>4. QED
    BY <1>1, <2>1, <2>2, <2>3
<1>3. \E x \in S : \A y \in S : x >= y
  BY <1>1, <1>2
<1>4. QED
  BY <1>3 DEF Max

LEMMA PrefixOrder ==
  ASSUME NEW S, NEW s \in Seq(S)
  PROVE  /\ IsPrefix(s, s)
         /\ \A t, u \in Seq(S) : IsPrefix(s, t) /\ IsPrefix(t, u) => IsPrefix(s, u)
         /\ \A x \in S : IsPrefix(s, Append(s, x))
BY DEF IsPrefix

LEMMA FrontIsBefore ==
  ASSUME NEW S, NEW s \in Seq(S), s # <<>>
  PROVE  Front(s) \in Seq(S) /\ IsPrefix(Front(s), s) /\ Last(s) \in S
BY DEF IsPrefix, Front, Last

-----------------------------------------------------------------------------
\* The relay: what of a batch reaches an inbox

\* f holds what of the first i deliveries is addressed to n, for each i up to m.
Picks(f, m, ds, n) ==
  f = [i \in 0 .. m |->
        IF i = 0 THEN <<>>
        ELSE IF ds[i].to = n THEN Append(f[i - 1], ds[i])
        ELSE f[i - 1]]

LEMMA PicksExist ==
  ASSUME NEW ds, NEW n, NEW m \in Nat
  PROVE  \E f : Picks(f, m, ds, n)
<1> DEFINE Fails == {k \in Nat : ~\E f : Picks(f, k, ds, n)}
<1>1. SUFFICES ASSUME Fails # {} PROVE FALSE
  OBVIOUS
<1>2. PICK k \in Fails : \A j \in Fails : k <= j
  BY <1>1, LeastNatural
<1>3. CASE k = 0
  <2>1. Picks([i \in 0 .. 0 |-> <<>>], 0, ds, n)
    BY DEF Picks
  <2>2. QED
    BY <1>3, <2>1
<1>4. CASE k # 0
  <2>1. k - 1 \in Nat /\ k - 1 \notin Fails
    BY <1>2, <1>4
  <2>2. PICK f : Picks(f, k - 1, ds, n)
    BY <2>1
  <2> DEFINE last == IF ds[k].to = n THEN Append(f[k - 1], ds[k]) ELSE f[k - 1]
             g == [i \in 0 .. k |-> IF i = k THEN last ELSE f[i]]
  <2>3. \A i \in 0 .. k - 1 : f[i] = IF i = 0 THEN <<>>
                                     ELSE IF ds[i].to = n THEN Append(f[i - 1], ds[i])
                                     ELSE f[i - 1]
    BY <2>2 DEF Picks
  <2>4. \A i \in 0 .. k : g[i] = IF i = 0 THEN <<>>
                                 ELSE IF ds[i].to = n THEN Append(g[i - 1], ds[i])
                                 ELSE g[i - 1]
    <3> SUFFICES ASSUME NEW i \in 0 .. k
                 PROVE  g[i] = IF i = 0 THEN <<>>
                               ELSE IF ds[i].to = n THEN Append(g[i - 1], ds[i])
                               ELSE g[i - 1]
      OBVIOUS
    <3>1. CASE i = k
      BY <1>4, <3>1
    <3>2. CASE i # k
      BY <2>1, <2>3, <3>2
    <3>3. QED
      BY <3>1, <3>2
  <2>5. Picks(g, k, ds, n)
    BY <2>4 DEF Picks
  <2>6. QED
    BY <2>5
<1>5. QED
  BY <1>3, <1>4

\* What f holds of the batch ds are deliveries in T.
Picked(f, ds, n, T) ==
  \A i \in 0 .. Len(ds) :
    /\ f[i] \in Seq(T)
    /\ f[i] = IF i = 0 THEN <<>>
              ELSE IF ds[i].to = n THEN Append(f[i - 1], ds[i])
              ELSE f[i - 1]

LEMMA PicksAre ==
  ASSUME NEW S, NEW ds \in Seq(S), NEW n, NEW f, Picks(f, Len(ds), ds, n),
         NEW T, T = {d \in S : d.to = n}
  PROVE  Picked(f, ds, n, T)
<1> DEFINE Fails == {i \in 0 .. Len(ds) : f[i] \notin Seq(T)}
<1>1. \A i \in 0 .. Len(ds) : f[i] = IF i = 0 THEN <<>>
                                     ELSE IF ds[i].to = n THEN Append(f[i - 1], ds[i])
                                     ELSE f[i - 1]
  BY DEF Picks
<1>2. SUFFICES ASSUME Fails # {} PROVE FALSE
  BY <1>1 DEF Picked
<1>3. PICK i \in Fails : \A j \in Fails : i <= j
  <2>1. Fails \subseteq Nat
    OBVIOUS
  <2> HIDE DEF Fails
  <2>2. QED
    BY <1>2, <2>1, LeastNatural
<1>4. /\ i \in 0 .. Len(ds) /\ f[i] \notin Seq(T)
      /\ f[i] = IF i = 0 THEN <<>>
                ELSE IF ds[i].to = n THEN Append(f[i - 1], ds[i])
                ELSE f[i - 1]
  BY <1>1, <1>3
<1>5. CASE i = 0
  BY <1>4, <1>5
<1>6. CASE i # 0
  <2>1. f[i - 1] \in Seq(T) /\ i \in 1 .. Len(ds)
    BY <1>3, <1>4, <1>6
  <2>2. ds[i].to = n => ds[i] \in T
    BY <2>1
  <2>3. f[i] \in Seq(T)
    <3>1. \A x \in T, t \in Seq(T) : Append(t, x) \in Seq(T)
      OBVIOUS
    <3>2. QED
      BY <1>4, <1>6, <2>1, <2>2, <3>1
  <2>4. QED
    BY <1>4, <2>3
<1>7. QED
  BY <1>5, <1>6

LEMMA AddressedAre ==
  ASSUME NEW S, NEW ds \in Seq(S), NEW n
  PROVE  Addressed(ds, n) \in Seq({d \in S : d.to = n})
<1>1. PICK f : f = CHOOSE g : Picks(g, Len(ds), ds, n)
  OBVIOUS
<1>2. Picks(f, Len(ds), ds, n)
  BY <1>1, PicksExist
<1>3. Addressed(ds, n) = f[Len(ds)]
  BY <1>1 DEF Addressed, Picks
<1>4. PICK T : T = {d \in S : d.to = n}
  OBVIOUS
<1>5. Picked(f, ds, n, T) /\ Len(ds) \in 0 .. Len(ds)
  BY <1>2, <1>4, PicksAre
<1>6. QED
  BY <1>3, <1>4, <1>5 DEF Picked

\* Every delivery to n is among them.
LEMMA AddressedCovers ==
  ASSUME NEW S, NEW ds \in Seq(S), NEW n, NEW k \in 1 .. Len(ds), ds[k].to = n
  PROVE  \E p \in 1 .. Len(Addressed(ds, n)) : Addressed(ds, n)[p] = ds[k]
<1>1. PICK f : f = CHOOSE g : Picks(g, Len(ds), ds, n)
  OBVIOUS
<1>2. Picks(f, Len(ds), ds, n)
  BY <1>1, PicksExist
<1>3. Addressed(ds, n) = f[Len(ds)]
  BY <1>1 DEF Addressed, Picks
<1>4. PICK T : T = {d \in S : d.to = n}
  OBVIOUS
<1>5. Picked(f, ds, n, T)
  BY <1>2, <1>4, PicksAre
<1> DEFINE Holds(s) == \E p \in 1 .. Len(s) : s[p] = ds[k]
           Fails == {i \in k .. Len(ds) : ~Holds(f[i])}
<1>6. \A x \in S, s \in Seq(T) : x \in T /\ Holds(s) => Holds(Append(s, x))
  <2> SUFFICES ASSUME NEW x \in T, NEW s \in Seq(T), NEW p \in 1 .. Len(s), s[p] = ds[k]
               PROVE  Append(s, x)[p] = ds[k] /\ p \in 1 .. Len(Append(s, x))
    OBVIOUS
  <2>1. QED
    OBVIOUS
<1>7. SUFFICES ASSUME Fails # {} PROVE FALSE
  BY <1>3
<1>8. PICK i \in Fails : \A j \in Fails : i <= j
  <2>1. Fails \subseteq Nat
    OBVIOUS
  <2> HIDE DEF Fails
  <2>2. QED
    BY <1>7, <2>1, LeastNatural
<1>9. /\ i \in 1 .. Len(ds) /\ i \in k .. Len(ds) /\ ~Holds(f[i])
      /\ f[i - 1] \in Seq(T) /\ ds[i] \in S
      /\ f[i] = IF ds[i].to = n THEN Append(f[i - 1], ds[i]) ELSE f[i - 1]
  BY <1>5, <1>8 DEF Picked
<1>10. CASE i = k
  <2>1. PICK s \in Seq(T), x \in T : s = f[i - 1] /\ x = ds[k]
    BY <1>4, <1>9, <1>10
  <2>2. f[i] = Append(s, x) /\ Append(s, x)[Len(s) + 1] = x /\ Len(Append(s, x)) = Len(s) + 1
    BY <1>9, <1>10, <2>1
  <2>3. Len(s) + 1 \in 1 .. Len(s) + 1
    BY <2>1
  <2>4. Holds(f[i])
    BY <2>1, <2>2, <2>3
  <2>5. QED
    BY <1>9, <2>4
<1>11. CASE i # k
  <2>1. Holds(f[i - 1])
    <3>1. i - 1 \in k .. Len(ds) /\ ~(i <= i - 1)
      BY <1>9, <1>11
    <3>2. i - 1 \notin Fails
      BY <1>8, <3>1
    <3>3. QED
      BY <3>1, <3>2
  <2>2. ds[i].to = n => ds[i] \in T
    BY <1>4, <1>9
  <2> HIDE DEF Holds
  <2>3. QED
    BY <1>6, <1>9, <2>1, <2>2
<1>12. QED
  BY <1>10, <1>11

-----------------------------------------------------------------------------
\* The inductive invariant.  Its parts are about values, not about variables: m is
\* the MLS state of an installation n, log its inbox, boxes all inboxes, s and i
\* the runtime and the load or save that a runtime has in progress.

\* The state knows of nothing that is not in the inbox yet, and what it takes for
\* processed was applied to it.
Covers(log, m) ==
  /\ m.cursor <= Len(log)
  /\ \A k \in DOMAIN m.processed : m.processed[k] \in 1 .. Len(log)
  /\ \A k \in 1 .. Len(log) :
       k <= m.cursor \/ k \in Range(m.processed) => Reflects(m, log[k])

\* Only who created a conversation has a commit of it pending: nobody else's
\* commit can come before it is merged.
Owned(n, m) ==
  \A c \in Conversations :
    m.groups[c] # None /\ m.groups[c].pending # None => CreatorOf[c] = n

StateOK(n, m, log) ==
  /\ m \in States /\ Len(m.processed) <= Remembered
  /\ Covers(log, m)
  /\ Owned(n, m)

\* The commit of e is in m, made or prepared.
Has(m, e) ==
  LET g == m.groups[e.conv]
  IN  g # None /\ (IsPrefix(e.line, g.line) \/ (g.pending # None /\ e.line = NewLine(g)))

HasAll(n, m, boxes) ==
  \A k \in Installations : \A p \in DOMAIN boxes[k] :
    boxes[k][p].from = n => Has(m, boxes[k][p])

Runs(s) == s.page \in {"open", "left"}
Saves(i) == i.at \in {"key", "generate", "put"}

\* What a runtime is at says what it works on.
OnCourse(s, i) ==
  /\ s.pc \in {"initialize", "package", "announce"} => s.op = "init"
  /\ s.pc = "create" => s.op = "create"
  /\ s.pc = "fetch" => s.op = "add"
  /\ s.pc = "prepare" => s.op \in {"add", "remove"}
  /\ s.pc \in {"pull", "take", "synced"} => s.op = "sync"
  /\ s.op \in {"create", "add", "remove"} =>
       s.conv \in Conversations /\ CreatorOf[s.conv] = s.home
  /\ s.op \in {"add", "remove"} => s.peer \in Installations
  /\ s.pc \in {"publish", "merge", "post", "mark"} =>
       /\ s.target \in Conversations /\ s.mem.groups[s.target] # None
       /\ s.own \/ s.op # "remove"
  /\ s.pc \in {"publish", "merge"} => s.mem.groups[s.target].pending # None
  /\ s.pc = "initialize" => s.mem = Fresh /\ s.cursor = 0
  /\ i.at \in {"load", "open"} <=> s.pc = "initialize"

RuntimeOK(s, i) ==
  /\ s \in RuntimeStates
  /\ s.page # "none" => s.home \in Installations
  /\ ~Runs(s) => s.batch = {} /\ s.mem = Fresh
  /\ i.at \in {"idle", "load", "open", "key", "generate", "put"}
  /\ i.key \in Runtimes \cup {None}
  /\ i.at = "put" => i.key # None
  /\ OnCourse(s, i)

\* Every MLS state that r holds is one of its installation, and a sync has applied
\* what it is past.
WorkOK(s, i, log) ==
  /\ StateOK(s.home, s.mem, log)
  /\ i.at = "open" /\ i.data # None =>
       i.data \in Ciphers(States) /\ StateOK(s.home, i.data.data, log)
  /\ Saves(i) => StateOK(s.home, i.data, log)
  /\ s.batch \subseteq 1 .. Len(log)
  /\ s.cursor <= s.mem.cursor
  /\ s.pc = "take" =>
       /\ s.cursor <= s.next /\ s.next <= Len(log)
       /\ \A k \in 1 .. s.next : k \in s.batch \/ Reflects(s.mem, log[k])
  /\ s.pc = "synced" => s.mem.cursor = s.next

Contents(cipher) == IF cipher = None THEN Fresh ELSE cipher.data

\* The memory of a runtime is the stored state, or about to be.
InSync(s, i, saved, boxes) ==
  /\ i.at = "idle" => s.mem = saved
  /\ i.at = "open" => Contents(i.data) = saved
  /\ Saves(i) => i.data = s.mem /\ HasAll(s.home, i.data, boxes)

\* Until runtimes of an installation overlap, it has one at a time.
OneRuns ==
  \A r, t \in Runtimes :
    /\ Running(r) /\ Running(t) /\ Home(r) = Home(t)
    /\ "overlap" \notin suffered[Home(r)]
    => r = t

\* What the relay has.
MailOK(boxes) ==
  \A n \in Installations :
    /\ boxes[n] \in Seq(Handshakes)
    /\ \A p \in 1 .. Len(boxes[n]) :
         /\ boxes[n][p].to = n /\ boxes[n][p].from # n
         /\ CreatorOf[boxes[n][p].conv] = boxes[n][p].from

Stores ==
  /\ checkpoints \in [Installations -> Ciphers(States) \cup {None}]
  /\ keyPackages \in [Installations -> Runtimes \cup {None}]
  /\ faults \in 0 .. MaxFaults
  /\ MailOK(inbox)
  /\ \A n \in Installations :
       /\ StateOK(n, Saved(n), inbox[n])
       /\ suffered[n] = {} => HasAll(n, Saved(n), inbox)

\* r is in order.
InOrder(r) ==
  /\ RuntimeOK(rt[r], io[r])
  /\ Running(r) =>
       /\ WorkOK(rt[r], io[r], inbox[Home(r)])
       /\ suffered[Home(r)] = {} => InSync(rt[r], io[r], Saved(Home(r)), inbox)

RelayInv == Stores /\ OneRuns /\ \A r \in Runtimes : InOrder(r)

-----------------------------------------------------------------------------
\* What stays when others act

\* The inbox goes on from what it was.
GoesOnFrom(log, new) ==
  /\ log \in Seq(Handshakes) /\ new \in Seq(Handshakes)
  /\ Len(log) <= Len(new) /\ \A p \in 1 .. Len(log) : new[p] = log[p]

LEMMA StateStays ==
  ASSUME NEW n, NEW m, NEW log, NEW new, StateOK(n, m, log), GoesOnFrom(log, new)
  PROVE  StateOK(n, m, new)
<1>1. m.cursor \in Nat /\ m.processed \in Seq(Nat)
  BY DEF StateOK, States
<1>2. Len(log) \in Nat /\ Len(new) \in Nat
  BY DEF GoesOnFrom
<1>3. \A p \in 1 .. Len(new) : p <= m.cursor \/ p \in Range(m.processed) => p \in 1 .. Len(log)
  BY <1>1, <1>2 DEF StateOK, Covers, Range
<1>4. Covers(new, m)
  BY <1>1, <1>2, <1>3 DEF StateOK, Covers, GoesOnFrom
<1>5. QED
  BY <1>4 DEF StateOK

LEMMA WorkStays ==
  ASSUME NEW s, NEW i, NEW log, NEW new, WorkOK(s, i, log), s \in RuntimeStates,
         GoesOnFrom(log, new)
  PROVE  WorkOK(s, i, new)
<1>1. Len(log) \in Nat /\ Len(new) \in Nat /\ s.next \in Nat
  BY DEF GoesOnFrom, RuntimeStates
<1>2. \A m : StateOK(s.home, m, log) => StateOK(s.home, m, new)
  BY StateStays
<1>3. s.pc = "take" => \A k \in 1 .. s.next : k \in 1 .. Len(log)
  BY <1>1 DEF WorkOK
<1>4. QED
  BY <1>1, <1>2, <1>3 DEF WorkOK, GoesOnFrom

LEMMA SameInbox ==
  ASSUME RelayInv, NEW n \in Installations
  PROVE  GoesOnFrom(inbox[n], inbox[n])
BY DEF RelayInv, Stores, MailOK, GoesOnFrom

LEMMA RunsAtHome ==
  ASSUME RelayInv, NEW r \in Runtimes, Running(r)
  PROVE  Home(r) \in Installations /\ rt[r] \in RuntimeStates /\ Runs(rt[r])
BY DEF RelayInv, InOrder, RuntimeOK, Running, Runs, Home

\* A runtime that does not move, and whose installation's store does not either,
\* stays in order.
LEMMA OrderStays ==
  ASSUME RelayInv, NEW r \in Runtimes, rt'[r] = rt[r], io'[r] = io[r], inbox' = inbox,
         \A n \in Installations : suffered[n] \subseteq suffered'[n],
         \A n \in Installations : Running(r) /\ Home(r) = n => checkpoints'[n] = checkpoints[n]
  PROVE  InOrder(r)'
<1>1. InOrder(r)
  BY DEF RelayInv
<1>2. CASE ~Running(r)
  BY <1>1, <1>2 DEF InOrder, Running
<1>3. CASE Running(r)
  <2>1. PICK n \in Installations : n = Home(r)
    BY <1>3, RunsAtHome
  <2>2. Home(r)' = n /\ Running(r)' /\ Saved(n)' = Saved(n) /\ suffered[n] \subseteq suffered'[n]
    BY <1>3, <2>1 DEF Home, Running, Saved
  <2>3. RuntimeOK(rt'[r], io'[r]) /\ WorkOK(rt'[r], io'[r], inbox'[n])
    BY <1>1, <1>3, <2>1 DEF InOrder
  <2>4. suffered'[n] = {} => InSync(rt'[r], io'[r], Saved(n)', inbox')
    BY <1>1, <1>3, <2>1, <2>2 DEF InOrder
  <2>5. QED
    BY <2>1, <2>2, <2>3, <2>4 DEF InOrder
<1>4. QED
  BY <1>2, <1>3

\* A step that leaves the checkpoints and the inboxes alone keeps what they hold in order.
LEMMA StoresStay ==
  ASSUME RelayInv, UNCHANGED <<checkpoints, inbox>>,
         keyPackages' \in [Installations -> Runtimes \cup {None}], faults' \in 0 .. MaxFaults,
         \A n \in Installations : suffered[n] \subseteq suffered'[n]
  PROVE  Stores'
<1>1. \A n \in Installations : Saved(n)' = Saved(n)
  BY DEF Saved
<1>2. Stores
  BY DEF RelayInv
<1>3. \A n \in Installations : /\ StateOK(n, Saved(n)', inbox'[n])
                               /\ suffered'[n] = {} => HasAll(n, Saved(n)', inbox')
  BY <1>1, <1>2 DEF Stores
<1>4. QED
  BY <1>2, <1>3 DEF Stores

\* Nobody starts to run.
LEMMA OneStays ==
  ASSUME RelayInv,
         \A n \in Installations : suffered[n] \subseteq suffered'[n],
         \A r \in Runtimes : Running(r)' => Running(r) /\ Home(r)' = Home(r)
  PROVE  OneRuns'
<1> SUFFICES ASSUME NEW r \in Runtimes, NEW t \in Runtimes, Running(r)', Running(t)',
                    Home(r)' = Home(t)', "overlap" \notin suffered'[Home(r)']
             PROVE  r = t
  BY DEF OneRuns, Home, Running
<1>1. Running(r) /\ Running(t) /\ Home(r) = Home(t) /\ Home(r) \in Installations /\ Home(r)' = Home(r)
  BY RunsAtHome
<1>2. suffered[Home(r)] \subseteq suffered'[Home(r)]
  BY <1>1
<1>3. QED
  BY <1>1, <1>2 DEF RelayInv, OneRuns

-----------------------------------------------------------------------------
\* The steps that leave the store and the inboxes alone

\* What r may become, its load or save being i then.
Sound(r, new, i) ==
  /\ new.home = Home(r)
  /\ RuntimeOK(new, i)
  /\ Runs(new) =>
       /\ WorkOK(new, i, inbox[Home(r)])
       /\ suffered'[Home(r)] = {} => InSync(new, i, Saved(Home(r)), inbox)

LEMMA TurnKeeps ==
  ASSUME RelayInv, NEW r \in Runtimes, Running(r),
         NEW new, NEW i, Sound(r, new, i),
         rt'[r] = new, io'[r] = i,
         \A t \in Runtimes \ {r} : rt'[t] = rt[t] /\ io'[t] = io[t],
         UNCHANGED <<checkpoints, inbox>>,
         keyPackages' \in [Installations -> Runtimes \cup {None}], faults' \in 0 .. MaxFaults,
         \A n \in Installations : suffered[n] \subseteq suffered'[n]
  PROVE  RelayInv'
<1>1. \A t \in Runtimes : Running(t)' => Running(t) /\ Home(t)' = Home(t)
  BY DEF Running, Home, Sound
<1>2. Stores' /\ OneRuns'
  BY <1>1, StoresStay, OneStays
<1>3. ASSUME NEW t \in Runtimes PROVE InOrder(t)'
  <2>1. CASE t # r
    BY <2>1, OrderStays
  <2>2. CASE t = r
    <3>1. PICK n \in Installations : n = Home(r)
      BY RunsAtHome
    <3>2. Home(r)' = n /\ (Running(r)' <=> Runs(new)) /\ Saved(n)' = Saved(n)
      BY <3>1 DEF Home, Running, Runs, Saved, Sound
    <3>3. RuntimeOK(rt'[r], io'[r])
      BY DEF Sound
    <3>4. Running(r)' => /\ WorkOK(rt'[r], io'[r], inbox'[n])
                         /\ suffered'[n] = {} => InSync(rt'[r], io'[r], Saved(n)', inbox')
      BY <3>1, <3>2 DEF Sound
    <3>5. QED
      BY <2>2, <3>2, <3>3, <3>4 DEF InOrder
  <2>3. QED
    BY <2>1, <2>2
<1>4. QED
  BY <1>2, <1>3 DEF RelayInv

-----------------------------------------------------------------------------
\* Operations that end

LEMMA FreshState ==
  ASSUME NEW n, NEW log \in Seq(Handshakes)
  PROVE  /\ Fresh \in States /\ Fresh.cursor = 0 /\ Fresh.processed = <<>>
         /\ \A c \in Conversations : Fresh.groups[c] = None
         /\ StateOK(n, Fresh, log)
<1>1. /\ Fresh \in States /\ Fresh.cursor = 0 /\ Fresh.processed = <<>>
      /\ \A c \in Conversations : Fresh.groups[c] = None
  BY DEF Fresh, States
<1>2. Len(log) \in Nat /\ Remembered \in Nat
  BY RememberedAssumption
<1>3. Covers(log, Fresh)
  BY <1>1, <1>2 DEF Covers, Range
<1>4. QED
  BY <1>1, <1>2, <1>3 DEF StateOK, Owned

LEMMA RuntimeTyped ==
  ASSUME NEW n \in Installations \cup {None}, NEW page \in {"none", "open", "left", "gone"}
  PROVE  /\ Runtime(n, page) \in RuntimeStates
         /\ Runtime(n, page).home = n /\ Runtime(n, page).page = page
         /\ Runtime(n, page).mem = Fresh /\ Runtime(n, page).cursor = 0
         /\ Runtime(n, page).op = "none" /\ Runtime(n, page).pc = "none"
         /\ Runtime(n, page).batch = {}
<1>1. Fresh \in States
  BY DEF Fresh, States
<1>2. QED
  BY <1>1 DEF Runtime, RuntimeStates

\* A runtime without an operation: it is over, or waits for the next one.
LEMMA RestTyped ==
  ASSUME RelayInv, NEW r \in Runtimes, Running(r), NEW cursor \in Nat,
         NEW new \in {Gone(r), Rest(r, cursor)}
  PROVE  /\ new \in RuntimeStates /\ new.home = Home(r)
         /\ new.op = "none" /\ new.pc = "none" /\ new.batch = {}
         /\ \/ ~Runs(new) /\ new.mem = Fresh
            \/ Runs(new) /\ new.mem = rt[r].mem /\ new.cursor = cursor /\ new # Gone(r)
<1>1. Home(r) \in Installations /\ rt[r].mem \in States
  BY RunsAtHome DEF RuntimeStates
<1>2. CASE new = Gone(r)
  BY <1>1, <1>2, RuntimeTyped DEF Gone, Runs
<1>3. CASE new # Gone(r)
  <2> DEFINE fresh == Runtime(Home(r), "open")
  <2>1. /\ fresh \in RuntimeStates /\ fresh.home = Home(r) /\ fresh.page = "open"
        /\ fresh.op = "none" /\ fresh.pc = "none" /\ fresh.batch = {}
    BY <1>1, RuntimeTyped
  <2>2. new = [fresh EXCEPT !.mem = rt[r].mem, !.cursor = cursor]
    BY <1>3 DEF Rest
  <2> HIDE DEF fresh
  <2>3. /\ new \in RuntimeStates /\ new.home = Home(r) /\ new.page = "open"
        /\ new.op = "none" /\ new.pc = "none" /\ new.batch = {}
        /\ new.mem = rt[r].mem /\ new.cursor = cursor
    BY <1>1, <2>1, <2>2 DEF RuntimeStates
  <2>4. QED
    BY <1>3, <2>3 DEF Runs
<1>4. QED
  BY <1>2, <1>3

LEMMA EndSound ==
  ASSUME RelayInv, NEW r \in Runtimes, Running(r), NEW cursor \in Nat,
         cursor <= rt[r].mem.cursor,
         NEW new \in {Gone(r), Rest(r, cursor)},
         NEW i, i.at = "idle", i.key \in Runtimes \cup {None},
         new # Gone(r) /\ suffered'[Home(r)] = {} => rt[r].mem = Saved(Home(r))
  PROVE  Sound(r, new, i)
<1>1. /\ new \in RuntimeStates /\ new.home = Home(r)
      /\ new.op = "none" /\ new.pc = "none" /\ new.batch = {}
      /\ \/ ~Runs(new) /\ new.mem = Fresh
         \/ Runs(new) /\ new.mem = rt[r].mem /\ new.cursor = cursor /\ new # Gone(r)
  BY RestTyped
<1>2. Home(r) \in Installations
  BY RunsAtHome
<1>3. RuntimeOK(new, i)
  BY <1>1, <1>2 DEF RuntimeOK, OnCourse
<1>4. ASSUME Runs(new) PROVE WorkOK(new, i, inbox[Home(r)])
  <2>1. StateOK(Home(r), rt[r].mem, inbox[Home(r)])
    BY DEF RelayInv, InOrder, WorkOK, Home
  <2>2. QED
    BY <1>1, <1>4, <2>1 DEF WorkOK, Saves
<1>5. ASSUME Runs(new), suffered'[Home(r)] = {} PROVE InSync(new, i, Saved(Home(r)), inbox)
  BY <1>1, <1>5 DEF InSync, Saves
<1>6. QED
  BY <1>1, <1>3, <1>4, <1>5 DEF Sound

\* What an idle runtime holds is what is stored, in an installation that suffered
\* nothing.
LEMMA IdleInSync ==
  ASSUME RelayInv, NEW r \in Runtimes, Running(r), io[r].at = "idle",
         suffered[Home(r)] = {}
  PROVE  rt[r].mem = Saved(Home(r))
BY DEF RelayInv, InOrder, InSync

\* The counters of a runtime.
LEMMA CursorsInOrder ==
  ASSUME RelayInv, NEW r \in Runtimes, Running(r)
  PROVE  /\ rt[r].cursor \in Nat /\ rt[r].mem.cursor \in Nat /\ rt[r].next \in Nat
         /\ rt[r].cursor <= rt[r].mem.cursor
         /\ io[r].key \in Runtimes \cup {None}
<1>1. rt[r] \in RuntimeStates /\ rt[r].mem \in States
  BY RunsAtHome DEF RuntimeStates
<1>2. QED
  BY <1>1 DEF RelayInv, InOrder, RuntimeOK, WorkOK, RuntimeStates, States

LEMMA AbortKeeps ==
  ASSUME RelayInv, KeyInv, NEW r \in Runtimes, Running(r), Abort(r),
         \/ io' = io /\ io[r].at = "idle"
         \/ io' = [io EXCEPT ![r] = NoIO],
         io[r].at = "idle" \/ rt[r].op = "init" \/ suffered'[Home(r)] # {},
         UNCHANGED <<store, inbox>>,
         keyPackages' \in [Installations -> Runtimes \cup {None}], faults' \in 0 .. MaxFaults,
         \A n \in Installations : suffered[n] \subseteq suffered'[n]
  PROVE  RelayInv'
<1> DEFINE new == rt'[r]
<1>1. DOMAIN rt = Runtimes /\ DOMAIN io = Runtimes
  BY DEF KeyInv, Shape
<1>2. /\ new = IF rt[r].op = "init" THEN Gone(r) ELSE Rest(r, rt[r].cursor)
      /\ \A t \in Runtimes \ {r} : rt'[t] = rt[t]
  BY <1>1 DEF Abort, Step
<1>3. /\ io'[r].at = "idle" /\ io'[r].key \in Runtimes \cup {None}
      /\ \A t \in Runtimes \ {r} : io'[t] = io[t]
  BY <1>1, CursorsInOrder DEF NoIO
<1>4. new \in {Gone(r), Rest(r, rt[r].cursor)}
  BY <1>2
<1>5. new # Gone(r) /\ suffered'[Home(r)] = {} => rt[r].mem = Saved(Home(r))
  BY <1>2, IdleInSync, RunsAtHome
<1>6. PICK i : i = io'[r]
  OBVIOUS
<1>7. PICK s : s = rt'[r]
  OBVIOUS
<1>8. Sound(r, s, i)
  BY <1>3, <1>4, <1>5, <1>6, <1>7, EndSound, CursorsInOrder
<1>9. QED
  BY <1>2, <1>3, <1>6, <1>7, <1>8, TurnKeeps DEF store

-----------------------------------------------------------------------------
\* Operations that go on

\* r goes on with the memory new.mem, which it saves or need not save.
LEMMA WorkSound ==
  ASSUME RelayInv, NEW r \in Runtimes, Running(r),
         NEW new \in RuntimeStates, new.home = Home(r), new.page = rt[r].page,
         NEW i, OnCourse(new, i), new.pc # "initialize",
         i.at = "idle" \/ (i.at = "key" /\ i.data = new.mem), i.key \in Runtimes \cup {None},
         StateOK(Home(r), new.mem, inbox[Home(r)]),
         new.batch \subseteq 1 .. Len(inbox[Home(r)]), new.cursor <= new.mem.cursor,
         new.pc = "take" =>
           /\ new.cursor <= new.next /\ new.next <= Len(inbox[Home(r)])
           /\ \A k \in 1 .. new.next : k \in new.batch \/ Reflects(new.mem, inbox[Home(r)][k]),
         new.pc = "synced" => new.mem.cursor = new.next,
         suffered'[Home(r)] = {} =>
           /\ i.at = "idle" => new.mem = Saved(Home(r))
           /\ i.at = "key" => HasAll(Home(r), new.mem, inbox)
  PROVE  Sound(r, new, i)
<1>1. Home(r) \in Installations /\ Runs(new)
  BY RunsAtHome DEF Runs
<1>2. RuntimeOK(new, i)
  BY <1>1 DEF RuntimeOK
<1>3. WorkOK(new, i, inbox[Home(r)])
  BY DEF WorkOK, Saves
<1>4. suffered'[Home(r)] = {} => InSync(new, i, Saved(Home(r)), inbox)
  BY DEF InSync, Saves
<1>5. QED
  BY <1>2, <1>3, <1>4 DEF Sound

\* What r knows while it works.
LEMMA AtWorkKnows ==
  ASSUME RelayInv, NEW r \in Runtimes, Running(r)
  PROVE  /\ Home(r) \in Installations /\ rt[r].home = Home(r)
         /\ rt[r] \in RuntimeStates /\ rt[r].mem \in States
         /\ OnCourse(rt[r], io[r]) /\ io[r].key \in Runtimes \cup {None}
         /\ StateOK(Home(r), rt[r].mem, inbox[Home(r)])
         /\ rt[r].batch \subseteq 1 .. Len(inbox[Home(r)])
         /\ rt[r].cursor <= rt[r].mem.cursor
         /\ rt[r].pc = "take" =>
              /\ rt[r].cursor <= rt[r].next /\ rt[r].next <= Len(inbox[Home(r)])
              /\ \A k \in 1 .. rt[r].next :
                   k \in rt[r].batch \/ Reflects(rt[r].mem, inbox[Home(r)][k])
         /\ rt[r].pc = "synced" => rt[r].mem.cursor = rt[r].next
BY RunsAtHome DEF RelayInv, InOrder, RuntimeOK, WorkOK, RuntimeStates, Home

\* A step to another, with nothing to save.
LEMMA GoSound ==
  ASSUME RelayInv, NEW r \in Runtimes, Running(r), io[r].at = "idle",
         NEW new \in RuntimeStates, new.home = Home(r), new.page = rt[r].page,
         new.mem = rt[r].mem, new.cursor = rt[r].cursor, new.batch \subseteq rt[r].batch,
         OnCourse(new, io[r]), new.pc \notin {"initialize", "take", "synced"},
         \A n \in Installations : suffered[n] \subseteq suffered'[n]
  PROVE  Sound(r, new, io[r])
<1>1. suffered'[Home(r)] = {} => new.mem = Saved(Home(r))
  BY IdleInSync, AtWorkKnows
<1>2. QED
  BY <1>1, AtWorkKnows, WorkSound

\* The step to new is all that happens.
LEMMA GoKeeps ==
  ASSUME RelayInv, KeyInv, NEW r \in Runtimes, Running(r),
         NEW new, Step(r, new), NEW i, Sound(r, new, i),
         \/ io' = io /\ i = io[r]
         \/ io' = [io EXCEPT ![r] = i],
         UNCHANGED <<store, inbox>>, suffered' = suffered,
         keyPackages' \in [Installations -> Runtimes \cup {None}], faults' \in 0 .. MaxFaults
  PROVE  RelayInv'
<1>1. DOMAIN rt = Runtimes /\ DOMAIN io = Runtimes
  BY DEF KeyInv, Shape
<1>2. rt'[r] = new /\ \A t \in Runtimes \ {r} : rt'[t] = rt[t]
  BY <1>1 DEF Step
<1>3. io'[r] = i /\ \A t \in Runtimes \ {r} : io'[t] = io[t]
  BY <1>1
<1>4. QED
  BY <1>2, <1>3, TurnKeeps DEF store

\* What a save begins with.
Begun(new) == [at |-> "key", key |-> None, data |-> new.mem]

\* The step to new, which has to be saved.
LEMMA SaveKeeps ==
  ASSUME RelayInv, KeyInv, NEW r \in Runtimes, Running(r),
         NEW new, Save(r, new), Sound(r, new, Begun(new)),
         UNCHANGED <<store, relay, faults, suffered>>
  PROVE  RelayInv'
<1>1. Step(r, new) /\ io' = [io EXCEPT ![r] = Begun(new)]
  BY DEF Save, BeginSave, SetIO, Begun
<1>2. PICK i : i = Begun(new)
  OBVIOUS
<1>3. /\ keyPackages' \in [Installations -> Runtimes \cup {None}] /\ faults' \in 0 .. MaxFaults
      /\ inbox' = inbox
  BY DEF relay, RelayInv, Stores
<1>4. QED
  BY <1>1, <1>2, <1>3, GoKeeps

-----------------------------------------------------------------------------
\* MLS groups that grow

\* The group h goes on from g: it has the commits that g has, and the one that g
\* was waiting to make, made or still waiting.
Extends(g, h) ==
  /\ h # None
  /\ g # None =>
       /\ IsPrefix(g.line, h.line)
       /\ g.pending # None =>
            \/ IsPrefix(NewLine(g), h.line)
            \/ h.pending = g.pending /\ h.line = g.line

LEMMA GroupGrows ==
  ASSUME NEW m \in States, NEW new \in States, NEW c \in Conversations, NEW h \in Groups,
         new.groups = [m.groups EXCEPT ![c] = h], Extends(m.groups[c], h),
         NEW e \in Handshakes
  PROVE  /\ Reflects(m, e) => Reflects(new, e)
         /\ Has(m, e) => Has(new, e)
<1>1. /\ e.conv \in Conversations /\ e.line \in Seq(Commits)
      /\ m.groups \in [Conversations -> Groups \cup {None}]
  BY DEF Handshakes, States
<1>2. new.groups[e.conv] = IF e.conv = c THEN h ELSE m.groups[e.conv]
  BY <1>1
<1>3. CASE e.conv # c
  BY <1>2, <1>3 DEF Reflects, Has
<1>4. CASE e.conv = c /\ m.groups[c] # None
  <2> DEFINE g == m.groups[c]
  <2>1. /\ g \in Groups /\ g.line \in Seq(Commits) /\ h.line \in Seq(Commits)
        /\ g.pending # None => NewLine(g) \in Seq(Commits)
    BY <1>1, <1>4 DEF Groups, NewLine
  <2>2. new.groups[e.conv] = h /\ m.groups[e.conv] = g /\ h # None /\ IsPrefix(g.line, h.line)
    BY <1>2, <1>4 DEF Extends
  <2>3. g.pending # None => \/ IsPrefix(NewLine(g), h.line)
                            \/ h.pending = g.pending /\ h.line = g.line
    BY <1>4 DEF Extends
  <2> HIDE DEF g
  <2>4. IsPrefix(e.line, g.line) => IsPrefix(e.line, h.line)
    BY <1>1, <2>1, <2>2, PrefixOrder
  <2>5. h.pending = g.pending /\ h.line = g.line => NewLine(h) = NewLine(g)
    BY DEF NewLine
  <2>6. QED
    BY <2>2, <2>3, <2>4, <2>5 DEF Reflects, Has
<1>5. CASE e.conv = c /\ m.groups[c] = None
  BY <1>5 DEF Reflects, Has
<1>6. QED
  BY <1>3, <1>4, <1>5

LEMMA StateGrows ==
  ASSUME NEW n \in Installations, NEW m, NEW log \in Seq(Handshakes), StateOK(n, m, log),
         NEW new \in States, NEW c \in Conversations, NEW h \in Groups,
         new.groups = [m.groups EXCEPT ![c] = h], Extends(m.groups[c], h),
         new.cursor = m.cursor, new.processed = m.processed,
         h.pending # None => CreatorOf[c] = n
  PROVE  StateOK(n, new, log)
<1>1. m \in States /\ m.groups \in [Conversations -> Groups \cup {None}]
  BY DEF StateOK, States
<1>2. \A k \in 1 .. Len(log) : Reflects(m, log[k]) => Reflects(new, log[k])
  <2>1. \A k \in 1 .. Len(log) : log[k] \in Handshakes
    OBVIOUS
  <2>2. QED
    BY <1>1, <2>1, GroupGrows
<1>3. Covers(log, new)
  BY <1>2 DEF StateOK, Covers
<1>4. Owned(n, new)
  BY <1>1 DEF StateOK, Owned
<1>5. QED
  BY <1>3, <1>4 DEF StateOK

LEMMA HeldGrows ==
  ASSUME RelayInv, NEW n, NEW m \in States, HasAll(n, m, inbox),
         NEW new \in States, NEW c \in Conversations, NEW h \in Groups,
         new.groups = [m.groups EXCEPT ![c] = h], Extends(m.groups[c], h)
  PROVE  HasAll(n, new, inbox)
<1> SUFFICES ASSUME NEW k \in Installations, NEW p \in DOMAIN inbox[k], inbox[k][p].from = n
             PROVE  Has(new, inbox[k][p])
  BY DEF HasAll
<1>1. inbox[k][p] \in Handshakes
  BY DEF RelayInv, Stores, MailOK
<1>2. QED
  BY <1>1, GroupGrows DEF HasAll

\* What the relay has of an installation that suffered nothing is in the memory of
\* its idle runtime.
LEMMA HeldInMemory ==
  ASSUME RelayInv, NEW r \in Runtimes, Running(r), io[r].at = "idle", suffered[Home(r)] = {}
  PROVE  HasAll(Home(r), rt[r].mem, inbox)
<1>1. rt[r].mem = Saved(Home(r)) /\ Home(r) \in Installations
  BY IdleInSync, RunsAtHome
<1>2. HasAll(Home(r), Saved(Home(r)), inbox)
  BY <1>1 DEF RelayInv, Stores
<1>3. QED
  BY <1>1, <1>2

\* A runtime that changes one of its groups, and saves.
LEMMA GroupSaveSound ==
  ASSUME RelayInv, NEW r \in Runtimes, Running(r), io[r].at = "idle",
         NEW c \in Conversations, NEW h \in Groups, Extends(rt[r].mem.groups[c], h),
         h.pending # None => CreatorOf[c] = Home(r),
         NEW new \in RuntimeStates, new.home = Home(r), new.page = rt[r].page,
         new.mem.groups = [rt[r].mem.groups EXCEPT ![c] = h],
         new.mem.cursor = rt[r].mem.cursor, new.mem.processed = rt[r].mem.processed,
         new.cursor = rt[r].cursor, new.batch = rt[r].batch,
         OnCourse(new, Begun(new)), new.pc \notin {"initialize", "take", "synced"},
         suffered' = suffered
  PROVE  Sound(r, new, Begun(new))
<1>1. /\ Home(r) \in Installations /\ rt[r].mem \in States
      /\ StateOK(Home(r), rt[r].mem, inbox[Home(r)])
      /\ rt[r].batch \subseteq 1 .. Len(inbox[Home(r)])
      /\ rt[r].cursor <= rt[r].mem.cursor
  BY AtWorkKnows
<1>2. new.mem \in States /\ inbox[Home(r)] \in Seq(Handshakes)
  BY <1>1 DEF RuntimeStates, RelayInv, Stores, MailOK
<1>3. StateOK(Home(r), new.mem, inbox[Home(r)])
  BY <1>1, <1>2, StateGrows
<1>4. suffered'[Home(r)] = {} => HasAll(Home(r), new.mem, inbox)
  BY <1>1, <1>2, HeldInMemory, HeldGrows
<1>5. PICK i : i = Begun(new)
  OBVIOUS
<1>6. i.at = "key" /\ i.data = new.mem /\ i.key = None
  BY <1>5 DEF Begun
<1>7. Sound(r, new, i)
  BY <1>1, <1>3, <1>4, <1>5, <1>6, WorkSound
<1>8. QED
  BY <1>5, <1>7

\* The state of a runtime with another group.
LEMMA SetGroupTyped ==
  ASSUME NEW r \in Runtimes, rt[r] \in RuntimeStates, NEW c \in Conversations, NEW h \in Groups
  PROVE  LET new == SetGroup(r, c, h)
         IN  /\ new \in RuntimeStates /\ new.mem \in States
             /\ new.mem.groups = [rt[r].mem.groups EXCEPT ![c] = h]
             /\ new.mem.groups[c] = h
             /\ new.mem.cursor = rt[r].mem.cursor /\ new.mem.processed = rt[r].mem.processed
             /\ new.mem.packages = rt[r].mem.packages
             /\ new.home = Home(r) /\ new.page = rt[r].page /\ new.cursor = rt[r].cursor
             /\ new.op = rt[r].op /\ new.pc = rt[r].pc /\ new.conv = rt[r].conv
             /\ new.peer = rt[r].peer /\ new.target = rt[r].target /\ new.own = rt[r].own
             /\ new.batch = rt[r].batch /\ new.package = rt[r].package
<1>1. rt[r].mem \in States /\ rt[r].mem.groups \in [Conversations -> Groups \cup {None}]
  BY DEF RuntimeStates, States
<1> DEFINE m == [rt[r].mem EXCEPT !.groups[c] = h]
<1>2. /\ m \in States /\ m.groups = [rt[r].mem.groups EXCEPT ![c] = h] /\ m.groups[c] = h
      /\ m.cursor = rt[r].mem.cursor /\ m.processed = rt[r].mem.processed
      /\ m.packages = rt[r].mem.packages
  BY <1>1 DEF States
<1>3. SetGroup(r, c, h) = [rt[r] EXCEPT !.mem = m]
  BY DEF SetGroup, RuntimeStates
<1> HIDE DEF m
<1>4. QED
  BY <1>2, <1>3 DEF RuntimeStates, Home

\* Where recoverPendingWork goes on: with a group that is waiting for it, or with
\* what the operation came for.
LEMMA RecoveringTo ==
  ASSUME NEW s \in RuntimeStates, s.op \in {"init", "create", "add", "sync"}
  PROVE  \E pc, target :
           /\ Recovering(s) = [s EXCEPT !.pc = pc, !.target = target]
           /\ \/ /\ pc \in {"publish", "post"}
                 /\ target \in Conversations /\ s.mem.groups[target] # None
                 /\ pc = "publish" => s.mem.groups[target].pending # None
              \/ /\ pc = AfterRecovery(s.op) /\ target = None
<1> DEFINE pending == {c \in Conversations : s.mem.groups[c] # None /\ s.mem.groups[c].pending # None}
           unpublished == {c \in Conversations : s.mem.groups[c] # None /\ s.mem.groups[c].unpublished}
<1>1. Recovering(s) = IF pending # {}
                      THEN [s EXCEPT !.pc = "publish", !.target = CHOOSE c \in pending : TRUE]
                      ELSE IF unpublished # {}
                      THEN [s EXCEPT !.pc = "post", !.target = CHOOSE c \in unpublished : TRUE]
                      ELSE [s EXCEPT !.pc = AfterRecovery(s.op), !.target = None]
  BY DEF Recovering
<1>2. CASE pending # {}
  <2>1. PICK c \in pending : c = CHOOSE d \in pending : TRUE
    BY <1>2
  <2>2. Recovering(s) = [s EXCEPT !.pc = "publish", !.target = c]
    BY <1>1, <1>2, <2>1
  <2>3. QED
    BY <2>1, <2>2
<1>3. CASE pending = {} /\ unpublished # {}
  <2>1. PICK c \in unpublished : c = CHOOSE d \in unpublished : TRUE
    BY <1>3
  <2>2. Recovering(s) = [s EXCEPT !.pc = "post", !.target = c]
    BY <1>1, <1>3, <2>1
  <2>3. c \in Conversations /\ s.mem.groups[c] # None
    BY <2>1
  <2> HIDE DEF unpublished
  <2> WITNESS "post", c
  <2>4. QED
    BY <2>2, <2>3
<1>4. CASE pending = {} /\ unpublished = {}
  BY <1>1, <1>4
<1>5. QED
  BY <1>2, <1>3, <1>4

\* Recovery changes what is done next, to a step of the operation.
LEMMA RecoveringTyped ==
  ASSUME NEW s \in RuntimeStates, s.op \in {"init", "create", "add", "sync"},
         s.op \in {"create", "add"} => s.conv \in Conversations /\ CreatorOf[s.conv] = s.home,
         s.op = "add" => s.peer \in Installations,
         NEW i, i.at \notin {"load", "open"}
  PROVE  LET new == Recovering(s)
         IN  /\ new \in RuntimeStates /\ OnCourse(new, i)
             /\ new.home = s.home /\ new.page = s.page /\ new.mem = s.mem
             /\ new.cursor = s.cursor /\ new.batch = s.batch
             /\ new.pc \notin {"initialize", "take", "synced"}
<1>1. PICK pc, target :
        /\ Recovering(s) = [s EXCEPT !.pc = pc, !.target = target]
        /\ \/ /\ pc \in {"publish", "post"}
              /\ target \in Conversations /\ s.mem.groups[target] # None
              /\ pc = "publish" => s.mem.groups[target].pending # None
           \/ /\ pc = AfterRecovery(s.op) /\ target = None
  BY RecoveringTo
<1>2. AfterRecovery(s.op) = CASE s.op = "init" -> "package"
                              [] s.op = "create" -> "create"
                              [] s.op = "add" -> "fetch"
                              [] s.op = "sync" -> "pull"
  BY DEF AfterRecovery
<1> DEFINE at == [s EXCEPT !.pc = pc]
           new == [at EXCEPT !.target = target]
<1>0. /\ pc \in {"publish", "post", "package", "create", "fetch", "pull"}
      /\ target \in Conversations \cup {None}
  BY <1>1, <1>2
<1>3. /\ new \in RuntimeStates /\ new.pc = pc /\ new.target = target
      /\ new.home = s.home /\ new.page = s.page /\ new.mem = s.mem
      /\ new.cursor = s.cursor /\ new.batch = s.batch /\ new.op = s.op
      /\ new.conv = s.conv /\ new.peer = s.peer
  <2>1. /\ at \in RuntimeStates /\ at.pc = pc
        /\ at.home = s.home /\ at.page = s.page /\ at.mem = s.mem
        /\ at.cursor = s.cursor /\ at.batch = s.batch /\ at.op = s.op
        /\ at.conv = s.conv /\ at.peer = s.peer
    BY <1>0 DEF RuntimeStates
  <2> HIDE DEF at
  <2>2. QED
    BY <1>0, <2>1 DEF RuntimeStates
<1> HIDE DEF new
<1>4. OnCourse(new, i)
  BY <1>1, <1>2, <1>3 DEF OnCourse
<1>5. /\ new \in RuntimeStates /\ OnCourse(new, i)
      /\ new.home = s.home /\ new.page = s.page /\ new.mem = s.mem
      /\ new.cursor = s.cursor /\ new.batch = s.batch
      /\ new.pc \notin {"initialize", "take", "synced"}
  BY <1>1, <1>2, <1>3, <1>4
<1>6. QED
  BY <1>1, <1>5 DEF new, at

-----------------------------------------------------------------------------
\* What pages do

\* Neither the relay nor the count of faults changes.
LEMMA QuietTypes ==
  ASSUME RelayInv, UNCHANGED <<keyPackages, faults>>
  PROVE  /\ keyPackages' \in [Installations -> Runtimes \cup {None}]
         /\ faults' \in 0 .. MaxFaults
BY DEF RelayInv, Stores

LEMMA LeaveKeeps ==
  ASSUME RelayInv, KeyInv, NEW r \in Runtimes, Leave(r)
  PROVE  RelayInv'
<1>1. /\ Running(r) /\ rt[r].page = "open"
      /\ UNCHANGED <<store, inbox, io, suffered, keyPackages, faults>>
  BY DEF Leave, Running, relay
<1>2. CASE rt[r].op = "none"
  <2>1. io[r].at = "idle" /\ Step(r, Gone(r))
    BY <1>2 DEF Leave, KeyInv, Settled
  <2>2. PICK new : new = Gone(r)
    OBVIOUS
  <2>3. Sound(r, new, io[r])
    BY <1>1, <2>1, <2>2, EndSound, CursorsInOrder
  <2>4. QED
    BY <1>1, <2>1, <2>2, <2>3, GoKeeps, QuietTypes
<1>3. CASE rt[r].op # "none"
  <2> DEFINE new == [rt[r] EXCEPT !.page = "left"]
  <2>1. /\ Home(r) \in Installations /\ rt[r] \in RuntimeStates
        /\ RuntimeOK(rt[r], io[r]) /\ WorkOK(rt[r], io[r], inbox[Home(r)])
        /\ suffered'[Home(r)] = {} => InSync(rt[r], io[r], Saved(Home(r)), inbox)
    BY <1>1, RunsAtHome DEF RelayInv, InOrder
  <2>2. /\ new \in RuntimeStates /\ new.page = "left" /\ new.home = rt[r].home
        /\ new.mem = rt[r].mem /\ new.cursor = rt[r].cursor /\ new.op = rt[r].op
        /\ new.pc = rt[r].pc /\ new.conv = rt[r].conv /\ new.peer = rt[r].peer
        /\ new.target = rt[r].target /\ new.own = rt[r].own /\ new.batch = rt[r].batch
        /\ new.next = rt[r].next
    BY <2>1 DEF RuntimeStates
  <2>3. Step(r, new)
    BY <1>3 DEF Leave
  <2> HIDE DEF new
  <2>4. RuntimeOK(new, io[r])
    BY <2>1, <2>2 DEF RuntimeOK, OnCourse, Runs, Home
  <2>5. WorkOK(new, io[r], inbox[Home(r)])
    BY <2>1, <2>2 DEF WorkOK
  <2>6. suffered'[Home(r)] = {} => InSync(new, io[r], Saved(Home(r)), inbox)
    BY <2>1, <2>2 DEF InSync
  <2>7. Sound(r, new, io[r])
    BY <2>2, <2>4, <2>5, <2>6 DEF Sound, Home
  <2>8. QED
    BY <1>1, <2>3, <2>7, GoKeeps, QuietTypes
<1>4. QED
  BY <1>2, <1>3

LEMMA AskKeeps ==
  ASSUME RelayInv, KeyInv, NEW r \in Runtimes, AskOf(r)
  PROVE  RelayInv'
<1>1. PICK op \in {"sync", "create", "add", "remove"},
           c \in Conversations \cup {None}, m \in Installations \cup {None} :
        /\ Ask(r, op, c, m)
        /\ op # "sync" => c \in Conversations /\ CreatorOf[c] = Home(r)
        /\ op \in {"add", "remove"} => m \in Installations
  BY DEF AskOf
<1> DEFINE s == [rt[r] EXCEPT !.op = op, !.conv = c, !.peer = m]
           new == IF op = "remove" THEN [s EXCEPT !.pc = "prepare"] ELSE Recovering(s)
<1>2. /\ Running(r) /\ rt[r].op = "none" /\ io[r].at = "idle"
      /\ UNCHANGED <<store, inbox, io, suffered, keyPackages, faults>>
  BY <1>1 DEF Ask, Running, relay, KeyInv, Settled
<1>3. rt[r] \in RuntimeStates /\ rt[r].home = Home(r)
  BY <1>2, AtWorkKnows
<1>4. /\ s \in RuntimeStates /\ s.home = Home(r) /\ s.page = rt[r].page /\ s.op = op
      /\ s.conv = c /\ s.peer = m /\ s.mem = rt[r].mem /\ s.cursor = rt[r].cursor
      /\ s.batch = rt[r].batch
  <2> DEFINE s1 == [rt[r] EXCEPT !.op = op]
             s2 == [s1 EXCEPT !.conv = c]
  <2>1. /\ s1 \in RuntimeStates /\ s1.home = Home(r) /\ s1.page = rt[r].page /\ s1.op = op
        /\ s1.mem = rt[r].mem /\ s1.cursor = rt[r].cursor /\ s1.batch = rt[r].batch
    BY <1>1, <1>3 DEF RuntimeStates
  <2> HIDE DEF s1
  <2>2. /\ s2 \in RuntimeStates /\ s2.home = Home(r) /\ s2.page = rt[r].page /\ s2.op = op
        /\ s2.conv = c
        /\ s2.mem = rt[r].mem /\ s2.cursor = rt[r].cursor /\ s2.batch = rt[r].batch
    BY <1>1, <2>1 DEF RuntimeStates
  <2> HIDE DEF s2
  <2>3. s = [s2 EXCEPT !.peer = m]
    BY DEF s1, s2
  <2> HIDE DEF s
  <2>4. QED
    BY <1>1, <2>2, <2>3 DEF RuntimeStates
<1>5. Step(r, new)
  BY <1>1 DEF Ask
<1> HIDE DEF s
<1>6. /\ new \in RuntimeStates /\ OnCourse(new, io[r])
      /\ new.home = Home(r) /\ new.page = rt[r].page /\ new.mem = rt[r].mem
      /\ new.cursor = rt[r].cursor /\ new.batch = rt[r].batch
      /\ new.pc \notin {"initialize", "take", "synced"}
  <2>1. CASE op = "remove"
    <3>1. /\ new \in RuntimeStates /\ new.pc = "prepare" /\ new.op = op /\ new.conv = c
          /\ new.peer = m /\ new.home = Home(r) /\ new.page = rt[r].page
          /\ new.mem = rt[r].mem /\ new.cursor = rt[r].cursor /\ new.batch = rt[r].batch
      BY <1>4, <2>1 DEF RuntimeStates
    <3> HIDE DEF new
    <3>2. OnCourse(new, io[r])
      BY <1>1, <1>2, <2>1, <3>1 DEF OnCourse
    <3>3. QED
      BY <3>1, <3>2
  <2>2. CASE op # "remove"
    <3>1. new = Recovering(s)
      BY <2>2
    <3> HIDE DEF new
    <3>2. s.op \in {"init", "create", "add", "sync"}
      BY <1>1, <1>4, <2>2
    <3>3. /\ s.op \in {"create", "add"} => s.conv \in Conversations /\ CreatorOf[s.conv] = s.home
          /\ s.op = "add" => s.peer \in Installations
      BY <1>1, <1>4
    <3>4. io[r].at \notin {"load", "open"}
      BY <1>2
    <3>5. QED
      BY <1>4, <3>1, <3>2, <3>3, <3>4, RecoveringTyped
  <2>3. QED
    BY <2>1, <2>2
<1> HIDE DEF new
<1>7. Sound(r, new, io[r])
  BY <1>2, <1>6, GoSound
<1>8. QED
  BY <1>2, <1>5, <1>7, GoKeeps, QuietTypes

-----------------------------------------------------------------------------
\* initialize()

\* A new page begins to save an identity, or goes on from the checkpoint it found.
LEMMA InitializeKeeps ==
  ASSUME RelayInv, KeyInv, NEW r \in Runtimes, Initialize(r)
  PROVE  RelayInv'
<1> DEFINE found == io[r].data
<1>1. /\ Running(r) /\ rt[r].pc = "initialize" /\ io[r].at = "open"
      /\ UNCHANGED <<store, relay, inbox, faults, suffered, keyPackages>>
  BY DEF Initialize, relay
<1>2. /\ Home(r) \in Installations /\ rt[r] \in RuntimeStates /\ rt[r].home = Home(r)
      /\ rt[r].op = "init" /\ rt[r].mem = Fresh /\ rt[r].cursor = 0
      /\ rt[r].batch \subseteq 1 .. Len(inbox[Home(r)])
      /\ inbox[Home(r)] \in Seq(Handshakes)
  BY <1>1, AtWorkKnows DEF OnCourse, RelayInv, Stores, MailOK
<1>3. /\ found # None => /\ found \in Ciphers(States)
                         /\ StateOK(Home(r), found.data, inbox[Home(r)])
      /\ suffered'[Home(r)] = {} => /\ Contents(found) = Saved(Home(r))
                                    /\ HasAll(Home(r), Saved(Home(r)), inbox)
  BY <1>1, <1>2 DEF RelayInv, Stores, InOrder, WorkOK, InSync
<1>4. NoIO.at = "idle" /\ NoIO.key \in Runtimes \cup {None}
  BY DEF NoIO
<1>5. CASE ~LoadSucceeds(r, Home(r))
  <2>1. Abort(r) /\ io' = [io EXCEPT ![r] = NoIO]
    BY <1>5 DEF Initialize
  <2>2. QED
    BY <1>1, <1>2, <2>1, AbortKeeps, QuietTypes
<1>6. CASE LoadSucceeds(r, Home(r)) /\ found = None
  <2> DEFINE new == [rt[r] EXCEPT !.pc = "package"]
  <2>1. Save(r, new)
    BY <1>6 DEF Initialize
  <2>2. /\ new \in RuntimeStates /\ new.home = Home(r) /\ new.page = rt[r].page
        /\ new.mem = Fresh /\ new.cursor = 0 /\ new.batch = rt[r].batch
        /\ new.pc = "package" /\ new.op = "init"
    BY <1>2 DEF RuntimeStates
  <2> HIDE DEF new
  <2>3. PICK i : i = Begun(new)
    OBVIOUS
  <2>4. i.at = "key" /\ i.key = None /\ i.data = new.mem
    BY <2>3 DEF Begun
  <2>5. OnCourse(new, i)
    BY <2>2, <2>4 DEF OnCourse
  <2>6. StateOK(Home(r), new.mem, inbox[Home(r)]) /\ new.cursor <= new.mem.cursor
    <3>1. PICK n \in Installations, log \in Seq(Handshakes) : n = Home(r) /\ log = inbox[Home(r)]
      BY <1>2
    <3>2. StateOK(n, Fresh, log) /\ Fresh.cursor = 0
      BY FreshState
    <3>3. QED
      BY <2>2, <3>1, <3>2
  <2>7. suffered'[Home(r)] = {} => HasAll(Home(r), new.mem, inbox)
    BY <1>3, <1>6, <2>2 DEF Contents
  <2>8. Sound(r, new, i)
    BY <1>1, <1>2, <2>2, <2>4, <2>5, <2>6, <2>7, WorkSound
  <2>9. QED
    BY <1>1, <2>1, <2>3, <2>8, SaveKeeps
<1>7. CASE LoadSucceeds(r, Home(r)) /\ found # None
  <2> DEFINE at == [rt[r] EXCEPT !.mem = found.data]
             s == [at EXCEPT !.cursor = found.data.cursor]
  <2>1. found.data \in States /\ found.data.cursor \in Nat
    BY <1>3, <1>7 DEF Ciphers, States
  <2>2. /\ s \in RuntimeStates /\ s.home = Home(r) /\ s.page = rt[r].page /\ s.op = "init"
        /\ s.mem = found.data /\ s.cursor = found.data.cursor /\ s.batch = rt[r].batch
    <3>1. /\ at \in RuntimeStates /\ at.home = Home(r) /\ at.page = rt[r].page
          /\ at.op = "init" /\ at.mem = found.data /\ at.batch = rt[r].batch
      BY <1>2, <2>1 DEF RuntimeStates
    <3> HIDE DEF at
    <3>2. QED
      BY <2>1, <3>1 DEF RuntimeStates
  <2>3. Step(r, Recovering(s)) /\ io' = [io EXCEPT ![r] = NoIO]
    BY <1>7 DEF Initialize
  <2> HIDE DEF s
  <2>4. PICK new, i : new = Recovering(s) /\ i = NoIO
    OBVIOUS
  <2>5. /\ new \in RuntimeStates /\ OnCourse(new, i)
        /\ new.home = s.home /\ new.page = s.page /\ new.mem = s.mem
        /\ new.cursor = s.cursor /\ new.batch = s.batch
        /\ new.pc \notin {"initialize", "take", "synced"}
    BY <1>4, <2>2, <2>4, RecoveringTyped
  <2>6. suffered'[Home(r)] = {} => new.mem = Saved(Home(r))
    BY <1>3, <1>7, <2>2, <2>5 DEF Contents
  <2>7. Sound(r, new, i)
    BY <1>1, <1>2, <1>3, <1>4, <1>7, <2>1, <2>2, <2>4, <2>5, <2>6, WorkSound
  <2>8. QED
    BY <1>1, <2>3, <2>4, <2>7, GoKeeps, QuietTypes
<1>8. QED
  BY <1>5, <1>6, <1>7

\* A new KeyPackage adds its private part to the memory, and the groups stay.
LEMMA CreateKeyPackageKeeps ==
  ASSUME RelayInv, KeyInv, NEW r \in Runtimes, CreateKeyPackage(r)
  PROVE  RelayInv'
<1>1. /\ Running(r) /\ rt[r].pc = "package" /\ io[r].at = "idle"
      /\ UNCHANGED <<store, relay, inbox, faults, suffered>>
  BY DEF CreateKeyPackage, At, relay
<1>2. /\ Home(r) \in Installations /\ rt[r] \in RuntimeStates /\ rt[r].home = Home(r)
      /\ rt[r].mem \in States /\ rt[r].op = "init"
      /\ StateOK(Home(r), rt[r].mem, inbox[Home(r)])
  BY <1>1, AtWorkKnows DEF OnCourse
<1> DEFINE m == [rt[r].mem EXCEPT !.packages = @ \cup {r}]
           at == [rt[r] EXCEPT !.pc = "announce"]
           new == [at EXCEPT !.mem = m]
<1>3. /\ m \in States /\ m.groups = rt[r].mem.groups /\ m.cursor = rt[r].mem.cursor
      /\ m.processed = rt[r].mem.processed
  BY <1>2 DEF States
<1>4. Save(r, new)
  BY DEF CreateKeyPackage
<1> HIDE DEF m
<1>5. /\ new \in RuntimeStates /\ new.home = Home(r) /\ new.page = rt[r].page
      /\ new.mem = m /\ new.cursor = rt[r].cursor /\ new.batch = rt[r].batch
      /\ new.pc = "announce" /\ new.op = "init"
  <2>1. /\ at \in RuntimeStates /\ at.home = Home(r) /\ at.page = rt[r].page
        /\ at.cursor = rt[r].cursor /\ at.batch = rt[r].batch
        /\ at.pc = "announce" /\ at.op = "init"
    BY <1>2 DEF RuntimeStates
  <2> HIDE DEF at
  <2>2. QED
    BY <1>3, <2>1 DEF RuntimeStates
<1> HIDE DEF new
<1>6. PICK i : i = Begun(new)
  OBVIOUS
<1>7. i.at = "key" /\ i.key = None /\ i.data = new.mem
  BY <1>6 DEF Begun
<1>8. OnCourse(new, i)
  BY <1>5, <1>7 DEF OnCourse
<1>9. \A e : /\ Reflects(m, e) <=> Reflects(rt[r].mem, e)
             /\ Has(m, e) <=> Has(rt[r].mem, e)
  BY <1>3 DEF Reflects, Has
<1>10. StateOK(Home(r), new.mem, inbox[Home(r)])
  BY <1>2, <1>3, <1>5, <1>9 DEF StateOK, Covers, Owned
<1>11. suffered'[Home(r)] = {} => HasAll(Home(r), new.mem, inbox)
  BY <1>1, <1>5, <1>9, HeldInMemory DEF HasAll
<1>12. Sound(r, new, i)
  BY <1>1, <1>3, <1>5, <1>7, <1>8, <1>10, <1>11, AtWorkKnows, WorkSound
<1>13. QED
  BY <1>1, <1>4, <1>6, <1>12, SaveKeeps

-----------------------------------------------------------------------------
\* Groups that are created and changed

LEMMA CreateGroupKeeps ==
  ASSUME RelayInv, KeyInv, NEW r \in Runtimes, CreateGroup(r)
  PROVE  RelayInv'
<1>1. /\ Running(r) /\ rt[r].pc = "create" /\ io[r].at = "idle"
      /\ UNCHANGED <<store, relay, inbox, keyPackages, faults, suffered>>
  BY DEF CreateGroup, At, relay
<1>2. /\ Home(r) \in Installations /\ rt[r] \in RuntimeStates /\ rt[r].home = Home(r)
      /\ rt[r].op = "create" /\ rt[r].conv \in Conversations
      /\ CreatorOf[rt[r].conv] = Home(r)
  BY <1>1, AtWorkKnows DEF OnCourse
<1>3. PICK c \in Conversations : c = rt[r].conv
  BY <1>2
<1>4. CASE Group(r, c) # None
  <2>1. Abort(r) /\ io' = io
    BY <1>3, <1>4 DEF CreateGroup
  <2>2. QED
    BY <1>1, <1>2, <2>1, AbortKeeps, QuietTypes
<1>5. CASE Group(r, c) = None
  <2>1. PICK h : h = NewGroup(Home(r))
    OBVIOUS
  <2>2. h \in Groups /\ h.pending = None
    BY <1>2, <2>1 DEF NewGroup, Groups
  <2>3. Extends(rt[r].mem.groups[c], h)
    BY <1>5, <2>2, NoneAssumption DEF Extends, Group
  <2> DEFINE at == SetGroup(r, c, h)
             new == [at EXCEPT !.pc = "done"]
  <2>4. Save(r, new)
    BY <1>3, <1>5, <2>1 DEF CreateGroup
  <2>5. /\ at \in RuntimeStates
        /\ at.mem.groups = [rt[r].mem.groups EXCEPT ![c] = h]
        /\ at.mem.cursor = rt[r].mem.cursor /\ at.mem.processed = rt[r].mem.processed
        /\ at.home = Home(r) /\ at.page = rt[r].page /\ at.cursor = rt[r].cursor
        /\ at.op = "create" /\ at.conv = c /\ at.batch = rt[r].batch
    BY <1>2, <1>3, <2>2, SetGroupTyped
  <2> HIDE DEF at
  <2>6. /\ new \in RuntimeStates /\ new.mem = at.mem
        /\ new.home = Home(r) /\ new.page = rt[r].page /\ new.cursor = rt[r].cursor
        /\ new.op = "create" /\ new.pc = "done" /\ new.conv = c /\ new.batch = rt[r].batch
    BY <2>5 DEF RuntimeStates
  <2> HIDE DEF new
  <2>7. OnCourse(new, Begun(new))
    BY <1>2, <1>3, <2>6 DEF OnCourse, Begun
  <2>8. Sound(r, new, Begun(new))
    BY <1>1, <2>2, <2>3, <2>5, <2>6, <2>7, GroupSaveSound
  <2>9. QED
    BY <1>1, <2>4, <2>8, SaveKeeps
<1>6. QED
  BY <1>4, <1>5

\* What is to be committed waits in a group that was waiting for nothing.
LEMMA PrepareKeeps ==
  ASSUME RelayInv, KeyInv, NEW r \in Runtimes, Prepare(r)
  PROVE  RelayInv'
<1>1. /\ Running(r) /\ rt[r].pc = "prepare" /\ io[r].at = "idle"
      /\ UNCHANGED <<store, relay, inbox, keyPackages, faults, suffered>>
  BY DEF Prepare, At, relay
<1>2. /\ Home(r) \in Installations /\ rt[r] \in RuntimeStates /\ rt[r].home = Home(r)
      /\ rt[r].op \in {"add", "remove"} /\ rt[r].conv \in Conversations
      /\ rt[r].peer \in Installations /\ rt[r].package \in Runtimes \cup {None}
      /\ CreatorOf[rt[r].conv] = Home(r) /\ rt[r].mem \in States
  BY <1>1, AtWorkKnows DEF OnCourse, RuntimeStates
<1>3. PICK c \in Conversations : c = rt[r].conv
  BY <1>2
<1>4. CASE ~MayPrepare(r)
  <2>1. Abort(r) /\ io' = io
    BY <1>4 DEF Prepare
  <2>2. QED
    BY <1>1, <1>2, <2>1, AbortKeeps, QuietTypes
<1>5. CASE MayPrepare(r)
  <2>1. PICK g : g = rt[r].mem.groups[c]
    OBVIOUS
  <2>2. g \in Groups /\ g.pending = None
    BY <1>2, <1>3, <1>5, <2>1 DEF MayPrepare, MayChange, Group, States
  <2>3. PICK commit : commit = [by |-> r, type |-> rt[r].op, member |-> rt[r].peer,
                                package |-> rt[r].package]
    OBVIOUS
  <2>4. commit \in Commits /\ commit # None
    BY <1>2, <2>3, NoneAssumption DEF Commits
  <2>5. PICK h : h = [g EXCEPT !.pending = commit]
    OBVIOUS
  <2>6. h \in Groups /\ h.pending # None /\ h.line = g.line /\ h # None
    BY <2>2, <2>4, <2>5, NoneAssumption DEF Groups
  <2>7. Extends(rt[r].mem.groups[c], h)
    BY <2>1, <2>2, <2>6, PrefixOrder DEF Extends, Groups
  <2> DEFINE at == SetGroup(r, c, h)
             at1 == [at EXCEPT !.pc = "publish"]
             at2 == [at1 EXCEPT !.target = c]
             new == [at2 EXCEPT !.own = TRUE]
  <2>8. Save(r, new)
    BY <1>3, <1>5, <2>1, <2>3, <2>5 DEF Prepare, Prepared, Group
  <2>9. /\ at \in RuntimeStates
        /\ at.mem.groups = [rt[r].mem.groups EXCEPT ![c] = h] /\ at.mem.groups[c] = h
        /\ at.mem.cursor = rt[r].mem.cursor /\ at.mem.processed = rt[r].mem.processed
        /\ at.home = Home(r) /\ at.page = rt[r].page /\ at.cursor = rt[r].cursor
        /\ at.op = rt[r].op /\ at.conv = c /\ at.peer = rt[r].peer /\ at.batch = rt[r].batch
    BY <1>2, <1>3, <2>6, SetGroupTyped
  <2> HIDE DEF at
  <2>10. /\ at1 \in RuntimeStates /\ at1.mem = at.mem
         /\ at1.home = Home(r) /\ at1.page = rt[r].page /\ at1.cursor = rt[r].cursor
         /\ at1.op = rt[r].op /\ at1.pc = "publish" /\ at1.conv = c
         /\ at1.peer = rt[r].peer /\ at1.batch = rt[r].batch
    BY <2>9 DEF RuntimeStates
  <2> HIDE DEF at1
  <2>11. /\ at2 \in RuntimeStates /\ at2.mem = at.mem
         /\ at2.home = Home(r) /\ at2.page = rt[r].page /\ at2.cursor = rt[r].cursor
         /\ at2.op = rt[r].op /\ at2.pc = "publish" /\ at2.conv = c
         /\ at2.peer = rt[r].peer /\ at2.target = c /\ at2.batch = rt[r].batch
    BY <2>10 DEF RuntimeStates
  <2> HIDE DEF at2
  <2>12. /\ new \in RuntimeStates /\ new.mem = at.mem
         /\ new.home = Home(r) /\ new.page = rt[r].page /\ new.cursor = rt[r].cursor
         /\ new.op = rt[r].op /\ new.pc = "publish" /\ new.conv = c
         /\ new.peer = rt[r].peer /\ new.target = c /\ new.own = TRUE
         /\ new.batch = rt[r].batch
    BY <2>11 DEF RuntimeStates
  <2> HIDE DEF new
  <2>13. OnCourse(new, Begun(new))
    <3>1. new.own \/ new.op # "remove"
      BY <2>12
    <3>2. PICK i : i = Begun(new)
      OBVIOUS
    <3>3. i.at = "key"
      BY <3>2 DEF Begun
    <3>4. new.mem.groups[c] = h
      BY <2>9, <2>12
    <3>5. OnCourse(new, i)
      BY <1>2, <1>3, <2>6, <2>12, <3>1, <3>3, <3>4 DEF OnCourse
    <3>6. QED
      BY <3>2, <3>5
  <2>14. Sound(r, new, Begun(new))
    BY <1>1, <1>2, <1>3, <2>6, <2>7, <2>9, <2>12, <2>13, GroupSaveSound
  <2>15. QED
    BY <1>1, <2>8, <2>14, SaveKeeps
<1>6. QED
  BY <1>4, <1>5

\* What recovery or an operation of its own works on.
LEMMA AtTarget ==
  ASSUME RelayInv, NEW r \in Runtimes, Running(r),
         rt[r].pc \in {"publish", "merge", "post", "mark"}
  PROVE  /\ rt[r].target \in Conversations
         /\ Group(r, rt[r].target) \in Groups
         /\ rt[r].own \/ rt[r].op # "remove"
         /\ rt[r].pc \in {"publish", "merge"} =>
              /\ Group(r, rt[r].target).pending \in Commits
              /\ CreatorOf[rt[r].target] = Home(r)
<1>1. rt[r].mem.groups \in [Conversations -> Groups \cup {None}]
  BY AtWorkKnows DEF States
<1>2. Owned(Home(r), rt[r].mem) /\ OnCourse(rt[r], io[r])
  BY AtWorkKnows DEF StateOK
<1>3. QED
  BY <1>1, <1>2 DEF OnCourse, Owned, Group, Groups

\* The commit that was waiting is made.
LEMMA MergeKeeps ==
  ASSUME RelayInv, KeyInv, NEW r \in Runtimes, MergePendingCommit(r)
  PROVE  RelayInv'
<1>1. /\ Running(r) /\ rt[r].pc = "merge" /\ io[r].at = "idle"
      /\ UNCHANGED <<store, relay, inbox, keyPackages, faults, suffered>>
  BY DEF MergePendingCommit, At, relay
<1>2. PICK c \in Conversations, g \in Groups :
        /\ c = rt[r].target /\ g = Group(r, c) /\ g.pending \in Commits
  BY <1>1, AtTarget
<1>3. PICK members : members = IF g.pending.type = "add" THEN g.members \cup {g.pending.member}
                                                        ELSE g.members \ {g.pending.member}
  OBVIOUS
<1>4. PICK h : h = [line |-> NewLine(g), members |-> members, pending |-> None,
                    unpublished |-> TRUE]
  OBVIOUS
<1>5. /\ g.line \in Seq(Commits) /\ NewLine(g) \in Seq(Commits)
      /\ g.pending.member \in Installations /\ g.members \subseteq Installations
      /\ IsPrefix(g.line, NewLine(g)) /\ IsPrefix(NewLine(g), NewLine(g))
  <2>1. g.line \in Seq(Commits) /\ g.pending.member \in Installations
        /\ g.members \subseteq Installations
    BY <1>2 DEF Groups, Commits
  <2>2. NewLine(g) \in Seq(Commits) /\ IsPrefix(g.line, NewLine(g))
    BY <1>2, <2>1, PrefixOrder DEF NewLine
  <2>3. QED
    BY <2>1, <2>2, PrefixOrder
<1>6. members \subseteq Installations
  BY <1>3, <1>5
<1>7. h \in Groups /\ h # None /\ h.pending = None /\ h.line = NewLine(g)
  <2>1. PICK line \in Seq(Commits) : line = NewLine(g)
    BY <1>5
  <2>2. h = [line |-> line, members |-> members, pending |-> None, unpublished |-> TRUE]
    BY <1>4, <2>1
  <2>3. h \in Groups /\ h.pending = None /\ h.line = line
    BY <1>6, <2>2 DEF Groups
  <2>4. QED
    BY <2>1, <2>3, NoneAssumption
<1>8. Extends(rt[r].mem.groups[c], h)
  BY <1>2, <1>5, <1>7 DEF Extends, Group
<1> DEFINE at == SetGroup(r, c, h)
           new == [at EXCEPT !.pc = "post"]
<1>9. Save(r, new)
  BY <1>2, <1>3, <1>4 DEF MergePendingCommit
<1>10. /\ rt[r] \in RuntimeStates /\ OnCourse(rt[r], io[r])
  BY <1>1, AtWorkKnows
<1>11. /\ at \in RuntimeStates
       /\ at.mem.groups = [rt[r].mem.groups EXCEPT ![c] = h] /\ at.mem.groups[c] = h
       /\ at.mem.cursor = rt[r].mem.cursor /\ at.mem.processed = rt[r].mem.processed
       /\ at.home = Home(r) /\ at.page = rt[r].page /\ at.cursor = rt[r].cursor
       /\ at.op = rt[r].op /\ at.conv = rt[r].conv /\ at.peer = rt[r].peer
       /\ at.target = c /\ at.own = rt[r].own /\ at.batch = rt[r].batch
  BY <1>2, <1>7, <1>10, SetGroupTyped
<1> HIDE DEF at
<1>12. /\ new \in RuntimeStates /\ new.mem = at.mem
       /\ new.home = Home(r) /\ new.page = rt[r].page /\ new.cursor = rt[r].cursor
       /\ new.op = rt[r].op /\ new.pc = "post" /\ new.conv = rt[r].conv
       /\ new.peer = rt[r].peer /\ new.target = c /\ new.own = rt[r].own
       /\ new.batch = rt[r].batch
  BY <1>11 DEF RuntimeStates
<1> HIDE DEF new
<1>13. OnCourse(new, Begun(new))
  BY <1>1, <1>2, <1>7, <1>10, <1>11, <1>12 DEF OnCourse, Begun, Home
<1>14. Sound(r, new, Begun(new))
  BY <1>1, <1>7, <1>8, <1>11, <1>12, <1>13, GroupSaveSound
<1>15. QED
  BY <1>1, <1>9, <1>14, SaveKeeps

\* The state of the group is published; the commits of the group stay what they were.
LEMMA MarkKeeps ==
  ASSUME RelayInv, KeyInv, NEW r \in Runtimes, MarkPublished(r)
  PROVE  RelayInv'
<1>1. /\ Running(r) /\ rt[r].pc = "mark" /\ io[r].at = "idle" /\ rt[r].op # "none"
      /\ UNCHANGED <<store, relay, inbox, keyPackages, faults, suffered>>
  BY DEF MarkPublished, At, relay, KeyInv, Settled
<1>2. PICK c \in Conversations, g \in Groups : c = rt[r].target /\ g = Group(r, c)
  BY <1>1, AtTarget
<1>3. PICK h : h = [g EXCEPT !.unpublished = FALSE]
  OBVIOUS
<1>4. h \in Groups /\ h # None /\ h.line = g.line /\ h.pending = g.pending
  BY <1>2, <1>3, NoneAssumption DEF Groups
<1>5. Extends(rt[r].mem.groups[c], h)
  BY <1>2, <1>4, PrefixOrder DEF Extends, Group, Groups
<1>6. /\ rt[r] \in RuntimeStates /\ OnCourse(rt[r], io[r]) /\ rt[r].home = Home(r)
      /\ Owned(Home(r), rt[r].mem)
  BY <1>1, AtWorkKnows DEF StateOK
<1>7. h.pending # None => CreatorOf[c] = Home(r)
  BY <1>2, <1>4, <1>6, NoneAssumption DEF Owned, Group
<1> DEFINE marked == SetGroup(r, c, h)
           new == IF rt[r].own THEN [marked EXCEPT !.pc = "done"] ELSE Recovering(marked)
<1>8. Save(r, new)
  BY <1>2, <1>3 DEF MarkPublished
<1>9. /\ marked \in RuntimeStates
      /\ marked.mem.groups = [rt[r].mem.groups EXCEPT ![c] = h]
      /\ marked.mem.cursor = rt[r].mem.cursor /\ marked.mem.processed = rt[r].mem.processed
      /\ marked.home = Home(r) /\ marked.page = rt[r].page /\ marked.cursor = rt[r].cursor
      /\ marked.op = rt[r].op /\ marked.conv = rt[r].conv /\ marked.peer = rt[r].peer
      /\ marked.batch = rt[r].batch
  BY <1>4, <1>6, SetGroupTyped
<1> HIDE DEF marked
<1>10. /\ new \in RuntimeStates /\ OnCourse(new, Begun(new))
       /\ new.mem = marked.mem /\ new.home = Home(r) /\ new.page = rt[r].page
       /\ new.cursor = rt[r].cursor /\ new.batch = rt[r].batch
       /\ new.pc \notin {"initialize", "take", "synced"}
  <2>1. CASE rt[r].own
    <3>1. /\ new \in RuntimeStates /\ new.mem = marked.mem
          /\ new.home = Home(r) /\ new.page = rt[r].page /\ new.cursor = rt[r].cursor
          /\ new.op = rt[r].op /\ new.pc = "done" /\ new.conv = rt[r].conv
          /\ new.peer = rt[r].peer /\ new.batch = rt[r].batch
      BY <1>9, <2>1 DEF RuntimeStates
    <3> HIDE DEF new
    <3>2. OnCourse(new, Begun(new))
      BY <1>6, <3>1 DEF OnCourse, Begun
    <3>3. QED
      BY <3>1, <3>2
  <2>2. CASE ~rt[r].own
    <3>1. new = Recovering(marked)
      BY <2>2
    <3> HIDE DEF new
    <3>2. marked.op \in {"init", "create", "add", "sync"}
      BY <1>1, <1>6, <1>9, <2>2, AtTarget DEF RuntimeStates
    <3>3. /\ marked.op \in {"create", "add"} => /\ marked.conv \in Conversations
                                                /\ CreatorOf[marked.conv] = marked.home
          /\ marked.op = "add" => marked.peer \in Installations
      BY <1>6, <1>9 DEF OnCourse
    <3>4. PICK i : i = Begun(new)
      OBVIOUS
    <3>5. i.at \notin {"load", "open"}
      BY <3>4 DEF Begun
    <3>6. /\ new \in RuntimeStates /\ OnCourse(new, i)
          /\ new.home = marked.home /\ new.page = marked.page /\ new.mem = marked.mem
          /\ new.cursor = marked.cursor /\ new.batch = marked.batch
          /\ new.pc \notin {"initialize", "take", "synced"}
      BY <1>9, <3>1, <3>2, <3>3, <3>5, RecoveringTyped
    <3>7. QED
      BY <1>9, <3>4, <3>6
  <2>3. QED
    BY <2>1, <2>2
<1> HIDE DEF new
<1>11. Sound(r, new, Begun(new))
  BY <1>1, <1>4, <1>5, <1>7, <1>9, <1>10, GroupSaveSound
<1>12. QED
  BY <1>1, <1>8, <1>11, SaveKeeps

-----------------------------------------------------------------------------
\* sync()

\* What is remembered: s, and nothing that was not remembered before.
LEMMA Remembers ==
  ASSUME NEW processed \in Seq(Nat), Len(processed) <= Remembered, NEW s \in Nat
  PROVE  LET new == Remember(processed, s)
         IN  /\ new \in Seq(Nat) /\ Len(new) <= Remembered
             /\ \A x \in Range(new) : x = s \/ x \in Range(processed)
<1> DEFINE all == Append(processed, s)
           new == Remember(processed, s)
<1>0. Remembered \in Nat /\ Len(processed) \in Nat
  BY RememberedAssumption
<1>1. /\ all \in Seq(Nat) /\ Len(all) = Len(processed) + 1
      /\ \A k \in 1 .. Len(all) : all[k] = s \/ all[k] \in Range(processed)
  BY DEF Range
<1>2. new = IF Len(all) > Remembered THEN Tail(all) ELSE all
  BY DEF Remember
<1> HIDE DEF all, new
<1>3. CASE Len(all) > Remembered
  <2>1. /\ new \in Seq(Nat) /\ Len(new) = Len(processed)
        /\ \A k \in 1 .. Len(new) : new[k] = all[k + 1] /\ k + 1 \in 1 .. Len(all)
    BY <1>0, <1>1, <1>2, <1>3
  <2>2. \A k \in 1 .. Len(new) : new[k] = s \/ new[k] \in Range(processed)
    BY <1>1, <2>1
  <2>3. ASSUME NEW x \in Range(new) PROVE x = s \/ x \in Range(processed)
    <3>1. PICK k \in 1 .. Len(new) : x = new[k]
      BY <2>1 DEF Range
    <3>2. QED
      BY <2>2, <3>1
  <2>4. QED
    BY <2>1, <2>3 DEF new
<1>4. CASE ~(Len(all) > Remembered)
  <2>1. new = all /\ Len(new) <= Remembered
    BY <1>0, <1>1, <1>2, <1>4
  <2>2. \A x \in Range(new) : x = s \/ x \in Range(processed)
    BY <1>1, <2>1 DEF Range
  <2>3. QED
    BY <1>1, <2>1, <2>2 DEF new
<1>5. QED
  BY <1>3, <1>4

\* The group of a handshake that fits, once it is applied: nobody but its author
\* has something to commit there.
AfterHandshake(g, e) ==
  IF e.kind = "welcome" THEN JoinedGroup(e.line) ELSE [g EXCEPT !.line = e.line]

LEMMA FitsExtends ==
  ASSUME NEW n, NEW m \in States, Owned(n, m),
         NEW e \in Handshakes, CreatorOf[e.conv] # n, Fits(m, e)
  PROVE  LET h == AfterHandshake(m.groups[e.conv], e)
         IN  /\ h \in Groups /\ h.line = e.line /\ h.pending = None
             /\ Extends(m.groups[e.conv], h)
<1> DEFINE g == m.groups[e.conv]
           h == AfterHandshake(g, e)
<1>1. /\ e.conv \in Conversations /\ e.line \in Seq(Commits) /\ e.line # <<>>
      /\ g \in Groups \cup {None}
  BY DEF Handshakes, States
<1>2. CASE e.kind = "welcome"
  <2>1. h \in Groups /\ h.line = e.line /\ h.pending = None
    BY <1>1, <1>2 DEF AfterHandshake, JoinedGroup, Groups
  <2>2. g = None
    BY <1>2 DEF Fits
  <2> HIDE DEF h, g
  <2>3. Extends(g, h)
    BY <2>1, <2>2, NoneAssumption DEF Extends
  <2>4. QED
    BY <2>1, <2>3 DEF h, g
<1>3. CASE e.kind # "welcome"
  <2>1. g \in Groups /\ g.line = Front(e.line) /\ g.pending = None
    BY <1>1, <1>3 DEF Fits, Owned
  <2>2. IsPrefix(Front(e.line), e.line)
    BY <1>1, FrontIsBefore
  <2> HIDE DEF g
  <2>3. h \in Groups /\ h.line = e.line /\ h.pending = None
    BY <1>1, <1>3, <2>1 DEF AfterHandshake, Groups
  <2> HIDE DEF h
  <2>4. Extends(g, h)
    BY <2>1, <2>2, <2>3, NoneAssumption DEF Extends
  <2>5. QED
    BY <2>3, <2>4 DEF h, g
<1>4. QED
  BY <1>2, <1>3

LEMMA TakeKeeps ==
  ASSUME RelayInv, KeyInv, NEW r \in Runtimes, TakeHandshake(r)
  PROVE  RelayInv'
<1>1. /\ Running(r) /\ rt[r].pc = "take" /\ io[r].at = "idle" /\ rt[r].batch # {}
      /\ UNCHANGED <<store, relay, inbox, keyPackages, faults, suffered>>
  BY DEF TakeHandshake, At, relay
<1>2. PICK n \in Installations, log \in Seq(Handshakes), m \in States :
        n = Home(r) /\ log = inbox[n] /\ m = rt[r].mem
  BY <1>1, AtWorkKnows DEF RelayInv, Stores, MailOK
<1>3. /\ rt[r] \in RuntimeStates /\ rt[r].home = n /\ OnCourse(rt[r], io[r])
      /\ StateOK(n, m, log) /\ rt[r].batch \subseteq 1 .. Len(log)
      /\ rt[r].cursor <= m.cursor
      /\ rt[r].cursor <= rt[r].next /\ rt[r].next <= Len(log)
      /\ \A k \in 1 .. rt[r].next : k \in rt[r].batch \/ Reflects(m, log[k])
      /\ io[r].key \in Runtimes \cup {None}
  BY <1>1, <1>2, AtWorkKnows
<1>4. PICK s \in rt[r].batch : s = Min(rt[r].batch)
  <2>1. PICK S : S = rt[r].batch
    OBVIOUS
  <2>2. S \subseteq Nat /\ S # {}
    BY <1>1, <1>3, <2>1
  <2>3. Min(S) \in S
    BY <2>2, MinOfBatch
  <2>4. QED
    BY <2>1, <2>3
<1>5. PICK e \in Handshakes : e = log[s]
  BY <1>2, <1>3, <1>4
<1>6. s \in 1 .. Len(log) /\ s \in Nat /\ CreatorOf[e.conv] = e.from /\ e.from # n
  BY <1>2, <1>3, <1>4, <1>5 DEF RelayInv, Stores, MailOK
<1> DEFINE rest == [rt[r] EXCEPT !.batch = @ \ {s}]
<1>7. /\ rest \in RuntimeStates /\ rest.home = n /\ rest.page = rt[r].page /\ rest.mem = m
      /\ rest.cursor = rt[r].cursor /\ rest.op = rt[r].op /\ rest.pc = "take"
      /\ rest.batch = rt[r].batch \ {s} /\ rest.next = rt[r].next
  BY <1>1, <1>2, <1>3 DEF RuntimeStates
<1>8. \/ /\ s \in Range(m.processed) /\ Step(r, rest) /\ UNCHANGED io
      \/ Fits(m, e) /\ Save(r, [rest EXCEPT !.mem = Applied(@, e, s)])
      \/ Abort(r) /\ UNCHANGED io
  BY <1>2, <1>4, <1>5 DEF TakeHandshake
<1> HIDE DEF rest
<1>9. CASE s \in Range(m.processed) /\ Step(r, rest) /\ UNCHANGED io
  <2>1. Reflects(m, log[s])
    BY <1>3, <1>6, <1>9 DEF StateOK, Covers
  <2>2. \A k \in 1 .. rest.next : k \in rest.batch \/ Reflects(rest.mem, log[k])
    BY <1>3, <1>7, <2>1
  <2>3. OnCourse(rest, io[r])
    BY <1>1, <1>3, <1>7 DEF OnCourse
  <2>4. PICK i : i = io[r]
    OBVIOUS
  <2>5. suffered'[Home(r)] = {} => rest.mem = Saved(Home(r))
    BY <1>1, <1>2, <1>7, IdleInSync
  <2>6. Sound(r, rest, i)
    BY <1>1, <1>2, <1>3, <1>7, <2>2, <2>3, <2>4, <2>5, WorkSound
  <2>7. QED
    BY <1>1, <1>9, <2>4, <2>6, GoKeeps, QuietTypes
<1>10. CASE Fits(m, e) /\ Save(r, [rest EXCEPT !.mem = Applied(@, e, s)])
  <2>1. PICK h : h = AfterHandshake(m.groups[e.conv], e)
    OBVIOUS
  <2>2. h \in Groups /\ h.line = e.line /\ h.pending = None /\ Extends(m.groups[e.conv], h)
    BY <1>3, <1>6, <1>10, <2>1, FitsExtends DEF StateOK
  <2>3. PICK packages \in SUBSET Runtimes :
          packages = IF e.kind = "welcome" THEN m.packages \ {Last(e.line).package} ELSE m.packages
    BY DEF States
  <2>4. m.processed \in Seq(Nat) /\ Len(m.processed) <= Remembered /\ m.cursor \in Nat
        /\ m.groups \in [Conversations -> Groups \cup {None}] /\ e.conv \in Conversations
    BY <1>3 DEF StateOK, States, Handshakes
  <2>5. PICK processed \in Seq(Nat) :
          /\ processed = Remember(m.processed, s) /\ Len(processed) <= Remembered
          /\ \A x \in Range(processed) : x = s \/ x \in Range(m.processed)
    BY <1>6, <2>4, Remembers
  <2> DEFINE new == [groups |-> [m.groups EXCEPT ![e.conv] = h], cursor |-> m.cursor,
                     processed |-> processed, packages |-> packages]
             next == [rest EXCEPT !.mem = new]
  <2>6. new \in States /\ new.groups = [m.groups EXCEPT ![e.conv] = h]
        /\ new.groups[e.conv] = h /\ new.cursor = m.cursor /\ new.processed = processed
    BY <2>2, <2>3, <2>4 DEF States
  <2>7. Applied(m, e, s) = new
    <3>0. PICK groups : groups = [m.groups EXCEPT ![e.conv] = h]
      OBVIOUS
    <3> DEFINE m1 == [m EXCEPT !.groups = groups]
               m2 == [m1 EXCEPT !.packages = packages]
               m3 == [m2 EXCEPT !.processed = processed]
    <3>1. Applied(m, e, s) = m3
      BY <2>1, <2>3, <2>5, <3>0 DEF Applied, AfterHandshake
    <3>2. m1 = [groups |-> groups, cursor |-> m.cursor,
                processed |-> m.processed, packages |-> m.packages]
      <4>1. m = [groups |-> m.groups, cursor |-> m.cursor,
                 processed |-> m.processed, packages |-> m.packages]
        BY DEF States
      <4>2. QED
        BY <4>1
    <3> HIDE DEF m1
    <3>3. m2 = [groups |-> groups, cursor |-> m.cursor,
                processed |-> m.processed, packages |-> packages]
      BY <3>2
    <3> HIDE DEF m2
    <3>4. m3 = [groups |-> groups, cursor |-> m.cursor,
                processed |-> processed, packages |-> packages]
      BY <3>3
    <3>5. QED
      BY <3>0, <3>1, <3>4
  <2>8. Save(r, next)
    BY <1>7, <1>10, <2>7
  <2> HIDE DEF new
  <2>9. /\ next \in RuntimeStates /\ next.home = n /\ next.page = rt[r].page /\ next.mem = new
        /\ next.cursor = rt[r].cursor /\ next.op = rt[r].op /\ next.pc = "take"
        /\ next.batch = rt[r].batch \ {s} /\ next.next = rt[r].next
    BY <1>7, <2>6 DEF RuntimeStates
  <2> HIDE DEF next
  <2>10. \A k \in 1 .. Len(log) : Reflects(m, log[k]) => Reflects(new, log[k])
    <3> SUFFICES ASSUME NEW k \in 1 .. Len(log)
                 PROVE  Reflects(m, log[k]) => Reflects(new, log[k])
      OBVIOUS
    <3>1. PICK d \in Handshakes : d = log[k]
      OBVIOUS
    <3>2. PICK c \in Conversations : c = e.conv
      BY <2>4
    <3>3. /\ new \in States /\ h \in Groups /\ new.groups = [m.groups EXCEPT ![c] = h]
          /\ Extends(m.groups[c], h)
      BY <2>2, <2>6, <3>2
    <3> HIDE DEF new
    <3>4. Reflects(m, d) => Reflects(new, d)
      BY <3>3, GroupGrows
    <3>5. QED
      BY <3>1, <3>4
  <2>11. Reflects(new, log[s])
    <3>1. e.line \in Seq(Commits) /\ IsPrefix(e.line, e.line)
      BY PrefixOrder DEF Handshakes
    <3>2. QED
      BY <1>5, <2>2, <2>6, <3>1, NoneAssumption DEF Reflects
  <2>12. Covers(log, new)
    <3>1. new.cursor <= Len(log)
      BY <1>3, <2>6 DEF StateOK, Covers
    <3>2. \A x \in Range(processed) : x \in 1 .. Len(log)
      BY <1>3, <1>6, <2>5, ZenonT(60) DEF StateOK, Covers, Range
    <3>3. \A k \in DOMAIN processed : processed[k] \in 1 .. Len(log)
      BY <3>2 DEF Range
    <3>4. \A k \in 1 .. Len(log) : k <= m.cursor \/ k \in Range(processed) => Reflects(new, log[k])
      BY <1>3, <2>5, <2>10, <2>11 DEF StateOK, Covers
    <3>5. QED
      BY <2>6, <3>1, <3>3, <3>4 DEF Covers
  <2>13. Owned(n, new)
    BY <1>3, <2>2, <2>4, <2>6 DEF StateOK, Owned
  <2>14. StateOK(n, next.mem, log)
    BY <2>5, <2>6, <2>9, <2>12, <2>13 DEF StateOK
  <2>15. suffered'[n] = {} => HasAll(n, next.mem, inbox)
    <3>1. suffered'[n] = {} => HasAll(n, m, inbox)
      BY <1>1, <1>2, HeldInMemory
    <3>2. QED
      BY <2>2, <2>4, <2>6, <2>9, <3>1, HeldGrows
  <2>16. \A k \in 1 .. next.next : k \in next.batch \/ Reflects(next.mem, log[k])
    <3>1. \A k \in 1 .. rt[r].next : k \in 1 .. Len(log)
      BY <1>3 DEF RuntimeStates
    <3>2. QED
      BY <1>3, <2>9, <2>10, <2>11, <3>1
  <2>17. PICK i : i = Begun(next)
    OBVIOUS
  <2>18. i.at = "key" /\ i.key = None /\ i.data = next.mem
    BY <2>17 DEF Begun
  <2>19. OnCourse(next, i)
    BY <1>1, <1>3, <2>9, <2>18 DEF OnCourse
  <2>20. next.cursor <= next.mem.cursor
    BY <1>3, <2>6, <2>9
  <2>21. next.batch \subseteq 1 .. Len(log) /\ next.cursor <= next.next /\ next.next <= Len(log)
    BY <1>3, <2>9
  <2>22. Sound(r, next, i)
    BY <1>1, <1>2, <2>9, <2>14, <2>15, <2>16, <2>18, <2>19, <2>20, <2>21, WorkSound
  <2>23. QED
    BY <1>1, <2>8, <2>17, <2>22, SaveKeeps
<1>11. CASE Abort(r) /\ UNCHANGED io
  BY <1>1, <1>11, AbortKeeps, QuietTypes
<1>12. QED
  BY <1>8, <1>9, <1>10, <1>11

\* The cursor follows when all of the batch is processed.
LEMMA CursorKeeps ==
  ASSUME RelayInv, KeyInv, NEW r \in Runtimes, SaveHandshakeCursor(r)
  PROVE  RelayInv'
<1>1. /\ Running(r) /\ rt[r].pc = "take" /\ io[r].at = "idle" /\ rt[r].batch = {}
      /\ UNCHANGED <<store, relay, inbox, keyPackages, faults, suffered>>
  BY DEF SaveHandshakeCursor, At, relay
<1>2. PICK n \in Installations, log \in Seq(Handshakes), m \in States :
        n = Home(r) /\ log = inbox[n] /\ m = rt[r].mem
  BY <1>1, AtWorkKnows DEF RelayInv, Stores, MailOK
<1>3. /\ rt[r] \in RuntimeStates /\ rt[r].home = n /\ OnCourse(rt[r], io[r])
      /\ StateOK(n, m, log) /\ rt[r].next \in Nat
      /\ rt[r].cursor <= rt[r].next /\ rt[r].next <= Len(log)
      /\ \A k \in 1 .. rt[r].next : Reflects(m, log[k])
  BY <1>1, <1>2, AtWorkKnows DEF RuntimeStates
<1> DEFINE new == [m EXCEPT !.cursor = rt[r].next]
           at == [rt[r] EXCEPT !.pc = "synced"]
           next == [at EXCEPT !.mem = new]
<1>4. /\ new \in States /\ new.groups = m.groups /\ new.cursor = rt[r].next
      /\ new.processed = m.processed
  BY <1>3 DEF States
<1>5. Save(r, next)
  BY <1>2 DEF SaveHandshakeCursor
<1> HIDE DEF new
<1>6. /\ next \in RuntimeStates /\ next.home = n /\ next.page = rt[r].page /\ next.mem = new
      /\ next.cursor = rt[r].cursor /\ next.op = rt[r].op /\ next.pc = "synced"
      /\ next.batch = {} /\ next.next = rt[r].next
  <2>1. /\ at \in RuntimeStates /\ at.home = n /\ at.page = rt[r].page
        /\ at.cursor = rt[r].cursor /\ at.op = rt[r].op /\ at.pc = "synced"
        /\ at.batch = {} /\ at.next = rt[r].next
    BY <1>1, <1>3 DEF RuntimeStates
  <2> HIDE DEF at
  <2>2. QED
    BY <1>4, <2>1 DEF RuntimeStates
<1> HIDE DEF next
<1>7. \A e : /\ Reflects(new, e) <=> Reflects(m, e)
             /\ Has(new, e) <=> Has(m, e)
  BY <1>4 DEF Reflects, Has
<1>8. Covers(log, new)
  <2>1. \A k \in 1 .. Len(log) : k <= new.cursor \/ k \in Range(new.processed) => Reflects(m, log[k])
    BY <1>3, <1>4 DEF StateOK, Covers
  <2>2. QED
    BY <1>3, <1>4, <1>7, <2>1 DEF StateOK, Covers
<1>9. StateOK(n, next.mem, log)
  BY <1>3, <1>4, <1>6, <1>8 DEF StateOK, Owned
<1>10. suffered'[n] = {} => HasAll(n, next.mem, inbox)
  BY <1>1, <1>2, <1>6, <1>7, HeldInMemory DEF HasAll
<1>11. PICK i : i = Begun(next)
  OBVIOUS
<1>12. i.at = "key" /\ i.key = None /\ i.data = next.mem
  BY <1>11 DEF Begun
<1>13. OnCourse(next, i)
  BY <1>1, <1>3, <1>6, <1>12 DEF OnCourse
<1>14. Sound(r, next, i)
  BY <1>1, <1>2, <1>3, <1>4, <1>6, <1>9, <1>10, <1>12, <1>13, WorkSound
<1>15. QED
  BY <1>1, <1>5, <1>11, <1>14, SaveKeeps

-----------------------------------------------------------------------------
\* Handshakes that are published

LEMMA SequenceOfSet ==
  ASSUME NEW S, IsFiniteSet(S)
  PROVE  /\ SetToSeq(S) \in Seq(S)
         /\ \A x \in S : \E i \in DOMAIN SetToSeq(S) : SetToSeq(S)[i] = x
<1>1. PICK k \in Nat : k = Cardinality(S)
  BY FS_CardinalityType
<1>2. PICK f \in [1 .. k -> S] : IsInjective(f)
  BY <1>1, FS_CardinalityType DEF ExistsBijection, Bijection, Injection
<1>3. PICK g \in [1 .. k -> S] : g = SetToSeq(S) /\ IsInjective(g)
  BY <1>1, <1>2 DEF SetToSeq
<1>4. Cardinality(1 .. k) = k
  BY FS_Interval
<1>5. g \in Injection(1 .. k, S)
  BY <1>3 DEF Injection
<1>6. g \in Surjection(1 .. k, S)
  BY <1>1, <1>4, <1>5, FS_Injection
<1>7. \A x \in S : \E i \in 1 .. k : g[i] = x
  BY <1>6 DEF Surjection
<1>8. QED
  BY <1>3, <1>7

\* To whom a handshake of the commit that g waits for may go, from n: a welcome to
\* who is added, the commit to the other members.
MayGo(g, n, kind, to) ==
  IF kind = "welcome" THEN g.pending.type = "add" /\ to = g.pending.member
                      ELSE to \in g.members \ {n, g.pending.member}

\* The handshakes that r may send now: of its own commit, to others.
Sent(r) ==
  {d \in Handshakes : /\ d.from = Home(r) /\ d.to # Home(r)
                      /\ d.conv = rt[r].target
                      /\ d.line = NewLine(Group(r, rt[r].target))
                      /\ MayGo(Group(r, rt[r].target), Home(r), d.kind, d.to)}

LEMMA DeliveriesAreSent ==
  ASSUME RelayInv, NEW r \in Runtimes, Running(r), rt[r].pc = "publish",
         ValidBatch(Deliveries(r))
  PROVE  Deliveries(r) \in Seq(Sent(r))
<1>1. PICK c \in Conversations, g \in Groups :
        /\ c = rt[r].target /\ g = Group(r, c) /\ g.pending \in Commits
  BY AtTarget
<1>2. PICK n \in Installations : n = Home(r)
  BY RunsAtHome
<1>3. PICK peer \in Installations : peer = g.pending.member
  BY <1>1 DEF Commits
<1>4. PICK others \in Seq(g.members \ {n, peer}) : others = SetToSeq(g.members \ {n, peer})
  <2>1. PICK S : S = g.members \ {n, peer}
    OBVIOUS
  <2>2. S \subseteq Installations
    BY <2>1 DEF Groups
  <2>3. IsFiniteSet(S)
    BY <2>2, InstallationsAssumption, FS_Subset
  <2>4. SetToSeq(S) \in Seq(S)
    BY <2>3, SequenceOfSet
  <2>5. QED
    BY <2>1, <2>2, <2>4
<1>5. PICK line \in Seq(Commits) : line = NewLine(g) /\ line # <<>>
  <2>1. PICK made \in Seq(Commits), commit \in Commits : made = g.line /\ commit = g.pending
    BY <1>1 DEF Groups
  <2>2. Append(made, commit) \in Seq(Commits) /\ Append(made, commit) # <<>>
    OBVIOUS
  <2>3. QED
    BY <2>1, <2>2 DEF NewLine
<1> DEFINE D == {d \in Handshakes : /\ d.from = n /\ d.conv = c /\ d.line = line
                                   /\ MayGo(g, n, d.kind, d.to)}
<1>6. \A kind \in {"commit", "welcome"}, to \in Installations :
        MayGo(g, n, kind, to) => Delivery(r, kind, to) \in D
  <2> SUFFICES ASSUME NEW kind \in {"commit", "welcome"}, NEW to \in Installations,
                      MayGo(g, n, kind, to)
               PROVE  Delivery(r, kind, to) \in D
    OBVIOUS
  <2>1. Delivery(r, kind, to) = [conv |-> c, kind |-> kind, from |-> n, to |-> to, line |-> line]
    BY <1>1, <1>2, <1>5 DEF Delivery
  <2>2. QED
    BY <1>5, <2>1 DEF Handshakes
<1> HIDE DEF D
<1>7. Deliveries(r) \in Seq(D)
  <2> DEFINE commits == [i \in DOMAIN others |-> Delivery(r, "commit", others[i])]
  <2>1. \A i \in DOMAIN others : Delivery(r, "commit", others[i]) \in D
    <3> SUFFICES ASSUME NEW i \in DOMAIN others PROVE Delivery(r, "commit", others[i]) \in D
      OBVIOUS
    <3>1. others[i] \in g.members \ {n, peer} /\ g.members \subseteq Installations
      BY <1>4 DEF Groups
    <3>2. QED
      BY <1>3, <1>6, <3>1 DEF MayGo
  <2>2. commits \in Seq(D)
    <3>1. PICK k \in Nat : DOMAIN others = 1 .. k
      BY <1>4
    <3>2. QED
      BY <2>1, <3>1
  <2>3. Deliveries(r) = IF g.pending.type = "add"
                        THEN Append(commits, Delivery(r, "welcome", peer)) ELSE commits
    BY <1>1, <1>2, <1>3, <1>4 DEF Deliveries
  <2> HIDE DEF commits
  <2>4. g.pending.type = "add" => Delivery(r, "welcome", peer) \in D
    BY <1>3, <1>6 DEF MayGo
  <2>5. QED
    BY <2>2, <2>3, <2>4
<1>8. \A i \in DOMAIN Deliveries(r) : Deliveries(r)[i].from # Deliveries(r)[i].to
  BY DEF ValidBatch
<1>9. PICK ds \in Seq(D) : ds = Deliveries(r)
  BY <1>7
<1>10. \A i \in 1 .. Len(ds) : ds[i] \in Sent(r)
  <2>1. \A i \in 1 .. Len(ds) : ds[i] \in D /\ ds[i].from # ds[i].to
    BY <1>8, <1>9
  <2>2. QED
    BY <1>1, <1>2, <1>5, <2>1 DEF D, Sent
<1>11. QED
  BY <1>9, <1>10

\* What r publishes comes behind what the inboxes hold.
Arrived(r, n, log, new) ==
  \A p \in 1 .. Len(new) :
    \/ p \in 1 .. Len(log) /\ new[p] = log[p]
    \/ new[p] \in Sent(r) /\ new[p].to = n

LEMMA InboxGrows ==
  ASSUME RelayInv, KeyInv, NEW r \in Runtimes, Running(r), rt[r].pc = "publish",
         PublishHandshakes(Deliveries(r)), NEW n \in Installations
  PROVE  GoesOnFrom(inbox[n], inbox'[n]) /\ Arrived(r, n, inbox[n], inbox'[n])
<1>1. PICK ds \in Seq(Sent(r)) : ds = Deliveries(r)
  BY DeliveriesAreSent DEF PublishHandshakes
<1>2. PICK more : more = Addressed(ds, n)
  OBVIOUS
<1>3. more \in Seq({d \in Sent(r) : d.to = n})
  <2>1. PICK S : S = Sent(r)
    OBVIOUS
  <2>2. Addressed(ds, n) \in Seq({d \in S : d.to = n})
    BY <1>1, <2>1, AddressedAre
  <2>3. QED
    BY <1>2, <2>1, <2>2
<1>4. PICK log \in Seq(Handshakes) : log = inbox[n]
  BY DEF RelayInv, Stores, MailOK
<1>5. inbox'[n] = log \o more
  BY <1>1, <1>2, <1>4 DEF PublishHandshakes
<1>6. PICK new : new = log \o more
  OBVIOUS
<1>7. more \in Seq(Handshakes) /\ \A p \in 1 .. Len(more) : more[p] \in Sent(r) /\ more[p].to = n
  BY <1>3 DEF Sent
<1>8. /\ new \in Seq(Handshakes) /\ Len(new) = Len(log) + Len(more)
      /\ \A p \in 1 .. Len(log) : new[p] = log[p]
      /\ \A p \in 1 .. Len(new) : p \in 1 .. Len(log) \/ p - Len(log) \in 1 .. Len(more)
      /\ \A p \in 1 .. Len(new) : p \notin 1 .. Len(log) => new[p] = more[p - Len(log)]
  BY <1>6, <1>7
<1>9. GoesOnFrom(log, new) /\ Arrived(r, n, log, new)
  BY <1>7, <1>8 DEF GoesOnFrom, Arrived
<1>10. QED
  BY <1>4, <1>5, <1>6, <1>9

\* What r publishes is of the commit that waits in its memory.
LEMMA MemoryHasSent ==
  ASSUME RelayInv, NEW r \in Runtimes, Running(r), rt[r].pc = "publish",
         NEW d \in Sent(r)
  PROVE  Has(rt[r].mem, d) /\ CreatorOf[d.conv] = d.from
<1>1. PICK c \in Conversations, g \in Groups :
        /\ c = rt[r].target /\ g = Group(r, c) /\ g.pending \in Commits
        /\ CreatorOf[c] = Home(r)
  BY AtTarget
<1>2. rt[r].mem.groups[d.conv] = g /\ d.line = NewLine(g) /\ d.from = Home(r) /\ d.conv = c
  BY <1>1 DEF Sent, Group
<1>3. g # None /\ g.pending # None
  BY <1>1, NoneAssumption
<1>4. QED
  BY <1>1, <1>2, <1>3 DEF Has

\* The inboxes go on; the memory of r, and what it saved, has the commit they tell of.
LEMMA BatchKeeps ==
  ASSUME RelayInv, KeyInv, NEW r \in Runtimes, Running(r), io[r].at = "idle",
         rt[r].pc = "publish", PublishHandshakes(Deliveries(r)),
         NEW new, Step(r, new), Sound(r, new, io[r]),
         UNCHANGED <<store, io, suffered>>, faults' \in 0 .. MaxFaults
  PROVE  RelayInv'
<1>1. \A n \in Installations :
        GoesOnFrom(inbox[n], inbox'[n]) /\ Arrived(r, n, inbox[n], inbox'[n])
  BY InboxGrows
<1>2. MailOK(inbox')
  <2> SUFFICES ASSUME NEW n \in Installations
               PROVE  /\ inbox'[n] \in Seq(Handshakes)
                      /\ \A p \in 1 .. Len(inbox'[n]) :
                           /\ inbox'[n][p].to = n /\ inbox'[n][p].from # n
                           /\ CreatorOf[inbox'[n][p].conv] = inbox'[n][p].from
    BY DEF MailOK
  <2>1. inbox'[n] \in Seq(Handshakes) /\ Arrived(r, n, inbox[n], inbox'[n])
    BY <1>1 DEF GoesOnFrom
  <2>2. \A d \in Sent(r) : d.to = n => d.from # n /\ CreatorOf[d.conv] = d.from
    BY MemoryHasSent DEF Sent
  <2>3. \A p \in 1 .. Len(inbox[n]) : /\ inbox[n][p].to = n /\ inbox[n][p].from # n
                                      /\ CreatorOf[inbox[n][p].conv] = inbox[n][p].from
    BY DEF RelayInv, Stores, MailOK
  <2>4. QED
    BY <2>1, <2>2, <2>3 DEF Arrived
<1>3. ASSUME NEW n \in Installations, NEW m, HasAll(n, m, inbox), n = Home(r) => m = rt[r].mem
      PROVE  HasAll(n, m, inbox')
  <2> SUFFICES ASSUME NEW k \in Installations, NEW p \in DOMAIN inbox'[k],
                      inbox'[k][p].from = n
               PROVE  Has(m, inbox'[k][p])
    BY DEF HasAll
  <2>1. p \in 1 .. Len(inbox'[k]) /\ Arrived(r, k, inbox[k], inbox'[k])
    BY <1>1 DEF GoesOnFrom
  <2>2. CASE p \in 1 .. Len(inbox[k]) /\ inbox'[k][p] = inbox[k][p]
    <3>1. p \in DOMAIN inbox[k]
      BY <2>2 DEF RelayInv, Stores, MailOK
    <3>2. QED
      BY <1>3, <2>2, <3>1 DEF HasAll
  <2>3. CASE inbox'[k][p] \in Sent(r)
    <3>1. PICK d \in Sent(r) : d = inbox'[k][p]
      BY <2>3
    <3>2. d.from = Home(r)
      BY DEF Sent
    <3>3. Has(rt[r].mem, d)
      BY MemoryHasSent
    <3>4. QED
      BY <1>3, <3>1, <3>2, <3>3
  <2>4. QED
    BY <2>1, <2>2, <2>3 DEF Arrived
<1>4. /\ keyPackages' = keyPackages
      /\ \A n \in Installations : Saved(n)' = Saved(n) /\ suffered'[n] = suffered[n]
      /\ checkpoints' = checkpoints
  BY DEF PublishHandshakes, Saved, store
<1>5. Stores'
  <2> SUFFICES ASSUME NEW n \in Installations
               PROVE  /\ StateOK(n, Saved(n)', inbox'[n])
                      /\ suffered'[n] = {} => HasAll(n, Saved(n)', inbox')
    BY <1>2, <1>4 DEF RelayInv, Stores
  <2>1. StateOK(n, Saved(n), inbox[n]) /\ (suffered[n] = {} => HasAll(n, Saved(n), inbox))
    BY DEF RelayInv, Stores
  <2>2. StateOK(n, Saved(n), inbox'[n])
    BY <1>1, <2>1, StateStays
  <2>3. suffered[n] = {} /\ n = Home(r) => Saved(n) = rt[r].mem
    BY IdleInSync
  <2>4. suffered[n] = {} => HasAll(n, Saved(n), inbox')
    BY <1>3, <2>1, <2>3
  <2>5. QED
    BY <1>4, <2>2, <2>4
<1>6. DOMAIN rt = Runtimes /\ DOMAIN io = Runtimes
  BY DEF KeyInv, Shape
<1>7. rt'[r] = new /\ \A t \in Runtimes \ {r} : rt'[t] = rt[t]
  BY <1>6 DEF Step
<1>8. OneRuns'
  <2>1. \A t \in Runtimes : Running(t)' => Running(t) /\ Home(t)' = Home(t)
    BY <1>7 DEF Running, Home, Sound
  <2>2. QED
    BY <1>4, <2>1, OneStays
<1>9. ASSUME NEW t \in Runtimes \ {r} PROVE InOrder(t)'
  <2>1. rt'[t] = rt[t] /\ io'[t] = io[t] /\ Home(t)' = Home(t) /\ (Running(t)' <=> Running(t))
    BY <1>7 DEF Home, Running
  <2>2. RuntimeOK(rt[t], io[t])
    BY DEF RelayInv, InOrder
  <2>3. ASSUME Running(t)
        PROVE  /\ WorkOK(rt[t], io[t], inbox'[Home(t)])
               /\ suffered[Home(t)] = {} => InSync(rt[t], io[t], Saved(Home(t)), inbox')
    <3>1. PICK n \in Installations : n = Home(t) /\ n = rt[t].home
      BY <2>3, AtWorkKnows
    <3>2. WorkOK(rt[t], io[t], inbox[n]) /\ rt[t] \in RuntimeStates
      BY <2>3, <3>1, AtWorkKnows DEF RelayInv, InOrder
    <3>3. WorkOK(rt[t], io[t], inbox'[n])
      BY <1>1, <3>2, WorkStays
    <3>4. ASSUME suffered[n] = {} PROVE InSync(rt[t], io[t], Saved(n), inbox')
      <4>1. InSync(rt[t], io[t], Saved(n), inbox)
        BY <2>3, <3>1, <3>4 DEF RelayInv, InOrder
      <4>2. n # Home(r)
        BY <2>3, <3>1, <3>4 DEF RelayInv, OneRuns
      <4>3. Saves(io[t]) => HasAll(n, io[t].data, inbox')
        BY <1>3, <3>1, <4>1, <4>2 DEF InSync
      <4>4. QED
        BY <3>1, <4>1, <4>3 DEF InSync
    <3>5. QED
      BY <3>1, <3>3, <3>4
  <2>4. QED
    BY <1>4, <2>1, <2>2, <2>3, AtWorkKnows DEF InOrder
<1>10. InOrder(r)'
  <2>1. PICK n \in Installations : n = Home(r)
    BY RunsAtHome
  <2>2. rt'[r] = new /\ io'[r] = io[r] /\ Home(r)' = n /\ (Running(r)' <=> Runs(new))
    BY <1>7, <2>1 DEF Home, Running, Runs, Sound
  <2>3. RuntimeOK(new, io[r]) /\ new \in RuntimeStates
    BY DEF Sound, RuntimeOK
  <2>4. Runs(new) => WorkOK(new, io[r], inbox'[n])
    BY <1>1, <2>1, <2>3, WorkStays DEF Sound
  <2>5. Runs(new) /\ suffered'[n] = {} => InSync(new, io[r], Saved(n), inbox')
    BY <2>1 DEF Sound, InSync, Saves
  <2>6. QED
    BY <1>4, <2>1, <2>2, <2>3, <2>4, <2>5 DEF InOrder
<1>11. QED
  BY <1>5, <1>8, <1>9, <1>10 DEF RelayInv

-----------------------------------------------------------------------------
\* Requests

\* The relay serves r, which goes on to new.
LEMMA ServeKeeps ==
  ASSUME RelayInv, KeyInv, NEW r \in Runtimes, Serve(r),
         NEW new, Step(r, new), Sound(r, new, io[r]),
         UNCHANGED <<store, io, suffered>>, faults' \in 0 .. MaxFaults
  PROVE  RelayInv'
<1>1. Running(r) /\ io[r].at = "idle"
  BY DEF Serve, At
<1>2. CASE rt[r].pc = "publish" /\ PublishHandshakes(Deliveries(r))
  BY <1>1, <1>2, BatchKeeps
<1>3. CASE ~(rt[r].pc = "publish" /\ PublishHandshakes(Deliveries(r)))
  <2>1. inbox' = inbox /\ \/ keyPackages' = keyPackages
                          \/ keyPackages' = [keyPackages EXCEPT ![Home(r)] = r]
    BY <1>3 DEF Serve, At, PublishKeyPackage, PublishCiphertext, relay
  <2>2. keyPackages' \in [Installations -> Runtimes \cup {None}]
    BY <2>1 DEF RelayInv, Stores
  <2>3. QED
    BY <1>1, <2>1, <2>2, GoKeeps
<1>4. QED
  BY <1>2, <1>3

LEMMA ServedAt ==
  ASSUME NEW r \in Runtimes, Serve(r)
  PROVE  /\ Running(r) /\ io[r].at = "idle"
         /\ rt[r].pc \in {"announce", "publish", "post", "fetch", "pull"}
BY DEF Serve, At

\* A sync goes on to take what it has not been past.
LEMMA PullSound ==
  ASSUME RelayInv, NEW r \in Runtimes, Running(r), io[r].at = "idle", rt[r].pc = "pull",
         suffered' = suffered,
         NEW batch, batch = HandshakesAfter(Home(r), rt[r].cursor), batch # {},
         NEW new, new = [rt[r] EXCEPT !.pc = "take", !.batch = batch, !.next = Max(batch)]
  PROVE  Sound(r, new, io[r])
<1>1. PICK n \in Installations, log \in Seq(Handshakes), m \in States :
        n = Home(r) /\ log = inbox[n] /\ m = rt[r].mem
  BY AtWorkKnows DEF RelayInv, Stores, MailOK
<1>2. /\ rt[r] \in RuntimeStates /\ rt[r].home = n /\ OnCourse(rt[r], io[r])
      /\ StateOK(n, m, log) /\ rt[r].cursor <= m.cursor
      /\ rt[r].cursor \in Nat /\ m.cursor \in Nat /\ Len(log) \in Nat
      /\ io[r].key \in Runtimes \cup {None}
  BY <1>1, AtWorkKnows DEF RuntimeStates, States
<1>3. batch = {s \in 1 .. Len(log) : s > rt[r].cursor}
  BY <1>1 DEF HandshakesAfter
<1>4. PICK next \in batch : next = Max(batch) /\ \A s \in batch : s <= next
  BY <1>2, <1>3, MaxOfBatch
<1>5. next \in Nat /\ next <= Len(log) /\ rt[r].cursor <= next /\ batch \subseteq Nat
  BY <1>2, <1>3
<1> DEFINE at1 == [rt[r] EXCEPT !.pc = "take"]
           at2 == [at1 EXCEPT !.batch = batch]
<1>6. /\ at1 \in RuntimeStates /\ at1.home = n /\ at1.page = rt[r].page /\ at1.mem = m
      /\ at1.cursor = rt[r].cursor /\ at1.op = rt[r].op /\ at1.pc = "take"
  BY <1>1, <1>2 DEF RuntimeStates
<1> HIDE DEF at1
<1>7. /\ at2 \in RuntimeStates /\ at2.home = n /\ at2.page = rt[r].page /\ at2.mem = m
      /\ at2.cursor = rt[r].cursor /\ at2.op = rt[r].op /\ at2.pc = "take"
      /\ at2.batch = batch
  BY <1>5, <1>6 DEF RuntimeStates
<1>8. new = [at2 EXCEPT !.next = next]
  BY <1>4 DEF at1
<1> HIDE DEF at2
<1>9. /\ new \in RuntimeStates /\ new.home = n /\ new.page = rt[r].page /\ new.mem = m
      /\ new.cursor = rt[r].cursor /\ new.op = rt[r].op /\ new.pc = "take"
      /\ new.batch = batch /\ new.next = next
  BY <1>5, <1>7, <1>8 DEF RuntimeStates
<1>10. \A k \in 1 .. new.next : k \in new.batch \/ Reflects(new.mem, log[k])
  <2>1. \A k \in 1 .. next : k \in 1 .. Len(log) /\ (k \in batch \/ k <= m.cursor)
    BY <1>2, <1>3, <1>5
  <2>2. QED
    BY <1>2, <1>9, <2>1 DEF StateOK, Covers
<1>11. PICK i : i = io[r]
  OBVIOUS
<1>12. OnCourse(new, i)
  BY <1>2, <1>9, <1>11 DEF OnCourse
<1>13. suffered'[Home(r)] = {} => new.mem = Saved(Home(r))
  BY <1>1, <1>9, IdleInSync
<1>14. new.batch \subseteq 1 .. Len(log) /\ new.cursor <= new.next /\ new.next <= Len(log)
  BY <1>3, <1>5, <1>9
<1>15. Sound(r, new, i)
  BY <1>1, <1>2, <1>9, <1>10, <1>11, <1>12, <1>13, <1>14, WorkSound, ZenonT(60)
<1>16. QED
  BY <1>11, <1>15

LEMMA AnswerKeeps ==
  ASSUME RelayInv, KeyInv, NEW r \in Runtimes, Answer(r)
  PROVE  RelayInv'
<1>1. /\ Serve(r) /\ Proceed(r) /\ UNCHANGED <<store, io, faults, suffered>>
      /\ Running(r) /\ io[r].at = "idle"
      /\ rt[r].pc \in {"announce", "publish", "post", "fetch", "pull"}
  BY ServedAt DEF Answer
<1>2. /\ rt[r] \in RuntimeStates /\ rt[r].home = Home(r) /\ OnCourse(rt[r], io[r])
      /\ rt[r].cursor \in Nat /\ rt[r].cursor <= rt[r].mem.cursor
      /\ faults' \in 0 .. MaxFaults
  BY <1>1, AtWorkKnows, CursorsInOrder DEF RelayInv, Stores
<1>3. ASSUME Step(r, Rest(r, rt[r].cursor)) PROVE RelayInv'
  <2>1. PICK new : new = Rest(r, rt[r].cursor)
    OBVIOUS
  <2>2. suffered'[Home(r)] = {} => rt[r].mem = Saved(Home(r))
    BY <1>1, IdleInSync
  <2>3. Sound(r, new, io[r])
    BY <1>1, <1>2, <2>1, <2>2, EndSound, CursorsInOrder
  <2>4. QED
    BY <1>1, <1>2, <1>3, <2>1, <2>3, ServeKeeps
<1>4. CASE rt[r].pc = "announce"
  <2>1. Step(r, Rest(r, rt[r].cursor))
    BY <1>1, <1>4 DEF Proceed
  <2>2. QED
    BY <1>3, <2>1
<1>5. CASE rt[r].pc \in {"publish", "post"}
  <2> DEFINE pc == IF rt[r].pc = "publish" THEN "merge" ELSE "mark"
             new == [rt[r] EXCEPT !.pc = pc]
  <2>1. Step(r, new)
    BY <1>1, <1>5 DEF Proceed, Go
  <2>2. /\ new \in RuntimeStates /\ new.home = Home(r) /\ new.page = rt[r].page
        /\ new.mem = rt[r].mem /\ new.cursor = rt[r].cursor /\ new.batch = rt[r].batch
        /\ new.pc = pc /\ new.op = rt[r].op /\ new.conv = rt[r].conv
        /\ new.peer = rt[r].peer /\ new.target = rt[r].target /\ new.own = rt[r].own
    BY <1>2 DEF RuntimeStates
  <2> HIDE DEF new
  <2>3. OnCourse(new, io[r])
    BY <1>1, <1>2, <1>5, <2>2 DEF OnCourse
  <2>4. Sound(r, new, io[r])
    BY <1>1, <2>2, <2>3, GoSound
  <2>5. QED
    BY <1>1, <1>2, <2>1, <2>4, ServeKeeps
<1>6. CASE rt[r].pc = "fetch"
  <2>1. PICK package \in Runtimes \cup {None} : package = keyPackages[rt[r].peer]
    BY <1>2, <1>6 DEF OnCourse, RelayInv, Stores
  <2> DEFINE at == [rt[r] EXCEPT !.pc = "prepare"]
             new == [at EXCEPT !.package = package]
  <2>2. Step(r, new)
    BY <1>1, <1>6, <2>1 DEF Proceed
  <2>3. /\ new \in RuntimeStates /\ new.home = Home(r) /\ new.page = rt[r].page
        /\ new.mem = rt[r].mem /\ new.cursor = rt[r].cursor /\ new.batch = rt[r].batch
        /\ new.pc = "prepare" /\ new.op = rt[r].op /\ new.conv = rt[r].conv
        /\ new.peer = rt[r].peer
    <3>1. /\ at \in RuntimeStates /\ at.home = Home(r) /\ at.page = rt[r].page
          /\ at.mem = rt[r].mem /\ at.cursor = rt[r].cursor /\ at.batch = rt[r].batch
          /\ at.pc = "prepare" /\ at.op = rt[r].op /\ at.conv = rt[r].conv
          /\ at.peer = rt[r].peer
      BY <1>2 DEF RuntimeStates
    <3> HIDE DEF at
    <3>2. QED
      BY <2>1, <3>1 DEF RuntimeStates
  <2> HIDE DEF new
  <2>4. OnCourse(new, io[r])
    BY <1>1, <1>2, <1>6, <2>3 DEF OnCourse
  <2>5. Sound(r, new, io[r])
    BY <1>1, <2>3, <2>4, GoSound
  <2>6. QED
    BY <1>1, <1>2, <2>2, <2>5, ServeKeeps
<1>7. CASE rt[r].pc = "pull"
  <2>1. PICK batch : batch = HandshakesAfter(Home(r), rt[r].cursor)
    OBVIOUS
  <2>2. CASE batch = {}
    <3>1. Step(r, Rest(r, rt[r].cursor))
      BY <1>1, <1>7, <2>1, <2>2 DEF Proceed
    <3>2. QED
      BY <1>3, <3>1
  <2>3. CASE batch # {}
    <3>1. PICK new : new = [rt[r] EXCEPT !.pc = "take", !.batch = batch, !.next = Max(batch)]
      OBVIOUS
    <3>2. Step(r, new)
      BY <1>1, <1>7, <2>1, <2>3, <3>1 DEF Proceed
    <3>3. Sound(r, new, io[r])
      BY <1>1, <1>7, <2>1, <2>3, <3>1, PullSound
    <3>4. QED
      BY <1>1, <1>2, <3>2, <3>3, ServeKeeps
  <2>4. QED
    BY <2>2, <2>3
<1>8. QED
  BY <1>1, <1>4, <1>5, <1>6, <1>7

\* One more fault.
LEMMA FaultCounted ==
  ASSUME RelayInv, faults < MaxFaults, faults' = faults + 1
  PROVE  faults' \in 0 .. MaxFaults
BY BoundsAssumption DEF RelayInv, Stores

LEMMA UnansweredKeeps ==
  ASSUME RelayInv, KeyInv, NEW r \in Runtimes, Unanswered(r)
  PROVE  RelayInv'
<1>1. /\ Abort(r) /\ UNCHANGED <<store, io, suffered>>
      /\ faults < MaxFaults /\ faults' = faults + 1
      /\ Serve(r) \/ ((\E pc \in {"announce", "publish", "post"} : At(r, pc)) /\ UNCHANGED relay)
  BY DEF Unanswered
<1>2. faults' \in 0 .. MaxFaults
  BY <1>1, FaultCounted
<1>3. Running(r) /\ io[r].at = "idle"
  BY <1>1, ServedAt DEF At
<1>4. CASE Serve(r)
  <2>1. PICK new : new = IF rt[r].op = "init" THEN Gone(r) ELSE Rest(r, rt[r].cursor)
    OBVIOUS
  <2>2. Step(r, new) /\ new \in {Gone(r), Rest(r, rt[r].cursor)}
    BY <1>1, <2>1 DEF Abort
  <2>3. suffered'[Home(r)] = {} => rt[r].mem = Saved(Home(r))
    BY <1>1, <1>3, IdleInSync
  <2>4. Sound(r, new, io[r])
    BY <1>3, <2>2, <2>3, EndSound, CursorsInOrder
  <2>5. QED
    BY <1>1, <1>2, <1>4, <2>2, <2>4, ServeKeeps
<1>5. CASE UNCHANGED relay
  <2>1. inbox' = inbox /\ keyPackages' \in [Installations -> Runtimes \cup {None}]
    BY <1>5 DEF relay, RelayInv, Stores
  <2>2. QED
    BY <1>1, <1>2, <1>3, <2>1, AbortKeeps
<1>6. QED
  BY <1>1, <1>4, <1>5

\* A save that fails takes the operation with it, and the agreement of memory and
\* store, which the installation is then known to have lost.
LEMMA SaveFailsKeeps ==
  ASSUME RelayInv, KeyInv, NEW r \in Runtimes, SaveFails(r)
  PROVE  RelayInv'
<1>1. /\ io[r].at \in {"key", "generate", "put"} /\ Abort(r)
      /\ io' = [io EXCEPT ![r] = NoIO]
      /\ suffered' = [suffered EXCEPT ![Home(r)] = @ \cup {"save"}]
      /\ faults < MaxFaults /\ faults' = faults + 1
      /\ UNCHANGED <<store, inbox, keyPackages>>
  BY DEF SaveFails, relay
<1>2. Running(r) /\ Home(r) \in Installations
  <2>1. Running(r)
    BY <1>1 DEF KeyInv, Settled
  <2>2. QED
    BY <2>1, RunsAtHome
<1>3. \A n \in Installations : suffered[n] \subseteq suffered'[n]
  BY <1>1 DEF KeyInv, Shape
<1>4. suffered'[Home(r)] # {}
  BY <1>1, <1>2 DEF KeyInv, Shape
<1>5. faults' \in 0 .. MaxFaults
  BY <1>1, FaultCounted
<1>6. keyPackages' \in [Installations -> Runtimes \cup {None}]
  BY <1>1 DEF RelayInv, Stores
<1>7. QED
  BY <1>1, <1>2, <1>3, <1>4, <1>5, <1>6, AbortKeeps

-----------------------------------------------------------------------------
\* The transactions of the store

\* A transaction that is not the last one of its load or save.
LEMMA TransactionKeeps ==
  ASSUME RelayInv, KeyInv, NEW r \in Runtimes, Running(r), rt' = rt,
         NEW i, io' = [io EXCEPT ![r] = i], Sound(r, rt[r], i),
         UNCHANGED <<checkpoints, relay, faults, suffered>>
  PROVE  RelayInv'
<1>1. DOMAIN io = Runtimes
  BY DEF KeyInv, Shape
<1>2. io'[r] = i /\ \A t \in Runtimes \ {r} : io'[t] = io[t]
  BY <1>1
<1>3. /\ inbox' = inbox /\ faults' \in 0 .. MaxFaults
      /\ keyPackages' \in [Installations -> Runtimes \cup {None}]
  BY DEF relay, RelayInv, Stores
<1>4. PICK new : new = rt[r]
  OBVIOUS
<1>5. QED
  BY <1>2, <1>3, <1>4, TurnKeeps

LEMMA ReadKeeps ==
  ASSUME RelayInv, KeyInv, NEW r \in Runtimes, Running(r), ReadCheckpoint(r, Home(r)),
         UNCHANGED <<rt, relay, faults, suffered>>
  PROVE  RelayInv'
<1>1. PICK n \in Installations : n = Home(r)
  BY RunsAtHome
<1> DEFINE found == checkpoints[n]
<1>2. PICK i : i = [at |-> "open", key |-> None, data |-> found]
  OBVIOUS
<1>3. /\ io[r].at = "load" /\ io' = [io EXCEPT ![r] = i]
      /\ UNCHANGED <<checkpoints, relay, faults, suffered>>
  BY <1>1, <1>2 DEF ReadCheckpoint, SetIO, store
<1>4. i.at = "open" /\ i.key = None /\ i.data = found
  BY <1>2
<1>5. RuntimeOK(rt[r], io[r]) /\ WorkOK(rt[r], io[r], inbox[n]) /\ rt[r].home = n
  BY <1>1, AtWorkKnows DEF RelayInv, InOrder
<1>6. Saved(n) = Contents(found)
  BY <1>1 DEF Saved, Contents
<1>7. /\ found \in Ciphers(States) \cup {None}
      /\ StateOK(n, Saved(n), inbox[n])
  BY <1>1 DEF RelayInv, Stores
<1>8. RuntimeOK(rt[r], i)
  BY <1>3, <1>4, <1>5 DEF RuntimeOK, OnCourse
<1>9. WorkOK(rt[r], i, inbox[n])
  BY <1>3, <1>4, <1>5, <1>6, <1>7 DEF WorkOK, Saves, Contents
<1>10. InSync(rt[r], i, Saved(n), inbox)
  BY <1>4, <1>6 DEF InSync, Saves
<1>11. Sound(r, rt[r], i)
  BY <1>1, <1>5, <1>8, <1>9, <1>10 DEF Sound
<1>12. QED
  BY <1>3, <1>11, TransactionKeeps

\* The key is read, or generated; what is to be stored stays the same.
LEMMA KeyStepKeeps ==
  ASSUME RelayInv, KeyInv, NEW r \in Runtimes, Running(r),
         GetKey(r, Home(r)) \/ CreateKey(r, Home(r)),
         UNCHANGED <<rt, relay, faults, suffered>>
  PROVE  RelayInv'
<1>1. PICK n \in Installations : n = Home(r)
  BY RunsAtHome
<1>2. PICK at \in {"generate", "put"}, key \in Runtimes \cup {None} :
        /\ io' = [io EXCEPT ![r] = [at |-> at, key |-> key, data |-> io[r].data]]
        /\ at = "put" => key # None
  <2>1. keys[n] \in Runtimes \cup {None}
    BY DEF KeyInv, Shape
  <2>2. CASE GetKey(r, n)
    <3>1. io' = [io EXCEPT ![r] = [at |-> IF keys[n] = None THEN "generate" ELSE "put",
                                   key |-> keys[n], data |-> io[r].data]]
      BY <2>2 DEF GetKey, SetIO
    <3>2. QED
      BY <2>1, <3>1
  <2>3. CASE CreateKey(r, n)
    <3>1. io' = [io EXCEPT ![r] = [at |-> "put", key |-> r, data |-> io[r].data]]
      BY <2>3 DEF CreateKey, SetIO
    <3>2. r # None
      BY RuntimesAssumption
    <3>3. QED
      BY <3>1, <3>2
  <2>4. QED
    BY <1>1, <2>2, <2>3
<1>3. PICK i : i = [at |-> at, key |-> key, data |-> io[r].data]
  OBVIOUS
<1>4. i.at = at /\ i.key = key /\ i.data = io[r].data
  BY <1>3
<1>5. Saves(io[r]) /\ Saves(i) /\ checkpoints' = checkpoints
  BY <1>4 DEF Saves, GetKey, CreateKey, store
<1>6. /\ RuntimeOK(rt[r], io[r]) /\ WorkOK(rt[r], io[r], inbox[n]) /\ rt[r].home = n
      /\ suffered[n] = {} => InSync(rt[r], io[r], Saved(n), inbox)
  BY <1>1, AtWorkKnows DEF RelayInv, InOrder
<1>7. RuntimeOK(rt[r], i)
  BY <1>2, <1>4, <1>5, <1>6 DEF RuntimeOK, OnCourse, Saves
<1>8. WorkOK(rt[r], i, inbox[n])
  BY <1>4, <1>5, <1>6 DEF WorkOK, Saves
<1>9. suffered'[n] = {} => InSync(rt[r], i, Saved(n), inbox)
  BY <1>4, <1>5, <1>6 DEF InSync, Saves
<1>10. Sound(r, rt[r], i)
  BY <1>1, <1>6, <1>7, <1>8, <1>9 DEF Sound
<1>11. QED
  BY <1>2, <1>3, <1>5, <1>10, TransactionKeeps

\* The checkpoint becomes what the memory is, which is to be no less.
LEMMA PutKeeps ==
  ASSUME RelayInv, KeyInv, NEW r \in Runtimes, Running(r), PutCheckpoint(r, Home(r)),
         AfterSave(r), UNCHANGED <<relay, faults, suffered>>
  PROVE  RelayInv'
<1>1. PICK n \in Installations : n = Home(r)
  BY RunsAtHome
<1> DEFINE data == io[r].data
           key == io[r].key
<1>2. PICK cipher : cipher = [key |-> key, data |-> data]
  OBVIOUS
<1>3. /\ io[r].at = "put" /\ io' = [io EXCEPT ![r] = NoIO]
      /\ checkpoints' = [checkpoints EXCEPT ![n] = cipher]
      /\ inbox' = inbox /\ UNCHANGED <<keyPackages, faults, suffered>>
  BY <1>1, <1>2 DEF PutCheckpoint, relay
<1>4. /\ RuntimeOK(rt[r], io[r]) /\ WorkOK(rt[r], io[r], inbox[n]) /\ rt[r].home = n
      /\ suffered[n] = {} => InSync(rt[r], io[r], Saved(n), inbox)
      /\ rt[r].pc = "synced" => rt[r].mem.cursor = rt[r].next
  BY <1>1, AtWorkKnows DEF RelayInv, InOrder
<1>5. /\ StateOK(n, data, inbox[n])
      /\ suffered[n] = {} => data = rt[r].mem /\ HasAll(n, data, inbox)
  BY <1>1, <1>3, <1>4 DEF WorkOK, InSync, Saves
<1>6. /\ DOMAIN rt = Runtimes /\ DOMAIN io = Runtimes /\ DOMAIN checkpoints = Installations
  BY DEF KeyInv, Shape
<1>7. cipher \in Ciphers(States) /\ cipher # None /\ cipher.data = data
  <2>1. key \in Runtimes /\ data \in States
    BY <1>1, <1>3, <1>4, <1>5 DEF RuntimeOK, StateOK
  <2>2. cipher \in Ciphers(States) /\ cipher.data = data
    BY <1>2, <2>1 DEF Ciphers
  <2>3. QED
    BY <2>2, NoneAssumption
<1>8. /\ Saved(n)' = data
      /\ \A k \in Installations \ {n} : checkpoints'[k] = checkpoints[k] /\ Saved(k)' = Saved(k)
  BY <1>3, <1>6, <1>7 DEF Saved
<1>9. Stores'
  <2>1. checkpoints' \in [Installations -> Ciphers(States) \cup {None}]
    BY <1>3, <1>7 DEF RelayInv, Stores
  <2>2. \A k \in Installations : /\ StateOK(k, Saved(k)', inbox'[k])
                                 /\ suffered'[k] = {} => HasAll(k, Saved(k)', inbox')
    BY <1>3, <1>5, <1>8 DEF RelayInv, Stores
  <2>3. QED
    BY <1>3, <2>1, <2>2 DEF RelayInv, Stores
<1>10. PICK new : /\ rt'[r] = new /\ \A t \in Runtimes \ {r} : rt'[t] = rt[t]
                  /\ \/ new = rt[r] /\ rt[r].pc \notin {"done", "synced"}
                     \/ new = Rest(r, rt[r].cursor)
                     \/ new = Rest(r, rt[r].next) /\ rt[r].pc = "synced"
  BY <1>6 DEF AfterSave, Step
<1>11. NoIO.at = "idle" /\ NoIO.key \in Runtimes \cup {None}
  BY DEF NoIO
<1>12. /\ new.home = n /\ RuntimeOK(new, NoIO)
       /\ Runs(new) => WorkOK(new, NoIO, inbox[n]) /\ new.mem = rt[r].mem
  <2>1. CASE new = rt[r]
    <3>1. rt[r].pc # "initialize"
      BY <1>3, <1>4 DEF RuntimeOK, OnCourse
    <3>2. RuntimeOK(rt[r], NoIO)
      BY <1>4, <1>11, <3>1 DEF RuntimeOK, OnCourse
    <3>3. WorkOK(rt[r], NoIO, inbox[n])
      BY <1>4, <1>11 DEF WorkOK, Saves
    <3>4. QED
      BY <1>4, <2>1, <3>2, <3>3
  <2>2. ASSUME NEW cursor \in Nat, cursor <= rt[r].mem.cursor, new = Rest(r, cursor)
        PROVE  /\ new.home = n /\ RuntimeOK(new, NoIO)
               /\ Runs(new) => WorkOK(new, NoIO, inbox[n]) /\ new.mem = rt[r].mem
    <3>1. /\ new \in RuntimeStates /\ new.home = n
          /\ new.op = "none" /\ new.pc = "none" /\ new.batch = {}
          /\ \/ ~Runs(new) /\ new.mem = Fresh
             \/ Runs(new) /\ new.mem = rt[r].mem /\ new.cursor = cursor
      BY <1>1, <2>2, RestTyped
    <3>2. RuntimeOK(new, NoIO)
      BY <1>11, <3>1 DEF RuntimeOK, OnCourse
    <3>3. Runs(new) => WorkOK(new, NoIO, inbox[n])
      BY <1>4, <1>11, <2>2, <3>1 DEF WorkOK, Saves
    <3>4. QED
      BY <3>1, <3>2, <3>3
  <2>3. CASE new = Rest(r, rt[r].cursor)
    BY <2>2, <2>3, CursorsInOrder
  <2>4. CASE new = Rest(r, rt[r].next) /\ rt[r].pc = "synced"
    BY <1>4, <2>2, <2>4, CursorsInOrder
  <2>5. QED
    BY <1>10, <2>1, <2>3, <2>4
<1>13. InOrder(r)'
  <2>1. Home(r)' = n /\ (Running(r)' <=> Runs(new)) /\ io'[r] = NoIO
    BY <1>3, <1>6, <1>10, <1>12 DEF Home, Running, Runs
  <2>2. Runs(new) /\ suffered'[n] = {} => InSync(new, NoIO, data, inbox)
    BY <1>3, <1>5, <1>11, <1>12 DEF InSync, Saves
  <2>3. QED
    BY <1>3, <1>8, <1>10, <1>12, <2>1, <2>2 DEF InOrder
<1>14. ASSUME NEW t \in Runtimes \ {r} PROVE InOrder(t)'
  <2>1. rt'[t] = rt[t] /\ io'[t] = io[t] /\ Home(t)' = Home(t) /\ (Running(t)' <=> Running(t))
    BY <1>3, <1>6, <1>10 DEF Home, Running
  <2>2. CASE Running(t) /\ Home(t) = n
    <3>1. suffered'[n] # {}
      BY <1>1, <1>3, <2>2 DEF RelayInv, OneRuns
    <3>2. RuntimeOK(rt[t], io[t]) /\ WorkOK(rt[t], io[t], inbox[n])
      BY <2>2 DEF RelayInv, InOrder
    <3>3. QED
      BY <1>3, <2>1, <2>2, <3>1, <3>2 DEF InOrder
  <2>3. CASE ~(Running(t) /\ Home(t) = n)
    BY <1>3, <1>8, <2>1, <2>3, OrderStays
  <2>4. QED
    BY <2>2, <2>3
<1>15. OneRuns'
  <2>1. \A t \in Runtimes : Running(t)' => Running(t) /\ Home(t)' = Home(t)
    <3>1. Home(r)' = Home(r)
      BY <1>1, <1>10, <1>12 DEF Home
    <3>2. \A t \in Runtimes \ {r} : Home(t)' = Home(t) /\ (Running(t)' <=> Running(t))
      BY <1>10 DEF Home, Running
    <3>3. QED
      BY <3>1, <3>2
  <2>2. QED
    BY <1>3, <2>1, OneStays
<1>16. QED
  BY <1>9, <1>13, <1>14, <1>15 DEF RelayInv

-----------------------------------------------------------------------------
\* Pages that open, and tabs that go away

LEMMA OpenKeeps ==
  ASSUME RelayInv, KeyInv, NEW r \in Runtimes, NEW n \in Installations, Open(r, n)
  PROVE  RelayInv'
<1> DEFINE fresh == Runtime(n, "open")
           at == [fresh EXCEPT !.op = "init"]
<1>1. PICK new : new = [at EXCEPT !.pc = "initialize"]
  OBVIOUS
<1>2. /\ DOMAIN rt = Runtimes /\ DOMAIN io = Runtimes /\ DOMAIN suffered = Installations
      /\ ~Running(r)
  BY DEF Open, Running, KeyInv, Shape
<1>3. /\ rt' = [rt EXCEPT ![r] = new]
      /\ UNCHANGED <<checkpoints, inbox, keyPackages>>
      /\ io' = [io EXCEPT ![r] = [at |-> "load", key |-> None, data |-> None]]
  BY <1>1 DEF Open, Step, BeginLoad, SetIO, store, relay
<1>4. /\ new \in RuntimeStates /\ new.home = n /\ new.page = "open" /\ new.mem = Fresh
      /\ new.cursor = 0 /\ new.op = "init" /\ new.pc = "initialize" /\ new.batch = {}
  <2>1. /\ fresh \in RuntimeStates /\ fresh.home = n /\ fresh.page = "open"
        /\ fresh.mem = Fresh /\ fresh.cursor = 0 /\ fresh.batch = {}
    BY RuntimeTyped
  <2> HIDE DEF fresh
  <2>2. /\ at \in RuntimeStates /\ at.home = n /\ at.page = "open" /\ at.op = "init"
        /\ at.mem = Fresh /\ at.cursor = 0 /\ at.batch = {}
    BY <2>1 DEF RuntimeStates
  <2> HIDE DEF at
  <2>3. QED
    BY <1>1, <2>2 DEF RuntimeStates
<1>5. PICK i : i = [at |-> "load", key |-> None, data |-> None]
  OBVIOUS
<1>6. i.at = "load" /\ i.key = None
  BY <1>5
<1>7. /\ rt'[r] = new /\ io'[r] = i
      /\ \A t \in Runtimes \ {r} : rt'[t] = rt[t] /\ io'[t] = io[t]
  BY <1>2, <1>3, <1>5
<1>8. /\ \A k \in Installations : suffered[k] \subseteq suffered'[k]
      /\ \A k \in Installations \ {n} : suffered'[k] = suffered[k]
      /\ Others(r, n) # {} => "overlap" \in suffered'[n]
  BY <1>2 DEF Open
<1>9. faults' \in 0 .. MaxFaults
  BY BoundsAssumption DEF Open, RelayInv, Stores
<1>10. Stores'
  BY <1>3, <1>8, <1>9, StoresStay DEF RelayInv, Stores
<1>11. InOrder(r)'
  <2>1. Home(r)' = n
    BY <1>4, <1>7 DEF Home
  <2>2. RuntimeOK(new, i)
    BY <1>4, <1>6 DEF RuntimeOK, OnCourse, Runs
  <2>3. StateOK(n, Fresh, inbox[n]) /\ Fresh.cursor = 0
    BY FreshState DEF RelayInv, Stores, MailOK
  <2>4. WorkOK(new, i, inbox[n])
    BY <1>4, <1>6, <2>3 DEF WorkOK, Saves
  <2>5. InSync(new, i, Saved(n)', inbox')
    BY <1>6 DEF InSync, Saves
  <2>6. QED
    BY <1>3, <1>7, <2>1, <2>2, <2>4, <2>5 DEF InOrder
<1>12. ASSUME NEW t \in Runtimes \ {r} PROVE InOrder(t)'
  BY <1>3, <1>7, <1>8, OrderStays
<1>13. OneRuns'
  <2> SUFFICES ASSUME NEW s \in Runtimes, NEW t \in Runtimes, Running(s)', Running(t)',
                      Home(s)' = Home(t)', "overlap" \notin suffered'[Home(s)']
               PROVE  s = t
    BY DEF OneRuns, Running, Home
  <2>1. \A u \in Runtimes \ {r} : Running(u)' => Running(u) /\ Home(u)' = Home(u)
    BY <1>7 DEF Running, Home
  <2>2. CASE s # r /\ t # r
    <3>1. Running(s) /\ Running(t) /\ Home(s) = Home(t) /\ Home(s) \in Installations
      BY <2>1, <2>2, RunsAtHome
    <3>2. "overlap" \notin suffered[Home(s)]
      BY <1>8, <2>1, <2>2, <3>1
    <3>3. QED
      BY <3>1, <3>2 DEF RelayInv, OneRuns
  <2>3. CASE s = r \/ t = r
    <3>1. Home(r)' = n /\ Home(s)' = n /\ Home(t)' = n
      BY <1>4, <1>7, <2>3 DEF Home
    <3>2. Others(r, n) = {}
      BY <1>8, <3>1
    <3>3. \A u \in Runtimes \ {r} : ~(Running(u)' /\ Home(u)' = n)
      BY <2>1, <3>2 DEF Others
    <3>4. QED
      BY <2>3, <3>1, <3>3
  <2>4. QED
    BY <2>2, <2>3
<1>14. QED
  BY <1>10, <1>11, <1>12, <1>13 DEF RelayInv

LEMMA ReloadKeeps ==
  ASSUME RelayInv, KeyInv, NEW n \in Installations, Reload(n)
  PROVE  RelayInv'
<1> DEFINE tab == {r \in Runtimes : Home(r) = n /\ Running(r)}
<1>1. /\ \A r \in Runtimes : IF r \in tab THEN rt'[r] = Gone(r) /\ io'[r] = NoIO
                                          ELSE rt'[r] = rt[r] /\ io'[r] = io[r]
      /\ faults < MaxFaults /\ faults' = faults + 1
      /\ UNCHANGED <<checkpoints, inbox, keyPackages, suffered>>
  BY DEF Reload, store, relay
<1>2. \A r \in tab : LET new == Gone(r)
                     IN  /\ new \in RuntimeStates /\ new.home = n /\ new.page = "gone"
                         /\ new.mem = Fresh /\ new.op = "none" /\ new.pc = "none"
                         /\ new.batch = {}
  BY RuntimeTyped DEF Gone
<1>3. Stores'
  BY <1>1, FaultCounted, StoresStay DEF RelayInv, Stores
<1>4. \A r \in Runtimes : Running(r)' => Running(r) /\ Home(r)' = Home(r)
  BY <1>1, <1>2 DEF Running, Home
<1>5. OneRuns'
  BY <1>1, <1>4, OneStays
<1>6. ASSUME NEW r \in Runtimes PROVE InOrder(r)'
  <2>1. CASE r \notin tab
    BY <1>1, <2>1, OrderStays
  <2>2. CASE r \in tab
    <3>1. PICK new : new = Gone(r)
      OBVIOUS
    <3>2. /\ new \in RuntimeStates /\ new.home = n /\ new.page = "gone"
          /\ new.mem = Fresh /\ new.op = "none" /\ new.pc = "none"
          /\ new.batch = {}
      BY <1>2, <2>2, <3>1
    <3>3. rt'[r] = new /\ io'[r] = NoIO
      BY <1>1, <2>2, <3>1
    <3>4. NoIO.at = "idle" /\ NoIO.key \in Runtimes \cup {None}
      BY DEF NoIO
    <3>5. RuntimeOK(new, NoIO)
      BY <3>2, <3>4 DEF RuntimeOK, OnCourse
    <3>6. ~Running(r)'
      BY <3>2, <3>3 DEF Running
    <3>7. QED
      BY <3>3, <3>5, <3>6 DEF InOrder
  <2>3. QED
    BY <2>1, <2>2
<1>7. QED
  BY <1>3, <1>5, <1>6 DEF RelayInv

-----------------------------------------------------------------------------
\* The invariant

LEMMA InitRelayInv == Init => RelayInv
<1> SUFFICES ASSUME Init PROVE RelayInv
  OBVIOUS
<1>1. \A r \in Runtimes : rt[r] = Unstarted /\ io[r] = NoIO
  BY DEF Init, StoreInit
<1>2. \A n \in Installations : /\ inbox[n] = <<>> /\ checkpoints[n] = None
                               /\ keyPackages[n] = None
  BY DEF Init, StoreInit, RelayInit
<1>3. PICK s : s = Unstarted
  OBVIOUS
<1>4. /\ s \in RuntimeStates /\ s.page = "none" /\ s.mem = Fresh
      /\ s.op = "none" /\ s.pc = "none" /\ s.batch = {}
  BY <1>3, RuntimeTyped DEF Unstarted
<1>5. NoIO.at = "idle" /\ NoIO.key \in Runtimes \cup {None}
  BY DEF NoIO
<1>6. RuntimeOK(s, NoIO)
  BY <1>4, <1>5 DEF RuntimeOK, OnCourse
<1>7. \A r \in Runtimes : InOrder(r) /\ ~Running(r)
  BY <1>1, <1>3, <1>4, <1>6 DEF InOrder, Running
<1>0. \A n \in Installations : inbox[n] \in Seq(Handshakes) /\ Len(inbox[n]) = 0
  <2>1. <<>> \in Seq(Handshakes)
    OBVIOUS
  <2>2. Len(<<>>) = 0
    OBVIOUS
  <2>3. QED
    BY <1>2, <2>1, <2>2
<1>8. MailOK(inbox)
  <2>1. ASSUME NEW n \in Installations, NEW p \in 1 .. Len(inbox[n]) PROVE FALSE
    <3>1. Len(inbox[n]) = 0
      BY <1>0
    <3>2. p \in 1 .. 0
      BY <3>1
    <3>3. QED
      BY <3>2
  <2>2. QED
    BY <1>0, <2>1 DEF MailOK
<1>9. Stores
  <2>1. checkpoints \in [Installations -> Ciphers(States) \cup {None}]
    BY DEF Init, StoreInit
  <2>2. keyPackages \in [Installations -> Runtimes \cup {None}]
    BY DEF Init, RelayInit
  <2>3. faults \in 0 .. MaxFaults
    BY BoundsAssumption DEF Init
  <2>4. ASSUME NEW n \in Installations
        PROVE  StateOK(n, Saved(n), inbox[n]) /\ HasAll(n, Saved(n), inbox)
    <3>1. Saved(n) = Fresh /\ inbox[n] \in Seq(Handshakes)
      BY <1>0, <1>2 DEF Saved
    <3>2. HasAll(n, Saved(n), inbox)
      BY <1>0 DEF HasAll
    <3>3. QED
      BY <3>1, <3>2, FreshState
  <2>5. QED
    BY <1>8, <2>1, <2>2, <2>3, <2>4 DEF Stores
<1>10. QED
  BY <1>7, <1>9 DEF RelayInv, OneRuns

LEMMA AdvanceKeeps ==
  ASSUME RelayInv, KeyInv, NEW r \in Runtimes, Advance(r)
  PROVE  RelayInv'
<1>1. CASE StoreStep(r)
  BY <1>1, ReadKeeps, KeyStepKeeps, PutKeeps DEF StoreStep
<1>2. CASE Initialize(r)
  BY <1>2, InitializeKeeps
<1>3. CASE CreateKeyPackage(r)
  BY <1>3, CreateKeyPackageKeeps
<1>4. CASE CreateGroup(r)
  BY <1>4, CreateGroupKeeps
<1>5. CASE Prepare(r)
  BY <1>5, PrepareKeeps
<1>6. CASE MergePendingCommit(r)
  BY <1>6, MergeKeeps
<1>7. CASE MarkPublished(r)
  BY <1>7, MarkKeeps
<1>8. CASE TakeHandshake(r)
  BY <1>8, TakeKeeps
<1>9. CASE SaveHandshakeCursor(r)
  BY <1>9, CursorKeeps
<1>10. CASE Answer(r)
  BY <1>10, AnswerKeeps
<1>11. QED
  BY <1>1, <1>2, <1>3, <1>4, <1>5, <1>6, <1>7, <1>8, <1>9, <1>10 DEF Advance

LEMMA RelayStep == RelayInv /\ KeyInv /\ [Next]_vars => RelayInv'
<1> SUFFICES ASSUME RelayInv, KeyInv, [Next]_vars PROVE RelayInv'
  OBVIOUS
<1>1. ASSUME NEW r \in Runtimes, NEW n \in Installations, Open(r, n) PROVE RelayInv'
  BY <1>1, OpenKeeps
<1>2. ASSUME NEW r \in Runtimes, Leave(r) PROVE RelayInv'
  BY <1>2, LeaveKeeps
<1>3. ASSUME NEW n \in Installations, Reload(n) PROVE RelayInv'
  BY <1>3, ReloadKeeps
<1>4. ASSUME NEW r \in Runtimes, AskOf(r) PROVE RelayInv'
  BY <1>4, AskKeeps
<1>5. ASSUME NEW r \in Runtimes, Advance(r) PROVE RelayInv'
  BY <1>5, AdvanceKeeps
<1>6. ASSUME NEW r \in Runtimes, Unanswered(r) PROVE RelayInv'
  BY <1>6, UnansweredKeeps
<1>7. ASSUME NEW r \in Runtimes, SaveFails(r) PROVE RelayInv'
  BY <1>7, SaveFailsKeeps
<1>8. CASE UNCHANGED vars
  <2>1. Stores' /\ OneRuns'
    BY <1>8, StoresStay, OneStays DEF vars, store, relay, RelayInv, Stores, Running, Home
  <2>2. \A r \in Runtimes : InOrder(r)'
    BY <1>8, OrderStays DEF vars, store, relay
  <2>3. QED
    BY <2>1, <2>2 DEF RelayInv
<1>9. QED
  BY <1>1, <1>2, <1>3, <1>4, <1>5, <1>6, <1>7, <1>8 DEF Next

\* The runtimes' states are a function, whatever they are.
RtIsFunction == rt = [r \in Runtimes |-> rt[r]]

LEMMA RtStep == RtIsFunction /\ [Next]_vars => RtIsFunction'
<1> SUFFICES ASSUME RtIsFunction, [Next]_vars PROVE RtIsFunction'
  OBVIOUS
<1>1. CASE rt' = rt
  BY <1>1 DEF RtIsFunction
<1>2. CASE \E r \in Runtimes : \E new : Step(r, new)
  BY <1>2 DEF Step, RtIsFunction
<1>3. CASE \E n \in Installations : Reload(n)
  BY <1>3 DEF Reload, RtIsFunction
<1>4. CASE \E r \in Runtimes, n \in Installations : Open(r, n)
  BY <1>2, <1>4 DEF Open
<1>5. CASE \E r \in Runtimes : Leave(r) \/ AskOf(r) \/ Unanswered(r) \/ SaveFails(r)
  BY <1>2, <1>5, ZenonT(60) DEF Leave, AskOf, Ask, Unanswered, SaveFails, Abort
<1>6. ASSUME NEW r \in Runtimes, Advance(r) PROVE RtIsFunction'
  <2>1. CASE StoreStep(r)
    BY <1>1, <1>2, <2>1 DEF StoreStep, AfterSave
  <2>2. CASE Initialize(r) \/ CreateKeyPackage(r) \/ CreateGroup(r) \/ Prepare(r)
    BY <1>2, <2>2 DEF Initialize, CreateKeyPackage, CreateGroup, Prepare, Save, Abort
  <2>3. CASE MergePendingCommit(r) \/ MarkPublished(r)
    BY <1>2, <2>3 DEF MergePendingCommit, MarkPublished, Save
  <2>4. CASE TakeHandshake(r) \/ SaveHandshakeCursor(r)
    BY <1>2, <2>4 DEF TakeHandshake, SaveHandshakeCursor, Save, Abort
  <2>5. CASE Answer(r)
    <3>1. Proceed(r) /\ rt[r].pc \in {"announce", "publish", "post", "fetch", "pull"}
      BY <2>5, ServedAt DEF Answer
    <3>2. QED
      BY <1>2, <3>1 DEF Proceed, Go
  <2>6. QED
    BY <1>6, <2>1, <2>2, <2>3, <2>4, <2>5 DEF Advance
<1>7. QED
  BY <1>1, <1>3, <1>4, <1>5, <1>6 DEF Next, vars

-----------------------------------------------------------------------------
\* The theorems

LEMMA RelayInvAlways == Spec => [](RelayInv /\ KeyInv /\ RtIsFunction)
<1>1. Init => RelayInv /\ KeyInv /\ RtIsFunction
  BY InitRelayInv, InitKeyInv DEF Init, RtIsFunction
<1>2. (RelayInv /\ KeyInv /\ RtIsFunction) /\ [Next]_vars => (RelayInv /\ KeyInv /\ RtIsFunction)'
  BY RelayStep, KeyStep, RtStep
<1>3. QED
  BY <1>1, <1>2, PTL DEF Spec

\* The store, the relay and the runtimes hold what the types of checkpoint.ts,
\* memory-transport.ts and provider.ts say: every MLS state in memory, in a save
\* in progress or in a checkpoint is one, no more handshakes are remembered than
\* fit, and an inbox has handshakes of others to its own installation only.
THEOREM RelayTypesHold == Spec => []RelayTypeOK
<1>1. RelayInv /\ KeyInv /\ RtIsFunction => RelayTypeOK
  <2> SUFFICES ASSUME RelayInv, KeyInv, RtIsFunction PROVE RelayTypeOK
    OBVIOUS
  <2>1. \A r \in Runtimes : /\ rt[r] \in RuntimeStates
                            /\ Running(r) \/ (io[r].at = "idle" /\ rt[r].batch = {})
                            /\ io[r].at \in {"idle", "load", "open", "key", "generate", "put"}
                            /\ io[r].key \in Runtimes \cup {None}
                            /\ rt[r].page # "none" => Home(r) \in Installations
    BY DEF RelayInv, InOrder, RuntimeOK, KeyInv, Settled, Running, Runs, Home
  <2>2. rt \in [Runtimes -> RuntimeStates]
    BY <2>1 DEF RtIsFunction
  <2>3. StoreTypeOK(States)
    <3>1. ASSUME NEW r \in Runtimes, io[r].at # "idle"
          PROVE  /\ io[r].at = "open" => io[r].data \in Ciphers(States) \cup {None}
                 /\ io[r].at \in {"key", "generate", "put"} => io[r].data \in States
      BY <2>1, <3>1 DEF RelayInv, InOrder, WorkOK, StateOK, Saves
    <3>2. /\ keys \in [Installations -> Runtimes \cup {None}]
          /\ checkpoints \in [Installations -> Ciphers(States) \cup {None}]
      BY DEF KeyInv, Shape, RelayInv, Stores
    <3>3. QED
      BY <2>1, <3>1, <3>2 DEF StoreTypeOK
  <2>4. \A n \in Installations :
          /\ inbox[n] \in Seq(Handshakes)
          /\ \A s \in DOMAIN inbox[n] : inbox[n][s].to = n /\ inbox[n][s].from # n
    <3>1. MailOK(inbox)
      BY DEF RelayInv, Stores
    <3>2. ASSUME NEW n \in Installations, NEW s \in DOMAIN inbox[n]
          PROVE  inbox[n][s].to = n /\ inbox[n][s].from # n
      <4>1. s \in 1 .. Len(inbox[n])
        BY <3>1 DEF MailOK
      <4>2. QED
        BY <3>1, <4>1 DEF MailOK
    <3>3. QED
      BY <3>1, <3>2 DEF MailOK
  <2>5. ASSUME NEW r \in Runtimes
        PROVE  /\ rt[r].batch # {} => rt[r].batch \subseteq DOMAIN inbox[Home(r)]
               /\ Len(rt[r].mem.processed) <= Remembered
    <3>1. CASE Running(r)
      <4>1. /\ Home(r) \in Installations /\ Len(rt[r].mem.processed) <= Remembered
            /\ rt[r].batch \subseteq 1 .. Len(inbox[Home(r)])
        BY <3>1, AtWorkKnows DEF StateOK
      <4>2. QED
        BY <2>4, <4>1
    <3>2. CASE ~Running(r)
      <4>1. rt[r].batch = {} /\ rt[r].mem = Fresh
        BY <3>2 DEF RelayInv, InOrder, RuntimeOK, Running, Runs
      <4>2. Fresh.processed = <<>> /\ Len(<<>>) = 0 /\ Remembered \in Nat
        BY RememberedAssumption DEF Fresh
      <4>3. QED
        BY <4>1, <4>2
    <3>3. QED
      BY <3>1, <3>2
  <2>6. keyPackages \in [Installations -> Runtimes \cup {None}] /\ faults \in 0 .. MaxFaults
    BY DEF RelayInv, Stores
  <2>7. QED
    BY <2>1, <2>2, <2>3, <2>4, <2>5, <2>6 DEF RelayTypeOK
<1>2. QED
  BY <1>1, RelayInvAlways, PTL

\* However runtimes overlap, tabs go away, requests and saves fail: what the
\* handshake cursor of a stored checkpoint is past, and what it takes for processed,
\* was applied to the MLS state it is stored with (sync in handshake-sync.ts saves
\* the cursor after the handshakes, and the bridge all of its state at once).
THEOREM NoHandshakeIsSkipped == Spec => []NothingSkipped
<1>1. RelayInv => NothingSkipped
  <2> SUFFICES ASSUME RelayInv, NEW n \in Installations, NEW s \in DOMAIN inbox[n],
                      s <= Saved(n).cursor \/ s \in Range(Saved(n).processed)
               PROVE  Reflects(Saved(n), inbox[n][s])
    BY DEF NothingSkipped
  <2>1. s \in 1 .. Len(inbox[n]) /\ Covers(inbox[n], Saved(n))
    BY DEF RelayInv, Stores, MailOK, StateOK
  <2>2. QED
    BY <2>1 DEF Covers
<1>2. QED
  BY <1>1, RelayInvAlways, PTL

\* Every commit that the relay has is in the stored checkpoint of its author, made
\* or prepared, as long as the author's installation ran one runtime at a time and
\* no save of it failed: a tab that goes away between any two steps never leaves
\* others with a commit that its author will not finish (provider.ts saves what
\* prepareAddMembers and prepareRemoveMembers made before it publishes it).
THEOREM PublishedCommitsAreSaved == Spec => []CommitsArePersisted
<1>1. RelayInv => CommitsArePersisted
  <2> SUFFICES ASSUME RelayInv, NEW n \in Installations, NEW s \in DOMAIN inbox[n],
                      suffered[inbox[n][s].from] = {}
               PROVE  Has(Saved(inbox[n][s].from), inbox[n][s])
    BY DEF CommitsArePersisted, Has
  <2>1. s \in 1 .. Len(inbox[n]) /\ inbox[n][s] \in Handshakes
    BY DEF RelayInv, Stores, MailOK
  <2>2. PICK k \in Installations : k = inbox[n][s].from
    BY <2>1 DEF Handshakes
  <2>3. HasAll(k, Saved(k), inbox)
    BY <2>2 DEF RelayInv, Stores
  <2>4. QED
    BY <2>2, <2>3 DEF HasAll
<1>2. QED
  BY <1>1, RelayInvAlways, PTL

-----------------------------------------------------------------------------
\* How a sync gets on, in installations that suffered nothing.  The invariant that
\* says so is about values too: n is an installation, m an MLS state of it, log its
\* inbox, boxes all inboxes, and supply says whose private parts of KeyPackages
\* every installation has, or had and joined with.

\* The handshake processed last is the frontier: all up to it were applied, one
\* after the other, and the last of them are remembered.
Frontier(m) == IF m.processed = <<>> THEN 0 ELSE m.processed[Len(m.processed)]

\* The group of c stands where the handshake p, the last one of c, left it.
Follows(m, log, c, p) ==
  /\ log[p].conv = c /\ m.groups[c].line = log[p].line
  /\ \A q \in p + 1 .. Frontier(m) : log[q].conv # c

Applies(n, m, log) ==
  /\ m.cursor <= Frontier(m) /\ Frontier(m) <= Len(log)
  /\ \A k \in DOMAIN m.processed : m.processed[k] = Frontier(m) - Len(m.processed) + k
  /\ Len(m.processed) < Frontier(m) => Len(m.processed) = Remembered
  /\ \A p \in 1 .. Frontier(m) : Reflects(m, log[p])
  /\ \A c \in Conversations :
       CreatorOf[c] # n /\ m.groups[c] # None => \E p \in 1 .. Frontier(m) : Follows(m, log, c, p)

Joined(m, log, x) ==
  \E p \in 1 .. Frontier(m) : log[p].kind = "welcome" /\ Last(log[p].line).package = x

Had(m, log, x) == x \in m.packages \/ Joined(m, log, x)

Supply == [n \in Installations |-> {x \in Runtimes : Had(Saved(n), inbox[n], x)}]

\* The inbox has a handshake of the commits of c up to the end of line.
Told(log, c, line) == \E p \in 1 .. Len(log) : log[p].conv = c /\ log[p].line = line

\* The members of a group that n created were told of its last commit.
MembersTold(n, m, boxes) ==
  \A c \in Conversations :
    CreatorOf[c] = n /\ m.groups[c] # None =>
      \A k \in m.groups[c].members \ {n} : Told(boxes[k], c, m.groups[c].line)

\* An addition in preparation names a KeyPackage of the one it adds.
PendingOK(m, supply) ==
  \A c \in Conversations :
    LET g == m.groups[c]
    IN  g # None /\ g.pending # None /\ g.pending.type = "add" =>
          g.pending.package \in supply[g.pending.member]

Good(n, m, boxes, supply) ==
  Applies(n, m, boxes[n]) /\ MembersTold(n, m, boxes) /\ PendingOK(m, supply)

\* The handshake p of the inbox of n: a welcome with a KeyPackage of n, or a commit
\* behind a handshake of the commits before it.
FollowsUp(n, log, p, supply) ==
  LET e == log[p]
      last == Last(e.line)
  IN  IF e.kind = "welcome"
      THEN last.type = "add" /\ last.member = n /\ last.package \in supply[n]
      ELSE /\ ~ (last.type = "add" /\ last.member = n)
           /\ \E q \in 1 .. p - 1 : log[q].conv = e.conv /\ log[q].line = Front(e.line)

\* An inbox tells of a conversation in order, from a welcome on.
LogOK(n, log, supply) ==
  /\ \A p, q \in 1 .. Len(log) :
       p < q /\ log[p].conv = log[q].conv => IsPrefix(log[p].line, log[q].line)
  /\ \A p \in 1 .. Len(log) : FollowsUp(n, log, p, supply)

\* Whom the commit that g waits for leaves in the group.
MembersAfter(g) ==
  IF g.pending.type = "add" THEN g.members \cup {g.pending.member}
                            ELSE g.members \ {g.pending.member}

\* What is being saved is good, and has all KeyPackages that the saved state has.
GoodSave(n, i, saved, boxes, supply) ==
  Saves(i) =>
    /\ Good(n, i.data, boxes, supply)
    /\ \A x \in Runtimes : Had(saved, boxes[n], x) => Had(i.data, boxes[n], x)

\* The runtime r in the state s has done what its next step builds on.
OnTrack(r, s, boxes, supply) ==
  /\ s.pc = "take" =>
       /\ s.batch \subseteq 1 .. s.next
       /\ \A k \in 1 .. s.next : k <= Frontier(s.mem) \/ k \in s.batch
  /\ s.pc = "merge" =>
       LET g == s.mem.groups[s.target]
       IN  \A k \in MembersAfter(g) \ {s.home} : Told(boxes[k], s.target, NewLine(g))
  /\ s.pc = "announce" => r \in s.mem.packages
  /\ s.op = "none" => s.package = None
  /\ s.op = "add" /\ s.package # None => s.package \in supply[s.peer]

Going(r) ==
  /\ GoodSave(Home(r), io[r], Saved(Home(r)), inbox, Supply)
  /\ OnTrack(r, rt[r], inbox, Supply)

StoredGood ==
  \A n \in Installations :
    /\ Good(n, Saved(n), inbox, Supply)
    /\ LogOK(n, inbox[n], Supply)
    /\ keyPackages[n] # None => keyPackages[n] \in Supply[n]

SyncInv == StoredGood /\ \A r \in Runtimes : Running(r) => Going(r)

Calm == \A n \in Installations : suffered[n] = {}

\* Inboxes go on, and no KeyPackage is lost.
Progress(boxes, new, supply, more) ==
  \A n \in Installations : GoesOnFrom(boxes[n], new[n]) /\ supply[n] \subseteq more[n]

LEMMA FrontierTyped ==
  ASSUME NEW m \in States
  PROVE  Frontier(m) \in Nat
<1>1. m.processed \in Seq(Nat)
  BY DEF States
<1>2. m.processed # <<>> => Len(m.processed) \in 1 .. Len(m.processed)
  BY <1>1
<1>3. QED
  BY <1>1, <1>2 DEF Frontier

LEMMA SameHad ==
  ASSUME NEW m \in States, NEW log, NEW new, GoesOnFrom(log, new), Frontier(m) <= Len(log)
  PROVE  \A x : Had(m, new, x) <=> Had(m, log, x)
<1>1. Frontier(m) \in Nat /\ Len(log) \in Nat
  BY FrontierTyped DEF GoesOnFrom
<1>2. \A p \in 1 .. Frontier(m) : new[p] = log[p]
  BY <1>1 DEF GoesOnFrom
<1>3. QED
  BY <1>2 DEF Had, Joined

LEMMA ToldStays ==
  ASSUME NEW log, NEW new, GoesOnFrom(log, new), NEW c, NEW line, Told(log, c, line)
  PROVE  Told(new, c, line)
<1>1. Len(log) \in Nat /\ Len(new) \in Nat /\ Len(log) <= Len(new)
  BY DEF GoesOnFrom
<1>2. PICK p \in 1 .. Len(log) : log[p].conv = c /\ log[p].line = line
  BY DEF Told
<1>3. p \in 1 .. Len(new) /\ new[p] = log[p]
  BY <1>1, <1>2 DEF GoesOnFrom
<1>4. QED
  BY <1>2, <1>3 DEF Told

LEMMA AppliesStays ==
  ASSUME NEW n, NEW m \in States, NEW log, NEW new, GoesOnFrom(log, new), Applies(n, m, log)
  PROVE  Applies(n, m, new)
<1>1. Frontier(m) \in Nat /\ Len(log) \in Nat /\ Len(new) \in Nat /\ Len(log) <= Len(new)
  BY FrontierTyped DEF GoesOnFrom
<1>2. \A p \in 1 .. Frontier(m) : new[p] = log[p]
  BY <1>1 DEF GoesOnFrom, Applies
<1>3. \A c, p : p \in 1 .. Frontier(m) /\ Follows(m, log, c, p) => Follows(m, new, c, p)
  <2> SUFFICES ASSUME NEW c, NEW p \in 1 .. Frontier(m), Follows(m, log, c, p)
               PROVE  Follows(m, new, c, p)
    OBVIOUS
  <2>1. \A q \in p + 1 .. Frontier(m) : q \in 1 .. Frontier(m)
    BY <1>1
  <2>2. QED
    BY <1>2, <2>1 DEF Follows
<1>4. \A p \in 1 .. Frontier(m) : Reflects(m, new[p])
  BY <1>2 DEF Applies
<1>5. m.cursor <= Frontier(m) /\ Frontier(m) <= Len(new)
  BY <1>1 DEF Applies
<1>6. QED
  BY <1>3, <1>4, <1>5 DEF Applies

\* A group of a state.
LEMMA GroupOf ==
  ASSUME NEW m \in States, NEW c \in Conversations, m.groups[c] # None
  PROVE  /\ m.groups[c] \in Groups /\ m.groups[c].members \subseteq Installations
         /\ m.groups[c].line \in Seq(Commits)
         /\ m.groups[c].pending # None =>
              /\ m.groups[c].pending \in Commits
              /\ m.groups[c].pending.member \in Installations
              /\ MembersAfter(m.groups[c]) \subseteq Installations
<1>1. PICK g \in Groups : g = m.groups[c]
  BY DEF States
<1>2. /\ g.members \subseteq Installations /\ g.line \in Seq(Commits)
      /\ g.pending # None => g.pending \in Commits /\ g.pending.member \in Installations
  BY DEF Groups, Commits
<1>3. QED
  BY <1>1, <1>2 DEF MembersAfter

LEMMA GoodStays ==
  ASSUME NEW n \in Installations, NEW m \in States,
         NEW boxes, NEW new, NEW supply, NEW more, Progress(boxes, new, supply, more),
         Good(n, m, boxes, supply)
  PROVE  Good(n, m, new, more)
<1>1. Applies(n, m, new[n])
  BY AppliesStays DEF Good, Progress
<1>2. MembersTold(n, m, new)
  <2> SUFFICES ASSUME NEW c \in Conversations, CreatorOf[c] = n, m.groups[c] # None,
                      NEW k \in m.groups[c].members \ {n}
               PROVE  Told(new[k], c, m.groups[c].line)
    BY DEF MembersTold
  <2>1. k \in Installations
    BY GroupOf
  <2>2. Told(boxes[k], c, m.groups[c].line) /\ GoesOnFrom(boxes[k], new[k])
    BY <2>1 DEF Good, MembersTold, Progress
  <2>3. QED
    BY <2>2, ToldStays
<1>3. PendingOK(m, more)
  <2> SUFFICES ASSUME NEW c \in Conversations, m.groups[c] # None,
                      m.groups[c].pending # None, m.groups[c].pending.type = "add"
               PROVE  m.groups[c].pending.package \in more[m.groups[c].pending.member]
    BY DEF PendingOK
  <2>1. PICK k \in Installations : k = m.groups[c].pending.member
    BY GroupOf
  <2>2. m.groups[c].pending.package \in supply[k]
    BY <2>1 DEF Good, PendingOK
  <2>3. QED
    BY <2>1, <2>2 DEF Progress
<1>4. QED
  BY <1>1, <1>2, <1>3 DEF Good

\* What r has done stays done.
LEMMA TrackStays ==
  ASSUME NEW r, NEW s \in RuntimeStates, NEW i, OnCourse(s, i),
         NEW boxes, NEW new, NEW supply, NEW more, Progress(boxes, new, supply, more),
         OnTrack(r, s, boxes, supply)
  PROVE  OnTrack(r, s, new, more)
<1>1. s.op = "add" /\ s.package # None => s.package \in more[s.peer]
  BY DEF OnCourse, OnTrack, Progress
<1>2. ASSUME s.pc = "merge"
      PROVE  LET g == s.mem.groups[s.target]
             IN  \A k \in MembersAfter(g) \ {s.home} : Told(new[k], s.target, NewLine(g))
  <2>1. PICK m \in States, c \in Conversations : m = s.mem /\ c = s.target
    BY <1>2 DEF OnCourse, RuntimeStates
  <2>2. m.groups[c] # None /\ m.groups[c].pending # None
    BY <1>2, <2>1 DEF OnCourse
  <2>3. PICK g : g = m.groups[c]
    OBVIOUS
  <2>4. MembersAfter(g) \subseteq Installations
    BY <2>2, <2>3, GroupOf
  <2>5. \A k \in MembersAfter(g) \ {s.home} : Told(boxes[k], c, NewLine(g))
    BY <1>2, <2>1, <2>3 DEF OnTrack
  <2>6. \A k \in MembersAfter(g) \ {s.home} : Told(new[k], c, NewLine(g))
    BY <2>4, <2>5, ToldStays DEF Progress
  <2>7. QED
    BY <2>1, <2>3, <2>6
<1>3. QED
  BY <1>1, <1>2 DEF OnTrack

-----------------------------------------------------------------------------
\* The steps that leave the checkpoints and the inboxes alone

\* What t may become, its load or save being i then.
MayBecome(t, new, i) ==
  /\ GoodSave(new.home, i, Saved(new.home), inbox, Supply)
  /\ OnTrack(t, new, inbox, Supply)

LEMMA TurnGoesOn ==
  ASSUME RelayInv, SyncInv, UNCHANGED <<checkpoints, inbox>>,
         \A n \in Installations : keyPackages'[n] = keyPackages[n] \/ keyPackages'[n] \in Supply[n],
         \A t \in Runtimes : Running(t)' =>
           \/ Running(t) /\ rt'[t] = rt[t] /\ io'[t] = io[t]
           \/ MayBecome(t, rt'[t], io'[t])
  PROVE  SyncInv'
<1>1. \A n : Saved(n)' = Saved(n)
  BY DEF Saved
<1>2. Supply' = Supply
  BY <1>1 DEF Supply
<1>3. StoredGood'
  <2> SUFFICES ASSUME NEW n \in Installations
               PROVE  /\ Good(n, Saved(n)', inbox', Supply')
                      /\ LogOK(n, inbox'[n], Supply')
                      /\ keyPackages'[n] # None => keyPackages'[n] \in Supply'[n]
    BY DEF StoredGood
  <2>1. /\ Good(n, Saved(n), inbox, Supply)
        /\ LogOK(n, inbox[n], Supply)
        /\ keyPackages[n] # None => keyPackages[n] \in Supply[n]
    BY DEF SyncInv, StoredGood
  <2>2. QED
    BY <1>1, <1>2, <2>1
<1>4. ASSUME NEW t \in Runtimes, Running(t)' PROVE Going(t)'
  <2>1. PICK s, i : s = rt'[t] /\ i = io'[t]
    OBVIOUS
  <2>2. Home(t)' = s.home /\ Saved(s.home)' = Saved(s.home)
    BY <1>1, <2>1 DEF Home
  <2>3. MayBecome(t, s, i)
    <3>1. CASE Running(t) /\ rt'[t] = rt[t] /\ io'[t] = io[t]
      BY <2>1, <3>1 DEF SyncInv, Going, MayBecome, Home
    <3>2. CASE MayBecome(t, rt'[t], io'[t])
      BY <2>1, <3>2
    <3>3. QED
      BY <1>4, <3>1, <3>2
  <2>4. GoodSave(s.home, i, Saved(s.home)', inbox', Supply') /\ OnTrack(t, s, inbox', Supply')
    BY <1>2, <2>2, <2>3 DEF MayBecome
  <2>5. Saved(s.home)' = Saved(Home(t))'
    BY <2>1 DEF Saved, Home
  <2>6. QED
    BY <2>1, <2>2, <2>4, <2>5 DEF Going
<1>5. QED
  BY <1>3, <1>4 DEF SyncInv

\* Only r moves.
LEMMA MoveGoesOn ==
  ASSUME RelayInv, KeyInv, SyncInv, NEW r \in Runtimes,
         NEW new, Step(r, new), NEW i,
         \/ io' = io /\ i = io[r]
         \/ io' = [io EXCEPT ![r] = i],
         Runs(new) => MayBecome(r, new, i),
         UNCHANGED <<checkpoints, inbox>>,
         \A n \in Installations : keyPackages'[n] = keyPackages[n] \/ keyPackages'[n] \in Supply[n]
  PROVE  SyncInv'
<1>1. DOMAIN rt = Runtimes /\ DOMAIN io = Runtimes
  BY DEF KeyInv, Shape
<1>2. rt'[r] = new /\ \A t \in Runtimes \ {r} : rt'[t] = rt[t]
  BY <1>1 DEF Step
<1>3. io'[r] = i /\ \A t \in Runtimes \ {r} : io'[t] = io[t]
  BY <1>1
<1>4. ASSUME NEW t \in Runtimes, Running(t)'
      PROVE  \/ Running(t) /\ rt'[t] = rt[t] /\ io'[t] = io[t]
             \/ MayBecome(t, rt'[t], io'[t])
  BY <1>2, <1>3, <1>4 DEF Running, Runs
<1>5. QED
  BY <1>4, TurnGoesOn

\* What an idle runtime has in its memory.
LEMMA MemoryGood ==
  ASSUME RelayInv, SyncInv, Calm, NEW r \in Runtimes, Running(r), io[r].at = "idle"
  PROVE  /\ rt[r].mem = Saved(Home(r)) /\ Home(r) \in Installations
         /\ Good(Home(r), rt[r].mem, inbox, Supply)
         /\ OnTrack(r, rt[r], inbox, Supply)
<1>1. PICK n \in Installations : n = Home(r)
  BY RunsAtHome
<1>2. rt[r].mem = Saved(n)
  BY <1>1, IdleInSync DEF Calm
<1>3. Good(n, Saved(n), inbox, Supply)
  BY DEF SyncInv, StoredGood
<1>4. QED
  BY <1>1, <1>2, <1>3 DEF SyncInv, Going

\* An operation that ends leaves nothing to build on.
LEMMA EndIsBare ==
  ASSUME RelayInv, NEW r \in Runtimes, Running(r), NEW cursor \in Nat,
         NEW new \in {Gone(r), Rest(r, cursor)}
  PROVE  new.op = "none" /\ new.pc = "none" /\ new.package = None
<1>1. new.op = "none" /\ new.pc = "none"
  BY RestTyped
<1>2. \A n, page : Runtime(n, page).package = None /\ DOMAIN Runtime(n, page) = Fields
  BY RuntimeFields DEF Runtime
<1>3. new.package = None
  <2>1. CASE new = Gone(r)
    BY <1>2, <2>1 DEF Gone
  <2>2. CASE new = Rest(r, cursor)
    <3> DEFINE fresh == Runtime(Home(r), "open")
    <3>1. fresh.package = None /\ DOMAIN fresh = Fields
      BY <1>2
    <3> HIDE DEF fresh
    <3>2. [fresh EXCEPT !.mem = rt[r].mem, !.cursor = cursor].package = None
      BY <3>1 DEF Fields
    <3>3. QED
      BY <1>2, <2>2, <3>2 DEF Rest, Gone, fresh
  <2>3. QED
    BY <2>1, <2>2
<1>4. QED
  BY <1>1, <1>3

LEMMA EndOnTrack ==
  ASSUME RelayInv, NEW r \in Runtimes, Running(r), NEW cursor \in Nat,
         NEW new \in {Gone(r), Rest(r, cursor)}, NEW i, ~Saves(i)
  PROVE  MayBecome(r, new, i)
BY EndIsBare DEF MayBecome, GoodSave, OnTrack

LEMMA AbortGoesOn ==
  ASSUME RelayInv, KeyInv, SyncInv, NEW r \in Runtimes, Running(r), Abort(r),
         \/ io' = io /\ io[r].at = "idle"
         \/ io' = [io EXCEPT ![r] = NoIO],
         UNCHANGED <<checkpoints, inbox>>,
         \A n \in Installations : keyPackages'[n] = keyPackages[n] \/ keyPackages'[n] \in Supply[n]
  PROVE  SyncInv'
<1>1. PICK new : new = IF rt[r].op = "init" THEN Gone(r) ELSE Rest(r, rt[r].cursor)
  OBVIOUS
<1>2. Step(r, new) /\ new \in {Gone(r), Rest(r, rt[r].cursor)}
  BY <1>1 DEF Abort
<1>3. PICK i : /\ \/ io' = io /\ i = io[r]
                  \/ io' = [io EXCEPT ![r] = i]
               /\ ~Saves(i)
  <2>1. ~Saves(NoIO)
    BY DEF NoIO, Saves
  <2>2. io[r].at = "idle" => ~Saves(io[r])
    BY DEF Saves
  <2>3. QED
    BY <2>1, <2>2
<1>4. rt[r].cursor \in Nat
  BY CursorsInOrder
<1>5. MayBecome(r, new, i)
  BY <1>2, <1>3, <1>4, EndOnTrack
<1>6. QED
  BY <1>2, <1>3, <1>5, MoveGoesOn

\* r goes on with the same memory, and nothing to save.
LEMMA GoGoesOn ==
  ASSUME RelayInv, KeyInv, SyncInv, NEW r \in Runtimes, io[r].at = "idle",
         NEW new, Step(r, new), OnTrack(r, new, inbox, Supply),
         UNCHANGED <<checkpoints, io, inbox>>,
         \A n \in Installations : keyPackages'[n] = keyPackages[n] \/ keyPackages'[n] \in Supply[n]
  PROVE  SyncInv'
<1>1. MayBecome(r, new, io[r])
  BY DEF MayBecome, GoodSave, Saves
<1>2. QED
  BY <1>1, MoveGoesOn

\* r goes on with a memory to save, which has all KeyPackages that it had.
LEMMA SaveGoesOn ==
  ASSUME RelayInv, KeyInv, SyncInv, Calm, NEW r \in Runtimes, Running(r), io[r].at = "idle",
         NEW new, Save(r, new), new.home = Home(r), OnTrack(r, new, inbox, Supply),
         Good(Home(r), new.mem, inbox, Supply),
         \A x \in Runtimes : Had(rt[r].mem, inbox[Home(r)], x) => Had(new.mem, inbox[Home(r)], x),
         UNCHANGED <<store, relay>>
  PROVE  SyncInv'
<1>1. Step(r, new) /\ io' = [io EXCEPT ![r] = Begun(new)]
  BY DEF Save, BeginSave, SetIO, Begun
<1>2. PICK i : i = Begun(new)
  OBVIOUS
<1>3. i.data = new.mem
  BY <1>2 DEF Begun
<1>4. rt[r].mem = Saved(Home(r))
  BY MemoryGood
<1>5. MayBecome(r, new, i)
  BY <1>3, <1>4 DEF MayBecome, GoodSave
<1>6. UNCHANGED <<checkpoints, inbox, keyPackages>>
  BY DEF store, relay
<1>7. QED
  BY <1>1, <1>2, <1>5, <1>6, MoveGoesOn

-----------------------------------------------------------------------------
\* Pages, and what they begin with

\* Recovery is none of the steps that build on something.
LEMMA RecoveringOnTrack ==
  ASSUME NEW r, NEW s, DOMAIN s = Fields, s.op \in {"init", "create", "add", "sync"},
         NEW supply, NEW boxes,
         s.op = "add" /\ s.package # None => s.package \in supply[s.peer]
  PROVE  /\ OnTrack(r, Recovering(s), boxes, supply)
         /\ Recovering(s).home = s.home /\ Recovering(s).mem = s.mem
<1>1. AfterRecovery(s.op) \in {"package", "create", "fetch", "pull"}
  BY DEF AfterRecovery
<1>2. PICK pc \in {"publish", "post", "package", "create", "fetch", "pull"} :
        \E target : Recovering(s) = [s EXCEPT !.pc = pc, !.target = target]
  <2>1. \/ \E c : Recovering(s) = [s EXCEPT !.pc = "publish", !.target = c]
        \/ \E c : Recovering(s) = [s EXCEPT !.pc = "post", !.target = c]
        \/ Recovering(s) = [s EXCEPT !.pc = AfterRecovery(s.op), !.target = None]
    BY DEF Recovering
  <2>2. QED
    BY <1>1, <2>1
<1>3. PICK new : new = Recovering(s)
  OBVIOUS
<1>4. /\ new.pc = pc /\ new.op = s.op /\ new.package = s.package /\ new.peer = s.peer
      /\ new.home = s.home /\ new.mem = s.mem
  BY <1>2, <1>3 DEF Fields
<1>5. OnTrack(r, new, boxes, supply)
  BY <1>2, <1>4 DEF OnTrack
<1>6. QED
  BY <1>3, <1>4, <1>5

LEMMA OpenGoesOn ==
  ASSUME RelayInv, KeyInv, SyncInv, NEW r \in Runtimes, NEW n \in Installations, Open(r, n)
  PROVE  SyncInv'
<1>1. PICK new : new = [Runtime(n, "open") EXCEPT !.op = "init", !.pc = "initialize"]
  OBVIOUS
<1>2. new.op = "init" /\ new.pc = "initialize"
  BY <1>1, RuntimeFields DEF Fields
<1>3. PICK i : i = [at |-> "load", key |-> None, data |-> None]
  OBVIOUS
<1>4. /\ Step(r, new) /\ io' = [io EXCEPT ![r] = i]
      /\ UNCHANGED <<checkpoints, inbox, keyPackages>>
  BY <1>1, <1>3 DEF Open, BeginLoad, SetIO, store, relay
<1>5. MayBecome(r, new, i)
  BY <1>2, <1>3 DEF MayBecome, GoodSave, OnTrack, Saves
<1>6. QED
  BY <1>4, <1>5, MoveGoesOn

LEMMA LeaveGoesOn ==
  ASSUME RelayInv, KeyInv, SyncInv, NEW r \in Runtimes, Leave(r)
  PROVE  SyncInv'
<1>1. /\ Running(r) /\ UNCHANGED <<checkpoints, io, inbox, keyPackages>>
  BY DEF Leave, Running, store, relay
<1>2. CASE rt[r].op = "none"
  <2>1. PICK new : new = Gone(r)
    OBVIOUS
  <2>2. Step(r, new) /\ ~Saves(io[r])
    BY <1>2, <2>1 DEF Leave, KeyInv, Settled, Saves
  <2>3. MayBecome(r, new, io[r])
    BY <1>1, <2>1, <2>2, EndOnTrack, CursorsInOrder
  <2>4. QED
    BY <1>1, <2>2, <2>3, MoveGoesOn
<1>3. CASE rt[r].op # "none"
  <2>1. PICK new : new = [rt[r] EXCEPT !.page = "left"]
    OBVIOUS
  <2>2. DOMAIN rt[r] = Fields
    BY DEF KeyInv, Shape
  <2>3. /\ new.pc = rt[r].pc /\ new.mem = rt[r].mem /\ new.op = rt[r].op
        /\ new.package = rt[r].package /\ new.peer = rt[r].peer /\ new.target = rt[r].target
        /\ new.batch = rt[r].batch /\ new.next = rt[r].next /\ new.home = rt[r].home
    BY <2>1, <2>2 DEF Fields
  <2>4. Going(r)
    BY <1>1 DEF SyncInv
  <2>5. MayBecome(r, new, io[r])
    BY <2>3, <2>4 DEF MayBecome, Going, OnTrack, Home
  <2>6. Step(r, new)
    BY <1>3, <2>1 DEF Leave
  <2>7. QED
    BY <1>1, <2>5, <2>6, MoveGoesOn
<1>4. QED
  BY <1>2, <1>3

LEMMA AskGoesOn ==
  ASSUME RelayInv, KeyInv, SyncInv, NEW r \in Runtimes, AskOf(r)
  PROVE  SyncInv'
<1>1. PICK op \in {"sync", "create", "add", "remove"},
           c \in Conversations \cup {None}, m \in Installations \cup {None} : Ask(r, op, c, m)
  BY DEF AskOf
<1>2. PICK s : s = [rt[r] EXCEPT !.op = op, !.conv = c, !.peer = m]
  OBVIOUS
<1>3. PICK new : new = IF op = "remove" THEN [s EXCEPT !.pc = "prepare"] ELSE Recovering(s)
  OBVIOUS
<1>4. /\ Running(r) /\ rt[r].op = "none" /\ io[r].at = "idle" /\ Step(r, new)
      /\ UNCHANGED <<checkpoints, io, inbox, keyPackages>>
  BY <1>1, <1>2, <1>3 DEF Ask, Running, KeyInv, Settled, store, relay
<1>5. DOMAIN rt[r] = Fields /\ rt[r].package = None
  BY <1>4 DEF KeyInv, Shape, SyncInv, Going, OnTrack
<1>6. DOMAIN s = Fields /\ s.op = op /\ s.package = None
  BY <1>2, <1>5 DEF Fields
<1>7. OnTrack(r, new, inbox, Supply)
  <2>1. CASE op = "remove"
    <3>1. new.pc = "prepare" /\ new.op = "remove"
      BY <1>3, <1>6, <2>1 DEF Fields
    <3>2. QED
      BY <3>1 DEF OnTrack
  <2>2. CASE op # "remove"
    <3>1. op \in {"init", "create", "add", "sync"}
      BY <2>2
    <3>2. PICK supply : supply = Supply
      OBVIOUS
    <3>3. OnTrack(r, Recovering(s), inbox, supply)
      BY <1>6, <3>1, RecoveringOnTrack
    <3>4. QED
      BY <1>3, <2>2, <3>2, <3>3
  <2>3. QED
    BY <2>1, <2>2
<1>8. QED
  BY <1>4, <1>7, GoGoesOn

\* A tab that goes away takes its runtimes with it.
LEMMA ReloadGoesOn ==
  ASSUME RelayInv, SyncInv, NEW n \in Installations, Reload(n)
  PROVE  SyncInv'
<1> DEFINE tab == {r \in Runtimes : Home(r) = n /\ Running(r)}
<1>1. /\ \A r \in Runtimes : IF r \in tab THEN rt'[r] = Gone(r) /\ io'[r] = NoIO
                                          ELSE rt'[r] = rt[r] /\ io'[r] = io[r]
      /\ UNCHANGED <<checkpoints, inbox, keyPackages>>
  BY DEF Reload, store, relay
<1>2. \A r : Gone(r).page = "gone"
  BY RuntimeFields DEF Gone
<1>3. ASSUME NEW t \in Runtimes, Running(t)'
      PROVE  Running(t) /\ rt'[t] = rt[t] /\ io'[t] = io[t]
  BY <1>1, <1>2, <1>3 DEF Running
<1>4. QED
  BY <1>1, <1>3, TurnGoesOn

\* A transaction of the store that is not the last one of its load or save.
LEMMA TransactionGoesOn ==
  ASSUME RelayInv, KeyInv, SyncInv, NEW r \in Runtimes, Running(r),
         ReadCheckpoint(r, Home(r)) \/ GetKey(r, Home(r)) \/ CreateKey(r, Home(r)),
         UNCHANGED <<rt, relay>>
  PROVE  SyncInv'
<1>1. DOMAIN io = Runtimes /\ UNCHANGED <<checkpoints, inbox, keyPackages>>
  BY DEF KeyInv, Shape, ReadCheckpoint, GetKey, CreateKey, store, relay
<1>2. Going(r)
  BY DEF SyncInv
<1>3. \A t \in Runtimes \ {r} : io'[t] = io[t]
  BY <1>1 DEF ReadCheckpoint, GetKey, CreateKey, SetIO
<1>4. Saves(io'[r]) => Saves(io[r]) /\ io'[r].data = io[r].data
  BY <1>1 DEF ReadCheckpoint, GetKey, CreateKey, SetIO, Saves
<1>5. PICK i : i = io'[r]
  OBVIOUS
<1>6. MayBecome(r, rt[r], i)
  BY <1>2, <1>4, <1>5 DEF Going, GoodSave, MayBecome, Home
<1>7. \A t \in Runtimes : Running(t)' => Running(t) /\ rt'[t] = rt[t]
  BY DEF Running
<1>8. QED
  BY <1>1, <1>3, <1>5, <1>6, <1>7, TurnGoesOn

-----------------------------------------------------------------------------
\* initialize()

LEMMA InitializeGoesOn ==
  ASSUME RelayInv, KeyInv, SyncInv, Calm, NEW r \in Runtimes, Initialize(r)
  PROVE  SyncInv'
<1> DEFINE found == io[r].data
<1>1. /\ Running(r) /\ io[r].at = "open" /\ rt[r].pc = "initialize"
      /\ UNCHANGED <<checkpoints, inbox, keyPackages>>
  BY DEF Initialize, store, relay
<1>2. PICK n \in Installations : n = Home(r)
  BY <1>1, RunsAtHome
<1>3. DOMAIN rt[r] = Fields /\ rt[r].op = "init" /\ rt[r].mem = Fresh /\ rt[r].home = n
  BY <1>1, <1>2, AtWorkKnows DEF KeyInv, Shape, OnCourse
<1>4. Contents(found) = Saved(n)
  BY <1>1, <1>2 DEF RelayInv, InOrder, InSync, Calm
<1>5. CASE ~LoadSucceeds(r, Home(r))
  BY <1>1, <1>5, AbortGoesOn DEF Initialize
<1>6. CASE LoadSucceeds(r, Home(r)) /\ found = None
  <2>1. PICK new : new = [rt[r] EXCEPT !.pc = "package"]
    OBVIOUS
  <2>2. new.pc = "package" /\ new.op = "init" /\ new.mem = Fresh /\ new.home = n
    BY <1>3, <2>1 DEF Fields
  <2>3. PICK i : i = Begun(new)
    OBVIOUS
  <2>4. Step(r, new) /\ io' = [io EXCEPT ![r] = i]
    BY <1>6, <2>1, <2>3 DEF Initialize, Save, BeginSave, SetIO, Begun
  <2>5. i.data = Saved(n)
    BY <1>4, <1>6, <2>2, <2>3 DEF Begun, Contents
  <2>6. GoodSave(n, i, Saved(n), inbox, Supply)
    BY <2>5 DEF GoodSave, SyncInv, StoredGood
  <2>7. MayBecome(r, new, i)
    BY <2>2, <2>6 DEF MayBecome, OnTrack
  <2>8. QED
    BY <1>1, <2>4, <2>7, MoveGoesOn
<1>7. CASE LoadSucceeds(r, Home(r)) /\ found # None
  <2>1. PICK s : s = [rt[r] EXCEPT !.mem = found.data, !.cursor = found.data.cursor]
    OBVIOUS
  <2>2. DOMAIN s = Fields /\ s.op = "init"
    BY <1>3, <2>1 DEF Fields
  <2>3. PICK new, i, supply : new = Recovering(s) /\ i = NoIO /\ supply = Supply
    OBVIOUS
  <2>4. Step(r, new) /\ io' = [io EXCEPT ![r] = i]
    BY <1>7, <2>1, <2>3 DEF Initialize
  <2>5. OnTrack(r, new, inbox, supply)
    BY <2>2, <2>3, RecoveringOnTrack
  <2>6. MayBecome(r, new, i)
    BY <2>3, <2>5 DEF MayBecome, GoodSave, Saves, NoIO
  <2>7. QED
    BY <1>1, <2>4, <2>6, MoveGoesOn
<1>8. QED
  BY <1>5, <1>6, <1>7

\* The private part of a new KeyPackage is added to the memory, and saved.
LEMMA CreateKeyPackageGoesOn ==
  ASSUME RelayInv, KeyInv, SyncInv, Calm, NEW r \in Runtimes, CreateKeyPackage(r)
  PROVE  SyncInv'
<1>1. /\ Running(r) /\ io[r].at = "idle" /\ rt[r].pc = "package"
      /\ UNCHANGED <<store, relay>>
  BY DEF CreateKeyPackage, At
<1>2. PICK n \in Installations, m \in States : n = Home(r) /\ m = rt[r].mem
  BY <1>1, AtWorkKnows
<1>3. DOMAIN rt[r] = Fields /\ rt[r].op = "init" /\ rt[r].home = n
  BY <1>1, <1>2, AtWorkKnows DEF KeyInv, Shape, OnCourse
<1>4. PICK new : new = [m EXCEPT !.packages = @ \cup {r}]
  OBVIOUS
<1>5. /\ new.groups = m.groups /\ new.cursor = m.cursor /\ new.processed = m.processed
      /\ new.packages = m.packages \cup {r}
  BY <1>4 DEF States
<1>6. PICK next : next = [rt[r] EXCEPT !.pc = "announce", !.mem = new]
  OBVIOUS
<1>7. next.pc = "announce" /\ next.mem = new /\ next.op = "init" /\ next.home = n
  BY <1>3, <1>6 DEF Fields
<1>8. Save(r, next)
  <2>1. next = [rt[r] EXCEPT !.pc = "announce", !.mem.packages = @ \cup {r}]
    BY <1>2, <1>3, <1>4, <1>6 DEF Fields
  <2>2. QED
    BY <2>1 DEF CreateKeyPackage
<1>9. Good(n, m, inbox, Supply)
  BY <1>1, <1>2, MemoryGood
<1>10. Good(n, new, inbox, Supply)
  <2>1. Frontier(new) = Frontier(m)
    BY <1>5 DEF Frontier
  <2>2. \A e : Reflects(new, e) <=> Reflects(m, e)
    BY <1>5 DEF Reflects
  <2>3. \A log, c, p : Follows(new, log, c, p) <=> Follows(m, log, c, p)
    BY <1>5, <2>1 DEF Follows
  <2>4. Applies(n, new, inbox[n])
    BY <1>5, <1>9, <2>1, <2>2, <2>3 DEF Good, Applies
  <2>5. QED
    BY <1>5, <1>9, <2>4 DEF Good, MembersTold, PendingOK
<1>11. \A x \in Runtimes : Had(m, inbox[n], x) => Had(new, inbox[n], x)
  BY <1>5 DEF Had, Joined, Frontier
<1>12. OnTrack(r, next, inbox, Supply)
  BY <1>5, <1>7 DEF OnTrack
<1>13. QED
  BY <1>1, <1>2, <1>7, <1>8, <1>10, <1>11, <1>12, SaveGoesOn

-----------------------------------------------------------------------------
\* Groups that change

\* The state m becomes new when its group of c becomes h, and nothing else changes.
WithGroup(m, c, h, new) ==
  /\ new \in States /\ new.groups = [m.groups EXCEPT ![c] = h]
  /\ new.cursor = m.cursor /\ new.processed = m.processed /\ new.packages = m.packages

\* The group h, of c, may follow g in a state of n.
Suits(n, c, g, h, boxes, supply) ==
  /\ Extends(g, h)
  /\ CreatorOf[c] # n => g # None /\ h.line = g.line
  /\ CreatorOf[c] = n => \A k \in h.members \ {n} : Told(boxes[k], c, h.line)
  /\ h.pending # None /\ h.pending.type = "add" =>
       h.pending.package \in supply[h.pending.member]

LEMMA GoodGrows ==
  ASSUME NEW n \in Installations, NEW m \in States, NEW new,
         NEW c \in Conversations, NEW h \in Groups, WithGroup(m, c, h, new),
         NEW boxes, boxes[n] \in Seq(Handshakes), NEW supply, Good(n, m, boxes, supply),
         Suits(n, c, m.groups[c], h, boxes, supply)
  PROVE  Good(n, new, boxes, supply) /\ \A x : Had(m, boxes[n], x) => Had(new, boxes[n], x)
<1>1. PICK log \in Seq(Handshakes) : log = boxes[n]
  OBVIOUS
<1>2. Frontier(new) = Frontier(m) /\ Frontier(m) \in Nat /\ Frontier(m) <= Len(log)
  BY <1>1, FrontierTyped DEF WithGroup, Frontier, Good, Applies
<1>3. \A d \in Conversations : new.groups[d] = IF d = c THEN h ELSE m.groups[d]
  BY DEF WithGroup, States
<1>4. \A p \in 1 .. Frontier(m) : Reflects(new, log[p])
  <2> SUFFICES ASSUME NEW p \in 1 .. Frontier(m) PROVE Reflects(new, log[p])
    OBVIOUS
  <2>1. PICK e \in Handshakes : e = log[p]
    BY <1>2
  <2>2. Reflects(m, e)
    BY <1>1, <2>1 DEF Good, Applies
  <2>3. QED
    BY <2>1, <2>2, GroupGrows DEF WithGroup, Suits
<1>5. ASSUME NEW d \in Conversations, CreatorOf[d] # n, new.groups[d] # None
      PROVE  \E p \in 1 .. Frontier(m) : Follows(new, log, d, p)
  <2>1. m.groups[d] # None /\ new.groups[d].line = m.groups[d].line
    BY <1>3, <1>5 DEF Suits
  <2>2. PICK p \in 1 .. Frontier(m) : Follows(m, log, d, p)
    BY <1>1, <1>5, <2>1 DEF Good, Applies
  <2>3. Follows(new, log, d, p)
    BY <1>2, <2>1, <2>2 DEF Follows
  <2>4. QED
    BY <2>3
<1>6. Applies(n, new, log)
  <2>1. /\ new.cursor <= Frontier(new) /\ Frontier(new) <= Len(log)
        /\ \A k \in DOMAIN new.processed : new.processed[k] = Frontier(new) - Len(new.processed) + k
        /\ Len(new.processed) < Frontier(new) => Len(new.processed) = Remembered
    BY <1>1, <1>2 DEF WithGroup, Good, Applies
  <2>2. QED
    BY <1>2, <1>4, <1>5, <2>1 DEF Applies
<1>7. MembersTold(n, new, boxes)
  BY <1>3 DEF Good, MembersTold, Suits
<1>8. PendingOK(new, supply)
  BY <1>3 DEF Good, PendingOK, Suits
<1>9. \A x : Had(m, boxes[n], x) => Had(new, boxes[n], x)
  BY <1>2 DEF Had, Joined, WithGroup
<1>10. QED
  BY <1>1, <1>6, <1>7, <1>8, <1>9 DEF Good

LEMMA GroupSaveGoesOn ==
  ASSUME RelayInv, KeyInv, SyncInv, Calm, NEW r \in Runtimes, Running(r), io[r].at = "idle",
         NEW c \in Conversations, NEW h \in Groups,
         Suits(Home(r), c, rt[r].mem.groups[c], h, inbox, Supply),
         NEW new, Save(r, new), new.home = Home(r), WithGroup(rt[r].mem, c, h, new.mem),
         OnTrack(r, new, inbox, Supply),
         UNCHANGED <<store, relay>>
  PROVE  SyncInv'
<1>1. PICK n \in Installations, m \in States : n = Home(r) /\ m = rt[r].mem
  BY AtWorkKnows
<1>2. PICK supply, boxes : supply = Supply /\ boxes = inbox
  OBVIOUS
<1>3. Good(n, m, boxes, supply)
  BY <1>1, <1>2, MemoryGood
<1>4. boxes[n] \in Seq(Handshakes)
  BY <1>2 DEF RelayInv, Stores, MailOK
<1>5. Good(n, new.mem, boxes, supply)
      /\ \A x : Had(m, boxes[n], x) => Had(new.mem, boxes[n], x)
  <2>1. PICK mem : mem = new.mem
    OBVIOUS
  <2>2. WithGroup(m, c, h, mem) /\ Suits(n, c, m.groups[c], h, boxes, supply)
    BY <1>1, <1>2, <2>1
  <2>3. Good(n, mem, boxes, supply) /\ \A x : Had(m, boxes[n], x) => Had(mem, boxes[n], x)
    BY <1>3, <1>4, <2>2, GoodGrows
  <2>4. QED
    BY <2>1, <2>3
<1>6. QED
  BY <1>1, <1>2, <1>5, SaveGoesOn

LEMMA CreateGroupGoesOn ==
  ASSUME RelayInv, KeyInv, SyncInv, Calm, NEW r \in Runtimes, CreateGroup(r)
  PROVE  SyncInv'
<1>1. /\ Running(r) /\ rt[r].pc = "create" /\ io[r].at = "idle"
      /\ UNCHANGED <<store, relay, checkpoints, inbox, keyPackages>>
  BY DEF CreateGroup, At, relay, store
<1>2. /\ Home(r) \in Installations /\ rt[r] \in RuntimeStates /\ rt[r].op = "create"
      /\ rt[r].conv \in Conversations /\ CreatorOf[rt[r].conv] = Home(r)
  BY <1>1, AtWorkKnows DEF OnCourse
<1>3. PICK c \in Conversations : c = rt[r].conv
  BY <1>2
<1>4. CASE Group(r, c) # None
  BY <1>1, <1>3, <1>4, AbortGoesOn DEF CreateGroup
<1>5. CASE Group(r, c) = None
  <2>1. PICK h : h = NewGroup(Home(r))
    OBVIOUS
  <2>2. h \in Groups /\ h.pending = None /\ h.members = {Home(r)} /\ h # None
    <3>1. h = [line |-> <<>>, members |-> {Home(r)}, pending |-> None, unpublished |-> FALSE]
      BY <2>1 DEF NewGroup
    <3>2. <<>> \in Seq(Commits) /\ {Home(r)} \subseteq Installations
      BY <1>2
    <3>3. h \in Groups /\ h.pending = None /\ h.members = {Home(r)}
      BY <3>1, <3>2 DEF Groups
    <3>4. QED
      BY <3>3, NoneAssumption
  <2>3. PICK at : at = SetGroup(r, c, h)
    OBVIOUS
  <2>4. /\ at \in RuntimeStates /\ WithGroup(rt[r].mem, c, h, at.mem)
        /\ at.home = Home(r) /\ at.op = "create"
    BY <1>2, <2>2, <2>3, SetGroupTyped DEF WithGroup
  <2>5. PICK new : new = [at EXCEPT !.pc = "done"]
    OBVIOUS
  <2>6. new.mem = at.mem /\ new.home = Home(r) /\ new.op = "create" /\ new.pc = "done"
    BY <2>4, <2>5 DEF RuntimeStates
  <2>7. Save(r, new)
    BY <1>3, <1>5, <2>1, <2>3, <2>5 DEF CreateGroup
  <2>8. OnTrack(r, new, inbox, Supply)
    BY <2>6 DEF OnTrack
  <2>9. Extends(rt[r].mem.groups[c], h)
    BY <1>5, <2>2 DEF Extends, Group
  <2>10. Suits(Home(r), c, rt[r].mem.groups[c], h, inbox, Supply)
    BY <1>2, <1>3, <2>2, <2>9 DEF Suits
  <2>11. QED
    BY <1>1, <1>2, <2>2, <2>4, <2>6, <2>7, <2>8, <2>10, GroupSaveGoesOn
<1>6. QED
  BY <1>4, <1>5

\* The addition that is prepared names the KeyPackage that was fetched for it.
LEMMA PrepareGoesOn ==
  ASSUME RelayInv, KeyInv, SyncInv, Calm, NEW r \in Runtimes, Prepare(r)
  PROVE  SyncInv'
<1>1. /\ Running(r) /\ rt[r].pc = "prepare" /\ io[r].at = "idle"
      /\ UNCHANGED <<store, relay, checkpoints, inbox, keyPackages>>
  BY DEF Prepare, At, relay, store
<1>2. /\ Home(r) \in Installations /\ rt[r] \in RuntimeStates /\ rt[r].mem \in States
      /\ rt[r].op \in {"add", "remove"} /\ rt[r].conv \in Conversations
      /\ rt[r].peer \in Installations /\ rt[r].package \in Runtimes \cup {None}
      /\ CreatorOf[rt[r].conv] = Home(r)
  BY <1>1, AtWorkKnows DEF OnCourse, RuntimeStates
<1>3. PICK c \in Conversations : c = rt[r].conv
  BY <1>2
<1>4. CASE ~MayPrepare(r)
  BY <1>1, <1>4, AbortGoesOn DEF Prepare
<1>5. CASE MayPrepare(r)
  <2>1. PICK g : g = rt[r].mem.groups[c]
    OBVIOUS
  <2>2. g \in Groups /\ g # None /\ g.pending = None
    BY <1>2, <1>3, <1>5, <2>1 DEF MayPrepare, MayChange, Group, States
  <2>3. PICK commit : commit = [by |-> r, type |-> rt[r].op, member |-> rt[r].peer,
                                package |-> rt[r].package]
    OBVIOUS
  <2>4. /\ commit \in Commits /\ commit.type = rt[r].op /\ commit.member = rt[r].peer
        /\ commit.package = rt[r].package
    BY <1>2, <2>3 DEF Commits
  <2>5. PICK h : h = [g EXCEPT !.pending = commit]
    OBVIOUS
  <2>6. h \in Groups /\ h.pending = commit /\ h.line = g.line /\ h.members = g.members /\ h # None
    BY <2>2, <2>4, <2>5, NoneAssumption DEF Groups
  <2>7. Extends(g, h)
    BY <2>2, <2>6, PrefixOrder DEF Extends, Groups
  <2>8. PICK at : at = SetGroup(r, c, h)
    OBVIOUS
  <2>9. at \in RuntimeStates /\ WithGroup(rt[r].mem, c, h, at.mem) /\ at.home = Home(r)
        /\ at.op = rt[r].op /\ at.package = rt[r].package /\ at.peer = rt[r].peer
    BY <1>2, <2>6, <2>8, SetGroupTyped DEF WithGroup
  <2>10. PICK new : new = [at EXCEPT !.pc = "publish", !.target = c, !.own = TRUE]
    OBVIOUS
  <2>11. new.mem = at.mem /\ new.home = Home(r) /\ new.pc = "publish"
         /\ new.op = rt[r].op /\ new.package = rt[r].package /\ new.peer = rt[r].peer
    BY <2>9, <2>10 DEF RuntimeStates
  <2>12. Save(r, new)
    BY <1>3, <1>5, <2>1, <2>3, <2>5, <2>8, <2>10 DEF Prepare, Prepared, Group
  <2>13. OnTrack(r, rt[r], inbox, Supply) /\ Good(Home(r), rt[r].mem, inbox, Supply)
    BY <1>1, MemoryGood
  <2>14. OnTrack(r, new, inbox, Supply)
    BY <1>2, <2>11, <2>13 DEF OnTrack
  <2>15. h.pending.type = "add" => h.pending.package \in Supply[h.pending.member]
    BY <1>5, <2>4, <2>6, <2>13 DEF MayPrepare, OnTrack
  <2>16. \A k \in h.members \ {Home(r)} : Told(inbox[k], c, h.line)
    BY <1>2, <1>3, <2>1, <2>2, <2>6, <2>13 DEF Good, MembersTold
  <2>17. Suits(Home(r), c, rt[r].mem.groups[c], h, inbox, Supply)
    BY <1>2, <1>3, <2>1, <2>7, <2>15, <2>16 DEF Suits
  <2>18. QED
    BY <1>1, <2>6, <2>9, <2>11, <2>12, <2>14, <2>17, GroupSaveGoesOn
<1>6. QED
  BY <1>4, <1>5

\* The commit is merged when all who stay or come were told of it.
LEMMA MergeGoesOn ==
  ASSUME RelayInv, KeyInv, SyncInv, Calm, NEW r \in Runtimes, MergePendingCommit(r)
  PROVE  SyncInv'
<1>1. /\ Running(r) /\ rt[r].pc = "merge" /\ io[r].at = "idle"
      /\ UNCHANGED <<store, relay>>
  BY DEF MergePendingCommit, At
<1>2. PICK c \in Conversations, g \in Groups :
        /\ c = rt[r].target /\ g = Group(r, c) /\ g.pending \in Commits
        /\ CreatorOf[c] = Home(r)
  BY <1>1, AtTarget
<1>3. PICK members : members = MembersAfter(g)
  OBVIOUS
<1>4. PICK line \in Seq(Commits) : line = NewLine(g) /\ IsPrefix(g.line, line) /\ IsPrefix(line, line)
  <2>1. PICK made \in Seq(Commits), commit \in Commits : made = g.line /\ commit = g.pending
    BY <1>2 DEF Groups
  <2>2. Append(made, commit) \in Seq(Commits) /\ IsPrefix(made, Append(made, commit))
    BY PrefixOrder
  <2>3. QED
    BY <2>1, <2>2, PrefixOrder DEF NewLine
<1>5. members \subseteq Installations
  BY <1>2, <1>3 DEF MembersAfter, Groups, Commits
<1>6. PICK h : h = [line |-> line, members |-> members, pending |-> None, unpublished |-> TRUE]
  OBVIOUS
<1>7. h \in Groups /\ h # None /\ h.pending = None /\ h.line = line /\ h.members = members
  <2>1. h \in Groups /\ h.pending = None /\ h.line = line /\ h.members = members
    BY <1>5, <1>6 DEF Groups
  <2>2. QED
    BY <2>1, NoneAssumption
<1>8. Extends(rt[r].mem.groups[c], h)
  BY <1>2, <1>4, <1>7 DEF Extends, Group
<1>9. rt[r] \in RuntimeStates /\ rt[r].home = Home(r)
  BY <1>1, AtWorkKnows
<1>10. PICK at : at = SetGroup(r, c, h)
  OBVIOUS
<1>11. /\ at \in RuntimeStates /\ WithGroup(rt[r].mem, c, h, at.mem)
       /\ at.home = Home(r) /\ at.op = rt[r].op /\ at.package = rt[r].package
       /\ at.peer = rt[r].peer
  BY <1>7, <1>9, <1>10, SetGroupTyped DEF WithGroup
<1>12. PICK new : new = [at EXCEPT !.pc = "post"]
  OBVIOUS
<1>13. /\ new.mem = at.mem /\ new.home = Home(r) /\ new.pc = "post"
       /\ new.op = rt[r].op /\ new.package = rt[r].package /\ new.peer = rt[r].peer
  BY <1>11, <1>12 DEF RuntimeStates
<1>14. Save(r, new)
  BY <1>2, <1>3, <1>4, <1>6, <1>10, <1>12 DEF MergePendingCommit, MembersAfter
<1>15. OnTrack(r, rt[r], inbox, Supply)
  BY <1>1, MemoryGood
<1>16. OnTrack(r, new, inbox, Supply)
  BY <1>13, <1>15 DEF OnTrack
<1>17. \A k \in h.members \ {Home(r)} : Told(inbox[k], c, h.line)
  BY <1>1, <1>2, <1>3, <1>4, <1>7, <1>9, <1>15 DEF OnTrack, Group
<1>18. Suits(Home(r), c, rt[r].mem.groups[c], h, inbox, Supply)
  BY <1>2, <1>7, <1>8, <1>17 DEF Suits
<1>19. QED
  BY <1>1, <1>7, <1>11, <1>13, <1>14, <1>16, <1>18, GroupSaveGoesOn

LEMMA MarkGoesOn ==
  ASSUME RelayInv, KeyInv, SyncInv, Calm, NEW r \in Runtimes, MarkPublished(r)
  PROVE  SyncInv'
<1>1. /\ Running(r) /\ rt[r].pc = "mark" /\ io[r].at = "idle" /\ rt[r].op # "none"
      /\ UNCHANGED <<store, relay>>
  BY DEF MarkPublished, At, KeyInv, Settled
<1>2. PICK c \in Conversations, g \in Groups :
        c = rt[r].target /\ g = Group(r, c) /\ (rt[r].own \/ rt[r].op # "remove")
  BY <1>1, AtTarget
<1>3. PICK h : h = [g EXCEPT !.unpublished = FALSE]
  OBVIOUS
<1>4. /\ h \in Groups /\ h # None /\ g # None /\ h.line = g.line /\ h.pending = g.pending
      /\ h.members = g.members
  BY <1>2, <1>3, NoneAssumption DEF Groups
<1>5. Extends(rt[r].mem.groups[c], h)
  BY <1>2, <1>4, PrefixOrder DEF Extends, Group, Groups
<1>6. rt[r] \in RuntimeStates /\ rt[r].home = Home(r)
  BY <1>1, AtWorkKnows
<1>7. PICK marked : marked = SetGroup(r, c, h)
  OBVIOUS
<1>8. /\ marked \in RuntimeStates /\ WithGroup(rt[r].mem, c, h, marked.mem)
      /\ marked.home = Home(r) /\ marked.op = rt[r].op /\ marked.package = rt[r].package
      /\ marked.peer = rt[r].peer
  BY <1>4, <1>6, <1>7, SetGroupTyped DEF WithGroup
<1>9. PICK new : new = IF rt[r].own THEN [marked EXCEPT !.pc = "done"] ELSE Recovering(marked)
  OBVIOUS
<1>10. Save(r, new)
  BY <1>2, <1>3, <1>7, <1>9 DEF MarkPublished
<1>11. OnTrack(r, rt[r], inbox, Supply) /\ Good(Home(r), rt[r].mem, inbox, Supply)
  BY <1>1, MemoryGood
<1>12. /\ OnTrack(r, new, inbox, Supply)
       /\ new.home = Home(r) /\ new.mem = marked.mem
  <2>1. CASE rt[r].own
    <3>1. /\ new.mem = marked.mem /\ new.home = Home(r) /\ new.pc = "done"
          /\ new.op = rt[r].op /\ new.package = rt[r].package /\ new.peer = rt[r].peer
      BY <1>8, <1>9, <2>1 DEF RuntimeStates
    <3>2. QED
      BY <1>11, <3>1 DEF OnTrack
  <2>2. CASE ~rt[r].own
    <3>1. DOMAIN marked = Fields
      BY <1>8 DEF RuntimeStates, Fields
    <3>2. marked.op \in {"init", "create", "add", "sync"}
      BY <1>1, <1>2, <1>6, <1>8, <2>2 DEF RuntimeStates
    <3>3. PICK supply, boxes : supply = Supply /\ boxes = inbox
      OBVIOUS
    <3>4. marked.op = "add" /\ marked.package # None => marked.package \in supply[marked.peer]
      BY <1>8, <1>11, <3>3 DEF OnTrack
    <3>5. /\ OnTrack(r, Recovering(marked), boxes, supply)
          /\ Recovering(marked).home = marked.home /\ Recovering(marked).mem = marked.mem
      BY <3>1, <3>2, <3>4, RecoveringOnTrack
    <3>6. QED
      BY <1>8, <1>9, <2>2, <3>3, <3>5
  <2>3. QED
    BY <2>1, <2>2
<1>13. CreatorOf[c] = Home(r) => \A k \in h.members \ {Home(r)} : Told(inbox[k], c, h.line)
  BY <1>2, <1>4, <1>11 DEF Good, MembersTold, Group
<1>14. h.pending # None /\ h.pending.type = "add" =>
         h.pending.package \in Supply[h.pending.member]
  BY <1>2, <1>4, <1>11 DEF Good, PendingOK, Group
<1>15. CreatorOf[c] # Home(r) =>
         rt[r].mem.groups[c] # None /\ h.line = rt[r].mem.groups[c].line
  BY <1>2, <1>4 DEF Group
<1>16. Suits(Home(r), c, rt[r].mem.groups[c], h, inbox, Supply)
  BY <1>5, <1>13, <1>14, <1>15 DEF Suits
<1>17. QED
  BY <1>1, <1>4, <1>8, <1>10, <1>12, <1>16, GroupSaveGoesOn

-----------------------------------------------------------------------------
\* What a sync takes

\* The last handshakes up to f are remembered, as many as there is room for.
Consecutive(processed, f) ==
  /\ Len(processed) <= Remembered
  /\ \A k \in 1 .. Len(processed) : processed[k] = f - Len(processed) + k
  /\ Len(processed) < f => Len(processed) = Remembered

\* The processed handshakes stay consecutive, and end with the last one.
LEMMA RemembersLast ==
  ASSUME NEW processed \in Seq(Nat), NEW f \in Nat, Consecutive(processed, f),
         NEW s \in Nat, s = f + 1
  PROVE  LET new == Remember(processed, s)
         IN  new \in Seq(Nat) /\ new # <<>> /\ new[Len(new)] = s /\ Consecutive(new, s)
<1>0. PICK new : new = Remember(processed, s)
  OBVIOUS
<1>1. PICK l \in Nat, limit \in Nat \ {0} :
        l = Len(processed) /\ limit = Remembered /\ l <= limit /\ (l < f => l = limit)
  BY RememberedAssumption DEF Consecutive
<1>2. PICK all \in Seq(Nat) : all = Append(processed, s)
  <2>1. Append(processed, s) \in Seq(Nat)
    OBVIOUS
  <2>2. QED
    BY <2>1
<1>3. /\ Len(all) = l + 1
      /\ \A k \in 1 .. l + 1 : all[k] = IF k = l + 1 THEN s ELSE processed[k]
  BY <1>1, <1>2
<1>4. ASSUME NEW k \in 1 .. l + 1 PROVE all[k] = s - (l + 1) + k
  <2>1. CASE k = l + 1
    BY <1>3, <2>1
  <2>2. CASE k # l + 1
    <3>1. k \in 1 .. Len(processed) /\ all[k] = processed[k]
      BY <1>1, <1>3, <2>2
    <3>2. processed[k] = f - l + k
      BY <1>1, <3>1 DEF Consecutive
    <3>3. QED
      BY <1>0, <3>1, <3>2
  <2>3. QED
    BY <2>1, <2>2
<1>5. new = IF Len(all) > limit THEN Tail(all) ELSE all
  BY <1>0, <1>1, <1>2 DEF Remember
<1>6. PICK t \in Nat \ {0} :
        /\ new \in Seq(Nat) /\ Len(new) = t /\ t <= limit /\ (t < s => t = limit)
        /\ \A k \in 1 .. t : new[k] = s - t + k
  <2>1. CASE l + 1 > limit
    <3>1. new = Tail(all) /\ l = limit
      BY <1>1, <1>3, <1>5, <2>1
    <3>2. all # <<>> /\ Tail(all) \in Seq(Nat)
      BY <1>3
    <3>5. Len(new) = l /\ \A k \in 1 .. l : new[k] = all[k + 1]
      BY <1>3, <3>1
    <3>3. \A k \in 1 .. l : all[k + 1] = s - l + k
      BY <1>4
    <3>4. QED
      BY <1>1, <3>1, <3>2, <3>3, <3>5
  <2>2. CASE ~(l + 1 > limit)
    <3>1. new = all /\ (l + 1 < s => l + 1 = limit)
      BY <1>0, <1>1, <1>3, <1>5, <2>2
    <3>2. new \in Seq(Nat) /\ Len(new) = l + 1 /\ \A k \in 1 .. l + 1 : new[k] = s - (l + 1) + k
      BY <1>3, <1>4, <3>1
    <3>3. l + 1 \in Nat \ {0}
      OBVIOUS
    <3>4. l + 1 <= limit
      BY <1>1, <2>2
    <3>5. QED
      BY <3>1, <3>2, <3>3, <3>4
  <2>3. QED
    BY <2>1, <2>2
<1>7. new # <<>> /\ new[t] = s /\ DOMAIN new = 1 .. t
  BY <1>6
<1>8. Consecutive(new, s)
  BY <1>1, <1>6 DEF Consecutive
<1>9. QED
  BY <1>0, <1>6, <1>7, <1>8

\* The handshake e, behind the frontier, can be processed.
ComesNext(n, m, log, s, e) ==
  /\ s \in 1 .. Len(log) /\ s = Frontier(m) + 1
  /\ e = log[s] /\ CreatorOf[e.conv] # n /\ Fits(m, e)
  /\ Len(m.processed) <= Remembered /\ Owned(n, m)

\* The state m becomes new when e, with the number s, is processed.
WithHandshake(m, e, s, new) ==
  /\ new \in States
  /\ new.groups = [m.groups EXCEPT ![e.conv] = AfterHandshake(@, e)]
  /\ new.cursor = m.cursor /\ new.processed = Remember(m.processed, s)
  /\ new.packages = IF e.kind = "welcome" THEN m.packages \ {Last(e.line).package}
                                          ELSE m.packages

LEMMA AppliedIs ==
  ASSUME NEW m \in States, NEW e \in Handshakes, NEW s,
         AfterHandshake(m.groups[e.conv], e) \in Groups, Remember(m.processed, s) \in Seq(Nat)
  PROVE  WithHandshake(m, e, s, Applied(m, e, s))
<1>0. PICK new, c : new = Applied(m, e, s) /\ c = e.conv
  OBVIOUS
<1>10. PICK h \in Groups : h = AfterHandshake(m.groups[c], e)
  BY <1>0
<1>1. PICK packages \in SUBSET Runtimes :
        packages = IF e.kind = "welcome" THEN m.packages \ {Last(e.line).package} ELSE m.packages
  BY DEF States
<1>2. PICK processed \in Seq(Nat) : processed = Remember(m.processed, s)
  OBVIOUS
<1>3. PICK groups : groups = [m.groups EXCEPT ![c] = h]
  OBVIOUS
<1>4. groups \in [Conversations -> Groups \cup {None}] /\ m.cursor \in Nat
  BY <1>3 DEF States
<1>5. new = [m EXCEPT !.groups = groups, !.packages = packages, !.processed = processed]
  BY <1>0, <1>10, <1>1, <1>2, <1>3 DEF Applied, AfterHandshake
<1>6. new = [groups |-> groups, cursor |-> m.cursor,
             processed |-> processed, packages |-> packages]
  BY <1>5 DEF States
<1>7. QED
  BY <1>0, <1>10, <1>1, <1>2, <1>3, <1>4, <1>6 DEF States, WithHandshake

\* A handshake that fits is none of those applied already.
LEMMA FitsIsNew ==
  ASSUME NEW m \in States, NEW e \in Handshakes, Fits(m, e)
  PROVE  ~Reflects(m, e)
<1>1. PICK line \in Seq(Commits) : line = e.line /\ line # <<>>
  BY DEF Handshakes
<1>2. CASE e.kind = "welcome"
  BY <1>2 DEF Fits, Reflects
<1>3. CASE e.kind # "welcome"
  <2>1. m.groups[e.conv].line = Front(line)
    BY <1>1, <1>3 DEF Fits
  <2>2. ~IsPrefix(line, Front(line))
    BY <1>1 DEF IsPrefix, Front
  <2>3. QED
    BY <1>1, <2>1, <2>2 DEF Reflects
<1>4. QED
  BY <1>2, <1>3

\* It moves the frontier on.
LEMMA GoodTakes ==
  ASSUME NEW n \in Installations, NEW m \in States,
         NEW boxes, boxes[n] \in Seq(Handshakes), NEW supply, Good(n, m, boxes, supply),
         NEW s \in Nat, NEW e \in Handshakes, ComesNext(n, m, boxes[n], s, e),
         NEW new, WithHandshake(m, e, s, new)
  PROVE  /\ Frontier(new) = s /\ Good(n, new, boxes, supply)
         /\ \A x : Had(m, boxes[n], x) => Had(new, boxes[n], x)
<1> PICK log \in Seq(Handshakes) : log = boxes[n]
  OBVIOUS
<1>1. PICK f \in Nat : f = Frontier(m) /\ s = f + 1 /\ s \in Nat
  BY FrontierTyped DEF ComesNext
<1>0. /\ s \in 1 .. Len(log) /\ e = log[s] /\ CreatorOf[e.conv] # n /\ Fits(m, e)
      /\ Len(m.processed) <= Remembered /\ Owned(n, m)
  BY DEF ComesNext
<1>2. PICK c \in Conversations : c = e.conv
  BY DEF Handshakes
<1>3. PICK h \in Groups :
        /\ h = AfterHandshake(m.groups[c], e) /\ h.line = e.line /\ h.pending = None
        /\ Extends(m.groups[c], h) /\ h # None
  BY <1>0, <1>2, FitsExtends, NoneAssumption
<1>4. Applies(n, m, log)
  BY DEF Good
<1>5. PICK processed \in Seq(Nat) :
        /\ processed = Remember(m.processed, s)
        /\ processed # <<>> /\ processed[Len(processed)] = s
        /\ \A k \in DOMAIN processed : processed[k] = s - Len(processed) + k
        /\ Len(processed) < s => Len(processed) = Remembered
  <2>1. PICK old \in Seq(Nat) : old = m.processed
    BY DEF States
  <2>2. PICK processed : processed = Remember(old, s)
    OBVIOUS
  <2>3. Consecutive(old, f)
    BY <1>0, <1>1, <1>4, <2>1 DEF Applies, Consecutive
  <2>4. /\ processed \in Seq(Nat) /\ processed # <<>> /\ processed[Len(processed)] = s
        /\ Consecutive(processed, s)
    BY <1>1, <2>2, <2>3, RemembersLast
  <2>5. QED
    BY <2>1, <2>2, <2>4 DEF Consecutive
<1>6. /\ new \in States /\ new.groups = [m.groups EXCEPT ![c] = h]
      /\ new.cursor = m.cursor /\ new.processed = processed
      /\ new.packages = IF e.kind = "welcome" THEN m.packages \ {Last(e.line).package}
                                              ELSE m.packages
  BY <1>2, <1>3, <1>5 DEF WithHandshake
<1>7. Frontier(new) = s
  BY <1>5, <1>6 DEF Frontier
<1>8. \A d \in Conversations : new.groups[d] = IF d = c THEN h ELSE m.groups[d]
  BY <1>6 DEF States
<1>9. \A p \in 1 .. s : Reflects(new, log[p])
  <2> SUFFICES ASSUME NEW p \in 1 .. s PROVE Reflects(new, log[p])
    OBVIOUS
  <2>1. CASE p = s
    <3>1. e.line \in Seq(Commits) /\ IsPrefix(e.line, e.line)
      BY PrefixOrder DEF Handshakes
    <3>2. QED
      BY <1>0, <1>2, <1>3, <1>8, <2>1, <3>1 DEF Reflects
  <2>2. CASE p # s
    <3>1. p \in 1 .. f /\ p \in 1 .. Len(log)
      BY <1>0, <1>1, <2>2
    <3>2. PICK d \in Handshakes : d = log[p]
      BY <3>1
    <3>3. Reflects(m, d)
      BY <1>1, <1>4, <3>1, <3>2 DEF Applies
    <3>4. QED
      BY <1>3, <1>6, <3>2, <3>3, GroupGrows
  <2>3. QED
    BY <2>1, <2>2
<1>10. ASSUME NEW d \in Conversations, CreatorOf[d] # n, new.groups[d] # None
       PROVE  \E p \in 1 .. s : Follows(new, log, d, p)
  <2>1. CASE d = c
    <3>1. \A q \in s + 1 .. s : FALSE
      BY <1>1
    <3>2. log[s].conv = d /\ new.groups[d].line = log[s].line
      BY <1>0, <1>2, <1>3, <1>8, <2>1
    <3>3. Follows(new, log, d, s)
      BY <1>7, <3>1, <3>2 DEF Follows
    <3>4. QED
      BY <1>1, <3>3
  <2>2. CASE d # c
    <3>1. PICK p \in 1 .. f : Follows(m, log, d, p)
      BY <1>1, <1>4, <1>8, <1>10, <2>2 DEF Applies
    <3>2. \A q \in p + 1 .. s : q = s \/ q \in p + 1 .. f
      BY <1>1
    <3>3. Follows(new, log, d, p)
      BY <1>0, <1>1, <1>2, <1>7, <1>8, <2>2, <3>1, <3>2 DEF Follows
    <3>4. p \in 1 .. s
      BY <1>1
    <3>5. QED
      BY <3>3, <3>4
  <2>3. QED
    BY <2>1, <2>2
<1>11. Applies(n, new, log)
  <2>1. new.cursor <= s /\ s <= Len(log) /\ Len(log) \in Nat
    BY <1>0, <1>1, <1>4, <1>6 DEF Applies, States
  <2>2. QED
    BY <1>5, <1>6, <1>7, <1>9, <1>10, <2>1 DEF Applies
<1>12. MembersTold(n, new, boxes)
  BY <1>0, <1>2, <1>8 DEF Good, MembersTold
<1>13. PendingOK(new, supply)
  BY <1>3, <1>8 DEF Good, PendingOK
<1>14. ASSUME NEW x, Had(m, log, x) PROVE Had(new, log, x)
  <2>1. CASE Joined(m, log, x)
    <3>1. PICK p \in 1 .. f : log[p].kind = "welcome" /\ Last(log[p].line).package = x
      BY <1>1, <2>1 DEF Joined
    <3>2. p \in 1 .. s
      BY <1>1
    <3>3. QED
      BY <1>7, <3>1, <3>2 DEF Had, Joined
  <2>2. CASE x \in m.packages /\ x \notin new.packages
    <3>1. e.kind = "welcome" /\ Last(e.line).package = x
      BY <1>6, <2>2
    <3>2. QED
      BY <1>0, <1>1, <1>7, <3>1 DEF Had, Joined
  <2>3. QED
    BY <1>14, <2>1, <2>2 DEF Had
<1>15. QED
  BY <1>6, <1>7, <1>11, <1>12, <1>13, <1>14 DEF Good

LEMMA TakeGoesOn ==
  ASSUME RelayInv, KeyInv, SyncInv, Calm, NEW r \in Runtimes, TakeHandshake(r)
  PROVE  SyncInv'
<1>1. /\ Running(r) /\ rt[r].pc = "take" /\ io[r].at = "idle" /\ rt[r].batch # {}
      /\ UNCHANGED <<store, relay, checkpoints, inbox, keyPackages>>
  BY DEF TakeHandshake, At, store, relay
<1>2. PICK n \in Installations, log \in Seq(Handshakes), m \in States :
        n = Home(r) /\ log = inbox[n] /\ m = rt[r].mem
  BY <1>1, AtWorkKnows DEF RelayInv, Stores, MailOK
<1>3. /\ DOMAIN rt[r] = Fields /\ rt[r].home = n /\ rt[r].op = "sync"
      /\ StateOK(n, m, log) /\ rt[r].batch \subseteq 1 .. Len(log)
  BY <1>1, <1>2, AtWorkKnows DEF KeyInv, Shape, OnCourse
<1>4. PICK next \in Nat : next = rt[r].next
  BY <1>1, CursorsInOrder
<1>5. PICK S : S = rt[r].batch
  OBVIOUS
<1>6. PICK s \in Nat :
        s = Min(S) /\ s \in S /\ (\A k \in S : s <= k) /\ S \subseteq 1 .. Len(log)
  <2>1. S \subseteq Nat /\ S # {} /\ S \subseteq 1 .. Len(log)
    BY <1>1, <1>3, <1>5
  <2>2. QED
    BY <1>5, <2>1, MinOfBatch
<1>7. PICK e \in Handshakes : e = log[s]
  BY <1>6
<1>8. CreatorOf[e.conv] # n /\ s \in 1 .. Len(log)
  BY <1>2, <1>6, <1>7 DEF RelayInv, Stores, MailOK
<1>9. Good(n, m, inbox, Supply) /\ OnTrack(r, rt[r], inbox, Supply)
  BY <1>1, <1>2, MemoryGood
<1>10. PICK f \in Nat :
         /\ f = Frontier(m) /\ S \subseteq 1 .. next
         /\ \A k \in 1 .. next : k <= f \/ k \in S
  BY <1>1, <1>2, <1>4, <1>5, <1>9, FrontierTyped DEF OnTrack
<1>11. PICK rest : rest = [rt[r] EXCEPT !.batch = @ \ {s}]
  OBVIOUS
<1>12. /\ DOMAIN rest = Fields /\ rest.home = n /\ rest.mem = m /\ rest.op = "sync"
       /\ rest.pc = "take" /\ rest.batch = S \ {s} /\ rest.next = next
  BY <1>1, <1>2, <1>3, <1>4, <1>5, <1>11 DEF Fields
<1>13. \/ s \in Range(m.processed) /\ Step(r, rest) /\ UNCHANGED io
       \/ Fits(m, e) /\ Save(r, [rest EXCEPT !.mem = Applied(@, e, s)])
       \/ Abort(r) /\ UNCHANGED io
  BY <1>2, <1>5, <1>6, <1>7, <1>11 DEF TakeHandshake
<1>14. CASE s \in Range(m.processed) /\ Step(r, rest) /\ UNCHANGED io
  <2>1. PICK k \in DOMAIN m.processed : s = m.processed[k]
    BY <1>14 DEF Range
  <2>2. s = f - Len(m.processed) + k /\ k \in 1 .. Len(m.processed) /\ Len(m.processed) \in Nat
    BY <1>9, <1>10, <2>1, SMTT(30) DEF Good, Applies, States
  <2>3. s <= f
    BY <1>6, <2>2
  <2>4. OnTrack(r, rest, inbox, Supply)
    BY <1>10, <1>12, <2>3 DEF OnTrack
  <2>5. QED
    BY <1>1, <1>14, <2>4, GoGoesOn
<1>15. CASE Fits(m, e) /\ Save(r, [rest EXCEPT !.mem = Applied(@, e, s)])
  <2>1. s = f + 1
    <3>1. ~(s <= f)
      <4>1. ~Reflects(m, e)
        BY <1>15, FitsIsNew
      <4>2. s <= f => Reflects(m, e)
        BY <1>2, <1>7, <1>8, <1>9, <1>10 DEF Good, Applies
      <4>3. QED
        BY <4>1, <4>2
    <3>2. ~(s > f + 1)
      BY <1>6, <1>10
    <3>3. QED
      BY <1>6, <3>1, <3>2
  <2>2. PICK new, boxes, supply : new = Applied(m, e, s) /\ boxes = inbox /\ supply = Supply
    OBVIOUS
  <2>3. /\ Frontier(new) = s /\ Good(n, new, boxes, supply)
        /\ \A x : Had(m, boxes[n], x) => Had(new, boxes[n], x)
    <3>1. boxes[n] \in Seq(Handshakes) /\ Good(n, m, boxes, supply)
      BY <1>2, <1>9, <2>2
    <3>2. ComesNext(n, m, boxes[n], s, e)
      BY <1>2, <1>3, <1>7, <1>8, <1>10, <1>15, <2>1, <2>2 DEF ComesNext, StateOK
    <3>3. AfterHandshake(m.groups[e.conv], e) \in Groups
      BY <1>3, <1>8, <1>15, FitsExtends DEF StateOK
    <3>4. Remember(m.processed, s) \in Seq(Nat)
      BY <1>3, Remembers DEF StateOK, States
    <3>5. WithHandshake(m, e, s, new)
      BY <2>2, <3>3, <3>4, AppliedIs
    <3>6. QED
      BY <3>1, <3>2, <3>5, GoodTakes
  <2>4. PICK to : to = [rest EXCEPT !.mem = new]
    OBVIOUS
  <2>5. /\ to.home = n /\ to.mem = new /\ to.op = "sync" /\ to.pc = "take"
        /\ to.batch = S \ {s} /\ to.next = next
    BY <1>12, <2>4 DEF Fields
  <2>6. Save(r, to)
    BY <1>12, <1>15, <2>2, <2>4
  <2>7. OnTrack(r, to, inbox, Supply)
    <3>1. Frontier(to.mem) = s /\ to.batch \subseteq 1 .. to.next
      BY <1>10, <2>3, <2>5
    <3>2. \A k \in 1 .. to.next : k <= s \/ k \in to.batch
      BY <1>10, <2>1, <2>5
    <3>3. to.op # "none" /\ to.op # "add" /\ to.pc # "merge" /\ to.pc # "announce"
      BY <2>5
    <3>4. QED
      BY <3>1, <3>2, <3>3 DEF OnTrack
  <2>8. QED
    BY <1>1, <1>2, <2>2, <2>3, <2>5, <2>6, <2>7, SaveGoesOn
<1>16. CASE Abort(r) /\ UNCHANGED io
  BY <1>1, <1>16, AbortGoesOn
<1>17. QED
  BY <1>13, <1>14, <1>15, <1>16

\* When nothing of a batch is left, the frontier has come to its end.
LEMMA CursorGoesOn ==
  ASSUME RelayInv, KeyInv, SyncInv, Calm, NEW r \in Runtimes, SaveHandshakeCursor(r)
  PROVE  SyncInv'
<1>1. /\ Running(r) /\ rt[r].pc = "take" /\ io[r].at = "idle" /\ rt[r].batch = {}
      /\ UNCHANGED <<store, relay>>
  BY DEF SaveHandshakeCursor, At
<1>2. PICK n \in Installations, m \in States : n = Home(r) /\ m = rt[r].mem
  BY <1>1, AtWorkKnows
<1>3. DOMAIN rt[r] = Fields /\ rt[r].home = n /\ rt[r].op = "sync"
  BY <1>1, <1>2, AtWorkKnows DEF KeyInv, Shape, OnCourse
<1>4. PICK next \in Nat : next = rt[r].next
  BY <1>1, CursorsInOrder
<1>5. Good(n, m, inbox, Supply) /\ OnTrack(r, rt[r], inbox, Supply)
  BY <1>1, <1>2, MemoryGood
<1>6. next <= Frontier(m)
  <2>1. Frontier(m) \in Nat /\ \A k \in 1 .. next : k <= Frontier(m)
    BY <1>1, <1>2, <1>4, <1>5, FrontierTyped DEF OnTrack
  <2>2. next = 0 \/ next \in 1 .. next
    BY <1>4
  <2>3. QED
    BY <2>1, <2>2
<1>7. PICK new : new = [m EXCEPT !.cursor = next]
  OBVIOUS
<1>8. /\ new.groups = m.groups /\ new.cursor = next /\ new.processed = m.processed
      /\ new.packages = m.packages
  BY <1>7 DEF States
<1>9. Frontier(new) = Frontier(m)
  BY <1>8 DEF Frontier
<1>10. Good(n, new, inbox, Supply)
  <2>1. \A e : Reflects(new, e) <=> Reflects(m, e)
    BY <1>8 DEF Reflects
  <2>2. \A log, c, p : Follows(new, log, c, p) <=> Follows(m, log, c, p)
    BY <1>8, <1>9 DEF Follows
  <2>3. Applies(n, new, inbox[n])
    BY <1>5, <1>6, <1>8, <1>9, <2>1, <2>2 DEF Good, Applies
  <2>4. QED
    BY <1>5, <1>8, <2>3 DEF Good, MembersTold, PendingOK
<1>11. \A x : Had(m, inbox[n], x) => Had(new, inbox[n], x)
  BY <1>8, <1>9 DEF Had, Joined
<1>12. PICK to : to = [rt[r] EXCEPT !.pc = "synced", !.mem = new]
  OBVIOUS
<1>13. to.pc = "synced" /\ to.mem = new /\ to.op = "sync" /\ to.home = n
  BY <1>3, <1>12 DEF Fields
<1>14. Save(r, to)
  <2>1. to = [rt[r] EXCEPT !.pc = "synced", !.mem.cursor = rt[r].next]
    BY <1>2, <1>3, <1>4, <1>7, <1>12 DEF Fields
  <2>2. QED
    BY <2>1 DEF SaveHandshakeCursor
<1>15. OnTrack(r, to, inbox, Supply)
  BY <1>13 DEF OnTrack
<1>16. QED
  BY <1>1, <1>2, <1>10, <1>11, <1>13, <1>14, <1>15, SaveGoesOn

-----------------------------------------------------------------------------
\* What a batch tells the inboxes

\* Every member that the waiting commit leaves in the group gets a delivery.
LEMMA DeliveriesCover ==
  ASSUME RelayInv, NEW r \in Runtimes, Running(r), rt[r].pc = "publish",
         NEW k \in MembersAfter(Group(r, rt[r].target)) \ {Home(r)}
  PROVE  \E i \in DOMAIN Deliveries(r) : Deliveries(r)[i].to = k
<1>1. PICK c \in Conversations, g \in Groups :
        /\ c = rt[r].target /\ g = Group(r, c) /\ g.pending \in Commits
  BY AtTarget
<1>2. PICK n, peer : n = Home(r) /\ peer = g.pending.member
  OBVIOUS
<1>3. PICK S : S = g.members \ {n, peer}
  OBVIOUS
<1>4. IsFiniteSet(S)
  BY <1>3, InstallationsAssumption, FS_Subset DEF Groups
<1>5. PICK others \in Seq(S) :
        others = SetToSeq(S) /\ \A x \in S : \E i \in DOMAIN others : others[i] = x
  BY <1>4, SequenceOfSet
<1> DEFINE Commit(x) == Delivery(r, "commit", x)
           D == {Commit(x) : x \in S}
<1>6. \A kind, to : Delivery(r, kind, to).to = to
  BY DEF Delivery
<1>7. \A x : Commit(x).to = x
  BY <1>6
<1> HIDE DEF Commit
<1>8. PICK commits \in Seq(D) :
        /\ commits = [i \in DOMAIN others |-> Commit(others[i])]
        /\ Len(commits) = Len(others) /\ DOMAIN commits = DOMAIN others
  <2>1. PICK l \in Nat : DOMAIN others = 1 .. l /\ Len(others) = l
    BY <1>5
  <2>2. \A i \in 1 .. l : Commit(others[i]) \in D
    BY <1>5, <2>1
  <2> HIDE DEF D
  <2>3. PICK commits : commits = [i \in 1 .. l |-> Commit(others[i])]
    OBVIOUS
  <2>4. commits \in Seq(D) /\ Len(commits) = l /\ DOMAIN commits = 1 .. l
    BY <2>2, <2>3
  <2>5. QED
    BY <2>1, <2>3, <2>4
<1> HIDE DEF D
<1>9. PICK welcome : welcome = Delivery(r, "welcome", peer) /\ welcome.to = peer
  BY <1>6
<1>10. Deliveries(r) = IF g.pending.type = "add" THEN Append(commits, welcome) ELSE commits
  <2>1. Deliveries(r) =
          IF g.pending.type = "add"
          THEN Append([i \in DOMAIN others |-> Delivery(r, "commit", others[i])],
                      Delivery(r, "welcome", peer))
          ELSE [i \in DOMAIN others |-> Delivery(r, "commit", others[i])]
    BY <1>1, <1>2, <1>3, <1>5 DEF Deliveries
  <2>2. commits = [i \in DOMAIN others |-> Delivery(r, "commit", others[i])]
    BY <1>8 DEF Commit
  <2>3. QED
    BY <1>9, <2>1, <2>2
<1>11. k \in S \/ (k = peer /\ g.pending.type = "add")
  BY <1>1, <1>2, <1>3 DEF MembersAfter
<1>12. CASE k \in S
  <2>1. PICK i \in DOMAIN commits : commits[i].to = k
    BY <1>5, <1>7, <1>8, <1>12
  <2>2. i \in DOMAIN Append(commits, welcome) /\ Append(commits, welcome)[i] = commits[i]
    BY <2>1
  <2>3. QED
    BY <1>10, <2>1, <2>2
<1>13. CASE k = peer /\ g.pending.type = "add"
  <2>1. PICK l \in Nat : l = Len(commits)
    OBVIOUS
  <2>2. /\ l + 1 \in DOMAIN Append(commits, welcome)
        /\ Append(commits, welcome)[l + 1] = welcome
    BY <2>1
  <2>3. QED
    BY <1>9, <1>10, <1>13, <2>2
<1>14. QED
  BY <1>11, <1>12, <1>13

\* Once published, they are told of the commit.
LEMMA BatchTells ==
  ASSUME RelayInv, NEW r \in Runtimes, Running(r), rt[r].pc = "publish",
         PublishHandshakes(Deliveries(r)), NEW k \in Installations,
         k \in MembersAfter(Group(r, rt[r].target)) \ {Home(r)}
  PROVE  Told(inbox'[k], rt[r].target, NewLine(Group(r, rt[r].target)))
<1>1. PICK S : S = Sent(r)
  OBVIOUS
<1>2. PICK ds \in Seq(S) : ds = Deliveries(r)
  BY <1>1, DeliveriesAreSent DEF PublishHandshakes
<1>3. PICK i \in 1 .. Len(ds) : ds[i].to = k
  BY <1>2, DeliveriesCover
<1>4. PICK d \in S : d = ds[i]
  BY <1>2
<1>5. d.conv = rt[r].target /\ d.line = NewLine(Group(r, rt[r].target))
  BY <1>1 DEF Sent
<1>6. PICK more : more = Addressed(ds, k)
  OBVIOUS
<1>7. more \in Seq({x \in S : x.to = k})
  BY <1>6, AddressedAre
<1>8. PICK p \in 1 .. Len(more) : more[p] = d
  BY <1>3, <1>4, <1>6, AddressedCovers
<1>9. PICK log \in Seq(Handshakes) : log = inbox[k]
  BY DEF RelayInv, Stores, MailOK
<1>10. inbox'[k] = log \o more
  BY <1>2, <1>6, <1>9 DEF PublishHandshakes
<1>11. PICK T : T = {x \in S : x.to = k}
  OBVIOUS
<1>12. more \in Seq(T)
  BY <1>7, <1>11
<1>13. PICK new : new = log \o more
  OBVIOUS
<1>14. Len(new) = Len(log) + Len(more) /\ new[Len(log) + p] = more[p]
       /\ Len(log) + p \in 1 .. Len(new)
  BY <1>12, <1>13
<1>15. QED
  BY <1>5, <1>8, <1>10, <1>13, <1>14 DEF Told

\* An inbox goes on with handshakes of one commit, which all that it has of the
\* conversation comes before.
LEMMA LogGrows ==
  ASSUME NEW n, NEW log, NEW new, GoesOnFrom(log, new),
         NEW c, NEW line \in Seq(Commits), NEW supply, LogOK(n, log, supply),
         \A p \in 1 .. Len(log) : log[p].conv = c => IsPrefix(log[p].line, line),
         \A p \in 1 .. Len(new) :
           p \in 1 .. Len(log)
           \/ (new[p].conv = c /\ new[p].line = line /\ FollowsUp(n, new, p, supply))
  PROVE  LogOK(n, new, supply)
<1>1. PICK l \in Nat, t \in Nat : l = Len(log) /\ t = Len(new) /\ l <= t
  BY DEF GoesOnFrom
<1>2. \A p \in 1 .. l : new[p] = log[p] /\ p \in 1 .. t
  BY <1>1 DEF GoesOnFrom
<1>3. ASSUME NEW p \in 1 .. t, NEW q \in 1 .. t, p < q, new[p].conv = new[q].conv
      PROVE  IsPrefix(new[p].line, new[q].line)
  <2>1. CASE q \in 1 .. l
    <3>1. p \in 1 .. l
      BY <1>1, <1>3, <2>1
    <3>2. QED
      BY <1>1, <1>2, <1>3, <2>1, <3>1 DEF LogOK
  <2>2. CASE q \notin 1 .. l /\ p \in 1 .. l
    <3>1. new[q].conv = c /\ new[q].line = line
      BY <1>1, <2>2
    <3>2. log[p].conv = c /\ new[p] = log[p]
      BY <1>2, <1>3, <2>2, <3>1
    <3>3. QED
      BY <1>1, <2>2, <3>1, <3>2
  <2>3. CASE q \notin 1 .. l /\ p \notin 1 .. l
    BY <1>1, <2>3, PrefixOrder
  <2>4. QED
    BY <2>1, <2>2, <2>3
<1>4. ASSUME NEW p \in 1 .. t PROVE FollowsUp(n, new, p, supply)
  <2>1. CASE p \in 1 .. l
    <3>1. FollowsUp(n, log, p, supply) /\ new[p] = log[p]
      BY <1>1, <1>2, <2>1 DEF LogOK
    <3>2. \A q \in 1 .. p - 1 : new[q] = log[q]
      BY <1>2, <2>1
    <3>3. QED
      BY <3>1, <3>2 DEF FollowsUp
  <2>2. CASE p \notin 1 .. l
    BY <1>1, <2>2
  <2>3. QED
    BY <2>1, <2>2
<1>5. QED
  BY <1>1, <1>3, <1>4 DEF LogOK

\* What is being saved stays good.
LEMMA SavesStay ==
  ASSUME NEW n \in Installations, NEW i, NEW saved \in States, Saves(i) => i.data \in States,
         NEW boxes, NEW new, NEW supply, NEW more, Progress(boxes, new, supply, more),
         Good(n, saved, boxes, supply), GoodSave(n, i, saved, boxes, supply)
  PROVE  GoodSave(n, i, saved, new, more)
<1> SUFFICES ASSUME Saves(i) PROVE GoodSave(n, i, saved, new, more)
  BY DEF GoodSave
<1>1. PICK data \in States : data = i.data
  OBVIOUS
<1>2. Good(n, data, boxes, supply) /\ GoesOnFrom(boxes[n], new[n])
  BY <1>1 DEF GoodSave, Progress
<1>3. Good(n, data, new, more)
  BY <1>2, GoodStays
<1>4. \A x : Had(data, new[n], x) <=> Had(data, boxes[n], x)
  BY <1>2, SameHad DEF Good, Applies
<1>5. \A x : Had(saved, new[n], x) <=> Had(saved, boxes[n], x)
  BY <1>2, SameHad DEF Good, Applies
<1>6. QED
  BY <1>1, <1>3, <1>4, <1>5 DEF GoodSave

-----------------------------------------------------------------------------
\* Requests

\* A welcome names a KeyPackage of the one it welcomes; who gets a commit has been
\* told of the one before.
LEMMA SentFollows ==
  ASSUME NEW h \in Installations, NEW m \in States, NEW c \in Conversations,
         NEW g \in Groups, m.groups[c] = g, g.pending \in Commits, CreatorOf[c] = h,
         NEW boxes, NEW supply, Good(h, m, boxes, supply),
         NEW n \in Installations, NEW new, GoesOnFrom(boxes[n], new),
         NEW p \in 1 .. Len(new), p \notin 1 .. Len(boxes[n]),
         NEW d \in Handshakes, d = new[p], d.conv = c, d.line = NewLine(g), d.to = n, d.to # h,
         MayGo(g, h, d.kind, n)
  PROVE  FollowsUp(n, new, p, supply)
<1>1. PICK made \in Seq(Commits), commit \in Commits : made = g.line /\ commit = g.pending
  BY DEF Groups
<1>2. PICK line \in Seq(Commits) : line = Append(made, commit)
  <2>1. Append(made, commit) \in Seq(Commits)
    OBVIOUS
  <2>2. QED
    BY <2>1
<1>3. Last(line) = commit /\ Front(line) = made
  BY <1>2 DEF Last, Front
<1>4. new[p].line = line /\ new[p].conv = c /\ new[p].kind = d.kind
  BY <1>1, <1>2 DEF NewLine
<1>5. g # None /\ g.pending # None
  BY NoneAssumption
<1>6. CASE d.kind = "welcome"
  <2>1. commit.type = "add" /\ commit.member = n
    BY <1>1, <1>6 DEF MayGo
  <2>2. commit.package \in supply[n]
    BY <1>1, <1>5, <2>1 DEF Good, PendingOK
  <2>3. QED
    BY <1>3, <1>4, <1>6, <2>1, <2>2 DEF FollowsUp
<1>7. CASE d.kind # "welcome"
  <2>1. n \in g.members \ {h} /\ n # commit.member
    BY <1>1, <1>7 DEF MayGo
  <2>2. Told(boxes[n], c, made)
    BY <1>1, <1>5, <2>1 DEF Good, MembersTold
  <2>3. PICK q \in 1 .. Len(boxes[n]) : boxes[n][q].conv = c /\ boxes[n][q].line = made
    BY <2>2 DEF Told
  <2>4. PICK l \in Nat, t \in Nat : l = Len(boxes[n]) /\ t = Len(new)
    BY DEF GoesOnFrom
  <2>5. new[q] = boxes[n][q] /\ q \in 1 .. p - 1
    <3>1. q \in 1 .. l /\ p \in 1 .. t /\ p \notin 1 .. l
      BY <2>3, <2>4
    <3>2. QED
      BY <3>1, <2>4 DEF GoesOnFrom
  <2>6. \E k \in 1 .. p - 1 : new[k].conv = c /\ new[k].line = made
    BY <2>3, <2>5
  <2>7. QED
    BY <1>3, <1>4, <1>7, <2>1, <2>6 DEF FollowsUp
<1>8. QED
  BY <1>6, <1>7

LEMMA BatchGoesOn ==
  ASSUME RelayInv, KeyInv, SyncInv, Calm, NEW r \in Runtimes, Running(r), io[r].at = "idle",
         rt[r].pc = "publish", PublishHandshakes(Deliveries(r)),
         NEW new, Step(r, new), new.home = Home(r),
         Runs(new) => OnTrack(r, new, inbox', Supply),
         UNCHANGED <<store, io>>
  PROVE  SyncInv'
<1>1. PICK c \in Conversations, g \in Groups :
        /\ c = rt[r].target /\ g = Group(r, c) /\ g.pending \in Commits
        /\ CreatorOf[c] = Home(r)
  BY AtTarget
<1>2. PICK h \in Installations, m \in States : h = Home(r) /\ m = rt[r].mem
  BY AtWorkKnows
<1>3. m.groups[c] = g /\ CreatorOf[c] = h
  BY <1>1, <1>2 DEF Group
<1>4. PICK boxes, supply : boxes = inbox /\ supply = Supply
  OBVIOUS
<1>5. Good(h, m, boxes, supply) /\ HasAll(h, m, boxes)
  BY <1>2, <1>4, MemoryGood, HeldInMemory DEF Calm
<1>6. PICK line \in Seq(Commits) :
        line = NewLine(g) /\ IsPrefix(g.line, line) /\ IsPrefix(line, line)
  <2>1. PICK made \in Seq(Commits), commit \in Commits : made = g.line /\ commit = g.pending
    BY <1>1 DEF Groups
  <2>2. Append(made, commit) \in Seq(Commits) /\ IsPrefix(made, Append(made, commit))
    BY PrefixOrder
  <2>3. QED
    BY <2>1, <2>2, PrefixOrder DEF NewLine
<1>7. \A n \in Installations :
        GoesOnFrom(boxes[n], inbox'[n]) /\ Arrived(r, n, boxes[n], inbox'[n])
  BY <1>4, InboxGrows
<1>8. UNCHANGED <<checkpoints, keyPackages>> /\ \A n : Saved(n)' = Saved(n)
  BY DEF PublishHandshakes, store, Saved
<1>9. \A n \in Installations : Saved(n) \in States /\ Good(n, Saved(n), boxes, supply)
  BY <1>4 DEF RelayInv, Stores, StateOK, SyncInv, StoredGood
<1>10. PICK after : after = inbox'
  OBVIOUS
<1>11. Supply' = supply
  <2>1. ASSUME NEW n \in Installations
        PROVE  {x \in Runtimes : Had(Saved(n), after[n], x)} =
               {x \in Runtimes : Had(Saved(n), boxes[n], x)}
    <3>1. PICK saved \in States : saved = Saved(n)
      BY <1>9
    <3>2. Frontier(saved) <= Len(boxes[n]) /\ GoesOnFrom(boxes[n], after[n])
      BY <1>7, <1>9, <1>10, <3>1 DEF Good, Applies
    <3>3. \A x : Had(saved, after[n], x) <=> Had(saved, boxes[n], x)
      BY <3>2, SameHad
    <3>4. QED
      BY <3>1, <3>3
  <2>2. Supply' = [n \in Installations |-> {x \in Runtimes : Had(Saved(n)', after[n], x)}]
    BY <1>10 DEF Supply
  <2>3. Supply' = [n \in Installations |-> {x \in Runtimes : Had(Saved(n), after[n], x)}]
    BY <1>8, <2>2
  <2>4. supply = [n \in Installations |-> {x \in Runtimes : Had(Saved(n), boxes[n], x)}]
    BY <1>4 DEF Supply
  <2>5. QED
    BY <2>1, <2>3, <2>4
<1>12. Progress(boxes, after, supply, supply)
  BY <1>7, <1>10 DEF Progress
<1>13. ASSUME NEW n \in Installations PROVE LogOK(n, after[n], supply)
  <2>1. PICK log \in Seq(Handshakes) : log = boxes[n]
    BY <1>4 DEF RelayInv, Stores, MailOK
  <2>2. ASSUME NEW p \in 1 .. Len(log), log[p].conv = c PROVE IsPrefix(log[p].line, line)
    <3>1. PICK e \in Handshakes : e = log[p]
      BY <2>2
    <3>2. e.from = h
      BY <1>3, <1>4, <2>1, <2>2, <3>1 DEF RelayInv, Stores, MailOK
    <3>3. Has(m, e)
      BY <1>5, <2>1, <3>1, <3>2 DEF HasAll
    <3>4. \/ IsPrefix(e.line, g.line)
          \/ e.line = line
      BY <1>3, <1>6, <2>2, <3>1, <3>3 DEF Has
    <3>5. e.line \in Seq(Commits) /\ g.line \in Seq(Commits)
      BY DEF Handshakes, Groups
    <3>6. QED
      BY <1>6, <3>1, <3>4, <3>5, PrefixOrder
  <2>3. PICK to : to = after[n]
    OBVIOUS
  <2>4. GoesOnFrom(log, to) /\ Arrived(r, n, log, to) /\ LogOK(n, log, supply)
    BY <1>4, <1>7, <1>10, <2>1, <2>3 DEF SyncInv, StoredGood
  <2>5. ASSUME NEW p \in 1 .. Len(to), p \notin 1 .. Len(log)
        PROVE  to[p].conv = c /\ to[p].line = line /\ FollowsUp(n, to, p, supply)
    <3>1. PICK d \in Sent(r) : d = to[p] /\ d.to = n
      BY <2>4, <2>5 DEF Arrived
    <3>2. /\ d \in Handshakes /\ d.to # h /\ d.conv = c /\ d.line = NewLine(g)
          /\ MayGo(g, h, d.kind, n)
      BY <1>1, <1>2, <3>1 DEF Sent
    <3>3. GoesOnFrom(boxes[n], to) /\ p \notin 1 .. Len(boxes[n])
      BY <2>1, <2>4, <2>5
    <3>4. FollowsUp(n, to, p, supply)
      BY <1>1, <1>3, <1>5, <3>1, <3>2, <3>3, SentFollows
    <3>5. QED
      BY <1>6, <3>1, <3>2, <3>4
  <2>6. \A p \in 1 .. Len(to) :
          p \in 1 .. Len(log)
          \/ (to[p].conv = c /\ to[p].line = line /\ FollowsUp(n, to, p, supply))
    BY <2>5
  <2>7. LogOK(n, to, supply)
    BY <2>2, <2>4, <2>6, LogGrows
  <2>8. QED
    BY <2>3, <2>7
<1>14. StoredGood'
  <2> SUFFICES ASSUME NEW n \in Installations
               PROVE  /\ Good(n, Saved(n)', inbox', Supply')
                      /\ LogOK(n, inbox'[n], Supply')
                      /\ keyPackages'[n] # None => keyPackages'[n] \in Supply'[n]
    BY DEF StoredGood
  <2>1. Good(n, Saved(n), after, supply)
    BY <1>9, <1>12, GoodStays
  <2>2. keyPackages[n] # None => keyPackages[n] \in supply[n]
    BY <1>4 DEF SyncInv, StoredGood
  <2>3. QED
    BY <1>8, <1>10, <1>11, <1>13, <2>1, <2>2
<1>15. DOMAIN rt = Runtimes
  BY DEF KeyInv, Shape
<1>16. ASSUME NEW t \in Runtimes, Running(t)' PROVE Going(t)'
  <2>1. PICK s, i : s = rt'[t] /\ i = io[t]
    OBVIOUS
  <2>2. Home(t)' = s.home /\ io'[t] = i
    BY <2>1 DEF Home
  <2>3. PICK n \in Installations, saved \in States :
          n = s.home /\ saved = Saved(n) /\ Good(n, saved, boxes, supply)
          /\ GoodSave(n, i, saved, after, supply) /\ OnTrack(t, s, after, supply)
    <3>1. CASE t = r
      <4>1. s = new /\ Runs(new)
        BY <1>15, <1>16, <2>1, <3>1 DEF Step, Running, Runs
      <4>2. OnTrack(t, s, after, supply)
        BY <1>4, <1>10, <3>1, <4>1
      <4>3. ~Saves(i)
        BY <2>1, <3>1 DEF Saves
      <4>4. QED
        BY <1>2, <1>9, <4>1, <4>2, <4>3 DEF GoodSave
    <3>2. CASE t # r
      <4>1. s = rt[t] /\ Running(t)
        BY <1>15, <1>16, <2>1, <3>2 DEF Step, Running
      <4>2. PICK n \in Installations : n = s.home /\ n = Home(t)
        BY <4>1, RunsAtHome DEF Home
      <4>3. PICK saved \in States : saved = Saved(n) /\ Good(n, saved, boxes, supply)
        BY <1>9
      <4>4. GoodSave(n, i, saved, boxes, supply) /\ OnTrack(t, s, boxes, supply)
        BY <1>4, <2>1, <4>1, <4>2, <4>3 DEF SyncInv, Going
      <4>5. Saves(i) => i.data \in States
        BY <2>1, <4>1, <4>2 DEF RelayInv, InOrder, WorkOK, StateOK
      <4>6. s \in RuntimeStates /\ OnCourse(s, i)
        BY <2>1, <4>1, AtWorkKnows
      <4>7. GoodSave(n, i, saved, after, supply)
        BY <1>12, <4>3, <4>4, <4>5, SavesStay
      <4>8. OnTrack(t, s, after, supply)
        BY <1>12, <4>4, <4>6, TrackStays
      <4>9. QED
        BY <4>2, <4>3, <4>7, <4>8
    <3>3. QED
      BY <3>1, <3>2
  <2>4. Saved(Home(t))' = saved
    <3>1. Saved(n)' = saved
      BY <1>8, <2>3
    <3>2. QED
      BY <2>2, <2>3, <3>1 DEF Saved, Home
  <2>5. QED
    BY <1>10, <1>11, <2>1, <2>2, <2>3, <2>4 DEF Going
<1>17. QED
  BY <1>14, <1>16 DEF SyncInv

\* What r has done is still done when it goes on to another step.
LEMMA SameOnTrack ==
  ASSUME NEW r, NEW s, NEW new, NEW boxes, NEW supply, OnTrack(r, s, boxes, supply),
         new.op = s.op, new.package = s.package, new.peer = s.peer,
         new.pc \notin {"take", "merge", "announce"}
  PROVE  OnTrack(r, new, boxes, supply)
BY DEF OnTrack

\* The KeyPackage that is announced is in the stored checkpoint.
LEMMA AnnouncedInSupply ==
  ASSUME RelayInv, SyncInv, Calm, NEW r \in Runtimes, Running(r), io[r].at = "idle",
         rt[r].pc = "announce"
  PROVE  r \in Supply[Home(r)]
<1>1. PICK n \in Installations : n = Home(r) /\ rt[r].mem = Saved(n)
  BY MemoryGood
<1>2. r \in Saved(n).packages
  BY <1>1, MemoryGood DEF OnTrack
<1>3. Had(Saved(n), inbox[n], r)
  BY <1>2 DEF Had
<1>4. QED
  BY <1>1, <1>3 DEF Supply

\* The relay serves r, which goes on to new.
LEMMA ServeGoesOn ==
  ASSUME RelayInv, KeyInv, SyncInv, Calm, NEW r \in Runtimes, Serve(r),
         NEW new, Step(r, new), new.home = Home(r),
         Runs(new) => OnTrack(r, new, inbox', Supply),
         UNCHANGED <<store, io>>
  PROVE  SyncInv'
<1>1. Running(r) /\ io[r].at = "idle"
  BY DEF Serve, At
<1>2. CASE rt[r].pc = "publish" /\ PublishHandshakes(Deliveries(r))
  BY <1>1, <1>2, BatchGoesOn
<1>3. CASE ~(rt[r].pc = "publish" /\ PublishHandshakes(Deliveries(r)))
  <2>1. inbox' = inbox /\ checkpoints' = checkpoints
        /\ \/ keyPackages' = keyPackages
           \/ rt[r].pc = "announce" /\ keyPackages' = [keyPackages EXCEPT ![Home(r)] = r]
    BY <1>3 DEF Serve, At, PublishKeyPackage, PublishCiphertext, relay, store
  <2>2. DOMAIN keyPackages = Installations
    BY DEF RelayInv, Stores
  <2>3. rt[r].pc = "announce" => r \in Supply[Home(r)]
    BY <1>1, AnnouncedInSupply
  <2>4. \A n \in Installations : keyPackages'[n] = keyPackages[n] \/ keyPackages'[n] \in Supply[n]
    BY <2>1, <2>2, <2>3
  <2>5. Runs(new) => OnTrack(r, new, inbox, Supply)
    BY <2>1
  <2>6. Runs(new) => MayBecome(r, new, io[r])
    BY <1>1, <2>5 DEF MayBecome, GoodSave, Saves
  <2>7. QED
    BY <2>1, <2>4, <2>6, MoveGoesOn
<1>4. QED
  BY <1>2, <1>3

\* A sync takes all that is behind the cursor: what it does not take was applied.
LEMMA PullOnTrack ==
  ASSUME RelayInv, SyncInv, Calm, NEW r \in Runtimes, Running(r), io[r].at = "idle",
         rt[r].pc = "pull", NEW batch, batch = HandshakesAfter(Home(r), rt[r].cursor), batch # {},
         NEW new, new = [rt[r] EXCEPT !.pc = "take", !.batch = batch, !.next = Max(batch)]
  PROVE  new.home = Home(r) /\ OnTrack(r, new, inbox, Supply)
<1>1. PICK n \in Installations, log \in Seq(Handshakes), m \in States :
        n = Home(r) /\ log = inbox[n] /\ m = rt[r].mem
  BY AtWorkKnows DEF RelayInv, Stores, MailOK
<1>2. /\ rt[r] \in RuntimeStates /\ rt[r].home = n /\ rt[r].op = "sync"
      /\ rt[r].cursor <= m.cursor /\ rt[r].cursor \in Nat /\ m.cursor \in Nat
  BY <1>1, AtWorkKnows, CursorsInOrder DEF OnCourse
<1>3. PICK l \in Nat, cursor \in Nat : l = Len(log) /\ cursor = rt[r].cursor
  BY <1>2
<1>4. batch = {s \in 1 .. l : s > cursor}
  BY <1>1, <1>3 DEF HandshakesAfter
<1>5. PICK next \in batch : next = Max(batch) /\ \A s \in batch : s <= next
  BY <1>3, <1>4, MaxOfBatch
<1>6. PICK f \in Nat : f = Frontier(m) /\ cursor <= f
  <2>1. m.cursor <= Frontier(m) /\ Frontier(m) \in Nat
    BY <1>1, MemoryGood, FrontierTyped DEF Good, Applies
  <2>2. QED
    BY <1>2, <1>3, <2>1
<1>7. batch \subseteq 1 .. next /\ \A k \in 1 .. next : k <= f \/ k \in batch
  <2>1. next \in 1 .. l
    BY <1>4
  <2>2. \A s \in batch : s \in 1 .. next
    BY <1>4, <1>5, <2>1
  <2>3. \A k \in 1 .. next : k \in 1 .. l /\ (k > cursor => k \in batch)
    BY <1>4, <2>1
  <2>4. QED
    BY <1>6, <2>2, <2>3
<1>8. DOMAIN rt[r] = Fields
  BY <1>2 DEF RuntimeStates, Fields
<1>9. /\ new.home = n /\ new.mem = m /\ new.op = "sync" /\ new.pc = "take"
      /\ new.batch = batch /\ new.next = next
  BY <1>1, <1>2, <1>5, <1>8 DEF Fields
<1>10. OnTrack(r, new, inbox, Supply)
  BY <1>6, <1>7, <1>9 DEF OnTrack
<1>11. QED
  BY <1>1, <1>9, <1>10

LEMMA AnswerGoesOn ==
  ASSUME RelayInv, KeyInv, SyncInv, Calm, NEW r \in Runtimes, Answer(r)
  PROVE  SyncInv'
<1>1. /\ Serve(r) /\ Proceed(r) /\ UNCHANGED <<store, io>>
      /\ Running(r) /\ io[r].at = "idle"
      /\ rt[r].pc \in {"announce", "publish", "post", "fetch", "pull"}
  BY ServedAt DEF Answer
<1>2. /\ rt[r] \in RuntimeStates /\ rt[r].home = Home(r) /\ OnCourse(rt[r], io[r])
      /\ rt[r].cursor \in Nat /\ DOMAIN rt[r] = Fields
  BY <1>1, AtWorkKnows, CursorsInOrder DEF RuntimeStates, Fields
<1>3. OnTrack(r, rt[r], inbox, Supply)
  BY <1>1, MemoryGood
<1>4. ASSUME Step(r, Rest(r, rt[r].cursor)) PROVE SyncInv'
  <2>1. PICK new : new = Rest(r, rt[r].cursor)
    OBVIOUS
  <2>2. OnTrack(r, new, inbox', Supply)
    BY <1>1, <1>2, <2>1, EndIsBare DEF OnTrack
  <2>3. new.home = Home(r)
    BY <1>1, <1>2, <2>1, RestTyped
  <2>4. QED
    BY <1>1, <1>4, <2>1, <2>2, <2>3, ServeGoesOn
<1>5. CASE rt[r].pc = "announce"
  <2>1. Step(r, Rest(r, rt[r].cursor))
    BY <1>1, <1>5 DEF Proceed
  <2>2. QED
    BY <1>4, <2>1
<1>6. CASE rt[r].pc = "publish"
  <2>1. PICK new : new = [rt[r] EXCEPT !.pc = "merge"]
    OBVIOUS
  <2>2. Step(r, new)
    BY <1>1, <1>6, <2>1 DEF Proceed, Go
  <2>3. /\ new.home = Home(r) /\ new.mem = rt[r].mem /\ new.pc = "merge" /\ new.op = rt[r].op
        /\ new.package = rt[r].package /\ new.peer = rt[r].peer /\ new.target = rt[r].target
    BY <1>2, <2>1 DEF Fields
  <2>4. PICK c \in Conversations, g \in Groups :
          c = rt[r].target /\ g = Group(r, c) /\ g.pending \in Commits
    BY <1>1, <1>6, AtTarget
  <2>5. MembersAfter(g) \subseteq Installations
    BY <2>4 DEF MembersAfter, Groups, Commits
  <2>6. PublishHandshakes(Deliveries(r))
    BY <1>1, <1>6 DEF Serve, At
  <2>7. \A k \in MembersAfter(g) \ {Home(r)} : Told(inbox'[k], c, NewLine(g))
    BY <1>1, <1>6, <2>4, <2>5, <2>6, BatchTells
  <2>8. new.mem.groups[new.target] = g
    BY <2>3, <2>4 DEF Group
  <2>9. OnTrack(r, new, inbox', Supply)
    BY <1>3, <2>3, <2>4, <2>7, <2>8 DEF OnTrack
  <2>10. QED
    BY <1>1, <2>2, <2>3, <2>9, ServeGoesOn
<1>7. ASSUME rt[r].pc # "publish" PROVE UNCHANGED inbox
  BY <1>1, <1>7 DEF Serve, At, PublishKeyPackage, PublishCiphertext, relay
<1>8. CASE rt[r].pc = "post"
  <2>1. PICK new : new = [rt[r] EXCEPT !.pc = "mark"]
    OBVIOUS
  <2>2. Step(r, new)
    BY <1>1, <1>8, <2>1 DEF Proceed, Go
  <2>3. /\ new.home = Home(r) /\ new.pc = "mark" /\ new.op = rt[r].op
        /\ new.package = rt[r].package /\ new.peer = rt[r].peer
    BY <1>2, <2>1 DEF Fields
  <2>4. OnTrack(r, new, inbox, Supply)
    BY <1>3, <2>3, SameOnTrack
  <2>5. OnTrack(r, new, inbox', Supply)
    BY <1>7, <1>8, <2>4
  <2>6. QED
    BY <1>1, <2>2, <2>3, <2>5, ServeGoesOn
<1>9. CASE rt[r].pc = "fetch"
  <2>1. PICK new : new = [rt[r] EXCEPT !.pc = "prepare", !.package = keyPackages[rt[r].peer]]
    OBVIOUS
  <2>2. Step(r, new)
    BY <1>1, <1>9, <2>1 DEF Proceed
  <2>3. /\ new.home = Home(r) /\ new.pc = "prepare" /\ new.op = "add"
        /\ new.package = keyPackages[rt[r].peer] /\ new.peer = rt[r].peer
        /\ rt[r].peer \in Installations
    BY <1>2, <1>9, <2>1 DEF Fields, OnCourse
  <2>4. new.package # None => new.package \in Supply[new.peer]
    BY <2>3 DEF SyncInv, StoredGood
  <2>5. OnTrack(r, new, inbox, Supply)
    BY <2>3, <2>4 DEF OnTrack
  <2>6. OnTrack(r, new, inbox', Supply)
    BY <1>7, <1>9, <2>5
  <2>7. QED
    BY <1>1, <2>2, <2>3, <2>6, ServeGoesOn
<1>10. CASE rt[r].pc = "pull"
  <2>1. PICK batch : batch = HandshakesAfter(Home(r), rt[r].cursor)
    OBVIOUS
  <2>2. CASE batch = {}
    <3>1. Step(r, Rest(r, rt[r].cursor))
      BY <1>1, <1>10, <2>1, <2>2 DEF Proceed
    <3>2. QED
      BY <1>4, <3>1
  <2>3. CASE batch # {}
    <3>1. PICK new : new = [rt[r] EXCEPT !.pc = "take", !.batch = batch, !.next = Max(batch)]
      OBVIOUS
    <3>2. Step(r, new)
      BY <1>1, <1>10, <2>1, <2>3, <3>1 DEF Proceed
    <3>3. new.home = Home(r) /\ OnTrack(r, new, inbox, Supply)
      BY <1>1, <1>10, <2>1, <2>3, <3>1, PullOnTrack
    <3>4. OnTrack(r, new, inbox', Supply)
      BY <1>7, <1>10, <3>3
    <3>5. QED
      BY <1>1, <3>2, <3>3, <3>4, ServeGoesOn
  <2>4. QED
    BY <2>2, <2>3
<1>11. QED
  BY <1>1, <1>5, <1>6, <1>8, <1>9, <1>10

LEMMA UnansweredGoesOn ==
  ASSUME RelayInv, KeyInv, SyncInv, Calm, NEW r \in Runtimes, Unanswered(r)
  PROVE  SyncInv'
<1>1. /\ Abort(r) /\ UNCHANGED <<store, io>>
      /\ Serve(r) \/ ((\E pc \in {"announce", "publish", "post"} : At(r, pc)) /\ UNCHANGED relay)
  BY DEF Unanswered
<1>2. Running(r) /\ io[r].at = "idle"
  BY <1>1, ServedAt DEF At
<1>3. CASE Serve(r)
  <2>1. PICK new : new = IF rt[r].op = "init" THEN Gone(r) ELSE Rest(r, rt[r].cursor)
    OBVIOUS
  <2>2. Step(r, new) /\ new \in {Gone(r), Rest(r, rt[r].cursor)} /\ rt[r].cursor \in Nat
    BY <1>1, <1>2, <2>1, CursorsInOrder DEF Abort
  <2>3. OnTrack(r, new, inbox', Supply)
    BY <1>2, <2>2, EndIsBare DEF OnTrack
  <2>4. new.home = Home(r)
    BY <1>2, <2>2, RestTyped
  <2>5. QED
    BY <1>1, <1>3, <2>2, <2>3, <2>4, ServeGoesOn
<1>4. CASE UNCHANGED relay
  BY <1>1, <1>2, <1>4, AbortGoesOn DEF relay, store
<1>5. QED
  BY <1>1, <1>3, <1>4

-----------------------------------------------------------------------------
\* The end of a save

LEMMA LogStays ==
  ASSUME NEW n, NEW log, NEW supply, NEW more, LogOK(n, log, supply), supply[n] \subseteq more[n]
  PROVE  LogOK(n, log, more)
<1>1. ASSUME NEW p \in 1 .. Len(log) PROVE FollowsUp(n, log, p, more)
  <2>1. FollowsUp(n, log, p, supply)
    BY DEF LogOK
  <2>2. QED
    BY <2>1 DEF FollowsUp
<1>2. QED
  BY <1>1 DEF LogOK

LEMMA PutGoesOn ==
  ASSUME RelayInv, KeyInv, SyncInv, Calm, NEW r \in Runtimes, Running(r),
         PutCheckpoint(r, Home(r)), AfterSave(r), UNCHANGED relay
  PROVE  SyncInv'
<1>1. PICK n \in Installations, data \in States : n = Home(r) /\ data = io[r].data /\ Saves(io[r])
  <2>1. io[r].at = "put"
    BY DEF PutCheckpoint
  <2>2. io[r].data \in States /\ Home(r) \in Installations
    BY <2>1, RunsAtHome DEF RelayInv, InOrder, WorkOK, StateOK, Saves
  <2>3. QED
    BY <2>1, <2>2 DEF Saves
<1>2. PICK cipher : cipher = [key |-> io[r].key, data |-> data]
  OBVIOUS
<1>3. /\ io' = [io EXCEPT ![r] = NoIO] /\ checkpoints' = [checkpoints EXCEPT ![n] = cipher]
      /\ inbox' = inbox /\ UNCHANGED keyPackages
  BY <1>1, <1>2 DEF PutCheckpoint, relay
<1>4. DOMAIN rt = Runtimes /\ DOMAIN io = Runtimes /\ DOMAIN checkpoints = Installations
  BY DEF KeyInv, Shape
<1>5. cipher # None /\ cipher.data = data
  <2>1. io[r].key \in Runtimes
    BY DEF PutCheckpoint, RelayInv, InOrder, RuntimeOK
  <2>2. cipher \in Ciphers(States) /\ cipher.data = data
    BY <1>2, <2>1 DEF Ciphers
  <2>3. QED
    BY <2>2, NoneAssumption
<1>6. Saved(n)' = data /\ \A k \in Installations \ {n} : Saved(k)' = Saved(k)
  BY <1>3, <1>4, <1>5 DEF Saved
<1>7. PICK boxes, supply, more : boxes = inbox /\ supply = Supply /\ more = Supply'
  OBVIOUS
<1>8. /\ Good(n, data, boxes, supply)
      /\ \A x \in Runtimes : Had(Saved(n), boxes[n], x) => Had(data, boxes[n], x)
  BY <1>1, <1>7 DEF SyncInv, Going, GoodSave
<1>9. Progress(boxes, boxes, supply, more)
  <2>1. ASSUME NEW k \in Installations PROVE supply[k] \subseteq more[k]
    <3>1. supply[k] = {x \in Runtimes : Had(Saved(k), boxes[k], x)}
      BY <1>7 DEF Supply
    <3>2. more[k] = {x \in Runtimes : Had(Saved(k)', inbox'[k], x)}
      BY <1>7 DEF Supply
    <3>3. PICK after : after = Saved(k)'
      OBVIOUS
    <3>4. more[k] = {x \in Runtimes : Had(after, boxes[k], x)}
      BY <1>3, <1>7, <3>2, <3>3
    <3>5. \A x \in Runtimes : Had(Saved(k), boxes[k], x) => Had(after, boxes[k], x)
      BY <1>6, <1>8, <3>3
    <3>6. QED
      BY <3>1, <3>4, <3>5
  <2>2. \A k \in Installations : GoesOnFrom(boxes[k], boxes[k])
    BY <1>7 DEF RelayInv, Stores, MailOK, GoesOnFrom
  <2>3. QED
    BY <2>1, <2>2 DEF Progress
<1>10. \A k \in Installations : Saved(k) \in States /\ Good(k, Saved(k), boxes, supply)
  BY <1>7 DEF RelayInv, Stores, StateOK, SyncInv, StoredGood
<1>11. StoredGood'
  <2> SUFFICES ASSUME NEW k \in Installations
               PROVE  /\ Good(k, Saved(k)', inbox', Supply')
                      /\ LogOK(k, inbox'[k], Supply')
                      /\ keyPackages'[k] # None => keyPackages'[k] \in Supply'[k]
    BY DEF StoredGood
  <2>1. PICK after \in States : after = Saved(k)' /\ Good(k, after, boxes, supply)
    BY <1>1, <1>6, <1>8, <1>10
  <2>2. Good(k, after, boxes, more)
    BY <1>9, <2>1, GoodStays
  <2>3. LogOK(k, boxes[k], supply) /\ supply[k] \subseteq more[k]
        /\ (keyPackages[k] # None => keyPackages[k] \in supply[k])
    BY <1>7, <1>9 DEF SyncInv, StoredGood, Progress
  <2>4. LogOK(k, boxes[k], more)
    BY <2>3, LogStays
  <2>5. QED
    BY <1>3, <1>7, <2>1, <2>2, <2>3, <2>4
<1>12. PICK new : /\ rt'[r] = new /\ \A t \in Runtimes \ {r} : rt'[t] = rt[t]
                  /\ \/ new = rt[r]
                     \/ new \in {Rest(r, rt[r].cursor), Rest(r, rt[r].next)}
  BY <1>4 DEF AfterSave, Step
<1>13. rt[r].cursor \in Nat /\ rt[r].next \in Nat
  BY CursorsInOrder
<1>14. ASSUME NEW t \in Runtimes, Running(t)' PROVE Going(t)'
  <2>1. PICK s, i : s = rt'[t] /\ i = io'[t]
    OBVIOUS
  <2>2. Home(t)' = s.home
    BY <2>1 DEF Home
  <2>3. PICK k \in Installations, after \in States :
          k = s.home /\ after = Saved(k)'
          /\ GoodSave(k, i, after, boxes, more) /\ OnTrack(t, s, boxes, more)
    <3>1. CASE t = r
      <4>1. s = new /\ i = NoIO
        BY <1>3, <1>4, <1>12, <2>1, <3>1
      <4>2. ~Saves(i)
        BY <4>1 DEF Saves, NoIO
      <4>3. CASE new = rt[r]
        <5>1. OnTrack(r, rt[r], boxes, supply) /\ rt[r] \in RuntimeStates /\ OnCourse(rt[r], io[r])
          BY <1>7, AtWorkKnows DEF SyncInv, Going
        <5>2. OnTrack(r, rt[r], boxes, more)
          BY <1>9, <5>1, TrackStays
        <5>3. s.home = n
          BY <1>1, <4>1, <4>3 DEF Home
        <5>4. QED
          BY <1>1, <1>6, <3>1, <4>1, <4>2, <4>3, <5>2, <5>3 DEF GoodSave
      <4>4. CASE new \in {Rest(r, rt[r].cursor), Rest(r, rt[r].next)}
        <5>1. new.op = "none" /\ new.pc = "none" /\ new.package = None /\ new.home = Home(r)
          BY <1>13, <4>4, EndIsBare, RestTyped
        <5>2. OnTrack(r, new, boxes, more)
          BY <5>1 DEF OnTrack
        <5>3. QED
          BY <1>1, <1>6, <3>1, <4>1, <4>2, <5>1, <5>2 DEF GoodSave
      <4>5. QED
        BY <1>12, <4>3, <4>4
    <3>2. CASE t # r
      <4>1. s = rt[t] /\ i = io[t] /\ Running(t)
        BY <1>3, <1>4, <1>12, <1>14, <2>1, <3>2 DEF Running
      <4>2. PICK k \in Installations : k = s.home /\ k = Home(t)
        BY <4>1, RunsAtHome DEF Home
      <4>3. k # n
        BY <1>1, <3>2, <4>1, <4>2 DEF Calm, RelayInv, OneRuns
      <4>4. PICK saved \in States :
              saved = Saved(k) /\ saved = Saved(k)' /\ Good(k, saved, boxes, supply)
        BY <1>6, <1>10, <4>3
      <4>5. GoodSave(k, i, saved, boxes, supply) /\ OnTrack(t, s, boxes, supply)
        BY <1>7, <4>1, <4>2, <4>4 DEF SyncInv, Going
      <4>6. Saves(i) => i.data \in States
        BY <4>1, <4>2 DEF RelayInv, InOrder, WorkOK, StateOK
      <4>7. s \in RuntimeStates /\ OnCourse(s, i)
        BY <4>1, AtWorkKnows
      <4>8. GoodSave(k, i, saved, boxes, more)
        BY <1>9, <4>4, <4>5, <4>6, SavesStay
      <4>9. OnTrack(t, s, boxes, more)
        BY <1>9, <4>5, <4>7, TrackStays
      <4>10. QED
        BY <4>2, <4>4, <4>8, <4>9
    <3>3. QED
      BY <3>1, <3>2
  <2>4. Saved(Home(t))' = after
    BY <2>2, <2>3 DEF Saved, Home
  <2>5. QED
    BY <1>3, <1>7, <2>1, <2>2, <2>3, <2>4 DEF Going
<1>15. QED
  BY <1>11, <1>14 DEF SyncInv

-----------------------------------------------------------------------------
\* The invariant

LEMMA AdvanceGoesOn ==
  ASSUME RelayInv, KeyInv, SyncInv, Calm, NEW r \in Runtimes, Advance(r)
  PROVE  SyncInv'
<1>1. CASE StoreStep(r)
  <2>1. Running(r) /\ UNCHANGED relay
    BY <1>1 DEF StoreStep
  <2>2. CASE ReadCheckpoint(r, Home(r)) \/ GetKey(r, Home(r)) \/ CreateKey(r, Home(r))
    <3>1. CASE UNCHANGED rt
      BY <2>1, <2>2, <3>1, TransactionGoesOn
    <3>2. CASE PutCheckpoint(r, Home(r)) /\ AfterSave(r)
      BY <2>1, <3>2, PutGoesOn
    <3>3. QED
      BY <1>1, <3>1, <3>2 DEF StoreStep
  <2>3. CASE PutCheckpoint(r, Home(r)) /\ AfterSave(r)
    BY <2>1, <2>3, PutGoesOn
  <2>4. QED
    BY <1>1, <2>2, <2>3 DEF StoreStep
<1>2. CASE Initialize(r)
  BY <1>2, InitializeGoesOn
<1>3. CASE CreateKeyPackage(r)
  BY <1>3, CreateKeyPackageGoesOn
<1>4. CASE CreateGroup(r)
  BY <1>4, CreateGroupGoesOn
<1>5. CASE Prepare(r)
  BY <1>5, PrepareGoesOn
<1>6. CASE MergePendingCommit(r)
  BY <1>6, MergeGoesOn
<1>7. CASE MarkPublished(r)
  BY <1>7, MarkGoesOn
<1>8. CASE TakeHandshake(r)
  BY <1>8, TakeGoesOn
<1>9. CASE SaveHandshakeCursor(r)
  BY <1>9, CursorGoesOn
<1>10. CASE Answer(r)
  BY <1>10, AnswerGoesOn
<1>11. QED
  BY <1>1, <1>2, <1>3, <1>4, <1>5, <1>6, <1>7, <1>8, <1>9, <1>10 DEF Advance

\* What an installation suffered is not forgotten: it was calm before.
LEMMA CalmBefore ==
  ASSUME RelayInv, KeyInv, [Next]_vars, Calm'
  PROVE  Calm /\ \A r \in Runtimes : ~SaveFails(r)
<1>1. DOMAIN suffered = Installations
  BY DEF KeyInv, Shape
<1>2. ASSUME NEW r \in Runtimes, SaveFails(r) PROVE FALSE
  <2>1. Running(r)
    BY <1>2 DEF SaveFails, KeyInv, Settled
  <2>2. Home(r) \in Installations
    BY <2>1, RunsAtHome
  <2>3. suffered'[Home(r)] # {}
    BY <1>1, <1>2, <2>2 DEF SaveFails
  <2>4. QED
    BY <2>2, <2>3 DEF Calm
<1>3. CASE \E r \in Runtimes, n \in Installations : Open(r, n)
  <2>1. PICK r \in Runtimes, n \in Installations : Open(r, n)
    BY <1>3
  <2>2. \A k \in Installations : suffered[k] \subseteq suffered'[k]
    BY <1>1, <2>1 DEF Open
  <2>3. QED
    BY <1>2, <2>2 DEF Calm
<1>4. CASE suffered' = suffered
  BY <1>2, <1>4 DEF Calm
<1>5. ASSUME NEW r \in Runtimes, Advance(r) PROVE suffered' = suffered
  BY <1>5 DEF Advance, StoreStep, Initialize, CreateKeyPackage, CreateGroup, Prepare,
     MergePendingCommit, MarkPublished, TakeHandshake, SaveHandshakeCursor, Answer
<1>6. ASSUME NEW r \in Runtimes, AskOf(r) \/ Leave(r) \/ Unanswered(r) PROVE suffered' = suffered
  BY <1>6 DEF AskOf, Ask, Leave, Unanswered
<1>7. ASSUME NEW n \in Installations, Reload(n) PROVE suffered' = suffered
  BY <1>7 DEF Reload
<1>8. QED
  BY <1>2, <1>3, <1>4, <1>5, <1>6, <1>7 DEF Next, vars

LEMMA SyncStep == RelayInv /\ KeyInv /\ (Calm => SyncInv) /\ [Next]_vars => (Calm => SyncInv)'
<1> SUFFICES ASSUME RelayInv, KeyInv, Calm => SyncInv, [Next]_vars, Calm' PROVE SyncInv'
  OBVIOUS
<1>1. Calm /\ SyncInv /\ \A r \in Runtimes : ~SaveFails(r)
  BY CalmBefore
<1>2. ASSUME NEW r \in Runtimes, NEW n \in Installations, Open(r, n) PROVE SyncInv'
  BY <1>1, <1>2, OpenGoesOn
<1>3. ASSUME NEW r \in Runtimes, Leave(r) PROVE SyncInv'
  BY <1>1, <1>3, LeaveGoesOn
<1>4. ASSUME NEW n \in Installations, Reload(n) PROVE SyncInv'
  BY <1>1, <1>4, ReloadGoesOn
<1>5. ASSUME NEW r \in Runtimes, AskOf(r) PROVE SyncInv'
  BY <1>1, <1>5, AskGoesOn
<1>6. ASSUME NEW r \in Runtimes, Advance(r) PROVE SyncInv'
  BY <1>1, <1>6, AdvanceGoesOn
<1>7. ASSUME NEW r \in Runtimes, Unanswered(r) PROVE SyncInv'
  BY <1>1, <1>7, UnansweredGoesOn
<1>8. CASE UNCHANGED vars
  <2>1. UNCHANGED <<checkpoints, inbox, keyPackages, rt, io>>
    BY <1>8 DEF vars, store, relay
  <2>2. \A t \in Runtimes : Running(t)' => Running(t)
    BY <2>1 DEF Running
  <2>3. QED
    BY <1>1, <2>1, <2>2, TurnGoesOn
<1>9. QED
  BY <1>1, <1>2, <1>3, <1>4, <1>5, <1>6, <1>7, <1>8 DEF Next

LEMMA SyncInit == Init => SyncInv
<1> SUFFICES ASSUME Init PROVE SyncInv
  OBVIOUS
<1>1. ASSUME NEW n \in Installations
      PROVE  checkpoints[n] = None /\ inbox[n] = <<>> /\ keyPackages[n] = None
  BY DEF Init, StoreInit, RelayInit
<1>2. ASSUME NEW n \in Installations, NEW boxes, NEW supply, boxes[n] = <<>>
      PROVE  Good(n, Fresh, boxes, supply) /\ LogOK(n, boxes[n], supply)
  <2>1. /\ Fresh.groups = [c \in Conversations |-> None] /\ Fresh.cursor = 0
        /\ Fresh.processed = <<>> /\ Frontier(Fresh) = 0
    BY DEF Fresh, Frontier
  <2>2. Len(boxes[n]) = 0 /\ Len(Fresh.processed) = 0 /\ DOMAIN Fresh.processed = {}
    BY <1>2, <2>1
  <2>3. \A p \in 1 .. 0 : FALSE
    OBVIOUS
  <2>4. Applies(n, Fresh, boxes[n])
    BY <2>1, <2>2, <2>3 DEF Applies
  <2>5. MembersTold(n, Fresh, boxes) /\ PendingOK(Fresh, supply)
    BY <2>1 DEF MembersTold, PendingOK
  <2>6. LogOK(n, boxes[n], supply)
    BY <2>2, <2>3 DEF LogOK
  <2>7. QED
    BY <2>4, <2>5, <2>6 DEF Good
<1>3. StoredGood
  <2>1. \A n \in Installations : Saved(n) = Fresh
    BY <1>1 DEF Saved
  <2>2. QED
    BY <1>1, <1>2, <2>1 DEF StoredGood
<1>4. \A r \in Runtimes : ~Running(r)
  BY RuntimeFields DEF Init, Unstarted, Running
<1>5. QED
  BY <1>3, <1>4 DEF SyncInv

-----------------------------------------------------------------------------
\* What it says of a sync

\* Between the commits before the last one and all of them there is nothing.
LEMMA BetweenPrefixes ==
  ASSUME NEW S, NEW s \in Seq(S), NEW t \in Seq(S), s # <<>>,
         IsPrefix(Front(s), t), IsPrefix(t, s)
  PROVE  t = Front(s) \/ t = s
<1>1. PICK l \in Nat, k \in Nat : l = Len(s) /\ k = Len(t) /\ l >= 1
  OBVIOUS
<1>2. PICK front : front = SubSeq(s, 1, l - 1)
  OBVIOUS
<1>3. front = Front(s)
  BY <1>1, <1>2 DEF Front
<1>4. front \in Seq(S) /\ Len(front) = l - 1 /\ \A i \in 1 .. l - 1 : front[i] = s[i]
  BY <1>1, <1>2
<1>5. l - 1 <= k /\ k <= l
  BY <1>1, <1>3, <1>4 DEF IsPrefix
<1>6. \A i \in 1 .. k : t[i] = s[i]
  <2>1. SubSeq(t, 1, k) = SubSeq(s, 1, k)
    BY <1>1 DEF IsPrefix
  <2>2. \A i \in 1 .. k : SubSeq(t, 1, k)[i] = t[i] /\ SubSeq(s, 1, k)[i] = s[i]
    BY <1>1, <1>5
  <2>3. QED
    BY <2>1, <2>2
<1>7. \A a, b \in Seq(S) : Len(a) = Len(b) /\ (\A i \in 1 .. Len(a) : a[i] = b[i]) => a = b
  OBVIOUS
<1>8. CASE k = l
  BY <1>1, <1>6, <1>7, <1>8
<1>9. CASE k = l - 1
  <2>1. Len(t) = Len(front) /\ \A i \in 1 .. Len(t) : t[i] = front[i]
    BY <1>1, <1>4, <1>6, <1>9
  <2>2. QED
    BY <1>3, <1>4, <1>7, <2>1
<1>10. QED
  BY <1>1, <1>5, <1>8, <1>9

\* The first handshake of a conversation is a welcome.
LEMMA WelcomedFirst ==
  ASSUME NEW n, NEW log \in Seq(Handshakes), NEW supply, LogOK(n, log, supply),
         NEW p \in 1 .. Len(log)
  PROVE  \E q \in 1 .. p : log[q].conv = log[p].conv /\ log[q].kind = "welcome"
<1> DEFINE c == log[p].conv
<1> DEFINE S == {q \in 1 .. p : log[q].conv = c}
<1>1. S \subseteq Nat /\ p \in S
  OBVIOUS
<1>2. PICK q \in S : \A k \in S : q <= k
  <2> HIDE DEF S
  <2>1. QED
    BY <1>1, LeastNatural
<1>3. q \in 1 .. p /\ q \in 1 .. Len(log) /\ log[q].conv = c
  BY <1>2
<1>4. FollowsUp(n, log, q, supply)
  BY <1>3 DEF LogOK
<1>5. ASSUME log[q].kind # "welcome" PROVE FALSE
  <2>1. PICK k \in 1 .. q - 1 : log[k].conv = c
    BY <1>3, <1>4, <1>5 DEF FollowsUp
  <2>2. k \in S /\ ~(q <= k)
    BY <1>3, <2>1
  <2>3. QED
    BY <1>2, <2>2
<1>6. QED
  BY <1>3, <1>5

\* A handshake that was applied long ago, but is not remembered.
LEMMA PastFrontier ==
  ASSUME NEW n, NEW m \in States, NEW log \in Seq(Handshakes), Applies(n, m, log),
         NEW u \in 1 .. Len(log), u > m.cursor, u \notin Range(m.processed),
         u <= Frontier(m)
  PROVE  Cardinality({s \in DOMAIN log : s > m.cursor /\ Reflects(m, log[s])}) > Remembered
<1>1. PICK f \in Nat, l \in Nat, t \in Nat, cursor \in Nat, limit \in Nat :
        f = Frontier(m) /\ l = Len(log) /\ t = Len(m.processed) /\ cursor = m.cursor
        /\ limit = Remembered /\ u <= f /\ f <= l /\ u > cursor
  BY FrontierTyped, RememberedAssumption DEF States, Applies
<1>2. \A k \in 1 .. t : m.processed[k] = f - t + k /\ m.processed[k] \in Range(m.processed)
  <2>1. DOMAIN m.processed = 1 .. t
    BY <1>1 DEF States
  <2>2. QED
    BY <1>1, <2>1 DEF Applies, Range
<1>3. u <= f - t
  <2> SUFFICES ASSUME ~(u <= f - t) PROVE FALSE
    OBVIOUS
  <2>1. u - f + t \in 1 .. t
    BY <1>1
  <2>2. m.processed[u - f + t] = u
    BY <1>1, <1>2, <2>1
  <2>3. QED
    BY <1>2, <2>1, <2>2
<1>4. t = limit
  BY <1>1, <1>3 DEF Applies
<1> DEFINE T == {s \in 1 .. l : s > cursor /\ Reflects(m, log[s])}
<1>5. u .. f \subseteq T
  <2>1. \A s \in u .. f : s \in 1 .. l /\ s > cursor /\ s \in 1 .. f
    BY <1>1
  <2>2. \A s \in 1 .. f : Reflects(m, log[s])
    BY <1>1 DEF Applies
  <2>3. QED
    BY <2>1, <2>2
<1>6. IsFiniteSet(1 .. l) /\ T \subseteq 1 .. l
  BY FS_Interval
<1>7. T = {s \in DOMAIN log : s > m.cursor /\ Reflects(m, log[s])}
  BY <1>1
<1> HIDE DEF T
<1>8. IsFiniteSet(T)
  BY <1>6, FS_Subset
<1>9. Cardinality(u .. f) <= Cardinality(T) /\ Cardinality(T) \in Nat
  BY <1>5, <1>8, FS_Subset, FS_CardinalityType
<1>10. Cardinality(u .. f) = f - u + 1
  BY <1>1, FS_Interval
<1>11. f - u + 1 > limit
  BY <1>1, <1>3, <1>4
<1>12. PICK card \in Nat : card = Cardinality(T)
  BY <1>9
<1>13. card > limit
  BY <1>1, <1>9, <1>10, <1>11, <1>12
<1>14. QED
  BY <1>1, <1>7, <1>12, <1>13

\* The handshake behind the frontier fits, or it is one of those that cannot.
LEMMA NextFits ==
  ASSUME NEW n \in Installations, NEW m \in States, NEW log \in Seq(Handshakes),
         Applies(n, m, log), NEW supply, LogOK(n, log, supply),
         \A x : x \in supply[n] => Had(m, log, x),
         \A p \in 1 .. Len(log) : /\ log[p].to = n /\ CreatorOf[log[p].conv] = log[p].from
                                  /\ log[p].from # n,
         NEW u \in 1 .. Len(log), u = Frontier(m) + 1
  PROVE  \/ Fits(m, log[u])
         \/ \E s, t \in 1 .. Len(log) : s < t /\ log[s] = log[t]
         \/ \E s, t \in 1 .. Len(log) :
              /\ s < t /\ log[s].kind = "welcome" /\ log[t].kind = "welcome"
              /\ \/ log[s].conv = log[t].conv
                 \/ Last(log[s].line).package = Last(log[t].line).package
<1>1. PICK f \in Nat, l \in Nat : f = Frontier(m) /\ l = Len(log) /\ u = f + 1 /\ f < l
  BY FrontierTyped DEF Applies
<1>2. PICK e \in Handshakes, c \in Conversations : e = log[u] /\ c = e.conv /\ CreatorOf[c] # n
  <2>1. PICK e \in Handshakes : e = log[u]
    OBVIOUS
  <2>2. e.conv \in Conversations /\ CreatorOf[e.conv] # n
    BY <2>1 DEF Handshakes
  <2>3. QED
    BY <2>1, <2>2
<1>3. PICK g : g = m.groups[c]
  OBVIOUS
<1>4. FollowsUp(n, log, u, supply)
  BY DEF LogOK
<1>5. g # None => \E p \in 1 .. f : Follows(m, log, c, p)
  BY <1>1, <1>2, <1>3 DEF Applies
<1>6. \A p \in 1 .. f : p \in 1 .. l /\ p < u
  BY <1>1
<1>7. \A p \in 1 .. Len(log) : \E q \in 1 .. p :
        log[q].conv = log[p].conv /\ log[q].kind = "welcome"
  BY WelcomedFirst
<1>8. CASE e.kind = "welcome"
  <2>1. PICK x : x = Last(e.line).package
    BY Zenon
  <2>2. Had(m, log, x)
    BY <1>2, <1>4, <1>8, <2>1 DEF FollowsUp
  <2>3. CASE g = None /\ x \in m.packages
    BY <1>2, <1>3, <1>8, <2>1, <2>3 DEF Fits
  <2>4. CASE g # None
    <3>1. PICK p \in 1 .. f : log[p].conv = c
      BY <1>5, <2>4 DEF Follows
    <3>2. PICK q \in 1 .. p : log[q].conv = c /\ log[q].kind = "welcome"
      BY <1>1, <1>6, <1>7, <3>1
    <3>3. q \in 1 .. f
      BY <3>1, <3>2
    <3>4. QED
      BY <1>1, <1>2, <1>6, <1>8, <3>2, <3>3
  <2>5. CASE x \notin m.packages
    <3>1. PICK p \in 1 .. f : log[p].kind = "welcome" /\ Last(log[p].line).package = x
      BY <1>1, <2>2, <2>5 DEF Had, Joined
    <3>2. QED
      BY <1>1, <1>2, <1>6, <1>8, <2>1, <3>1
  <2>6. QED
    BY <2>3, <2>4, <2>5
<1>9. CASE e.kind # "welcome"
  <2>1. PICK q \in 1 .. f : log[q].conv = c /\ log[q].line = Front(e.line)
    <3>1. \A k \in 1 .. u - 1 : k \in 1 .. f
      BY <1>1
    <3>2. QED
      BY <1>2, <1>4, <1>9, <3>1 DEF FollowsUp
  <2>2. g # None
    BY <1>1, <1>3, <2>1 DEF Applies, Reflects
  <2>3. PICK p \in 1 .. f : Follows(m, log, c, p)
    BY <1>5, <2>2
  <2>4. log[p].conv = c /\ g.line = log[p].line
    BY <1>3, <2>3 DEF Follows
  <2>5. PICK d \in Handshakes : d = log[p]
    BY <1>1, <1>6
  <2>6. IsPrefix(Front(e.line), d.line)
    <3>1. q < p \/ q = p
      <4>1. ~(q \in p + 1 .. f)
        BY <1>1, <2>1, <2>3 DEF Follows
      <4>2. QED
        BY <4>1
    <3>2. CASE q < p
      BY <1>1, <1>6, <2>1, <2>4, <2>5, <3>2 DEF LogOK
    <3>3. CASE q = p
      BY <2>1, <2>5, <3>3, PrefixOrder DEF Handshakes
    <3>4. QED
      BY <3>1, <3>2, <3>3
  <2>7. IsPrefix(d.line, e.line)
    BY <1>1, <1>2, <1>6, <2>4, <2>5 DEF LogOK
  <2>8. d.line = Front(e.line) \/ d.line = e.line
    BY <2>6, <2>7, BetweenPrefixes DEF Handshakes
  <2>9. CASE d.line = Front(e.line)
    BY <1>2, <1>3, <1>9, <2>2, <2>4, <2>5, <2>9 DEF Fits
  <2>10. CASE d.line = e.line
    <3>1. d.kind # "welcome"
      <4>1. FollowsUp(n, log, p, supply)
        BY <1>1, <1>6 DEF LogOK
      <4>2. ~(Last(e.line).type = "add" /\ Last(e.line).member = n)
        BY <1>2, <1>4, <1>9 DEF FollowsUp
      <4>3. QED
        BY <2>5, <2>10, <4>1, <4>2 DEF FollowsUp
    <3>2. d.conv = e.conv /\ d.to = e.to /\ d.from = e.from
      BY <1>1, <1>2, <1>6, <2>4, <2>5
    <3>3. d = e
      <4>1. \A h \in Handshakes :
              /\ h.kind # "welcome" => h.kind = "commit"
              /\ h = [conv |-> h.conv, kind |-> h.kind, from |-> h.from, to |-> h.to,
                      line |-> h.line]
        BY DEF Handshakes
      <4>2. d.kind = e.kind
        BY <1>9, <3>1, <4>1
      <4>3. QED
        BY <2>10, <3>2, <4>1, <4>2
    <3>4. QED
      BY <1>1, <1>2, <1>6, <2>5, <3>3
  <2>11. QED
    BY <2>8, <2>9, <2>10
<1>10. QED
  BY <1>8, <1>9

LEMMA CalmGetsOn ==
  ASSUME RelayInv, SyncInv, NEW n \in Installations
  PROVE  \/ Unprocessed(n) = {} \/ Fits(Saved(n), inbox[n][Min(Unprocessed(n))])
         \/ Resent(n) \/ Forgotten(n) \/ Readmitted(n) \/ PackageReused(n)
<1> SUFFICES ASSUME Unprocessed(n) # {}
             PROVE  \/ Fits(Saved(n), inbox[n][Min(Unprocessed(n))])
                    \/ Resent(n) \/ Forgotten(n) \/ Readmitted(n) \/ PackageReused(n)
  OBVIOUS
<1>0. PICK supply : supply = Supply
  OBVIOUS
<1>1. PICK log \in Seq(Handshakes), m \in States : log = inbox[n] /\ m = Saved(n)
  BY DEF RelayInv, Stores, MailOK, StateOK
<1>2. DOMAIN log = 1 .. Len(log)
  OBVIOUS
<1>3. Applies(n, m, log) /\ LogOK(n, log, supply)
  BY <1>0, <1>1 DEF SyncInv, StoredGood, Good
<1>4. \A x : x \in supply[n] => Had(m, log, x)
  BY <1>0, <1>1 DEF Supply
<1>5. \A p \in 1 .. Len(log) : /\ log[p].to = n /\ CreatorOf[log[p].conv] = log[p].from
                               /\ log[p].from # n
  BY <1>1 DEF RelayInv, Stores, MailOK
<1>6. PICK U : U = Unprocessed(n)
  OBVIOUS
<1>7. U = {s \in 1 .. Len(log) : s > m.cursor /\ s \notin Range(m.processed)}
  BY <1>1, <1>2, <1>6 DEF Unprocessed
<1>8. PICK u \in U : u = Min(U) /\ \A s \in U : u <= s
  <2>1. U \subseteq Nat /\ U # {}
    BY <1>6, <1>7
  <2>2. QED
    BY <2>1, MinOfBatch
<1>9. u \in 1 .. Len(log) /\ u > m.cursor /\ u \notin Range(m.processed)
  BY <1>7
<1>10. CASE u <= Frontier(m)
  <2>1. Cardinality({s \in DOMAIN log : s > m.cursor /\ Reflects(m, log[s])}) > Remembered
    BY <1>3, <1>9, <1>10, PastFrontier
  <2>2. QED
    BY <1>1, <2>1 DEF Forgotten
<1>11. CASE ~(u <= Frontier(m))
  <2>1. PICK f \in Nat, l \in Nat :
          f = Frontier(m) /\ l = Len(log) /\ f < u /\ m.cursor <= f /\ m.cursor \in Nat
    <3>1. Frontier(m) \in Nat /\ Len(log) \in Nat /\ m.cursor \in Nat
      BY FrontierTyped DEF States
    <3>2. m.cursor <= Frontier(m) /\ Frontier(m) < u
      BY <1>3, <1>9, <1>11, <3>1 DEF Applies
    <3>3. QED
      BY <3>1, <3>2
  <2>2. f + 1 \notin Range(m.processed)
    <3> SUFFICES ASSUME NEW k \in DOMAIN m.processed, m.processed[k] = f + 1 PROVE FALSE
      BY DEF Range
    <3>1. k \in 1 .. Len(m.processed) /\ Len(m.processed) \in Nat
      BY DEF States
    <3>2. m.processed[k] = f - Len(m.processed) + k
      BY <1>3, <2>1 DEF Applies
    <3>3. QED
      BY <3>1, <3>2
  <2>3. u = f + 1
    <3>1. f + 1 \in 1 .. Len(log) /\ f + 1 > m.cursor
      BY <1>9, <2>1
    <3>2. f + 1 \in U
      BY <1>7, <2>2, <3>1
    <3>3. QED
      BY <1>8, <1>9, <2>1, <3>2
  <2>4. \/ Fits(m, log[u])
        \/ \E s, t \in 1 .. Len(log) : s < t /\ log[s] = log[t]
        \/ \E s, t \in 1 .. Len(log) :
             /\ s < t /\ log[s].kind = "welcome" /\ log[t].kind = "welcome"
             /\ \/ log[s].conv = log[t].conv
                \/ Last(log[s].line).package = Last(log[t].line).package
    BY <1>3, <1>4, <1>5, <1>9, <2>1, <2>3, NextFits
  <2>5. CASE Fits(m, log[u])
    BY <1>1, <1>6, <1>8, <2>5
  <2>6. CASE \E s, t \in 1 .. Len(log) : s < t /\ log[s] = log[t]
    BY <1>1, <1>2, <2>6 DEF Resent
  <2>7. CASE \E s, t \in 1 .. Len(log) :
               /\ s < t /\ log[s].kind = "welcome" /\ log[t].kind = "welcome"
               /\ \/ log[s].conv = log[t].conv
                  \/ Last(log[s].line).package = Last(log[t].line).package
    BY <1>1, <1>2, <2>7 DEF Readmitted, PackageReused, Welcomes
  <2>8. QED
    BY <2>4, <2>5, <2>6, <2>7
<1>12. QED
  BY <1>10, <1>11

\* The first handshake that a stored checkpoint has yet to process can be processed,
\* unless a batch was published again, more was processed behind the cursor than a
\* checkpoint remembers, a member came back, or a KeyPackage was used twice: tabs
\* that go away, and requests and answers that are lost, at any step of a
\* publication, a merge or a sync (finishPendingCommit in provider.ts, sync in
\* handshake-sync.ts) leave no installation with a handshake it can never get past.
THEOREM SyncsGetOn == Spec => []SyncGetsOn
<1>1. Init => (Calm => SyncInv)
  BY SyncInit
<1>2. (RelayInv /\ KeyInv) /\ (Calm => SyncInv) /\ [Next]_vars => (Calm => SyncInv)'
  BY SyncStep
<1>3. RelayInv /\ (Calm => SyncInv) => SyncGetsOn
  BY CalmGetsOn DEF SyncGetsOn, Calm
<1>4. QED
  BY <1>1, <1>2, <1>3, RelayInvAlways, PTL DEF Spec
=============================================================================
