-------------------------- MODULE RelayMessaging_proofs --------------------------
(***************************************************************************)
(* Theorems of RelayMessaging.  A checkpoint is encrypted under a key that *)
(* its installation generates once, in one transaction, and that a save    *)
(* reads, uses and puts in another: CheckpointReadable says that they fit  *)
(* all the same, wherever a tab goes away, and that the race for the first *)
(* key is the only way they cease to.                                      *)
(***************************************************************************)
EXTENDS RelayMessaging, TLAPS

-----------------------------------------------------------------------------
\* The inductive invariant

Fields == {"home", "page", "mem", "cursor", "op", "pc", "conv", "peer", "package",
           "target", "own", "batch", "next"}

\* What the variables are functions of, as far as the steps below need it.
Shape ==
  /\ keys \in [Installations -> Runtimes \cup {None}]
  /\ DOMAIN checkpoints = Installations /\ DOMAIN suffered = Installations
  /\ DOMAIN io = Runtimes /\ DOMAIN rt = Runtimes
  /\ \A r \in Runtimes : DOMAIN rt[r] = Fields
  /\ \A r \in Runtimes : Running(r) => Home(r) \in Installations

\* A runtime without an operation has nothing to load or to save, and so does
\* one that is over: none of its transactions outlives it.
Settled ==
  \A r \in Runtimes :
    /\ ~Running(r) => rt[r].op = "none"
    /\ rt[r].op = "none" => rt[r].pc = "none" /\ io[r].at = "idle"

\* What r has found out about the key of n while it saves is still so.
Informed(r, n) ==
  /\ io[r].at = "generate" => keys[n] = None
  /\ io[r].at = "put" => keys[n] # None /\ io[r].key = keys[n]

\* Until an installation has its key, one runtime at most can generate it.
Alone(n) ==
  keys[n] = None =>
    \A r, s \in Runtimes : Running(r) /\ Running(s) /\ Home(r) = n /\ Home(s) = n => r = s

KeyInOrder(n) ==
  /\ Readable(n)
  /\ Alone(n)
  /\ \A r \in Runtimes : Running(r) /\ Home(r) = n => Informed(r, n)

NoRaceLost == \A n \in Installations : "race" \notin suffered[n] => KeyInOrder(n)

KeyInv == Shape /\ Settled /\ NoRaceLost

-----------------------------------------------------------------------------
\* The states of a runtime

\* What every step leaves of r: the runtime it was, unless its operation is over.
Kept(r, new) ==
  /\ DOMAIN new = Fields /\ new.home = Home(r)
  /\ new.page \in {"open", "left"} => Running(r)
  /\ new.page \notin {"open", "left"} => new.op = "none"
  /\ new.op = "none" => new.pc = "none"

\* The operation goes on.
GoesOn(r, new) == Kept(r, new) /\ new.op = rt[r].op

\* A new record of a runtime.
LEMMA RuntimeFields ==
  ASSUME NEW n, NEW page
  PROVE  /\ DOMAIN Runtime(n, page) = Fields
         /\ Runtime(n, page).home = n /\ Runtime(n, page).page = page
         /\ Runtime(n, page).op = "none" /\ Runtime(n, page).pc = "none"
BY DEF Runtime, Fields

\* An operation that ends leaves its runtime without one.
LEMMA RestKept ==
  ASSUME NEW r \in Runtimes, Running(r), NEW cursor
  PROVE  Kept(r, Rest(r, cursor)) /\ Rest(r, cursor).op = "none"
<1>1. Kept(r, Gone(r)) /\ Gone(r).op = "none"
  BY RuntimeFields DEF Gone, Kept
<1>2. CASE rt[r].page = "left"
  BY <1>1, <1>2 DEF Rest
<1>3. CASE rt[r].page # "left"
  <2> DEFINE fresh == Runtime(Home(r), "open")
             new == [fresh EXCEPT !.mem = rt[r].mem, !.cursor = cursor]
  <2>1. DOMAIN fresh = Fields /\ fresh.home = Home(r) /\ fresh.page = "open"
        /\ fresh.op = "none" /\ fresh.pc = "none"
    BY RuntimeFields
  <2> HIDE DEF fresh
  <2>2. DOMAIN new = Fields /\ new.home = Home(r) /\ new.page = "open"
        /\ new.op = "none" /\ new.pc = "none"
    BY <2>1 DEF Fields
  <2>3. Rest(r, cursor) = new
    BY <1>3 DEF Rest, fresh
  <2>4. QED
    BY <2>2, <2>3 DEF Kept
<1>4. QED
  BY <1>2, <1>3

\* recoverPendingWork changes what is done next, and nothing else.
LEMMA RecoveringKeeps ==
  ASSUME NEW s, DOMAIN s = Fields
  PROVE  /\ DOMAIN Recovering(s) = Fields
         /\ Recovering(s).home = s.home /\ Recovering(s).page = s.page
         /\ Recovering(s).op = s.op
<1>1. \A pc, target : LET new == [s EXCEPT !.pc = pc, !.target = target]
                      IN  /\ DOMAIN new = Fields /\ new.home = s.home
                          /\ new.page = s.page /\ new.op = s.op
  BY DEF Fields
<1>2. \E pc, target : Recovering(s) = [s EXCEPT !.pc = pc, !.target = target]
  BY DEF Recovering
<1>3. QED
  BY <1>1, <1>2

-----------------------------------------------------------------------------
\* The steps that leave the store alone

\* Only r moves, the store stays, and what r had found out is unchanged or of no
\* use to what it does now.
Moves(r) ==
  /\ DOMAIN rt' = Runtimes /\ DOMAIN io' = Runtimes
  /\ \A s \in Runtimes \ {r} : rt'[s] = rt[s] /\ io'[s] = io[s]
  /\ io'[r] = io[r] \/ io'[r].at \notin {"generate", "put"}
  /\ store' = store
  /\ DOMAIN suffered' = Installations
  /\ \A n \in Installations : suffered[n] \subseteq suffered'[n]

LEMMA MovesKeepKeys ==
  ASSUME KeyInv, NEW r \in Runtimes, Moves(r), Kept(r, rt'[r]),
         rt'[r].op = "none" => io'[r].at = "idle"
  PROVE  KeyInv'
<1>1. DOMAIN rt' = Runtimes /\ \A s \in Runtimes \ {r} : rt'[s] = rt[s]
  BY DEF Moves, KeyInv, Shape
<1>2. \A s \in Runtimes : Running(s)' => Running(s) /\ Home(s)' = Home(s)
  BY <1>1 DEF Kept, Running, Home
<1>3. Shape'
  BY <1>1, <1>2 DEF Moves, Kept, KeyInv, Shape, store
<1>4. Settled'
  <2> SUFFICES ASSUME NEW s \in Runtimes
               PROVE  /\ ~Running(s)' => rt'[s].op = "none"
                      /\ rt'[s].op = "none" => rt'[s].pc = "none" /\ io'[s].at = "idle"
    BY DEF Settled, Running
  <2>1. CASE s = r
    BY <2>1 DEF Kept, Running
  <2>2. CASE s # r
    BY <1>1, <2>2 DEF Moves, KeyInv, Settled, Running
  <2>3. QED
    BY <2>1, <2>2
<1>5. NoRaceLost'
  <2> SUFFICES ASSUME NEW n \in Installations, "race" \notin suffered'[n]
               PROVE  KeyInOrder(n)'
    BY DEF NoRaceLost
  <2>1. KeyInOrder(n)
    BY DEF Moves, KeyInv, NoRaceLost
  <2>2. Readable(n)'
    BY <2>1 DEF KeyInOrder, Readable, Moves, store, Opens
  <2>3. Alone(n)'
    BY <1>2, <2>1 DEF KeyInOrder, Alone, Moves, store
  <2>4. ASSUME NEW s \in Runtimes, Running(s)', Home(s)' = n
        PROVE  Informed(s, n)'
    <3>1. Informed(s, n)
      BY <1>2, <2>1, <2>4 DEF KeyInOrder
    <3>2. QED
      BY <3>1 DEF Informed, Moves, store
  <2>5. QED
    BY <2>2, <2>3, <2>4 DEF KeyInOrder
<1>6. QED
  BY <1>3, <1>4, <1>5 DEF KeyInv

\* A step of r that gives it the state `new` and, at most, begins a load or a
\* save, or gives one up.
LEMMA StepKeepsKeys ==
  ASSUME KeyInv, NEW r \in Runtimes, NEW new, Step(r, new), Kept(r, new),
         io' = io \/ (io' = [io EXCEPT ![r] = io'[r]] /\ io'[r].at \notin {"generate", "put"}),
         new.op = "none" => io'[r].at = "idle",
         store' = store, suffered' = suffered
  PROVE  KeyInv'
<1>1. DOMAIN rt = Runtimes /\ DOMAIN io = Runtimes /\ DOMAIN suffered = Installations
  BY DEF KeyInv, Shape
<1>2. rt'[r] = new /\ DOMAIN rt' = Runtimes /\ \A s \in Runtimes \ {r} : rt'[s] = rt[s]
  BY <1>1 DEF Step
<1>3. /\ DOMAIN io' = Runtimes /\ \A s \in Runtimes \ {r} : io'[s] = io[s]
      /\ io'[r] = io[r] \/ io'[r].at \notin {"generate", "put"}
  <2>1. CASE io' = io
    BY <1>1, <2>1
  <2>2. CASE io' = [io EXCEPT ![r] = io'[r]] /\ io'[r].at \notin {"generate", "put"}
    BY <1>1, <2>2
  <2>3. QED
    BY <2>1, <2>2
<1>4. Moves(r)
  BY <1>1, <1>2, <1>3 DEF Moves
<1>5. QED
  BY <1>2, <1>4, MovesKeepKeys

\* The same, when the operation goes on: an operation at a step has begun.
LEMMA OperationKeepsKeys ==
  ASSUME KeyInv, NEW r \in Runtimes, NEW new, GoesOn(r, new),
         rt[r].op # "none",
         \/ Step(r, new) /\ UNCHANGED io
         \/ Save(r, new)
         \/ Step(r, new) /\ io' = [io EXCEPT ![r] = NoIO],
         store' = store, suffered' = suffered
  PROVE  KeyInv'
<1>1. Step(r, new) /\ Kept(r, new) /\ new.op # "none"
  BY DEF GoesOn, Save
<1>2. io' = io \/ (io' = [io EXCEPT ![r] = io'[r]] /\ io'[r].at \notin {"generate", "put"})
  BY DEF Save, BeginSave, SetIO, NoIO, KeyInv, Shape
<1>3. QED
  BY <1>1, <1>2, StepKeepsKeys

\* The same, when the operation ends, having nothing to save.
LEMMA EndKeepsKeys ==
  ASSUME KeyInv, NEW r \in Runtimes, Running(r), NEW cursor,
         Step(r, Gone(r)) \/ Step(r, Rest(r, cursor)),
         (io' = io /\ io[r].at = "idle") \/ io' = [io EXCEPT ![r] = NoIO],
         store' = store, suffered' = suffered
  PROVE  KeyInv'
<1>1. \A new \in {Gone(r), Rest(r, cursor)} : Kept(r, new) /\ new.op = "none"
  BY RestKept, RuntimeFields DEF Gone, Kept
<1>2. io'[r].at = "idle"
  BY DEF NoIO, KeyInv, Shape
<1>3. io' = io \/ (io' = [io EXCEPT ![r] = io'[r]] /\ io'[r].at \notin {"generate", "put"})
  BY DEF NoIO, KeyInv, Shape
<1>4. QED
  BY <1>1, <1>2, <1>3, StepKeepsKeys

LEMMA AbortKeepsKeys ==
  ASSUME KeyInv, NEW r \in Runtimes, Running(r), Abort(r),
         (io' = io /\ io[r].at = "idle") \/ io' = [io EXCEPT ![r] = NoIO],
         store' = store, suffered' = suffered
  PROVE  KeyInv'
BY EndKeepsKeys DEF Abort

\* Who is at a step of an operation runs, and has one.
LEMMA AtWork ==
  ASSUME KeyInv, NEW r \in Runtimes, NEW pc, At(r, pc), pc # "none"
  PROVE  /\ Running(r) /\ rt[r].op # "none" /\ io[r].at = "idle"
         /\ DOMAIN rt[r] = Fields /\ rt[r].page \in {"open", "left"}
BY DEF At, KeyInv, Settled, Shape, Running

-----------------------------------------------------------------------------
\* The actions of pages and operations

LEMMA LeaveKeepsKeys ==
  ASSUME KeyInv, NEW r \in Runtimes, Leave(r)
  PROVE  KeyInv'
<1>1. Running(r) /\ DOMAIN rt[r] = Fields
  BY DEF Leave, Running, KeyInv, Shape
<1>2. CASE rt[r].op = "none"
  <2>1. io[r].at = "idle" /\ Step(r, Gone(r)) /\ UNCHANGED <<store, io, suffered>>
    BY <1>2 DEF Leave, KeyInv, Settled
  <2>2. QED
    BY <1>1, <2>1, EndKeepsKeys
<1>3. CASE rt[r].op # "none"
  <2> DEFINE new == [rt[r] EXCEPT !.page = "left"]
  <2>1. GoesOn(r, new)
    BY <1>1, <1>3 DEF GoesOn, Kept, Home, Fields
  <2>2. Step(r, new) /\ UNCHANGED <<store, io, suffered>>
    BY <1>3 DEF Leave
  <2> HIDE DEF new
  <2>3. QED
    BY <1>3, <2>1, <2>2, OperationKeepsKeys
<1>4. QED
  BY <1>2, <1>3

LEMMA AskKeepsKeys ==
  ASSUME KeyInv, NEW r \in Runtimes, AskOf(r)
  PROVE  KeyInv'
<1>1. PICK op \in {"sync", "create", "add", "remove"} : \E c, m : Ask(r, op, c, m)
  BY DEF AskOf
<1>0. PICK c, m : Ask(r, op, c, m)
  BY <1>1
<1> DEFINE s == [rt[r] EXCEPT !.op = op, !.conv = c, !.peer = m]
           new == IF op = "remove" THEN [s EXCEPT !.pc = "prepare"] ELSE Recovering(s)
<1>2. Running(r) /\ rt[r].page \in {"open", "left"} /\ DOMAIN rt[r] = Fields /\ rt[r].op = "none"
  BY <1>0 DEF Ask, Running, KeyInv, Shape
<1>3. DOMAIN s = Fields /\ s.home = Home(r) /\ s.page = rt[r].page /\ s.op = op
  BY <1>2 DEF Fields, Home
<1>4. Step(r, new) /\ UNCHANGED <<store, io, suffered>>
  BY <1>0 DEF Ask
<1> HIDE DEF s
<1>5. DOMAIN new = Fields /\ new.home = Home(r) /\ new.page = rt[r].page /\ new.op = op
  <2>1. CASE op = "remove"
    BY <1>3, <2>1 DEF Fields
  <2>2. CASE op # "remove"
    BY <1>3, <2>2, RecoveringKeeps
  <2>3. QED
    BY <2>1, <2>2
<1> HIDE DEF new
<1>6. Kept(r, new)
  BY <1>2, <1>5 DEF Kept
<1>7. QED
  BY <1>4, <1>5, <1>6, StepKeepsKeys

LEMMA InitializeKeepsKeys ==
  ASSUME KeyInv, NEW r \in Runtimes, Initialize(r)
  PROVE  KeyInv'
<1>1. /\ Running(r) /\ rt[r].op # "none" /\ DOMAIN rt[r] = Fields
      /\ rt[r].page \in {"open", "left"}
      /\ UNCHANGED <<store, suffered>>
  BY DEF Initialize, Running, KeyInv, Settled, Shape
<1>2. CASE ~LoadSucceeds(r, Home(r))
  BY <1>1, <1>2, AbortKeepsKeys DEF Initialize
<1>3. CASE LoadSucceeds(r, Home(r)) /\ io[r].data = None
  <2> DEFINE new == [rt[r] EXCEPT !.pc = "package"]
  <2>1. GoesOn(r, new)
    BY <1>1 DEF GoesOn, Kept, Home, Fields
  <2>2. Save(r, new)
    BY <1>3 DEF Initialize
  <2> HIDE DEF new
  <2>3. QED
    BY <1>1, <2>1, <2>2, OperationKeepsKeys
<1>4. CASE LoadSucceeds(r, Home(r)) /\ io[r].data # None
  <2> DEFINE found == io[r].data
             s == [rt[r] EXCEPT !.mem = found.data, !.cursor = found.data.cursor]
  <2>1. DOMAIN s = Fields /\ s.home = Home(r) /\ s.page = rt[r].page /\ s.op = rt[r].op
    BY <1>1 DEF Home, Fields
  <2>2. Step(r, Recovering(s)) /\ io' = [io EXCEPT ![r] = NoIO]
    BY <1>4 DEF Initialize
  <2> HIDE DEF s
  <2>3. GoesOn(r, Recovering(s))
    BY <1>1, <2>1, RecoveringKeeps DEF GoesOn, Kept
  <2>4. QED
    BY <1>1, <2>2, <2>3, OperationKeepsKeys
<1>5. QED
  BY <1>2, <1>3, <1>4

\* What a step of an operation changes of its runtime: not its home, its page or
\* its operation.
LEMMA SamePage ==
  ASSUME NEW r \in Runtimes, DOMAIN rt[r] = Fields, rt[r].page \in {"open", "left"},
         rt[r].op # "none",
         NEW new, DOMAIN new = Fields, new.home = rt[r].home, new.page = rt[r].page,
         new.op = rt[r].op
  PROVE  GoesOn(r, new)
BY DEF GoesOn, Kept, Running, Home

LEMMA SetGroupKeeps ==
  ASSUME NEW r \in Runtimes, DOMAIN rt[r] = Fields, NEW c, NEW group
  PROVE  LET new == SetGroup(r, c, group)
         IN  /\ DOMAIN new = Fields /\ new.home = rt[r].home
             /\ new.page = rt[r].page /\ new.op = rt[r].op
BY DEF SetGroup, Fields

LEMMA CreateKeepsKeys ==
  ASSUME KeyInv, NEW r \in Runtimes, CreateKeyPackage(r) \/ CreateGroup(r)
  PROVE  KeyInv'
<1>1. /\ Running(r) /\ rt[r].op # "none" /\ io[r].at = "idle"
      /\ DOMAIN rt[r] = Fields /\ rt[r].page \in {"open", "left"}
      /\ UNCHANGED <<store, suffered>>
  BY AtWork DEF CreateKeyPackage, CreateGroup
<1>2. CASE CreateKeyPackage(r)
  <2> DEFINE new == [rt[r] EXCEPT !.pc = "announce", !.mem.packages = @ \cup {r}]
  <2>1. DOMAIN new = Fields /\ new.home = rt[r].home /\ new.page = rt[r].page /\ new.op = rt[r].op
    BY <1>1 DEF Fields
  <2>2. Save(r, new)
    BY <1>2 DEF CreateKeyPackage
  <2> HIDE DEF new
  <2>3. QED
    BY <1>1, <2>1, <2>2, SamePage, OperationKeepsKeys
<1>3. CASE CreateGroup(r) /\ Group(r, rt[r].conv) # None
  BY <1>1, <1>3, AbortKeepsKeys DEF CreateGroup
<1>4. CASE CreateGroup(r) /\ Group(r, rt[r].conv) = None
  <2> DEFINE with == SetGroup(r, rt[r].conv, NewGroup(Home(r)))
             new == [with EXCEPT !.pc = "done"]
  <2>1. DOMAIN with = Fields /\ with.home = rt[r].home /\ with.page = rt[r].page /\ with.op = rt[r].op
    BY <1>1, SetGroupKeeps
  <2>2. Save(r, new)
    BY <1>4 DEF CreateGroup
  <2> HIDE DEF with
  <2>3. DOMAIN new = Fields /\ new.home = rt[r].home /\ new.page = rt[r].page /\ new.op = rt[r].op
    BY <2>1 DEF Fields
  <2> HIDE DEF new
  <2>4. QED
    BY <1>1, <2>2, <2>3, SamePage, OperationKeepsKeys
<1>5. QED
  BY <1>2, <1>3, <1>4

LEMMA PrepareKeepsKeys ==
  ASSUME KeyInv, NEW r \in Runtimes, Prepare(r)
  PROVE  KeyInv'
<1>1. /\ Running(r) /\ rt[r].op # "none" /\ io[r].at = "idle"
      /\ DOMAIN rt[r] = Fields /\ rt[r].page \in {"open", "left"}
      /\ UNCHANGED <<store, suffered>>
  BY AtWork DEF Prepare
<1>2. CASE ~MayPrepare(r)
  BY <1>1, <1>2, AbortKeepsKeys DEF Prepare
<1>3. CASE MayPrepare(r)
  <2> DEFINE c == rt[r].conv
             commit == [by |-> r, type |-> rt[r].op, member |-> rt[r].peer, package |-> rt[r].package]
             with == SetGroup(r, c, [Group(r, c) EXCEPT !.pending = commit])
             new == [with EXCEPT !.pc = "publish", !.target = c, !.own = TRUE]
  <2>1. DOMAIN with = Fields /\ with.home = rt[r].home /\ with.page = rt[r].page /\ with.op = rt[r].op
    BY <1>1, SetGroupKeeps
  <2>2. Save(r, new)
    BY <1>3 DEF Prepare, Prepared
  <2> HIDE DEF with
  <2>3. DOMAIN new = Fields /\ new.home = rt[r].home /\ new.page = rt[r].page /\ new.op = rt[r].op
    BY <2>1 DEF Fields
  <2> HIDE DEF new
  <2>4. QED
    BY <1>1, <2>2, <2>3, SamePage, OperationKeepsKeys
<1>4. QED
  BY <1>2, <1>3

LEMMA MergeKeepsKeys ==
  ASSUME KeyInv, NEW r \in Runtimes, MergePendingCommit(r)
  PROVE  KeyInv'
<1>1. /\ rt[r].op # "none" /\ DOMAIN rt[r] = Fields /\ rt[r].page \in {"open", "left"}
      /\ UNCHANGED <<store, suffered>>
  BY AtWork DEF MergePendingCommit
<1>2. PICK group : Save(r, [SetGroup(r, rt[r].target, group) EXCEPT !.pc = "post"])
  BY DEF MergePendingCommit
<1> DEFINE with == SetGroup(r, rt[r].target, group)
           new == [with EXCEPT !.pc = "post"]
<1>3. DOMAIN with = Fields /\ with.home = rt[r].home /\ with.page = rt[r].page /\ with.op = rt[r].op
  BY <1>1, SetGroupKeeps
<1> HIDE DEF with
<1>4. DOMAIN new = Fields /\ new.home = rt[r].home /\ new.page = rt[r].page /\ new.op = rt[r].op
  BY <1>3 DEF Fields
<1>5. Save(r, new)
  BY <1>2 DEF with
<1> HIDE DEF new
<1>6. QED
  BY <1>1, <1>4, <1>5, SamePage, OperationKeepsKeys

LEMMA MarkKeepsKeys ==
  ASSUME KeyInv, NEW r \in Runtimes, MarkPublished(r)
  PROVE  KeyInv'
<1>1. /\ rt[r].op # "none" /\ DOMAIN rt[r] = Fields /\ rt[r].page \in {"open", "left"}
      /\ UNCHANGED <<store, suffered>>
  BY AtWork DEF MarkPublished
<1> DEFINE marked == SetGroup(r, rt[r].target, [Group(r, rt[r].target) EXCEPT !.unpublished = FALSE])
           new == IF rt[r].own THEN [marked EXCEPT !.pc = "done"] ELSE Recovering(marked)
<1>2. /\ DOMAIN marked = Fields /\ marked.home = rt[r].home
      /\ marked.page = rt[r].page /\ marked.op = rt[r].op
  BY <1>1, SetGroupKeeps
<1>3. Save(r, new)
  BY DEF MarkPublished
<1> HIDE DEF marked
<1>4. DOMAIN new = Fields /\ new.home = rt[r].home /\ new.page = rt[r].page /\ new.op = rt[r].op
  <2>1. CASE rt[r].own
    BY <1>2, <2>1 DEF Fields
  <2>2. CASE ~rt[r].own
    BY <1>2, <2>2, RecoveringKeeps
  <2>3. QED
    BY <2>1, <2>2
<1> HIDE DEF new
<1>5. QED
  BY <1>1, <1>3, <1>4, SamePage, OperationKeepsKeys

LEMMA TakeKeepsKeys ==
  ASSUME KeyInv, NEW r \in Runtimes, TakeHandshake(r)
  PROVE  KeyInv'
<1>1. /\ Running(r) /\ rt[r].op # "none" /\ io[r].at = "idle"
      /\ DOMAIN rt[r] = Fields /\ rt[r].page \in {"open", "left"}
      /\ UNCHANGED <<store, suffered>>
  BY AtWork DEF TakeHandshake
<1> DEFINE s == Min(rt[r].batch)
           e == inbox[Home(r)][s]
           rest == [rt[r] EXCEPT !.batch = @ \ {s}]
           new == [rest EXCEPT !.mem = Applied(@, e, s)]
<1>2. /\ DOMAIN rest = Fields /\ rest.home = rt[r].home /\ rest.page = rt[r].page
      /\ rest.op = rt[r].op
  BY <1>1 DEF Fields
<1>3. \/ Step(r, rest) /\ UNCHANGED io
      \/ Save(r, new)
      \/ Abort(r) /\ UNCHANGED io
  BY DEF TakeHandshake
<1> HIDE DEF rest
<1>4. DOMAIN new = Fields /\ new.home = rt[r].home /\ new.page = rt[r].page /\ new.op = rt[r].op
  BY <1>2 DEF Fields
<1> HIDE DEF new
<1>5. CASE Step(r, rest) /\ UNCHANGED io
  BY <1>1, <1>2, <1>5, SamePage, OperationKeepsKeys
<1>6. CASE Save(r, new)
  BY <1>1, <1>4, <1>6, SamePage, OperationKeepsKeys
<1>7. CASE Abort(r) /\ UNCHANGED io
  BY <1>1, <1>7, AbortKeepsKeys
<1>8. QED
  BY <1>3, <1>5, <1>6, <1>7

LEMMA CursorKeepsKeys ==
  ASSUME KeyInv, NEW r \in Runtimes, SaveHandshakeCursor(r)
  PROVE  KeyInv'
<1>1. /\ rt[r].op # "none" /\ DOMAIN rt[r] = Fields /\ rt[r].page \in {"open", "left"}
      /\ UNCHANGED <<store, suffered>>
  BY AtWork DEF SaveHandshakeCursor
<1> DEFINE new == [rt[r] EXCEPT !.pc = "synced", !.mem.cursor = rt[r].next]
<1>2. DOMAIN new = Fields /\ new.home = rt[r].home /\ new.page = rt[r].page /\ new.op = rt[r].op
  BY <1>1 DEF Fields
<1>3. Save(r, new)
  BY DEF SaveHandshakeCursor
<1> HIDE DEF new
<1>4. QED
  BY <1>1, <1>2, <1>3, SamePage, OperationKeepsKeys

-----------------------------------------------------------------------------
\* Requests and what goes wrong

LEMMA AnswerKeepsKeys ==
  ASSUME KeyInv, NEW r \in Runtimes, Answer(r)
  PROVE  KeyInv'
<1>1. PICK pc \in {"announce", "publish", "post", "fetch", "pull"} : At(r, pc)
  BY DEF Answer, Serve
<1>2. /\ Running(r) /\ rt[r].op # "none" /\ io[r].at = "idle"
      /\ DOMAIN rt[r] = Fields /\ rt[r].page \in {"open", "left"}
  BY <1>1, AtWork
<1>3. rt[r].pc = pc /\ UNCHANGED <<store, io, suffered>>
  BY <1>1 DEF At, Answer
<1>4. CASE Step(r, Rest(r, rt[r].cursor))
  BY <1>2, <1>3, <1>4, EndKeepsKeys
<1>5. CASE pc \in {"publish", "post"}
  <2>1. PICK next : Step(r, [rt[r] EXCEPT !.pc = next])
    BY <1>3, <1>5 DEF Answer, Proceed, Go
  <2> DEFINE new == [rt[r] EXCEPT !.pc = next]
  <2>2. DOMAIN new = Fields /\ new.home = rt[r].home /\ new.page = rt[r].page /\ new.op = rt[r].op
    BY <1>2 DEF Fields
  <2>3. Step(r, new)
    BY <2>1
  <2> HIDE DEF new
  <2>4. QED
    BY <1>2, <1>3, <2>2, <2>3, SamePage, OperationKeepsKeys
<1>6. CASE pc = "fetch"
  <2> DEFINE new == [rt[r] EXCEPT !.pc = "prepare", !.package = keyPackages[rt[r].peer]]
  <2>1. DOMAIN new = Fields /\ new.home = rt[r].home /\ new.page = rt[r].page /\ new.op = rt[r].op
    BY <1>2 DEF Fields
  <2>2. Step(r, new)
    BY <1>3, <1>6 DEF Answer, Proceed
  <2> HIDE DEF new
  <2>3. QED
    BY <1>2, <1>3, <2>1, <2>2, SamePage, OperationKeepsKeys
<1>7. CASE pc = "pull" /\ ~Step(r, Rest(r, rt[r].cursor))
  <2> DEFINE batch == HandshakesAfter(Home(r), rt[r].cursor)
             new == [rt[r] EXCEPT !.pc = "take", !.batch = batch, !.next = Max(batch)]
  <2>1. DOMAIN new = Fields /\ new.home = rt[r].home /\ new.page = rt[r].page /\ new.op = rt[r].op
    BY <1>2 DEF Fields
  <2>2. Step(r, new)
    BY <1>3, <1>7 DEF Answer, Proceed
  <2> HIDE DEF new
  <2>3. QED
    BY <1>2, <1>3, <2>1, <2>2, SamePage, OperationKeepsKeys
<1>8. CASE pc = "announce"
  BY <1>3, <1>4, <1>8 DEF Answer, Proceed
<1>9. QED
  BY <1>4, <1>5, <1>6, <1>7, <1>8

LEMMA UnansweredKeepsKeys ==
  ASSUME KeyInv, NEW r \in Runtimes, Unanswered(r)
  PROVE  KeyInv'
<1>1. PICK pc \in {"announce", "publish", "post", "fetch", "pull"} : At(r, pc)
  BY DEF Unanswered, Serve
<1>2. Running(r) /\ io[r].at = "idle"
  BY <1>1, AtWork
<1>3. Abort(r) /\ UNCHANGED <<store, io, suffered>>
  BY DEF Unanswered
<1>4. QED
  BY <1>2, <1>3, AbortKeepsKeys

\* What a failing save leaves is like what an operation that ends leaves, but for
\* the mark that it failed.
LEMMA SaveFailsKeepsKeys ==
  ASSUME KeyInv, NEW r \in Runtimes, SaveFails(r)
  PROVE  KeyInv'
<1>1. Running(r) /\ DOMAIN rt = Runtimes /\ DOMAIN io = Runtimes /\ DOMAIN suffered = Installations
  BY DEF SaveFails, KeyInv, Settled, Shape
<1>2. PICK new \in {Gone(r), Rest(r, rt[r].cursor)} : Step(r, new)
  BY DEF SaveFails, Abort
<1>3. Kept(r, new) /\ new.op = "none"
  BY <1>1, RestKept, RuntimeFields DEF Gone, Kept
<1>4. rt'[r] = new /\ DOMAIN rt' = Runtimes /\ \A s \in Runtimes \ {r} : rt'[s] = rt[s]
  BY <1>1, <1>2 DEF Step
<1>5. Moves(r) /\ io'[r].at = "idle"
  BY <1>1, <1>4 DEF Moves, SaveFails, NoIO
<1>6. QED
  BY <1>3, <1>4, <1>5, MovesKeepKeys

-----------------------------------------------------------------------------
\* The transactions of the store

\* A transaction of r is about r's own installation.
LEMMA TransactionKeepsOthers ==
  ASSUME KeyInv, NEW r \in Runtimes, Running(r),
         DOMAIN rt' = Runtimes, DOMAIN io' = Runtimes, Kept(r, rt'[r]),
         rt'[r].op = "none" => io'[r].at = "idle",
         \A s \in Runtimes \ {r} : rt'[s] = rt[s] /\ io'[s] = io[s],
         keys' \in [Installations -> Runtimes \cup {None}], DOMAIN checkpoints' = Installations,
         \A n \in Installations \ {Home(r)} : keys'[n] = keys[n] /\ checkpoints'[n] = checkpoints[n],
         suffered' = suffered,
         KeyInOrder(Home(r)) => KeyInOrder(Home(r))'
  PROVE  KeyInv'
<1>1. \A s \in Runtimes : Running(s)' => Running(s) /\ Home(s)' = Home(s)
  BY DEF Kept, Running, Home
<1>2. Shape'
  BY <1>1 DEF Kept, KeyInv, Shape
<1>3. Settled'
  <2> SUFFICES ASSUME NEW s \in Runtimes
               PROVE  /\ ~Running(s)' => rt'[s].op = "none"
                      /\ rt'[s].op = "none" => rt'[s].pc = "none" /\ io'[s].at = "idle"
    BY DEF Settled, Running
  <2>1. CASE s = r
    BY <2>1 DEF Kept, Running
  <2>2. CASE s # r
    BY <2>2 DEF KeyInv, Settled, Running
  <2>3. QED
    BY <2>1, <2>2
<1>4. NoRaceLost'
  <2> SUFFICES ASSUME NEW n \in Installations, "race" \notin suffered[n]
               PROVE  KeyInOrder(n)'
    BY DEF NoRaceLost
  <2>1. KeyInOrder(n)
    BY DEF KeyInv, NoRaceLost
  <2>2. CASE n = Home(r)
    <3>1. KeyInOrder(Home(r))'
      BY <2>1, <2>2
    <3>2. Home(r)' = n \/ ~Running(r)'
      BY <1>1, <2>2
    <3>3. QED
      BY <3>1, <2>2, <3>2, <1>1 DEF KeyInOrder, Alone, Informed, Readable, Kept, Home
  <2>3. CASE n # Home(r)
    <3>1. keys'[n] = keys[n] /\ checkpoints'[n] = checkpoints[n]
      BY <2>3
    <3>2. Readable(n)'
      BY <2>1, <3>1 DEF KeyInOrder, Readable, Opens
    <3>3. Alone(n)'
      BY <1>1, <2>1, <3>1 DEF KeyInOrder, Alone
    <3>4. ASSUME NEW s \in Runtimes, Running(s)', Home(s)' = n
          PROVE  Informed(s, n)'
      <4>1. s # r /\ Informed(s, n)
        BY <1>1, <2>1, <2>3, <3>4 DEF KeyInOrder
      <4>2. QED
        BY <3>1, <4>1 DEF Informed
    <3>5. QED
      BY <3>2, <3>3, <3>4 DEF KeyInOrder
  <2>4. QED
    BY <2>2, <2>3
<1>5. QED
  BY <1>2, <1>3, <1>4 DEF KeyInv

\* A runtime that waits for a transaction runs an operation, which goes on.
LEMMA Waiting ==
  ASSUME KeyInv, NEW r \in Runtimes, Running(r), io[r].at # "idle"
  PROVE  /\ Kept(r, rt[r]) /\ rt[r].op # "none" /\ Home(r) \in Installations
         /\ DOMAIN rt = Runtimes /\ DOMAIN io = Runtimes
BY DEF KeyInv, Shape, Settled, Kept, Home, Running

LEMMA ReadKeepsKeys ==
  ASSUME KeyInv, NEW r \in Runtimes, Running(r), ReadCheckpoint(r, Home(r)),
         UNCHANGED <<rt, suffered>>
  PROVE  KeyInv'
<1>1. /\ Kept(r, rt[r]) /\ rt[r].op # "none"
      /\ DOMAIN rt = Runtimes /\ DOMAIN io = Runtimes /\ DOMAIN suffered = Installations
  BY Waiting DEF ReadCheckpoint, KeyInv, Shape
<1>2. Moves(r) /\ rt'[r] = rt[r]
  BY <1>1 DEF Moves, ReadCheckpoint, SetIO
<1>3. QED
  BY <1>1, <1>2, MovesKeepKeys

LEMMA GetKeyKeepsKeys ==
  ASSUME KeyInv, NEW r \in Runtimes, Running(r), GetKey(r, Home(r)),
         UNCHANGED <<rt, suffered>>
  PROVE  KeyInv'
<1>1. /\ Kept(r, rt[r]) /\ rt[r].op # "none" /\ Home(r) \in Installations
      /\ DOMAIN rt = Runtimes /\ DOMAIN io = Runtimes
  BY Waiting DEF GetKey
<1>2. keys' = keys /\ checkpoints' = checkpoints /\ rt' = rt
  BY DEF GetKey, store
<1>3. /\ DOMAIN io' = Runtimes /\ \A s \in Runtimes \ {r} : io'[s] = io[s]
      /\ io'[r].at = (IF keys[Home(r)] = None THEN "generate" ELSE "put")
      /\ io'[r].key = keys[Home(r)]
  BY <1>1 DEF GetKey, SetIO
<1>4. KeyInOrder(Home(r)) => KeyInOrder(Home(r))'
  <2> SUFFICES ASSUME KeyInOrder(Home(r)) PROVE KeyInOrder(Home(r))'
    OBVIOUS
  <2>1. \A s \in Runtimes : Running(s)' = Running(s) /\ Home(s)' = Home(s)
    BY <1>2 DEF Running, Home
  <2>2. Readable(Home(r))' /\ Alone(Home(r))'
    BY <1>2, <2>1 DEF KeyInOrder, Readable, Alone, Home, Running
  <2>3. ASSUME NEW s \in Runtimes, Running(s), Home(s) = Home(r)
        PROVE  Informed(s, Home(r))'
    BY <1>2, <1>3, <2>1, <2>3 DEF KeyInOrder, Informed
  <2>4. QED
    BY <2>1, <2>2, <2>3 DEF KeyInOrder
<1>5. keys' \in [Installations -> Runtimes \cup {None}] /\ DOMAIN checkpoints' = Installations
  BY <1>2 DEF KeyInv, Shape
<1>6. QED
  BY <1>1, <1>2, <1>3, <1>4, <1>5, TransactionKeepsOthers

\* Whoever generates the key is the only one that runs, and there is no
\* checkpoint yet.
LEMMA CreateKeyKeepsKeys ==
  ASSUME KeyInv, NEW r \in Runtimes, Running(r), CreateKey(r, Home(r)),
         UNCHANGED <<rt, suffered>>
  PROVE  KeyInv'
<1>1. /\ Kept(r, rt[r]) /\ rt[r].op # "none" /\ Home(r) \in Installations
      /\ DOMAIN rt = Runtimes /\ DOMAIN io = Runtimes
  BY Waiting DEF CreateKey
<1>2. checkpoints' = checkpoints /\ rt' = rt
  BY DEF CreateKey
<1>3. /\ DOMAIN io' = Runtimes /\ \A s \in Runtimes \ {r} : io'[s] = io[s]
      /\ io'[r].at = "put" /\ io'[r].key = r
  BY <1>1 DEF CreateKey, SetIO
<1>4. /\ keys' \in [Installations -> Runtimes \cup {None}]
      /\ keys'[Home(r)] = r /\ r # None
      /\ \A n \in Installations \ {Home(r)} : keys'[n] = keys[n]
  BY <1>1, RuntimesAssumption DEF CreateKey, KeyInv, Shape
<1>5. KeyInOrder(Home(r)) => KeyInOrder(Home(r))'
  <2> SUFFICES ASSUME KeyInOrder(Home(r)) PROVE KeyInOrder(Home(r))'
    OBVIOUS
  <2>1. \A s \in Runtimes : Running(s)' = Running(s) /\ Home(s)' = Home(s)
    BY <1>2 DEF Running, Home
  <2>2. keys[Home(r)] = None
    BY DEF KeyInOrder, Informed, CreateKey
  <2>3. Readable(Home(r))' /\ Alone(Home(r))'
    BY <1>2, <1>4, <2>1, <2>2 DEF KeyInOrder, Readable, Opens, Alone
  <2>4. ASSUME NEW s \in Runtimes, Running(s), Home(s) = Home(r)
        PROVE  Informed(s, Home(r))'
    <3>1. s = r
      BY <2>2, <2>4 DEF KeyInOrder, Alone
    <3>2. QED
      BY <1>3, <1>4, <2>1, <3>1 DEF Informed
  <2>5. QED
    BY <2>1, <2>3, <2>4 DEF KeyInOrder
<1>6. DOMAIN checkpoints' = Installations
  BY <1>2 DEF KeyInv, Shape
<1>7. QED
  BY <1>1, <1>2, <1>3, <1>4, <1>5, <1>6, TransactionKeepsOthers

\* What is put is encrypted under the key that is stored.
LEMMA PutKeepsKeys ==
  ASSUME KeyInv, NEW r \in Runtimes, Running(r), PutCheckpoint(r, Home(r)), AfterSave(r),
         suffered' = suffered
  PROVE  KeyInv'
<1>1. /\ Kept(r, rt[r]) /\ rt[r].op # "none" /\ Home(r) \in Installations
      /\ DOMAIN rt = Runtimes /\ DOMAIN io = Runtimes
  BY Waiting DEF PutCheckpoint
<1>2. \/ UNCHANGED rt
      \/ \E cursor : Step(r, Rest(r, cursor))
  BY DEF AfterSave
<1>3. /\ DOMAIN rt' = Runtimes /\ Kept(r, rt'[r])
      /\ \A s \in Runtimes \ {r} : rt'[s] = rt[s]
  <2>1. CASE UNCHANGED rt
    BY <1>1, <2>1
  <2>2. ASSUME NEW cursor, Step(r, Rest(r, cursor))
        PROVE  /\ DOMAIN rt' = Runtimes /\ Kept(r, rt'[r])
               /\ \A s \in Runtimes \ {r} : rt'[s] = rt[s]
    BY <1>1, <2>2, RestKept DEF Step
  <2>3. QED
    BY <1>2, <2>1, <2>2
<1>4. /\ DOMAIN io' = Runtimes /\ \A s \in Runtimes \ {r} : io'[s] = io[s]
      /\ io'[r].at = "idle"
  BY <1>1 DEF PutCheckpoint, NoIO
<1>5. /\ keys' = keys /\ DOMAIN checkpoints' = Installations
      /\ checkpoints'[Home(r)].key = io[r].key
      /\ \A n \in Installations \ {Home(r)} : checkpoints'[n] = checkpoints[n]
  BY <1>1 DEF PutCheckpoint, KeyInv, Shape
<1>6. KeyInOrder(Home(r)) => KeyInOrder(Home(r))'
  <2> SUFFICES ASSUME KeyInOrder(Home(r)) PROVE KeyInOrder(Home(r))'
    OBVIOUS
  <2>1. \A s \in Runtimes : Running(s)' => Running(s) /\ Home(s)' = Home(s)
    BY <1>3 DEF Kept, Running, Home
  <2>2. keys[Home(r)] # None /\ io[r].key = keys[Home(r)]
    BY DEF KeyInOrder, Informed, PutCheckpoint
  <2>3. QED
    BY <1>3, <1>4, <1>5, <2>1, <2>2 DEF KeyInOrder, Readable, Opens, Alone, Informed, Kept, Home
<1>7. keys' \in [Installations -> Runtimes \cup {None}]
  BY <1>5 DEF KeyInv, Shape
<1>8. QED
  BY <1>3, <1>4, <1>5, <1>6, <1>7, TransactionKeepsOthers

-----------------------------------------------------------------------------
\* Runtimes that begin and end

\* A page that opens beside a runtime at work, when there is no key yet, is what
\* the race is; when there is one, both find it.
LEMMA OpenKeepsKeys ==
  ASSUME KeyInv, NEW r \in Runtimes, NEW n \in Installations, Open(r, n)
  PROVE  KeyInv'
<1> DEFINE fresh == Runtime(n, "open")
           new == [fresh EXCEPT !.op = "init", !.pc = "initialize"]
<1>1. /\ DOMAIN rt = Runtimes /\ DOMAIN io = Runtimes /\ DOMAIN suffered = Installations
      /\ ~Running(r)
  BY DEF Open, Running, KeyInv, Shape
<1>2. DOMAIN fresh = Fields /\ fresh.home = n /\ fresh.page = "open"
  BY RuntimeFields
<1>3. rt' = [rt EXCEPT ![r] = new] /\ UNCHANGED <<keys, checkpoints>>
  BY DEF Open, Step, store
<1> HIDE DEF fresh
<1>4. DOMAIN new = Fields /\ new.home = n /\ new.page = "open" /\ new.op = "init"
  BY <1>2 DEF Fields
<1> HIDE DEF new
<1>5. DOMAIN rt' = Runtimes /\ rt'[r] = new /\ \A s \in Runtimes \ {r} : rt'[s] = rt[s]
  BY <1>1, <1>3
<1>6. /\ DOMAIN io' = Runtimes /\ io'[r].at = "load"
      /\ \A s \in Runtimes \ {r} : io'[s] = io[s]
  BY <1>1 DEF Open, BeginLoad, SetIO
<1>7. /\ DOMAIN suffered' = Installations
      /\ \A m \in Installations : suffered[m] \subseteq suffered'[m]
      /\ Others(r, n) # {} /\ keys[n] = None => "race" \in suffered'[n]
  BY <1>1 DEF Open
<1>8. Shape'
  BY <1>3, <1>4, <1>5, <1>6, <1>7 DEF KeyInv, Shape, Running, Home
<1>9. Settled'
  BY <1>4, <1>5, <1>6 DEF KeyInv, Settled, Running
<1>10. NoRaceLost'
  <2> SUFFICES ASSUME NEW m \in Installations, "race" \notin suffered'[m]
               PROVE  KeyInOrder(m)'
    BY DEF NoRaceLost
  <2>1. KeyInOrder(m)
    BY <1>7 DEF KeyInv, NoRaceLost
  <2>2. Readable(m)'
    BY <1>3, <2>1 DEF KeyInOrder, Readable
  <2>3. Alone(m)'
    <3> SUFFICES ASSUME keys[m] = None, NEW s \in Runtimes, NEW t \in Runtimes,
                        Running(s)', Running(t)', Home(s)' = m, Home(t)' = m
                 PROVE  s = t
      BY <1>3 DEF Alone
    <3>1. CASE s # r /\ t # r
      BY <1>5, <2>1, <3>1 DEF KeyInOrder, Alone, Running, Home
    <3>2. ASSUME NEW u \in Runtimes \ {r}, Running(u)', Home(u)' = m
          PROVE  u \in Others(r, m)
      BY <1>5, <3>2 DEF Others, Running, Home
    <3>3. CASE s = r \/ t = r
      <4>1. m = n
        BY <1>4, <1>5, <3>3 DEF Home
      <4>2. Others(r, m) = {}
        BY <1>7, <4>1
      <4>3. QED
        BY <3>2, <3>3, <4>2
    <3>4. QED
      BY <3>1, <3>3
  <2>4. ASSUME NEW s \in Runtimes, Running(s)', Home(s)' = m
        PROVE  Informed(s, m)'
    <3>1. CASE s = r
      BY <1>6, <3>1 DEF Informed
    <3>2. CASE s # r
      BY <1>3, <1>5, <1>6, <2>1, <2>4, <3>2 DEF KeyInOrder, Informed, Running, Home
    <3>3. QED
      BY <3>1, <3>2
  <2>5. QED
    BY <2>2, <2>3, <2>4 DEF KeyInOrder
<1>11. QED
  BY <1>8, <1>9, <1>10 DEF KeyInv

\* A reload ends whatever its installation's runtimes were saving.
LEMMA ReloadKeepsKeys ==
  ASSUME KeyInv, NEW n \in Installations, Reload(n)
  PROVE  KeyInv'
<1> DEFINE tab == {r \in Runtimes : Home(r) = n /\ Running(r)}
<1>1. /\ DOMAIN rt' = Runtimes /\ DOMAIN io' = Runtimes
      /\ \A r \in Runtimes : IF r \in tab THEN rt'[r] = Gone(r) /\ io'[r] = NoIO
                                          ELSE rt'[r] = rt[r] /\ io'[r] = io[r]
      /\ UNCHANGED <<keys, checkpoints, suffered>>
  BY DEF Reload, store
<1>2. \A r \in Runtimes : /\ DOMAIN Gone(r) = Fields /\ Gone(r).page = "gone"
                          /\ Gone(r).op = "none" /\ Gone(r).pc = "none"
  BY RuntimeFields DEF Gone
<1>3. \A r \in Runtimes : Running(r)' => /\ Running(r) /\ Home(r)' = Home(r)
                                         /\ io'[r] = io[r]
  BY <1>1, <1>2 DEF Running, Home
<1>4. Shape'
  BY <1>1, <1>2, <1>3 DEF KeyInv, Shape
<1>5. Settled'
  BY <1>1, <1>2 DEF KeyInv, Settled, Running, NoIO
<1>6. NoRaceLost'
  BY <1>1, <1>3 DEF KeyInv, NoRaceLost, KeyInOrder, Readable, Alone, Informed
<1>7. QED
  BY <1>4, <1>5, <1>6 DEF KeyInv

-----------------------------------------------------------------------------
\* The theorem

LEMMA InitKeyInv == Init => KeyInv
<1> SUFFICES ASSUME Init PROVE KeyInv
  OBVIOUS
<1>1. \A r \in Runtimes : rt[r] = Runtime(None, "none") /\ io[r] = NoIO
  BY DEF Init, StoreInit, Unstarted
<1>2. \A r \in Runtimes : ~Running(r)
  BY <1>1, RuntimeFields DEF Running
<1>3. Shape
  BY <1>1, <1>2, RuntimeFields DEF Shape, Init, StoreInit
<1>4. Settled
  BY <1>1, RuntimeFields DEF Settled, NoIO
<1>5. NoRaceLost
  BY <1>2 DEF NoRaceLost, KeyInOrder, Readable, Opens, Alone, Init, StoreInit
<1>6. QED
  BY <1>3, <1>4, <1>5 DEF KeyInv

LEMMA KeyStep == KeyInv /\ [Next]_vars => KeyInv'
<1> SUFFICES ASSUME KeyInv, [Next]_vars PROVE KeyInv'
  OBVIOUS
<1>1. ASSUME NEW r \in Runtimes, NEW n \in Installations, Open(r, n) PROVE KeyInv'
  BY <1>1, OpenKeepsKeys
<1>2. ASSUME NEW r \in Runtimes, Leave(r) PROVE KeyInv'
  BY <1>2, LeaveKeepsKeys
<1>3. ASSUME NEW n \in Installations, Reload(n) PROVE KeyInv'
  BY <1>3, ReloadKeepsKeys
<1>4. ASSUME NEW r \in Runtimes, AskOf(r) PROVE KeyInv'
  BY <1>4, AskKeepsKeys
<1>5. ASSUME NEW r \in Runtimes, Advance(r) PROVE KeyInv'
  <2>1. CASE StoreStep(r)
    BY <2>1, ReadKeepsKeys, GetKeyKeepsKeys, CreateKeyKeepsKeys, PutKeepsKeys DEF StoreStep
  <2>2. CASE Initialize(r)
    BY <2>2, InitializeKeepsKeys
  <2>3. CASE CreateKeyPackage(r) \/ CreateGroup(r)
    BY <2>3, CreateKeepsKeys
  <2>4. CASE Prepare(r)
    BY <2>4, PrepareKeepsKeys
  <2>5. CASE MergePendingCommit(r)
    BY <2>5, MergeKeepsKeys
  <2>6. CASE MarkPublished(r)
    BY <2>6, MarkKeepsKeys
  <2>7. CASE TakeHandshake(r)
    BY <2>7, TakeKeepsKeys
  <2>8. CASE SaveHandshakeCursor(r)
    BY <2>8, CursorKeepsKeys
  <2>9. CASE Answer(r)
    BY <2>9, AnswerKeepsKeys
  <2>10. QED
    BY <1>5, <2>1, <2>2, <2>3, <2>4, <2>5, <2>6, <2>7, <2>8, <2>9 DEF Advance
<1>6. ASSUME NEW r \in Runtimes, Unanswered(r) PROVE KeyInv'
  BY <1>6, UnansweredKeepsKeys
<1>7. ASSUME NEW r \in Runtimes, SaveFails(r) PROVE KeyInv'
  BY <1>7, SaveFailsKeepsKeys
<1>8. CASE UNCHANGED vars
  BY <1>8 DEF vars, store, KeyInv, Shape, Settled, NoRaceLost, KeyInOrder, Readable, Alone,
              Informed, Running, Home
<1>9. QED
  BY <1>1, <1>2, <1>3, <1>4, <1>5, <1>6, <1>7, <1>8 DEF Next

\* However pages overlap and tabs go away, whichever requests and saves fail: the
\* stored checkpoint of an installation opens with the stored key, unless two of
\* its runtimes began before either had found a key (indexeddb-checkpoint-store.ts
\* reads and writes the key and the checkpoint in transactions of their own).
THEOREM CheckpointsStayReadable == Spec => []CheckpointReadable
<1>1. KeyInv => CheckpointReadable
  BY DEF KeyInv, NoRaceLost, KeyInOrder, CheckpointReadable
<1>2. QED
  BY <1>1, InitKeyInv, KeyStep, PTL DEF Spec
=============================================================================
