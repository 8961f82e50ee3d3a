----------------------------- MODULE RelayMessaging -----------------------------
(***************************************************************************)
(* Installations that exchange MLS handshakes over the relay               *)
(* (RelayTransport) and keep their MLS state in checkpoints                *)
(* (CheckpointStore): the provider (src/messaging/openmls/provider.ts) over*)
(* a transport without conversation events, handshake-sync.ts, the bridge  *)
(* (browser-bridge.ts), which changes its memory first and then saves all  *)
(* of it, and handshake.ts.                                                *)
(*                                                                         *)
(* A page starts a runtime, which runs one operation at a time, step by    *)
(* step.  Leaving a page does not stop the operation its runtime is in: a  *)
(* second runtime of the installation may begin beside it.  Faults: a      *)
(* reload, which ends all runtimes of its installation; a request that     *)
(* does not arrive or whose answer does not; a save that fails.            *)
(*                                                                         *)
(* An MLS group is its line: the commits that made it, the epoch their     *)
(* number.  A commit fits the group it was made from and no other.  What   *)
(* the ciphertexts say, and whom they reach, is SecureMessaging's subject. *)
(***************************************************************************)
EXTENDS CheckpointStore, SequencesExt

CONSTANTS
  Conversations,  \* conversations
  CreatorOf,      \* who creates each conversation
  Remembered,     \* how many processed handshakes a checkpoint remembers (256 in the code)
  MaxCommits,     \* bound: commits of a conversation
  MaxFaults       \* bound: overlaps, reloads, lost requests or answers, failed saves

ASSUME CreatorAssumption == CreatorOf \in [Conversations -> Installations]
ASSUME RememberedAssumption == Remembered \in Nat \ {0}
ASSUME BoundsAssumption == {MaxCommits, MaxFaults} \subseteq Nat
ASSUME InstallationsAssumption == IsFiniteSet(Installations)

VARIABLES
  keyPackages, inbox, ciphertexts,  \* the relay
  rt,       \* the state of each runtime
  faults,
  suffered  \* per installation: "overlap" when two runtimes ran at once, "race" when
            \* neither had found a key, "save" when a save failed

INSTANCE RelayTransport

relay == <<keyPackages, inbox, ciphertexts>>
vars == <<store, io, relay, rt, faults, suffered>>

-----------------------------------------------------------------------------
\* The state of the bridge, all of which every checkpoint holds: the groups, the
\* handshake cursor, the processed handshakes in the order of their processing,
\* and the private parts of KeyPackages, named after the runtimes that made them.
Fresh ==
  [groups |-> [c \in Conversations |-> None], cursor |-> 0, processed |-> <<>>, packages |-> {}]

NewGroup(n) ==
  [line |-> <<>>, members |-> {n}, pending |-> None, unpublished |-> FALSE]

\* A commit adds or removes a member, whose KeyPackage an addition uses up.
Commits ==
  [by : Runtimes, type : {"add", "remove"}, member : Installations,
   package : Runtimes \cup {None}]

Groups ==
  [line : Seq(Commits), members : SUBSET Installations,
   pending : Commits \cup {None}, unpublished : BOOLEAN]

States ==
  [groups : [Conversations -> Groups \cup {None}], cursor : Nat,
   processed : Seq(Nat), packages : SUBSET Runtimes]

ASSUME NoneAssumption ==
  None \notin Commits \cup Groups \cup Ciphers(States) \cup Installations \cup Conversations

\* Only the MLS state comes from a welcome; the roster follows in a ciphertext.
JoinedGroup(line) == [line |-> line, members |-> {}, pending |-> None, unpublished |-> FALSE]

\* `op` is the provider's operation on `conv` and `peer`, `pc` its next step;
\* `target` is the conversation whose commit is being finished, the operation's
\* `own` or one that is recovered; `cursor` is the provider's, `batch` what a
\* sync fetched.
Runtime(n, page) ==
  [home |-> n, page |-> page, mem |-> Fresh, cursor |-> 0, op |-> "none", pc |-> "none",
   conv |-> None, peer |-> None, package |-> None, target |-> None, own |-> FALSE,
   batch |-> {}, next |-> 0]

Unstarted == Runtime(None, "none")

Home(r) == rt[r].home
Running(r) == rt[r].page \in {"open", "left"}
At(r, pc) == Running(r) /\ rt[r].pc = pc /\ io[r].at = "idle"
Group(r, c) == rt[r].mem.groups[c]

\* The next state of r, with nothing to save; or with a checkpoint to save first.
Step(r, new) == rt' = [rt EXCEPT ![r] = new]

Go(r, pc) == Step(r, [rt[r] EXCEPT !.pc = pc])

Save(r, new) == Step(r, new) /\ BeginSave(r, new.mem)

SetGroup(r, c, group) == [rt[r] EXCEPT !.mem.groups[c] = group]

\* An operation ends, one way or the other; with it, a page that was left.
Gone(r) == Runtime(Home(r), "gone")

Rest(r, cursor) ==
  IF rt[r].page = "left" THEN Gone(r)
  ELSE [Runtime(Home(r), "open") EXCEPT !.mem = rt[r].mem, !.cursor = cursor]

\* A runtime that cannot be initialized is of no use to its page.
Abort(r) == Step(r, IF rt[r].op = "init" THEN Gone(r) ELSE Rest(r, rt[r].cursor))

-----------------------------------------------------------------------------
\* recoverPendingWork(): pending commits first, then unpublished states.

AfterRecovery(op) ==
  CASE op = "init"   -> "package"
    [] op = "create" -> "create"
    [] op = "add"    -> "fetch"
    [] op = "sync"   -> "pull"

\* The state of a runtime that begins an operation, or has recovered one commit.
Recovering(s) ==
  LET Of(P(_)) == {c \in Conversations : s.mem.groups[c] # None /\ P(s.mem.groups[c])}
      pending == Of(LAMBDA g : g.pending # None)
      unpublished == Of(LAMBDA g : g.unpublished)
  IN  IF pending # {}
      THEN [s EXCEPT !.pc = "publish", !.target = CHOOSE c \in pending : TRUE]
      ELSE IF unpublished # {}
      THEN [s EXCEPT !.pc = "post", !.target = CHOOSE c \in unpublished : TRUE]
      ELSE [s EXCEPT !.pc = AfterRecovery(s.op), !.target = None]

-----------------------------------------------------------------------------
\* Pages

Others(r, n) == {s \in Runtimes \ {r} : Home(s) = n /\ Running(s)}

\* There is one page at a time, but a runtime of an earlier one may still work.
Open(r, n) ==
  /\ rt[r].page = "none"
  /\ \A s \in Runtimes : s < r => rt[s].page # "none"
  /\ \A s \in Others(r, n) : rt[s].page = "left"
  /\ Step(r, [Runtime(n, "open") EXCEPT !.op = "init", !.pc = "initialize"])
  /\ BeginLoad(r)
  /\ suffered' = [suffered EXCEPT ![n] =
       @ \cup (IF Others(r, n) # {} THEN {"overlap"} ELSE {})
         \cup (IF Others(r, n) # {} /\ keys[n] = None THEN {"race"} ELSE {})]
  /\ faults' = faults + (IF Others(r, n) # {} THEN 1 ELSE 0)
  /\ faults' <= MaxFaults
  /\ UNCHANGED <<store, relay>>

\* close() does not wait for the operation in progress.
Leave(r) ==
  /\ rt[r].page = "open"
  /\ Step(r, IF rt[r].op = "none" THEN Gone(r) ELSE [rt[r] EXCEPT !.page = "left"])
  /\ UNCHANGED <<store, io, relay, faults, suffered>>

Reload(n) ==
  LET tab == {r \in Runtimes : Home(r) = n /\ Running(r)}
  IN  /\ faults < MaxFaults /\ tab # {}
      /\ faults' = faults + 1
      /\ rt' = [r \in Runtimes |-> IF r \in tab THEN Gone(r) ELSE rt[r]]
      /\ io' = [r \in Runtimes |-> IF r \in tab THEN NoIO ELSE io[r]]
      /\ UNCHANGED <<store, relay, suffered>>

\* What a page asks of its runtime, which first recovers what was left unfinished.
Ask(r, op, c, m) ==
  /\ rt[r].page = "open" /\ rt[r].op = "none"
  /\ LET s == [rt[r] EXCEPT !.op = op, !.conv = c, !.peer = m]
     IN  Step(r, IF op = "remove" THEN [s EXCEPT !.pc = "prepare"] ELSE Recovering(s))
  /\ UNCHANGED <<store, io, relay, faults, suffered>>

-----------------------------------------------------------------------------
\* The store

\* The operation ends with its last save; sync adopts the cursor it saved.
AfterSave(r) ==
  CASE rt[r].pc = "done"   -> Step(r, Rest(r, rt[r].cursor))
    [] rt[r].pc = "synced" -> Step(r, Rest(r, rt[r].next))
    [] OTHER               -> UNCHANGED rt

StoreStep(r) ==
  LET n == Home(r)
  IN  /\ Running(r)
      /\ \/ (ReadCheckpoint(r, n) \/ GetKey(r, n) \/ CreateKey(r, n)) /\ UNCHANGED rt
         \/ PutCheckpoint(r, n) /\ AfterSave(r)
      /\ UNCHANGED <<relay, faults, suffered>>

\* The memory keeps what could not be saved, and the next save includes it.
SaveFails(r) ==
  /\ io[r].at \in {"key", "generate", "put"}
  /\ faults < MaxFaults
  /\ faults' = faults + 1
  /\ io' = [io EXCEPT ![r] = NoIO]
  /\ Abort(r)
  /\ suffered' = [suffered EXCEPT ![Home(r)] = @ \cup {"save"}]
  /\ UNCHANGED <<store, relay>>

-----------------------------------------------------------------------------
\* initialize(): the checkpoint, or a new identity that is saved first.

Initialize(r) ==
  LET found == io[r].data
  IN  /\ Running(r) /\ rt[r].pc = "initialize" /\ io[r].at = "open"
      /\ IF ~LoadSucceeds(r, Home(r))
         THEN Abort(r) /\ io' = [io EXCEPT ![r] = NoIO]
         ELSE IF found = None
         THEN Save(r, [rt[r] EXCEPT !.pc = "package"])
         ELSE /\ Step(r, Recovering([rt[r] EXCEPT !.mem = found.data, !.cursor = found.data.cursor]))
              /\ io' = [io EXCEPT ![r] = NoIO]
      /\ UNCHANGED <<store, relay, faults, suffered>>

\* Mutant: the KeyPackage is published before its private part is saved.
AnnounceUnsaved(r) ==
  /\ At(r, "package")
  /\ Step(r, [rt[r] EXCEPT !.pc = "announce", !.mem.packages = @ \cup {r}])
  /\ UNCHANGED <<store, io, relay, faults, suffered>>

CreateKeyPackage(r) ==
  /\ At(r, "package")
  /\ Save(r, [rt[r] EXCEPT !.pc = "announce", !.mem.packages = @ \cup {r}])
  /\ UNCHANGED <<store, relay, faults, suffered>>

-----------------------------------------------------------------------------
\* finishPendingCommit(): publish, merge, publish the group state, mark it.
\* (Encrypting the group state saves the ratchet too, which the model leaves out.)

NewLine(group) == Append(group.line, group.pending)

Delivery(r, kind, to) ==
  [conv |-> rt[r].target, kind |-> kind, from |-> Home(r), to |-> to,
   line |-> NewLine(Group(r, rt[r].target))]

\* buildAddHandshakeDeliveries and buildRemoveHandshakeDeliveries
Deliveries(r) ==
  LET g == Group(r, rt[r].target)
      peer == g.pending.member
      others == SetToSeq(g.members \ {Home(r), peer})
      commits == [i \in DOMAIN others |-> Delivery(r, "commit", others[i])]
  IN  IF g.pending.type = "add" THEN Append(commits, Delivery(r, "welcome", peer)) ELSE commits

MergePendingCommit(r) ==
  LET c == rt[r].target
      g == Group(r, c)
      members == IF g.pending.type = "add" THEN g.members \cup {g.pending.member}
                                           ELSE g.members \ {g.pending.member}
  IN  /\ At(r, "merge")
      /\ Save(r, [SetGroup(r, c, [line |-> NewLine(g), members |-> members,
                                  pending |-> None, unpublished |-> TRUE]) EXCEPT !.pc = "post"])
      /\ UNCHANGED <<store, relay, faults, suffered>>

\* An addition or a removal ends with its own commit, a recovery goes on.
MarkPublished(r) ==
  LET marked == SetGroup(r, rt[r].target, [Group(r, rt[r].target) EXCEPT !.unpublished = FALSE])
  IN  /\ At(r, "mark")
      /\ Save(r, IF rt[r].own THEN [marked EXCEPT !.pc = "done"] ELSE Recovering(marked))
      /\ UNCHANGED <<store, relay, faults, suffered>>

-----------------------------------------------------------------------------
\* createGroup(), addMembers() and removeMembers()

CreateGroup(r) ==
  /\ At(r, "create")
  /\ IF Group(r, rt[r].conv) # None
     THEN Abort(r) /\ UNCHANGED io
     ELSE Save(r, [SetGroup(r, rt[r].conv, NewGroup(Home(r))) EXCEPT !.pc = "done"])
  /\ UNCHANGED <<store, relay, faults, suffered>>

\* requireNoPendingCommit, and the roster must allow the change.
MayChange(g, type, m) ==
  /\ g # None
  /\ g.pending = None /\ ~g.unpublished
  /\ (m \in g.members) = (type = "remove")

Prepared(r) ==
  LET c == rt[r].conv
      commit == [by |-> r, type |-> rt[r].op, member |-> rt[r].peer, package |-> rt[r].package]
  IN  [SetGroup(r, c, [Group(r, c) EXCEPT !.pending = commit])
       EXCEPT !.pc = "publish", !.target = c, !.own = TRUE]

MayPrepare(r) ==
  /\ MayChange(Group(r, rt[r].conv), rt[r].op, rt[r].peer)
  /\ rt[r].op = "add" => rt[r].package # None

\* Mutant: the commit is published before it is saved.
PrepareUnsaved(r) ==
  /\ At(r, "prepare")
  /\ IF MayPrepare(r) THEN Step(r, Prepared(r)) ELSE Abort(r)
  /\ UNCHANGED <<store, io, relay, faults, suffered>>

Prepare(r) ==
  /\ At(r, "prepare")
  /\ IF MayPrepare(r) THEN Save(r, Prepared(r)) ELSE Abort(r) /\ UNCHANGED io
  /\ UNCHANGED <<store, relay, faults, suffered>>

-----------------------------------------------------------------------------
\* sync(): the handshakes behind the cursor, one after the other, then the cursor

\* Mutant: nothing is forgotten.
RememberAll(processed, s) == Append(processed, s)

\* Only what is not among the processed ones is processed: there is no earlier
\* mention of s to delete.
Remember(processed, s) ==
  LET all == Append(processed, s)
  IN  IF Len(all) > Remembered THEN Tail(all) ELSE all

\* joinFromWelcome uses up the private part of the KeyPackage; processHandshake
\* takes a commit made in the group's own epoch, and no other.
Fits(state, e) ==
  LET g == state.groups[e.conv]
  IN  IF e.kind = "welcome"
      THEN g = None /\ Last(e.line).package \in state.packages
      ELSE g # None /\ g.line = Front(e.line)

Applied(state, e, s) ==
  [state EXCEPT
     !.groups[e.conv] = IF e.kind = "welcome" THEN JoinedGroup(e.line) ELSE [@ EXCEPT !.line = e.line],
     !.packages = IF e.kind = "welcome" THEN @ \ {Last(e.line).package} ELSE @,
     !.processed = Remember(@, s)]

TakeHandshake(r) ==
  LET s == Min(rt[r].batch)
      e == inbox[Home(r)][s]
      rest == [rt[r] EXCEPT !.batch = @ \ {s}]
  IN  /\ At(r, "take") /\ rt[r].batch # {}
      /\ \/ /\ s \in Range(rt[r].mem.processed)
            /\ Step(r, rest) /\ UNCHANGED io
         \/ /\ s \notin Range(rt[r].mem.processed) /\ Fits(rt[r].mem, e)
            /\ Save(r, [rest EXCEPT !.mem = Applied(@, e, s)])
         \/ /\ s \notin Range(rt[r].mem.processed) /\ ~Fits(rt[r].mem, e)
            /\ Abort(r) /\ UNCHANGED io
      /\ UNCHANGED <<store, relay, faults, suffered>>

\* Mutant: the cursor is saved before the batch is processed.
SaveCursorFirst(r) ==
  /\ At(r, "take")
  /\ rt[r].mem.cursor < rt[r].next
  /\ Save(r, [rt[r] EXCEPT !.mem.cursor = rt[r].next])
  /\ UNCHANGED <<store, relay, faults, suffered>>

SaveHandshakeCursor(r) ==
  /\ At(r, "take") /\ rt[r].batch = {}
  /\ Save(r, [rt[r] EXCEPT !.pc = "synced", !.mem.cursor = rt[r].next])
  /\ UNCHANGED <<store, relay, faults, suffered>>

-----------------------------------------------------------------------------
\* Requests.  What the relay does with the one that r makes at its step:
Serve(r) ==
  \/ At(r, "announce") /\ PublishKeyPackage(Home(r), r)
  \/ At(r, "publish") /\ PublishHandshakes(Deliveries(r))
  \/ At(r, "post")
     /\ LET c == rt[r].target
        IN  PublishCiphertext(c, [id |-> Len(ciphertexts[c]) + 1, line |-> Group(r, c).line])
  \/ (At(r, "fetch") \/ At(r, "pull")) /\ UNCHANGED relay

\* and how r goes on with the answer.
Proceed(r) ==
  CASE rt[r].pc = "announce" -> Step(r, Rest(r, rt[r].cursor))
    [] rt[r].pc = "publish"  -> Go(r, "merge")
    [] rt[r].pc = "post"     -> Go(r, "mark")
    [] rt[r].pc = "fetch"    ->
         Step(r, [rt[r] EXCEPT !.pc = "prepare", !.package = keyPackages[rt[r].peer]])
    [] rt[r].pc = "pull"     ->
         LET batch == HandshakesAfter(Home(r), rt[r].cursor)
         IN  Step(r, IF batch = {} THEN Rest(r, rt[r].cursor)
                     ELSE [rt[r] EXCEPT !.pc = "take", !.batch = batch, !.next = Max(batch)])

Answer(r) ==
  /\ Serve(r)
  /\ Proceed(r)
  /\ UNCHANGED <<store, io, faults, suffered>>

\* The request is lost before the relay sees it, or its answer is.  Nothing is
\* requested to publish no deliveries.
Unanswered(r) ==
  /\ faults < MaxFaults
  /\ At(r, "publish") => Deliveries(r) # <<>>
  /\ faults' = faults + 1
  /\ Serve(r) \/ ((\E pc \in {"announce", "publish", "post"} : At(r, pc)) /\ UNCHANGED relay)
  /\ Abort(r)
  /\ UNCHANGED <<store, io, suffered>>

-----------------------------------------------------------------------------
Init ==
  /\ StoreInit
  /\ RelayInit
  /\ rt = [r \in Runtimes |-> Unstarted]
  /\ faults = 0
  /\ suffered = [n \in Installations |-> {}]

\* A conversation is created, and changed, by the one it belongs to.
AskOf(r) ==
  \/ Ask(r, "sync", None, None)
  \/ \E c \in Conversations :
       /\ CreatorOf[c] = Home(r)
       /\ \/ Ask(r, "create", c, None)
          \/ /\ Group(r, c) # None /\ Len(Group(r, c).line) < MaxCommits
             /\ \E m \in Installations \ {Home(r)} : Ask(r, "add", c, m) \/ Ask(r, "remove", c, m)

Advance(r) ==
  \/ StoreStep(r)
  \/ Initialize(r)
  \/ CreateKeyPackage(r)
  \/ CreateGroup(r)
  \/ Prepare(r)
  \/ MergePendingCommit(r)
  \/ MarkPublished(r)
  \/ TakeHandshake(r)
  \/ SaveHandshakeCursor(r)
  \/ Answer(r)

Next ==
  \/ \E r \in Runtimes, n \in Installations : Open(r, n)
  \/ \E r \in Runtimes : Leave(r)
  \/ \E n \in Installations : Reload(n)
  \/ \E r \in Runtimes : AskOf(r)
  \/ \E r \in Runtimes : Advance(r)
  \/ \E r \in Runtimes : Unanswered(r)
  \/ \E r \in Runtimes : SaveFails(r)

Spec == Init /\ [][Next]_vars

-----------------------------------------------------------------------------
\* Properties

Saved(n) == IF checkpoints[n] = None THEN Fresh ELSE checkpoints[n].data

Handshakes ==
  [conv : Conversations, kind : {"commit", "welcome"}, from : Installations,
   to : Installations, line : Seq(Commits) \ {<<>>}]

RuntimeStates ==
  [home : Installations \cup {None}, page : {"none", "open", "left", "gone"},
   mem : States, cursor : Nat,
   op : {"none", "init", "create", "add", "remove", "sync"},
   pc : {"none", "initialize", "package", "announce", "create", "fetch", "prepare", "publish",
         "merge", "post", "mark", "pull", "take", "synced", "done"},
   conv : Conversations \cup {None}, peer : Installations \cup {None},
   package : Runtimes \cup {None}, target : Conversations \cup {None}, own : BOOLEAN,
   batch : SUBSET Nat, next : Nat]

RelayTypeOK ==
  /\ StoreTypeOK(States)
  /\ keyPackages \in [Installations -> Runtimes \cup {None}]
  /\ \A n \in Installations :
       /\ inbox[n] \in Seq(Handshakes)
       /\ \A s \in DOMAIN inbox[n] : inbox[n][s].to = n /\ inbox[n][s].from # n
  /\ rt \in [Runtimes -> RuntimeStates]
  /\ \A r \in Runtimes :
       /\ rt[r].page # "none" => Home(r) \in Installations
       /\ rt[r].batch # {} => rt[r].batch \subseteq DOMAIN inbox[Home(r)]
       /\ Len(rt[r].mem.processed) <= Remembered
  /\ faults \in 0 .. MaxFaults

\* The stored checkpoint can always be opened, wherever a save was cut short and
\* however runtimes overlap, unless two of them raced for the very first key.
CheckpointReadable == \A n \in Installations : Readable(n) \/ "race" \in suffered[n]

\* What the persisted cursor is past was applied to the persisted MLS state, or
\* is a repetition of what was, however runtimes overlap: each of them saves a
\* cursor together with the state it brought up to it.
Reflects(state, e) == state.groups[e.conv] # None /\ IsPrefix(e.line, state.groups[e.conv].line)

NothingSkipped ==
  \A n \in Installations : \A s \in DOMAIN inbox[n] :
    s <= Saved(n).cursor \/ s \in Range(Saved(n).processed) => Reflects(Saved(n), inbox[n][s])

\* Every commit the relay has is in the stored checkpoint of its author, made or
\* prepared: a reload cannot make another one of the same epoch.  A save that
\* fails breaks this: the commit stays in memory, and recovery publishes it.
CommitsArePersisted ==
  \A n \in Installations : \A s \in DOMAIN inbox[n] :
    LET e == inbox[n][s]
        g == Saved(e.from).groups[e.conv]
    IN  suffered[e.from] = {} =>
          g # None /\ (IsPrefix(e.line, g.line) \/ (g.pending # None /\ e.line = NewLine(g)))

\* The first handshake that an installation's checkpoint has yet to process can
\* be processed: a sync after a reload gets on.  There are four ways to get
\* stuck, none of which the code excludes: a batch was published again because
\* its answer was lost; more handshakes were processed behind the cursor than a
\* checkpoint remembers; a member was removed and added again; one KeyPackage
\* was used for two additions.
Unprocessed(n) ==
  {s \in DOMAIN inbox[n] : s > Saved(n).cursor /\ s \notin Range(Saved(n).processed)}

Resent(n) == \E s, t \in DOMAIN inbox[n] : s < t /\ inbox[n][s] = inbox[n][t]

Forgotten(n) ==
  Cardinality({s \in DOMAIN inbox[n] : s > Saved(n).cursor /\ Reflects(Saved(n), inbox[n][s])}) > Remembered

Welcomes(n) == {s \in DOMAIN inbox[n] : inbox[n][s].kind = "welcome"}

Readmitted(n) ==
  \E s, t \in Welcomes(n) : s < t /\ inbox[n][s].conv = inbox[n][t].conv

PackageReused(n) ==
  \E s, t \in Welcomes(n) : s < t /\ Last(inbox[n][s].line).package = Last(inbox[n][t].line).package

SyncGetsOn ==
  (\A n \in Installations : suffered[n] = {}) =>
    \A n \in Installations :
      \/ Unprocessed(n) = {} \/ Fits(Saved(n), inbox[n][Min(Unprocessed(n))])
      \/ Resent(n) \/ Forgotten(n) \/ Readmitted(n) \/ PackageReused(n)
=============================================================================
