---------------------------- MODULE SecureMessaging ----------------------------
(***************************************************************************)
(* One encrypted conversation: the OpenMLS provider                        *)
(* (src/messaging/openmls/provider.ts) over its bridge and checkpoint      *)
(* (browser-bridge.ts), the Canton transport and live session              *)
(* (src/messaging/canton), the plaintext history, and the room and group   *)
(* runtimes that queue one provider operation at a time per installation.  *)
(*                                                                         *)
(* The ledger is the sequence of the transactions that created deliveries  *)
(* and messages.  Each persisted write of an installation, each submission *)
(* and each event of a sync is a step of its own, because a crash may come *)
(* between any two of them.  Ciphertexts are abstracted to the key they    *)
(* consume: a member, an epoch and a generation of that member's ratchet.  *)
(* As OpenMLS is configured (no max_past_epochs), a ciphertext opens only  *)
(* in its own epoch, and only once.                                        *)
(***************************************************************************)
EXTENDS Integers, Sequences, FiniteSets, FiniteSetsExt

CONSTANTS
  Nodes,        \* installations that belong, or will belong, to the group
  Creator,      \* the installation that created it, the only one that commits
  Texts,        \* identifiers of text messages
  MaxCrashes,   \* bound: tabs reloaded in the middle of something
  MaxLost,      \* bound: submissions that fail, or whose answer is lost
  None

ASSUME CreatorAssumption == Creator \in Nodes
ASSUME NoneAssumption == None \notin Nodes \cup Texts
ASSUME BoundsAssumption == MaxCrashes \in Nat /\ MaxLost \in Nat

VARIABLES
  log,       \* ledger: the conversation's transactions, in offset order
  mls,       \* checkpoint of each installation
  history,   \* plaintext history: the texts each installation has stored
  done,      \* the group states each installation has marked processed
  cursor,    \* persisted message cursor
  offset,    \* persisted ledger offset of the live session
  task,      \* the provider operation that is running, if any
  session,   \* the live session's batch, if any
  crashes, lost

durable == <<mls, history, done, cursor, offset>>
faults == <<crashes, lost>>
vars == <<log, durable, task, session, faults>>

-----------------------------------------------------------------------------
\* Ledger events

\* A handshake transaction: the commit for the members, the welcome for `new`.
Handshake(epoch, members, new) ==
  [kind |-> "handshake", from |-> Creator, to |-> members \cup {new},
   epoch |-> epoch, gen |-> 0, body |-> new]

Ciphertext(kind, from, to, epoch, gen, body) ==
  [kind |-> kind, from |-> from, to |-> to, epoch |-> epoch, gen |-> gen, body |-> body]

Handshakes == {i \in DOMAIN log : log[i].kind = "handshake"}
Ciphertexts == DOMAIN log \ Handshakes

\* What fetchConversationEvents returns to n, and what makes a batch relevant
\* to it: the deliveries addressed to it, and messages it sent or receives.
Visible(n, i) == n \in log[i].to \/ (log[i].from = n /\ log[i].kind # "handshake")

\* Members of the group in epoch e, by the handshakes among the first k events.
MembersAt(e, k) ==
  {Creator} \cup {log[i].body : i \in {j \in Handshakes : j <= k /\ log[j].epoch <= e}}

-----------------------------------------------------------------------------
\* Installations

NoGroup ==
  [joined |-> FALSE, hydrated |-> FALSE, epoch |-> 0, gen |-> 0, opened |-> {},
   roster |-> {}, pending |-> None, unpublished |-> FALSE, processed |-> {}]

NewGroup == [NoGroup EXCEPT !.joined = TRUE, !.hydrated = TRUE, !.roster = {Creator}]

Free == [op |-> "free", pc |-> "free", id |-> None]

Start(op, id) == [Free EXCEPT !.op = op, !.pc = "ready", !.id = id]

\* A batch ends at the stream's `end`; its sync fetched everything up to `upto`.
Quiet == [step |-> "quiet", upto |-> 0, end |-> 0]

\* A new epoch starts new ratchets and forgets those of the old one.
EnterEpoch(m, e) == [m EXCEPT !.epoch = e, !.gen = 0, !.opened = {}]

\* An operation that ends, and one that fails: a failed start of the runtime
\* is tried again, a failed sync leaves its batch to be polled again.
End(n) == task' = [task EXCEPT ![n] = Free]

Abort(n) ==
  /\ task' = [task EXCEPT ![n] = IF @.op = "init" THEN Start("init", None) ELSE Free]
  /\ session' = IF task[n].op = "sync" THEN [session EXCEPT ![n] = Quiet] ELSE session

Init ==
  /\ log = <<>>
  /\ mls = [n \in Nodes |-> IF n = Creator THEN NewGroup ELSE NoGroup]
  /\ history = [n \in Nodes |-> {}]
  /\ done = [n \in Nodes |-> {}]
  /\ cursor = [n \in Nodes |-> 0]
  /\ offset = [n \in Nodes |-> 0]
  /\ task = [n \in Nodes |-> Free]
  /\ session = [n \in Nodes |-> Quiet]
  /\ crashes = 0
  /\ lost = 0

-----------------------------------------------------------------------------
\* Recovery of pending work, the first thing every operation does, and how
\* an addition completes once its commit is prepared.

At(n, pc) == task[n].pc = pc

GoTo(n, pc) == task' = [task EXCEPT ![n].pc = pc]

Clean(n) == mls[n].pending = None /\ ~mls[n].unpublished

Recovered(n) == At(n, "ready") /\ Clean(n)

\* publishHandshakes: the delivery identifiers are derived from the target
\* epoch, and a batch that is on the ledger already is not submitted again.
PendingHandshake(n) ==
  Handshake(mls[n].epoch + 1, mls[n].roster \ {n}, mls[n].pending)
\* Mutant: published deliveries are not recognised.
NeverOnLedger(n) == FALSE

HandshakeIsOnLedger(n) == \E i \in Handshakes : log[i].epoch = mls[n].epoch + 1
\* Mutant: deliveries found on the ledger are an error.
SubmitOnce(n) ==
  /\ At(n, "ready")
  /\ mls[n].pending # None
  /\ ~HandshakeIsOnLedger(n)
  /\ log' = Append(log, PendingHandshake(n))

SubmitHandshake(n) ==
  /\ At(n, "ready")
  /\ mls[n].pending # None
  /\ log' = IF HandshakeIsOnLedger(n) THEN log ELSE Append(log, PendingHandshake(n))

SubmitState(n) ==
  /\ At(n, "state")
  /\ log' = Append(log, Ciphertext("state", n, mls[n].roster \ {n}, mls[n].epoch,
                                   mls[n].gen - 1, mls[n].roster))

SubmitText(n) ==
  /\ At(n, "publish")
  /\ log' = Append(log, Ciphertext("text", n, mls[n].roster \ {n}, mls[n].epoch,
                                   mls[n].gen - 1, task[n].id))

PublishHandshake(n) ==
  /\ SubmitHandshake(n)
  /\ GoTo(n, "merge")
  /\ UNCHANGED <<durable, session, faults>>
\* Mutants: the merged snapshot keeps its epoch, or its members, or the need
\* to publish it is not recorded.
MergeKeepingEpoch(n) ==
  /\ At(n, "merge")
  /\ mls' = [mls EXCEPT ![n] = [@ EXCEPT !.roster = @ \cup {mls[n].pending},
                                        !.pending = None, !.unpublished = TRUE]]
  /\ GoTo(n, "ready")
  /\ UNCHANGED <<log, history, done, cursor, offset, session, faults>>

MergeKeepingRoster(n) ==
  /\ At(n, "merge")
  /\ mls' = [mls EXCEPT ![n] =
       [EnterEpoch(@, @.epoch + 1) EXCEPT !.pending = None, !.unpublished = TRUE]]
  /\ GoTo(n, "ready")
  /\ UNCHANGED <<log, history, done, cursor, offset, session, faults>>

MergeQuietly(n) ==
  /\ At(n, "merge")
  /\ mls' = [mls EXCEPT ![n] =
       [EnterEpoch(@, @.epoch + 1) EXCEPT !.roster = @ \cup {mls[n].pending}, !.pending = None]]
  /\ GoTo(n, "ready")
  /\ UNCHANGED <<log, history, done, cursor, offset, session, faults>>

\* mergePendingCommit
Merge(n) ==
  /\ At(n, "merge")
  /\ mls' = [mls EXCEPT ![n] =
       [EnterEpoch(@, @.epoch + 1) EXCEPT !.roster = mls[n].roster \cup {mls[n].pending},
                                          !.pending = None,
                                          !.unpublished = TRUE]]
  /\ GoTo(n, "ready")
  /\ UNCHANGED <<log, history, done, cursor, offset, session, faults>>
\* Mutant: the advanced ratchet is not persisted.
EncryptUnsaved(n, pc) ==
  /\ GoTo(n, pc)
  /\ UNCHANGED <<log, durable, session, faults>>

\* encryptApplicationMessage persists the advanced ratchet before it returns.
Encrypt(n, pc) ==
  /\ mls' = [mls EXCEPT ![n].gen = @ + 1]
  /\ GoTo(n, pc)
  /\ UNCHANGED <<log, history, done, cursor, offset, session, faults>>

EncryptState(n) ==
  /\ At(n, "ready")
  /\ mls[n].pending = None
  /\ mls[n].unpublished
  /\ Encrypt(n, "state")

PublishState(n) ==
  /\ SubmitState(n)
  /\ GoTo(n, "mark")
  /\ UNCHANGED <<durable, session, faults>>

\* markGroupStatePublished
Mark(n) ==
  /\ At(n, "mark")
  /\ mls' = [mls EXCEPT ![n].unpublished = FALSE]
  /\ GoTo(n, "ready")
  /\ UNCHANGED <<log, history, done, cursor, offset, session, faults>>

FinishInit(n) ==
  /\ task[n].op = "init" /\ Recovered(n)
  /\ End(n)
  /\ UNCHANGED <<log, durable, session, faults>>

-----------------------------------------------------------------------------
\* Adding a member (refresh of the group runtime, prepare of the room's)

StartAdd(m) ==
  /\ task[Creator] = Free
  /\ m \notin mls[Creator].roster
  /\ task' = [task EXCEPT ![Creator] = Start("add", m)]
  /\ UNCHANGED <<log, durable, session, faults>>

\* prepareAddMember; the commit is completed by the steps above.
PrepareAdd(n) ==
  /\ task[n].op = "add" /\ Recovered(n)
  /\ task[n].id \notin mls[n].roster
  /\ mls' = [mls EXCEPT ![n].pending = task[n].id]
  /\ UNCHANGED <<log, history, done, cursor, offset, task, session, faults>>

FinishAdd(n) ==
  /\ task[n].op = "add" /\ Recovered(n)
  /\ task[n].id \in mls[n].roster
  /\ End(n)
  /\ UNCHANGED <<log, durable, session, faults>>

-----------------------------------------------------------------------------
\* Sending a text

Unsent(id) ==
  /\ \A i \in Ciphertexts : log[i].body # id
  /\ \A n \in Nodes : task[n].id # id

StartSend(n, id) ==
  /\ task[n] = Free
  /\ mls[n].hydrated
  /\ Cardinality(mls[n].roster) >= 2
  /\ Unsent(id)
  /\ task' = [task EXCEPT ![n] = Start("send", id)]
  /\ UNCHANGED <<log, durable, session, faults>>

EncryptText(n) ==
  /\ task[n].op = "send" /\ Recovered(n)
  /\ Encrypt(n, "publish")

PublishText(n) ==
  /\ SubmitText(n)
  /\ GoTo(n, "save")
  /\ UNCHANGED <<durable, session, faults>>

SaveText(n) ==
  /\ At(n, "save")
  /\ history' = [history EXCEPT ![n] = @ \cup {task[n].id}]
  /\ End(n)
  /\ UNCHANGED <<log, mls, done, cursor, offset, session, faults>>

-----------------------------------------------------------------------------
\* Live session and sync
\* Mutant: the end of the ledger is off by one.
ReadPastEnd(n, end) ==
  session' = [session EXCEPT ![n] = [step |-> "syncing", upto |-> Len(log) + 1, end |-> end]]

\* The stream reads up to the end of the ledger and, when that holds something
\* for this conversation, syncs up to there.  (An empty batch only moves the
\* offset over events that concern nobody here, which changes nothing.)
Read(n, end) ==
  session' = [session EXCEPT ![n] = [step |-> "syncing", upto |-> Len(log), end |-> end]]

Poll(n) ==
  /\ session[n] = Quiet
  /\ task[n] = Free
  /\ \E i \in offset[n] + 1 .. Len(log) : Visible(n, i)
  /\ Read(n, Len(log))
  /\ task' = [task EXCEPT ![n] =
       [Start("sync", None) EXCEPT !.pc = IF Clean(n) THEN "events" ELSE @]]
  /\ UNCHANGED <<log, durable, faults>>

\* After a recovery the sync fetches what has come meanwhile, too; the batch
\* still ends where it did.
Fetch(n) ==
  /\ task[n].op = "sync" /\ Recovered(n)
  /\ Read(n, session[n].end)
  /\ GoTo(n, "events")
  /\ UNCHANGED <<log, durable, faults>>

\* Nothing is left to do for an own message, a cached text, a processed state
\* or a processed handshake: the sync passes over them.
Handled(n, i) ==
  LET e == log[i]
  IN  CASE e.kind = "handshake" -> e.epoch \in mls[n].processed
        [] e.kind = "text"      -> e.from = n \/ e.body \in history[n]
        [] e.kind = "state"     -> e.from = n \/ i \in done[n]

Fetched(n) == {i \in cursor[n] + 1 .. session[n].upto : Visible(n, i)}
Remaining(n) == {i \in Fetched(n) : ~Handled(n, i)}

\* The event being processed, by index and as a record.
Index(n) == Min(Remaining(n))
Event(n) == log[Index(n)]

Processing(n) == At(n, "events") /\ Remaining(n) # {}

CanJoin(n, e) == e.kind = "handshake" /\ e.body = n /\ ~mls[n].joined

CanCommit(n, e) ==
  e.kind = "handshake" /\ e.body # n /\ mls[n].joined /\ e.epoch = mls[n].epoch + 1

CanOpen(n, e) ==
  /\ e.kind # "handshake"
  /\ mls[n].joined
  /\ e.epoch = mls[n].epoch
  /\ <<e.from, e.gen>> \notin mls[n].opened

\* joinFromWelcome: the roster stays unknown until a group state arrives.
Join(n) ==
  /\ Processing(n)
  /\ CanJoin(n, Event(n))
  /\ mls' = [mls EXCEPT ![n] =
       [EnterEpoch(@, Event(n).epoch) EXCEPT !.joined = TRUE,
                                             !.processed = mls[n].processed \cup {Event(n).epoch}]]
  /\ UNCHANGED <<log, history, done, cursor, offset, task, session, faults>>

\* processHandshake: the epoch changes, the roster only with the next state.
ProcessCommit(n) ==
  /\ Processing(n)
  /\ CanCommit(n, Event(n))
  /\ mls' = [mls EXCEPT ![n] =
       [EnterEpoch(@, Event(n).epoch) EXCEPT !.processed = mls[n].processed \cup {Event(n).epoch}]]
  /\ UNCHANGED <<log, history, done, cursor, offset, task, session, faults>>

\* decryptApplicationMessage consumes the key and persists that.
Decrypt(n) ==
  /\ Processing(n)
  /\ CanOpen(n, Event(n))
  /\ mls' = [mls EXCEPT ![n].opened = @ \cup {<<Event(n).from, Event(n).gen>>}]
  /\ GoTo(n, "store")
  /\ UNCHANGED <<log, history, done, cursor, offset, session, faults>>

StoreText(n) ==
  /\ At(n, "store")
  /\ Event(n).kind = "text"
  /\ history' = [history EXCEPT ![n] = @ \cup {Event(n).body}]
  /\ GoTo(n, "events")
  /\ UNCHANGED <<log, mls, done, cursor, offset, session, faults>>

\* applyGroupSnapshot
ApplyState(n) ==
  /\ At(n, "store")
  /\ Event(n).kind = "state"
  /\ mls' = [mls EXCEPT ![n] = [@ EXCEPT !.roster = Event(n).body, !.hydrated = TRUE]]
  /\ GoTo(n, "note")
  /\ UNCHANGED <<log, history, done, cursor, offset, session, faults>>

\* markProcessed
NoteState(n) ==
  /\ At(n, "note")
  /\ done' = [done EXCEPT ![n] = @ \cup {Index(n)}]
  /\ GoTo(n, "events")
  /\ UNCHANGED <<log, mls, history, cursor, offset, session, faults>>

\* An event that cannot be processed fails the whole sync, before it.
SyncError(n) ==
  /\ Processing(n)
  /\ ~CanJoin(n, Event(n)) /\ ~CanCommit(n, Event(n)) /\ ~CanOpen(n, Event(n))
  /\ Abort(n)
  /\ UNCHANGED <<log, durable, faults>>

FinishSync(n) ==
  /\ At(n, "events")
  /\ Remaining(n) = {}
  /\ End(n)
  /\ session' = [session EXCEPT ![n] = [@ EXCEPT !.step = "synced"]]
  /\ UNCHANGED <<log, durable, faults>>

SaveCursor(n) ==
  /\ session[n].step = "synced"
  /\ cursor' = [cursor EXCEPT ![n] = Max(Fetched(n) \cup {@})]
  /\ session' = [session EXCEPT ![n].step = "saved"]
  /\ UNCHANGED <<log, mls, history, done, offset, task, faults>>
\* Mutant: the offset saved is the ledger's end, not the end of the batch.
SaveLedgerEnd(n) ==
  /\ session[n].step = "saved"
  /\ offset' = [offset EXCEPT ![n] = Len(log)]
  /\ session' = [session EXCEPT ![n] = Quiet]
  /\ UNCHANGED <<log, mls, history, done, cursor, task, faults>>

SaveOffset(n) ==
  /\ session[n].step = "saved"
  /\ offset' = [offset EXCEPT ![n] = session[n].end]
  /\ session' = [session EXCEPT ![n] = Quiet]
  /\ UNCHANGED <<log, mls, history, done, cursor, task, faults>>

-----------------------------------------------------------------------------
\* Faults

Submitting(n) == \/ At(n, "ready") /\ mls[n].pending # None
                 \/ At(n, "state")
                 \/ At(n, "publish")

\* The submission does not commit: the wallet refuses it, the request fails.
FailSubmission(n) ==
  /\ lost < MaxLost
  /\ lost' = lost + 1
  /\ Submitting(n)
  /\ Abort(n)
  /\ UNCHANGED <<log, durable, crashes>>

\* The submission commits but its answer is lost, and for a handshake also the
\* query that would confirm it (when that succeeds, the operation goes on).
LoseAnswer(n) ==
  /\ lost < MaxLost
  /\ lost' = lost + 1
  /\ SubmitHandshake(n) \/ SubmitState(n) \/ SubmitText(n)
  /\ Abort(n)
  /\ UNCHANGED <<durable, crashes>>

\* The page is closed and opened again: only what was persisted survives, and
\* the runtime starts by recovering pending work.
Crash(n) ==
  /\ crashes < MaxCrashes
  /\ crashes' = crashes + 1
  /\ task' = [task EXCEPT ![n] = Start("init", None)]
  /\ session' = [session EXCEPT ![n] = Quiet]
  /\ UNCHANGED <<log, durable, lost>>

-----------------------------------------------------------------------------
\* The steps of a running operation.
Step(n) ==
  \/ PublishHandshake(n)
  \/ Merge(n)
  \/ EncryptState(n)
  \/ PublishState(n)
  \/ Mark(n)
  \/ FinishInit(n)
  \/ PrepareAdd(n)
  \/ FinishAdd(n)
  \/ EncryptText(n)
  \/ PublishText(n)
  \/ SaveText(n)
  \/ Fetch(n)
  \/ Join(n)
  \/ ProcessCommit(n)
  \/ Decrypt(n)
  \/ StoreText(n)
  \/ ApplyState(n)
  \/ NoteState(n)
  \/ SyncError(n)
  \/ FinishSync(n)

Live(n) ==
  \/ Poll(n)
  \/ SaveCursor(n)
  \/ SaveOffset(n)

Next ==
  \/ \E n \in Nodes : Step(n)
  \/ \E n \in Nodes : Live(n)
  \/ \E m \in Nodes : StartAdd(m)
  \/ \E n \in Nodes, id \in Texts : StartSend(n, id)
  \/ \E n \in Nodes : FailSubmission(n)
  \/ \E n \in Nodes : LoseAnswer(n)
  \/ \E n \in Nodes : Crash(n)

Spec == Init /\ [][Next]_vars

\* A running operation goes on, the polling timers fire, and the creator's
\* runtime keeps admitting whoever asked to join.  Sending is up to the users.
Fairness ==
  /\ \A n \in Nodes : WF_vars(Step(n)) /\ WF_vars(Live(n))
  /\ \A m \in Nodes : WF_vars(StartAdd(m))

LiveSpec == Spec /\ Fairness

-----------------------------------------------------------------------------
\* Properties

Checkpoint ==
  [joined : BOOLEAN, hydrated : BOOLEAN, epoch : Nat, gen : Nat,
   opened : SUBSET (Nodes \X Nat), roster : SUBSET Nodes, pending : Nodes \cup {None},
   unpublished : BOOLEAN, processed : SUBSET Nat]

EventOK(e) ==
  /\ e.from \in Nodes /\ e.to \subseteq Nodes /\ e.epoch \in Nat /\ e.gen \in Nat
  /\ \/ e.kind = "handshake" /\ e.body \in Nodes
     \/ e.kind = "state" /\ e.body \subseteq Nodes
     \/ e.kind = "text" /\ e.body \in Texts

TypeOK ==
  /\ \A i \in DOMAIN log : EventOK(log[i])
  /\ mls \in [Nodes -> Checkpoint]
  /\ history \in [Nodes -> SUBSET Texts]
  /\ done \in [Nodes -> SUBSET DOMAIN log]
  /\ cursor \in [Nodes -> 0 .. Len(log)]
  /\ offset \in [Nodes -> 0 .. Len(log)]
  /\ \A n \in Nodes :
       /\ task[n].op \in {"free", "init", "add", "send", "sync"}
       /\ task[n].pc \in {"free", "ready", "merge", "state", "mark", "publish", "save",
                          "events", "store", "note"}
       /\ session[n].step \in {"quiet", "syncing", "synced", "saved"}
       /\ session[n].upto \in 0 .. Len(log) /\ session[n].end \in 0 .. session[n].upto

\* No ratchet key encrypts twice: whatever is retried or recovered after a
\* crash, two ciphertexts of one member and epoch differ in their generation.
NoKeyReuse ==
  \A i, j \in Ciphertexts :
    (log[i].from = log[j].from /\ log[i].epoch = log[j].epoch /\ log[i].gen = log[j].gen)
      => i = j

\* The creator's epochs form one line on the ledger: the k-th handshake leads
\* to epoch k, no recovery publishes another, and nobody, the creator included,
\* is in an epoch whose handshake did not reach the ledger.
EpochsFormALine ==
  /\ \A i \in Handshakes : log[i].epoch = Cardinality({j \in Handshakes : j <= i})
  /\ \A n \in Nodes : mls[n].epoch <= Cardinality(Handshakes)

\* A ciphertext is addressed only to members of its epoch whose welcome is
\* already on the ledger before it, so everyone who receives it can have
\* joined by then, and nobody else receives it.
AddressedToMembers ==
  \A i \in Ciphertexts : log[i].to \subseteq MembersAt(log[i].epoch, i)

\* Neither persisted position ever runs ahead of what was really done with the
\* events: up to the message cursor and up to the ledger offset, every event
\* was joined, processed or stored.
NothingMissed ==
  \A n \in Nodes : \A i \in 1 .. Len(log) :
    (Visible(n, i) /\ (i <= cursor[n] \/ i <= offset[n])) => Handled(n, i)

\* Who answers to one epoch agrees on the group: an installation's roster holds
\* only members of its epoch, and the creator's holds all of them.
RostersAgree ==
  /\ \A n \in Nodes : mls[n].roster \subseteq MembersAt(mls[n].epoch, Len(log))
  /\ mls[Creator].roster = MembersAt(mls[Creator].epoch, Len(log))

\* An addition that was prepared is completed, through failed submissions, lost
\* answers and reloads: its handshake is published and merged.
PendingFinishes == []<>(mls[Creator].pending = None)

\* An admitted guest does not wait for ever, except on a group state whose
\* publication failed: that one is retried only by the creator's next operation.
\* (Nor when a reload came between its decryption and its application.)
GuestsHydrate ==
  []<>(\A n \in Nodes :
         mls[n].joined => mls[n].hydrated \/ mls[Creator].unpublished \/ crashes > 0)

\* Whatever is on the ledger is eventually readable by everyone it addresses,
\* unless a reload came between its decryption and the history.
Delivered ==
  []<>(\A i \in Ciphertexts : \A n \in log[i].to :
         log[i].kind = "text" => log[i].body \in history[n] \/ crashes > 0)

-----------------------------------------------------------------------------
\* What the documentation says of order and of loss.

\* A message written before a membership change is read by whoever comes to it
\* later, because events are processed in ledger order: n never leaves an epoch
\* while a text that reached the ledger during that epoch is still unread.
WrittenIn(i) == Cardinality({j \in Handshakes : j < i})

OrderPreservesDecryption ==
  \A n \in Nodes : \A i \in Ciphertexts :
    (n \in log[i].to /\ log[i].epoch = WrittenIn(i) /\ ~Handled(n, i))
      => mls[n].epoch <= log[i].epoch

\* A crash between the ratchet's persistence and the history's loses that
\* message: n loses the messages whose key it consumed, and no others.
Consumed(n, i) == <<log[i].from, log[i].gen>> \in mls[n].opened /\ log[i].epoch = mls[n].epoch

LossIsLocal ==
  \A n \in Nodes, id \in Texts :
    (\E i \in Ciphertexts : log[i].body = id /\ n \in log[i].to)
      ~> (id \in history[n] \/ \E i \in Ciphertexts : log[i].body = id /\ Consumed(n, i))
=============================================================================
