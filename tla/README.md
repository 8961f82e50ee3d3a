# VINSS on Canton: a TLA+ development

VINSS lets two parties, or a group, talk in an end-to-end encrypted conversation and make deals in it.  Deals are Daml
contracts on a Canton ledger; a deal may be backed by a token allocation of a CIP-56 registry.  Messages are MLS
ciphertexts that are ledger contracts, too; the messaging library can also exchange them over a relay.  Browser tabs read
the ledger, submit commands and keep state in browser storage.  The only server is the one that keeps a DevNet user's
ledger token out of the browser.

This directory models that system, checks the models with TLC on small instances and proves the main results about the
contracts, their clients, the conversation, the live session, the checkpoints, the DevNet wallet and the invitations with
TLAPS for every instance.  Source paths below are relative to the repository (`src/` here is the repository's root, so `src/src/canton`
is its `src/canton`).

## 1. The system

| part | state | operations | talks to |
|---|---|---|---|
| Deal contracts (`daml/Vinss/Deal.daml`) | contracts: proposal, agreement, escrow, fulfilment, revision request, approval, receipt | creation and archival by a template's only signatory; Accept, Reject, FundEscrow, SubmitFulfillment, SubmitFundedFulfillment, RequestRevision, SubmitRevision, Approve, Settle | the registry's allocations (fetched by FundEscrow, executed by Settle) |
| Token registry (CIP-56; the test registry under `tests/canton-token-standard`) | holdings, allocations | allocate, withdraw, execute | payer's wallet, Settle |
| Deal provider (`src/canton/http-offer-provider.ts`) | none | one method per choice: read active contracts, submit, look the result up | ledger client |
| Token wallet (`src/canton/token-wallet.ts`) | none | allocateAndFundEscrow, settleWithRegistry | registry, deal provider |
| Room runtime (`frontend/lib/canton-room-runtime.ts`) | queue of provider calls, delivered ids | createOffer, acceptOffer, ..., settleOffer, sendText, prepare | all of the above, provider, live session |
| Group runtime (`frontend/lib/canton-group-runtime.ts`) | queue, 5 s timer | refresh (admit whoever asked), sendText | provider, live session |
| OpenMLS provider and bridge (`src/messaging/openmls`, `wasm/vinss_mls`) | encrypted checkpoint: groups, ratchets, pending commit, unpublished state, processed handshakes | initialize, addMembers, send, sync, recovery | transport, plaintext history |
| Canton transport (`src/messaging/canton/transport.ts`) | none | publishHandshakes, publishCiphertext, fetchConversationEvents | ledger client |
| Relay transport (`src/messaging/relay`) | KeyPackages, handshakes with sequence numbers, ciphertexts | publishKeyPackage, publishHandshakes, fetchHandshakes, publishCiphertext | provider |
| Checkpoint store (`src/messaging/openmls/indexeddb-checkpoint-store.ts`) | encryption key, encrypted checkpoint | load, save, as several IndexedDB transactions each | bridge |
| Plaintext history (`src/messaging/local/plaintext-store.ts`) | texts, processed states | save, list, markProcessed | provider |
| Live session (`src/messaging/canton/live-session.ts`) | persisted ledger offset and message cursor per room; last offset, timer | start, batch, reconnect, close | update stream, provider |
| Update streams (polling in `frontend/lib`, WebSocket in `src/canton`) | cursor, socket | subscribe, poll / frames, close | ledger client |
| Ledger client (`src/canton/http-ledger-client.ts`) | none | submit, active contracts at an offset, updates since an offset | Canton JSON API |
| Invitations and directory (`frontend/lib/canton-invite.ts`, `src/messaging/canton/authenticated-directory.ts`) | invitations and room bindings in the browser; registrations and KeyPackages on the ledger | makeInvite, registerInvite, resolveInvite, startJobConversation, partyForInstallation, fetchKeyPackages | ledger client, room and group runtime |
| DevNet wallet (`frontend/lib/devnet-wallet.ts`, `WalletProvider.tsx`) | per tab: account, revision, transaction | login, select, logout, restore, prepareExecuteAndWait | session server |
| DevNet session server (`frontend/lib/server/devnet-session.ts`) | none: sealed cookie and ticket | GET/POST/DELETE session, select, prepare, execute | ledger |

`PROJECT.json` lists every part with its status; section 6 says what is not modelled and why.

### What is hard about it

* Every `await` is a point where the other party, another tab or the registry acts: what was read may be stale when the
  command is executed; what was committed may be consumed before it is looked up.
* Half of the deal templates have one signatory, and deal identifiers are free texts: what the clients take for granted of
  a deal holds only as far as the contracts enforce it.
* A submission has three outcomes (committed, refused, unknown), and an unknown one may still commit later.  Command
  identifiers are random, so the ledger does not deduplicate retries, and an operation is several submissions.
* Ratchet, history, cursor and offset are persisted by separate writes; a tab may be reloaded between any two.
* The creator of a group changes epochs while others write in the old one.
* Nothing cancels work in progress: a batch of a dropped connection, or of a page that was left, runs on beside the next.
* A checkpoint is the whole MLS state; a save is up to three IndexedDB transactions, and two runtimes of an installation
  save over each other.
* Requests to the DevNet server carry the cookie of the moment they are sent; their answers set the cookie at whatever
  moment they arrive, and all tabs share it.
* Guests race for an invitation; which KeyPackages are on the ledger, and whose, changes while the creator admits.

The `hazards` of `PROJECT.json` list these one by one, each at its line, with the property that guards it or the reason
why none does.

## 2. The modules

| module | models | abstraction level |
|---|---|---|
| `EscrowPromise` | what a deal promises, without contracts | abstract specification |
| `DealLedger` | contracts and registry, one action per choice | ledger transactions |
| `DealLedger_proofs` | theorems on `DealLedger` | |
| `DealClient` | tabs, deal provider, token wallet and notices; EXTENDS `DealLedger` | awaits and submissions |
| `DealClient_proofs` | theorems on `DealClient`; EXTENDS `DealLedger_proofs` | |
| `SecureMessaging` | one conversation: provider, bridge, transport, history, a simple live session | persisted writes and ledger events |
| `SecureMessaging_proofs` | theorems on `SecureMessaging` | |
| `LiveUpdates` | live session, both streams, reads of the ledger client, positions per room | awaits of promise chains |
| `LiveUpdates_proofs` | theorems on `LiveUpdates` | |
| `CheckpointStore` | the IndexedDB store of checkpoints and their key | IndexedDB transactions |
| `RelayTransport` | the relay | requests |
| `RelayMessaging` | provider and bridge over the relay; EXTENDS `CheckpointStore`, INSTANCE `RelayTransport` | awaits: store accesses and requests |
| `RelayMessaging_proofs` | theorem on the keys of `CheckpointStore` under `RelayMessaging` | |
| `RelayCheckpoints_proofs` | theorems on what `RelayMessaging` keeps in memory, in checkpoints and on the relay, and on syncs; EXTENDS `RelayMessaging_proofs` | |
| `DevNetWallet` | tabs, shared cookie, session server, approval of transactions | requests and answers |
| `DevNetWallet_proofs` | theorems on `DevNetWallet` | |
| `Invitations` | invitations, registrations, KeyPackage offers, admission | reads and submissions |
| `Invitations_proofs` | theorems on `Invitations` | |
| `MCDealLedger`, `MCDealClient`, `MCSecureMessaging`, `MCLiveUpdates`, `MCRelay`, `MCDevNetWallet`, `MCInvitations` | instances for TLC | |

`DealClient` composes the deal modules: its submissions, when they reach the ledger, are the actions of `DealLedger`.
`SecureMessaging` and `LiveUpdates` look at the same pipeline from its two ends.  The first has every event and every
key, and one batch at a time per installation; the second has every promise chain of the session, connections, pages and
rooms, and takes a sync as one step that stores what the room holds.  `RelayMessaging` takes a third look: it drops what
the ciphertexts say, and has instead every store access of a checkpoint, removals, and runtimes that overlap.
`Invitations` decides who is admitted and with which KeyPackage, which the other two take as given.  Deal notices are
texts of a conversation; that they arrive is what `Delivered` says.

### DealLedger

A contract comes to be in two ways: by a choice, or by a create command of its only signatory.  The second needs nobody's
consent but the template's ensure clause: a seller offers (`Propose`) under any deal identifier, since that is a text and
no key; a fulfiller creates fulfilments, a reviewer revision requests and approvals (`CreateDirectly`), of any deal and
round and with any allocation, also one of another deal.  The same party may archive what it alone has signed
(`Retract`).  Agreements, escrows and receipts carry both signatures and come from choices only; submissions that both
parties sign together, which could create those as well, are not modelled.

A contract is a record (template, deal, terms, round, allocation, root), where the root is the creation it descends from:
the contracts of one root are a *line*.  Each choice archives its contract, so that within a line records are as good as
contract identifiers; `HistoryBehind` is what makes that sound.  `acs` and `archived` are the active and consumed
contracts.  An action's conjuncts are the controller, the assertions and the ensure clause of what is created, in that
order.  Amounts are integers, or `None` for a text that `parseDecimal` does not accept.  The repository's test token refuses
a withdrawal from `allocateBefore` on; a registry of the network decides for itself, hence the constant `LateWithdrawals`.
`Tick` advances ledger time.

Terms, allocation specifications and direct creations are taken from the sets `Terms`, `Specs` and `Creations`: any
terms the contract's ensure clause lets through, any specification, fitting or not, made by any wallet, and any contract
with one signatory.

What the contracts guarantee then has two degrees.

* Whatever anybody creates: lines do not fork or go back; an escrow, and all that descends from an offer, is funded as its
  terms say and revised as its reviewer asked; an executed allocation has a receipt, of an approval that its payer signed,
  between the two parties the allocation names; no payment has two receipts.
* For an *orderly* deal, one which and whose allocations no line touches but that of a single offer: the receipt is that
  deal's, its approval followed a fulfilment, and the deal is paid once.  Every deal is orderly as long as its parties use
  the clients, which take a fresh UUID for each offer and create nothing else.

A deal that is not orderly can go wrong in ways the code does not prevent.  A fulfiller with two funded deals may create a
fulfilment of the first that carries the allocation of the second; the reviewer's client finds it by deal identifier and
template (`canton-room-runtime.ts:1088`, `http-offer-provider.ts:483`), does not look at the allocation, and its approval
pays with the second deal's money.

`EscrowPromise` says the same abstractly: an orderly deal moves along one path and is paid once; a creation past its
offer makes its promise `void`, and only that does.

### DealClient

`job[s]` is the operation tab `s` awaits.  It has one at most because the page's `busy` flag disables the buttons
while an operation runs (`app/room/[roomId]/page.tsx:62`, `:218-300`); the runtime's own queue only orders calls of
the messaging provider.  `inflight` are submissions that have not reached the ledger.  An operation reads what it acts
on when it starts (`AcceptOffer`, `SubmitWork`, ...), its submission is committed or refused later (`Commit`,
`Refuse`), lost (`Drop`), or orphaned (`Abandon`: timeout or reload).  `AllocateOrReuse`, `FundWithAllocation` and
`LookUp` are the steps after each await; `Notify` sends the notice.  Both parties are taken to use this client, so
that nobody creates or archives contracts past the choices and every deal is orderly (`Pristine` in the proofs).
Holdings are abstracted to a balance.  The text that accompanies a fulfilment's notice is not modelled.  A notice is
sent as one step here; how it travels is the matter of `SecureMessaging`.

### SecureMessaging

The ledger is the sequence of transactions of one conversation; `task[n]` is the provider operation of installation
`n` and its program counter, `session[n]` the batch of its live session, `mls[n]` its checkpoint.  A ciphertext is the
key it consumes (member, epoch, generation).  OpenMLS is configured without past epochs: a ciphertext opens only in
its own epoch and only once.  The creator is the only one who commits, as in the user interface.  `FailSubmission` and
`LoseAnswer` are the two ways a submission goes wrong, `Crash` a reload between any two steps.  A batch reads up to
the ledger's end at that time and ends there (`end`); the sync that belongs to it may fetch later events as well
(`upto`), and only the batch's own end is persisted as offset.  Batches that concern nobody are left out (they are in
`LiveUpdates`).  Not modelled: removal of members, reordering tolerance of one ratchet (never reached, since events
are processed in order), messaging submissions that commit after their operation gave up, the bound of 256 processed
handshakes, expiry of KeyPackages.

### LiveUpdates

`visits` are the pages opened one after another and the closure variables of their sessions; `threads` the promise
chains: a start, or a subscription (poller or socket) with the batch it works on.  Steps of a batch: `Sync`, `Show`,
`SaveCursor`, `SaveOffset`, `AfterBatch`; `FailBatch` may strike at each.  Then the streams differ: a poller keeps its
position and polls again, a socket goes on with the next frame.  `CreatedSince` is the reader's fallback for pruned
updates.  A page is left when its session runs or its start failed; closing a session that is still starting is not
modelled.  The in-memory copy of the message cursor is taken to be the persisted one.  Backoff delays are timers that
fire.

### CheckpointStore, RelayTransport and RelayMessaging

`keys` and `checkpoints` are the two object stores; `io[r]` is the load or save of runtime `r` with its local variables.
A load is `ReadCheckpoint` and, with the decryption, `Initialize`; a save is `GetKey`, `CreateKey` for a first save, and
`PutCheckpoint`, after which the operation goes on.  A ciphertext is the pair of the key that sealed it and the MLS
state.

The relay is `inbox[n]`, whose indexes are the sequence numbers, the last KeyPackage of each installation and the
ciphertexts of each conversation.  Its operations are synchronous in the code, hence one step each.

`rt[r]` is a runtime: its memory (what a checkpoint holds: groups, cursor, processed handshakes, private KeyPackages),
its operation and `pc`, and the local variables of the operation.  An MLS group is the line of commits that made it; a
commit fits only the group it was made from, a welcome only an installation that has the private part of its KeyPackage.
Every operation starts with `Recovering` (pending commits, then unpublished states), except `remove`, for which the code
does not recover.  `Answer` is a request that is answered, `Unanswered` one that is lost on either way, `SaveFails` a
save that throws, `Reload` the end of all runtimes of an installation, `Leave` a page that is left while its operation
runs on. KeyPackages are named after the runtime that made them: one each, as `initialize` makes.  The browser
application uses the Canton transport; the provider over a relay is a configuration of the library, exercised by
`tests/messaging-relay.test.ts`.  It runs here in pages as the browser application has them, whose way to close and
restart runtimes is the harder one.

### DevNetWallet

The server is stateless: `cookie` is the sealed session in the browser, a ticket is a value that the transaction
carries. `calls[t][k]` is the request of tab `t` for purpose `k`, with the cookie it was sent with; `Serve` is the
server's handling, `Receive` the arrival of the answer with its Set-Cookie.  `stale` models the wallet's `revision`: an
answer to a restore that was asked before the last change is not adopted.  `tx[t]` is a transaction from
`prepareExecuteAndWait` to its end: account, ticket, dialog, execution.  A request that the tab gives up (timeout,
reload) takes effect on the ledger nevertheless if it is an execution; other requests are dropped then, a cookie that
arrives after its page is gone being a late answer of the kind `Receive` has anyway.  The server may answer any request,
a sign-in too, with 401, which clears the shared cookie (`devnet-session.ts:220`).  `out`, `approved` and `agreed` are
kept for the properties alone.

### Invitations

A guest is a pair of a Party and an installation; two guests may share either.  `log` is the ledger: registrations
(KeyPackageRequest) and offers (KeyPackageOffer) in order.  `Join` is registerInvite's look at the ledger and its
submission, `Commit` the ledger's answer, possibly after the guest gave up.  `Resolve` and `Refresh` find the guests of a
private room and of a group, `Fetch` and `Admit` are the two reads of an admission with the ledger moving in between.
`clock` and `stale` order the offers by age and say which of them have expired.

## 3. The runs

Three kinds of bounds appear: sizes of sets (two parties, two or three tabs, two or three installations, one or two
texts), the length of logs and clocks (`MaxLog`, `MaxTime`, `MaxRound`, `MaxCommits`, `MaxOffers`, `MaxTx`, `MaxLogins`),
what is under way at a time (`MaxCalls`, `MaxInflight`), and the number of faults (`MaxLost`, `MaxCrashes`, `MaxFaults`).
They are chosen so that each hazard occurs: two creations, which are two deals, two offers of one deal, or a deal and
what a party creates beside it with an allocation of either, a
third allocation for two tabs and an orphan, a clock that runs past expiry, one revision round, one fault that falls
between any two steps, a second text after a lost one (`room_loss`), a page behind a page.

| run | instance | shows |
|---|---|---|
| `ledger` | 2 deal identifiers, 2 creations (symmetric; 4 terms, 2 direct creations), 2 allocations of 3 specifications, late withdrawals, 1 revision | lines do not fork or go back, escrow fits its terms, money moves by an approval and once, is conserved, and `EscrowPromise` is implemented |
| `client` | one tab each, 3 terms (one with an amount that cannot be parsed), 2 allocations, 1 loss, fairness | what the conversation says is true on the ledger; every stage is announced when nothing is lost; operations end; a persistent payer funds the deal |
| `client_tabs` | two tabs of the payer, withdrawals, 3 allocations (symmetric) | locks stay bounded, funding always uses an allocation that fits |
| `room` | 2 installations, 1 text, 1 crash, 2 lost submissions or answers, fairness | no key is used twice, one line of epochs, positions never pass what was done; texts are delivered, the guest is hydrated, a prepared addition completes |
| `group` | 3 installations from a room of two, 1 text, 1 loss | recipients are members and rosters agree, with a commit that others have to follow |
| `live` | 2 rooms, both streams, 2 pages (the first in `r1`), 4 chains, 2 transactions, 1 fault, fairness | resume positions, closing, one subscription, completeness of the page; what the ledger holds is stored eventually |
| `relay` | 3 installations (guests symmetric), 3 runtimes, 1 conversation, 2 commits, 1 handshake remembered, 1 fault | checkpoints stay readable, nothing is skipped, commits are persisted before they are published, a sync gets on |
| `wallet` | 2 tabs, 2 Parties (both symmetric), 1 sign-in, 1 transaction, 2 requests at a time, 1 fault | signing out lasts; what is executed was approved |
| `invites` | a private room, a group and a job, two of them used; 3 guests, 2 offers, 2 submissions at a time, 1 fault | who is admitted was registered, with an own KeyPackage made since |
| `group_order` | 3 installations, 1 text, no fault | **violation** of `OrderPreservesDecryption` |
| `room_loss` | 2 installations, 2 texts, 1 crash, fairness | **violation** of `LossIsLocal` |
| `live_skips` | 2 rooms, WebSocket, 1 fault | **violation** of `CursorsFollowDelivery` |

Some instances leave out steps so that TLC finishes in minutes; what they leave out is in the MC modules: `FromRoomOfTwo` starts after the first admission; `FirstPageOfR1`
breaks the symmetry of rooms by hand, which a liveness property forbids TLC to do; `Purposeful` does not ask of a
runtime what it would refuse or find nothing to do for, and keeps the last runtimes open; `UntilTheLastTransaction`
stops with the last transaction, which leaves nothing behind that later sign-ins and sign-outs would depend on;
`TwoRooms` uses two of the three rooms, whichever.

Deadlock is not checked: users may stop, clocks and logs end, and in bounded instances every run of requests does.
Every property of a passing run is known to be violated by a mutant of the code, listed in `PROJECT.json`; the mutants
stand in the modules before the definitions they change.

### What the properties except

An exception in a property is a case in which the code does not give the guarantee; each stands in the property's comment
and in the `hazards`.

* `EscrowBacked`, `FundedBeforeWork`, `RoundsAreRequested`: contracts a party created past the choices.
  `PaidExactlyWhenApproved`, `NoDoubleSettlement`, `ImplementsPromise`: deals that such a contract touches, as described
  under `DealLedger`.
* `RetryFunds`: holdings that do not suffice, a deal in its last minute, and an amount that `createOffer` lets through and
  `parseDecimal` refuses (`canton-room-runtime.ts:712`).
* `CheckpointReadable`: two runtimes that start in a fresh browser may each generate a key; the checkpoint of one is then
  sealed with a key that is gone.
* `CommitsArePersisted`: after a save that failed the commit is in memory only, and recovery publishes it; where runtimes
  of an installation overlapped, a later save overwrites an earlier one.  `NothingSkipped` needs neither exception: each
  save brings its own cursor.
* `SyncGetsOn`: a batch published twice (the relay drops the identifiers that would show it), more handshakes processed
  behind the cursor than remembered (1 here, 256 in the code), a member removed and added again, a KeyPackage used twice.
  The run reaches the first two, and fails without their exceptions; the other two need a third commit or a second
  conversation, and fail without theirs in instances of two installations that have those.
* `SignedOutStays`: a sign-in or choice of a Party that is under way in another tab when the sign-out is answered; its
  late answer sets the cookie again (`devnet-session.ts:190`).  A late 401, likewise, clears a newer session (`:220`).
* `ExecutedAsApproved`: the line above the commands in the dialog is the tab's idea of the account, and may be another
  Party than the cookie's.  The commands, which the dialog lists, always name the Party that acts.
* `AdmittedAsRegistered` says nothing of KeyPackages being used once: two rooms of the same two installations, both
  registered before one offer, are both given that offer (`transport.ts:194`).  Nor does it say that guests are admitted:
  an installation with offers of two Parties makes a group's `refresh` stop (`canton-group-runtime.ts:315`).

### Fairness

* `DealClient!Progress`: the code after an `await` runs (`Continue`), and the ledger answers a submission somebody waits
  for.  `PersistentPayer` is an assumption on a user, used only for `RetryFunds`.
* `SecureMessaging!Fairness`: a running operation goes on, the polling timer fires, and the creator's runtime keeps
  admitting (its 5 s timer in a group, its offset callback in a room).  Sending is never fair.
* `LiveUpdates!Fairness`: promise chains run on and reconnection timers fire.

All of it is weak fairness of steps the runtime takes by itself.  Faults are bounded and never fair, so the liveness
properties say: after the last fault, things go well.  `RelayMessaging`, `DevNetWallet` and `Invitations` state no
liveness: a relay runtime acts when asked, users decide about sessions, and the hazards above show that admission is not
guaranteed.

### What the violations show

1. `group_order`.  The creator of a group prepares, publishes and merges an addition without first syncing.  A text that
   another member put on the ledger in the old epoch can then never be decrypted by the creator, and as a sync fails at
   that event, the creator reads nothing after it.  `docs/MESSAGING_E2E.md:18` and `:69` promise that ledger order
   preserves decryption; it does for whoever follows the commit, not for whoever makes it.
2. `room_loss`.  A reload between the persisted ratchet and the history makes the sync fail at that message for ever;
   `docs/ARCHITECTURE.md:32` says that *that message* may be lost.
3. `live_skips`.  On the WebSocket stream a failed batch is passed over and the next one's offset persisted;
   `docs/ARCHITECTURE.md:68` says that positions are persisted only after delivery succeeded.  The polling stream, the one
   the browser application uses, satisfies it (`ResumesBehind` excepts only rooms whose socket went past a failure).

## 4. The proofs

A theorem holds for every value of the constants that its module's named assumptions admit, without the bounds and the
symmetries of the instances.  Each is proved from an inductive invariant: it holds initially, every step preserves it,
and it implies the property.  TLC checked the properties first, on the runs of section 3.

### Contracts (`DealLedger_proofs`)

For any parties, registries, deals, allocations, terms and specifications, and whatever the parties create past the choices;
assumed is only that `None` is no identifier, that the parties are finitely many, that `Terms`, `Specs` and `Creations` are
well typed and that bounds are naturals.

| theorem | property |
|---|---|
| `TypeCorrect` | `TypeOK` |
| `LinesNeverFork` | `OneActivePerLine`, `HistoryBehind` |
| `EscrowIsBacked` | `EscrowBacked`, `FundedBeforeWork` |
| `PaymentNeedsApproval` | `PaidExactlyWhenApproved` |
| `PaidAtMostOnce` | `NoDoubleSettlement` |
| `RoundsHonest` | `RoundsAreRequested` |
| `ContractsKeepPromise` | `ImplementsPromise` |
| `NothingIsCreated` | `Conservation` |

The argument goes through these inductive invariants, each proved preserved with those before it as hypotheses.

* `TypeInv` is `TypeOK` and that live allocations have positive amounts; without the latter a withdrawal or execution
  could take a balance out of its type.
* `OnePath` is `OneActivePerLine` and `HistoryBehind`.  Neither is inductive alone: that a successor is new needs the
  history to be behind, that the history stays behind needs the consumed contract to be the only active one.  A creation
  begins a line of its own (`Fresh`), so it disturbs neither.
* `EscrowShape` says which templates carry an allocation, that it fits, and that agreements and escrows descend from an
  offer, since nobody can create them alone.
* `PayInv` is `PaidExactlyWhenApproved`, that every approval descending from an offer has its fulfilment behind it, which
  the receipt inherits, and that receipts stand for different allocations.  An orderly deal stays so or is orderly no more,
  but never becomes so again (`OrderKept`, `OrderLost`): what is promised of it was promised all along.
* `RoundsInv` is `RoundsAreRequested` and that nothing before the fulfilment has a round above 0: funding puts another
  allocation on the deal, and a round before it would have been requested on the wrong one.
* `RegistryInv` is `Conservation` and that finitely many allocations are live.  Locking an amount and unlocking it are one
  lemma read in two directions (`LockKeeps`): the sender's holdings and the locked amounts change by the same number, in
  one instrument of one registry, and a settlement puts the amount on the receiver's account in place of the sender's.

`Conservation` adds up with the community modules' `SumFunction`, a fold that picks one index after the other.  That this
has a value for every finite set, and that the order of picking makes no difference (`OverRemove`), is induction on
the size of the set, put as a smallest set for which it fails (`SmallestSet`).

Lemmas on `Consume` and on the registry's actions say what one step can change, so that each choice's case is short.

The refinement (`ContractsKeepPromise`) takes `PromiseInv`, the first four together.  An orderly deal's phase is the template
of its one active contract, so `OnePath` turns a choice into a move of that deal and of no other (`ChoiceMoves`,
`CloseMoves`); a creation offers a new deal or takes the order of the deals it touches, which is `Void`
(`CreationRefines`); `SettlePays` counts one payment more, the first of its deal by `NoDoubleSettlement`; `StepRefines`
maps each action to a step of `EscrowPromise` or to a stutter.

### Clients (`DealClient_proofs`)

For any number of tabs, deals and losses, and with a payer that withdraws allocations whenever it likes
(`WithWithdrawals`; the lemma `WithoutWithdrawals` covers `ClientSpec`).  Assumed is, further, that the tabs are finitely many
and belong to parties, and that `Specs` holds whatever the wallet may request (`RequestsAssumption`): the constant lists
the specifications the registry is offered, and one without the wallet's own would leave the wallet out.

| theorem | property |
|---|---|
| `ClientsStayOnTheLedger` | a client's behaviour is one of `DealLedger!Spec`, so that its theorems hold of the clients |
| `ClientTypeCorrect` | `ClientTypeOK` |
| `FoundAllocationsFit` | `FundingFits` |
| `NoticesStayTrue` | `NoticesAreTrue` |
| `StagesAreAnnounced` | `StageAnnounced` |
| `LocksStayBounded` | `LocksBounded` |

`StepCases` reduces the actions to fifteen effects, by what they do rather than by which operation they belong to; the
`ENABLED` in `Refuse` is dropped there, since a failed submission changes the same whatever the reason.

* `Control` ties a submission to its tab: a tab waits for one submission at most, for the choice and the contract that its
  operation and step say (`Serves`).  The rest is conditional on it: what a commit means depends on who waits for it.
* `Pristine` says that with these clients every contract descends from an offer and every deal from one: an offer on its
  way names a deal that nothing else names (`FreshCreates`).  Hence a deal is orderly, has one active contract and one set
  of terms (`DealFacts`), which is what the notices and the wallet rely on.
* `FundingInv` says that every specification ever requested fits the contract it was requested for and ends with it.
  Contracts of a deal share their terms (`OneTerms`), so finding an allocation by its deal is enough.
* `NoticeInv` extends `NoticesAreTrue` to the tab that has its answer and has not announced it yet: what it holds is
  already on the ledger, and the ledger takes none of it back (`LedgerKeeps`, `RejectedStays`).
* `AnnounceInv` follows the contract from the commit that creates it, whose tab still waits, through the lookup to the
  notice.  A tab whose lookup finds nothing gives up, because another one moved the deal on and answers for it then.
* `LocksBounded` is not inductive: a bound that is reached leaves no room for the next request.  The argument is that the
  wallet requests only when no allocation of its deal is live, since a live one fits and can be reused while there is time
  to allocate (`NothingLive`); what is locked then can be counted (`LocksCounted`).  Requests in flight are awaited by
  different tabs of the payer, or by nobody (`OrphansInv`).  An allocation that paid already counts too, and makes no
  difference: the tab that approved the delivery is a payer's tab that does not fund that deal (`ReviewInv`).

### Conversation (`SecureMessaging_proofs`)

For any installations and texts and any number of crashes, failed submissions and lost answers; assumed is that the
creator is an installation and `None` is neither an installation nor a text.

| theorem | property |
|---|---|
| `TypeCorrect` | `TypeOK` |
| `NothingIsMissed` | `NothingMissed` |
| `EpochsStayInLine` | `EpochsFormALine` |
| `KeysAreUsedOnce` | `NoKeyReuse` |
| `RostersAlwaysAgree` | `RostersAgree` |
| `CiphertextsReachMembers` | `AddressedToMembers` |

* `ControlInv` says what the progress of an operation tells of its checkpoint: who publishes has a pending commit, who
  stores a text has opened an event of the epoch it is in.  Type correctness needs it, since the code writes what it read
  some steps before.
* `SyncInv` adds the batch: a sync that is over left nothing undone up to its end, which is what makes the two positions
  saved afterwards safe.
* `EpochInv` counts the handshakes: the creator's epoch is the number of them on the ledger, or one less between the
  publication of a handshake and its merge, also when a recovery publishes.
* `KeyInv` says that a ciphertext's generation is below the one in its author's checkpoint, by one more while a key is drawn
  and its ciphertext not submitted (`Unused`).
* `MemberInv` is both membership properties and that no group state names others than the members of its epoch; rosters
  follow from states, states from rosters, and neither is inductive alone.

### Live session (`LiveUpdates_proofs`)

For any rooms, either kind of stream, any number of pages, chains, transactions and faults; assumed is that `None` is
neither a room nor a number.

| theorem | property |
|---|---|
| `TypeCorrect` | `TypeOK` |
| `NeverTwoSubscriptions` | `OneSubscription` |
| `ClosedForGood` | `ClosedMeansClosed` |
| `NothingLostOnResume` | `ResumesBehind` |
| `PagesShowTheRoom` | `PageIsComplete` |

* `SubInv` is both properties of subscriptions with why they hold: a chain that is starting is its page's only one, and a
  reconnection is due only when no connection is open or opening.
* `PosInv` is `ResumesBehind` with the same for the positions a chain carries from one `await` to the next
  (`ThreadsFollow`), each as far as its step has got.
* `ShowInv` ties what a page shows to what is stored: a page that was woken, and has no chain between acknowledgment and
  display, shows every event up to its offset (`Caught`).

### Checkpoints (`RelayMessaging_proofs`)

For any installations, runtimes and conversations, any number of overlaps, reloads, lost requests and failed saves; assumed
is only that `None` is no runtime.

| theorem | property |
|---|---|
| `CheckpointsStayReadable` | `CheckpointReadable` |

`KeyInv` says what is in order while nobody has raced for the first key: the checkpoint opens with the stored key; what a
runtime found out about the key in an earlier transaction is still so when it uses it (`Informed`); and until there is a
key, one runtime at most is at work (`Alone`), so that nobody comes between its look for a key and its creation of one.
`Settled` adds that no transaction outlives its operation.  Of the operations the proof needs only that they leave the
home of their runtime alone and begin a save after the one before has ended (`StepKeepsKeys`); the four transactions, `Open`
and `Reload` are the cases that matter.

### What checkpoints hold (`RelayCheckpoints_proofs`)

For any installations, runtimes and conversations and any number of faults; assumed is that the installations are finitely
many and that `None` is none of the values it stands beside.

| theorem | property |
|---|---|
| `RelayTypesHold` | `RelayTypeOK` |
| `NoHandshakeIsSkipped` | `NothingSkipped` |
| `PublishedCommitsAreSaved` | `CommitsArePersisted` |
| `SyncsGetOn` | `SyncGetsOn` |

`RelayInv` is one invariant for the first three, since an MLS state goes round: from the checkpoint into a runtime's memory, from
there into a save, and from the save into the checkpoint.  What holds of one must hold of all.

* `StateOK` is what every copy satisfies, also where runtimes overlap: its cursor and its processed handshakes are of the
  inbox, each was applied (`Covers`), and only a conversation's creator has a commit of it pending (`Owned`).  The last part
  is why a merge by recovery cannot pass over a handshake of somebody else.
* `WorkOK` says the same of a sync under way: whatever it fetched is still in its batch or was applied, so that the
  cursor it saves at the end skips nothing.
* `InSync` says that, until something goes wrong, an idle runtime remembers what is stored and a saving one has captured
  what it remembers, with every commit of its own that is on the relay (`HasAll`).  `OneRuns` is what makes that last:
  without an overlap nobody else saves.
* `OnCourse` ties a step to its operation and its conversation, which type correctness needs as in `SecureMessaging`.

The parts are about values and not about variables, so that a lemma proved once (`StateStays`, `OrderStays`) serves the
checkpoint, the memory and the save alike.  What a batch addresses to an installation is computed by a recursive function;
that it has a value, and only deliveries to that installation, is again a least number at which it would fail
(`PicksExist`, `AddressedAre`).

`SyncsGetOn` needs more: that the creator's line of commits, every inbox and every KeyPackage agree.  `SyncInv` says so, of
the stored state, of the state a runtime at work remembers, and of the one it is saving.  It holds while no installation has
suffered an overlap, a race for the key or a failed save (`Calm`), which is the hypothesis of `SyncGetsOn`; reloads, lost
requests and lost answers may come at any step.  It is proved with `RelayInv` and `KeyInv`.

* `Applies`: without those faults a sync takes handshakes in order, so that a state has a `Frontier`.  Everything up to it is
  reflected in the groups, the last of it is what is remembered, and each group stands where its last handshake left it.
* `LogOK`: an inbox tells of a conversation in order, and each handshake follows up the one before (`FollowsUp`): a welcome
  names a KeyPackage of the installation, any other commit comes after the commit before it.
* `MembersTold`: every member of the creator's group was told of its last commit.  This makes the next handshake follow up,
  and it is why publishing comes before merging.
* `Supply`: a KeyPackage that was announced is in the state or was used by a welcome the state has processed (`Had`).  A
  creator's addition, in preparation or waiting, names one of these.
* `OnTrack` ties a runtime's step to it: the batch of a sync leaves no gap behind the frontier, a merge is of a commit that
  was told to all it leaves in the group, an announced KeyPackage is in memory.

The steps are compared by what they do to inboxes and KeyPackages, which only go on (`Progress`); only the publication of a
batch makes an inbox longer.  The exceptions of `SyncGetsOn` enter at the end (`NextFits`): the handshake behind
the frontier either fits, or is equal to one before it, or is a second welcome to the conversation or with the same
KeyPackage; and the first unprocessed one is behind the frontier unless something processed was forgotten.

### DevNet wallet (`DevNetWallet_proofs`)

For any tabs, users and Parties, without bounds on sign-ins, transactions, requests or faults other than that they are
numbers.

| theorem | property |
|---|---|
| `ExecutionsApproved` | `ExecutedAsApproved` |
| `SignedOutForGood` | `SignedOutStays` |

* `ApprovalInv` is `ExecutedAsApproved` with what leads to an execution: an execute request carries a transaction that was
  approved (`ExecuteOK`), a dialog shows the Party its ticket is bound to if the account agreed with the cookie
  (`DialogOK`), and a prepare request carries the cookie the account was compared with (`PrepareOK`).  The property is not
  inductive without the ticket: only it ties what the server executes to what the dialog showed.  `Shape` and `IsCall`,
  `IsTx` and `IsTicket` are what is left of types: the proof needs that records have their fields, not what is in them.
* `SignOutInv` adds what keeps the browser signed out.  While `out` names a tab, no answer under way may set a session
  (`AnswersHarmless`), and that tab can only hear a restore that is stale or finds no session (`SignedOutQuiet`).  It is
  proved with `ApprovalInv`, whose `CallsOK` says which operations a purpose can have.

### Invitations (`Invitations_proofs`)

For any rooms of the three kinds, any guests, also such that share a Party or an installation, and any number of
KeyPackages, losses and expiries; assumed is that a guest is a pair and not `None`, that a room has a kind, that guests are
invited, and one of them to a job's room.

| theorem | property |
|---|---|
| `AdmissionIsSound` | `AdmittedAsRegistered` |

* `InvitePeers` runs over the ledger.  `PeersGrow` says what a contract more makes of it, so that what the list of peers
  promises (`PeersInv`) is an invariant like any other.  That the recursion has a value, and the same one on a common
  beginning of two ledgers, is an induction on its length, put as a least number at which it fails (`FindsExists`,
  `FindsAgree`).
* `HostInv` says that everybody a page of the creator knows, or is admitting, is `Eligible`: let in by a registration and, in a
  group, on the roster.  The ledger takes nothing of it back (`LedgerKeeps`), so it does not matter how long ago the page
  looked.
* `MembersInv` is the property with eligibility in the place of distinct Parties.  Two eligible guests of a room that share a
  Party or an installation are one (`OneEligible`): by the first registration, by the roster, or by the job.

In all of them, lemmas say once how a changed thread, job, call or contract keeps a part of the invariant, so that an
action's case names the part it changes.

### What is only model-checked

* All liveness: `OperationsEnd`, `RetryFunds`, `Delivered` and the like need fairness, and with it `ENABLED`, which the prover
  does not handle.
* The three violations of section 3, which are counterexamples.

## 5. Plan

1. Done: contracts and registry; clients; conversation; live updates; checkpoint store and relay; DevNet wallet;
   invitations and directory.  Proved: every safety property of all of them, and the refinement of `EscrowPromise`.
2. Refinement: an abstract conversation (a set of readers per text) implemented by `SecureMessaging` in the instances
   without the violations above; `LiveUpdates` as an implementation of the simple session of `SecureMessaging`.
3. Composition: `Invitations` with `SecureMessaging`, for the KeyPackage that two rooms are given; overlapping runtimes
   with the Canton transport.

## 6. Not modelled

* Ledger submissions that several parties sign together, and holdings moved outside deals.
* The registry's HTTP client and directory (`registry-directory.ts`, `token-registry-client.ts`): requests whose
  answers the contracts check again.
* Message contents, codecs and JSON formats: pure functions on text; formatting and validation of links and checkpoints.
* The user interface beyond the calls it makes of the runtimes; catalogues of jobs and the list of rooms.
* The OpenMLS library and its bindings: abstracted to which key a ciphertext consumes and which commits made an epoch.
* Ledger reads and registry requests that the DevNet server passes on; wallets other than DevNet's, which are libraries.
* `ProvideKeyPackage`, `Allocation_Cancel`, the store's `clear()` and the bridge's `clearPendingCommit`: nothing calls them.
* The relay's fetching of ciphertexts: a conversation over a relay is read as one over the ledger is, without its order.
