------------------------------ MODULE LiveUpdates ------------------------------
(***************************************************************************)
(* How a page follows the ledger: the live session                         *)
(* (src/messaging/canton/live-session.ts) over one of the two update       *)
(* streams, the polling one of the wallets                                 *)
(* (frontend/lib/canton-polling-update-stream.ts) or the WebSocket one     *)
(* (src/canton/websocket-update-stream.ts), the reads of the ledger client *)
(* they use, and the positions persisted per room.                         *)
(*                                                                         *)
(* Nothing cancels what a session has begun: a batch in progress runs on   *)
(* when its socket drops or its page is left, beside the threads of the    *)
(* next connection and of the next page.  A thread is the promise chain of *)
(* a start or of a subscription; every await ends a step.  What            *)
(* provider.sync does with the events is the subject of SecureMessaging:   *)
(* here it stores everything the ledger holds for the room, or fails.      *)
(***************************************************************************)
EXTENDS Integers, Sequences, FiniteSets, FiniteSetsExt

CONSTANTS
  Rooms,       \* conversations a browser visits
  Kinds,       \* update streams in use: a subset of {"polling", "socket"}
  MaxLog,      \* bound: ledger transactions
  MaxVisits,   \* bound: pages opened
  MaxThreads,  \* bound: starts and subscriptions
  MaxFaults,   \* bound: failed batches, dropped sockets, reloads
  None         \* a transaction of no room; no offset persisted

ASSUME RoomsAssumption == None \notin Rooms \cup Nat
ASSUME KindsAssumption == Kinds \subseteq {"polling", "socket"}
ASSUME BoundsAssumption == {MaxLog, MaxVisits, MaxThreads, MaxFaults} \subseteq Nat

VARIABLES
  log,      \* the room of each ledger transaction, in offset order
  pruned,   \* the participant keeps only the updates after this offset
  stored,   \* per room, the last event that was processed and stored locally
  cursor,   \* per room, the persisted message cursor
  offset,   \* per room, the persisted ledger offset
  visits,   \* the pages opened so far, and the state of their sessions
  threads,  \* the promise chains started so far
  skipped,  \* rooms for which a stream went on after a batch that failed
  faults

ledger == <<log, pruned>>
persisted == <<stored, cursor, offset>>
vars == <<ledger, persisted, visits, threads, skipped, faults>>

-----------------------------------------------------------------------------
\* `shown` is the last event the page displays, `last` the session's offset,
\* `timer` its reconnection timer, `woken` that its latest batch was handled to the end.
Visit(r, kind) ==
  [room |-> r, kind |-> kind, status |-> "starting", closed |-> FALSE, timer |-> FALSE,
   last |-> 0, shown |-> stored[r], woken |-> FALSE]

\* `pos` is how far a thread has come, `upto` the batch it works on, `got` the
\* last frame its socket received, `read` what its last sync returned.
Thread(v, kind, link, pos, pc) ==
  [visit |-> v, kind |-> kind, link |-> link, pos |-> pos, got |-> pos, upto |-> pos,
   read |-> 0, pc |-> pc]

VisitOf(k) == visits[threads[k].visit]
RoomOf(k) == VisitOf(k).room
At(k, pc) == threads[k].pc = pc

LastEvent(r) == Max({i \in DOMAIN log : log[i] = r} \cup {0})

\* relevantConversations, restricted to the page's room.
Concerns(k, after, upto) == \E i \in after + 1 .. upto : log[i] = RoomOf(k)

\* queryCreatedContractsSince: when updates from there on are pruned, the
\* contracts still active, which messages and deliveries always are.
CreatedSince(after) ==
  {i \in after + 1 .. Len(log) : after < pruned => log[i] # None}

SetThread(k, t) == threads' = [threads EXCEPT ![k] = t]

\* A thread that has nothing left to do.
Over(k) == [threads[k] EXCEPT !.pc = "over", !.pos = 0, !.upto = 0, !.got = 0, !.read = 0]

Begin(k, after, upto) ==
  SetThread(k, [threads[k] EXCEPT
    !.pos = after, !.upto = upto,
    !.pc = IF Concerns(k, after, upto) THEN "sync" ELSE "offset"])

-----------------------------------------------------------------------------
\* Pages

\* A page shows the stored history, then starts the session; an application
\* uses one of the two streams for all its pages.
OpenPage(r, kind) ==
  /\ Len(visits) < MaxVisits /\ Len(threads) < MaxThreads
  /\ \A v \in DOMAIN visits :
       visits[v].kind = kind /\ visits[v].status \notin {"starting", "live"}
  /\ visits' = Append(visits, Visit(r, kind))
  /\ threads' = Append(threads, Thread(Len(visits) + 1, "start", "none", 0, "load"))
  /\ UNCHANGED <<ledger, persisted, skipped, faults>>

\* close() of a running session; a page whose start failed has nothing to close.
LeavePage(v) ==
  /\ visits[v].status \in {"live", "failed"}
  /\ LET live == visits[v].status = "live"
     IN  /\ visits' = [visits EXCEPT ![v] =
              [visits[v] EXCEPT !.status = "left", !.closed = live, !.timer = @ /\ ~live]]
         /\ threads' = [k \in DOMAIN threads |->
              IF live /\ threads[k].visit = v /\ threads[k].link = "open"
              THEN [threads[k] EXCEPT !.link = "closed"] ELSE threads[k]]
  /\ UNCHANGED <<ledger, persisted, skipped, faults>>

\* A reload ends every page and every thread of the tab.
Reload ==
  /\ faults < MaxFaults
  /\ faults' = faults + 1
  /\ visits' = [v \in DOMAIN visits |->
       [visits[v] EXCEPT !.status = "left", !.closed = TRUE, !.timer = FALSE]]
  /\ threads' = [k \in DOMAIN threads |-> [Over(k) EXCEPT !.link = "closed"]]
  /\ UNCHANGED <<ledger, persisted, skipped>>

-----------------------------------------------------------------------------
\* start(): resume from the persisted offset, or from a snapshot

LoadOffset(k) ==
  LET r == RoomOf(k)
  IN  /\ At(k, "load")
      /\ IF offset[r] = None
         THEN /\ SetThread(k, [threads[k] EXCEPT !.pc = "snapshot"])
              /\ UNCHANGED visits
         ELSE /\ SetThread(k, [threads[k] EXCEPT !.pc = "subscribe"])
              /\ visits' = [visits EXCEPT ![threads[k].visit].last = offset[r]]
      /\ UNCHANGED <<ledger, persisted, skipped, faults>>

TakeSnapshot(k) ==
  /\ At(k, "snapshot")
  /\ Begin(k, 0, Len(log))
  /\ UNCHANGED <<ledger, persisted, visits, skipped, faults>>

\* A poller subscribes at once; a socket first has to open.
Subscribe(k) ==
  LET v == threads[k].visit
      polling == visits[v].kind = "polling"
  IN  /\ At(k, "subscribe")
      /\ Len(threads) < MaxThreads
      /\ threads' = Append([threads EXCEPT ![k] = Over(k)],
           Thread(v, visits[v].kind, IF polling THEN "open" ELSE "opening",
                  visits[v].last, "idle"))
      /\ visits' = [visits EXCEPT ![v].status = IF polling THEN "live" ELSE @]
      /\ UNCHANGED <<ledger, persisted, skipped, faults>>

-----------------------------------------------------------------------------
\* processContracts and onBatch

Sync(k) ==
  LET r == RoomOf(k)
  IN  /\ At(k, "sync")
      /\ stored' = [stored EXCEPT ![r] = LastEvent(r)]
      /\ SetThread(k, [threads[k] EXCEPT
           !.read = LastEvent(r),
           !.pc = IF LastEvent(r) > cursor[r] THEN "show" ELSE "offset"])
      /\ UNCHANGED <<ledger, cursor, offset, visits, skipped, faults>>

\* onMessages; a page that was left ignores it.
Display(v, upto) ==
  visits' = [visits EXCEPT ![v].shown =
               IF visits[v].closed THEN @ ELSE Max({@, upto})]

Show(k) ==
  /\ At(k, "show")
  /\ Display(threads[k].visit, threads[k].read)
  /\ SetThread(k, [threads[k] EXCEPT !.pc = "cursor"])
  /\ UNCHANGED <<ledger, persisted, skipped, faults>>

SaveCursor(k) ==
  /\ At(k, "cursor")
  /\ cursor' = [cursor EXCEPT ![RoomOf(k)] = threads[k].read]
  /\ SetThread(k, [threads[k] EXCEPT !.pc = "offset", !.read = 0])
  /\ UNCHANGED <<ledger, stored, offset, visits, skipped, faults>>

\* Mutant: one offset for all rooms.
SaveSharedOffset(k) ==
  /\ At(k, "offset")
  /\ offset' = [r \in Rooms |-> threads[k].upto]
  /\ visits' = [visits EXCEPT ![threads[k].visit].last = threads[k].upto]
  /\ SetThread(k, [threads[k] EXCEPT !.pc = "after"])
  /\ UNCHANGED <<ledger, stored, cursor, skipped, faults>>

SaveOffset(k) ==
  /\ At(k, "offset")
  /\ offset' = [offset EXCEPT ![RoomOf(k)] = threads[k].upto]
  /\ visits' = [visits EXCEPT ![threads[k].visit].last = threads[k].upto]
  /\ SetThread(k, [threads[k] EXCEPT !.pc = "after"])
  /\ UNCHANGED <<ledger, stored, cursor, skipped, faults>>

\* Mutant: the page does not look at the stored history again.
AfterBatchUnlisted(k) ==
  /\ At(k, "after")
  /\ visits' = [visits EXCEPT ![threads[k].visit].woken = TRUE]
  /\ SetThread(k, [threads[k] EXCEPT
       !.pos = threads[k].upto, !.pc = IF threads[k].kind = "start" THEN "subscribe" ELSE "idle"])
  /\ UNCHANGED <<ledger, persisted, skipped, faults>>

\* onLedgerOffset of the room displays the stored history again.
AfterBatch(k) ==
  LET v == threads[k].visit
  IN  /\ At(k, "after")
      /\ visits' = [visits EXCEPT ![v] =
           [visits[v] EXCEPT !.woken = TRUE,
                     !.shown = IF visits[v].closed THEN @ ELSE Max({@, stored[RoomOf(k)]})]]
      /\ SetThread(k, [threads[k] EXCEPT
           !.pos = threads[k].upto, !.pc = IF threads[k].kind = "start" THEN "subscribe" ELSE "idle"])
      /\ UNCHANGED <<ledger, persisted, skipped, faults>>

\* Mutant: a failed batch ends the subscription.
FailForGood(k) ==
  /\ threads[k].pc \in {"sync", "show", "cursor", "offset", "after"}
  /\ faults < MaxFaults
  /\ faults' = faults + 1
  /\ SetThread(k, [Over(k) EXCEPT !.link = "closed"])
  /\ UNCHANGED <<ledger, persisted, visits, skipped>>

\* A sync, a callback or a write throws.  A poller tries the same batch again,
\* a socket goes on with the next frame, a start is over.
FailBatch(k) ==
  LET t == threads[k]
  IN  /\ t.pc \in {"sync", "show", "cursor", "offset", "after"}
      /\ faults < MaxFaults
      /\ faults' = faults + 1
      /\ SetThread(k, IF t.kind = "start" THEN Over(k)
                      ELSE [t EXCEPT !.pc = "idle", !.read = 0,
                                     !.pos = IF t.kind = "socket" THEN t.upto ELSE @])
      /\ visits' = [visits EXCEPT ![t.visit] =
           [visits[t.visit] EXCEPT !.woken = FALSE,
                     !.status = IF t.kind = "start" THEN "failed" ELSE @]]
      /\ skipped' = IF t.kind = "socket" /\ t.pc # "after" THEN skipped \cup {RoomOf(k)} ELSE skipped
      /\ UNCHANGED <<ledger, persisted>>

-----------------------------------------------------------------------------
\* The polling stream: the snapshot's offset first, then the updates.

Poll(k) ==
  /\ threads[k].kind = "polling" /\ At(k, "idle")
  /\ threads[k].link = "open"
  /\ Len(log) > threads[k].pos
  /\ SetThread(k, [threads[k] EXCEPT !.got = Len(log), !.pc = "read"])
  /\ UNCHANGED <<ledger, persisted, visits, skipped, faults>>

ReadUpdates(k) ==
  LET t == threads[k]
  IN  /\ At(k, "read")
      /\ IF t.link = "closed"
         THEN SetThread(k, Over(k))
         ELSE Begin(k, t.pos, IF CreatedSince(t.pos) # {} THEN Max(CreatedSince(t.pos)) ELSE t.got)
      /\ UNCHANGED <<ledger, persisted, visits, skipped, faults>>

-----------------------------------------------------------------------------
\* The WebSocket stream: frames queue up behind the batch being processed.

\* Mutant: nobody looks whether the session was closed meanwhile.
OpenRegardless(k) ==
  LET v == threads[k].visit
  IN  /\ threads[k].link = "opening"
      /\ SetThread(k, [threads[k] EXCEPT !.link = "open"])
      /\ visits' = [visits EXCEPT ![v].status = IF @ = "starting" THEN "live" ELSE @]
      /\ UNCHANGED <<ledger, persisted, skipped, faults>>

OpenSocket(k) ==
  LET v == threads[k].visit
  IN  /\ threads[k].link = "opening"
      /\ SetThread(k, [threads[k] EXCEPT !.link = IF visits[v].closed THEN "closed" ELSE "open"])
      /\ visits' = [visits EXCEPT ![v].status = IF @ = "starting" THEN "live" ELSE @]
      /\ UNCHANGED <<ledger, persisted, skipped, faults>>

\* The socket errs before it opens, or drops later: onClose sets the timer, and
\* a start that waited for it fails.
DropSocket(k) ==
  LET v == threads[k].visit
  IN  /\ threads[k].kind = "socket"
      /\ threads[k].link \in {"opening", "open"}
      /\ faults < MaxFaults
      /\ faults' = faults + 1
      /\ SetThread(k, [threads[k] EXCEPT !.link = "closed"])
      /\ visits' = [visits EXCEPT ![v] =
           [visits[v] EXCEPT !.timer = ~visits[v].closed,
                     !.status = IF @ = "starting" THEN "failed" ELSE @]]
      /\ UNCHANGED <<ledger, persisted, skipped>>

\* Mutant: the timer that fired is still set.
ReconnectAgain(v) ==
  /\ visits[v].timer
  /\ Len(threads) < MaxThreads
  /\ threads' = Append(threads, Thread(v, "socket", "opening", visits[v].last, "idle"))
  /\ UNCHANGED <<ledger, persisted, visits, skipped, faults>>

Reconnect(v) ==
  /\ visits[v].timer
  /\ Len(threads) < MaxThreads
  /\ visits' = [visits EXCEPT ![v].timer = FALSE]
  /\ threads' = Append(threads, Thread(v, "socket", "opening", visits[v].last, "idle"))
  /\ UNCHANGED <<ledger, persisted, skipped, faults>>

\* Mutant: one frame too many.
ReceiveFrameTooMany(k) ==
  /\ threads[k].kind = "socket" /\ threads[k].link = "open"
  /\ threads[k].got <= Len(log) /\ threads[k].got >= pruned
  /\ SetThread(k, [threads[k] EXCEPT !.got = @ + 1])
  /\ UNCHANGED <<ledger, persisted, visits, skipped, faults>>

\* A stream that would have to begin in the pruned range delivers nothing.
ReceiveFrame(k) ==
  /\ threads[k].kind = "socket" /\ threads[k].link = "open"
  /\ threads[k].got < Len(log) /\ threads[k].got >= pruned
  /\ SetThread(k, [threads[k] EXCEPT !.got = @ + 1])
  /\ UNCHANGED <<ledger, persisted, visits, skipped, faults>>

TakeFrame(k) ==
  /\ threads[k].kind = "socket" /\ At(k, "idle")
  /\ threads[k].pos < threads[k].got
  /\ Begin(k, threads[k].pos, threads[k].pos + 1)
  /\ UNCHANGED <<ledger, persisted, visits, skipped, faults>>

-----------------------------------------------------------------------------
\* The ledger

Publish(e) ==
  /\ Len(log) < MaxLog
  /\ log' = Append(log, e)
  /\ UNCHANGED <<pruned, persisted, visits, threads, skipped, faults>>

Prune ==
  /\ pruned < Len(log)
  /\ pruned' = Len(log)
  /\ UNCHANGED <<log, persisted, visits, threads, skipped, faults>>

-----------------------------------------------------------------------------
Init ==
  /\ log = <<>>
  /\ pruned = 0
  /\ stored = [r \in Rooms |-> 0]
  /\ cursor = [r \in Rooms |-> 0]
  /\ offset = [r \in Rooms |-> None]
  /\ visits = <<>>
  /\ threads = <<>>
  /\ skipped = {}
  /\ faults = 0

\* The steps of a thread.
Run(k) ==
  \/ LoadOffset(k)
  \/ TakeSnapshot(k)
  \/ Subscribe(k)
  \/ Sync(k)
  \/ Show(k)
  \/ SaveCursor(k)
  \/ SaveOffset(k)
  \/ AfterBatch(k)
  \/ Poll(k)
  \/ ReadUpdates(k)
  \/ OpenSocket(k)
  \/ ReceiveFrame(k)
  \/ TakeFrame(k)

Next ==
  \/ \E r \in Rooms, kind \in Kinds : OpenPage(r, kind)
  \/ \E v \in DOMAIN visits : LeavePage(v)
  \/ \E v \in DOMAIN visits : Reconnect(v)
  \/ \E k \in DOMAIN threads : Run(k)
  \/ \E k \in DOMAIN threads : FailBatch(k)
  \/ \E k \in DOMAIN threads : DropSocket(k)
  \/ Reload
  \/ \E e \in Rooms \cup {None} : Publish(e)
  \/ Prune

Spec == Init /\ [][Next]_vars

\* Promise chains run on, and timers fire.
Fairness ==
  /\ \A k \in 1 .. MaxThreads : WF_vars(k \in DOMAIN threads /\ Run(k))
  /\ \A v \in 1 .. MaxVisits : WF_vars(v \in DOMAIN visits /\ Reconnect(v))

LiveSpec == Spec /\ Fairness

-----------------------------------------------------------------------------
\* Properties

TypeOK ==
  /\ log \in Seq(Rooms \cup {None})
  /\ pruned \in 0 .. Len(log)
  /\ stored \in [Rooms -> 0 .. Len(log)]
  /\ cursor \in [Rooms -> 0 .. Len(log)]
  /\ offset \in [Rooms -> 0 .. Len(log) \cup {None}]
  /\ \A v \in DOMAIN visits :
       /\ visits[v].room \in Rooms /\ visits[v].kind \in Kinds
       /\ visits[v].status \in {"starting", "live", "failed", "left"}
       /\ {visits[v].last, visits[v].shown} \subseteq 0 .. Len(log)
  /\ \A k \in DOMAIN threads :
       /\ threads[k].visit \in DOMAIN visits
       /\ threads[k].kind \in Kinds \cup {"start"}
       /\ threads[k].link \in {"none", "opening", "open", "closed"}
       /\ {threads[k].pos, threads[k].upto, threads[k].got, threads[k].read} \subseteq 0 .. Len(log)
  /\ skipped \subseteq Rooms

\* Up to position p, everything of room r was processed and stored.
Processed(r, p) == \A i \in 1 .. p : log[i] = r => i <= stored[r]

\* Every position the code resumes from, persisted or in memory, is one up to
\* which the room was processed, whatever failed, dropped or ran in parallel;
\* except after a WebSocket stream went on past a batch that failed.
ResumesBehind ==
  \A r \in Rooms \ skipped :
    /\ offset[r] # None => Processed(r, offset[r])
    /\ Processed(r, cursor[r])
    /\ \A v \in DOMAIN visits : visits[v].room = r => Processed(r, visits[v].last)

\* A session that was closed keeps no subscription open, not even one that was
\* being opened when it was closed.
ClosedMeansClosed ==
  \A k \in DOMAIN threads : threads[k].link = "open" => ~VisitOf(k).closed

\* A session never has two subscriptions at once.
OneSubscription ==
  \A k, l \in DOMAIN threads :
    (threads[k].visit = threads[l].visit /\ {threads[k].link, threads[l].link} \subseteq {"opening", "open"})
      => k = l

\* A page whose session has handled a batch since it was opened, the latest one
\* without a failure, and has nothing left to do, shows everything the room
\* holds: also what a thread of the page before it stored meanwhile.
Quiet(v) ==
  /\ visits[v].last = Len(log)
  /\ \A k \in DOMAIN threads : RoomOf(k) = visits[v].room => threads[k].pc \in {"idle", "over"}

PageIsComplete ==
  \A v \in DOMAIN visits :
    (/\ visits[v].status = "live" /\ visits[v].woken /\ Quiet(v)
     /\ visits[v].room \notin skipped)
      => visits[v].shown = LastEvent(visits[v].room)

\* What is on the ledger for the room of an open page is eventually stored,
\* whatever failed, dropped or ran in parallel on the way.  (Of a socket this
\* cannot be said: one that has to begin in the pruned range, or went past a
\* failed batch, waits for the next event.)
Behind(v, i) ==
  visits[v].status = "live" /\ log[i] = visits[v].room /\ stored[log[i]] < i

CatchesUp ==
  []<>(\A v \in DOMAIN visits, i \in DOMAIN log :
         Behind(v, i) => visits[v].kind = "socket" \/ log[i] \in skipped)

-----------------------------------------------------------------------------
\* What the documentation says of the session: cursors are persisted only after
\* the delivery callbacks succeeded.
CursorsFollowDelivery == \A r \in Rooms : offset[r] # None => Processed(r, offset[r])
=============================================================================
