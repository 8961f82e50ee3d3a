-------------------------- MODULE LiveUpdates_proofs --------------------------
(***************************************************************************)
(* Theorems about LiveUpdates, for every set of rooms, either update       *)
(* stream and every bound, checked by TLAPS.                               *)
(***************************************************************************)
EXTENDS LiveUpdates, SequenceTheorems, WellFoundedInduction, TLAPS

-----------------------------------------------------------------------------
\* Numbers and sequences

LEMMA LeastNatural ==
  ASSUME NEW S, S \subseteq Nat, S # {}
  PROVE  \E x \in S : \A y \in S : x <= y
<1>1. PICK x \in S : \A y \in S : <<y, x>> \notin OpToRel(<, Nat)
  BY NatLessThanWellFounded, WFMin
<1>2. \A y \in S : ~ (y < x)
  BY <1>1 DEF OpToRel
<1> QED
  BY <1>2

LEMMA MaxIsGreatest ==
  ASSUME NEW n \in Nat, NEW S, S \subseteq 0 .. n, S # {}
  PROVE  Max(S) \in S /\ \A y \in S : y <= Max(S)
<1> DEFINE T == {n - x : x \in S}
<1>1. \A x \in S : x \in Nat /\ n - x \in Nat
  OBVIOUS
<1>2. T \subseteq Nat /\ T # {}
  BY <1>1, Zenon
<1>3. PICK t \in T : \A u \in T : t <= u
  BY <1>2, LeastNatural
<1>4. PICK x \in S : t = n - x
  BY <1>3
<1>5. \A y \in S : x >= y
  BY <1>3, <1>4
<1> QED
  BY <1>4, <1>5 DEF Max

LEMMA FunctionIsSeq ==
  ASSUME NEW S, NEW n \in Nat, NEW f \in [1 .. n -> S]
  PROVE  f \in Seq(S) /\ Len(f) = n
BY SeqDef

-----------------------------------------------------------------------------
\* Type correctness

VisitType ==
  [room : Rooms, kind : Kinds, status : {"starting", "live", "failed", "left"},
   closed : BOOLEAN, timer : {b \in BOOLEAN : b => "socket" \in Kinds},  \* set for sockets only
   last : 0 .. Len(log), shown : 0 .. Len(log), woken : BOOLEAN]

ThreadType ==
  [visit : 1 .. Len(visits), kind : Kinds \cup {"start"},
   link : {"none", "opening", "open", "closed"},
   pos : 0 .. Len(log), got : 0 .. Len(log), upto : 0 .. Len(log), read : 0 .. Len(log),
   pc : {"load", "snapshot", "subscribe", "sync", "show", "cursor", "offset", "after",
         "idle", "read", "over"}]

TypeInv ==
  /\ log \in Seq(Rooms \cup {None})
  /\ pruned \in 0 .. Len(log)
  /\ stored \in [Rooms -> 0 .. Len(log)]
  /\ cursor \in [Rooms -> 0 .. Len(log)]
  /\ offset \in [Rooms -> 0 .. Len(log) \cup {None}]
  /\ visits \in Seq(VisitType)
  /\ threads \in Seq(ThreadType)
  /\ skipped \subseteq Rooms

\* The last event of a room is a position of the log, and no event comes after it.
LEMMA LastEventIsLast ==
  ASSUME TypeInv, NEW r \in Rooms
  PROVE  /\ LastEvent(r) \in 0 .. Len(log)
         /\ LastEvent(r) # 0 => log[LastEvent(r)] = r
         /\ \A i \in 1 .. Len(log) : log[i] = r => i <= LastEvent(r)
<1> DEFINE S == {i \in DOMAIN log : log[i] = r} \cup {0}
<1>1. Len(log) \in Nat /\ DOMAIN log = 1 .. Len(log)
  BY DEF TypeInv
<1>2. S \subseteq 0 .. Len(log) /\ S # {}
  BY <1>1
<1>3. Max(S) \in S /\ \A i \in S : i <= Max(S)
  BY <1>1, <1>2, MaxIsGreatest
<1>4. LastEvent(r) = Max(S)
  BY DEF LastEvent
<1> QED
  BY <1>1, <1>2, <1>3, <1>4

\* What is known of a thread, its page and its room.
LEMMA ThreadFacts ==
  ASSUME TypeInv, NEW k \in DOMAIN threads
  PROVE  /\ Len(log) \in Nat
         /\ k \in 1 .. Len(threads) /\ threads[k] \in ThreadType
         /\ threads[k].visit \in DOMAIN visits /\ VisitOf(k) \in VisitType
         /\ RoomOf(k) \in Rooms
<1>1. Len(log) \in Nat /\ DOMAIN threads = 1 .. Len(threads) /\ DOMAIN visits = 1 .. Len(visits)
  BY DEF TypeInv
<1>2. threads[k] \in ThreadType
  BY <1>1 DEF TypeInv
<1>3. threads[k].visit \in DOMAIN visits
  BY <1>1, <1>2 DEF ThreadType
<1>4. VisitOf(k) \in VisitType
  BY <1>1, <1>3 DEF TypeInv, VisitOf
<1> QED
  BY <1>1, <1>2, <1>3, <1>4 DEF RoomOf, VisitType

LEMMA VisitFacts ==
  ASSUME TypeInv, NEW v \in DOMAIN visits
  PROVE  /\ Len(log) \in Nat /\ {0, Len(log)} \subseteq 0 .. Len(log)
         /\ v \in 1 .. Len(visits) /\ visits[v] \in VisitType
<1>1. Len(log) \in Nat /\ DOMAIN visits = 1 .. Len(visits)
  BY DEF TypeInv
<1>2. visits[v] \in VisitType
  BY <1>1 DEF TypeInv
<1> QED
  BY <1>1, <1>2

\* A step of one thread on its own state; and one on its page as well.
LEMMA SetThreadTyped ==
  ASSUME TypeInv, NEW k \in DOMAIN threads, NEW t \in ThreadType, SetThread(k, t)
  PROVE  /\ threads' \in Seq(ThreadType)
         /\ DOMAIN threads' = DOMAIN threads
         /\ threads'[k] = t
         /\ \A j \in DOMAIN threads : j # k => threads'[j] = threads[j]
BY DEF TypeInv, SetThread

LEMMA SetVisitTyped ==
  ASSUME TypeInv, NEW v \in DOMAIN visits, NEW w \in VisitType,
         visits' = [visits EXCEPT ![v] = w]
  PROVE  /\ visits' \in Seq(VisitType)
         /\ Len(visits') = Len(visits) /\ DOMAIN visits' = DOMAIN visits
         /\ visits'[v] = w
         /\ \A u \in DOMAIN visits : u # v => visits'[u] = visits[u]
BY DEF TypeInv

\* Begin sends a thread on with a batch of the ledger.
LEMMA BeginTyped ==
  ASSUME TypeInv, NEW k \in DOMAIN threads,
         NEW after \in 0 .. Len(log), NEW upto \in 0 .. Len(log), Begin(k, after, upto)
  PROVE  /\ threads' \in Seq(ThreadType)
         /\ DOMAIN threads' = DOMAIN threads
         /\ threads'[k] = [threads[k] EXCEPT !.pos = after, !.upto = upto,
                             !.pc = IF Concerns(k, after, upto) THEN "sync" ELSE "offset"]
         /\ \A j \in DOMAIN threads : j # k => threads'[j] = threads[j]
<1> DEFINE t == [threads[k] EXCEPT !.pos = after, !.upto = upto,
                   !.pc = IF Concerns(k, after, upto) THEN "sync" ELSE "offset"]
<1>1. t \in ThreadType
  BY ThreadFacts DEF ThreadType
<1>2. SetThread(k, t)
  BY DEF Begin
<1> HIDE DEF t
<1>3. /\ threads' \in Seq(ThreadType)
      /\ DOMAIN threads' = DOMAIN threads
      /\ threads'[k] = t
      /\ \A j \in DOMAIN threads : j # k => threads'[j] = threads[j]
  BY <1>1, <1>2, SetThreadTyped
<1> QED
  BY <1>3 DEF t

\* The updates a poll reads end within the ledger.
LEMMA PollEnds ==
  ASSUME TypeInv, NEW k \in DOMAIN threads
  PROVE  (IF CreatedSince(threads[k].pos) # {} THEN Max(CreatedSince(threads[k].pos))
          ELSE threads[k].got) \in 0 .. Len(log)
<1>1. Len(log) \in Nat /\ threads[k] \in ThreadType
  BY ThreadFacts
<1>2. CreatedSince(threads[k].pos) \subseteq 0 .. Len(log)
  BY <1>1 DEF CreatedSince, ThreadType
<1>3. CreatedSince(threads[k].pos) # {} =>
        Max(CreatedSince(threads[k].pos)) \in CreatedSince(threads[k].pos)
  BY <1>1, <1>2, MaxIsGreatest
<1> QED
  BY <1>1, <1>2, <1>3 DEF ThreadType

\* A step that changes one thread keeps the types, and so does one that changes
\* its page too.
PersistedType ==
  /\ stored \in [Rooms -> 0 .. Len(log)]
  /\ cursor \in [Rooms -> 0 .. Len(log)]
  /\ offset \in [Rooms -> 0 .. Len(log) \cup {None}]
  /\ skipped \subseteq Rooms

LEMMA ThreadStepTyped ==
  ASSUME TypeInv, NEW k \in DOMAIN threads, NEW t \in ThreadType, SetThread(k, t),
         UNCHANGED <<ledger, visits>>, PersistedType'
  PROVE  TypeInv'
<1>1. threads' \in Seq(ThreadType)
  BY SetThreadTyped
<1> QED
  BY <1>1 DEF TypeInv, PersistedType, ledger, ThreadType, VisitType

LEMMA PageStepTyped ==
  ASSUME TypeInv, NEW k \in DOMAIN threads, NEW t \in ThreadType, SetThread(k, t),
         NEW v \in DOMAIN visits, NEW w \in VisitType, visits' = [visits EXCEPT ![v] = w],
         UNCHANGED ledger, PersistedType'
  PROVE  TypeInv'
<1>1. threads' \in Seq(ThreadType) /\ visits' \in Seq(VisitType) /\ Len(visits') = Len(visits)
  BY SetThreadTyped, SetVisitTyped
<1> QED
  BY <1>1 DEF TypeInv, PersistedType, ledger, ThreadType, VisitType

LEMMA PersistedKept ==
  ASSUME TypeInv, UNCHANGED <<ledger, persisted, skipped>>
  PROVE  PersistedType'
BY DEF TypeInv, PersistedType, ledger, persisted

LEMMA BeginStepTyped ==
  ASSUME TypeInv, NEW k \in DOMAIN threads,
         NEW after \in 0 .. Len(log), NEW upto \in 0 .. Len(log), Begin(k, after, upto),
         UNCHANGED <<ledger, persisted, visits, skipped>>
  PROVE  TypeInv'
<1>1. threads' \in Seq(ThreadType)
  BY BeginTyped
<1> QED
  BY <1>1 DEF TypeInv, ledger, persisted, ThreadType, VisitType

LEMMA NewThreadTyped ==
  ASSUME TypeInv, NEW s \in Seq(ThreadType), NEW t \in ThreadType, threads' = Append(s, t)
  PROVE  /\ threads' \in Seq(ThreadType)
         /\ DOMAIN threads' = DOMAIN s \cup {Len(s) + 1}
         /\ \A j \in DOMAIN s : threads'[j] = s[j]
         /\ threads'[Len(s) + 1] = t
         /\ Len(s) + 1 \notin DOMAIN s
OBVIOUS

LEMMA OverTyped ==
  ASSUME TypeInv, NEW k \in DOMAIN threads
  PROVE  /\ Over(k) \in ThreadType
         /\ Over(k).pc = "over"
         /\ Over(k).visit = threads[k].visit /\ Over(k).kind = threads[k].kind
         /\ Over(k).link = threads[k].link
         /\ Over(k).pos = 0 /\ Over(k).upto = 0 /\ Over(k).got = 0 /\ Over(k).read = 0
         /\ [Over(k) EXCEPT !.link = "closed"] \in ThreadType
<1>1. threads[k] \in ThreadType /\ 0 \in 0 .. Len(log)
  BY ThreadFacts
<1>2. Over(k) \in ThreadType
  BY <1>1 DEF Over, ThreadType
<1>3. [Over(k) EXCEPT !.link = "closed"] \in ThreadType
  BY <1>2 DEF ThreadType
<1>4. /\ Over(k).pc = "over"
      /\ Over(k).visit = threads[k].visit /\ Over(k).kind = threads[k].kind
      /\ Over(k).link = threads[k].link
      /\ Over(k).pos = 0 /\ Over(k).upto = 0 /\ Over(k).got = 0 /\ Over(k).read = 0
  BY <1>1 DEF Over, ThreadType
<1> QED
  BY <1>2, <1>3, <1>4

LEMMA RunTyped ==
  ASSUME TypeInv, NEW k \in DOMAIN threads, Run(k)
  PROVE  TypeInv'
<1> DEFINE v == threads[k].visit
           r == RoomOf(k)
<1>0. /\ Len(log) \in Nat /\ {0, Len(log)} \subseteq 0 .. Len(log)
      /\ threads[k] \in ThreadType
      /\ v \in DOMAIN visits /\ visits[v] \in VisitType /\ r \in Rooms
  BY ThreadFacts DEF VisitOf
<1>1. CASE LoadOffset(k)
  <2> DEFINE t == [threads[k] EXCEPT !.pc = IF offset[r] = None THEN "snapshot" ELSE "subscribe"]
             w == [visits[v] EXCEPT !.last = offset[r]]
  <2>1. t \in ThreadType /\ SetThread(k, t) /\ UNCHANGED ledger /\ PersistedType'
    BY <1>0, <1>1, PersistedKept DEF LoadOffset, ThreadType
  <2>2. CASE offset[r] = None
    BY <1>1, <2>1, <2>2, ThreadStepTyped DEF LoadOffset
  <2>3. CASE offset[r] # None
    <3>1. w \in VisitType /\ visits' = [visits EXCEPT ![v] = w]
      BY <1>0, <1>1, <2>3 DEF LoadOffset, VisitType, TypeInv
    <3> HIDE DEF t, w
    <3> QED
      BY <1>0, <2>1, <3>1, PageStepTyped
  <2> QED
    BY <2>2, <2>3
<1>2. CASE TakeSnapshot(k)
  BY <1>0, <1>2, BeginStepTyped DEF TakeSnapshot
<1>3. CASE Subscribe(k)
  <2> DEFINE polling == visits[v].kind = "polling"
             t == Thread(v, visits[v].kind, IF polling THEN "open" ELSE "opening",
                         visits[v].last, "idle")
             w == [visits[v] EXCEPT !.status = IF polling THEN "live" ELSE @]
             s == [threads EXCEPT ![k] = Over(k)]
  <2>0. v \in 1 .. Len(visits) /\ visits[v].last \in 0 .. Len(log) /\ visits[v].kind \in Kinds
    BY <1>0 DEF VisitType, ThreadType
  <2>1. t \in ThreadType
    BY <1>0, <2>0 DEF Thread, ThreadType
  <2>2. w \in VisitType
    BY <1>0 DEF VisitType
  <2>3. threads' = Append(s, t) /\ visits' = [visits EXCEPT ![v] = w]
    BY <1>3 DEF Subscribe
  <2>4. s \in Seq(ThreadType)
    <3>1. threads \in Seq(ThreadType) /\ k \in 1 .. Len(threads) /\ Over(k) \in ThreadType
      BY ThreadFacts, OverTyped DEF TypeInv
    <3> QED
      BY <3>1
  <2> HIDE DEF t, w, s
  <2>5. threads' \in Seq(ThreadType) /\ visits' \in Seq(VisitType) /\ Len(visits') = Len(visits)
    BY <1>0, <2>1, <2>2, <2>3, <2>4, NewThreadTyped, SetVisitTyped
  <2> QED
    BY <1>3, <2>5 DEF Subscribe, TypeInv, ledger, persisted, ThreadType, VisitType
<1>4. CASE Sync(k)
  <2> DEFINE t == [threads[k] EXCEPT !.read = LastEvent(r),
                     !.pc = IF LastEvent(r) > cursor[r] THEN "show" ELSE "offset"]
  <2>1. LastEvent(r) \in 0 .. Len(log)
    BY <1>0, LastEventIsLast
  <2>2. t \in ThreadType /\ SetThread(k, t)
    BY <1>0, <1>4, <2>1 DEF Sync, ThreadType
  <2>3. PersistedType' /\ UNCHANGED <<ledger, visits>>
    BY <1>0, <1>4, <2>1 DEF Sync, PersistedType, TypeInv, ledger
  <2> HIDE DEF t
  <2> QED
    BY <2>2, <2>3, ThreadStepTyped
<1>5. CASE Show(k)
  <2> DEFINE t == [threads[k] EXCEPT !.pc = "cursor"]
             w == [visits[v] EXCEPT !.shown =
                     IF visits[v].closed THEN @ ELSE Max({@, threads[k].read})]
  <2>1. t \in ThreadType /\ SetThread(k, t) /\ visits' = [visits EXCEPT ![v] = w]
    BY <1>0, <1>5 DEF Show, Display, ThreadType
  <2>2. {visits[v].shown, threads[k].read} \subseteq 0 .. Len(log)
    BY <1>0 DEF ThreadType, VisitType
  <2>3. Max({visits[v].shown, threads[k].read}) \in 0 .. Len(log)
    BY <1>0, <2>2, MaxIsGreatest
  <2>4. w \in VisitType
    BY <1>0, <2>3 DEF VisitType
  <2> HIDE DEF t, w
  <2> QED
    BY <1>0, <1>5, <2>1, <2>4, PageStepTyped, PersistedKept DEF Show
<1>6. CASE SaveCursor(k)
  <2> DEFINE t == [threads[k] EXCEPT !.pc = "offset", !.read = 0]
  <2>0. t \in ThreadType
    BY <1>0 DEF ThreadType
  <2>1. t \in ThreadType /\ SetThread(k, t)
    BY <1>6, <2>0 DEF SaveCursor
  <2>2. PersistedType' /\ UNCHANGED <<ledger, visits>>
    BY <1>0, <1>6 DEF SaveCursor, PersistedType, TypeInv, ledger, ThreadType
  <2> HIDE DEF t
  <2> QED
    BY <2>1, <2>2, ThreadStepTyped
<1>7. CASE SaveOffset(k)
  <2> DEFINE t == [threads[k] EXCEPT !.pc = "after"]
             w == [visits[v] EXCEPT !.last = threads[k].upto]
  <2>1. /\ t \in ThreadType /\ SetThread(k, t)
        /\ w \in VisitType /\ visits' = [visits EXCEPT ![v] = w]
    BY <1>0, <1>7 DEF SaveOffset, ThreadType, VisitType
  <2>2. PersistedType' /\ UNCHANGED ledger
    BY <1>0, <1>7 DEF SaveOffset, PersistedType, TypeInv, ledger, ThreadType
  <2> HIDE DEF t, w
  <2> QED
    BY <1>0, <2>1, <2>2, PageStepTyped
<1>8. CASE AfterBatch(k)
  <2> DEFINE t == [threads[k] EXCEPT !.pos = threads[k].upto,
                     !.pc = IF threads[k].kind = "start" THEN "subscribe" ELSE "idle"]
             w == [visits[v] EXCEPT !.woken = TRUE,
                     !.shown = IF visits[v].closed THEN @ ELSE Max({@, stored[r]})]
  <2>0. t \in ThreadType
    BY <1>0 DEF ThreadType
  <2>1. t \in ThreadType /\ SetThread(k, t) /\ visits' = [visits EXCEPT ![v] = w]
    BY <1>8, <2>0 DEF AfterBatch
  <2>2. {visits[v].shown, stored[r]} \subseteq 0 .. Len(log)
    BY <1>0, ZenonT(60) DEF VisitType, TypeInv
  <2>3. Max({visits[v].shown, stored[r]}) \in 0 .. Len(log)
    BY <1>0, <2>2, MaxIsGreatest
  <2>4. w \in VisitType
    BY <1>0, <2>3 DEF VisitType
  <2> HIDE DEF t, w
  <2> QED
    BY <1>0, <1>8, <2>1, <2>4, PageStepTyped, PersistedKept DEF AfterBatch
<1>9. CASE Poll(k)
  <2> DEFINE t == [threads[k] EXCEPT !.got = Len(log), !.pc = "read"]
  <2>0. t \in ThreadType
    BY <1>0 DEF ThreadType
  <2>1. t \in ThreadType /\ SetThread(k, t)
    BY <1>9, <2>0 DEF Poll
  <2> HIDE DEF t
  <2> QED
    BY <1>9, <2>1, ThreadStepTyped, PersistedKept DEF Poll
<1>10. CASE ReadUpdates(k)
  <2>1. CASE threads[k].link = "closed"
    BY <1>10, <2>1, OverTyped, ThreadStepTyped, PersistedKept DEF ReadUpdates
  <2>2. CASE threads[k].link # "closed"
    <3> DEFINE end == IF CreatedSince(threads[k].pos) # {} THEN Max(CreatedSince(threads[k].pos))
                      ELSE threads[k].got
    <3>1. end \in 0 .. Len(log) /\ threads[k].pos \in 0 .. Len(log)
      BY <1>0, PollEnds DEF ThreadType
    <3>2. Begin(k, threads[k].pos, end)
      BY <1>10, <2>2 DEF ReadUpdates
    <3> HIDE DEF end
    <3> QED
      BY <1>10, <3>1, <3>2, BeginStepTyped DEF ReadUpdates
  <2> QED
    BY <2>1, <2>2
<1>11. CASE OpenSocket(k)
  <2> DEFINE t == [threads[k] EXCEPT !.link = IF visits[v].closed THEN "closed" ELSE "open"]
             w == [visits[v] EXCEPT !.status = IF @ = "starting" THEN "live" ELSE @]
  <2>1. /\ t \in ThreadType /\ SetThread(k, t)
        /\ w \in VisitType /\ visits' = [visits EXCEPT ![v] = w]
    BY <1>0, <1>11 DEF OpenSocket, ThreadType, VisitType
  <2> HIDE DEF t, w
  <2> QED
    BY <1>0, <1>11, <2>1, PageStepTyped, PersistedKept DEF OpenSocket
<1>12. CASE ReceiveFrame(k)
  <2> DEFINE t == [threads[k] EXCEPT !.got = @ + 1]
  <2>1. threads[k].got + 1 \in 0 .. Len(log)
    BY <1>0, <1>12 DEF ReceiveFrame, ThreadType
  <2>2. t \in ThreadType /\ SetThread(k, t)
    BY <1>0, <1>12, <2>1 DEF ReceiveFrame, ThreadType
  <2> HIDE DEF t
  <2> QED
    BY <1>12, <2>2, ThreadStepTyped, PersistedKept DEF ReceiveFrame
<1>13. CASE TakeFrame(k)
  <2>1. threads[k].pos \in 0 .. Len(log) /\ threads[k].pos + 1 \in 0 .. Len(log)
    BY <1>0, <1>13 DEF TakeFrame, ThreadType
  <2> QED
    BY <1>13, <2>1, BeginStepTyped DEF TakeFrame
<1> QED
  BY <1>1, <1>2, <1>3, <1>4, <1>5, <1>6, <1>7, <1>8, <1>9, <1>10, <1>11, <1>12, <1>13 DEF Run

LEMMA OpenPageTyped ==
  ASSUME TypeInv, NEW r \in Rooms, NEW kind \in Kinds, OpenPage(r, kind)
  PROVE  /\ TypeInv'
         /\ Len(visits') = Len(visits) + 1 /\ Len(visits) + 1 \notin DOMAIN visits
         /\ DOMAIN visits' = DOMAIN visits \cup {Len(visits) + 1}
         /\ \A v \in DOMAIN visits : visits'[v] = visits[v]
         /\ visits'[Len(visits) + 1] = Visit(r, kind)
         /\ DOMAIN threads' = DOMAIN threads \cup {Len(threads) + 1}
         /\ Len(threads) + 1 \notin DOMAIN threads
         /\ \A k \in DOMAIN threads : threads'[k] = threads[k]
         /\ threads'[Len(threads) + 1] = Thread(Len(visits) + 1, "start", "none", 0, "load")
<1> DEFINE p == Visit(r, kind)
           t == Thread(Len(visits) + 1, "start", "none", 0, "load")
<1>0. Len(log) \in Nat /\ Len(visits) \in Nat /\ 0 \in 0 .. Len(log)
  BY DEF TypeInv
<1>1. UNCHANGED <<log, pruned, stored, cursor, offset, skipped>>
  BY DEF OpenPage, ledger, persisted
<1>2. p \in VisitType
  BY <1>0 DEF Visit, VisitType, TypeInv
<1>3. visits' = Append(visits, p) /\ threads' = Append(threads, t)
  BY DEF OpenPage
<1> HIDE DEF p
<1>4. /\ visits' \in Seq(VisitType)
      /\ Len(visits') = Len(visits) + 1 /\ Len(visits) + 1 \notin DOMAIN visits
      /\ DOMAIN visits' = DOMAIN visits \cup {Len(visits) + 1}
      /\ \A v \in DOMAIN visits : visits'[v] = visits[v]
      /\ visits'[Len(visits) + 1] = p
  BY <1>2, <1>3 DEF TypeInv
<1>5. t \in ThreadType'
  BY <1>0, <1>1, <1>4 DEF Thread, ThreadType
<1>6. ThreadType \subseteq ThreadType'
  BY <1>0, <1>1, <1>4 DEF ThreadType
<1> HIDE DEF t
<1>7. threads \in Seq(ThreadType')
  BY <1>6, SeqMonotonic DEF TypeInv
<1>8. /\ threads' \in Seq(ThreadType')
      /\ DOMAIN threads' = DOMAIN threads \cup {Len(threads) + 1}
      /\ Len(threads) + 1 \notin DOMAIN threads
      /\ \A k \in DOMAIN threads : threads'[k] = threads[k]
      /\ threads'[Len(threads) + 1] = t
  BY <1>3, <1>5, <1>7
<1>9. VisitType' = VisitType
  BY <1>1 DEF VisitType
<1> QED
  BY <1>1, <1>4, <1>8, <1>9 DEF TypeInv, p, t

LEMMA LeavePageTyped ==
  ASSUME TypeInv, NEW v \in DOMAIN visits, LeavePage(v)
  PROVE  /\ TypeInv'
         /\ Len(visits') = Len(visits) /\ DOMAIN threads' = DOMAIN threads
         /\ \A k \in DOMAIN threads :
              threads'[k] = IF /\ visits[v].status = "live"
                               /\ threads[k].visit = v /\ threads[k].link = "open"
                            THEN [threads[k] EXCEPT !.link = "closed"] ELSE threads[k]
<1> DEFINE live == visits[v].status = "live"
           w == [visits[v] EXCEPT !.status = "left", !.closed = live, !.timer = @ /\ ~live]
           Left(k) == IF live /\ threads[k].visit = v /\ threads[k].link = "open"
                      THEN [threads[k] EXCEPT !.link = "closed"] ELSE threads[k]
<1>0. visits[v] \in VisitType /\ Len(threads) \in Nat /\ DOMAIN threads = 1 .. Len(threads)
  BY DEF TypeInv
<1>1. w \in VisitType
  BY <1>0 DEF VisitType
<1>2. visits' = [visits EXCEPT ![v] = w] /\ threads' = [k \in DOMAIN threads |-> Left(k)]
  BY DEF LeavePage
<1>3. \A k \in DOMAIN threads : Left(k) \in ThreadType
  BY <1>0, ThreadFacts, ZenonT(60) DEF ThreadType
<1> HIDE DEF w, Left
<1>4. threads' \in [1 .. Len(threads) -> ThreadType]
  BY <1>0, <1>2, <1>3
<1>5. threads' \in Seq(ThreadType)
  BY <1>0, <1>4, FunctionIsSeq
<1>6. visits' \in Seq(VisitType) /\ Len(visits') = Len(visits)
  BY <1>1, <1>2, SetVisitTyped
<1>7. TypeInv'
  BY <1>5, <1>6 DEF LeavePage, TypeInv, ledger, persisted, ThreadType, VisitType
<1> QED
  BY <1>2, <1>6, <1>7 DEF Left

LEMMA ReloadTyped ==
  ASSUME TypeInv, Reload
  PROVE  /\ TypeInv'
         /\ Len(visits') = Len(visits) /\ DOMAIN visits' = DOMAIN visits
         /\ \A v \in DOMAIN visits :
              visits'[v] = [visits[v] EXCEPT !.status = "left", !.closed = TRUE, !.timer = FALSE]
         /\ DOMAIN threads' = DOMAIN threads
         /\ \A k \in DOMAIN threads : threads'[k] = [Over(k) EXCEPT !.link = "closed"]
<1> DEFINE Left(v) == [visits[v] EXCEPT !.status = "left", !.closed = TRUE, !.timer = FALSE]
           Ended(k) == [Over(k) EXCEPT !.link = "closed"]
<1>0. /\ Len(threads) \in Nat /\ DOMAIN threads = 1 .. Len(threads)
      /\ Len(visits) \in Nat /\ DOMAIN visits = 1 .. Len(visits)
  BY DEF TypeInv
<1>1. visits' = [v \in DOMAIN visits |-> Left(v)] /\ threads' = [k \in DOMAIN threads |-> Ended(k)]
  BY DEF Reload
<1>2. ASSUME NEW v \in DOMAIN visits PROVE Left(v) \in VisitType
  <2>1. visits[v] \in VisitType
    BY <1>0 DEF TypeInv
  <2> QED
    BY <2>1 DEF VisitType
<1>3. \A k \in DOMAIN threads : Ended(k) \in ThreadType
  BY OverTyped
<1> HIDE DEF Left, Ended
<1>4. threads' \in [1 .. Len(threads) -> ThreadType] /\ visits' \in [1 .. Len(visits) -> VisitType]
  BY <1>0, <1>1, <1>2, <1>3
<1>5. threads' \in Seq(ThreadType)
  BY <1>0, <1>4, FunctionIsSeq
<1>6. visits' \in Seq(VisitType) /\ Len(visits') = Len(visits)
  BY <1>0, <1>4, FunctionIsSeq
<1>7. TypeInv'
  BY <1>5, <1>6 DEF Reload, TypeInv, ledger, persisted, ThreadType, VisitType
<1> QED
  BY <1>1, <1>6, <1>7 DEF Left, Ended

LEMMA ReconnectTyped ==
  ASSUME TypeInv, NEW v \in DOMAIN visits, Reconnect(v)
  PROVE  /\ TypeInv'
         /\ DOMAIN visits' = DOMAIN visits
         /\ visits'[v] = [visits[v] EXCEPT !.timer = FALSE]
         /\ \A u \in DOMAIN visits : u # v => visits'[u] = visits[u]
         /\ DOMAIN threads' = DOMAIN threads \cup {Len(threads) + 1}
         /\ Len(threads) + 1 \notin DOMAIN threads
         /\ \A k \in DOMAIN threads : threads'[k] = threads[k]
         /\ threads'[Len(threads) + 1] = Thread(v, "socket", "opening", visits[v].last, "idle")
<1> DEFINE w == [visits[v] EXCEPT !.timer = FALSE]
           t == Thread(v, "socket", "opening", visits[v].last, "idle")
<1>0. /\ visits[v] \in VisitType /\ v \in 1 .. Len(visits) /\ 0 \in 0 .. Len(log)
      /\ visits[v].last \in 0 .. Len(log)
  BY VisitFacts DEF VisitType
<1>1. w \in VisitType
  BY <1>0 DEF VisitType
<1>2. t \in ThreadType
  BY <1>0 DEF Thread, ThreadType, VisitType, Reconnect
<1>3. visits' = [visits EXCEPT ![v] = w] /\ threads' = Append(threads, t)
  BY DEF Reconnect
<1> HIDE DEF w, t
<1>4. /\ visits' \in Seq(VisitType)
      /\ Len(visits') = Len(visits) /\ DOMAIN visits' = DOMAIN visits
      /\ visits'[v] = w
      /\ \A u \in DOMAIN visits : u # v => visits'[u] = visits[u]
  BY <1>1, <1>3, SetVisitTyped
<1>5. /\ threads' \in Seq(ThreadType)
      /\ DOMAIN threads' = DOMAIN threads \cup {Len(threads) + 1}
      /\ Len(threads) + 1 \notin DOMAIN threads
      /\ \A k \in DOMAIN threads : threads'[k] = threads[k]
      /\ threads'[Len(threads) + 1] = t
  BY <1>2, <1>3, NewThreadTyped DEF TypeInv
<1>6. TypeInv'
  BY <1>4, <1>5 DEF Reconnect, TypeInv, ledger, persisted, ThreadType, VisitType
<1> QED
  BY <1>4, <1>5, <1>6 DEF w, t

LEMMA FailBatchTyped ==
  ASSUME TypeInv, NEW k \in DOMAIN threads, FailBatch(k)
  PROVE  TypeInv'
<1> DEFINE x == threads[k]
           t == IF x.kind = "start" THEN Over(k)
                ELSE [x EXCEPT !.pc = "idle", !.read = 0,
                               !.pos = IF x.kind = "socket" THEN x.upto ELSE @]
           w == [visits[x.visit] EXCEPT !.woken = FALSE,
                   !.status = IF x.kind = "start" THEN "failed" ELSE @]
<1>0. /\ x \in ThreadType /\ x.visit \in DOMAIN visits /\ visits[x.visit] \in VisitType
      /\ 0 \in 0 .. Len(log) /\ RoomOf(k) \in Rooms
  BY ThreadFacts DEF VisitOf
<1>1. t \in ThreadType
  BY <1>0, OverTyped DEF ThreadType
<1>2. w \in VisitType
  BY <1>0 DEF VisitType
<1>3. SetThread(k, t) /\ visits' = [visits EXCEPT ![x.visit] = w] /\ UNCHANGED ledger
  BY DEF FailBatch
<1>4. PersistedType'
  BY <1>0 DEF FailBatch, PersistedType, TypeInv, ledger, persisted
<1> HIDE DEF t, w
<1> QED
  BY <1>0, <1>1, <1>2, <1>3, <1>4, PageStepTyped

LEMMA DropSocketTyped ==
  ASSUME TypeInv, NEW k \in DOMAIN threads, DropSocket(k)
  PROVE  TypeInv'
<1> DEFINE v == threads[k].visit
           t == [threads[k] EXCEPT !.link = "closed"]
           w == [visits[v] EXCEPT !.timer = ~visits[v].closed,
                   !.status = IF @ = "starting" THEN "failed" ELSE @]
<1>0. threads[k] \in ThreadType /\ v \in DOMAIN visits /\ visits[v] \in VisitType
  BY ThreadFacts DEF VisitOf
<1>1. t \in ThreadType
  BY <1>0 DEF ThreadType
<1>2. w \in VisitType
  <2>1. "socket" \in Kinds
    BY <1>0 DEF DropSocket, ThreadType
  <2> QED
    BY <1>0, <2>1 DEF VisitType
<1>3. SetThread(k, t) /\ visits' = [visits EXCEPT ![v] = w]
  BY DEF DropSocket
<1> HIDE DEF t, w
<1> QED
  BY <1>0, <1>1, <1>2, <1>3, PageStepTyped, PersistedKept DEF DropSocket

LEMMA LedgerTyped ==
  ASSUME TypeInv, UNCHANGED <<persisted, visits, threads, skipped>>,
         \/ \E e \in Rooms \cup {None} : log' = Append(log, e) /\ pruned' = pruned
         \/ log' = log /\ pruned' = Len(log)
  PROVE  TypeInv'
<1>1. Len(log) \in Nat /\ log' \in Seq(Rooms \cup {None}) /\ Len(log') \in Nat /\ Len(log) <= Len(log')
  <2>1. log \in Seq(Rooms \cup {None}) /\ Len(log) \in Nat
    BY DEF TypeInv
  <2>2. ASSUME NEW e \in Rooms \cup {None}
        PROVE  Append(log, e) \in Seq(Rooms \cup {None}) /\ Len(Append(log, e)) = Len(log) + 1
    BY <2>1, AppendProperties
  <2> QED
    BY <2>1, <2>2
<1>2. 0 .. Len(log) \subseteq 0 .. Len(log')
  BY <1>1
<1>3. VisitType \subseteq VisitType' /\ ThreadType \subseteq ThreadType'
  BY <1>2 DEF VisitType, ThreadType
<1>4. visits' \in Seq(VisitType') /\ threads' \in Seq(ThreadType')
  BY <1>3, SeqMonotonic DEF TypeInv
<1> QED
  BY <1>1, <1>2, <1>4 DEF TypeInv, persisted

LEMMA TypeInductive == TypeInv /\ [Next]_vars => TypeInv'
<1> SUFFICES ASSUME TypeInv, [Next]_vars PROVE TypeInv'
  OBVIOUS
<1>1. CASE UNCHANGED vars
  BY <1>1 DEF vars, ledger, persisted, TypeInv, ThreadType, VisitType
<1>2. CASE Next
  <2>1. CASE (\E e \in Rooms \cup {None} : Publish(e)) \/ Prune
    BY <2>1, LedgerTyped DEF Publish, Prune
  <2> QED
    BY <1>2, <2>1, OpenPageTyped, LeavePageTyped, ReconnectTyped, RunTyped, FailBatchTyped,
       DropSocketTyped, ReloadTyped DEF Next
<1> QED
  BY <1>1, <1>2

LEMMA InitTyped == Init => TypeInv
BY DEF Init, TypeInv

\* The persisted and the running state of every page and thread stays within its
\* range: no position ever lies beyond the end of the ledger, whatever fails,
\* drops or runs in parallel.
THEOREM TypeCorrect == Spec => []TypeOK
<1>1. TypeInv => TypeOK
  <2> SUFFICES ASSUME TypeInv PROVE TypeOK
    OBVIOUS
  <2>1. ASSUME NEW v \in DOMAIN visits
        PROVE  /\ visits[v].room \in Rooms /\ visits[v].kind \in Kinds
               /\ visits[v].status \in {"starting", "live", "failed", "left"}
               /\ {visits[v].last, visits[v].shown} \subseteq 0 .. Len(log)
    <3>1. visits[v] \in VisitType
      BY DEF TypeInv
    <3> QED
      BY <3>1 DEF VisitType
  <2>2. ASSUME NEW k \in DOMAIN threads
        PROVE  /\ threads[k].visit \in DOMAIN visits
               /\ threads[k].kind \in Kinds \cup {"start"}
               /\ threads[k].link \in {"none", "opening", "open", "closed"}
               /\ {threads[k].pos, threads[k].upto, threads[k].got, threads[k].read}
                    \subseteq 0 .. Len(log)
    BY ThreadFacts DEF ThreadType
  <2> QED
    BY <2>1, <2>2 DEF TypeOK, TypeInv
<1> QED
  BY <1>1, InitTyped, TypeInductive, PTL DEF Spec

-----------------------------------------------------------------------------
\* One subscription per session

\* Nothing else of a page exists while its start is under way; a reconnection
\* is scheduled only when no subscription is left, and never by a closed session.
StartsAlone ==
  \A k \in DOMAIN threads :
    /\ threads[k].pc \in {"load", "snapshot", "subscribe"} => threads[k].kind = "start"
    /\ threads[k].kind = "start" => threads[k].link \in {"none", "closed"}
    /\ (threads[k].kind = "start" /\ threads[k].pc # "over") =>
         /\ VisitOf(k).status = "starting" /\ ~VisitOf(k).closed /\ ~VisitOf(k).timer
         /\ \A l \in DOMAIN threads : threads[l].visit = threads[k].visit => l = k

TimerOfIdle ==
  /\ \A v \in DOMAIN visits : visits[v].closed => visits[v].status = "left" /\ ~visits[v].timer
  /\ \A k \in DOMAIN threads : VisitOf(k).timer => threads[k].link \notin {"opening", "open"}

SubInv == StartsAlone /\ TimerOfIdle /\ OneSubscription /\ ClosedMeansClosed

\* A step of a thread that neither subscribes nor opens a socket.
SamePages ==
  /\ DOMAIN visits' = DOMAIN visits
  /\ \A v \in DOMAIN visits :
       /\ visits'[v].room = visits[v].room /\ visits'[v].status = visits[v].status
       /\ visits'[v].closed = visits[v].closed /\ visits'[v].timer = visits[v].timer

SameLinks ==
  /\ DOMAIN threads' = DOMAIN threads
  /\ \A k \in DOMAIN threads :
       /\ threads'[k].visit = threads[k].visit /\ threads'[k].kind = threads[k].kind
       /\ threads'[k].link = threads[k].link
       /\ threads[k].pc = "over" => threads'[k].pc = "over"
       /\ threads'[k].pc \in {"load", "snapshot", "subscribe"} => threads'[k].kind = "start"

LEMMA SubKept ==
  ASSUME TypeInv, SubInv, SamePages, SameLinks
  PROVE  SubInv'
<1>1. \A k \in DOMAIN threads :
        /\ threads[k].visit \in DOMAIN visits
        /\ VisitOf(k)' = visits'[threads[k].visit]
  BY ThreadFacts DEF SameLinks, VisitOf
<1>2. StartsAlone'
  BY <1>1 DEF SubInv, StartsAlone, SamePages, SameLinks, VisitOf
<1>3. TimerOfIdle'
  BY <1>1 DEF SubInv, TimerOfIdle, SamePages, SameLinks, VisitOf
<1>4. OneSubscription' /\ ClosedMeansClosed'
  BY <1>1 DEF SubInv, OneSubscription, ClosedMeansClosed, SamePages, SameLinks, VisitOf
<1> QED
  BY <1>2, <1>3, <1>4 DEF SubInv

LEMMA QuietRun ==
  ASSUME TypeInv, SubInv, NEW k \in DOMAIN threads, Run(k), ~Subscribe(k), ~OpenSocket(k)
  PROVE  SamePages /\ SameLinks
<1> DEFINE v == threads[k].visit
<1>0. threads[k] \in ThreadType /\ v \in DOMAIN visits /\ visits[v] \in VisitType
  BY ThreadFacts DEF VisitOf
<1>1. \A j \in DOMAIN threads : threads[j].pc \in {"load", "snapshot", "subscribe"} => threads[j].kind = "start"
  BY DEF SubInv, StartsAlone
<1>2. ASSUME NEW t, SetThread(k, t),
             t.visit = threads[k].visit, t.kind = threads[k].kind, t.link = threads[k].link,
             threads[k].pc = "over" => t.pc = "over",
             t.pc \in {"load", "snapshot", "subscribe"} => t.kind = "start"
      PROVE  SameLinks
  BY <1>1, <1>2 DEF SetThread, SameLinks
<1>3. ASSUME NEW w, visits' = [visits EXCEPT ![v] = w],
             w.room = visits[v].room, w.status = visits[v].status,
             w.closed = visits[v].closed, w.timer = visits[v].timer
      PROVE  SamePages
  BY <1>0, <1>3 DEF SamePages
<1>4. UNCHANGED visits => SamePages
  BY DEF SamePages
<1>5. ASSUME NEW after, NEW upto, Begin(k, after, upto), threads[k].pc # "over"
      PROVE  SameLinks
  BY <1>0, <1>2, <1>5 DEF Begin, ThreadType
<1>6. CASE LoadOffset(k)
  BY <1>0, <1>1, <1>2, <1>3, <1>4, <1>6 DEF LoadOffset, At, ThreadType, VisitType
<1>7. CASE TakeSnapshot(k)
  BY <1>4, <1>5, <1>7 DEF TakeSnapshot, At
<1>8. CASE Sync(k)
  BY <1>0, <1>2, <1>4, <1>8 DEF Sync, At, ThreadType
<1>9. CASE Show(k)
  BY <1>0, <1>2, <1>3, <1>9 DEF Show, Display, At, ThreadType, VisitType
<1>10. CASE SaveCursor(k)
  BY <1>0, <1>2, <1>4, <1>10 DEF SaveCursor, At, ThreadType
<1>11. CASE SaveOffset(k)
  BY <1>0, <1>2, <1>3, <1>11 DEF SaveOffset, At, ThreadType, VisitType
<1>12. CASE AfterBatch(k)
  BY <1>0, <1>2, <1>3, <1>12 DEF AfterBatch, At, ThreadType, VisitType
<1>13. CASE Poll(k)
  BY <1>0, <1>2, <1>4, <1>13 DEF Poll, At, ThreadType
<1>14. CASE ReadUpdates(k)
  BY <1>0, <1>2, <1>4, <1>5, <1>14, OverTyped DEF ReadUpdates, At
<1>15. CASE ReceiveFrame(k)
  BY <1>0, <1>1, <1>2, <1>4, <1>15 DEF ReceiveFrame, At, ThreadType
<1>16. CASE TakeFrame(k)
  BY <1>4, <1>5, <1>16 DEF TakeFrame, At
<1> QED
  BY <1>6, <1>7, <1>8, <1>9, <1>10, <1>11, <1>12, <1>13, <1>14, <1>15, <1>16 DEF Run

LEMMA OpenPageSub == ASSUME TypeInv, SubInv, NEW r \in Rooms, NEW kind \in Kinds, OpenPage(r, kind)
                     PROVE  SubInv'
<1> DEFINE n == Len(visits) + 1
           m == Len(threads) + 1
<1>1. /\ n \notin DOMAIN visits /\ DOMAIN visits' = DOMAIN visits \cup {n}
      /\ \A v \in DOMAIN visits : visits'[v] = visits[v]
      /\ visits'[n] = Visit(r, kind)
      /\ m \notin DOMAIN threads /\ DOMAIN threads' = DOMAIN threads \cup {m}
      /\ \A k \in DOMAIN threads : threads'[k] = threads[k]
      /\ threads'[m] = Thread(n, "start", "none", 0, "load")
  BY OpenPageTyped
<1>2. \A k \in DOMAIN threads : threads[k].visit \in DOMAIN visits
  BY ThreadFacts
<1>3. /\ visits'[n].status = "starting" /\ ~visits'[n].closed /\ ~visits'[n].timer
      /\ threads'[m].visit = n /\ threads'[m].kind = "start" /\ threads'[m].link = "none"
      /\ threads'[m].pc = "load"
  BY <1>1 DEF Visit, Thread
<1> HIDE DEF n, m
<1>4. StartsAlone'
  BY <1>1, <1>2, <1>3 DEF SubInv, StartsAlone, VisitOf
<1>5. TimerOfIdle'
  BY <1>1, <1>2, <1>3 DEF SubInv, TimerOfIdle, VisitOf
<1>6. OneSubscription' /\ ClosedMeansClosed'
  BY <1>1, <1>2, <1>3 DEF SubInv, OneSubscription, ClosedMeansClosed, VisitOf
<1> QED
  BY <1>4, <1>5, <1>6 DEF SubInv

LEMMA LeavePageSub == ASSUME TypeInv, SubInv, NEW v \in DOMAIN visits, LeavePage(v)
                      PROVE  SubInv'
<1> DEFINE live == visits[v].status = "live"
<1>1. /\ DOMAIN visits' = DOMAIN visits /\ DOMAIN threads' = DOMAIN threads
      /\ \A u \in DOMAIN visits : u # v => visits'[u] = visits[u]
      /\ visits[v].status \in {"live", "failed"}
  BY LeavePageTyped DEF LeavePage
<1>2. /\ visits'[v].status = "left" /\ (visits'[v].closed <=> live)
      /\ visits'[v].timer <=> (visits[v].timer /\ ~live)
  BY VisitFacts DEF LeavePage, VisitType
<1>3. ASSUME NEW k \in DOMAIN threads
      PROVE  /\ threads[k].visit \in DOMAIN visits
             /\ threads'[k].visit = threads[k].visit /\ threads'[k].kind = threads[k].kind
             /\ threads'[k].pc = threads[k].pc
             /\ threads'[k].link = IF live /\ threads[k].visit = v /\ threads[k].link = "open"
                                   THEN "closed" ELSE threads[k].link
  <2>1. threads[k].visit \in DOMAIN visits /\ threads[k] \in ThreadType
    BY ThreadFacts
  <2>2. threads'[k] = IF live /\ threads[k].visit = v /\ threads[k].link = "open"
                      THEN [threads[k] EXCEPT !.link = "closed"] ELSE threads[k]
    BY LeavePageTyped
  <2> QED
    BY <2>1, <2>2 DEF ThreadType
<1> HIDE DEF live
<1>4. StartsAlone'
  BY <1>1, <1>2, <1>3 DEF SubInv, StartsAlone, VisitOf
<1>5. TimerOfIdle'
  BY <1>1, <1>2, <1>3 DEF SubInv, TimerOfIdle, VisitOf
<1>6. OneSubscription' /\ ClosedMeansClosed'
  BY <1>1, <1>2, <1>3 DEF SubInv, OneSubscription, ClosedMeansClosed, VisitOf
<1> QED
  BY <1>4, <1>5, <1>6 DEF SubInv

LEMMA ReconnectSub == ASSUME TypeInv, SubInv, NEW v \in DOMAIN visits, Reconnect(v)
                      PROVE  SubInv'
<1> DEFINE m == Len(threads) + 1
<1>1. /\ DOMAIN visits' = DOMAIN visits
      /\ visits'[v] = [visits[v] EXCEPT !.timer = FALSE]
      /\ \A u \in DOMAIN visits : u # v => visits'[u] = visits[u]
      /\ m \notin DOMAIN threads /\ DOMAIN threads' = DOMAIN threads \cup {m}
      /\ \A k \in DOMAIN threads : threads'[k] = threads[k]
      /\ threads'[m] = Thread(v, "socket", "opening", visits[v].last, "idle")
      /\ visits[v].timer
  BY ReconnectTyped DEF Reconnect
<1>2. \A k \in DOMAIN threads : threads[k].visit \in DOMAIN visits
  BY ThreadFacts
<1>3. /\ visits'[v].status = visits[v].status
      /\ visits'[v].closed <=> visits[v].closed
      /\ ~visits'[v].timer
  BY <1>1, VisitFacts DEF VisitType
<1>4. /\ threads'[m].visit = v /\ threads'[m].kind = "socket" /\ threads'[m].link = "opening"
      /\ threads'[m].pc = "idle"
  BY <1>1 DEF Thread
<1> HIDE DEF m
<1>5. StartsAlone'
  BY <1>1, <1>2, <1>3, <1>4 DEF SubInv, StartsAlone, VisitOf
<1>6. TimerOfIdle'
  <2>1. ASSUME NEW u \in DOMAIN visits', visits'[u].closed
        PROVE  visits'[u].status = "left" /\ ~visits'[u].timer
    <3>1. CASE u = v
      BY <1>1, <1>3, <2>1, <3>1 DEF SubInv, TimerOfIdle
    <3>2. CASE u # v
      <4>1. u \in DOMAIN visits /\ visits'[u] = visits[u]
        BY <1>1, <3>2
      <4> QED
        BY <2>1, <4>1 DEF SubInv, TimerOfIdle
    <3> QED
      BY <3>1, <3>2
  <2>2. ASSUME NEW k \in DOMAIN threads', visits'[threads'[k].visit].timer
        PROVE  threads'[k].link \notin {"opening", "open"}
    <3>1. threads'[k].visit # v
      BY <1>3, <2>2
    <3>2. k \in DOMAIN threads /\ threads'[k] = threads[k]
      BY <1>1, <1>4, <2>2, <3>1
    <3>3. visits'[threads[k].visit] = visits[threads[k].visit]
      BY <1>1, <1>2, <3>1, <3>2
    <3> QED
      BY <2>2, <3>2, <3>3 DEF SubInv, TimerOfIdle, VisitOf
  <2> QED
    BY <2>1, <2>2 DEF TimerOfIdle, VisitOf
<1>7. OneSubscription' /\ ClosedMeansClosed'
  BY <1>1, <1>2, <1>3, <1>4 DEF SubInv, OneSubscription, ClosedMeansClosed, TimerOfIdle, VisitOf
<1> QED
  BY <1>5, <1>6, <1>7 DEF SubInv

LEMMA ReloadSub == ASSUME TypeInv, SubInv, Reload PROVE SubInv'
<1>1. /\ DOMAIN visits' = DOMAIN visits /\ DOMAIN threads' = DOMAIN threads
      /\ \A v \in DOMAIN visits :
           visits'[v].status = "left" /\ visits'[v].closed /\ ~visits'[v].timer
  BY ReloadTyped, VisitFacts, ZenonT(60) DEF VisitType
<1>2. ASSUME NEW k \in DOMAIN threads
      PROVE  /\ threads[k].visit \in DOMAIN visits
             /\ threads'[k].visit = threads[k].visit /\ threads'[k].kind = threads[k].kind
             /\ threads'[k].pc = "over" /\ threads'[k].link = "closed"
  <2>1. threads[k].visit \in DOMAIN visits /\ threads'[k] = [Over(k) EXCEPT !.link = "closed"]
    BY ReloadTyped, ThreadFacts
  <2> QED
    BY <2>1, OverTyped DEF ThreadType
<1> QED
  BY <1>1, <1>2 DEF SubInv, StartsAlone, TimerOfIdle, OneSubscription, ClosedMeansClosed, VisitOf

\* A step that changes thread k and its page v only, and adds no thread.
LEMMA OneThreadSub ==
  ASSUME TypeInv, SubInv, NEW k \in DOMAIN threads, NEW t, SetThread(k, t),
         NEW v, v = threads[k].visit, NEW w, visits' = [visits EXCEPT ![v] = w],
         t.visit = v, t.kind = threads[k].kind,
         t.pc \in {"load", "snapshot", "subscribe"} => t.kind = "start",
         t.kind = "start" => t.link \in {"none", "closed"},
         t.kind = "start" => t.pc = "over",
         t.link \in {"opening", "open"} => threads[k].link \in {"opening", "open"} /\ ~w.timer,
         t.link = "open" => ~w.closed,
         w.closed <=> visits[v].closed,
         w.closed => w.status = "left" /\ ~w.timer,
         w.timer => visits[v].timer \/ (threads[k].link \in {"opening", "open"} /\ t.link = "closed")
  PROVE  SubInv'
<1>1. /\ DOMAIN threads' = DOMAIN threads /\ threads'[k] = t
      /\ \A j \in DOMAIN threads : j # k => threads'[j] = threads[j]
      /\ v \in DOMAIN visits /\ DOMAIN visits' = DOMAIN visits /\ visits'[v] = w
      /\ \A u \in DOMAIN visits : u # v => visits'[u] = visits[u]
  BY ThreadFacts DEF SetThread
<1>2. \A j \in DOMAIN threads : threads[j].visit \in DOMAIN visits
  BY ThreadFacts
<1>3. \A j \in DOMAIN threads : threads'[j].visit = threads[j].visit /\ threads'[j].kind = threads[j].kind
  BY <1>1
<1>4. StartsAlone'
  <2>1. ASSUME NEW j \in DOMAIN threads
        PROVE  /\ threads'[j].pc \in {"load", "snapshot", "subscribe"} => threads'[j].kind = "start"
               /\ threads'[j].kind = "start" => threads'[j].link \in {"none", "closed"}
               /\ (threads'[j].kind = "start" /\ threads'[j].pc # "over") =>
                    j # k /\ threads[j].kind = "start" /\ threads[j].pc # "over" /\ threads'[j] = threads[j]
    BY <1>1 DEF SubInv, StartsAlone
  <2>2. ASSUME NEW j \in DOMAIN threads, threads'[j].kind = "start", threads'[j].pc # "over"
        PROVE  /\ VisitOf(j)'.status = "starting" /\ ~VisitOf(j)'.closed /\ ~VisitOf(j)'.timer
               /\ \A l \in DOMAIN threads : threads[l].visit = threads[j].visit => l = j
    <3>1. /\ VisitOf(j).status = "starting" /\ ~VisitOf(j).closed /\ ~VisitOf(j).timer
          /\ \A l \in DOMAIN threads : threads[l].visit = threads[j].visit => l = j
      BY <2>1, <2>2 DEF SubInv, StartsAlone
    <3>2. threads[j].visit # v
      BY <2>1, <2>2, <3>1
    <3> QED
      BY <1>1, <1>2, <1>3, <3>1, <3>2 DEF VisitOf
  <2> QED
    BY <1>1, <1>3, <2>1, <2>2 DEF StartsAlone
<1>5. TimerOfIdle'
  <2>1. ASSUME NEW u \in DOMAIN visits, visits'[u].closed
        PROVE  visits'[u].status = "left" /\ ~visits'[u].timer
    BY <1>1, <2>1 DEF SubInv, TimerOfIdle
  <2>2. ASSUME NEW j \in DOMAIN threads, visits'[threads[j].visit].timer
        PROVE  threads'[j].link \notin {"opening", "open"}
    <3>1. CASE threads[j].visit # v
      BY <1>1, <1>2, <2>2, <3>1 DEF SubInv, TimerOfIdle, VisitOf
    <3>2. CASE threads[j].visit = v
      <4>1. w.timer
        BY <1>1, <2>2, <3>2
      <4>2. CASE j = k
        BY <1>1, <4>1, <4>2
      <4>3. CASE j # k /\ visits[v].timer
        BY <1>1, <3>2, <4>3 DEF SubInv, TimerOfIdle, VisitOf
      <4>4. CASE j # k /\ threads[k].link \in {"opening", "open"}
        BY <1>1, <3>2, <4>4 DEF SubInv, OneSubscription
      <4> QED
        BY <4>1, <4>2, <4>3, <4>4
    <3> QED
      BY <3>1, <3>2
  <2> QED
    BY <1>1, <1>3, <2>1, <2>2 DEF TimerOfIdle, VisitOf
<1>6. OneSubscription'
  <2>1. \A j \in DOMAIN threads :
          threads'[j].link \in {"opening", "open"} => threads[j].link \in {"opening", "open"}
    BY <1>1
  <2> QED
    BY <1>1, <1>3, <2>1 DEF SubInv, OneSubscription
<1>7. ClosedMeansClosed'
  <2>1. ASSUME NEW j \in DOMAIN threads, threads'[j].link = "open"
        PROVE  ~visits'[threads[j].visit].closed
    <3>1. CASE j = k
      BY <1>1, <2>1, <3>1
    <3>2. CASE j # k
      BY <1>1, <1>2, <2>1, <3>2 DEF SubInv, ClosedMeansClosed, VisitOf
    <3> QED
      BY <3>1, <3>2
  <2> QED
    BY <1>1, <1>3, <2>1 DEF ClosedMeansClosed, VisitOf
<1> QED
  BY <1>4, <1>5, <1>6, <1>7 DEF SubInv

LEMMA FailBatchSub == ASSUME TypeInv, SubInv, NEW k \in DOMAIN threads, FailBatch(k)
                      PROVE  SubInv'
<1> DEFINE x == threads[k]
           v == x.visit
           t == IF x.kind = "start" THEN Over(k)
                ELSE [x EXCEPT !.pc = "idle", !.read = 0,
                               !.pos = IF x.kind = "socket" THEN x.upto ELSE @]
           w == [visits[v] EXCEPT !.woken = FALSE,
                   !.status = IF x.kind = "start" THEN "failed" ELSE @]
<1>0. x \in ThreadType /\ v \in DOMAIN visits /\ visits[v] \in VisitType
  BY ThreadFacts DEF VisitOf
<1>1. SetThread(k, t) /\ visits' = [visits EXCEPT ![v] = w] /\ x.pc # "over"
  BY DEF FailBatch
<1>2. /\ t.visit = v /\ t.kind = x.kind /\ t.link = x.link
      /\ t.pc = IF x.kind = "start" THEN "over" ELSE "idle"
  BY <1>0, OverTyped DEF ThreadType
<1>3. /\ w.closed <=> visits[v].closed
      /\ w.timer <=> visits[v].timer
      /\ w.status = IF x.kind = "start" THEN "failed" ELSE visits[v].status
  BY <1>0 DEF VisitType
<1>4. /\ x.kind = "start" => ~visits[v].closed /\ x.link \in {"none", "closed"}
      /\ visits[v].closed => visits[v].status = "left" /\ ~visits[v].timer
      /\ visits[v].timer => x.link \notin {"opening", "open"}
      /\ x.link = "open" => ~visits[v].closed
  BY <1>0, <1>1 DEF SubInv, StartsAlone, TimerOfIdle, ClosedMeansClosed, VisitOf
<1> HIDE DEF t, w
<1> QED
  BY <1>1, <1>2, <1>3, <1>4, OneThreadSub

LEMMA OpenSocketSub == ASSUME TypeInv, SubInv, NEW k \in DOMAIN threads, OpenSocket(k)
                       PROVE  SubInv'
<1> DEFINE x == threads[k]
           v == x.visit
           t == [x EXCEPT !.link = IF visits[v].closed THEN "closed" ELSE "open"]
           w == [visits[v] EXCEPT !.status = IF @ = "starting" THEN "live" ELSE @]
<1>0. x \in ThreadType /\ v \in DOMAIN visits /\ visits[v] \in VisitType
  BY ThreadFacts DEF VisitOf
<1>1. SetThread(k, t) /\ visits' = [visits EXCEPT ![v] = w] /\ x.link = "opening"
  BY DEF OpenSocket
<1>2. /\ t.visit = v /\ t.kind = x.kind /\ t.pc = x.pc
      /\ t.link = IF visits[v].closed THEN "closed" ELSE "open"
  BY <1>0 DEF ThreadType
<1>3. /\ w.closed <=> visits[v].closed
      /\ w.timer <=> visits[v].timer
      /\ w.status = IF visits[v].status = "starting" THEN "live" ELSE visits[v].status
  BY <1>0 DEF VisitType
<1>4. /\ x.kind # "start"
      /\ x.pc \notin {"load", "snapshot", "subscribe"}
      /\ visits[v].closed => visits[v].status = "left"
      /\ ~visits[v].timer
  BY <1>0, <1>1 DEF SubInv, StartsAlone, TimerOfIdle, VisitOf
<1> HIDE DEF t, w
<1> QED
  BY <1>1, <1>2, <1>3, <1>4, OneThreadSub

LEMMA DropSocketSub == ASSUME TypeInv, SubInv, NEW k \in DOMAIN threads, DropSocket(k)
                       PROVE  SubInv'
<1> DEFINE x == threads[k]
           v == x.visit
           t == [x EXCEPT !.link = "closed"]
           w == [visits[v] EXCEPT !.timer = ~visits[v].closed,
                   !.status = IF @ = "starting" THEN "failed" ELSE @]
<1>0. x \in ThreadType /\ v \in DOMAIN visits /\ visits[v] \in VisitType
  BY ThreadFacts DEF VisitOf
<1>1. /\ SetThread(k, t) /\ visits' = [visits EXCEPT ![v] = w]
      /\ x.kind = "socket" /\ x.link \in {"opening", "open"}
  BY DEF DropSocket
<1>2. t.visit = v /\ t.kind = x.kind /\ t.pc = x.pc /\ t.link = "closed"
  BY <1>0 DEF ThreadType
<1>3. /\ w.closed <=> visits[v].closed
      /\ w.timer <=> ~visits[v].closed
      /\ w.status = IF visits[v].status = "starting" THEN "failed" ELSE visits[v].status
  BY <1>0 DEF VisitType
<1>4. /\ x.pc \notin {"load", "snapshot", "subscribe"}
      /\ visits[v].closed => visits[v].status = "left"
  BY <1>0, <1>1 DEF SubInv, StartsAlone, TimerOfIdle, VisitOf
<1> HIDE DEF t, w
<1> QED
  BY <1>1, <1>2, <1>3, <1>4, OneThreadSub

\* What Subscribe does: the start is over, and a new thread takes its place.
LEMMA SubscribeDoes ==
  ASSUME TypeInv, NEW k \in DOMAIN threads, Subscribe(k)
  PROVE  LET v == threads[k].visit
             m == Len(threads) + 1
             polling == visits[v].kind = "polling"
         IN  /\ m \notin DOMAIN threads /\ DOMAIN threads' = DOMAIN threads \cup {m}
             /\ threads'[k] = Over(k)
             /\ \A j \in DOMAIN threads : j # k => threads'[j] = threads[j]
             /\ threads'[m] = Thread(v, visits[v].kind, IF polling THEN "open" ELSE "opening",
                                     visits[v].last, "idle")
             /\ DOMAIN visits' = DOMAIN visits
             /\ visits'[v] = [visits[v] EXCEPT !.status = IF polling THEN "live" ELSE @]
             /\ \A u \in DOMAIN visits : u # v => visits'[u] = visits[u]
<1> DEFINE v == threads[k].visit
           m == Len(threads) + 1
           polling == visits[v].kind = "polling"
           s == [threads EXCEPT ![k] = Over(k)]
           t == Thread(v, visits[v].kind, IF polling THEN "open" ELSE "opening",
                       visits[v].last, "idle")
           w == [visits[v] EXCEPT !.status = IF polling THEN "live" ELSE @]
<1>1. threads \in Seq(ThreadType) /\ k \in 1 .. Len(threads) /\ Over(k) \in ThreadType
      /\ v \in DOMAIN visits
  BY ThreadFacts, OverTyped DEF TypeInv
<1>2. threads' = Append(s, t) /\ visits' = [visits EXCEPT ![v] = w]
  BY DEF Subscribe
<1>3. /\ s \in Seq(ThreadType) /\ Len(s) = Len(threads) /\ DOMAIN s = DOMAIN threads
      /\ s[k] = Over(k)
      /\ \A j \in DOMAIN threads : j # k => s[j] = threads[j]
  BY <1>1
<1> HIDE DEF s, t, w
<1>4. /\ m \notin DOMAIN threads /\ DOMAIN threads' = DOMAIN threads \cup {m}
      /\ threads'[k] = Over(k)
      /\ \A j \in DOMAIN threads : j # k => threads'[j] = threads[j]
      /\ threads'[m] = t
  BY <1>1, <1>2, <1>3
<1>5. /\ DOMAIN visits' = DOMAIN visits /\ visits'[v] = w
      /\ \A u \in DOMAIN visits : u # v => visits'[u] = visits[u]
  BY <1>1, <1>2
<1> QED
  BY <1>4, <1>5 DEF t, w

LEMMA SubscribeSub == ASSUME TypeInv, SubInv, NEW k \in DOMAIN threads, Subscribe(k)
                      PROVE  SubInv'
<1> DEFINE v == threads[k].visit
           m == Len(threads) + 1
           polling == visits[v].kind = "polling"
<1>0. /\ threads[k] \in ThreadType /\ v \in DOMAIN visits /\ visits[v] \in VisitType
      /\ \A j \in DOMAIN threads : threads[j].visit \in DOMAIN visits
  BY ThreadFacts DEF VisitOf
<1>1. /\ threads[k].kind = "start" /\ threads[k].pc # "over"
      /\ threads[k].link \in {"none", "closed"}
      /\ ~visits[v].closed /\ ~visits[v].timer
      /\ \A j \in DOMAIN threads : j # k => threads[j].visit # v
  BY DEF Subscribe, At, SubInv, StartsAlone, VisitOf
<1>2. /\ m \notin DOMAIN threads /\ DOMAIN threads' = DOMAIN threads \cup {m}
      /\ \A j \in DOMAIN threads : j # k => threads'[j] = threads[j]
      /\ DOMAIN visits' = DOMAIN visits
      /\ \A u \in DOMAIN visits : u # v => visits'[u] = visits[u]
  BY SubscribeDoes
<1>3. /\ threads'[k].visit = v /\ threads'[k].kind = "start"
      /\ threads'[k].pc = "over" /\ threads'[k].link \in {"none", "closed"}
  BY <1>1, SubscribeDoes, OverTyped
<1>4. /\ threads'[m].visit = v /\ threads'[m].kind # "start"
      /\ threads'[m].pc = "idle"
  <2>1. threads'[m] = Thread(v, visits[v].kind, IF polling THEN "open" ELSE "opening",
                             visits[v].last, "idle")
    BY SubscribeDoes
  <2>2. visits[v].kind # "start"
    BY <1>0, KindsAssumption DEF VisitType
  <2> QED
    BY <2>1, <2>2 DEF Thread
<1>5. ~visits'[v].closed /\ ~visits'[v].timer
  <2>1. visits'[v] = [visits[v] EXCEPT !.status = IF polling THEN "live" ELSE @]
    BY SubscribeDoes
  <2> QED
    BY <1>0, <1>1, <2>1 DEF VisitType
<1> HIDE DEF m, v
<1>6. StartsAlone'
  BY <1>0, <1>1, <1>2, <1>3, <1>4 DEF SubInv, StartsAlone, VisitOf
<1>7. TimerOfIdle'
  <2>1. ASSUME NEW u \in DOMAIN visits', visits'[u].closed
        PROVE  visits'[u].status = "left" /\ ~visits'[u].timer
    BY <1>2, <1>5, <2>1 DEF SubInv, TimerOfIdle
  <2>2. ASSUME NEW j \in DOMAIN threads', visits'[threads'[j].visit].timer
        PROVE  threads'[j].link \notin {"opening", "open"}
    BY <1>0, <1>2, <1>3, <1>4, <1>5, <2>2 DEF SubInv, TimerOfIdle, VisitOf
  <2> QED
    BY <2>1, <2>2 DEF TimerOfIdle, VisitOf
<1>8. OneSubscription' /\ ClosedMeansClosed'
  BY <1>0, <1>1, <1>2, <1>3, <1>4, <1>5
     DEF SubInv, OneSubscription, ClosedMeansClosed, VisitOf
<1> QED
  BY <1>6, <1>7, <1>8 DEF SubInv

LEMMA SubInductive == TypeInv /\ SubInv /\ [Next]_vars => SubInv'
<1> SUFFICES ASSUME TypeInv, SubInv, [Next]_vars PROVE SubInv'
  OBVIOUS
<1>1. CASE UNCHANGED <<visits, threads>>
  BY <1>1 DEF SubInv, StartsAlone, TimerOfIdle, OneSubscription, ClosedMeansClosed, VisitOf
<1>2. ASSUME NEW k \in DOMAIN threads, Run(k) PROVE SubInv'
  BY <1>2, QuietRun, SubKept, SubscribeSub, OpenSocketSub
<1> QED
  BY <1>1, <1>2, OpenPageSub, LeavePageSub, ReconnectSub, FailBatchSub, DropSocketSub,
     ReloadSub DEF Next, Publish, Prune, vars

LEMMA InitSub == Init => SubInv
BY DEF Init, SubInv, StartsAlone, TimerOfIdle, OneSubscription, ClosedMeansClosed

\* A session never has two subscriptions at once, however sockets drop and
\* reconnect: a reconnection is scheduled only when none is left.
THEOREM NeverTwoSubscriptions == Spec => []OneSubscription
<1>1. SubInv => OneSubscription
  BY DEF SubInv
<1> QED
  BY <1>1, InitTyped, InitSub, TypeInductive, SubInductive, PTL DEF Spec

\* A closed session keeps no subscription open, also when its page was left while
\* a socket was opening or a reconnection was due.
THEOREM ClosedForGood == Spec => []ClosedMeansClosed
<1>1. SubInv => ClosedMeansClosed
  BY DEF SubInv
<1> QED
  BY <1>1, InitTyped, InitSub, TypeInductive, SubInductive, PTL DEF Spec

-----------------------------------------------------------------------------
\* Positions

\* The positions a thread holds in memory, of the batch it works on and of its
\* last sync included, are as far behind as the persisted ones.
Follows(t, r) ==
  /\ Processed(r, t.pos)
  /\ t.pc \in {"show", "cursor"} => Processed(r, t.upto) /\ Processed(r, t.read)
  /\ t.pc \in {"offset", "after"} => Processed(r, t.upto)

ThreadsFollow == \A k \in DOMAIN threads : RoomOf(k) \notin skipped => Follows(threads[k], RoomOf(k))

PosInv == ResumesBehind /\ ThreadsFollow

\* Pages keep their rooms.
SameRooms ==
  /\ DOMAIN visits' = DOMAIN visits
  /\ \A v \in DOMAIN visits : visits'[v].room = visits[v].room



\* Steps that leave the ledger and the stored history alone.
LEMMA ThreadsFollowKept ==
  ASSUME TypeInv, PosInv, NEW k \in DOMAIN threads, NEW t \in ThreadType, SetThread(k, t),
         t.visit = threads[k].visit, SameRooms, UNCHANGED <<log, stored>>,
         skipped \subseteq skipped',
         RoomOf(k) \notin skipped' => Follows(t, RoomOf(k))
  PROVE  ThreadsFollow'
<1>1. /\ DOMAIN threads' = DOMAIN threads /\ threads'[k] = t
      /\ \A j \in DOMAIN threads : j # k => threads'[j] = threads[j]
  BY SetThreadTyped
<1>2. \A j \in DOMAIN threads : threads[j].visit \in DOMAIN visits
  BY ThreadFacts
<1>3. \A j \in DOMAIN threads : threads'[j].visit = threads[j].visit
  BY <1>1
<1>4. \A j \in DOMAIN threads : RoomOf(j)' = RoomOf(j)
  BY <1>2, <1>3 DEF RoomOf, VisitOf, SameRooms
<1>5. SUFFICES ASSUME NEW j \in DOMAIN threads, RoomOf(j)' \notin skipped'
               PROVE  Follows(threads[j], RoomOf(j))'
  BY <1>1 DEF ThreadsFollow
<1>6. Follows(threads'[j], RoomOf(j))
  BY <1>1, <1>4, <1>5 DEF PosInv, ThreadsFollow
<1>7. Follows(threads'[j], RoomOf(j)')
  BY <1>4, <1>6
<1> QED
  BY <1>7 DEF Follows, Processed

LEMMA ResumesKept ==
  ASSUME TypeInv, ResumesBehind, SameRooms, UNCHANGED <<log, stored, cursor, offset>>,
         skipped \subseteq skipped',
         \A v \in DOMAIN visits : \/ visits'[v].last = visits[v].last
                                  \/ visits[v].room \notin skipped' => Processed(visits[v].room, visits'[v].last)
  PROVE  ResumesBehind'
<1>1. ASSUME NEW r \in Rooms \ skipped'
      PROVE  /\ offset'[r] # None => Processed(r, offset'[r])
             /\ Processed(r, cursor'[r])
             /\ \A v \in DOMAIN visits : visits[v].room = r => Processed(r, visits'[v].last)
  BY DEF ResumesBehind
<1> QED
  BY <1>1 DEF ResumesBehind, SameRooms, Processed

LEMMA BeginPos ==
  ASSUME TypeInv, PosInv, NEW k \in DOMAIN threads,
         NEW after \in 0 .. Len(log), NEW upto \in 0 .. Len(log), Begin(k, after, upto),
         RoomOf(k) \notin skipped => Processed(RoomOf(k), after),
         UNCHANGED <<log, persisted, visits, skipped>>
  PROVE  PosInv'
<1> DEFINE r == RoomOf(k)
           t == [threads[k] EXCEPT !.pos = after, !.upto = upto,
                   !.pc = IF Concerns(k, after, upto) THEN "sync" ELSE "offset"]
<1>0. Len(log) \in Nat /\ threads[k] \in ThreadType
  BY ThreadFacts
<1>1. t \in ThreadType
  BY <1>0 DEF ThreadType
<1>2. SetThread(k, t)
  BY DEF Begin
<1>3. /\ t.visit = threads[k].visit /\ t.pos = after /\ t.upto = upto
      /\ t.pc = IF Concerns(k, after, upto) THEN "sync" ELSE "offset"
  BY <1>0 DEF ThreadType
<1>4. ASSUME r \notin skipped PROVE Follows(t, r)
  <2>1. ~Concerns(k, after, upto) => Processed(r, upto)
    <3> SUFFICES ASSUME ~Concerns(k, after, upto), NEW i \in 1 .. upto, log[i] = r
                 PROVE  i <= stored[r]
      BY DEF Processed
    <3>1. i \notin after + 1 .. upto
      BY DEF Concerns
    <3>2. i \in 1 .. after
      BY <1>0, <3>1
    <3> QED
      BY <1>4, <3>2 DEF Processed
  <2> QED
    BY <1>3, <1>4, <2>1 DEF Follows
<1> HIDE DEF t
<1>5. SameRooms
  BY DEF SameRooms
<1>6. ThreadsFollow'
  BY <1>1, <1>2, <1>3, <1>4, <1>5, ThreadsFollowKept DEF persisted
<1>7. ResumesBehind'
  BY <1>5, ResumesKept DEF persisted, PosInv
<1> QED
  BY <1>6, <1>7 DEF PosInv

\* After a sync, the room is processed up to every position.
LEMMA SyncPos ==
  ASSUME TypeInv, PosInv, NEW k \in DOMAIN threads, Sync(k)
  PROVE  PosInv'
<1> DEFINE r == RoomOf(k)
           t == [threads[k] EXCEPT !.read = LastEvent(r),
                   !.pc = IF LastEvent(r) > cursor[r] THEN "show" ELSE "offset"]
<1>0. /\ Len(log) \in Nat /\ threads[k] \in ThreadType /\ r \in Rooms
      /\ \A j \in DOMAIN threads : threads[j] \in ThreadType /\ threads[j].visit \in DOMAIN visits
      /\ \A v \in DOMAIN visits : visits[v] \in VisitType
  BY ThreadFacts, VisitFacts
<1>1. /\ LastEvent(r) \in 0 .. Len(log)
      /\ \A i \in 1 .. Len(log) : log[i] = r => i <= LastEvent(r)
  BY <1>0, LastEventIsLast
<1>2. /\ UNCHANGED <<log, cursor, offset, visits, skipped>>
      /\ stored' = [stored EXCEPT ![r] = LastEvent(r)]
  BY DEF Sync, ledger
<1>3. t \in ThreadType /\ SetThread(k, t) /\ t.visit = threads[k].visit
  BY <1>0, <1>1 DEF Sync, ThreadType
<1> HIDE DEF t, r
<1>4. /\ DOMAIN threads' = DOMAIN threads /\ threads'[k] = t
      /\ \A j \in DOMAIN threads : j # k => threads'[j] = threads[j]
  BY <1>3, SetThreadTyped
<1>5. ASSUME NEW q \in Rooms, NEW p \in 0 .. Len(log), q = r \/ Processed(q, p)
      PROVE  Processed(q, p)'
  <2>1. CASE q = r
    BY <1>0, <1>1, <1>2, <2>1 DEF Processed, TypeInv
  <2>2. CASE q # r
    BY <1>2, <1>5, <2>2 DEF Processed, TypeInv
  <2> QED
    BY <2>1, <2>2
<1>6. ResumesBehind'
  <2>1. ASSUME NEW q \in Rooms \ skipped
        PROVE  /\ offset[q] # None => Processed(q, offset[q])
               /\ Processed(q, cursor[q])
               /\ \A v \in DOMAIN visits : visits[v].room = q => Processed(q, visits[v].last)
    BY DEF PosInv, ResumesBehind
  <2>2. \A q \in Rooms : offset[q] \in 0 .. Len(log) \cup {None} /\ cursor[q] \in 0 .. Len(log)
    BY DEF TypeInv
  <2>3. \A v \in DOMAIN visits : visits[v].last \in 0 .. Len(log)
    BY <1>0 DEF VisitType
  <2>4. SUFFICES ASSUME NEW q \in Rooms \ skipped
                 PROVE  /\ offset[q] # None => Processed(q, offset[q])'
                        /\ Processed(q, cursor[q])'
                        /\ \A v \in DOMAIN visits :
                             visits[v].room = q => Processed(q, visits[v].last)'
    BY <1>2 DEF ResumesBehind
  <2>5. Processed(q, cursor[q])'
    BY <1>2, <1>5, <2>1, <2>2 DEF Processed
  <2>6. ASSUME offset[q] # None PROVE Processed(q, offset[q])'
    BY <1>2, <1>5, <2>1, <2>2, <2>6 DEF Processed
  <2>7. ASSUME NEW v \in DOMAIN visits, visits[v].room = q
        PROVE  Processed(q, visits[v].last)'
    BY <1>2, <1>5, <2>1, <2>3, <2>7 DEF Processed
  <2> QED
    BY <2>5, <2>6, <2>7
<1>7. ThreadsFollow'
  <2>1. \A j \in DOMAIN threads : threads'[j].visit = threads[j].visit /\ threads'[j] \in ThreadType
    BY <1>0, <1>3, <1>4
  <2>2. \A j \in DOMAIN threads : RoomOf(j)' = RoomOf(j) /\ RoomOf(j) \in Rooms
    BY <1>2, <2>1, ThreadFacts DEF RoomOf, VisitOf
  <2>3. SUFFICES ASSUME NEW j \in DOMAIN threads, RoomOf(j)' \notin skipped
                 PROVE  Follows(threads[j], RoomOf(j))'
    BY <1>2, <1>4 DEF ThreadsFollow
  <2>4. {threads'[j].pos, threads'[j].upto, threads'[j].read} \subseteq 0 .. Len(log)
    BY <2>1 DEF ThreadType
  <2>5. CASE RoomOf(j) = r
    BY <1>5, <2>2, <2>4, <2>5 DEF Follows, Processed
  <2>6. CASE RoomOf(j) # r
    <3>1. j # k
      BY <2>6 DEF r
    <3>2. Follows(threads'[j], RoomOf(j))
      BY <1>4, <2>2, <2>3, <3>1 DEF PosInv, ThreadsFollow
    <3> QED
      BY <1>5, <2>2, <2>4, <3>2 DEF Follows, Processed
  <2> QED
    BY <2>5, <2>6
<1> QED
  BY <1>6, <1>7 DEF PosInv

LEMMA RunPos ==
  ASSUME TypeInv, PosInv, NEW k \in DOMAIN threads, Run(k), ~Subscribe(k)
  PROVE  PosInv'
<1> DEFINE x == threads[k]
           v == x.visit
           r == RoomOf(k)
<1>0. /\ Len(log) \in Nat /\ 0 \in 0 .. Len(log) /\ x \in ThreadType
      /\ v \in DOMAIN visits /\ visits[v] \in VisitType /\ r \in Rooms /\ r = visits[v].room
  BY ThreadFacts DEF VisitOf, RoomOf
<1>1. r \notin skipped => Follows(x, r)
  BY DEF PosInv, ThreadsFollow
<1>2. Processed(r, 0)
  BY DEF Processed
<1>3. ASSUME NEW t \in ThreadType, SetThread(k, t), t.visit = v, UNCHANGED <<log, stored, skipped>>,
             SameRooms, r \notin skipped => Follows(t, r)
      PROVE  ThreadsFollow'
  BY <1>3, ThreadsFollowKept
<1>4. ASSUME NEW w, visits' = [visits EXCEPT ![v] = w], w.room = r,
             r \notin skipped => Processed(r, w.last), UNCHANGED <<log, stored, cursor, offset, skipped>>
      PROVE  SameRooms /\ ResumesBehind'
  <2>1. SameRooms
    BY <1>0, <1>4 DEF SameRooms
  <2> QED
    BY <1>0, <1>4, <2>1, ResumesKept DEF PosInv
<1>5. r \notin skipped => Processed(r, visits[v].last) /\ Processed(r, cursor[r])
                          /\ (offset[r] # None => Processed(r, offset[r]))
  BY <1>0 DEF PosInv, ResumesBehind
<1>6. UNCHANGED visits => SameRooms
  BY DEF SameRooms
<1>7. UNCHANGED <<log, stored, cursor, offset, visits, skipped>> => ResumesBehind'
  BY <1>6, ResumesKept DEF PosInv
<1>10. CASE LoadOffset(k)
  <2> DEFINE t == [x EXCEPT !.pc = IF offset[r] = None THEN "snapshot" ELSE "subscribe"]
             w == [visits[v] EXCEPT !.last = offset[r]]
  <2>1. /\ t \in ThreadType /\ t.visit = v /\ SetThread(k, t)
        /\ t.pos = x.pos /\ t.upto = x.upto /\ t.read = x.read
        /\ t.pc \in {"snapshot", "subscribe"}
    BY <1>0, <1>10 DEF LoadOffset, ThreadType
  <2>2. UNCHANGED <<log, stored, cursor, offset, skipped>>
    BY <1>10 DEF LoadOffset, ledger, persisted
  <2>3. SameRooms /\ ResumesBehind'
    <3>1. CASE offset[r] = None
      BY <1>6, <1>7, <1>10, <2>2, <3>1 DEF LoadOffset
    <3>2. CASE offset[r] # None
      <4>1. visits' = [visits EXCEPT ![v] = w] /\ w.room = r /\ w.last = offset[r]
        BY <1>0, <1>10, <3>2 DEF LoadOffset, VisitType
      <4> HIDE DEF w
      <4> QED
        BY <1>4, <1>5, <2>2, <3>2, <4>1
    <3> QED
      BY <3>1, <3>2
  <2> HIDE DEF t
  <2>4. ThreadsFollow'
    BY <1>1, <1>3, <2>1, <2>2, <2>3 DEF Follows
  <2> QED
    BY <2>3, <2>4 DEF PosInv
<1>11. CASE TakeSnapshot(k)
  BY <1>0, <1>2, <1>11, BeginPos DEF TakeSnapshot, ledger
<1>12. CASE Sync(k)
  BY <1>12, SyncPos
<1>13. CASE Show(k)
  <2> DEFINE t == [x EXCEPT !.pc = "cursor"]
             w == [visits[v] EXCEPT !.shown = IF visits[v].closed THEN @ ELSE Max({@, x.read})]
  <2>1. /\ t \in ThreadType /\ t.visit = v /\ SetThread(k, t)
        /\ t.pos = x.pos /\ t.upto = x.upto /\ t.read = x.read /\ t.pc = "cursor"
        /\ x.pc = "show"
    BY <1>0, <1>13 DEF Show, At, ThreadType
  <2>2. UNCHANGED <<log, stored, cursor, offset, skipped>>
    BY <1>13 DEF Show, ledger, persisted
  <2>3. visits' = [visits EXCEPT ![v] = w] /\ w.room = r /\ w.last = visits[v].last
    BY <1>0, <1>13 DEF Show, Display, VisitType
  <2> HIDE DEF t, w
  <2>4. SameRooms /\ ResumesBehind'
    BY <1>4, <1>5, <2>2, <2>3
  <2>5. ThreadsFollow'
    BY <1>1, <1>3, <2>1, <2>2, <2>4 DEF Follows
  <2> QED
    BY <2>4, <2>5 DEF PosInv
<1>14. CASE SaveCursor(k)
  <2> DEFINE t == [x EXCEPT !.pc = "offset", !.read = 0]
  <2>0. t \in ThreadType
    BY <1>0 DEF ThreadType
  <2>1. /\ t.visit = v /\ SetThread(k, t)
        /\ t.pos = x.pos /\ t.upto = x.upto /\ t.pc = "offset" /\ x.pc = "cursor"
    BY <1>0, <1>14 DEF SaveCursor, At, ThreadType
  <2>2. /\ UNCHANGED <<log, stored, offset, visits, skipped>>
        /\ cursor' = [cursor EXCEPT ![r] = x.read]
    BY <1>14 DEF SaveCursor, ledger
  <2> HIDE DEF t
  <2>4. ThreadsFollow'
    BY <1>1, <1>3, <1>6, <2>0, <2>1, <2>2 DEF Follows
  <2>5. ResumesBehind'
    <3>1. ASSUME NEW q \in Rooms \ skipped
          PROVE  /\ offset[q] # None => Processed(q, offset[q])
                 /\ Processed(q, cursor'[q])
                 /\ \A u \in DOMAIN visits : visits[u].room = q => Processed(q, visits[u].last)
      BY <1>1, <2>1, <2>2 DEF PosInv, ResumesBehind, Follows, TypeInv
    <3> QED
      BY <2>2, <3>1 DEF ResumesBehind, Processed
  <2> QED
    BY <2>4, <2>5 DEF PosInv
<1>15. CASE SaveOffset(k)
  <2> DEFINE t == [x EXCEPT !.pc = "after"]
             w == [visits[v] EXCEPT !.last = x.upto]
  <2>1. /\ t \in ThreadType /\ t.visit = v /\ SetThread(k, t)
        /\ t.pos = x.pos /\ t.upto = x.upto /\ t.pc = "after" /\ x.pc = "offset"
    BY <1>0, <1>15 DEF SaveOffset, At, ThreadType
  <2>2. /\ UNCHANGED <<log, stored, cursor, skipped>>
        /\ offset' = [offset EXCEPT ![r] = x.upto]
        /\ visits' = [visits EXCEPT ![v] = w]
    BY <1>15 DEF SaveOffset, ledger
  <2>3. w.room = r /\ w.last = x.upto
    BY <1>0 DEF VisitType
  <2> HIDE DEF t, w
  <2>4. SameRooms
    BY <1>0, <2>2, <2>3 DEF SameRooms
  <2>5. ThreadsFollow'
    BY <1>1, <1>3, <2>1, <2>2, <2>4 DEF Follows
  <2>6. ResumesBehind'
    <3>1. ASSUME NEW q \in Rooms \ skipped
          PROVE  /\ offset'[q] # None => Processed(q, offset'[q])
                 /\ Processed(q, cursor[q])
                 /\ \A u \in DOMAIN visits : visits[u].room = q => Processed(q, visits'[u].last)
      <4>1. q = r => Processed(r, x.upto)
        BY <1>1, <2>1 DEF Follows
      <4>2. offset'[q] # None => Processed(q, offset'[q])
        BY <2>2, <4>1 DEF PosInv, ResumesBehind, TypeInv
      <4>3. ASSUME NEW u \in DOMAIN visits, visits[u].room = q
            PROVE  Processed(q, visits'[u].last)
        BY <1>0, <2>2, <2>3, <4>1, <4>3 DEF PosInv, ResumesBehind
      <4> QED
        BY <4>2, <4>3 DEF PosInv, ResumesBehind
    <3> QED
      BY <2>2, <2>4, <3>1 DEF ResumesBehind, Processed, SameRooms
  <2> QED
    BY <2>5, <2>6 DEF PosInv
<1>16. CASE AfterBatch(k)
  <2> DEFINE t == [x EXCEPT !.pos = x.upto, !.pc = IF x.kind = "start" THEN "subscribe" ELSE "idle"]
             w == [visits[v] EXCEPT !.woken = TRUE,
                     !.shown = IF visits[v].closed THEN @ ELSE Max({@, stored[r]})]
  <2>0. t \in ThreadType
    BY <1>0 DEF ThreadType
  <2>1. /\ t.visit = v /\ SetThread(k, t) /\ t.pos = x.upto
        /\ t.pc \in {"subscribe", "idle"} /\ x.pc = "after"
    BY <1>0, <1>16 DEF AfterBatch, At, ThreadType
  <2>2. UNCHANGED <<log, stored, cursor, offset, skipped>>
    BY <1>16 DEF AfterBatch, ledger, persisted
  <2>3. visits' = [visits EXCEPT ![v] = w] /\ w.room = r /\ w.last = visits[v].last
    BY <1>0, <1>16 DEF AfterBatch, VisitType
  <2> HIDE DEF t, w
  <2>4. SameRooms /\ ResumesBehind'
    BY <1>4, <1>5, <2>2, <2>3
  <2>5. ThreadsFollow'
    BY <1>1, <1>3, <2>0, <2>1, <2>2, <2>4 DEF Follows
  <2> QED
    BY <2>4, <2>5 DEF PosInv
<1>17. CASE Poll(k) \/ ReceiveFrame(k)
  <2>1. PICK t \in ThreadType :
          /\ SetThread(k, t) /\ t.visit = v /\ t.pos = x.pos /\ t.upto = x.upto /\ t.read = x.read
          /\ t.pc = x.pc \/ t.pc = "read"
    <3>1. CASE Poll(k)
      <4> DEFINE t == [x EXCEPT !.got = Len(log), !.pc = "read"]
      <4>0. t \in ThreadType
        <5>1. Len(log) \in 0 .. Len(log)
          BY <1>0
        <5> QED
          BY <1>0, <5>1 DEF ThreadType
      <4>1. /\ SetThread(k, t) /\ t.visit = v /\ t.pos = x.pos /\ t.upto = x.upto
            /\ t.read = x.read /\ t.pc = "read"
        BY <1>0, <3>1 DEF Poll, ThreadType
      <4> HIDE DEF t
      <4> QED
        BY <4>0, <4>1
    <3>2. CASE ReceiveFrame(k)
      <4> DEFINE t == [x EXCEPT !.got = @ + 1]
      <4>0. x.got + 1 \in 0 .. Len(log)
        BY <1>0, <3>2 DEF ReceiveFrame, ThreadType
      <4>1. /\ t \in ThreadType
            /\ SetThread(k, t) /\ t.visit = v /\ t.pos = x.pos /\ t.upto = x.upto
            /\ t.read = x.read /\ t.pc = x.pc
        BY <1>0, <3>2, <4>0 DEF ReceiveFrame, ThreadType
      <4> HIDE DEF t
      <4> QED
        BY <4>1
    <3> QED
      BY <1>17, <3>1, <3>2
  <2>2. UNCHANGED <<log, stored, cursor, offset, visits, skipped>>
    BY <1>17 DEF Poll, ReceiveFrame, ledger, persisted
  <2>3. ThreadsFollow'
    BY <1>1, <1>3, <1>6, <2>1, <2>2 DEF Follows
  <2> QED
    BY <1>7, <2>2, <2>3 DEF PosInv
<1>18. CASE ReadUpdates(k)
  <2>1. CASE x.link = "closed"
    <3>1. SetThread(k, Over(k)) /\ UNCHANGED <<log, stored, cursor, offset, visits, skipped>>
      BY <1>18, <2>1 DEF ReadUpdates, ledger, persisted
    <3>2. Over(k) \in ThreadType /\ Over(k).visit = v /\ Follows(Over(k), r)
      BY <1>2, OverTyped DEF Follows
    <3>3. ThreadsFollow'
      BY <1>3, <1>6, <3>1, <3>2
    <3> QED
      BY <1>7, <3>1, <3>3 DEF PosInv
  <2>2. CASE x.link # "closed"
    <3> DEFINE end == IF CreatedSince(x.pos) # {} THEN Max(CreatedSince(x.pos)) ELSE x.got
    <3>1. end \in 0 .. Len(log) /\ x.pos \in 0 .. Len(log)
      BY <1>0, PollEnds DEF ThreadType
    <3>2. Begin(k, x.pos, end) /\ UNCHANGED <<log, persisted, visits, skipped>>
      BY <1>18, <2>2 DEF ReadUpdates, ledger
    <3>3. r \notin skipped => Processed(r, x.pos)
      BY <1>1 DEF Follows
    <3> HIDE DEF end
    <3> QED
      BY <3>1, <3>2, <3>3, BeginPos
  <2> QED
    BY <2>1, <2>2
<1>19. CASE OpenSocket(k)
  <2> DEFINE t == [x EXCEPT !.link = IF visits[v].closed THEN "closed" ELSE "open"]
             w == [visits[v] EXCEPT !.status = IF @ = "starting" THEN "live" ELSE @]
  <2>1. /\ t \in ThreadType /\ t.visit = v /\ SetThread(k, t)
        /\ t.pos = x.pos /\ t.upto = x.upto /\ t.read = x.read /\ t.pc = x.pc
        /\ visits' = [visits EXCEPT ![v] = w] /\ w.room = r /\ w.last = visits[v].last
    BY <1>0, <1>19 DEF OpenSocket, ThreadType, VisitType
  <2>2. UNCHANGED <<log, stored, cursor, offset, skipped>>
    BY <1>19 DEF OpenSocket, ledger, persisted
  <2> HIDE DEF t, w
  <2>3. SameRooms /\ ResumesBehind'
    BY <1>4, <1>5, <2>1, <2>2
  <2>4. ThreadsFollow'
    BY <1>1, <1>3, <2>1, <2>2, <2>3 DEF Follows
  <2> QED
    BY <2>3, <2>4 DEF PosInv
<1>20. CASE TakeFrame(k)
  <2>1. x.pos \in 0 .. Len(log) /\ x.pos + 1 \in 0 .. Len(log)
    BY <1>0, <1>20 DEF TakeFrame, ThreadType
  <2>2. r \notin skipped => Processed(r, x.pos)
    BY <1>1 DEF Follows
  <2> QED
    BY <1>20, <2>1, <2>2, BeginPos DEF TakeFrame, ledger
<1> QED
  BY <1>10, <1>11, <1>12, <1>13, <1>14, <1>15, <1>16, <1>17, <1>18, <1>19, <1>20 DEF Run

\* Steps that add threads and pages, and leave the positions of the others alone.
LEMMA PosKept ==
  ASSUME TypeInv, PosInv, UNCHANGED <<log, stored, cursor, offset>>, skipped \subseteq skipped',
         \A v \in DOMAIN visits : v \in DOMAIN visits' /\ visits'[v].room = visits[v].room,
         \A v \in DOMAIN visits' :
           \/ v \in DOMAIN visits /\ visits'[v].last = visits[v].last
           \/ visits'[v].last = 0,
         \A j \in DOMAIN threads' :
           \/ /\ j \in DOMAIN threads /\ threads'[j].visit = threads[j].visit
              /\ threads'[j].pc = threads[j].pc /\ threads'[j].pos = threads[j].pos
              /\ threads'[j].upto = threads[j].upto /\ threads'[j].read = threads[j].read
           \/ /\ threads'[j].pc \notin {"show", "cursor", "offset", "after"}
              /\ \/ threads'[j].pos = 0
                 \/ /\ threads'[j].visit \in DOMAIN visits
                    /\ threads'[j].pos = visits[threads'[j].visit].last
         PROVE  PosInv'
<1>0. /\ \A v \in DOMAIN visits : visits[v].room \in Rooms
      /\ \A k \in DOMAIN threads : threads[k].visit \in DOMAIN visits
  BY ThreadFacts, VisitFacts DEF VisitType
<1>1. \A q, p : Processed(q, p)' <=> Processed(q, p)
  BY DEF Processed
<1>2. \A q : Processed(q, 0)
  BY DEF Processed
<1>3. ResumesBehind'
  <2>1. ASSUME NEW q \in Rooms \ skipped'
        PROVE  /\ offset[q] # None => Processed(q, offset[q])
               /\ Processed(q, cursor[q])
               /\ \A v \in DOMAIN visits' : visits'[v].room = q => Processed(q, visits'[v].last)
    BY <1>2 DEF PosInv, ResumesBehind
  <2> QED
    BY <2>1 DEF ResumesBehind, Processed
<1>4. ThreadsFollow'
  <2>1. SUFFICES ASSUME NEW j \in DOMAIN threads', RoomOf(j)' \notin skipped'
                 PROVE  Follows(threads[j], RoomOf(j))'
    BY DEF ThreadsFollow
  <2>2. RoomOf(j)' = visits'[threads'[j].visit].room
    BY DEF RoomOf, VisitOf
  <2>3. CASE /\ j \in DOMAIN threads /\ threads'[j].visit = threads[j].visit
             /\ threads'[j].pc = threads[j].pc /\ threads'[j].pos = threads[j].pos
             /\ threads'[j].upto = threads[j].upto /\ threads'[j].read = threads[j].read
    <3>1. RoomOf(j)' = RoomOf(j) /\ RoomOf(j) \notin skipped
      BY <1>0, <2>1, <2>2, <2>3 DEF RoomOf, VisitOf
    <3>2. Follows(threads[j], RoomOf(j))
      BY <2>3, <3>1 DEF PosInv, ThreadsFollow
    <3>3. Follows(threads'[j], RoomOf(j)')
      BY <2>3, <3>1, <3>2 DEF Follows
    <3> QED
      BY <3>3 DEF Follows, Processed
  <2>4. CASE /\ threads'[j].pc \notin {"show", "cursor", "offset", "after"}
             /\ \/ threads'[j].pos = 0
                \/ /\ threads'[j].visit \in DOMAIN visits
                   /\ threads'[j].pos = visits[threads'[j].visit].last
    <3>1. Processed(RoomOf(j)', threads'[j].pos)
      BY <1>0, <1>2, <2>1, <2>2, <2>4 DEF PosInv, ResumesBehind
    <3>2. Follows(threads'[j], RoomOf(j)')
      BY <2>4, <3>1 DEF Follows
    <3> QED
      BY <3>2 DEF Follows, Processed
  <2> QED
    BY <2>3, <2>4
<1> QED
  BY <1>3, <1>4 DEF PosInv

LEMMA SubscribePos == ASSUME TypeInv, PosInv, NEW k \in DOMAIN threads, Subscribe(k)
                      PROVE  PosInv'
<1> DEFINE v == threads[k].visit
           m == Len(threads) + 1
<1>0. /\ threads[k] \in ThreadType /\ v \in DOMAIN visits /\ visits[v] \in VisitType
  BY ThreadFacts DEF VisitOf
<1>1. /\ DOMAIN threads' = DOMAIN threads \cup {m}
      /\ \A j \in DOMAIN threads : j # k => threads'[j] = threads[j]
      /\ threads'[k] = Over(k)
      /\ DOMAIN visits' = DOMAIN visits
      /\ \A u \in DOMAIN visits : u # v => visits'[u] = visits[u]
  BY SubscribeDoes
<1>2. threads'[m] = Thread(v, visits[v].kind, IF visits[v].kind = "polling" THEN "open" ELSE "opening",
                           visits[v].last, "idle")
  BY SubscribeDoes
<1>3. threads'[m].visit = v /\ threads'[m].pos = visits[v].last /\ threads'[m].pc = "idle"
  BY <1>2 DEF Thread
<1>4. threads'[k].pos = 0 /\ threads'[k].pc = "over"
  BY <1>1, OverTyped
<1>5. visits'[v].room = visits[v].room /\ visits'[v].last = visits[v].last
  <2>1. visits'[v] = [visits[v] EXCEPT !.status = IF visits[v].kind = "polling" THEN "live" ELSE @]
    BY SubscribeDoes
  <2> QED
    BY <1>0, <2>1 DEF VisitType
<1>6. UNCHANGED <<log, stored, cursor, offset, skipped>>
  BY DEF Subscribe, ledger, persisted
<1> HIDE DEF v, m
<1> QED
  BY <1>0, <1>1, <1>3, <1>4, <1>5, <1>6, PosKept

LEMMA OpenPagePos == ASSUME TypeInv, PosInv, NEW r \in Rooms, NEW kind \in Kinds, OpenPage(r, kind)
                     PROVE  PosInv'
<1> DEFINE n == Len(visits) + 1
           m == Len(threads) + 1
<1>1. /\ DOMAIN visits' = DOMAIN visits \cup {n}
      /\ \A v \in DOMAIN visits : visits'[v] = visits[v]
      /\ visits'[n] = Visit(r, kind)
      /\ DOMAIN threads' = DOMAIN threads \cup {m}
      /\ \A k \in DOMAIN threads : threads'[k] = threads[k]
      /\ threads'[m] = Thread(n, "start", "none", 0, "load")
  BY OpenPageTyped
<1>2. visits'[n].last = 0 /\ threads'[m].pc = "load" /\ threads'[m].pos = 0
  BY <1>1 DEF Visit, Thread
<1>3. UNCHANGED <<log, stored, cursor, offset, skipped>>
  BY DEF OpenPage, ledger, persisted
<1> HIDE DEF n, m
<1> QED
  BY <1>1, <1>2, <1>3, PosKept

LEMMA LeavePagePos == ASSUME TypeInv, PosInv, NEW v \in DOMAIN visits, LeavePage(v)
                      PROVE  PosInv'
<1> DEFINE live == visits[v].status = "live"
<1>1. /\ DOMAIN visits' = DOMAIN visits /\ DOMAIN threads' = DOMAIN threads
      /\ \A u \in DOMAIN visits : u # v => visits'[u] = visits[u]
  BY LeavePageTyped DEF LeavePage
<1>2. visits'[v].room = visits[v].room /\ visits'[v].last = visits[v].last
  BY VisitFacts DEF LeavePage, VisitType
<1>3. ASSUME NEW k \in DOMAIN threads
      PROVE  /\ threads'[k].visit = threads[k].visit
             /\ threads'[k].pc = threads[k].pc /\ threads'[k].pos = threads[k].pos
             /\ threads'[k].upto = threads[k].upto /\ threads'[k].read = threads[k].read
  <2>1. threads[k] \in ThreadType
    BY ThreadFacts
  <2>2. threads'[k] = IF live /\ threads[k].visit = v /\ threads[k].link = "open"
                      THEN [threads[k] EXCEPT !.link = "closed"] ELSE threads[k]
    BY LeavePageTyped
  <2> QED
    BY <2>1, <2>2 DEF ThreadType
<1>4. UNCHANGED <<log, stored, cursor, offset, skipped>>
  BY DEF LeavePage, ledger, persisted
<1> QED
  BY <1>1, <1>2, <1>3, <1>4, PosKept

LEMMA ReconnectPos == ASSUME TypeInv, PosInv, NEW v \in DOMAIN visits, Reconnect(v)
                      PROVE  PosInv'
<1> DEFINE m == Len(threads) + 1
<1>1. /\ DOMAIN visits' = DOMAIN visits
      /\ visits'[v] = [visits[v] EXCEPT !.timer = FALSE]
      /\ \A u \in DOMAIN visits : u # v => visits'[u] = visits[u]
      /\ DOMAIN threads' = DOMAIN threads \cup {m}
      /\ \A k \in DOMAIN threads : threads'[k] = threads[k]
      /\ threads'[m] = Thread(v, "socket", "opening", visits[v].last, "idle")
  BY ReconnectTyped
<1>2. visits'[v].room = visits[v].room /\ visits'[v].last = visits[v].last
  BY <1>1, VisitFacts DEF VisitType
<1>3. threads'[m].visit = v /\ threads'[m].pc = "idle" /\ threads'[m].pos = visits[v].last
  BY <1>1 DEF Thread
<1>4. UNCHANGED <<log, stored, cursor, offset, skipped>>
  BY DEF Reconnect, ledger, persisted
<1> HIDE DEF m
<1> QED
  BY <1>1, <1>2, <1>3, <1>4, PosKept

LEMMA ReloadPos == ASSUME TypeInv, PosInv, Reload PROVE PosInv'
<1>1. /\ DOMAIN visits' = DOMAIN visits /\ DOMAIN threads' = DOMAIN threads
      /\ \A v \in DOMAIN visits :
           visits'[v].room = visits[v].room /\ visits'[v].last = visits[v].last
  BY ReloadTyped, VisitFacts, ZenonT(60) DEF VisitType
<1>2. ASSUME NEW k \in DOMAIN threads
      PROVE  threads'[k].pc = "over" /\ threads'[k].pos = 0
  <2>1. threads'[k] = [Over(k) EXCEPT !.link = "closed"]
    BY ReloadTyped
  <2> QED
    BY <2>1, OverTyped DEF ThreadType
<1>3. UNCHANGED <<log, stored, cursor, offset, skipped>>
  BY DEF Reload, ledger, persisted
<1> QED
  BY <1>1, <1>2, <1>3, PosKept

LEMMA DropSocketPos == ASSUME TypeInv, PosInv, NEW k \in DOMAIN threads, DropSocket(k)
                       PROVE  PosInv'
<1> DEFINE x == threads[k]
           v == x.visit
           t == [x EXCEPT !.link = "closed"]
           w == [visits[v] EXCEPT !.timer = ~visits[v].closed,
                   !.status = IF @ = "starting" THEN "failed" ELSE @]
<1>0. x \in ThreadType /\ v \in DOMAIN visits /\ visits[v] \in VisitType
  BY ThreadFacts DEF VisitOf
<1>1. /\ SetThread(k, t) /\ visits' = [visits EXCEPT ![v] = w]
      /\ UNCHANGED <<log, stored, cursor, offset, skipped>>
  BY DEF DropSocket, ledger, persisted
<1>2. /\ t.visit = v /\ t.pc = x.pc /\ t.pos = x.pos /\ t.upto = x.upto /\ t.read = x.read
      /\ w.room = visits[v].room /\ w.last = visits[v].last
  BY <1>0 DEF ThreadType, VisitType
<1> HIDE DEF t, w
<1>3. /\ DOMAIN threads' = DOMAIN threads /\ threads'[k] = t
      /\ \A j \in DOMAIN threads : j # k => threads'[j] = threads[j]
      /\ DOMAIN visits' = DOMAIN visits /\ visits'[v] = w
      /\ \A u \in DOMAIN visits : u # v => visits'[u] = visits[u]
  BY <1>0, <1>1 DEF SetThread
<1> QED
  BY <1>1, <1>2, <1>3, PosKept

\* A poller takes its batch again; a socket goes on behind it, which leaves the
\* room among the skipped ones unless the batch was through.
LEMMA FailBatchPos == ASSUME TypeInv, PosInv, NEW k \in DOMAIN threads, FailBatch(k)
                      PROVE  PosInv'
<1> DEFINE x == threads[k]
           v == x.visit
           r == RoomOf(k)
           t == IF x.kind = "start" THEN Over(k)
                ELSE [x EXCEPT !.pc = "idle", !.read = 0,
                               !.pos = IF x.kind = "socket" THEN x.upto ELSE @]
           w == [visits[v] EXCEPT !.woken = FALSE,
                   !.status = IF x.kind = "start" THEN "failed" ELSE @]
<1>0. /\ x \in ThreadType /\ v \in DOMAIN visits /\ visits[v] \in VisitType /\ 0 \in 0 .. Len(log)
      /\ r = visits[v].room
  BY ThreadFacts DEF VisitOf, RoomOf
<1>1. /\ SetThread(k, t) /\ visits' = [visits EXCEPT ![v] = w]
      /\ UNCHANGED <<log, stored, cursor, offset>>
      /\ skipped' = IF x.kind = "socket" /\ x.pc # "after" THEN skipped \cup {r} ELSE skipped
  BY DEF FailBatch, ledger, persisted
<1>2. t \in ThreadType
  BY <1>0, OverTyped DEF ThreadType
<1>3. /\ t.visit = v /\ t.pc \in {"over", "idle"}
      /\ t.pos = IF x.kind = "start" THEN 0 ELSE IF x.kind = "socket" THEN x.upto ELSE x.pos
  BY <1>0, OverTyped DEF ThreadType
<1>4. w.room = r /\ w.last = visits[v].last
  BY <1>0 DEF VisitType
<1> HIDE DEF t, w
<1>5. r \notin skipped' => Follows(t, r)
  <2> SUFFICES ASSUME r \notin skipped' PROVE Follows(t, r)
    OBVIOUS
  <2>1. Follows(x, r) /\ Processed(r, 0)
    BY <1>1 DEF PosInv, ThreadsFollow, Processed
  <2>2. x.kind = "socket" => x.pc = "after"
    BY <1>1
  <2> QED
    BY <1>3, <2>1, <2>2 DEF Follows
<1>6. SameRooms /\ skipped \subseteq skipped'
  BY <1>0, <1>1, <1>4 DEF SameRooms
<1>7. ThreadsFollow'
  BY <1>1, <1>2, <1>3, <1>5, <1>6, ThreadsFollowKept
<1>8. ResumesBehind'
  <2>1. \A u \in DOMAIN visits : visits'[u].last = visits[u].last
    BY <1>0, <1>1, <1>4
  <2> QED
    BY <1>1, <1>6, <2>1, ResumesKept DEF PosInv
<1> QED
  BY <1>7, <1>8 DEF PosInv

\* A position the ledger has reached says nothing of what comes after it.
LEMMA PublishPos == ASSUME TypeInv, PosInv, NEW e \in Rooms \cup {None}, Publish(e)
                    PROVE  PosInv'
<1>0. /\ Len(log) \in Nat
      /\ UNCHANGED <<stored, cursor, offset, visits, threads, skipped>>
      /\ \A i \in 1 .. Len(log) : log'[i] = log[i]
  BY DEF TypeInv, Publish, persisted
<1>1. \A q : \A p \in 0 .. Len(log) : Processed(q, p) => (\A i \in 1 .. p : log'[i] = q => i <= stored[q])
  BY <1>0 DEF Processed
<1>2. ResumesBehind'
  <2>1. ASSUME NEW v \in DOMAIN visits PROVE visits[v].last \in 0 .. Len(log)
    BY VisitFacts DEF VisitType
  <2> QED
    BY <1>0, <1>1, <2>1 DEF PosInv, ResumesBehind, Processed, TypeInv
<1>3. ThreadsFollow'
  <2>1. SUFFICES ASSUME NEW j \in DOMAIN threads, RoomOf(j) \notin skipped
                 PROVE  Follows(threads[j], RoomOf(j))'
    BY <1>0 DEF ThreadsFollow, RoomOf, VisitOf
  <2>2. threads[j] \in ThreadType /\ Follows(threads[j], RoomOf(j))
    BY <2>1, ThreadFacts DEF PosInv, ThreadsFollow
  <2>3. {threads[j].pos, threads[j].upto, threads[j].read} \subseteq 0 .. Len(log)
    BY <2>2 DEF ThreadType
  <2>4. RoomOf(j)' = RoomOf(j) /\ threads'[j] = threads[j]
    BY <1>0 DEF RoomOf, VisitOf
  <2> QED
    BY <1>0, <1>1, <2>2, <2>3, <2>4 DEF Follows, Processed
<1> QED
  BY <1>2, <1>3 DEF PosInv

LEMMA PosInductive == TypeInv /\ PosInv /\ [Next]_vars => PosInv'
<1> SUFFICES ASSUME TypeInv, PosInv, [Next]_vars PROVE PosInv'
  OBVIOUS
<1>1. CASE UNCHANGED <<log, persisted, visits, threads, skipped>>
  BY <1>1, PosKept DEF persisted
<1>2. CASE UNCHANGED vars \/ Prune
  BY <1>1, <1>2 DEF vars, ledger, Prune
<1> QED
  BY <1>2, RunPos, SubscribePos, OpenPagePos, LeavePagePos, ReconnectPos, FailBatchPos,
     DropSocketPos, ReloadPos, PublishPos DEF Next

LEMMA InitPos == Init => PosInv
BY DEF Init, PosInv, ResumesBehind, ThreadsFollow, Processed

\* Every position the code resumes from, persisted or in memory, is one up to
\* which the room was processed, whatever failed, dropped or ran in parallel;
\* except after a WebSocket stream went on past a batch that failed.
THEOREM NothingLostOnResume == Spec => []ResumesBehind
<1>1. PosInv => ResumesBehind
  BY DEF PosInv
<1> QED
  BY <1>1, InitTyped, InitPos, TypeInductive, PosInductive, PTL DEF Spec

-----------------------------------------------------------------------------
\* What a page shows

IsEvent(r, i) == i # 0 => log[i] = r

\* A page whose latest batch was handled to the end, with no batch that was
\* acknowledged and not yet displayed, shows every event up to its offset.
Caught(v) ==
  (/\ visits[v].woken /\ ~visits[v].closed /\ visits[v].room \notin skipped
   /\ \A k \in DOMAIN threads : threads[k].visit = v => threads[k].pc # "after")
    => \A i \in 1 .. visits[v].last : log[i] = visits[v].room => i <= visits[v].shown

ShowInv ==
  /\ \A r \in Rooms : IsEvent(r, stored[r])
  /\ \A v \in DOMAIN visits : IsEvent(visits[v].room, visits[v].shown) /\ Caught(v)
  /\ \A k \in DOMAIN threads :
       /\ IsEvent(RoomOf(k), threads[k].read)
       /\ threads[k].pc = "load" => ~VisitOf(k).woken

LEMMA CaughtKept ==
  ASSUME TypeInv, NEW v \in DOMAIN visits, Caught(v), log' = log, skipped \subseteq skipped',
         visits'[v].room = visits[v].room, visits'[v].last = visits[v].last,
         visits'[v].shown \in Nat, visits[v].shown <= visits'[v].shown,
         visits'[v].woken => visits[v].woken, visits[v].closed => visits'[v].closed,
         \A k \in DOMAIN threads :
           threads[k].visit = v /\ threads[k].pc = "after" =>
             k \in DOMAIN threads' /\ threads'[k].visit = v /\ threads'[k].pc = "after"
  PROVE  Caught(v)'
<1>1. visits[v].shown \in Nat /\ visits[v].last \in Nat
  BY VisitFacts DEF VisitType
<1> SUFFICES ASSUME visits'[v].woken, ~visits'[v].closed, visits'[v].room \notin skipped',
                    \A k \in DOMAIN threads' : threads'[k].visit = v => threads'[k].pc # "after",
                    NEW i \in 1 .. visits'[v].last, log'[i] = visits'[v].room
             PROVE  i <= visits'[v].shown
  BY DEF Caught
<1>2. i <= visits[v].shown
  BY DEF Caught
<1> QED
  BY <1>1, <1>2

\* A step of thread k and of its page.
LEMMA ShowStep ==
  ASSUME TypeInv, SubInv, ShowInv, NEW k \in DOMAIN threads, NEW t, SetThread(k, t),
         NEW v, v = threads[k].visit, NEW w \in VisitType,
         visits' = [visits EXCEPT ![v] = w] \/ (visits' = visits /\ w = visits[v]),
         t.visit = v, w.room = visits[v].room, visits[v].closed => w.closed,
         log' = log, skipped \subseteq skipped', \A q \in Rooms : IsEvent(q, stored'[q]),
         IsEvent(w.room, t.read), IsEvent(w.room, w.shown),
         t.pc = "load" => threads[k].pc = "load" /\ ~w.woken,
         \/ ~w.woken
         \/ t.pc = "after"
         \/ /\ w.last = visits[v].last /\ visits[v].shown <= w.shown
            /\ w.woken => visits[v].woken
            /\ threads[k].pc # "after"
         \/ \A i \in 1 .. w.last : log[i] = w.room => i <= w.shown \/ w.closed \/ w.room \in skipped'
  PROVE  ShowInv'
<1>1. /\ DOMAIN threads' = DOMAIN threads /\ threads'[k] = t
      /\ \A j \in DOMAIN threads : j # k => threads'[j] = threads[j]
      /\ v \in DOMAIN visits /\ DOMAIN visits' = DOMAIN visits /\ visits'[v] = w
      /\ \A u \in DOMAIN visits : u # v => visits'[u] = visits[u]
      /\ \A j \in DOMAIN threads : threads[j].visit \in DOMAIN visits
  BY ThreadFacts DEF SetThread
<1>2. \A j \in DOMAIN threads : threads'[j].visit = threads[j].visit
  BY <1>1
<1>3. \A u \in DOMAIN visits : visits'[u].room = visits[u].room
  BY <1>1
<1>4. \A r \in Rooms : IsEvent(r, stored[r])'
  BY DEF IsEvent
<1>5. ASSUME NEW u \in DOMAIN visits
      PROVE  IsEvent(visits[u].room, visits[u].shown)' /\ Caught(u)'
  <2>1. CASE u # v
    <3>1. visits'[u] = visits[u] /\ visits[u] \in VisitType /\ visits[u].shown \in Nat
      BY <1>1, <2>1, VisitFacts DEF VisitType
    <3>2. \A j \in DOMAIN threads : threads[j].visit = u /\ threads[j].pc = "after" =>
             j \in DOMAIN threads' /\ threads'[j].visit = u /\ threads'[j].pc = "after"
      BY <1>1, <2>1
    <3>3. Caught(u) /\ IsEvent(visits[u].room, visits[u].shown)
      BY DEF ShowInv
    <3>4. Caught(u)'
      BY <3>1, <3>2, <3>3, CaughtKept
    <3> QED
      BY <3>1, <3>3, <3>4 DEF IsEvent
  <2>2. CASE u = v
    <3>1. w.shown \in Nat /\ w.last \in Nat
      BY VisitFacts DEF VisitType
    <3>2. IsEvent(visits[v].room, visits[v].shown)'
      BY <1>1 DEF IsEvent
    <3>3. Caught(v)'
      <4>1. CASE ~w.woken
        BY <1>1, <4>1 DEF Caught
      <4>2. CASE t.pc = "after"
        BY <1>1, <4>2 DEF Caught
      <4>3. CASE /\ w.last = visits[v].last /\ visits[v].shown <= w.shown
                 /\ w.woken => visits[v].woken
                 /\ threads[k].pc # "after"
        <5>1. \A j \in DOMAIN threads : threads[j].visit = v /\ threads[j].pc = "after" =>
                j \in DOMAIN threads' /\ threads'[j].visit = v /\ threads'[j].pc = "after"
          BY <1>1, <4>3
        <5>2. Caught(v)
          BY <1>1 DEF ShowInv
        <5> QED
          BY <1>1, <3>1, <4>3, <5>1, <5>2, CaughtKept
      <4>4. CASE \A i \in 1 .. w.last :
                   log[i] = w.room => i <= w.shown \/ w.closed \/ w.room \in skipped'
        BY <1>1, <4>4 DEF Caught
      <4> QED
        BY <4>1, <4>2, <4>3, <4>4
    <3> QED
      BY <2>2, <3>2, <3>3
  <2> QED
    BY <2>1, <2>2
<1>6. ASSUME NEW j \in DOMAIN threads
      PROVE  IsEvent(RoomOf(j), threads[j].read)'
  <2>1. RoomOf(j)' = RoomOf(j)
    BY <1>1, <1>2, <1>3 DEF RoomOf, VisitOf
  <2>2. IsEvent(RoomOf(j), threads'[j].read)
    BY <1>1 DEF ShowInv, RoomOf, VisitOf
  <2> QED
    BY <2>1, <2>2 DEF IsEvent
<1>7. ASSUME NEW j \in DOMAIN threads, threads'[j].pc = "load"
      PROVE  ~VisitOf(j)'.woken
  <2>1. VisitOf(j)' = visits'[threads[j].visit]
    BY <1>2 DEF VisitOf
  <2>2. CASE j = k
    BY <1>1, <1>7, <2>1, <2>2
  <2>3. CASE j # k
    <3>1. threads[j].pc = "load" /\ ~visits[threads[j].visit].woken
      BY <1>1, <1>7, <2>3 DEF ShowInv, VisitOf
    <3>2. threads[j].visit # v
      BY <2>3, <3>1 DEF SubInv, StartsAlone
    <3> QED
      BY <1>1, <2>1, <3>1, <3>2
  <2> QED
    BY <2>2, <2>3
<1> QED
  BY <1>1, <1>4, <1>5, <1>6, <1>7 DEF ShowInv

\* Steps that add threads and pages, or end them.
LEMMA ShowKept ==
  ASSUME TypeInv, ShowInv, UNCHANGED <<log, stored, skipped>>,
         \A v \in DOMAIN visits :
           /\ v \in DOMAIN visits' /\ visits'[v].room = visits[v].room
           /\ visits'[v].last = visits[v].last /\ visits'[v].shown = visits[v].shown
           /\ visits'[v].woken <=> visits[v].woken
           /\ visits[v].closed => visits'[v].closed,
         \A v \in DOMAIN visits' \ DOMAIN visits :
           ~visits'[v].woken /\ IsEvent(visits'[v].room, visits'[v].shown),
         \A j \in DOMAIN threads :
           /\ j \in DOMAIN threads' /\ threads'[j].visit = threads[j].visit
           /\ threads'[j].read \in {0, threads[j].read}
           /\ threads'[j].pc = "load" => threads[j].pc = "load"
           /\ threads[j].pc = "after" =>
                threads'[j].pc = "after" \/ visits'[threads[j].visit].closed,
         \A j \in DOMAIN threads' \ DOMAIN threads :
           threads'[j].read = 0 /\ (threads'[j].pc = "load" => ~visits'[threads'[j].visit].woken)
  PROVE  ShowInv'
<1>0. \A j \in DOMAIN threads : threads[j].visit \in DOMAIN visits
  BY ThreadFacts
<1>1. \A r \in Rooms : IsEvent(r, stored[r])'
  BY DEF ShowInv, IsEvent
<1>2. \A v \in DOMAIN visits' : IsEvent(visits[v].room, visits[v].shown)'
  BY DEF ShowInv, IsEvent
<1>3. ASSUME NEW v \in DOMAIN visits' PROVE Caught(v)'
  <2>1. CASE v \notin DOMAIN visits \/ visits'[v].closed
    BY <2>1 DEF Caught
  <2>2. CASE v \in DOMAIN visits /\ ~visits'[v].closed
    <3>1. visits[v].shown \in Nat /\ visits[v].shown <= visits'[v].shown /\ Caught(v)
      BY <2>2, VisitFacts DEF VisitType, ShowInv
    <3> QED
      BY <2>2, <3>1, CaughtKept
  <2> QED
    BY <2>1, <2>2
<1>4. ASSUME NEW j \in DOMAIN threads'
      PROVE  /\ IsEvent(RoomOf(j), threads[j].read)'
             /\ threads'[j].pc = "load" => ~VisitOf(j)'.woken
  <2>1. CASE j \notin DOMAIN threads
    BY <2>1 DEF IsEvent, VisitOf
  <2>2. CASE j \in DOMAIN threads
    <3>1. RoomOf(j)' = RoomOf(j) /\ (VisitOf(j)'.woken <=> VisitOf(j).woken)
      BY <1>0, <2>2 DEF RoomOf, VisitOf
    <3> QED
      BY <2>2, <3>1 DEF ShowInv, IsEvent
  <2> QED
    BY <2>1, <2>2
<1> QED
  BY <1>1, <1>2, <1>3, <1>4 DEF ShowInv

\* A step that leaves the page as it is.
LEMMA ShowThreadStep ==
  ASSUME TypeInv, SubInv, ShowInv, NEW k \in DOMAIN threads, NEW t, SetThread(k, t),
         t.visit = threads[k].visit, log' = log, visits' = visits, skipped' = skipped,
         \A q \in Rooms : IsEvent(q, stored'[q]), IsEvent(RoomOf(k), t.read),
         t.pc # "load", threads[k].pc # "after" \/ t.pc = "after"
  PROVE  ShowInv'
<1> DEFINE v == threads[k].visit
<1>1. PICK w : w = visits[v]
  OBVIOUS
<1>2. w \in VisitType /\ v \in DOMAIN visits /\ w.shown \in Nat /\ w.room = RoomOf(k)
  <2>1. v \in DOMAIN visits /\ w \in VisitType /\ w.room = RoomOf(k)
    BY <1>1, ThreadFacts DEF VisitOf, RoomOf
  <2>2. w.shown \in Nat
    BY <2>1 DEF VisitType, TypeInv
  <2> QED
    BY <2>1, <2>2
<1>3. /\ w.room = visits[v].room
      /\ visits[v].closed => w.closed
      /\ w.last = visits[v].last /\ visits[v].shown <= w.shown
      /\ w.woken => visits[v].woken
  BY <1>1, <1>2
<1>4. IsEvent(w.room, w.shown) /\ IsEvent(w.room, t.read) /\ skipped \subseteq skipped'
  BY <1>1, <1>2 DEF ShowInv
<1>5. \/ t.pc = "after"
      \/ /\ w.last = visits[v].last /\ visits[v].shown <= w.shown
         /\ w.woken => visits[v].woken
         /\ threads[k].pc # "after"
  BY <1>3
<1>6. (t.pc = "load" => threads[k].pc = "load" /\ ~w.woken) /\ log' = log
  OBVIOUS
<1> QED
  BY <1>1, <1>2, <1>3, <1>4, <1>5, <1>6, ShowStep

LEMMA RunShow ==
  ASSUME TypeInv, SubInv, PosInv, ShowInv, NEW k \in DOMAIN threads, Run(k), ~Subscribe(k)
  PROVE  ShowInv'
<1> DEFINE x == threads[k]
           v == x.visit
           p == visits[v]
           r == RoomOf(k)
<1>0. /\ Len(log) \in Nat /\ 0 \in 0 .. Len(log) /\ x \in ThreadType
      /\ v \in DOMAIN visits /\ p \in VisitType /\ r \in Rooms /\ r = p.room
  BY ThreadFacts DEF VisitOf, RoomOf
<1>1. /\ IsEvent(r, x.read) /\ IsEvent(r, p.shown) /\ IsEvent(r, 0)
      /\ x.pc = "load" => ~p.woken
      /\ \A q \in Rooms : IsEvent(q, stored[q])
      /\ visits' = visits => visits' = [visits EXCEPT ![v] = p]
  BY <1>0 DEF ShowInv, IsEvent, VisitOf, TypeInv
<1>2. {p.shown, p.last, x.read, stored[r]} \subseteq 0 .. Len(log)
  <2>1. p.shown \in 0 .. Len(log) /\ p.last \in 0 .. Len(log)
    BY <1>0 DEF VisitType
  <2>2. x.read \in 0 .. Len(log)
    BY <1>0 DEF ThreadType
  <2>3. stored[r] \in 0 .. Len(log)
    BY <1>0 DEF TypeInv
  <2> QED
    BY <2>1, <2>2, <2>3
\* Steps that leave the page alone.
<1>3. ASSUME NEW t, SetThread(k, t), t.visit = v, t.read \in {0, x.read}, t.pc # "load",
             x.pc # "after" \/ t.pc = "after", UNCHANGED <<log, stored, visits, skipped>>
      PROVE  ShowInv'
  <2>1. IsEvent(r, t.read) /\ \A q \in Rooms : IsEvent(q, stored'[q])
    BY <1>1, <1>3
  <2> QED
    BY <1>3, <2>1, ShowThreadStep
\* Steps that change what the page shows, before the batch is acknowledged.
<1>4. ASSUME NEW t, SetThread(k, t), t.visit = v, t.read \in {0, x.read}, t.pc # "load",
             x.pc # "after" \/ t.pc = "after", NEW w \in VisitType, visits' = [visits EXCEPT ![v] = w],
             w.room = r, w.closed <=> p.closed, w.woken <=> p.woken, IsEvent(r, w.shown),
             t.pc = "after" \/ (w.last = p.last /\ p.shown <= w.shown),
             UNCHANGED <<log, stored, skipped>>
      PROVE  ShowInv'
  <2>1. IsEvent(w.room, t.read) /\ IsEvent(w.room, w.shown)
        /\ (\A q \in Rooms : IsEvent(q, stored'[q])) /\ log' = log /\ skipped \subseteq skipped'
    BY <1>1, <1>4
  <2>2. \/ t.pc = "after"
        \/ /\ w.last = visits[v].last /\ visits[v].shown <= w.shown
           /\ w.woken => visits[v].woken
           /\ threads[k].pc # "after"
    BY <1>4
  <2>3. w.room = visits[v].room /\ (visits[v].closed => w.closed)
    BY <1>0, <1>4
  <2> QED
    BY <1>4, <2>1, <2>2, <2>3, ShowStep
<1>10. CASE LoadOffset(k)
  <2> DEFINE t == [x EXCEPT !.pc = IF offset[r] = None THEN "snapshot" ELSE "subscribe"]
             w == [p EXCEPT !.last = offset[r]]
  <2>1. /\ t.visit = v /\ SetThread(k, t) /\ t.read = x.read
        /\ t.pc \in {"snapshot", "subscribe"} /\ x.pc = "load"
    BY <1>0, <1>10 DEF LoadOffset, At, ThreadType
  <2>2. UNCHANGED <<log, stored, skipped>>
    BY <1>10 DEF LoadOffset, ledger, persisted
  <2> HIDE DEF t
  <2>3. CASE offset[r] = None
    BY <1>3, <1>10, <2>1, <2>2, <2>3 DEF LoadOffset
  <2>4. CASE offset[r] # None
    <3>1. w \in VisitType
      BY <1>0, <2>4 DEF VisitType, TypeInv
    <3>2. /\ visits' = [visits EXCEPT ![v] = w] /\ w.room = r /\ w.shown = p.shown
          /\ w.closed <=> p.closed
          /\ w.woken <=> p.woken
      BY <1>0, <1>10, <2>4 DEF LoadOffset, VisitType
    <3>3. IsEvent(w.room, t.read) /\ IsEvent(w.room, w.shown) /\ ~w.woken
      BY <1>1, <2>1, <3>2
    <3> HIDE DEF w
    <3> QED
      BY <1>0, <1>1, <2>1, <2>2, <3>1, <3>2, <3>3, ShowStep
  <2> QED
    BY <2>3, <2>4
<1>11. CASE TakeSnapshot(k) \/ TakeFrame(k) \/ (ReadUpdates(k) /\ x.link # "closed")
  <2>1. PICK after, upto : Begin(k, after, upto)
    BY <1>11 DEF TakeSnapshot, TakeFrame, ReadUpdates
  <2> DEFINE t == [x EXCEPT !.pos = after, !.upto = upto,
                     !.pc = IF Concerns(k, after, upto) THEN "sync" ELSE "offset"]
  <2>2. SetThread(k, t) /\ t.visit = v /\ t.read = x.read /\ t.pc \in {"sync", "offset"}
    BY <1>0, <2>1 DEF Begin, ThreadType
  <2>3. UNCHANGED <<log, stored, visits, skipped>> /\ x.pc # "after"
    BY <1>11 DEF TakeSnapshot, TakeFrame, ReadUpdates, At, ledger, persisted
  <2> HIDE DEF t
  <2> QED
    BY <1>3, <2>2, <2>3
<1>12. CASE Sync(k)
  <2> DEFINE t == [x EXCEPT !.read = LastEvent(r),
                     !.pc = IF LastEvent(r) > cursor[r] THEN "show" ELSE "offset"]
  <2>1. LastEvent(r) \in 0 .. Len(log) /\ IsEvent(r, LastEvent(r))
    BY <1>0, LastEventIsLast DEF IsEvent
  <2>2. /\ t.visit = v /\ SetThread(k, t) /\ t.read = LastEvent(r)
        /\ t.pc \in {"show", "offset"} /\ x.pc = "sync"
    BY <1>0, <1>12 DEF Sync, At, ThreadType
  <2>3. /\ UNCHANGED <<log, visits, skipped>>
        /\ \A q \in Rooms : IsEvent(q, stored'[q])
    BY <1>0, <1>1, <1>12, <2>1 DEF Sync, ledger, TypeInv
  <2>4. IsEvent(r, t.read)
    BY <2>1, <2>2
  <2> HIDE DEF t
  <2> QED
    BY <2>2, <2>3, <2>4, ShowThreadStep
<1>13. CASE Show(k)
  <2> DEFINE t == [x EXCEPT !.pc = "cursor"]
             new == IF p.closed THEN p.shown ELSE Max({p.shown, x.read})
             w == [p EXCEPT !.shown = new]
  <2>1. /\ t.visit = v /\ SetThread(k, t) /\ t.read = x.read /\ t.pc = "cursor" /\ x.pc = "show"
    BY <1>0, <1>13 DEF Show, At, ThreadType
  <2>2. Max({p.shown, x.read}) \in {p.shown, x.read} /\ p.shown <= Max({p.shown, x.read})
    BY <1>0, <1>2, MaxIsGreatest
  <2>3. new \in 0 .. Len(log) /\ p.shown <= new /\ IsEvent(r, new)
    BY <1>0, <1>1, <1>2, <2>2
  <2>4. /\ UNCHANGED <<log, stored, skipped>>
        /\ visits' = [visits EXCEPT ![v] = w]
    BY <1>13 DEF Show, Display, ledger, persisted
  <2> HIDE DEF new
  <2>5. w \in VisitType /\ w.room = r /\ w.shown = new /\ w.last = p.last
    BY <1>0, <2>3 DEF VisitType
  <2>6. /\ w.closed <=> p.closed
        /\ w.woken <=> p.woken
    BY <1>0 DEF VisitType
  <2> HIDE DEF t, w
  <2> QED
    BY <1>4, <2>1, <2>3, <2>4, <2>5, <2>6
<1>14. CASE SaveCursor(k)
  <2> DEFINE t == [x EXCEPT !.pc = "offset", !.read = 0]
  <2>1. /\ t.visit = v /\ SetThread(k, t) /\ t.read = 0 /\ t.pc = "offset" /\ x.pc = "cursor"
        /\ UNCHANGED <<log, stored, visits, skipped>>
    BY <1>0, <1>14 DEF SaveCursor, At, ThreadType, ledger
  <2> HIDE DEF t
  <2> QED
    BY <1>3, <2>1
<1>15. CASE SaveOffset(k)
  <2> DEFINE t == [x EXCEPT !.pc = "after"]
             w == [p EXCEPT !.last = x.upto]
  <2>1. /\ t.visit = v /\ SetThread(k, t) /\ t.read = x.read /\ t.pc = "after"
        /\ UNCHANGED <<log, stored, skipped>>
        /\ visits' = [visits EXCEPT ![v] = w]
    BY <1>0, <1>15 DEF SaveOffset, ThreadType, ledger
  <2>2. /\ w \in VisitType /\ w.room = r /\ w.shown = p.shown
        /\ w.closed <=> p.closed
        /\ w.woken <=> p.woken
    BY <1>0 DEF VisitType, ThreadType
  <2> HIDE DEF t, w
  <2> QED
    BY <1>1, <1>4, <2>1, <2>2
<1>16. CASE AfterBatch(k)
  <2> DEFINE t == [x EXCEPT !.pos = x.upto, !.pc = IF x.kind = "start" THEN "subscribe" ELSE "idle"]
             new == IF p.closed THEN p.shown ELSE Max({p.shown, stored[r]})
             w == [p EXCEPT !.woken = TRUE, !.shown = new]
  <2>1. /\ t.visit = v /\ t.read = x.read /\ t.pc \in {"subscribe", "idle"}
    BY <1>0, <1>16 DEF ThreadType
  <2>2. Max({p.shown, stored[r]}) \in {p.shown, stored[r]} /\ stored[r] <= Max({p.shown, stored[r]})
    BY <1>0, <1>2, MaxIsGreatest
  <2>3. new \in 0 .. Len(log) /\ IsEvent(r, new) /\ (p.closed \/ stored[r] <= new)
    BY <1>0, <1>1, <1>2, <2>2
  <2>4. /\ SetThread(k, t) /\ UNCHANGED <<log, stored, skipped>>
        /\ visits' = [visits EXCEPT ![v] = w]
    BY <1>16 DEF AfterBatch, ledger, persisted
  <2> HIDE DEF new
  <2>5. /\ w \in VisitType /\ w.room = r /\ w.shown = new /\ w.last = p.last
        /\ w.closed <=> p.closed
    BY <1>0, <2>3 DEF VisitType
  <2>6. \A i \in 1 .. w.last : log[i] = w.room => i <= w.shown \/ w.closed \/ w.room \in skipped'
    <3> SUFFICES ASSUME NEW i \in 1 .. p.last, log[i] = r, ~p.closed, r \notin skipped
                 PROVE  i <= new
      BY <2>4, <2>5
    <3>1. i <= stored[r]
      BY <1>0 DEF PosInv, ResumesBehind, Processed
    <3> QED
      BY <1>2, <2>3, <3>1
  <2>7. IsEvent(w.room, t.read) /\ IsEvent(w.room, w.shown)
    BY <1>1, <2>1, <2>3, <2>5
  <2> HIDE DEF t, w
  <2>8. /\ log' = log /\ skipped \subseteq skipped' /\ t.pc # "load"
        /\ \A q \in Rooms : IsEvent(q, stored'[q])
        /\ w.room = visits[v].room
        /\ visits[v].closed => w.closed
    BY <1>0, <1>1, <2>1, <2>4, <2>5
  <2> QED
    BY <2>1, <2>4, <2>5, <2>6, <2>7, <2>8, ShowStep
<1>17. CASE Poll(k)
  <2> DEFINE t == [x EXCEPT !.got = Len(log), !.pc = "read"]
  <2>1. /\ t.visit = v /\ SetThread(k, t) /\ t.read = x.read /\ t.pc = "read" /\ x.pc = "idle"
        /\ UNCHANGED <<log, stored, visits, skipped>>
    BY <1>0, <1>17 DEF Poll, At, ThreadType, ledger, persisted
  <2> HIDE DEF t
  <2> QED
    BY <1>3, <2>1
<1>18. CASE ReceiveFrame(k)
  <2> DEFINE t == [x EXCEPT !.got = @ + 1]
  <2>1. /\ t.visit = v /\ SetThread(k, t) /\ t.read = x.read /\ t.pc = x.pc
        /\ UNCHANGED <<log, stored, visits, skipped>>
    BY <1>0, <1>18 DEF ReceiveFrame, ThreadType, ledger, persisted
  <2>2. x.pc # "load"
    BY <1>0, <1>18 DEF SubInv, StartsAlone, ReceiveFrame
  <2> HIDE DEF t
  <2> QED
    BY <1>3, <2>1, <2>2
<1>19. CASE ReadUpdates(k) /\ x.link = "closed"
  <2>1. /\ SetThread(k, Over(k)) /\ x.pc = "read" /\ UNCHANGED <<log, stored, visits, skipped>>
    BY <1>19 DEF ReadUpdates, At, ledger, persisted
  <2>2. Over(k).visit = v /\ Over(k).read = 0 /\ Over(k).pc = "over"
    BY OverTyped
  <2> QED
    BY <1>3, <2>1, <2>2
<1>20. CASE OpenSocket(k)
  <2> DEFINE t == [x EXCEPT !.link = IF p.closed THEN "closed" ELSE "open"]
             w == [p EXCEPT !.status = IF @ = "starting" THEN "live" ELSE @]
  <2>1. /\ t.visit = v /\ SetThread(k, t) /\ t.read = x.read /\ t.pc = x.pc
        /\ UNCHANGED <<log, stored, skipped>>
        /\ visits' = [visits EXCEPT ![v] = w]
    BY <1>0, <1>20 DEF OpenSocket, ThreadType, ledger, persisted
  <2>2. /\ w \in VisitType /\ w.room = r /\ w.shown = p.shown /\ w.last = p.last
        /\ w.closed <=> p.closed
        /\ w.woken <=> p.woken
    BY <1>0 DEF VisitType
  <2>3. x.pc # "load"
    BY <1>0, <1>20 DEF SubInv, StartsAlone, OpenSocket
  <2>4. p.shown <= p.shown
    BY <1>2
  <2> HIDE DEF t, w
  <2> QED
    BY <1>1, <1>4, <2>1, <2>2, <2>3, <2>4
<1> QED
  BY <1>10, <1>11, <1>12, <1>13, <1>14, <1>15, <1>16, <1>17, <1>18, <1>19, <1>20 DEF Run

LEMMA FailBatchShow ==
  ASSUME TypeInv, SubInv, ShowInv, NEW k \in DOMAIN threads, FailBatch(k)
  PROVE  ShowInv'
<1> DEFINE x == threads[k]
           v == x.visit
           p == visits[v]
           t == IF x.kind = "start" THEN Over(k)
                ELSE [x EXCEPT !.pc = "idle", !.read = 0,
                               !.pos = IF x.kind = "socket" THEN x.upto ELSE @]
           w == [p EXCEPT !.woken = FALSE, !.status = IF x.kind = "start" THEN "failed" ELSE @]
<1>0. x \in ThreadType /\ v \in DOMAIN visits /\ p \in VisitType
  BY ThreadFacts DEF VisitOf
<1>1. /\ SetThread(k, t) /\ visits' = [visits EXCEPT ![v] = w]
      /\ UNCHANGED <<log, stored>> /\ skipped \subseteq skipped'
  BY DEF FailBatch, ledger, persisted
<1>2. t.visit = v /\ t.read = 0 /\ t.pc \in {"over", "idle"}
  BY <1>0, OverTyped DEF ThreadType
<1>3. w \in VisitType
  BY <1>0 DEF VisitType
<1>4. /\ w.room = visits[v].room /\ w.shown = p.shown
      /\ w.closed <=> visits[v].closed
      /\ ~w.woken
  BY <1>0 DEF VisitType
<1>5. /\ IsEvent(w.room, w.shown) /\ IsEvent(w.room, t.read)
      /\ \A q \in Rooms : IsEvent(q, stored'[q])
  BY <1>0, <1>1, <1>2, <1>4 DEF ShowInv, IsEvent
<1> HIDE DEF t, w
<1> QED
  BY <1>1, <1>2, <1>3, <1>4, <1>5, ShowStep, ZenonT(60)

LEMMA DropSocketShow ==
  ASSUME TypeInv, SubInv, ShowInv, NEW k \in DOMAIN threads, DropSocket(k)
  PROVE  ShowInv'
<1> DEFINE x == threads[k]
           v == x.visit
           p == visits[v]
           t == [x EXCEPT !.link = "closed"]
           w == [p EXCEPT !.timer = ~visits[v].closed,
                          !.status = IF @ = "starting" THEN "failed" ELSE @]
<1>0. x \in ThreadType /\ v \in DOMAIN visits /\ p \in VisitType /\ RoomOf(k) = p.room
      /\ DOMAIN visits = 1 .. Len(visits)
  BY ThreadFacts DEF VisitOf, RoomOf, TypeInv
<1>1. SetThread(k, t) /\ visits' = [visits EXCEPT ![v] = w] /\ UNCHANGED <<log, stored, skipped>>
  BY DEF DropSocket, ledger, persisted
<1>2. t.visit = v /\ t.read = x.read /\ t.pc = x.pc
  BY <1>0 DEF ThreadType
<1>3. /\ w.room = p.room /\ w.shown = p.shown /\ w.last = p.last
      /\ w.closed <=> p.closed
      /\ w.woken <=> p.woken
  BY <1>0 DEF VisitType
<1> HIDE DEF t, w
<1>4. /\ DOMAIN threads' = DOMAIN threads /\ threads'[k] = t
      /\ \A j \in DOMAIN threads : j # k => threads'[j] = threads[j]
      /\ DOMAIN visits' = DOMAIN visits /\ visits'[v] = w
      /\ \A u \in DOMAIN visits : u # v => visits'[u] = visits[u]
  BY <1>0, <1>1 DEF SetThread
<1> QED
  BY <1>1, <1>2, <1>3, <1>4, ShowKept

LEMMA SubscribeShow ==
  ASSUME TypeInv, SubInv, ShowInv, NEW k \in DOMAIN threads, Subscribe(k)
  PROVE  ShowInv'
<1> DEFINE v == threads[k].visit
           m == Len(threads) + 1
<1>0. threads[k] \in ThreadType /\ v \in DOMAIN visits /\ visits[v] \in VisitType
  BY ThreadFacts DEF VisitOf
<1>1. /\ m \notin DOMAIN threads /\ DOMAIN threads' = DOMAIN threads \cup {m}
      /\ \A j \in DOMAIN threads : j # k => threads'[j] = threads[j]
      /\ threads'[k] = Over(k)
      /\ DOMAIN visits' = DOMAIN visits
      /\ \A u \in DOMAIN visits : u # v => visits'[u] = visits[u]
  BY SubscribeDoes
<1>2. threads'[m] = Thread(v, visits[v].kind, IF visits[v].kind = "polling" THEN "open" ELSE "opening",
                           visits[v].last, "idle")
  BY SubscribeDoes
<1>3. threads'[m].read = 0 /\ threads'[m].pc = "idle"
  BY <1>2 DEF Thread
<1>4. threads[k].visit = v /\ threads'[k].visit = v /\ threads'[k].read = 0 /\ threads'[k].pc = "over"
  BY <1>1, OverTyped
<1>7. threads[k].pc # "after" /\ v \in DOMAIN visits
  BY <1>0 DEF Subscribe, At
<1>5. /\ visits'[v].room = visits[v].room /\ visits'[v].last = visits[v].last
      /\ visits'[v].shown = visits[v].shown
      /\ visits'[v].closed <=> visits[v].closed
      /\ visits'[v].woken <=> visits[v].woken
  <2>1. visits'[v] = [visits[v] EXCEPT !.status = IF visits[v].kind = "polling" THEN "live" ELSE @]
    BY SubscribeDoes
  <2> QED
    BY <1>0, <2>1 DEF VisitType
<1>6. UNCHANGED <<log, stored, skipped>>
  BY DEF Subscribe, ledger, persisted
<1> HIDE DEF v, m
<1> QED
  BY <1>1, <1>3, <1>4, <1>5, <1>6, <1>7, ShowKept

LEMMA OpenPageShow ==
  ASSUME TypeInv, ShowInv, NEW r \in Rooms, NEW kind \in Kinds, OpenPage(r, kind)
  PROVE  ShowInv'
<1> DEFINE n == Len(visits) + 1
           m == Len(threads) + 1
<1>1. /\ DOMAIN visits' = DOMAIN visits \cup {n} /\ n \notin DOMAIN visits
      /\ \A v \in DOMAIN visits : visits'[v] = visits[v]
      /\ visits'[n] = Visit(r, kind)
      /\ DOMAIN threads' = DOMAIN threads \cup {m} /\ m \notin DOMAIN threads
      /\ \A k \in DOMAIN threads : threads'[k] = threads[k]
      /\ threads'[m] = Thread(n, "start", "none", 0, "load")
  BY OpenPageTyped
<1>2. /\ visits'[n].room = r /\ visits'[n].shown = stored[r] /\ ~visits'[n].woken
      /\ threads'[m].visit = n /\ threads'[m].read = 0
  BY <1>1 DEF Visit, Thread
<1>3. UNCHANGED <<log, stored, skipped>> /\ IsEvent(r, stored[r])
  BY DEF OpenPage, ledger, persisted, ShowInv
<1> HIDE DEF n, m
<1> QED
  BY <1>1, <1>2, <1>3, ThreadFacts, ShowKept

LEMMA LeavePageShow ==
  ASSUME TypeInv, SubInv, ShowInv, NEW v \in DOMAIN visits, LeavePage(v)
  PROVE  ShowInv'
<1> DEFINE live == visits[v].status = "live"
<1>1. /\ DOMAIN visits' = DOMAIN visits /\ DOMAIN threads' = DOMAIN threads
      /\ \A u \in DOMAIN visits : u # v => visits'[u] = visits[u]
  BY LeavePageTyped DEF LeavePage
<1>2. /\ visits'[v].room = visits[v].room /\ visits'[v].last = visits[v].last
      /\ visits'[v].shown = visits[v].shown
      /\ visits'[v].woken <=> visits[v].woken
  BY VisitFacts DEF LeavePage, VisitType
<1>3. ASSUME NEW k \in DOMAIN threads
      PROVE  /\ threads'[k].visit = threads[k].visit
             /\ threads'[k].pc = threads[k].pc /\ threads'[k].read = threads[k].read
  <2>1. threads[k] \in ThreadType
    BY ThreadFacts
  <2>2. threads'[k] = IF live /\ threads[k].visit = v /\ threads[k].link = "open"
                      THEN [threads[k] EXCEPT !.link = "closed"] ELSE threads[k]
    BY LeavePageTyped
  <2> QED
    BY <2>1, <2>2 DEF ThreadType
<1>4. UNCHANGED <<log, stored, skipped>>
  BY DEF LeavePage, ledger, persisted
<1>5. ~visits[v].closed
  BY DEF LeavePage, SubInv, TimerOfIdle
<1> QED
  BY <1>1, <1>2, <1>3, <1>4, <1>5, ShowKept

LEMMA ReconnectShow ==
  ASSUME TypeInv, ShowInv, NEW v \in DOMAIN visits, Reconnect(v)
  PROVE  ShowInv'
<1> DEFINE m == Len(threads) + 1
<1>1. /\ DOMAIN visits' = DOMAIN visits
      /\ visits'[v] = [visits[v] EXCEPT !.timer = FALSE]
      /\ \A u \in DOMAIN visits : u # v => visits'[u] = visits[u]
      /\ DOMAIN threads' = DOMAIN threads \cup {m} /\ m \notin DOMAIN threads
      /\ \A k \in DOMAIN threads : threads'[k] = threads[k]
      /\ threads'[m] = Thread(v, "socket", "opening", visits[v].last, "idle")
  BY ReconnectTyped
<1>2. /\ visits'[v].room = visits[v].room /\ visits'[v].last = visits[v].last
      /\ visits'[v].shown = visits[v].shown
      /\ visits'[v].closed <=> visits[v].closed
      /\ visits'[v].woken <=> visits[v].woken
  BY <1>1, VisitFacts DEF VisitType
<1>3. threads'[m].read = 0 /\ threads'[m].pc = "idle"
  BY <1>1 DEF Thread
<1>4. UNCHANGED <<log, stored, skipped>>
  BY DEF Reconnect, ledger, persisted
<1> HIDE DEF m
<1> QED
  BY <1>1, <1>2, <1>3, <1>4, ThreadFacts, ShowKept

LEMMA ReloadShow == ASSUME TypeInv, ShowInv, Reload PROVE ShowInv'
<1>1. /\ DOMAIN visits' = DOMAIN visits /\ DOMAIN threads' = DOMAIN threads
      /\ \A v \in DOMAIN visits :
           /\ visits'[v].room = visits[v].room /\ visits'[v].last = visits[v].last
           /\ visits'[v].shown = visits[v].shown /\ visits'[v].closed
           /\ visits'[v].woken <=> visits[v].woken
  <2>1. ASSUME NEW v \in DOMAIN visits
        PROVE  /\ visits'[v].room = visits[v].room /\ visits'[v].last = visits[v].last
               /\ visits'[v].shown = visits[v].shown /\ visits'[v].closed
               /\ visits'[v].woken <=> visits[v].woken
    <3>1. visits[v] \in VisitType
      BY VisitFacts
    <3>2. visits'[v] = [visits[v] EXCEPT !.status = "left", !.closed = TRUE, !.timer = FALSE]
      BY ReloadTyped
    <3> QED
      BY <3>1, <3>2 DEF VisitType
  <2> QED
    BY <2>1, ReloadTyped
<1>2. ASSUME NEW k \in DOMAIN threads
      PROVE  threads'[k].visit = threads[k].visit /\ threads'[k].pc = "over" /\ threads'[k].read = 0
  <2>1. threads'[k] = [Over(k) EXCEPT !.link = "closed"]
    BY ReloadTyped
  <2> QED
    BY <2>1, OverTyped DEF ThreadType
<1>3. UNCHANGED <<log, stored, skipped>> /\ \A k \in DOMAIN threads : threads[k].visit \in DOMAIN visits
  BY ThreadFacts DEF Reload, ledger, persisted
<1> QED
  BY <1>1, <1>2, <1>3, ShowKept

LEMMA PublishShow == ASSUME TypeInv, ShowInv, NEW e \in Rooms \cup {None}, Publish(e)
                     PROVE  ShowInv'
<1>0. /\ Len(log) \in Nat
      /\ UNCHANGED <<stored, visits, threads, skipped>>
      /\ \A i \in 1 .. Len(log) : log'[i] = log[i]
  BY DEF TypeInv, Publish, persisted
<1>1. \A q : \A i \in 0 .. Len(log) : IsEvent(q, i) => (i # 0 => log'[i] = q)
  BY <1>0 DEF IsEvent
<1>2. \A r \in Rooms : IsEvent(r, stored[r])'
  BY <1>0, <1>1 DEF ShowInv, IsEvent, TypeInv
<1>3. ASSUME NEW v \in DOMAIN visits
      PROVE  IsEvent(visits[v].room, visits[v].shown)' /\ Caught(v)'
  <2>1. visits[v].shown \in 0 .. Len(log) /\ visits[v].last \in 0 .. Len(log)
    BY VisitFacts DEF VisitType
  <2>2. IsEvent(visits[v].room, visits[v].shown) /\ Caught(v)
    BY DEF ShowInv
  <2>3. IsEvent(visits[v].room, visits[v].shown)'
    BY <1>0, <1>1, <2>1, <2>2 DEF IsEvent
  <2>4. \A i \in 1 .. visits[v].last : log'[i] = log[i]
    BY <1>0, <2>1
  <2>5. Caught(v)'
    BY <1>0, <2>2, <2>4 DEF Caught
  <2> QED
    BY <2>3, <2>5
<1>4. ASSUME NEW k \in DOMAIN threads
      PROVE  /\ IsEvent(RoomOf(k), threads[k].read)'
             /\ threads[k].pc = "load" => ~VisitOf(k)'.woken
  <2>1. threads[k].read \in 0 .. Len(log)
    BY ThreadFacts DEF ThreadType
  <2> QED
    BY <1>0, <1>1, <2>1 DEF ShowInv, IsEvent, RoomOf, VisitOf
<1> QED
  BY <1>0, <1>2, <1>3, <1>4 DEF ShowInv

LEMMA ShowInductive == TypeInv /\ SubInv /\ PosInv /\ ShowInv /\ [Next]_vars => ShowInv'
<1> SUFFICES ASSUME TypeInv, SubInv, PosInv, ShowInv, [Next]_vars PROVE ShowInv'
  OBVIOUS
<1>1. CASE UNCHANGED <<log, stored, visits, threads, skipped>>
  BY <1>1 DEF ShowInv, IsEvent, Caught, RoomOf, VisitOf
<1>2. CASE UNCHANGED vars \/ Prune
  BY <1>1, <1>2 DEF vars, ledger, persisted, Prune
<1> QED
  BY <1>2, RunShow, SubscribeShow, OpenPageShow, LeavePageShow, ReconnectShow, FailBatchShow,
     DropSocketShow, ReloadShow, PublishShow DEF Next

LEMMA InitShow == Init => ShowInv
BY DEF Init, ShowInv, IsEvent

\* A page whose session has handled its latest batch to the end and has nothing
\* left to do shows everything the room holds, also what a thread of the page
\* before it stored meanwhile.
THEOREM PagesShowTheRoom == Spec => []PageIsComplete
<1>1. TypeInv /\ SubInv /\ PosInv /\ ShowInv => PageIsComplete
  <2> SUFFICES ASSUME TypeInv, SubInv, PosInv, ShowInv, NEW v \in DOMAIN visits,
                      visits[v].status = "live", visits[v].woken, Quiet(v),
                      visits[v].room \notin skipped
               PROVE  visits[v].shown = LastEvent(visits[v].room)
    BY DEF PageIsComplete
  <2> DEFINE r == visits[v].room
  <2>0. /\ Len(log) \in Nat /\ r \in Rooms /\ visits[v].shown \in 0 .. Len(log)
        /\ visits[v].last = Len(log)
    BY VisitFacts DEF VisitType, Quiet
  <2>1. /\ LastEvent(r) \in 0 .. Len(log)
        /\ LastEvent(r) # 0 => log[LastEvent(r)] = r
        /\ \A i \in 1 .. Len(log) : log[i] = r => i <= LastEvent(r)
    BY <2>0, LastEventIsLast
  <2>2. ~visits[v].closed
    BY DEF SubInv, TimerOfIdle
  <2>3. \A k \in DOMAIN threads : threads[k].visit = v => threads[k].pc # "after"
    BY DEF Quiet, RoomOf, VisitOf
  <2>4. \A i \in 1 .. Len(log) : log[i] = r => i <= visits[v].shown
    BY <2>0, <2>2, <2>3 DEF ShowInv, Caught
  <2>5. IsEvent(r, visits[v].shown)
    BY DEF ShowInv
  <2> HIDE DEF r
  <2>6. visits[v].shown <= LastEvent(r)
    BY <2>0, <2>1, <2>5 DEF IsEvent
  <2>7. LastEvent(r) <= visits[v].shown
    BY <2>0, <2>1, <2>4
  <2>8. visits[v].shown = LastEvent(r)
    BY <2>0, <2>1, <2>6, <2>7
  <2> QED
    BY <2>8 DEF r
<1> QED
  BY <1>1, InitTyped, InitSub, InitPos, InitShow, TypeInductive, SubInductive, PosInductive,
     ShowInductive, PTL DEF Spec
=============================================================================
