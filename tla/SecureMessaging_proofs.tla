------------------------ MODULE SecureMessaging_proofs ------------------------
(***************************************************************************)
(* Theorems about SecureMessaging, for every set of installations and of   *)
(* texts, and every number of crashes and of lost submissions, checked by  *)
(* TLAPS.                                                                  *)
(***************************************************************************)
EXTENDS SecureMessaging, FiniteSetTheorems, SequenceTheorems, WellFoundedInduction, TLAPS

-----------------------------------------------------------------------------
\* Types

HandshakeType ==
  [kind : {"handshake"}, from : {Creator}, to : SUBSET (Nodes \ {Creator}),
   epoch : Nat, gen : {0}, body : Nodes \ {Creator}]

StateType ==
  [kind : {"state"}, from : {Creator}, to : SUBSET Nodes,
   epoch : Nat, gen : Nat, body : SUBSET Nodes]

TextType ==
  [kind : {"text"}, from : Nodes, to : SUBSET Nodes,
   epoch : Nat, gen : Nat, body : Texts]

EventType == HandshakeType \cup StateType \cup TextType

TaskType ==
  [op : {"free", "init", "add", "send", "sync"},
   pc : {"free", "ready", "merge", "state", "mark", "publish", "save", "events", "store",
         "note"},
   id : Nodes \cup Texts \cup {None}]

SessionType ==
  {s \in [step : {"quiet", "syncing", "synced", "saved"},
           upto : 0 .. Len(log), end : 0 .. Len(log)] : s.end <= s.upto}

TypeInv ==
  /\ log \in Seq(EventType)
  /\ mls \in [Nodes -> Checkpoint]
  /\ history \in [Nodes -> SUBSET Texts]
  /\ done \in [Nodes -> SUBSET (1 .. Len(log))]
  /\ cursor \in [Nodes -> 0 .. Len(log)]
  /\ offset \in [Nodes -> 0 .. Len(log)]
  /\ task \in [Nodes -> TaskType]
  /\ session \in [Nodes -> SessionType]

-----------------------------------------------------------------------------
\* What the progress of an installation's operation says of its checkpoint.

\* Only the creator commits; who has not joined is in no epoch.
Roles(n, m) ==
  /\ n # Creator => m.pending = None /\ ~m.unpublished
  /\ m.pending # Creator
  /\ m.hydrated => m.joined
  /\ ~m.joined => m.epoch = 0 /\ m.roster = {}
  /\ n = Creator => m.joined /\ n \in m.roster

Progress(n, m, t, s) ==
  /\ t.op = "add" => n = Creator /\ t.id \in Nodes \ {Creator}
  /\ t.op = "send" => t.id \in Texts /\ m.joined
  /\ t.op = "sync" => s.step = "syncing"
  /\ t.pc = "merge" => m.pending # None
  /\ t.pc \in {"state", "publish"} => m.gen >= 1
  /\ t.pc \in {"state", "mark"} => n = Creator
  /\ t.pc \in {"publish", "save"} => t.op = "send"
  /\ t.pc \in {"events", "store", "note"} => t.op = "sync"

\* An event that was decrypted stays the one being processed until it is stored.
Opened(n) ==
  task[n].pc \in {"store", "note"} =>
    /\ mls[n].joined
    /\ Remaining(n) # {}
    /\ Event(n).kind # "handshake"
    /\ Event(n).epoch = mls[n].epoch

ControlInv ==
  \A n \in Nodes :
    Roles(n, mls[n]) /\ Progress(n, mls[n], task[n], session[n]) /\ Opened(n)

-----------------------------------------------------------------------------
\* Epochs

LastEpoch == Cardinality(Handshakes)

\* Between the publication of a handshake and its merge the creator is one
\* epoch behind the ledger, otherwise in the last one.
EpochInv ==
  /\ \A i \in Handshakes : log[i].epoch = Cardinality({j \in Handshakes : j <= i})
  /\ LastEpoch >= 1 => \E i \in Handshakes : log[i].epoch = LastEpoch
  /\ \A n \in Nodes : mls[n].epoch <= LastEpoch
  /\ mls[Creator].epoch \in {LastEpoch, LastEpoch - 1}
  /\ mls[Creator].pending = None => mls[Creator].epoch = LastEpoch
  /\ task[Creator].pc = "merge" => mls[Creator].epoch = LastEpoch - 1

\* MembersAt on any ledger L.
MembersOf(L, e, k) ==
  {Creator} \cup
  {L[i].body : i \in {j \in DOMAIN L : L[j].kind = "handshake" /\ j <= k /\ L[j].epoch <= e}}

\* RostersAgree and AddressedToMembers; a group state tells no other members
\* than those of its epoch; and the commit that the creator has not merged adds
\* the member it is pending for.
MemberInv ==
  /\ \A n \in Nodes : mls[n].roster \subseteq MembersOf(log, mls[n].epoch, Len(log))
  /\ mls[Creator].roster = MembersOf(log, mls[Creator].epoch, Len(log))
  /\ \A i \in Ciphertexts :
       LET members == MembersOf(log, log[i].epoch, i)
       IN  log[i].to \subseteq members /\ (log[i].kind = "state" => log[i].body \subseteq members)
  /\ \A i \in Handshakes :
       log[i].epoch = mls[Creator].epoch + 1 => log[i].body = mls[Creator].pending

\* The first generation of n's ratchet that no ciphertext on the ledger may have:
\* a key was drawn from the ratchet before its ciphertext is submitted.
Unused(n) ==
  IF task[n].pc \in {"state", "publish"} THEN mls[n].gen - 1 ELSE mls[n].gen

KeyInv ==
  /\ NoKeyReuse
  /\ \A i \in Ciphertexts :
       LET n == log[i].from
       IN  /\ mls[n].joined
           /\ \/ log[i].epoch < mls[n].epoch
              \/ log[i].epoch = mls[n].epoch /\ log[i].gen < Unused(n)

\* A sync that is over left nothing undone up to the end of its batch.
SyncInv ==
  /\ NothingMissed
  /\ \A n \in Nodes : session[n].step \in {"synced", "saved"} =>
       \A i \in 1 .. session[n].upto : Visible(n, i) => Handled(n, i)

-----------------------------------------------------------------------------
\* Numbers

LEMMA LeastNatural ==
  ASSUME NEW S, S \subseteq Nat, S # {}
  PROVE  \E x \in S : \A y \in S : x <= y
<1>1. PICK x \in S : \A y \in S : <<y, x>> \notin OpToRel(<, Nat)
  BY NatLessThanWellFounded, WFMin
<1>2. \A y \in S : ~ (y < x)
  BY <1>1 DEF OpToRel
<1> QED
  BY <1>2

LEMMA MinIsLeast ==
  ASSUME NEW S, S \subseteq Nat, S # {}
  PROVE  Min(S) \in S /\ \A y \in S : Min(S) <= y
<1>1. \E x \in S : \A y \in S : y >= x
  BY LeastNatural
<1> QED
  BY <1>1 DEF Min

LEMMA MaxIsGreatest ==
  ASSUME NEW n \in Nat, NEW S, S \subseteq 0 .. n, S # {}
  PROVE  Max(S) \in S /\ \A y \in S : y <= Max(S)
<1> DEFINE T == {n - x : x \in S}
<1>1. \A x \in S : x \in Nat /\ n - x \in Nat
  OBVIOUS
<1>2. T \subseteq Nat /\ T # {}
  BY <1>1, Zenon
<1>3. PICK t \in T : \A u \in T : t <= u
  BY <1>2, LeastNatural
<1>4. PICK x \in S : t = n - x
  BY <1>3
<1>5. \A y \in S : x >= y
  BY <1>3, <1>4
<1> QED
  BY <1>4, <1>5 DEF Max

-----------------------------------------------------------------------------
\* One installation, and the ledger

LEMMA NodeFacts ==
  ASSUME TypeInv, NEW n \in Nodes
  PROVE  /\ mls[n] \in Checkpoint /\ task[n] \in TaskType /\ session[n] \in SessionType
         /\ history[n] \subseteq Texts /\ done[n] \subseteq 1 .. Len(log)
         /\ cursor[n] \in 0 .. Len(log) /\ offset[n] \in 0 .. Len(log)
         /\ session[n].upto \in 0 .. Len(log) /\ session[n].end \in 0 .. session[n].upto
         /\ session[n].end \in 0 .. Len(log) /\ Len(log) \in Nat
<1>1. session[n] \in SessionType
  BY DEF TypeInv
<1>2. /\ session[n].upto \in 0 .. Len(log) /\ session[n].end \in 0 .. session[n].upto
      /\ session[n].end \in 0 .. Len(log)
  BY <1>1 DEF SessionType
<1> QED
  BY <1>1, <1>2 DEF TypeInv

LEMMA EventFacts ==
  ASSUME TypeInv, NEW i \in DOMAIN log
  PROVE  /\ i \in 1 .. Len(log) /\ log[i] \in EventType
         /\ log[i].from \in Nodes /\ log[i].to \subseteq Nodes
         /\ log[i].epoch \in Nat /\ log[i].gen \in Nat
         /\ \/ log[i].kind = "handshake" /\ log[i] \in HandshakeType
            \/ log[i].kind = "state" /\ log[i] \in StateType
            \/ log[i].kind = "text" /\ log[i] \in TextType
<1>1. i \in 1 .. Len(log) /\ log[i] \in EventType
  BY DEF TypeInv
<1>2. CASE log[i] \in HandshakeType
  BY <1>1, <1>2, CreatorAssumption DEF HandshakeType
<1>3. CASE log[i] \in StateType
  BY <1>1, <1>3, CreatorAssumption DEF StateType
<1>4. CASE log[i] \in TextType
  BY <1>1, <1>4 DEF TextType
<1> QED
  BY <1>1, <1>2, <1>3, <1>4 DEF EventType

\* What an installation fetched is on the ledger, and so is the event in process.
LEMMA FetchedFacts ==
  ASSUME TypeInv, NEW n \in Nodes
  PROVE  /\ Fetched(n) \subseteq 1 .. Len(log) /\ Remaining(n) \subseteq Fetched(n)
         /\ Remaining(n) # {} =>
              /\ Index(n) \in Remaining(n) /\ Index(n) \in DOMAIN log
              /\ Visible(n, Index(n)) /\ ~Handled(n, Index(n))
<1>1. cursor[n] \in 0 .. Len(log) /\ session[n].upto \in 0 .. Len(log) /\ Len(log) \in Nat
  BY NodeFacts
<1>2. Fetched(n) \subseteq 1 .. Len(log) /\ Remaining(n) \subseteq Fetched(n)
  BY <1>1 DEF Fetched, Remaining
<1>3. ASSUME Remaining(n) # {} PROVE Index(n) \in Remaining(n)
  <2>1. Remaining(n) \subseteq Nat
    BY <1>1, <1>2
  <2> QED
    BY <2>1, <1>3, MinIsLeast DEF Index
<1>4. DOMAIN log = 1 .. Len(log)
  BY DEF TypeInv
<1> QED
  BY <1>2, <1>3, <1>4 DEF Remaining, Fetched

\* The ledger only grows, by one event at a time.
Grows == log' = log \/ \E e \in EventType : log' = Append(log, e)

LEMMA GrowFacts ==
  ASSUME TypeInv, Grows
  PROVE  /\ Len(log) \in Nat /\ Len(log)' \in Nat /\ Len(log) <= Len(log)'
         /\ log' \in Seq(EventType)
         /\ 0 .. Len(log) \subseteq (0 .. Len(log))' /\ 1 .. Len(log) \subseteq (1 .. Len(log))'
         /\ DOMAIN log = 1 .. Len(log)
         /\ \A i \in 1 .. Len(log) : log'[i] = log[i]
<1>1. log \in Seq(EventType) /\ Len(log) \in Nat /\ DOMAIN log = 1 .. Len(log)
  BY DEF TypeInv
<1>2. CASE log' = log
  BY <1>1, <1>2
<1>3. CASE \E e \in EventType : log' = Append(log, e)
  BY <1>1, <1>3
<1> QED
  BY <1>2, <1>3 DEF Grows

\* What is visible and what is handled depend on the installation alone.
LEMMA VisibleStays ==
  ASSUME TypeInv, Grows, NEW n \in Nodes, NEW i \in 1 .. Len(log)
  PROVE  Visible(n, i)' <=> Visible(n, i)
BY GrowFacts DEF Visible

LEMMA HandledStays ==
  ASSUME TypeInv, Grows, NEW n \in Nodes, NEW i \in 1 .. Len(log), Handled(n, i),
         mls[n].processed \subseteq mls'[n].processed,
         history[n] \subseteq history'[n], done[n] \subseteq done'[n]
  PROVE  Handled(n, i)'
<1>1. log'[i] = log[i]
  BY GrowFacts
<1>2. i \in DOMAIN log
  BY GrowFacts
<1>3. \/ log[i].kind = "handshake" \/ log[i].kind = "state" \/ log[i].kind = "text"
  BY <1>2, EventFacts
<1> QED
  BY <1>1, <1>3 DEF Handled

LEMMA SameRemaining ==
  ASSUME TypeInv, Grows, NEW n \in Nodes,
         mls'[n].processed = mls[n].processed, history'[n] = history[n], done'[n] = done[n],
         cursor'[n] = cursor[n], session'[n].upto = session[n].upto
  PROVE  /\ Remaining(n)' = Remaining(n)
         /\ Remaining(n) # {} => Event(n)' = Event(n)
<1>1. \A i \in 1 .. Len(log) : log'[i] = log[i]
  BY GrowFacts
<1>2. Fetched(n) \subseteq 1 .. Len(log)
  BY FetchedFacts
<1>3. \A i \in 1 .. Len(log) : (Visible(n, i)' <=> Visible(n, i)) /\ (Handled(n, i)' <=> Handled(n, i))
  BY <1>1 DEF Visible, Handled
<1>4. cursor[n] \in 0 .. Len(log) /\ session[n].upto \in 0 .. Len(log) /\ Len(log) \in Nat
  BY NodeFacts
<1>5. Fetched(n)' = Fetched(n)
  BY <1>3, <1>4 DEF Fetched
<1>6. Remaining(n)' = Remaining(n)
  BY <1>2, <1>3, <1>5 DEF Remaining
<1>7. ASSUME Remaining(n) # {} PROVE Event(n)' = Event(n)
  <2>1. Index(n)' = Index(n)
    BY <1>6 DEF Index
  <2>2. Index(n) \in 1 .. Len(log)
    BY <1>7, FetchedFacts
  <2> QED
    BY <2>1, <2>2, <1>1 DEF Event
<1> QED
  BY <1>6, <1>7

-----------------------------------------------------------------------------
\* A step is a step of one installation

LEMMA StartTyped ==
  ASSUME NEW op \in {"init", "add", "send", "sync"}, NEW id \in Nodes \cup Texts \cup {None}
  PROVE  /\ Free \in TaskType /\ Free.op = "free" /\ Free.pc = "free" /\ Free.id = None
         /\ Start(op, id) \in TaskType
         /\ Start(op, id).op = op /\ Start(op, id).pc = "ready" /\ Start(op, id).id = id
BY DEF Free, Start, TaskType

LEMMA QuietTyped ==
  ASSUME TypeInv
  PROVE  Quiet \in SessionType /\ Quiet.step = "quiet" /\ Quiet.upto = 0
BY DEF Quiet, SessionType, TypeInv

\* All that a step may change of an installation.
Change(n, m, t, s, h, d, k, o) ==
  /\ mls' = [mls EXCEPT ![n] = m]
  /\ task' = [task EXCEPT ![n] = t]
  /\ session' = [session EXCEPT ![n] = s]
  /\ history' = [history EXCEPT ![n] = h]
  /\ done' = [done EXCEPT ![n] = d]
  /\ cursor' = [cursor EXCEPT ![n] = k]
  /\ offset' = [offset EXCEPT ![n] = o]

LEMMA SelfChange ==
  ASSUME TypeInv, NEW n \in Nodes
  PROVE  /\ mls = [mls EXCEPT ![n] = mls[n]] /\ task = [task EXCEPT ![n] = task[n]]
         /\ session = [session EXCEPT ![n] = session[n]]
         /\ history = [history EXCEPT ![n] = history[n]]
         /\ done = [done EXCEPT ![n] = done[n]]
         /\ cursor = [cursor EXCEPT ![n] = cursor[n]]
         /\ offset = [offset EXCEPT ![n] = offset[n]]
BY DEF TypeInv

LEMMA SetOne ==
  ASSUME NEW S, NEW f \in [Nodes -> S], NEW n \in Nodes, NEW v \in S, NEW g,
         g = [f EXCEPT ![n] = v]
  PROVE  g \in [Nodes -> S] /\ g[n] = v /\ \A j \in Nodes \ {n} : g[j] = f[j]
OBVIOUS

Same(j) ==
  /\ mls'[j] = mls[j] /\ task'[j] = task[j] /\ session'[j] = session[j]
  /\ history'[j] = history[j] /\ done'[j] = done[j]
  /\ cursor'[j] = cursor[j] /\ offset'[j] = offset[j]

LEMMA ChangeFacts ==
  ASSUME TypeInv, Grows, NEW n \in Nodes,
         NEW m \in Checkpoint, NEW t \in TaskType, NEW s \in SessionType,
         NEW h \in SUBSET Texts, NEW d \in SUBSET (1 .. Len(log)),
         NEW k \in 0 .. Len(log), NEW o \in 0 .. Len(log),
         Change(n, m, t, s, h, d, k, o)
  PROVE  /\ TypeInv'
         /\ mls'[n] = m /\ task'[n] = t /\ session'[n] = s
         /\ history'[n] = h /\ done'[n] = d /\ cursor'[n] = k /\ offset'[n] = o
         /\ \A j \in Nodes \ {n} : Same(j)
<1>1. /\ log' \in Seq(EventType)
      /\ 0 .. Len(log) \subseteq (0 .. Len(log))' /\ 1 .. Len(log) \subseteq (1 .. Len(log))'
  BY GrowFacts
<1>2. /\ mls' \in [Nodes -> Checkpoint] /\ mls'[n] = m
      /\ \A j \in Nodes \ {n} : mls'[j] = mls[j]
  BY SetOne DEF TypeInv, Change
<1>3. /\ task' \in [Nodes -> TaskType] /\ task'[n] = t
      /\ \A j \in Nodes \ {n} : task'[j] = task[j]
  BY SetOne DEF TypeInv, Change
<1>4. /\ session' \in [Nodes -> SessionType] /\ session'[n] = s
      /\ \A j \in Nodes \ {n} : session'[j] = session[j]
  BY SetOne DEF TypeInv, Change
<1>5. /\ history' \in [Nodes -> SUBSET Texts] /\ history'[n] = h
      /\ \A j \in Nodes \ {n} : history'[j] = history[j]
  BY SetOne DEF TypeInv, Change
<1>6. /\ done' \in [Nodes -> SUBSET (1 .. Len(log))] /\ done'[n] = d
      /\ \A j \in Nodes \ {n} : done'[j] = done[j]
  BY SetOne DEF TypeInv, Change
<1>7. /\ cursor' \in [Nodes -> 0 .. Len(log)] /\ cursor'[n] = k
      /\ \A j \in Nodes \ {n} : cursor'[j] = cursor[j]
  BY SetOne DEF TypeInv, Change
<1>8. /\ offset' \in [Nodes -> 0 .. Len(log)] /\ offset'[n] = o
      /\ \A j \in Nodes \ {n} : offset'[j] = offset[j]
  BY SetOne DEF TypeInv, Change
<1>9. SessionType \subseteq SessionType'
  BY <1>1 DEF SessionType
<1>10. TypeInv'
  <2>1. session' \in [Nodes -> SessionType']
    BY <1>4, <1>9
  <2>2. done' \in [Nodes -> SUBSET (1 .. Len(log))']
    BY <1>6, <1>1
  <2>3. cursor' \in [Nodes -> (0 .. Len(log))'] /\ offset' \in [Nodes -> (0 .. Len(log))']
    BY <1>7, <1>8, <1>1
  <2> QED
    BY <1>1, <1>2, <1>3, <1>5, <2>1, <2>2, <2>3 DEF TypeInv
<1> QED
  BY <1>2, <1>3, <1>4, <1>5, <1>6, <1>7, <1>8, <1>10 DEF Same

\* A step of n leaves the others' progress alone.
LEMMA ChangeKeepsControl ==
  ASSUME TypeInv, ControlInv, Grows, NEW n \in Nodes,
         NEW m \in Checkpoint, NEW t \in TaskType, NEW s \in SessionType,
         NEW h \in SUBSET Texts, NEW d \in SUBSET (1 .. Len(log)),
         NEW k \in 0 .. Len(log), NEW o \in 0 .. Len(log),
         Change(n, m, t, s, h, d, k, o),
         Roles(n, m), Progress(n, m, t, s), Opened(n)'
  PROVE  TypeInv' /\ ControlInv'
<1>1. /\ TypeInv' /\ mls'[n] = m /\ task'[n] = t /\ session'[n] = s
      /\ \A j \in Nodes \ {n} : Same(j)
  BY ChangeFacts
<1>2. ASSUME NEW j \in Nodes
      PROVE  Roles(j, mls'[j]) /\ Progress(j, mls'[j], task'[j], session'[j]) /\ Opened(j)'
  <2>1. CASE j = n
    BY <1>1, <2>1
  <2>2. CASE j # n
    <3>1. Same(j)
      BY <1>1, <2>2
    <3>2. Roles(j, mls[j]) /\ Progress(j, mls[j], task[j], session[j]) /\ Opened(j)
      BY DEF ControlInv
    <3>3. Remaining(j)' = Remaining(j) /\ (Remaining(j) # {} => Event(j)' = Event(j))
      BY <3>1, SameRemaining DEF Same
    <3>4. mls'[j] = mls[j] /\ task'[j] = task[j] /\ session'[j] = session[j]
      BY <3>1 DEF Same
    <3>5. Opened(j)'
      BY <3>2, <3>3, <3>4 DEF Opened
    <3> QED
      BY <3>2, <3>4, <3>5
  <2> QED
    BY <2>1, <2>2
<1>3. ControlInv'
  BY <1>2 DEF ControlInv, Roles, Progress
<1> QED
  BY <1>1, <1>3

LEMMA Fields ==
  ASSUME TypeInv, NEW n \in Nodes
  PROVE  /\ mls[n] \in Checkpoint
         /\ mls[n].joined \in BOOLEAN /\ mls[n].hydrated \in BOOLEAN
         /\ mls[n].epoch \in Nat /\ mls[n].gen \in Nat /\ mls[n].opened \subseteq Nodes \X Nat
         /\ mls[n].roster \subseteq Nodes /\ mls[n].pending \in Nodes \cup {None}
         /\ mls[n].unpublished \in BOOLEAN /\ mls[n].processed \subseteq Nat
         /\ task[n] \in TaskType
         /\ session[n] \in SessionType
<1>1. mls[n] \in Checkpoint /\ task[n] \in TaskType /\ session[n] \in SessionType
  BY NodeFacts
<1> QED
  BY <1>1 DEF Checkpoint

LEMMA NodeControl ==
  ASSUME ControlInv, NEW n \in Nodes
  PROVE  Roles(n, mls[n]) /\ Progress(n, mls[n], task[n], session[n]) /\ Opened(n)
BY DEF ControlInv

\* A step that only moves the operation or the batch of n.
LEMMA MoveOn ==
  ASSUME TypeInv, ControlInv, Grows, UNCHANGED durable, NEW n \in Nodes,
         NEW t \in TaskType, NEW s \in SessionType,
         task' = [task EXCEPT ![n] = t], session' = [session EXCEPT ![n] = s],
         t.pc \notin {"store", "note"}, Progress(n, mls[n], t, s)
  PROVE  TypeInv' /\ ControlInv'
<1>1. Change(n, mls[n], t, s, history[n], done[n], cursor[n], offset[n])
  BY SelfChange DEF Change, durable
<1>2. /\ mls[n] \in Checkpoint /\ history[n] \in SUBSET Texts
      /\ done[n] \in SUBSET (1 .. Len(log)) /\ cursor[n] \in 0 .. Len(log)
      /\ offset[n] \in 0 .. Len(log)
  BY NodeFacts
<1>3. task'[n] = t
  BY <1>1, <1>2, ChangeFacts
<1>4. Opened(n)'
  BY <1>3 DEF Opened
<1>5. Roles(n, mls[n])
  BY NodeControl
<1> QED
  BY <1>1, <1>2, <1>4, <1>5, ChangeKeepsControl

\* A step that changes the checkpoint of n and moves its operation.
LEMMA NewCheckpoint ==
  ASSUME TypeInv, ControlInv, UNCHANGED <<log, history, done, cursor, offset, session>>,
         NEW n \in Nodes, NEW m \in Checkpoint, NEW t \in TaskType,
         mls' = [mls EXCEPT ![n] = m], task' = [task EXCEPT ![n] = t],
         Roles(n, m), Progress(n, m, t, session[n]),
         t.pc \notin {"store", "note"} \/ Opened(n)'
  PROVE  TypeInv' /\ ControlInv'
<1>1. Change(n, m, t, session[n], history[n], done[n], cursor[n], offset[n]) /\ Grows
  BY SelfChange DEF Change, Grows
<1>2. /\ session[n] \in SessionType /\ history[n] \in SUBSET Texts
      /\ done[n] \in SUBSET (1 .. Len(log)) /\ cursor[n] \in 0 .. Len(log)
      /\ offset[n] \in 0 .. Len(log)
  BY NodeFacts
<1>3. task'[n] = t
  BY <1>1, <1>2, ChangeFacts
<1>4. Opened(n)'
  BY <1>3 DEF Opened
<1> QED
  BY <1>1, <1>2, <1>4, ChangeKeepsControl

LEMMA GoToTyped ==
  ASSUME TypeInv, NEW n \in Nodes,
         NEW pc \in {"free", "ready", "merge", "state", "mark", "publish", "save", "events",
                     "store", "note"}
  PROVE  LET t == [task[n] EXCEPT !.pc = pc]
         IN  /\ t \in TaskType /\ t.op = task[n].op /\ t.pc = pc /\ t.id = task[n].id
             /\ GoTo(n, pc) => task' = [task EXCEPT ![n] = t]
<1>1. task[n] \in TaskType /\ task \in [Nodes -> TaskType]
  BY NodeFacts DEF TypeInv
<1> QED
  BY <1>1 DEF TaskType, GoTo

LEMMA AbortTyped ==
  ASSUME TypeInv, ControlInv, NEW n \in Nodes, Abort(n)
  PROVE  \E t \in TaskType, s \in SessionType :
           /\ task' = [task EXCEPT ![n] = t] /\ session' = [session EXCEPT ![n] = s]
           /\ t.op \in {"free", "init"} /\ t.pc \in {"free", "ready"}
           /\ s = session[n] \/ s = Quiet
<1> DEFINE t == IF task[n].op = "init" THEN Start("init", None) ELSE Free
           s == IF task[n].op = "sync" THEN Quiet ELSE session[n]
<1>1. task' = [task EXCEPT ![n] = t]
  BY DEF Abort
<1>2. session' = [session EXCEPT ![n] = s]
  BY SelfChange DEF Abort
<1>3. s \in SessionType
  BY QuietTyped, NodeFacts
<1>4. t \in TaskType /\ t.op \in {"free", "init"} /\ t.pc \in {"free", "ready"}
  BY StartTyped
<1> HIDE DEF t
<1> QED
  BY <1>1, <1>2, <1>3, <1>4

LEMMA AbortKeepsControl ==
  ASSUME TypeInv, ControlInv, Grows, UNCHANGED durable, NEW n \in Nodes, Abort(n)
  PROVE  TypeInv' /\ ControlInv'
<1>1. PICK t \in TaskType, s \in SessionType :
           /\ task' = [task EXCEPT ![n] = t] /\ session' = [session EXCEPT ![n] = s]
           /\ t.op \in {"free", "init"} /\ t.pc \in {"free", "ready"}
  BY AbortTyped
<1>2. Progress(n, mls[n], t, s)
  BY <1>1 DEF Progress
<1> QED
  BY <1>1, <1>2, MoveOn

\* What is submitted is an event of the ledger.
LEMMA SubmissionTyped ==
  ASSUME TypeInv, ControlInv, NEW n \in Nodes,
         SubmitHandshake(n) \/ SubmitState(n) \/ SubmitText(n)
  PROVE  Grows
<1>1. /\ Roles(n, mls[n]) /\ Progress(n, mls[n], task[n], session[n])
  BY NodeControl
<1>2. CASE SubmitHandshake(n)
  <2>1. n = Creator /\ mls[n].pending \in Nodes \ {Creator} /\ mls[n].roster \subseteq Nodes
    BY <1>1, <1>2, Fields DEF SubmitHandshake, Roles
  <2>2. mls[n].epoch + 1 \in Nat
    BY Fields
  <2>3. PendingHandshake(n) \in HandshakeType
    BY <2>1, <2>2 DEF PendingHandshake, Handshake, HandshakeType
  <2> QED
    BY <1>2, <2>3 DEF SubmitHandshake, Grows, EventType
<1>3. CASE SubmitState(n)
  <2>1. n = Creator /\ mls[n].gen >= 1
    BY <1>1, <1>3 DEF SubmitState, Progress, At
  <2>2. mls[n].epoch \in Nat /\ mls[n].gen - 1 \in Nat /\ mls[n].roster \subseteq Nodes
    BY <2>1, Fields
  <2>3. Ciphertext("state", n, mls[n].roster \ {n}, mls[n].epoch, mls[n].gen - 1, mls[n].roster)
          \in StateType
    BY <2>1, <2>2 DEF Ciphertext, StateType
  <2> QED
    BY <1>3, <2>3 DEF SubmitState, Grows, EventType
<1>4. CASE SubmitText(n)
  <2>1. task[n].id \in Texts /\ mls[n].gen >= 1
    BY <1>1, <1>4 DEF SubmitText, Progress, At
  <2>2. mls[n].epoch \in Nat /\ mls[n].gen - 1 \in Nat /\ mls[n].roster \subseteq Nodes
    BY <2>1, Fields
  <2>3. Ciphertext("text", n, mls[n].roster \ {n}, mls[n].epoch, mls[n].gen - 1, task[n].id)
          \in TextType
    BY <2>1, <2>2 DEF Ciphertext, TextType
  <2> QED
    BY <1>4, <2>3 DEF SubmitText, Grows, EventType
<1> QED
  BY <1>2, <1>3, <1>4

-----------------------------------------------------------------------------
\* Every step keeps the types and the control invariant: recovery and addition

LEMMA RecoveryKeepsControl ==
  ASSUME TypeInv, ControlInv, NEW n \in Nodes,
         \/ PublishHandshake(n) \/ Merge(n) \/ EncryptState(n) \/ PublishState(n)
         \/ Mark(n) \/ FinishInit(n) \/ PrepareAdd(n) \/ FinishAdd(n)
  PROVE  TypeInv' /\ ControlInv'
<1>1. /\ Roles(n, mls[n]) /\ Progress(n, mls[n], task[n], session[n])
  BY NodeControl
<1>2. session[n] \in SessionType /\ session = [session EXCEPT ![n] = session[n]]
  BY NodeFacts, SelfChange
<1>3. /\ mls[n] \in Checkpoint /\ mls[n].epoch \in Nat /\ mls[n].gen \in Nat
      /\ mls[n].roster \subseteq Nodes /\ mls[n].pending \in Nodes \cup {None}
  BY Fields
<1>4. log' = log => Grows
  BY DEF Grows
<1>5. CASE PublishHandshake(n)
  <2> DEFINE t == [task[n] EXCEPT !.pc = "merge"]
  <2>1. t \in TaskType /\ t.op = task[n].op /\ t.pc = "merge" /\ t.id = task[n].id
    BY GoToTyped
  <2>2. task' = [task EXCEPT ![n] = t]
    BY <1>5, GoToTyped DEF PublishHandshake
  <2>3. Progress(n, mls[n], t, session[n])
    BY <1>1, <1>5, <2>1 DEF PublishHandshake, SubmitHandshake, Progress
  <2>4. Grows
    BY <1>5, SubmissionTyped DEF PublishHandshake
  <2> HIDE DEF t
  <2> QED
    BY <1>2, <1>5, <2>1, <2>2, <2>3, <2>4, MoveOn DEF PublishHandshake
<1>6. CASE Merge(n)
  <2> DEFINE t == [task[n] EXCEPT !.pc = "ready"]
             m == [mls[n] EXCEPT !.epoch = mls[n].epoch + 1, !.gen = 0, !.opened = {},
                                 !.roster = mls[n].roster \cup {mls[n].pending},
                                 !.pending = None, !.unpublished = TRUE]
  <2>1. t \in TaskType /\ t.op = task[n].op /\ t.pc = "ready" /\ t.id = task[n].id
    BY GoToTyped
  <2>2. task' = [task EXCEPT ![n] = t]
    BY <1>6, GoToTyped DEF Merge
  <2>3. mls[n].pending \in Nodes \ {Creator} /\ n = Creator
    BY <1>1, <1>3, <1>6 DEF Merge, At, Roles, Progress
  <2>4. m \in Checkpoint /\ m.joined = mls[n].joined /\ m.hydrated = mls[n].hydrated
        /\ m.roster = mls[n].roster \cup {mls[n].pending} /\ m.pending = None
    <3> DEFINE r == mls[n].roster \cup {mls[n].pending}
               e == mls[n].epoch + 1
    <3>1. r \in SUBSET Nodes /\ e \in Nat /\ {} \in SUBSET (Nodes \X Nat)
      BY <1>3, <2>3
    <3> HIDE DEF r, e
    <3>2. [mls[n] EXCEPT !.epoch = e, !.gen = 0, !.opened = {}, !.roster = r,
                         !.pending = None, !.unpublished = TRUE] \in Checkpoint
      BY <1>3, <3>1 DEF Checkpoint
    <3> QED
      BY <1>3, <3>2 DEF Checkpoint, r, e
  <2>5. mls' = [mls EXCEPT ![n] = m]
    BY <1>3, <1>6 DEF Merge, EnterEpoch, Checkpoint, TypeInv
  <2>6. Roles(n, m)
    BY <1>1, <2>3, <2>4, CreatorAssumption, NoneAssumption DEF Roles
  <2>7. Progress(n, m, t, session[n])
    BY <1>1, <2>1, <2>4 DEF Progress
  <2> HIDE DEF t, m
  <2> QED
    BY <1>6, <2>1, <2>2, <2>4, <2>5, <2>6, <2>7, NewCheckpoint DEF Merge
<1>7. CASE EncryptState(n)
  <2> DEFINE t == [task[n] EXCEPT !.pc = "state"]
             m == [mls[n] EXCEPT !.gen = mls[n].gen + 1]
  <2>1. t \in TaskType /\ t.op = task[n].op /\ t.pc = "state" /\ t.id = task[n].id
    BY GoToTyped
  <2>2. task' = [task EXCEPT ![n] = t]
    BY <1>7, GoToTyped DEF EncryptState, Encrypt
  <2>3. m \in Checkpoint /\ m.joined = mls[n].joined /\ m.hydrated = mls[n].hydrated
        /\ m.roster = mls[n].roster /\ m.pending = mls[n].pending /\ m.epoch = mls[n].epoch
        /\ m.unpublished = mls[n].unpublished /\ m.gen = mls[n].gen + 1
    BY <1>3 DEF Checkpoint
  <2>4. mls' = [mls EXCEPT ![n] = m]
    BY <1>7 DEF EncryptState, Encrypt, TypeInv
  <2>5. Roles(n, m)
    BY <1>1, <2>3 DEF Roles
  <2>6. n = Creator
    BY <1>1, <1>7 DEF Roles, EncryptState
  <2>7. Progress(n, m, t, session[n])
    BY <1>1, <1>3, <2>1, <2>3, <2>6 DEF Progress
  <2> HIDE DEF t, m
  <2> QED
    BY <1>7, <2>1, <2>2, <2>3, <2>4, <2>5, <2>7, NewCheckpoint DEF EncryptState, Encrypt
<1>8. CASE PublishState(n)
  <2> DEFINE t == [task[n] EXCEPT !.pc = "mark"]
  <2>1. t \in TaskType /\ t.op = task[n].op /\ t.pc = "mark" /\ t.id = task[n].id
    BY GoToTyped
  <2>2. task' = [task EXCEPT ![n] = t]
    BY <1>8, GoToTyped DEF PublishState
  <2>3. Progress(n, mls[n], t, session[n])
    BY <1>1, <1>8, <2>1 DEF PublishState, SubmitState, At, Progress
  <2>4. Grows
    BY <1>8, SubmissionTyped DEF PublishState
  <2> HIDE DEF t
  <2> QED
    BY <1>2, <1>8, <2>1, <2>2, <2>3, <2>4, MoveOn DEF PublishState
<1>9. CASE Mark(n)
  <2> DEFINE t == [task[n] EXCEPT !.pc = "ready"]
             m == [mls[n] EXCEPT !.unpublished = FALSE]
  <2>1. t \in TaskType /\ t.op = task[n].op /\ t.pc = "ready" /\ t.id = task[n].id
    BY GoToTyped
  <2>2. task' = [task EXCEPT ![n] = t]
    BY <1>9, GoToTyped DEF Mark
  <2>3. m \in Checkpoint /\ m.joined = mls[n].joined /\ m.hydrated = mls[n].hydrated
        /\ m.roster = mls[n].roster /\ m.pending = mls[n].pending /\ m.epoch = mls[n].epoch
        /\ m.unpublished = FALSE
    BY <1>3 DEF Checkpoint
  <2>4. mls' = [mls EXCEPT ![n] = m]
    BY <1>9 DEF Mark, TypeInv
  <2>5. Roles(n, m)
    BY <1>1, <2>3 DEF Roles
  <2>6. Progress(n, m, t, session[n])
    BY <1>1, <2>1, <2>3 DEF Progress
  <2> HIDE DEF t, m
  <2> QED
    BY <1>9, <2>1, <2>2, <2>3, <2>4, <2>5, <2>6, NewCheckpoint DEF Mark
<1>10. CASE FinishInit(n) \/ FinishAdd(n)
  <2>1. task' = [task EXCEPT ![n] = Free] /\ UNCHANGED <<log, durable, session>>
    BY <1>10 DEF FinishInit, FinishAdd, End
  <2>2. Free \in TaskType /\ Free.op = "free" /\ Free.pc = "free"
    BY DEF Free, TaskType
  <2>3. Progress(n, mls[n], Free, session[n])
    BY <2>2 DEF Progress
  <2> QED
    BY <1>2, <1>4, <2>1, <2>2, <2>3, MoveOn
<1>11. CASE PrepareAdd(n)
  <2> DEFINE m == [mls[n] EXCEPT !.pending = task[n].id]
  <2>1. n = Creator /\ task[n].id \in Nodes \ {Creator} /\ task[n].pc = "ready"
    BY <1>1, <1>11 DEF PrepareAdd, Progress, Recovered, At
  <2>2. m \in Checkpoint /\ m.joined = mls[n].joined /\ m.hydrated = mls[n].hydrated
        /\ m.roster = mls[n].roster /\ m.pending = task[n].id /\ m.epoch = mls[n].epoch
        /\ m.gen = mls[n].gen
    BY <1>3, <2>1 DEF Checkpoint
  <2>3. mls' = [mls EXCEPT ![n] = m]
    BY <1>11 DEF PrepareAdd, TypeInv
  <2>4. Roles(n, m)
    BY <1>1, <2>1, <2>2 DEF Roles
  <2>5. Progress(n, m, task[n], session[n])
    BY <1>1, <2>1, <2>2 DEF Progress
  <2>6. task[n] \in TaskType /\ task' = [task EXCEPT ![n] = task[n]]
    BY <1>11, SelfChange, NodeFacts DEF PrepareAdd
  <2> HIDE DEF m
  <2> QED
    BY <1>11, <2>1, <2>2, <2>3, <2>4, <2>5, <2>6, NewCheckpoint DEF PrepareAdd
<1> QED
  BY <1>5, <1>6, <1>7, <1>8, <1>9, <1>10, <1>11

\* Sending a text
LEMMA SendKeepsControl ==
  ASSUME TypeInv, ControlInv, NEW n \in Nodes,
         EncryptText(n) \/ PublishText(n) \/ SaveText(n)
  PROVE  TypeInv' /\ ControlInv'
<1>1. /\ Roles(n, mls[n]) /\ Progress(n, mls[n], task[n], session[n])
  BY NodeControl
<1>2. session[n] \in SessionType /\ session = [session EXCEPT ![n] = session[n]]
  BY NodeFacts, SelfChange
<1>3. mls[n] \in Checkpoint /\ mls[n].gen \in Nat
  BY Fields
<1>4. CASE EncryptText(n)
  <2> DEFINE t == [task[n] EXCEPT !.pc = "publish"]
             m == [mls[n] EXCEPT !.gen = mls[n].gen + 1]
  <2>1. t \in TaskType /\ t.op = task[n].op /\ t.pc = "publish" /\ t.id = task[n].id
    BY GoToTyped
  <2>2. task' = [task EXCEPT ![n] = t]
    BY <1>4, GoToTyped DEF EncryptText, Encrypt
  <2>3. m \in Checkpoint /\ m.joined = mls[n].joined /\ m.hydrated = mls[n].hydrated
        /\ m.roster = mls[n].roster /\ m.pending = mls[n].pending /\ m.epoch = mls[n].epoch
        /\ m.unpublished = mls[n].unpublished /\ m.gen = mls[n].gen + 1
    BY <1>3 DEF Checkpoint
  <2>4. mls' = [mls EXCEPT ![n] = m]
    BY <1>4 DEF EncryptText, Encrypt, TypeInv
  <2>5. Roles(n, m)
    BY <1>1, <2>3 DEF Roles
  <2>6. Progress(n, m, t, session[n])
    BY <1>1, <1>3, <1>4, <2>1, <2>3 DEF Progress, EncryptText
  <2> HIDE DEF t, m
  <2> QED
    BY <1>4, <2>1, <2>2, <2>3, <2>4, <2>5, <2>6, NewCheckpoint DEF EncryptText, Encrypt
<1>5. CASE PublishText(n)
  <2> DEFINE t == [task[n] EXCEPT !.pc = "save"]
  <2>1. t \in TaskType /\ t.op = task[n].op /\ t.pc = "save" /\ t.id = task[n].id
    BY GoToTyped
  <2>2. task' = [task EXCEPT ![n] = t]
    BY <1>5, GoToTyped DEF PublishText
  <2>3. Progress(n, mls[n], t, session[n])
    BY <1>1, <1>5, <2>1 DEF PublishText, SubmitText, At, Progress
  <2>4. Grows
    BY <1>5, SubmissionTyped DEF PublishText
  <2> HIDE DEF t
  <2> QED
    BY <1>2, <1>5, <2>1, <2>2, <2>3, <2>4, MoveOn DEF PublishText
<1>6. CASE SaveText(n)
  <2> DEFINE h == history[n] \cup {task[n].id}
  <2>1. task[n].id \in Texts
    BY <1>1, <1>6 DEF SaveText, At, Progress
  <2>2. Free \in TaskType /\ Free.op = "free" /\ Free.pc = "free"
    BY DEF Free, TaskType
  <2>3. Change(n, mls[n], Free, session[n], h, done[n], cursor[n], offset[n])
    BY <1>6, SelfChange DEF SaveText, End, Change
  <2>4. /\ h \in SUBSET Texts /\ done[n] \in SUBSET (1 .. Len(log))
        /\ cursor[n] \in 0 .. Len(log) /\ offset[n] \in 0 .. Len(log) /\ Grows
    BY <1>6, <2>1, NodeFacts DEF Grows, SaveText
  <2> HIDE DEF h
  <2>5. task'[n] = Free
    BY <1>2, <1>3, <2>2, <2>3, <2>4, ChangeFacts
  <2>6. Opened(n)'
    BY <2>2, <2>5 DEF Opened
  <2>7. Progress(n, mls[n], Free, session[n])
    BY <2>2 DEF Progress
  <2> QED
    BY <1>1, <1>2, <1>3, <2>2, <2>3, <2>4, <2>6, <2>7, ChangeKeepsControl
<1> QED
  BY <1>4, <1>5, <1>6

\* The event a sync is at: the creator never meets its own commits and states.
LEMMA EventInProcess ==
  ASSUME TypeInv, NEW n \in Nodes, Remaining(n) # {}
  PROVE  /\ Index(n) \in DOMAIN log /\ Index(n) \in 1 .. Len(log) /\ Event(n) = log[Index(n)]
         /\ Index(n) \in Remaining(n)
         /\ Event(n).epoch \in Nat /\ Event(n).gen \in Nat /\ Event(n).from \in Nodes
         /\ \/ Event(n).kind = "handshake" /\ Event(n) \in HandshakeType
            \/ Event(n).kind = "state" /\ Event(n) \in StateType
            \/ Event(n).kind = "text" /\ Event(n) \in TextType
         /\ Event(n).kind # "handshake" => Event(n).from # n
         /\ Event(n).kind \in {"handshake", "state"} => n # Creator
<1> DEFINE i == Index(n)
<1>1. /\ i \in Remaining(n) /\ i \in DOMAIN log /\ Visible(n, i) /\ ~Handled(n, i)
  BY FetchedFacts
<1>2. Event(n) = log[i]
  BY DEF Event
<1>3. /\ i \in 1 .. Len(log) /\ log[i].from \in Nodes
      /\ log[i].epoch \in Nat /\ log[i].gen \in Nat
      /\ \/ log[i].kind = "handshake" /\ log[i] \in HandshakeType
         \/ log[i].kind = "state" /\ log[i] \in StateType
         \/ log[i].kind = "text" /\ log[i] \in TextType
  BY <1>1, EventFacts
<1> HIDE DEF i
<1>4. log[i].kind # "handshake" => log[i].from # n
  BY <1>1, <1>3 DEF Handled
<1>5. ASSUME log[i].kind = "handshake" PROVE n # Creator
  <2>1. log[i] \in HandshakeType /\ n \in log[i].to
    BY <1>1, <1>3, <1>5 DEF Visible
  <2> QED
    BY <2>1 DEF HandshakeType
<1>6. ASSUME log[i].kind = "state" PROVE n # Creator
  BY <1>3, <1>4, <1>6 DEF StateType
<1> QED
  BY <1>1, <1>2, <1>3, <1>4, <1>5, <1>6 DEF i

\* Processing what was fetched
LEMMA SyncKeepsControl ==
  ASSUME TypeInv, ControlInv, NEW n \in Nodes,
         \/ Fetch(n) \/ Join(n) \/ ProcessCommit(n) \/ Decrypt(n) \/ StoreText(n)
         \/ ApplyState(n) \/ NoteState(n) \/ SyncError(n) \/ FinishSync(n)
  PROVE  TypeInv' /\ ControlInv'
<1>1. Roles(n, mls[n]) /\ Progress(n, mls[n], task[n], session[n]) /\ Opened(n)
  BY NodeControl
<1>2. /\ session[n] \in SessionType /\ task[n] \in TaskType
      /\ task = [task EXCEPT ![n] = task[n]]
  BY NodeFacts, SelfChange
<1>3. /\ mls[n] \in Checkpoint /\ mls[n].processed \subseteq Nat
      /\ mls[n].opened \in SUBSET (Nodes \X Nat)
  BY Fields
<1>4. log' = log => Grows
  BY DEF Grows
<1>5. /\ Len(log) \in 0 .. Len(log) /\ session[n].upto \in 0 .. Len(log)
      /\ session[n].end \in 0 .. Len(log)
  BY NodeFacts
<1>6. CASE Fetch(n)
  <2> DEFINE t == [task[n] EXCEPT !.pc = "events"]
             s == [step |-> "syncing", upto |-> Len(log), end |-> session[n].end]
  <2>1. t \in TaskType /\ t.op = task[n].op /\ t.pc = "events" /\ t.id = task[n].id
    BY GoToTyped
  <2>2. task' = [task EXCEPT ![n] = t]
    BY <1>6, GoToTyped DEF Fetch
  <2>3. s \in SessionType /\ s.step = "syncing" /\ session' = [session EXCEPT ![n] = s]
    BY <1>5, <1>6 DEF Fetch, Read, SessionType
  <2>4. Progress(n, mls[n], t, s)
    BY <1>1, <1>6, <2>1, <2>3 DEF Progress, Fetch
  <2>5. UNCHANGED <<log, durable>>
    BY <1>6 DEF Fetch
  <2> HIDE DEF t, s
  <2> QED
    BY <1>4, <2>1, <2>2, <2>3, <2>4, <2>5, MoveOn
<1>7. CASE Join(n) \/ ProcessCommit(n)
  <2> DEFINE e == Event(n).epoch
             p == mls[n].processed \cup {e}
             j == IF Join(n) THEN TRUE ELSE mls[n].joined
             m == [mls[n] EXCEPT !.epoch = e, !.gen = 0, !.opened = {}, !.joined = j,
                                 !.processed = p]
  <2>1. task[n].pc = "events" /\ Remaining(n) # {}
    BY <1>7 DEF Join, ProcessCommit, Processing, At
  <2>2. e \in Nat /\ p \in SUBSET Nat /\ {} \in SUBSET (Nodes \X Nat) /\ j = TRUE
    BY <1>3, <1>7, <2>1, EventInProcess DEF ProcessCommit, CanCommit
  <2>3. mls' = [mls EXCEPT ![n] = m]
    <3>1. CASE Join(n)
      BY <1>3, <3>1 DEF Join, EnterEpoch, Checkpoint, TypeInv
    <3>2. CASE ProcessCommit(n)
      <4>1. m = [mls[n] EXCEPT !.epoch = e, !.gen = 0, !.opened = {}, !.processed = p]
        <5>1. mls[n].joined = TRUE
          BY <1>3, <3>2, Fields DEF ProcessCommit, CanCommit
        <5> HIDE DEF e, p
        <5> QED
          BY <1>3, <2>2, <5>1 DEF Checkpoint
      <4> QED
        BY <1>3, <3>2, <4>1 DEF ProcessCommit, EnterEpoch, Checkpoint, TypeInv
    <3> QED
      BY <1>7, <3>1, <3>2
  <2> HIDE DEF e, p, j
  <2>4. m \in Checkpoint
    BY <1>3, <2>2 DEF Checkpoint
  <2>5. m.joined = TRUE /\ m.hydrated = mls[n].hydrated /\ m.roster = mls[n].roster
        /\ m.pending = mls[n].pending /\ m.unpublished = mls[n].unpublished
    BY <1>3, <2>2 DEF Checkpoint
  <2> HIDE DEF m
  <2>6. Roles(n, m)
    BY <1>1, <2>5 DEF Roles
  <2>7. Progress(n, m, task[n], session[n])
    BY <1>1, <2>1, <2>5 DEF Progress
  <2> QED
    BY <1>2, <1>7, <2>1, <2>3, <2>4, <2>6, <2>7, NewCheckpoint DEF Join, ProcessCommit
<1>8. CASE Decrypt(n)
  <2> DEFINE t == [task[n] EXCEPT !.pc = "store"]
             o == mls[n].opened \cup {<<Event(n).from, Event(n).gen>>}
             m == [mls[n] EXCEPT !.opened = o]
  <2>1. t \in TaskType /\ t.op = task[n].op /\ t.pc = "store" /\ t.id = task[n].id
    BY GoToTyped
  <2>2. task' = [task EXCEPT ![n] = t]
    BY <1>8, GoToTyped DEF Decrypt
  <2>3. /\ task[n].pc = "events" /\ Remaining(n) # {} /\ mls[n].joined
        /\ Event(n).kind # "handshake" /\ Event(n).epoch = mls[n].epoch
    BY <1>8 DEF Decrypt, Processing, At, CanOpen
  <2>4. o \in SUBSET (Nodes \X Nat)
    BY <1>3, <2>3, EventInProcess
  <2>5. mls' = [mls EXCEPT ![n] = m]
    BY <1>8 DEF Decrypt, TypeInv
  <2> HIDE DEF o, t
  <2>6. m \in Checkpoint
    BY <1>3, <2>4 DEF Checkpoint
  <2>7. m.joined = mls[n].joined /\ m.hydrated = mls[n].hydrated /\ m.roster = mls[n].roster
        /\ m.pending = mls[n].pending /\ m.unpublished = mls[n].unpublished
        /\ m.epoch = mls[n].epoch /\ m.processed = mls[n].processed
    BY <1>3 DEF Checkpoint
  <2> HIDE DEF m
  <2>8. Roles(n, m)
    BY <1>1, <2>7 DEF Roles
  <2>9. Progress(n, m, t, session[n])
    BY <1>1, <2>1, <2>3, <2>7 DEF Progress
  <2>10. mls'[n] = m /\ Grows
    BY <1>8, <2>5, <2>6, SetOne DEF TypeInv, Grows, Decrypt
  <2>11. Remaining(n)' = Remaining(n) /\ Event(n)' = Event(n)
    BY <1>8, <2>3, <2>7, <2>10, SameRemaining DEF Decrypt
  <2>12. Opened(n)'
    BY <2>3, <2>7, <2>10, <2>11 DEF Opened
  <2> QED
    BY <1>8, <2>1, <2>2, <2>5, <2>6, <2>8, <2>9, <2>12, NewCheckpoint DEF Decrypt
<1>9. CASE StoreText(n) \/ NoteState(n)
  <2> DEFINE t == [task[n] EXCEPT !.pc = "events"]
  <2>1. t \in TaskType /\ t.op = task[n].op /\ t.pc = "events" /\ t.id = task[n].id
    BY GoToTyped
  <2>2. task' = [task EXCEPT ![n] = t]
    BY <1>9, GoToTyped DEF StoreText, NoteState
  <2>3. task[n].pc \in {"store", "note"} /\ Remaining(n) # {}
    BY <1>1, <1>9 DEF StoreText, NoteState, At, Opened
  <2>4. Progress(n, mls[n], t, session[n])
    BY <1>1, <2>1, <2>3 DEF Progress
  <2> HIDE DEF t
  <2>5. PICK h \in SUBSET Texts, d \in SUBSET (1 .. Len(log)) :
           Change(n, mls[n], t, session[n], h, d, cursor[n], offset[n])
    <3>1. history[n] \in SUBSET Texts /\ done[n] \in SUBSET (1 .. Len(log))
      BY NodeFacts
    <3>2. CASE StoreText(n)
      <4>1. Event(n).body \in Texts
        BY <2>3, <3>2, EventInProcess DEF StoreText, TextType
      <4>2. Change(n, mls[n], t, session[n], history[n] \cup {Event(n).body}, done[n],
                   cursor[n], offset[n])
        BY <2>2, <3>2, SelfChange DEF StoreText, Change
      <4>3. history[n] \cup {Event(n).body} \in SUBSET Texts
        BY <3>1, <4>1
      <4> QED
        BY <3>1, <4>2, <4>3
    <3>3. CASE NoteState(n)
      <4>1. Index(n) \in 1 .. Len(log)
        BY <2>3, EventInProcess
      <4>2. Change(n, mls[n], t, session[n], history[n], done[n] \cup {Index(n)},
                   cursor[n], offset[n])
        BY <2>2, <3>3, SelfChange DEF NoteState, Change
      <4>3. done[n] \cup {Index(n)} \in SUBSET (1 .. Len(log))
        BY <3>1, <4>1
      <4> QED
        BY <3>1, <4>2, <4>3
    <3> QED
      BY <1>9, <3>2, <3>3
  <2>6. cursor[n] \in 0 .. Len(log) /\ offset[n] \in 0 .. Len(log) /\ Grows
    BY <1>9, NodeFacts DEF Grows, StoreText, NoteState
  <2>7. task'[n] = t
    BY <2>1, <2>2, SetOne DEF TypeInv
  <2>8. Opened(n)'
    BY <2>1, <2>7 DEF Opened
  <2> QED
    BY <1>1, <1>2, <1>3, <2>1, <2>4, <2>5, <2>6, <2>8, ChangeKeepsControl
<1>10. CASE ApplyState(n)
  <2> DEFINE t == [task[n] EXCEPT !.pc = "note"]
             m == [mls[n] EXCEPT !.roster = Event(n).body, !.hydrated = TRUE]
  <2>1. t \in TaskType /\ t.op = task[n].op /\ t.pc = "note" /\ t.id = task[n].id
    BY GoToTyped
  <2>2. task' = [task EXCEPT ![n] = t]
    BY <1>10, GoToTyped DEF ApplyState
  <2>3. /\ task[n].pc = "store" /\ Remaining(n) # {} /\ mls[n].joined
        /\ Event(n).kind = "state" /\ Event(n).epoch = mls[n].epoch
    BY <1>1, <1>10 DEF ApplyState, At, Opened
  <2>4. Event(n).body \in SUBSET Nodes /\ n # Creator
    BY <2>3, EventInProcess DEF StateType
  <2>5. mls' = [mls EXCEPT ![n] = m]
    BY <1>10 DEF ApplyState, TypeInv
  <2> HIDE DEF t
  <2>6. m \in Checkpoint
    BY <1>3, <2>4 DEF Checkpoint
  <2>7. m.joined = mls[n].joined /\ m.pending = mls[n].pending
        /\ m.unpublished = mls[n].unpublished /\ m.gen = mls[n].gen
        /\ m.epoch = mls[n].epoch /\ m.processed = mls[n].processed
    BY <1>3 DEF Checkpoint
  <2> HIDE DEF m
  <2>8. Roles(n, m)
    BY <1>1, <2>3, <2>4, <2>7 DEF Roles
  <2>9. Progress(n, m, t, session[n])
    BY <1>1, <2>1, <2>3, <2>7 DEF Progress
  <2>10. mls'[n] = m /\ Grows
    BY <1>10, <2>5, <2>6, SetOne DEF TypeInv, Grows, ApplyState
  <2>11. Remaining(n)' = Remaining(n) /\ Event(n)' = Event(n)
    BY <1>10, <2>3, <2>7, <2>10, SameRemaining DEF ApplyState
  <2>12. Opened(n)'
    BY <2>3, <2>7, <2>10, <2>11 DEF Opened
  <2> QED
    BY <1>10, <2>1, <2>2, <2>5, <2>6, <2>8, <2>9, <2>12, NewCheckpoint DEF ApplyState
<1>11. CASE SyncError(n)
  BY <1>4, <1>11, AbortKeepsControl DEF SyncError, durable
<1>12. CASE FinishSync(n)
  <2> DEFINE s == [session[n] EXCEPT !.step = "synced"]
  <2>1. task' = [task EXCEPT ![n] = Free] /\ UNCHANGED <<log, durable>>
    BY <1>12 DEF FinishSync, End
  <2>2. s \in SessionType /\ session' = [session EXCEPT ![n] = s]
    BY <1>2, <1>12 DEF FinishSync, SessionType
  <2>3. Free \in TaskType /\ Free.op = "free" /\ Free.pc = "free"
    BY DEF Free, TaskType
  <2>4. Progress(n, mls[n], Free, s)
    BY <2>3 DEF Progress
  <2> HIDE DEF s
  <2> QED
    BY <1>4, <2>1, <2>2, <2>3, <2>4, MoveOn
<1> QED
  BY <1>6, <1>7, <1>8, <1>9, <1>10, <1>11, <1>12

\* The live session, starting operations, and faults
LEMMA LiveKeepsControl ==
  ASSUME TypeInv, ControlInv, NEW n \in Nodes, Live(n)
  PROVE  TypeInv' /\ ControlInv'
<1>1. Roles(n, mls[n]) /\ Progress(n, mls[n], task[n], session[n]) /\ Opened(n)
  BY NodeControl
<1>2. /\ session[n] \in SessionType /\ task[n] \in TaskType
      /\ task = [task EXCEPT ![n] = task[n]] /\ mls[n] \in Checkpoint
      /\ history[n] \in SUBSET Texts /\ done[n] \in SUBSET (1 .. Len(log))
      /\ cursor[n] \in 0 .. Len(log) /\ offset[n] \in 0 .. Len(log)
      /\ session[n].end \in 0 .. Len(log) /\ Len(log) \in 0 .. Len(log)
  BY NodeFacts, SelfChange
<1>3. log' = log => Grows
  BY DEF Grows
<1>4. CASE Poll(n)
  <2> DEFINE t == [Start("sync", None) EXCEPT !.pc = IF Clean(n) THEN "events" ELSE @]
             s == [step |-> "syncing", upto |-> Len(log), end |-> Len(log)]
  <2>1. t \in TaskType /\ t.op = "sync" /\ t.pc \in {"events", "ready"}
    BY DEF Start, Free, TaskType
  <2>2. task' = [task EXCEPT ![n] = t] /\ UNCHANGED <<log, durable>>
    BY <1>4 DEF Poll
  <2>3. s \in SessionType /\ s.step = "syncing" /\ session' = [session EXCEPT ![n] = s]
    BY <1>2, <1>4 DEF Poll, Read, SessionType
  <2> HIDE DEF t, s
  <2>4. Progress(n, mls[n], t, s)
    BY <2>1, <2>3 DEF Progress
  <2> QED
    BY <1>3, <2>1, <2>2, <2>3, <2>4, MoveOn
<1>5. CASE SaveCursor(n) \/ SaveOffset(n)
  <2>1. session[n].step \in {"synced", "saved"}
    BY <1>5 DEF SaveCursor, SaveOffset
  <2>2. task[n].op # "sync" /\ task[n].pc \notin {"events", "store", "note"}
    BY <1>1, <2>1 DEF Progress
  <2>3. PICK s \in SessionType, k \in 0 .. Len(log), o \in 0 .. Len(log) :
           Change(n, mls[n], task[n], s, history[n], done[n], k, o)
    <3>1. CASE SaveCursor(n)
      <4> DEFINE s == [session[n] EXCEPT !.step = "saved"]
                 k == Max(Fetched(n) \cup {cursor[n]})
      <4>1. s \in SessionType /\ session' = [session EXCEPT ![n] = s]
        BY <1>2, <3>1 DEF SaveCursor, SessionType
      <4>2. Fetched(n) \cup {cursor[n]} \subseteq 0 .. Len(log)
        BY <1>2, FetchedFacts
      <4>3. k \in 0 .. Len(log)
        <5>1. Len(log) \in Nat /\ Fetched(n) \cup {cursor[n]} # {}
          BY NodeFacts
        <5> HIDE DEF k
        <5>2. k = Max(Fetched(n) \cup {cursor[n]})
          BY DEF k
        <5> QED
          BY <4>2, <5>1, <5>2, MaxIsGreatest
      <4>4. cursor' = [cursor EXCEPT ![n] = k]
        BY <3>1 DEF SaveCursor
      <4> HIDE DEF s, k
      <4>5. Change(n, mls[n], task[n], s, history[n], done[n], k, offset[n])
        BY <3>1, <4>1, <4>4, SelfChange DEF SaveCursor, Change
      <4> QED
        BY <1>2, <4>1, <4>3, <4>5
    <3>2. CASE SaveOffset(n)
      <4>1. Change(n, mls[n], task[n], Quiet, history[n], done[n], cursor[n], session[n].end)
        BY <3>2, SelfChange DEF SaveOffset, Change
      <4> QED
        BY <1>2, <4>1, QuietTyped
    <3> QED
      BY <1>5, <3>1, <3>2
  <2>4. Grows
    BY <1>3, <1>5 DEF SaveCursor, SaveOffset
  <2>5. task' = task
    BY <1>5 DEF SaveCursor, SaveOffset
  <2>6. Opened(n)'
    BY <2>2, <2>5 DEF Opened
  <2>7. Progress(n, mls[n], task[n], s)
    BY <1>1, <2>2 DEF Progress
  <2> QED
    BY <1>1, <1>2, <2>3, <2>4, <2>6, <2>7, ChangeKeepsControl
<1> QED
  BY <1>4, <1>5 DEF Live

LEMMA NextKeepsControl ==
  ASSUME TypeInv, ControlInv, [Next]_vars
  PROVE  TypeInv' /\ ControlInv'
<1>1. log' = log => Grows
  BY DEF Grows
<1>2. ASSUME NEW n \in Nodes, Step(n) PROVE TypeInv' /\ ControlInv'
  BY <1>2, RecoveryKeepsControl, SendKeepsControl, SyncKeepsControl DEF Step
<1>3. ASSUME NEW n \in Nodes, Live(n) PROVE TypeInv' /\ ControlInv'
  BY <1>3, LiveKeepsControl
<1>4. ASSUME NEW m \in Nodes, StartAdd(m) PROVE TypeInv' /\ ControlInv'
  <2> DEFINE t == Start("add", m)
  <2>1. Roles(Creator, mls[Creator])
    BY CreatorAssumption, NodeControl
  <2>2. m # Creator
    BY <1>4, <2>1 DEF StartAdd, Roles
  <2>3. t \in TaskType /\ t.op = "add" /\ t.pc = "ready" /\ t.id = m
    BY StartTyped
  <2>4. /\ task' = [task EXCEPT ![Creator] = t] /\ UNCHANGED <<log, durable>>
        /\ session' = [session EXCEPT ![Creator] = session[Creator]]
    BY <1>4, SelfChange, CreatorAssumption DEF StartAdd
  <2>5. session[Creator] \in SessionType
    BY CreatorAssumption, NodeFacts
  <2> HIDE DEF t
  <2>6. Progress(Creator, mls[Creator], t, session[Creator])
    BY <2>2, <2>3 DEF Progress
  <2> QED
    BY <1>1, <2>3, <2>4, <2>5, <2>6, CreatorAssumption, MoveOn
<1>5. ASSUME NEW n \in Nodes, NEW id \in Texts, StartSend(n, id) PROVE TypeInv' /\ ControlInv'
  <2> DEFINE t == Start("send", id)
  <2>1. Roles(n, mls[n])
    BY NodeControl
  <2>2. mls[n].joined
    BY <1>5, <2>1 DEF StartSend, Roles
  <2>3. t \in TaskType /\ t.op = "send" /\ t.pc = "ready" /\ t.id = id
    BY StartTyped
  <2>4. /\ task' = [task EXCEPT ![n] = t] /\ UNCHANGED <<log, durable>>
        /\ session' = [session EXCEPT ![n] = session[n]]
    BY <1>5, SelfChange DEF StartSend
  <2>5. session[n] \in SessionType
    BY NodeFacts
  <2> HIDE DEF t
  <2>6. Progress(n, mls[n], t, session[n])
    BY <2>2, <2>3 DEF Progress
  <2> QED
    BY <1>1, <2>3, <2>4, <2>5, <2>6, MoveOn
<1>6. ASSUME NEW n \in Nodes, FailSubmission(n) PROVE TypeInv' /\ ControlInv'
  BY <1>1, <1>6, AbortKeepsControl DEF FailSubmission
<1>7. ASSUME NEW n \in Nodes, LoseAnswer(n) PROVE TypeInv' /\ ControlInv'
  BY <1>7, SubmissionTyped, AbortKeepsControl DEF LoseAnswer
<1>8. ASSUME NEW n \in Nodes, Crash(n) PROVE TypeInv' /\ ControlInv'
  <2>1. /\ task' = [task EXCEPT ![n] = Start("init", None)] /\ UNCHANGED <<log, durable>>
        /\ session' = [session EXCEPT ![n] = Quiet]
    BY <1>8 DEF Crash
  <2>2. /\ Start("init", None) \in TaskType /\ Start("init", None).op = "init"
        /\ Start("init", None).pc = "ready"
    BY StartTyped
  <2>3. Progress(n, mls[n], Start("init", None), Quiet)
    BY <2>2 DEF Progress
  <2> QED
    BY <1>1, <2>1, <2>2, <2>3, QuietTyped, MoveOn
<1>9. CASE UNCHANGED vars
  <2>1. TypeInv'
    BY <1>9 DEF vars, durable, TypeInv, SessionType
  <2>2. ASSUME NEW n \in Nodes
        PROVE Roles(n, mls'[n]) /\ Progress(n, mls'[n], task'[n], session'[n]) /\ Opened(n)'
    <3>1. mls' = mls /\ task' = task /\ session' = session
      BY <1>9 DEF vars, durable
    <3>2. Opened(n)' = Opened(n)
      BY <1>9 DEF vars, durable, Opened, Event, Index, Remaining, Fetched, Visible, Handled
    <3> QED
      BY <3>1, <3>2, NodeControl
  <2> QED
    BY <2>1, <2>2 DEF ControlInv, Roles, Progress
<1> QED
  BY <1>2, <1>3, <1>4, <1>5, <1>6, <1>7, <1>8, <1>9 DEF Next

LEMMA InitControl ==
  ASSUME Init
  PROVE  TypeInv /\ ControlInv
<1>1. NoGroup \in Checkpoint /\ NewGroup \in Checkpoint
  BY CreatorAssumption DEF NoGroup, NewGroup, Checkpoint
<1>2. log = <<>> /\ Len(log) = 0 /\ log \in Seq(EventType)
  BY DEF Init
<1>3. TypeInv
  <2>1. mls \in [Nodes -> Checkpoint]
    BY <1>1 DEF Init
  <2>2. history \in [Nodes -> SUBSET Texts] /\ done \in [Nodes -> SUBSET (1 .. Len(log))]
    BY DEF Init
  <2>3. 0 \in 0 .. Len(log)
    BY <1>2
  <2>4. cursor \in [Nodes -> 0 .. Len(log)] /\ offset \in [Nodes -> 0 .. Len(log)]
    BY <2>3 DEF Init
  <2>5. task \in [Nodes -> TaskType]
    BY DEF Init, Free, TaskType
  <2>6. Quiet \in SessionType
    BY <2>3 DEF Quiet, SessionType
  <2>7. session \in [Nodes -> SessionType]
    BY <2>6 DEF Init
  <2> QED
    BY <1>2, <2>1, <2>2, <2>4, <2>5, <2>7 DEF TypeInv
<1>4. ASSUME NEW n \in Nodes
      PROVE  Roles(n, mls[n]) /\ Progress(n, mls[n], task[n], session[n]) /\ Opened(n)
  <2>1. task[n] = Free /\ Free.op = "free" /\ Free.pc = "free"
    BY DEF Init, Free
  <2>2. Progress(n, mls[n], task[n], session[n]) /\ Opened(n)
    BY <2>1 DEF Progress, Opened
  <2>3. Roles(n, NoGroup) \/ n = Creator
    BY NoneAssumption, CreatorAssumption DEF Roles, NoGroup
  <2>4. Roles(Creator, NewGroup)
    BY NoneAssumption, CreatorAssumption DEF Roles, NewGroup, NoGroup
  <2> QED
    BY <2>2, <2>3, <2>4 DEF Init
<1>5. ControlInv
  BY <1>4 DEF ControlInv
<1> QED
  BY <1>3, <1>5

LEMMA AlwaysControlled == Spec => [](TypeInv /\ ControlInv)
<1>1. Init => TypeInv /\ ControlInv
  BY InitControl
<1>2. TypeInv /\ ControlInv /\ [Next]_vars => (TypeInv /\ ControlInv)'
  BY NextKeepsControl
<1> QED
  BY <1>1, <1>2, PTL DEF Spec

\* The ledger holds well-formed events only, handshakes and group states being
\* the creator's; every installation's checkpoint, positions, operation and
\* batch keep their types, and no position is beyond the ledger.
THEOREM TypeCorrect == Spec => []TypeOK
<1>1. ASSUME TypeInv PROVE TypeOK
  <2>1. \A i \in DOMAIN log : EventOK(log[i])
    <3> SUFFICES ASSUME NEW i \in DOMAIN log PROVE EventOK(log[i])
      OBVIOUS
    <3> QED
      BY <1>1, EventFacts DEF EventOK, HandshakeType, StateType, TextType
  <2>2. DOMAIN log = 1 .. Len(log)
    BY <1>1 DEF TypeInv
  <2>3. ASSUME NEW n \in Nodes
        PROVE  /\ task[n].op \in {"free", "init", "add", "send", "sync"}
               /\ task[n].pc \in {"free", "ready", "merge", "state", "mark", "publish", "save",
                                  "events", "store", "note"}
               /\ session[n].step \in {"quiet", "syncing", "synced", "saved"}
               /\ session[n].upto \in 0 .. Len(log) /\ session[n].end \in 0 .. session[n].upto
    <3>1. task[n] \in TaskType /\ session[n] \in SessionType
      BY <1>1, NodeFacts
    <3> QED
      BY <1>1, <3>1, NodeFacts DEF TaskType, SessionType
  <2> QED
    BY <1>1, <2>1, <2>2, <2>3 DEF TypeOK, TypeInv
<1> QED
  BY <1>1, AlwaysControlled, PTL

-----------------------------------------------------------------------------
\* Nothing that was done with an event is forgotten, and positions only move
\* at the end of a sync

LEMMA NextGrows ==
  ASSUME TypeInv, ControlInv, [Next]_vars
  PROVE  Grows
<1>1. ASSUME NEW n \in Nodes, Step(n) PROVE Grows
  <2>1. CASE PublishHandshake(n) \/ PublishState(n) \/ PublishText(n)
    BY <2>1, SubmissionTyped DEF PublishHandshake, PublishState, PublishText
  <2>2. CASE log' = log
    BY <2>2 DEF Grows
  <2> QED
    BY <1>1, <2>1, <2>2
       DEF Step, Merge, EncryptState, Encrypt, Mark, FinishInit, PrepareAdd, FinishAdd,
           EncryptText, SaveText, Fetch, Join, ProcessCommit, Decrypt, StoreText, ApplyState,
           NoteState, SyncError, FinishSync
<1>2. ASSUME NEW n \in Nodes, LoseAnswer(n) PROVE Grows
  BY <1>2, SubmissionTyped DEF LoseAnswer
<1>3. CASE log' = log
  BY <1>3 DEF Grows
<1> QED
  BY <1>1, <1>2, <1>3
     DEF Next, Live, Poll, SaveCursor, SaveOffset, StartAdd, StartSend, FailSubmission, Crash, vars

Remembers(n) ==
  /\ mls[n].processed \subseteq mls'[n].processed
  /\ history[n] \subseteq history'[n]
  /\ done[n] \subseteq done'[n]

LEMMA NextRemembers ==
  ASSUME TypeInv, [Next]_vars, NEW k \in Nodes
  PROVE  Remembers(k)
<1>1. /\ mls \in [Nodes -> Checkpoint] /\ mls[k] \in Checkpoint
      /\ history \in [Nodes -> SUBSET Texts] /\ done \in [Nodes -> SUBSET (1 .. Len(log))]
  BY DEF TypeInv
<1>2. CASE UNCHANGED <<mls, history, done>>
  BY <1>2 DEF Remembers
<1>3. ASSUME NEW n \in Nodes, Step(n) PROVE Remembers(k)
  <2>1. CASE Merge(n)
    BY <1>1, <2>1 DEF Merge, EnterEpoch, Checkpoint, Remembers
  <2>2. CASE EncryptState(n) \/ EncryptText(n)
    BY <1>1, <2>2, SMTT(60) DEF EncryptState, EncryptText, Encrypt, Checkpoint, Remembers
  <2>3. CASE Mark(n)
    BY <1>1, <2>3 DEF Mark, Checkpoint, Remembers
  <2>4. CASE PrepareAdd(n)
    BY <1>1, <2>4 DEF PrepareAdd, Checkpoint, Remembers
  <2>5. CASE Join(n)
    BY <1>1, <2>5 DEF Join, EnterEpoch, Checkpoint, Remembers
  <2>6. CASE ProcessCommit(n)
    BY <1>1, <2>6 DEF ProcessCommit, EnterEpoch, Checkpoint, Remembers
  <2>7. CASE Decrypt(n)
    BY <1>1, <2>7 DEF Decrypt, Checkpoint, Remembers
  <2>8. CASE ApplyState(n)
    BY <1>1, <2>8 DEF ApplyState, Checkpoint, Remembers
  <2>9. CASE SaveText(n) \/ StoreText(n)
    BY <1>1, <2>9 DEF SaveText, StoreText, Remembers
  <2>10. CASE NoteState(n)
    BY <1>1, <2>10 DEF NoteState, Remembers
  <2> QED
    BY <1>2, <1>3, <2>1, <2>2, <2>3, <2>4, <2>5, <2>6, <2>7, <2>8, <2>9, <2>10
       DEF Step, PublishHandshake, PublishState, PublishText, FinishInit, FinishAdd, Fetch,
           SyncError, FinishSync, durable
<1> QED
  BY <1>2, <1>3
     DEF Next, Live, Poll, SaveCursor, SaveOffset, StartAdd, StartSend, FailSubmission,
         LoseAnswer, Crash, vars, durable

\* A position moves only when a batch is saved; a batch ends only with a sync.
LEMMA NextPositions ==
  ASSUME TypeInv, [Next]_vars, NEW k \in Nodes
  PROVE  \/ FinishSync(k) \/ SaveCursor(k) \/ SaveOffset(k)
         \/ /\ cursor'[k] = cursor[k] /\ offset'[k] = offset[k]
            /\ session'[k] = session[k] \/ session'[k].step \in {"quiet", "syncing"}
<1>1. /\ session \in [Nodes -> SessionType] /\ session[k] \in SessionType
      /\ cursor \in [Nodes -> 0 .. Len(log)] /\ offset \in [Nodes -> 0 .. Len(log)]
  BY DEF TypeInv
<1>2. CASE UNCHANGED <<cursor, offset, session>>
  BY <1>2
<1>3. ASSUME NEW n \in Nodes, UNCHANGED <<cursor, offset>>, NEW s,
             session' = [session EXCEPT ![n] = s], s.step \in {"quiet", "syncing"}
      PROVE  /\ cursor'[k] = cursor[k] /\ offset'[k] = offset[k]
             /\ session'[k] = session[k] \/ session'[k].step \in {"quiet", "syncing"}
  BY <1>1, <1>3
<1>4. ASSUME NEW n \in Nodes, UNCHANGED <<cursor, offset>>, Abort(n)
      PROVE  /\ cursor'[k] = cursor[k] /\ offset'[k] = offset[k]
             /\ session'[k] = session[k] \/ session'[k].step \in {"quiet", "syncing"}
  <2>1. Quiet.step = "quiet"
    BY DEF Quiet
  <2> QED
    BY <1>1, <1>4, <2>1 DEF Abort
<1>5. ASSUME NEW n \in Nodes, NEW end, Read(n, end), UNCHANGED <<cursor, offset>>
      PROVE  /\ cursor'[k] = cursor[k] /\ offset'[k] = offset[k]
             /\ session'[k] = session[k] \/ session'[k].step \in {"quiet", "syncing"}
  BY <1>3, <1>5 DEF Read
<1>6. ASSUME NEW n \in Nodes, n # k, FinishSync(n) \/ SaveCursor(n) \/ SaveOffset(n)
      PROVE  cursor'[k] = cursor[k] /\ offset'[k] = offset[k] /\ session'[k] = session[k]
  BY <1>1, <1>6 DEF FinishSync, SaveCursor, SaveOffset, durable
<1>7. ASSUME NEW n \in Nodes, Step(n) \/ Live(n)
      PROVE  \/ UNCHANGED <<cursor, offset, session>>
             \/ UNCHANGED <<cursor, offset>> /\ (Abort(n) \/ \E end : Read(n, end))
             \/ FinishSync(n) \/ SaveCursor(n) \/ SaveOffset(n)
  BY <1>7
     DEF Step, Live, PublishHandshake, Merge, EncryptState, Encrypt, PublishState, Mark,
         FinishInit, PrepareAdd, FinishAdd, EncryptText, PublishText, SaveText, Fetch, Join,
         ProcessCommit, Decrypt, StoreText, ApplyState, NoteState, SyncError, Poll, durable
<1>8. ASSUME NEW n \in Nodes, Step(n) \/ Live(n)
      PROVE  \/ FinishSync(k) \/ SaveCursor(k) \/ SaveOffset(k)
             \/ /\ cursor'[k] = cursor[k] /\ offset'[k] = offset[k]
                /\ session'[k] = session[k] \/ session'[k].step \in {"quiet", "syncing"}
  BY <1>2, <1>4, <1>5, <1>6, <1>7, <1>8
<1>9. ASSUME NEW n \in Nodes, Crash(n)
      PROVE  /\ cursor'[k] = cursor[k] /\ offset'[k] = offset[k]
             /\ session'[k] = session[k] \/ session'[k].step \in {"quiet", "syncing"}
  BY <1>3, <1>9 DEF Crash, durable, Quiet
<1>10. ASSUME NEW n \in Nodes, FailSubmission(n) \/ LoseAnswer(n)
       PROVE  /\ cursor'[k] = cursor[k] /\ offset'[k] = offset[k]
              /\ session'[k] = session[k] \/ session'[k].step \in {"quiet", "syncing"}
  BY <1>4, <1>10 DEF FailSubmission, LoseAnswer, durable
<1>11. ASSUME NEW n \in Nodes, StartAdd(n) \/ (\E id \in Texts : StartSend(n, id))
       PROVE  UNCHANGED <<cursor, offset, session>>
  BY <1>11 DEF StartAdd, StartSend, durable
<1>12. CASE UNCHANGED vars
  BY <1>2, <1>12 DEF vars, durable
<1> QED
  BY <1>2, <1>8, <1>9, <1>10, <1>11, <1>12 DEF Next

LEMMA NextKeepsSync ==
  ASSUME TypeInv, ControlInv, SyncInv, [Next]_vars
  PROVE  SyncInv'
<1> DEFINE Done(k, i) == Visible(k, i) => Handled(k, i)
<1>1. Grows /\ Len(log) \in Nat /\ Len(log)' \in Nat
  BY NextGrows, GrowFacts
<1>2. ASSUME NEW k \in Nodes, NEW i \in 1 .. Len(log), Done(k, i)
      PROVE  Done(k, i)'
  <2>1. Remembers(k)
    BY NextRemembers
  <2> QED
    BY <1>1, <1>2, <2>1, VisibleStays, HandledStays DEF Remembers
<1>3. ASSUME NEW k \in Nodes
      PROVE  /\ \A i \in 1 .. Len(log) : i <= cursor'[k] \/ i <= offset'[k] => Done(k, i)
             /\ cursor'[k] <= Len(log) /\ offset'[k] <= Len(log)
             /\ session'[k].step \in {"synced", "saved"} =>
                  /\ session'[k].upto \in 0 .. Len(log)
                  /\ \A i \in 1 .. session'[k].upto : Done(k, i)
  <2>1. /\ cursor[k] \in 0 .. Len(log) /\ offset[k] \in 0 .. Len(log)
        /\ session[k].upto \in 0 .. Len(log) /\ session[k] \in SessionType
        /\ session[k].end \in 0 .. session[k].upto
    BY NodeFacts
  <2>2. /\ session \in [Nodes -> SessionType]
        /\ cursor \in [Nodes -> 0 .. Len(log)] /\ offset \in [Nodes -> 0 .. Len(log)]
    BY DEF TypeInv
  <2>3. \A i \in 1 .. Len(log) : i <= cursor[k] \/ i <= offset[k] => Done(k, i)
    BY DEF SyncInv, NothingMissed
  <2>4. session[k].step \in {"synced", "saved"} => \A i \in 1 .. session[k].upto : Done(k, i)
    BY DEF SyncInv
  <2>5. CASE FinishSync(k)
    <3>1. Remaining(k) = {} /\ cursor'[k] = cursor[k] /\ offset'[k] = offset[k]
      BY <2>5 DEF FinishSync, durable
    <3>2. session'[k].upto = session[k].upto
      BY <2>1, <2>2, <2>5 DEF FinishSync, SessionType
    <3>3. ASSUME NEW i \in 1 .. session[k].upto PROVE Done(k, i)
      <4>1. CASE i <= cursor[k]
        BY <2>1, <2>3, <4>1
      <4>2. CASE ~(i <= cursor[k])
        <5>1. i \in cursor[k] + 1 .. session[k].upto
          BY <2>1, <4>2
        <5> QED
          BY <3>1, <5>1 DEF Remaining, Fetched
      <4> QED
        BY <4>1, <4>2
    <3> HIDE DEF Done
    <3> QED
      BY <2>1, <2>3, <3>1, <3>2, <3>3
  <2>6. CASE SaveCursor(k)
    <3>1. session[k].step = "synced" /\ offset'[k] = offset[k]
      BY <2>6 DEF SaveCursor
    <3>2. session'[k].upto = session[k].upto
      BY <2>1, <2>2, <2>6 DEF SaveCursor, SessionType
    <3>3. cursor'[k] = Max(Fetched(k) \cup {cursor[k]})
      BY <2>2, <2>6 DEF SaveCursor
    <3>4. Fetched(k) \cup {cursor[k]} \subseteq 0 .. Len(log)
      BY <2>1, FetchedFacts
    <3>5. cursor'[k] \in Fetched(k) \cup {cursor[k]}
      BY <1>1, <3>3, <3>4, MaxIsGreatest
    <3>6. cursor'[k] = cursor[k] \/ cursor'[k] \in cursor[k] + 1 .. session[k].upto
      BY <3>5 DEF Fetched
    <3> HIDE DEF Done
    <3> QED
      BY <2>1, <2>3, <2>4, <3>1, <3>2, <3>6
  <2>7. CASE SaveOffset(k)
    <3>1. /\ session[k].step = "saved" /\ cursor'[k] = cursor[k] /\ offset'[k] = session[k].end
      BY <2>2, <2>7 DEF SaveOffset
    <3>2. session'[k].step = "quiet"
      BY <2>2, <2>7 DEF SaveOffset, Quiet
    <3> HIDE DEF Done
    <3> QED
      BY <2>1, <2>3, <2>4, <3>1, <3>2
  <2>8. CASE /\ cursor'[k] = cursor[k] /\ offset'[k] = offset[k]
             /\ session'[k] = session[k] \/ session'[k].step \in {"quiet", "syncing"}
    <3> HIDE DEF Done
    <3> QED
      BY <2>1, <2>3, <2>4, <2>8
  <2> QED
    BY <2>5, <2>6, <2>7, <2>8, NextPositions
<1>4. NothingMissed'
  <2> SUFFICES ASSUME NEW k \in Nodes, NEW i \in (1 .. Len(log))',
                      i <= cursor'[k] \/ i <= offset'[k]
               PROVE  Done(k, i)'
    BY DEF NothingMissed
  <2>1. cursor'[k] <= Len(log) /\ offset'[k] <= Len(log)
    BY <1>3
  <2>2. TypeInv'
    BY NextKeepsControl
  <2>3. cursor'[k] \in Int /\ offset'[k] \in Int
    BY <2>2 DEF TypeInv
  <2>4. i \in 1 .. Len(log)
    BY <1>1, <2>1, <2>3
  <2> QED
    BY <1>2, <1>3, <2>4
<1>5. ASSUME NEW k \in Nodes, session'[k].step \in {"synced", "saved"},
             NEW i \in 1 .. session'[k].upto
      PROVE  Done(k, i)'
  <2>1. i \in 1 .. Len(log) /\ Done(k, i)
    <3> HIDE DEF Done
    <3> QED
      BY <1>1, <1>3, <1>5
  <2> QED
    BY <1>2, <2>1
<1> QED
  BY <1>4, <1>5 DEF SyncInv

\* Neither persisted position of an installation, the message cursor and the
\* ledger offset, is ever ahead of what was really done: every event up to
\* either was joined, processed or stored, whatever failed or crashed between.
THEOREM NothingIsMissed == Spec => []NothingMissed
<1>1. Init => SyncInv
  <2> SUFFICES ASSUME Init PROVE SyncInv
    OBVIOUS
  <2>1. Len(log) = 0 /\ \A n \in Nodes : session[n].step = "quiet"
    BY DEF Init, Quiet
  <2> QED
    BY <2>1 DEF SyncInv, NothingMissed
<1>2. TypeInv /\ ControlInv /\ SyncInv /\ [Next]_vars => SyncInv'
  BY NextKeepsSync
<1>3. SyncInv => NothingMissed
  BY DEF SyncInv
<1> QED
  BY <1>1, <1>2, <1>3, AlwaysControlled, PTL DEF Spec

-----------------------------------------------------------------------------
\* What a step of n means for the group: its epochs, its members and its keys

OthersStay(n) == \A j \in Nodes \ {n} : mls'[j] = mls[j] /\ task'[j] = task[j]

SameEpoch(n) ==
  /\ log' = log
  /\ mls'[n].joined = mls[n].joined
  /\ mls'[n].epoch = mls[n].epoch

Rests(n) ==
  /\ SameEpoch(n)
  /\ mls'[n].gen = mls[n].gen /\ mls'[n].roster = mls[n].roster
  /\ mls'[n].pending = mls[n].pending
  /\ task'[n].pc \in {task[n].pc, "free", "ready", "events", "store"}

Adds(n) ==
  /\ n = Creator /\ SameEpoch(n)
  /\ mls'[n].gen = mls[n].gen /\ mls'[n].roster = mls[n].roster
  /\ mls[n].pending = None /\ mls'[n].pending # None
  /\ task[n].pc = "ready" /\ task'[n].pc = "ready"

Announces(n) ==
  /\ n = Creator /\ SubmitHandshake(n)
  /\ mls'[n] = mls[n]
  /\ task'[n].pc \in {"merge", "free", "ready"}

Commits(n) ==
  /\ n = Creator /\ log' = log
  /\ task[n].pc = "merge" /\ mls[n].pending # None
  /\ mls'[n].joined = mls[n].joined
  /\ mls'[n].epoch = mls[n].epoch + 1 /\ mls'[n].gen = 0
  /\ mls'[n].roster = mls[n].roster \cup {mls[n].pending} /\ mls'[n].pending = None
  /\ task'[n].pc = "ready"

Encrypts(n) ==
  /\ SameEpoch(n)
  /\ mls'[n].gen = mls[n].gen + 1
  /\ mls'[n].roster = mls[n].roster /\ mls'[n].pending = mls[n].pending
  /\ task[n].pc = "ready" /\ task'[n].pc \in {"state", "publish"}

Publishes(n) ==
  /\ (SubmitState(n) /\ n = Creator) \/ SubmitText(n)
  /\ mls'[n] = mls[n] /\ mls[n].joined /\ mls[n].gen >= 1
  /\ task'[n].pc \in {"mark", "save", "free", "ready"}

Enters(n) ==
  /\ n # Creator /\ log' = log
  /\ \E i \in Handshakes : mls'[n].epoch = log[i].epoch
  /\ ~mls[n].joined \/ mls'[n].epoch = mls[n].epoch + 1
  /\ mls'[n].joined /\ mls'[n].roster = mls[n].roster
  /\ task'[n].pc = "events"

Learns(n) ==
  /\ n # Creator /\ SameEpoch(n)
  /\ mls'[n].gen = mls[n].gen
  /\ \E i \in Ciphertexts :
       /\ log[i].kind = "state" /\ log[i].epoch = mls[n].epoch
       /\ mls'[n].roster = log[i].body
  /\ task'[n].pc = "note"

Moves(n) ==
  \/ Rests(n) \/ Adds(n) \/ Announces(n) \/ Commits(n)
  \/ Encrypts(n) \/ Publishes(n) \/ Enters(n) \/ Learns(n)

\* A step of the task of n and one of its checkpoint leave the others alone.
LEMMA TaskSet ==
  ASSUME TypeInv, NEW n \in Nodes, NEW t, task' = [task EXCEPT ![n] = t]
  PROVE  task'[n] = t /\ \A j \in Nodes \ {n} : task'[j] = task[j]
BY DEF TypeInv

LEMMA CheckpointSet ==
  ASSUME TypeInv, NEW n \in Nodes, NEW m, mls' = [mls EXCEPT ![n] = m]
  PROVE  mls'[n] = m /\ \A j \in Nodes \ {n} : mls'[j] = mls[j]
BY DEF TypeInv

LEMMA GoToSet ==
  ASSUME TypeInv, NEW n \in Nodes,
         NEW pc \in {"free", "ready", "merge", "state", "mark", "publish", "save", "events",
                     "store", "note"},
         GoTo(n, pc)
  PROVE  task'[n].pc = pc /\ \A j \in Nodes \ {n} : task'[j] = task[j]
<1> DEFINE t == [task[n] EXCEPT !.pc = pc]
<1>1. t.pc = pc /\ task' = [task EXCEPT ![n] = t]
  BY GoToTyped, ZenonT(60)
<1> HIDE DEF t
<1> QED
  BY <1>1, TaskSet

LEMMA EndSet ==
  ASSUME TypeInv, NEW n \in Nodes, End(n)
  PROVE  task'[n].pc = "free" /\ \A j \in Nodes \ {n} : task'[j] = task[j]
<1>1. Free.pc = "free" /\ task' = [task EXCEPT ![n] = Free]
  BY DEF End, Free
<1> QED
  BY <1>1, TaskSet

LEMMA AbortSet ==
  ASSUME TypeInv, ControlInv, NEW n \in Nodes, Abort(n)
  PROVE  task'[n].pc \in {"free", "ready"} /\ \A j \in Nodes \ {n} : task'[j] = task[j]
<1>1. PICK t \in TaskType, s \in SessionType :
           /\ task' = [task EXCEPT ![n] = t]
           /\ t.pc \in {"free", "ready"}
  BY AbortTyped
<1> QED
  BY <1>1, TaskSet

LEMMA StepMoves ==
  ASSUME TypeInv, ControlInv, NEW n \in Nodes, Step(n)
  PROVE  OthersStay(n) /\ Moves(n)
<1>1. Roles(n, mls[n]) /\ Progress(n, mls[n], task[n], session[n]) /\ Opened(n)
  BY NodeControl
<1>2. /\ mls[n] \in Checkpoint /\ mls[n].epoch \in Nat /\ mls[n].gen \in Nat
      /\ mls \in [Nodes -> Checkpoint]
  BY Fields DEF TypeInv
<1>3. CASE PublishHandshake(n)
  <2>1. n = Creator /\ mls' = mls
    BY <1>1, <1>3 DEF PublishHandshake, SubmitHandshake, Roles, durable
  <2> QED
    BY <1>3, <2>1, GoToSet DEF PublishHandshake, OthersStay, Moves, Announces
<1>4. CASE Merge(n)
  <2>1. n = Creator /\ task[n].pc = "merge" /\ mls[n].pending # None
    BY <1>1, <1>4 DEF Merge, At, Roles, Progress
  <2>2. /\ mls'[n] = [EnterEpoch(mls[n], mls[n].epoch + 1) EXCEPT
                        !.roster = mls[n].roster \cup {mls[n].pending},
                        !.pending = None, !.unpublished = TRUE]
        /\ \A j \in Nodes \ {n} : mls'[j] = mls[j]
    BY <1>2, <1>4 DEF Merge
  <2>3. /\ mls'[n].joined = mls[n].joined
        /\ mls'[n].epoch = mls[n].epoch + 1 /\ mls'[n].gen = 0
        /\ mls'[n].roster = mls[n].roster \cup {mls[n].pending} /\ mls'[n].pending = None
    BY <1>2, <2>2 DEF EnterEpoch, Checkpoint
  <2>4. task'[n].pc = "ready" /\ \A j \in Nodes \ {n} : task'[j] = task[j]
    BY <1>4, GoToSet DEF Merge
  <2>5. log' = log
    BY <1>4 DEF Merge
  <2> QED
    BY <2>1, <2>2, <2>3, <2>4, <2>5 DEF OthersStay, Moves, Commits
<1>5. CASE EncryptState(n) \/ EncryptText(n)
  <2>1. PICK pc \in {"state", "publish"} : Encrypt(n, pc)
    BY <1>5 DEF EncryptState, EncryptText
  <2>2. task[n].pc = "ready"
    BY <1>5 DEF EncryptState, EncryptText, Recovered, At
  <2>3. /\ mls'[n] = [mls[n] EXCEPT !.gen = mls[n].gen + 1]
        /\ \A j \in Nodes \ {n} : mls'[j] = mls[j]
    BY <1>2, <2>1 DEF Encrypt
  <2>4. /\ mls'[n].joined = mls[n].joined
        /\ mls'[n].epoch = mls[n].epoch /\ mls'[n].gen = mls[n].gen + 1
        /\ mls'[n].roster = mls[n].roster /\ mls'[n].pending = mls[n].pending
    BY <1>2, <2>3 DEF Checkpoint
  <2>5. task'[n].pc = pc /\ \A j \in Nodes \ {n} : task'[j] = task[j]
    BY <2>1, GoToSet DEF Encrypt
  <2>6. log' = log
    BY <2>1 DEF Encrypt
  <2> QED
    BY <2>2, <2>3, <2>4, <2>5, <2>6 DEF OthersStay, Moves, Encrypts, SameEpoch
<1>6. CASE PublishState(n)
  <2>1. n = Creator /\ mls[n].gen >= 1 /\ mls[n].joined /\ mls' = mls
    BY <1>1, <1>6 DEF PublishState, SubmitState, At, Progress, Roles, durable
  <2> QED
    BY <1>6, <2>1, GoToSet DEF PublishState, OthersStay, Moves, Publishes
<1>7. CASE PublishText(n)
  <2>1. mls[n].gen >= 1 /\ mls[n].joined /\ mls' = mls
    BY <1>1, <1>7 DEF PublishText, SubmitText, At, Progress, durable
  <2> QED
    BY <1>7, <2>1, GoToSet DEF PublishText, OthersStay, Moves, Publishes
<1>8. CASE Mark(n) \/ Decrypt(n)
  <2>1. /\ mls'[n].joined = mls[n].joined
        /\ mls'[n].epoch = mls[n].epoch /\ mls'[n].gen = mls[n].gen
        /\ mls'[n].roster = mls[n].roster /\ mls'[n].pending = mls[n].pending
        /\ \A j \in Nodes \ {n} : mls'[j] = mls[j]
    BY <1>2, <1>8 DEF Mark, Decrypt, Checkpoint
  <2>2. task'[n].pc \in {"ready", "store"} /\ \A j \in Nodes \ {n} : task'[j] = task[j]
    BY <1>8, GoToSet DEF Mark, Decrypt
  <2>3. log' = log
    BY <1>8 DEF Mark, Decrypt
  <2> QED
    BY <2>1, <2>2, <2>3 DEF OthersStay, Moves, Rests, SameEpoch
<1>9. CASE PrepareAdd(n)
  <2>1. n = Creator /\ task[n].id # None /\ task[n].pc = "ready" /\ mls[n].pending = None
    BY <1>1, <1>9, NoneAssumption DEF PrepareAdd, Recovered, Clean, At, Progress
  <2>2. /\ mls'[n].joined = mls[n].joined
        /\ mls'[n].epoch = mls[n].epoch /\ mls'[n].gen = mls[n].gen
        /\ mls'[n].roster = mls[n].roster /\ mls'[n].pending = task[n].id
        /\ \A j \in Nodes \ {n} : mls'[j] = mls[j]
    BY <1>2, <1>9 DEF PrepareAdd, Checkpoint
  <2>3. log' = log /\ task' = task
    BY <1>9 DEF PrepareAdd
  <2> QED
    BY <2>1, <2>2, <2>3 DEF OthersStay, Moves, Adds, SameEpoch
<1>10. CASE FinishInit(n) \/ FinishAdd(n) \/ SaveText(n) \/ FinishSync(n)
  <2>1. End(n) /\ log' = log /\ mls' = mls
    BY <1>10 DEF FinishInit, FinishAdd, SaveText, FinishSync, durable
  <2> QED
    BY <2>1, EndSet DEF OthersStay, Moves, Rests, SameEpoch
<1>11. CASE Fetch(n) \/ StoreText(n) \/ NoteState(n)
  <2>1. GoTo(n, "events") /\ log' = log /\ mls' = mls
    BY <1>11 DEF Fetch, StoreText, NoteState, durable
  <2> QED
    BY <2>1, GoToSet DEF OthersStay, Moves, Rests, SameEpoch
<1>12. CASE SyncError(n)
  <2>1. Abort(n) /\ log' = log /\ mls' = mls
    BY <1>12 DEF SyncError, durable
  <2>2. task'[n].pc \in {"free", "ready"} /\ \A j \in Nodes \ {n} : task'[j] = task[j]
    BY <2>1, AbortSet
  <2> QED
    BY <2>1, <2>2 DEF OthersStay, Moves, Rests, SameEpoch
<1>13. CASE Join(n) \/ ProcessCommit(n)
  <2>1. task[n].pc = "events" /\ Remaining(n) # {} /\ Event(n).kind = "handshake"
    BY <1>13 DEF Join, ProcessCommit, Processing, At, CanJoin, CanCommit
  <2>2. n # Creator /\ Index(n) \in DOMAIN log /\ Event(n) = log[Index(n)]
    BY <2>1, EventInProcess
  <2>3. Index(n) \in Handshakes
    BY <2>1, <2>2 DEF Handshakes
  <2>4. /\ mls'[n].epoch = Event(n).epoch /\ mls'[n].roster = mls[n].roster
        /\ \A j \in Nodes \ {n} : mls'[j] = mls[j]
    <3>1. CASE Join(n)
      BY <1>2, <3>1 DEF Join, EnterEpoch, Checkpoint
    <3>2. CASE ProcessCommit(n)
      BY <1>2, <3>2 DEF ProcessCommit, EnterEpoch, Checkpoint
    <3> QED
      BY <1>13, <3>1, <3>2
  <2>5. mls'[n].joined
    <3>1. CASE Join(n)
      BY <1>2, <3>1 DEF Join, EnterEpoch, Checkpoint
    <3>2. CASE ProcessCommit(n)
      <4>1. mls[n].joined /\ mls'[n].joined = mls[n].joined
        BY <1>2, <3>2 DEF ProcessCommit, CanCommit, EnterEpoch, Checkpoint
      <4> QED
        BY <4>1
    <3> QED
      BY <1>13, <3>1, <3>2
  <2>6. ~mls[n].joined \/ Event(n).epoch = mls[n].epoch + 1
    BY <1>13 DEF Join, ProcessCommit, CanJoin, CanCommit
  <2>7. log' = log /\ task' = task
    BY <1>13 DEF Join, ProcessCommit
  <2> QED
    BY <2>1, <2>2, <2>3, <2>4, <2>5, <2>6, <2>7 DEF OthersStay, Moves, Enters
<1>14. CASE ApplyState(n)
  <2>1. Remaining(n) # {} /\ Event(n).kind = "state" /\ Event(n).epoch = mls[n].epoch
    BY <1>1, <1>14 DEF ApplyState, At, Opened
  <2>2. n # Creator /\ Index(n) \in DOMAIN log /\ Event(n) = log[Index(n)]
    BY <2>1, EventInProcess
  <2>3. Index(n) \in Ciphertexts
    BY <2>1, <2>2 DEF Handshakes, Ciphertexts
  <2>4. /\ mls'[n].roster = Event(n).body
        /\ mls'[n].joined = mls[n].joined
        /\ mls'[n].epoch = mls[n].epoch /\ mls'[n].gen = mls[n].gen
        /\ \A j \in Nodes \ {n} : mls'[j] = mls[j]
    BY <1>2, <1>14 DEF ApplyState, Checkpoint
  <2>5. task'[n].pc = "note" /\ \A j \in Nodes \ {n} : task'[j] = task[j]
    BY <1>14, GoToSet DEF ApplyState
  <2>6. log' = log
    BY <1>14 DEF ApplyState
  <2> QED
    BY <2>1, <2>2, <2>3, <2>4, <2>5, <2>6 DEF OthersStay, Moves, Learns, SameEpoch
<1> QED
  BY <1>3, <1>4, <1>5, <1>6, <1>7, <1>8, <1>9, <1>10, <1>11, <1>12, <1>13, <1>14 DEF Step

LEMMA NextMoves ==
  ASSUME TypeInv, ControlInv, [Next]_vars
  PROVE  \E n \in Nodes : OthersStay(n) /\ Moves(n)
<1>1. ASSUME NEW n \in Nodes, log' = log, mls' = mls, NEW t,
             task' = [task EXCEPT ![n] = t], t.pc \in {"free", "ready", "events"}
      PROVE  OthersStay(n) /\ Moves(n)
  BY <1>1, TaskSet DEF OthersStay, Moves, Rests, SameEpoch
<1>2. ASSUME log' = log, mls' = mls, task' = task
      PROVE  OthersStay(Creator) /\ Moves(Creator)
  BY <1>2, CreatorAssumption DEF OthersStay, Moves, Rests, SameEpoch
<1>3. ASSUME NEW n \in Nodes, Poll(n) PROVE OthersStay(n) /\ Moves(n)
  <2> DEFINE t == [Start("sync", None) EXCEPT !.pc = IF Clean(n) THEN "events" ELSE @]
  <2>1. t.pc \in {"events", "ready"}
    BY DEF Start, Free
  <2>2. task' = [task EXCEPT ![n] = t] /\ log' = log /\ mls' = mls
    BY <1>3 DEF Poll, durable
  <2> HIDE DEF t
  <2> QED
    BY <1>1, <2>1, <2>2
<1>4. ASSUME NEW op \in {"init", "add", "send", "sync"}, NEW id
      PROVE  Start(op, id).pc = "ready"
  BY DEF Start, Free
<1>5. ASSUME NEW m \in Nodes, StartAdd(m) PROVE OthersStay(Creator) /\ Moves(Creator)
  BY <1>1, <1>4, <1>5, CreatorAssumption DEF StartAdd, durable
<1>6. ASSUME NEW n \in Nodes, NEW id \in Texts, StartSend(n, id) PROVE OthersStay(n) /\ Moves(n)
  BY <1>1, <1>4, <1>6 DEF StartSend, durable
<1>7. ASSUME NEW n \in Nodes, Crash(n) PROVE OthersStay(n) /\ Moves(n)
  BY <1>1, <1>4, <1>7 DEF Crash, durable
<1>8. ASSUME NEW n \in Nodes, FailSubmission(n) PROVE OthersStay(n) /\ Moves(n)
  <2>1. Abort(n) /\ log' = log /\ mls' = mls
    BY <1>8 DEF FailSubmission, durable
  <2>2. task'[n].pc \in {"free", "ready"} /\ \A j \in Nodes \ {n} : task'[j] = task[j]
    BY <2>1, AbortSet
  <2> QED
    BY <2>1, <2>2 DEF OthersStay, Moves, Rests, SameEpoch
<1>9. ASSUME NEW n \in Nodes, LoseAnswer(n) PROVE OthersStay(n) /\ Moves(n)
  <2>1. mls' = mls /\ (SubmitHandshake(n) \/ SubmitState(n) \/ SubmitText(n))
    BY <1>9 DEF LoseAnswer, durable
  <2>2. task'[n].pc \in {"free", "ready"} /\ \A j \in Nodes \ {n} : task'[j] = task[j]
    BY <1>9, AbortSet DEF LoseAnswer
  <2>3. Roles(n, mls[n]) /\ Progress(n, mls[n], task[n], session[n])
    BY NodeControl
  <2>4. SubmitHandshake(n) => Announces(n)
    BY <2>1, <2>2, <2>3 DEF SubmitHandshake, Roles, Announces
  <2>5. SubmitState(n) => Publishes(n)
    BY <2>1, <2>2, <2>3 DEF SubmitState, At, Progress, Roles, Publishes
  <2>6. SubmitText(n) => Publishes(n)
    BY <2>1, <2>2, <2>3 DEF SubmitText, At, Progress, Publishes
  <2> QED
    BY <2>1, <2>2, <2>4, <2>5, <2>6 DEF OthersStay, Moves
<1>10. CASE \E n \in Nodes : SaveCursor(n) \/ SaveOffset(n)
  BY <1>2, <1>10, CreatorAssumption DEF SaveCursor, SaveOffset
<1>11. CASE UNCHANGED vars
  BY <1>2, <1>11, CreatorAssumption DEF vars, durable
<1> QED
  BY <1>3, <1>5, <1>6, <1>7, <1>8, <1>9, <1>10, <1>11, StepMoves, CreatorAssumption DEF Next, Live

-----------------------------------------------------------------------------
\* Epochs

LEMMA HandshakesAreFinite ==
  ASSUME TypeInv
  PROVE  /\ Handshakes \subseteq 1 .. Len(log) /\ IsFiniteSet(Handshakes)
         /\ LastEpoch \in Nat
         /\ \A i : LET S == {j \in Handshakes : j <= i}
                   IN  IsFiniteSet(S) /\ Cardinality(S) \in Nat /\ Cardinality(S) <= LastEpoch
<1>1. Len(log) \in Nat /\ DOMAIN log = 1 .. Len(log)
  BY DEF TypeInv
<1>2. Handshakes \subseteq 1 .. Len(log)
  BY <1>1 DEF Handshakes
<1>3. IsFiniteSet(1 .. Len(log))
  BY <1>1, FS_Interval
<1>4. IsFiniteSet(Handshakes)
  BY <1>2, <1>3, FS_Subset
<1>5. LastEpoch \in Nat
  BY <1>4, FS_CardinalityType DEF LastEpoch
<1>6. ASSUME NEW i
      PROVE  LET S == {j \in Handshakes : j <= i}
             IN  IsFiniteSet(S) /\ Cardinality(S) \in Nat /\ Cardinality(S) <= LastEpoch
  <2> DEFINE S == {j \in Handshakes : j <= i}
  <2>1. S \in SUBSET Handshakes
    OBVIOUS
  <2> HIDE DEF S
  <2>2. IsFiniteSet(S) /\ Cardinality(S) <= Cardinality(Handshakes)
    BY <1>4, <2>1, FS_Subset
  <2>3. Cardinality(S) \in Nat
    BY <2>2, FS_CardinalityType
  <2> QED
    BY <2>2, <2>3 DEF LastEpoch, S
<1> QED
  BY <1>2, <1>4, <1>5, <1>6

\* A ciphertext changes no epoch; a handshake opens the next one.
LEMMA CiphertextAppended ==
  ASSUME TypeInv, NEW e, e.kind # "handshake", log' = Append(log, e)
  PROVE  /\ Handshakes' = Handshakes /\ LastEpoch' = LastEpoch
         /\ \A i \in 1 .. Len(log) : log'[i] = log[i]
         /\ Len(log)' = Len(log) + 1 /\ log'[Len(log) + 1] = e
         /\ Ciphertexts' = Ciphertexts \cup {Len(log) + 1}
<1>1. /\ Len(log) \in Nat /\ DOMAIN log = 1 .. Len(log)
      /\ Len(log)' = Len(log) + 1 /\ DOMAIN log' = 1 .. Len(log) + 1
      /\ log'[Len(log) + 1] = e /\ \A i \in 1 .. Len(log) : log'[i] = log[i]
  BY DEF TypeInv
<1>2. Handshakes' = Handshakes
  BY <1>1 DEF Handshakes
<1>3. Ciphertexts' = Ciphertexts \cup {Len(log) + 1}
  BY <1>1, <1>2 DEF Ciphertexts, Handshakes
<1> QED
  BY <1>1, <1>2, <1>3 DEF LastEpoch

LEMMA HandshakeAppended ==
  ASSUME TypeInv, NEW e, e.kind = "handshake", log' = Append(log, e)
  PROVE  /\ Handshakes' = Handshakes \cup {Len(log) + 1} /\ LastEpoch' = LastEpoch + 1
         /\ \A i \in 1 .. Len(log) : log'[i] = log[i]
         /\ Len(log)' = Len(log) + 1 /\ log'[Len(log) + 1] = e
         /\ Ciphertexts' = Ciphertexts
         /\ \A i \in Handshakes : {j \in Handshakes' : j <= i} = {j \in Handshakes : j <= i}
         /\ {j \in Handshakes' : j <= Len(log) + 1} = Handshakes'
<1>1. /\ Len(log) \in Nat /\ DOMAIN log = 1 .. Len(log)
      /\ Len(log)' = Len(log) + 1 /\ DOMAIN log' = 1 .. Len(log) + 1
      /\ log'[Len(log) + 1] = e /\ \A i \in 1 .. Len(log) : log'[i] = log[i]
  BY DEF TypeInv
<1>2. Handshakes' = Handshakes \cup {Len(log) + 1}
  BY <1>1 DEF Handshakes
<1>3. Ciphertexts' = Ciphertexts
  BY <1>1, <1>2 DEF Ciphertexts, Handshakes
<1>4. Handshakes \subseteq 1 .. Len(log) /\ IsFiniteSet(Handshakes)
  BY HandshakesAreFinite
<1>5. Len(log) + 1 \notin Handshakes
  BY <1>1, <1>4
<1>6. Cardinality(Handshakes \cup {Len(log) + 1}) = Cardinality(Handshakes) + 1
  BY <1>4, <1>5, FS_AddElement
<1>7. /\ \A i \in Handshakes : {j \in Handshakes' : j <= i} = {j \in Handshakes : j <= i}
      /\ {j \in Handshakes' : j <= Len(log) + 1} = Handshakes'
  <2> DEFINE H == Handshakes
             N == Len(log) + 1
  <2>1. N \in Nat /\ \A j \in H : j \in Nat /\ j < N
    BY <1>1, <1>4
  <2>2. Handshakes' = H \cup {N}
    BY <1>2
  <2> HIDE DEF H, N
  <2>3. \A i \in H : {j \in H \cup {N} : j <= i} = {j \in H : j <= i}
    BY <2>1
  <2>4. {j \in H \cup {N} : j <= N} = H \cup {N}
    BY <2>1
  <2> QED
    BY <2>2, <2>3, <2>4 DEF H, N
<1> QED
  BY <1>1, <1>2, <1>3, <1>6, <1>7 DEF LastEpoch

LEMMA EpochFacts ==
  ASSUME TypeInv, EpochInv
  PROVE  /\ LastEpoch \in Nat /\ mls[Creator].epoch \in Nat
         /\ mls[Creator].epoch <= LastEpoch
         /\ \A i \in Handshakes : log[i].epoch \in Nat /\ log[i].epoch <= LastEpoch
         /\ \A n \in Nodes : mls[n].epoch \in Nat /\ mls[n].epoch <= LastEpoch
<1>1. LastEpoch \in Nat /\ \A n \in Nodes : mls[n].epoch \in Nat
  BY HandshakesAreFinite, Fields
<1>2. \A n \in Nodes : mls[n].epoch <= LastEpoch
  BY DEF EpochInv
<1>3. ASSUME NEW i \in Handshakes PROVE log[i].epoch \in Nat /\ log[i].epoch <= LastEpoch
  BY HandshakesAreFinite DEF EpochInv
<1> QED
  BY <1>1, <1>2, <1>3, CreatorAssumption

\* The handshake of the creator's next epoch is on the ledger exactly while it
\* is one epoch behind.
LEMMA NextHandshake ==
  ASSUME TypeInv, EpochInv
  PROVE  HandshakeIsOnLedger(Creator) <=> mls[Creator].epoch = LastEpoch - 1
<1>1. /\ LastEpoch \in Nat /\ mls[Creator].epoch \in Nat
      /\ \A i \in Handshakes : log[i].epoch \in Nat /\ log[i].epoch <= LastEpoch
  BY EpochFacts
<1>2. /\ LastEpoch >= 1 => \E i \in Handshakes : log[i].epoch = LastEpoch
      /\ mls[Creator].epoch \in {LastEpoch, LastEpoch - 1}
  BY DEF EpochInv
<1>3. ASSUME HandshakeIsOnLedger(Creator) PROVE mls[Creator].epoch = LastEpoch - 1
  BY <1>1, <1>2, <1>3 DEF HandshakeIsOnLedger
<1>4. ASSUME mls[Creator].epoch = LastEpoch - 1 PROVE HandshakeIsOnLedger(Creator)
  <2>1. PICK i \in Handshakes : log[i].epoch = LastEpoch
    BY <1>1, <1>2, <1>4
  <2> QED
    BY <1>1, <1>4, <2>1 DEF HandshakeIsOnLedger
<1> QED
  BY <1>3, <1>4

LEMMA SameLogSameEpochs ==
  ASSUME log' = log
  PROVE  Handshakes' = Handshakes /\ LastEpoch' = LastEpoch /\ Ciphertexts' = Ciphertexts
BY DEF Handshakes, LastEpoch, Ciphertexts

LEMMA NextKeepsEpochs ==
  ASSUME TypeInv, ControlInv, EpochInv, [Next]_vars
  PROVE  EpochInv'
<1>1. PICK n \in Nodes : OthersStay(n) /\ Moves(n)
  BY NextMoves
<1>2. /\ LastEpoch \in Nat /\ mls[Creator].epoch \in Nat
      /\ \A i \in Handshakes : log[i].epoch \in Nat /\ log[i].epoch <= LastEpoch
      /\ \A k \in Nodes : mls[k].epoch \in Nat /\ mls[k].epoch <= LastEpoch
  BY EpochFacts
<1>3. \A k \in Nodes \ {n} : mls'[k] = mls[k] /\ task'[k] = task[k]
  BY <1>1 DEF OthersStay
<1>4. /\ \A i \in Handshakes : log[i].epoch = Cardinality({j \in Handshakes : j <= i})
      /\ LastEpoch >= 1 => \E i \in Handshakes : log[i].epoch = LastEpoch
      /\ mls[Creator].epoch \in {LastEpoch, LastEpoch - 1}
      /\ mls[Creator].pending = None => mls[Creator].epoch = LastEpoch
      /\ task[Creator].pc = "merge" => mls[Creator].epoch = LastEpoch - 1
  BY DEF EpochInv
\* A ledger that stays, or that gets a ciphertext.
<1>5. ASSUME log' = log,
             mls'[n].epoch \in Nat, mls'[n].epoch <= LastEpoch,
             n = Creator =>
               /\ mls'[n].epoch \in {LastEpoch, LastEpoch - 1}
               /\ mls'[n].pending = None => mls'[n].epoch = LastEpoch
               /\ task'[n].pc = "merge" => mls'[n].epoch = LastEpoch - 1
      PROVE  EpochInv'
  <2>1. Handshakes' = Handshakes /\ LastEpoch' = LastEpoch
    BY <1>5, SameLogSameEpochs
  <2>2. \A k \in Nodes : mls'[k].epoch <= LastEpoch
    BY <1>2, <1>3, <1>5
  <2>3. /\ mls'[Creator].epoch \in {LastEpoch, LastEpoch - 1}
        /\ mls'[Creator].pending = None => mls'[Creator].epoch = LastEpoch
        /\ task'[Creator].pc = "merge" => mls'[Creator].epoch = LastEpoch - 1
    BY <1>3, <1>4, <1>5, CreatorAssumption
  <2> QED
    BY <1>4, <1>5, <2>1, <2>2, <2>3 DEF EpochInv
<1>6. CASE Rests(n) \/ Encrypts(n)
  BY <1>2, <1>4, <1>5, <1>6 DEF Rests, Encrypts, SameEpoch
<1>7. CASE Adds(n)
  BY <1>2, <1>4, <1>5, <1>7 DEF Adds, SameEpoch
<1>8. CASE Learns(n)
  BY <1>2, <1>5, <1>8 DEF Learns, SameEpoch
<1>9. CASE Enters(n)
  BY <1>2, <1>5, <1>9 DEF Enters
<1>10. CASE Commits(n)
  BY <1>2, <1>4, <1>5, <1>10 DEF Commits
<1>11. CASE Announces(n) /\ HandshakeIsOnLedger(Creator)
  <2>1. log' = log /\ n = Creator /\ mls'[n] = mls[n] /\ mls[n].pending # None
    BY <1>11 DEF Announces, SubmitHandshake
  <2>2. mls[n].epoch = LastEpoch - 1
    BY <1>11, <2>1, NextHandshake
  <2> QED
    BY <1>2, <1>5, <2>1, <2>2
<1>12. CASE Announces(n) /\ ~HandshakeIsOnLedger(Creator)
  <2>1. /\ n = Creator /\ mls'[n] = mls[n] /\ mls[n].pending # None
        /\ log' = Append(log, PendingHandshake(n))
    BY <1>12 DEF Announces, SubmitHandshake
  <2>2. mls[n].epoch = LastEpoch
    BY <1>2, <1>4, <1>12, <2>1, NextHandshake
  <2>3. /\ PendingHandshake(n).kind = "handshake"
        /\ PendingHandshake(n).epoch = LastEpoch + 1
    BY <2>2 DEF PendingHandshake, Handshake
  <2>4. /\ Handshakes' = Handshakes \cup {Len(log) + 1} /\ LastEpoch' = LastEpoch + 1
        /\ \A i \in 1 .. Len(log) : log'[i] = log[i]
        /\ log'[Len(log) + 1] = PendingHandshake(n)
        /\ \A i \in Handshakes : {j \in Handshakes' : j <= i} = {j \in Handshakes : j <= i}
        /\ {j \in Handshakes' : j <= Len(log) + 1} = Handshakes'
    BY <2>1, <2>3, HandshakeAppended
  <2>5. Handshakes \subseteq 1 .. Len(log)
    BY HandshakesAreFinite
  <2>6. ASSUME NEW i \in Handshakes'
        PROVE  log'[i].epoch = Cardinality({j \in Handshakes' : j <= i})
    <3>1. CASE i \in Handshakes
      BY <1>4, <2>4, <2>5, <3>1
    <3>2. CASE i = Len(log) + 1
      <4>1. Cardinality(Handshakes') = LastEpoch + 1
        BY <2>4 DEF LastEpoch
      <4> QED
        BY <2>3, <2>4, <3>2, <4>1
    <3> QED
      BY <2>4, <3>1, <3>2
  <2>7. \E i \in Handshakes' : log'[i].epoch = LastEpoch'
    BY <2>3, <2>4
  <2>8. \A k \in Nodes : mls'[k].epoch <= LastEpoch'
    BY <1>2, <1>3, <2>1, <2>4
  <2>9. mls'[Creator].epoch = LastEpoch' - 1 /\ mls'[Creator].pending # None
    BY <1>2, <2>1, <2>2, <2>4
  <2> QED
    BY <2>6, <2>7, <2>8, <2>9 DEF EpochInv
<1>13. CASE Publishes(n)
  <2>1. /\ mls'[n] = mls[n] /\ task'[n].pc # "merge"
        /\ \E e : e.kind # "handshake" /\ log' = Append(log, e)
    BY <1>13 DEF Publishes, SubmitState, SubmitText, Ciphertext
  <2>2. /\ Handshakes' = Handshakes /\ LastEpoch' = LastEpoch
        /\ \A i \in 1 .. Len(log) : log'[i] = log[i]
    BY <2>1, CiphertextAppended
  <2>3. Handshakes \subseteq 1 .. Len(log)
    BY HandshakesAreFinite
  <2>4. \A k \in Nodes : mls'[k] = mls[k]
    BY <1>3, <2>1
  <2>5. task'[Creator].pc = "merge" => task[Creator].pc = "merge"
    BY <1>3, <2>1, CreatorAssumption
  <2>6. \A i \in Handshakes' : log'[i].epoch = Cardinality({j \in Handshakes' : j <= i})
    BY <1>4, <2>2, <2>3
  <2>7. LastEpoch' >= 1 => \E i \in Handshakes' : log'[i].epoch = LastEpoch'
    BY <1>4, <2>2, <2>3
  <2>8. /\ \A k \in Nodes : mls'[k].epoch <= LastEpoch'
        /\ mls'[Creator] = mls[Creator]
    BY <1>2, <2>2, <2>4, CreatorAssumption
  <2> QED
    BY <1>4, <2>2, <2>5, <2>6, <2>7, <2>8 DEF EpochInv
<1> QED
  BY <1>1, <1>6, <1>7, <1>8, <1>9, <1>10, <1>11, <1>12, <1>13 DEF Moves

LEMMA AlwaysInLine == Spec => []EpochInv
<1>1. Init => EpochInv
  <2> SUFFICES ASSUME Init PROVE EpochInv
    OBVIOUS
  <2>1. Handshakes = {}
    BY DEF Init, Handshakes
  <2>2. LastEpoch = 0
    BY <2>1, FS_EmptySet DEF LastEpoch
  <2>3. \A n \in Nodes : mls[n].epoch = 0
    BY DEF Init, NoGroup, NewGroup
  <2>4. task[Creator].pc = "free"
    BY CreatorAssumption DEF Init, Free
  <2> QED
    BY <2>1, <2>2, <2>3, <2>4, CreatorAssumption DEF EpochInv
<1>2. TypeInv /\ ControlInv /\ EpochInv /\ [Next]_vars => EpochInv'
  BY NextKeepsEpochs
<1> QED
  BY <1>1, <1>2, AlwaysControlled, PTL DEF Spec

\* The handshakes on the ledger lead to the epochs 1, 2, 3 ... in this order,
\* whatever is recovered or published again, and no installation is in an
\* epoch whose handshake is not on the ledger.
THEOREM EpochsStayInLine == Spec => []EpochsFormALine
<1>1. EpochInv => EpochsFormALine
  BY DEF EpochInv, EpochsFormALine, LastEpoch
<1> QED
  BY <1>1, AlwaysInLine, PTL

-----------------------------------------------------------------------------
\* Keys

LEMMA CiphertextFacts ==
  ASSUME TypeInv, NEW i \in Ciphertexts
  PROVE  /\ i \in 1 .. Len(log) /\ log[i].kind # "handshake"
         /\ log[i].from \in Nodes /\ log[i].to \subseteq Nodes
         /\ log[i].epoch \in Nat /\ log[i].gen \in Nat
<1>1. i \in DOMAIN log /\ log[i].kind # "handshake"
  BY DEF Ciphertexts, Handshakes
<1> QED
  BY <1>1, EventFacts

\* A key that the ledger has consumed, in terms of its sender's checkpoint.
Spent(i) ==
  LET n == log[i].from
  IN  /\ mls[n].joined
      /\ \/ log[i].epoch < mls[n].epoch
         \/ log[i].epoch = mls[n].epoch /\ log[i].gen < Unused(n)

LEMMA NextKeepsKeys ==
  ASSUME TypeInv, ControlInv, KeyInv, [Next]_vars
  PROVE  KeyInv'
<1>1. PICK n \in Nodes : OthersStay(n) /\ Moves(n)
  BY NextMoves
<1>2. \A k \in Nodes : mls[k].epoch \in Nat /\ mls[k].gen \in Nat /\ mls[k].joined \in BOOLEAN
  BY Fields
<1>3. \A k \in Nodes \ {n} : mls'[k] = mls[k] /\ task'[k] = task[k]
  BY <1>1 DEF OthersStay
<1>4. NoKeyReuse /\ \A i \in Ciphertexts : Spent(i)
  BY DEF KeyInv, Spent
<1>5. \A k \in Nodes \ {n} : Unused(k)' = Unused(k)
  BY <1>3 DEF Unused
\* Spent keys stay spent as long as the sender's ratchet only goes forward.
<1>6. ASSUME NEW i \in Ciphertexts, log'[i] = log[i],
             mls[n].joined => mls'[n].joined,
             \/ mls'[n].epoch = mls[n].epoch /\ Unused(n)' >= Unused(n)
             \/ mls'[n].epoch = mls[n].epoch + 1
             \/ ~mls[n].joined,
             Unused(n)' \in Int
      PROVE  Spent(i)'
  <2>1. /\ Spent(i) /\ log[i].from \in Nodes /\ log[i].epoch \in Nat /\ log[i].gen \in Nat
    BY <1>4, CiphertextFacts
  <2>2. CASE log[i].from = n
    BY <1>2, <1>6, <2>1, <2>2 DEF Spent, Unused
  <2>3. CASE log[i].from # n
    BY <1>3, <1>5, <1>6, <2>1, <2>3 DEF Spent
  <2> QED
    BY <2>2, <2>3
<1>7. ASSUME log' = log,
             mls[n].joined => mls'[n].joined,
             \/ mls'[n].epoch = mls[n].epoch /\ Unused(n)' >= Unused(n)
             \/ mls'[n].epoch = mls[n].epoch + 1
             \/ ~mls[n].joined,
             Unused(n)' \in Int
      PROVE  KeyInv'
  <2>1. Ciphertexts' = Ciphertexts
    BY <1>7, SameLogSameEpochs
  <2>2. \A i \in Ciphertexts : Spent(i)'
    BY <1>6, <1>7
  <2>3. NoKeyReuse'
    BY <1>4, <1>7, <2>1 DEF NoKeyReuse
  <2> QED
    BY <2>1, <2>2, <2>3 DEF KeyInv, Spent
<1>8. Unused(n)' \in Int
  <2>1. TypeInv'
    BY NextKeepsControl
  <2>2. mls'[n].gen \in Nat
    BY <2>1 DEF TypeInv, Checkpoint
  <2> QED
    BY <2>2 DEF Unused
<1>9. CASE Rests(n) \/ Adds(n) \/ Learns(n)
  <2>1. /\ log' = log /\ mls'[n].joined = mls[n].joined
        /\ mls'[n].epoch = mls[n].epoch /\ mls'[n].gen = mls[n].gen
        /\ task'[n].pc \in {"state", "publish"} => task[n].pc \in {"state", "publish"}
    BY <1>9 DEF Rests, Adds, Learns, SameEpoch
  <2>2. Unused(n)' >= Unused(n)
    BY <1>2, <2>1 DEF Unused
  <2> QED
    BY <1>7, <1>8, <2>1, <2>2
<1>10. CASE Encrypts(n)
  <2>1. Unused(n)' = Unused(n)
    BY <1>2, <1>10 DEF Encrypts, Unused
  <2>2. Unused(n) \in Int
    BY <1>2 DEF Unused
  <2> QED
    BY <1>7, <1>8, <1>10, <2>1, <2>2 DEF Encrypts, SameEpoch
<1>11. CASE Commits(n)
  BY <1>7, <1>8, <1>11 DEF Commits
<1>12. CASE Enters(n)
  BY <1>7, <1>8, <1>12 DEF Enters
<1>13. CASE Announces(n)
  <2>1. /\ mls'[n] = mls[n] /\ task[n].pc = "ready" /\ task'[n].pc \in {"merge", "free", "ready"}
        /\ log' = log \/ log' = Append(log, PendingHandshake(n))
    BY <1>13 DEF Announces, SubmitHandshake, At
  <2>2. Unused(n)' = Unused(n) /\ Unused(n) \in Int
    BY <1>2, <2>1 DEF Unused
  <2>3. CASE log' = log
    BY <1>7, <1>8, <2>1, <2>2, <2>3
  <2>4. CASE log' = Append(log, PendingHandshake(n))
    <3>1. Ciphertexts' = Ciphertexts /\ \A i \in 1 .. Len(log) : log'[i] = log[i]
      BY <2>4, HandshakeAppended DEF PendingHandshake, Handshake
    <3>2. \A i \in Ciphertexts : i \in 1 .. Len(log)
      BY CiphertextFacts
    <3>3. \A i \in Ciphertexts : Spent(i)'
      BY <1>6, <1>8, <2>1, <2>2, <3>1, <3>2
    <3>4. NoKeyReuse'
      BY <1>4, <3>1, <3>2 DEF NoKeyReuse
    <3> QED
      BY <3>1, <3>3, <3>4 DEF KeyInv, Spent
  <2> QED
    BY <2>1, <2>3, <2>4
<1>14. CASE Publishes(n)
  <2>0. PICK N : N = Len(log) + 1
    OBVIOUS
  <2>1. /\ mls'[n] = mls[n] /\ mls[n].joined /\ mls[n].gen >= 1
        /\ task[n].pc \in {"state", "publish"} /\ task'[n].pc \in {"mark", "save", "free", "ready"}
    BY <1>14 DEF Publishes, SubmitState, SubmitText, At
  <2>2. PICK e : /\ e.kind # "handshake" /\ e.from = n /\ e.epoch = mls[n].epoch
                 /\ e.gen = mls[n].gen - 1 /\ log' = Append(log, e)
    BY <1>14 DEF Publishes, SubmitState, SubmitText, Ciphertext
  <2>3. /\ Ciphertexts' = Ciphertexts \cup {N} /\ log'[N] = e
        /\ \A i \in 1 .. Len(log) : log'[i] = log[i]
    BY <2>0, <2>2, CiphertextAppended
  <2>4. \A i \in Ciphertexts : i \in 1 .. Len(log)
    BY CiphertextFacts
  <2>5. Unused(n) = mls[n].gen - 1 /\ Unused(n)' = mls[n].gen
    BY <2>1 DEF Unused
  <2>6. \A i \in Ciphertexts : Spent(i)'
    BY <1>2, <1>6, <1>8, <2>1, <2>3, <2>4, <2>5
  <2>7. Spent(N)'
    BY <1>2, <2>1, <2>2, <2>3, <2>5 DEF Spent
  <2>8. ASSUME NEW i \in Ciphertexts
        PROVE  ~ (log'[i].from = e.from /\ log'[i].epoch = e.epoch /\ log'[i].gen = e.gen)
    <3>1. Spent(i) /\ log'[i] = log[i] /\ log[i].gen \in Nat
      BY <1>4, <2>3, <2>4, CiphertextFacts
    <3> QED
      BY <1>2, <2>2, <2>5, <3>1 DEF Spent
  <2>9. NoKeyReuse'
    <3> SUFFICES ASSUME NEW i \in Ciphertexts', NEW j \in Ciphertexts',
                        log'[i].from = log'[j].from /\ log'[i].epoch = log'[j].epoch,
                        log'[i].gen = log'[j].gen
                 PROVE  i = j
      BY DEF NoKeyReuse
    <3>1. CASE i \in Ciphertexts /\ j \in Ciphertexts
      BY <1>4, <2>3, <2>4, <3>1 DEF NoKeyReuse
    <3>2. CASE i = N /\ j \in Ciphertexts
      BY <2>3, <2>8, <3>2
    <3>3. CASE j = N /\ i \in Ciphertexts
      BY <2>3, <2>8, <3>3
    <3>4. CASE i = N /\ j = N
      BY <3>4
    <3> QED
      BY <2>3, <3>1, <3>2, <3>3, <3>4
  <2>10. \A i \in Ciphertexts' : Spent(i)'
    BY <2>3, <2>6, <2>7
  <2> QED
    BY <2>9, <2>10 DEF KeyInv, Spent
<1> QED
  BY <1>1, <1>9, <1>10, <1>11, <1>12, <1>13, <1>14 DEF Moves

\* No ratchet key ever encrypts two messages: the checkpoint that draws a key
\* is persisted before its ciphertext is submitted, so that a retry, a crash or
\* a lost answer draws a fresh one.
THEOREM KeysAreUsedOnce == Spec => []NoKeyReuse
<1>1. Init => KeyInv
  <2> SUFFICES ASSUME Init PROVE KeyInv
    OBVIOUS
  <2>1. Ciphertexts = {}
    BY DEF Init, Ciphertexts
  <2> QED
    BY <2>1 DEF KeyInv, NoKeyReuse
<1>2. TypeInv /\ ControlInv /\ KeyInv /\ [Next]_vars => KeyInv'
  BY NextKeepsKeys
<1>3. KeyInv => NoKeyReuse
  BY DEF KeyInv
<1> QED
  BY <1>1, <1>2, <1>3, AlwaysControlled, PTL DEF Spec

-----------------------------------------------------------------------------
\* Members

LEMMA MembersAtLog ==
  ASSUME NEW e, NEW k
  PROVE  MembersAt(e, k) = MembersOf(log, e, k)
BY DEF MembersAt, MembersOf, Handshakes

LEMMA MembersGrow ==
  ASSUME NEW L \in Seq(EventType), NEW e \in Nat, NEW f \in Nat, e <= f,
         NEW k \in Nat, NEW l \in Nat, k <= l
  PROVE  MembersOf(L, e, k) \subseteq MembersOf(L, f, l)
<1>1. \A i \in DOMAIN L : i \in Nat /\ L[i].epoch \in Nat
  <2>1. \A i \in DOMAIN L : i \in Nat /\ L[i] \in EventType
    OBVIOUS
  <2> QED
    BY <2>1 DEF EventType, HandshakeType, StateType, TextType
<1>2. \A i \in DOMAIN L : i <= k => i <= l
  BY <1>1
<1>3. \A i \in DOMAIN L : L[i].epoch <= e => L[i].epoch <= f
  BY <1>1
<1> QED
  BY <1>2, <1>3 DEF MembersOf

\* What comes later does not change who the members were,
LEMMA MembersStay ==
  ASSUME NEW L \in Seq(EventType), NEW ev, NEW e, NEW k \in 0 .. Len(L)
  PROVE  MembersOf(Append(L, ev), e, k) = MembersOf(L, e, k)
<1> DEFINE A == Append(L, ev)
<1>1. DOMAIN A = 1 .. Len(L) + 1 /\ DOMAIN L = 1 .. Len(L) /\ Len(L) \in Nat
  OBVIOUS
<1>2. \A i \in DOMAIN L : A[i] = L[i]
  OBVIOUS
<1> HIDE DEF A
<1>3. \A i \in DOMAIN A : i <= k => i \in DOMAIN L
  BY <1>1
<1>4. DOMAIN L \subseteq DOMAIN A
  BY <1>1
<1>5. MembersOf(A, e, k) = MembersOf(L, e, k)
  BY <1>2, <1>3, <1>4 DEF MembersOf
<1> QED
  BY <1>5 DEF A

\* nor do ciphertexts and handshakes of later epochs.
LEMMA MembersOfEpochStay ==
  ASSUME NEW L \in Seq(EventType), NEW ev, NEW e,
         ev.kind # "handshake" \/ ~(ev.epoch <= e)
  PROVE  MembersOf(Append(L, ev), e, Len(L) + 1) = MembersOf(L, e, Len(L))
<1> DEFINE A == Append(L, ev)
           N == Len(L)
<1>1. DOMAIN A = 1 .. N + 1 /\ DOMAIN L = 1 .. N /\ N \in Nat
  OBVIOUS
<1>2. A[N + 1] = ev /\ \A i \in DOMAIN L : A[i] = L[i]
  OBVIOUS
<1> HIDE DEF A, N
<1>3. \A i \in DOMAIN A :
        A[i].kind = "handshake" /\ A[i].epoch <= e => i \in DOMAIN L
  BY <1>1, <1>2
<1>4. DOMAIN L \subseteq DOMAIN A /\ \A i \in DOMAIN L : i <= N /\ i <= N + 1
  BY <1>1
<1>5. MembersOf(A, e, N + 1) = MembersOf(L, e, N)
  BY <1>2, <1>3, <1>4 DEF MembersOf
<1> QED
  BY <1>5 DEF A, N

\* The next epoch has the member its handshake adds.
LEMMA MembersOfNextEpoch ==
  ASSUME NEW L \in Seq(EventType), NEW e \in Nat, NEW b,
         \E i \in DOMAIN L : L[i].kind = "handshake" /\ L[i].epoch = e + 1,
         \A i \in DOMAIN L : L[i].kind = "handshake" /\ L[i].epoch = e + 1 => L[i].body = b
  PROVE  MembersOf(L, e + 1, Len(L)) = MembersOf(L, e, Len(L)) \cup {b}
<1> DEFINE N == Len(L)
<1>1. \A i \in DOMAIN L : i <= N /\ L[i].epoch \in Nat
  <2>1. \A i \in DOMAIN L : i <= N /\ L[i] \in EventType
    OBVIOUS
  <2> QED
    BY <2>1 DEF EventType, HandshakeType, StateType, TextType
<1> HIDE DEF N
<1>2. \A i \in DOMAIN L : L[i].epoch <= e + 1 <=> L[i].epoch <= e \/ L[i].epoch = e + 1
  BY <1>1
<1> DEFINE New == {i \in DOMAIN L : L[i].kind = "handshake" /\ i <= N /\ L[i].epoch <= e + 1}
           Old == {i \in DOMAIN L : L[i].kind = "handshake" /\ i <= N /\ L[i].epoch <= e}
           Add == {i \in DOMAIN L : L[i].kind = "handshake" /\ L[i].epoch = e + 1}
<1>3. New = Old \cup Add
  BY <1>1, <1>2
<1>4. Add # {} /\ \A i \in Add : L[i].body = b
  OBVIOUS
<1>5. MembersOf(L, e + 1, N) = {Creator} \cup {L[i].body : i \in New}
  BY DEF MembersOf
<1>6. MembersOf(L, e, N) = {Creator} \cup {L[i].body : i \in Old}
  BY DEF MembersOf
<1> HIDE DEF New, Old, Add
<1>7. MembersOf(L, e + 1, N) = MembersOf(L, e, N) \cup {b}
  BY <1>3, <1>4, <1>5, <1>6
<1> QED
  BY <1>7 DEF N

LEMMA NextKeepsMembers ==
  ASSUME TypeInv, ControlInv, EpochInv, MemberInv, [Next]_vars
  PROVE  MemberInv'
<1>1. PICK n \in Nodes : OthersStay(n) /\ Moves(n)
  BY NextMoves
<1>2. /\ LastEpoch \in Nat /\ mls[Creator].epoch \in Nat
      /\ \A i \in Handshakes : log[i].epoch \in Nat /\ log[i].epoch <= LastEpoch
      /\ \A k \in Nodes : mls[k].epoch \in Nat /\ mls[k].epoch <= LastEpoch
  BY EpochFacts
<1>3. \A k \in Nodes \ {n} : mls'[k] = mls[k]
  BY <1>1 DEF OthersStay
<1>4. /\ \A k \in Nodes : mls[k].roster \subseteq MembersOf(log, mls[k].epoch, Len(log))
      /\ mls[Creator].roster = MembersOf(log, mls[Creator].epoch, Len(log))
      /\ \A i \in Ciphertexts :
           /\ log[i].to \subseteq MembersOf(log, log[i].epoch, i)
           /\ log[i].kind = "state" => log[i].body \subseteq MembersOf(log, log[i].epoch, i)
      /\ \A i \in Handshakes :
           log[i].epoch = mls[Creator].epoch + 1 => log[i].body = mls[Creator].pending
  BY DEF MemberInv
<1>5. log \in Seq(EventType) /\ Len(log) \in Nat /\ DOMAIN log = 1 .. Len(log)
  BY DEF TypeInv
<1>6. ASSUME log' = log,
             mls'[n].roster \subseteq MembersOf(log, mls'[n].epoch, Len(log)),
             n = Creator =>
               /\ mls'[n].roster = MembersOf(log, mls'[n].epoch, Len(log))
               /\ \A i \in Handshakes :
                    log[i].epoch = mls'[n].epoch + 1 => log[i].body = mls'[n].pending
      PROVE  MemberInv'
  <2>1. Handshakes' = Handshakes /\ Ciphertexts' = Ciphertexts
    BY <1>6, SameLogSameEpochs
  <2>2. \A k \in Nodes : mls'[k].roster \subseteq MembersOf(log, mls'[k].epoch, Len(log))
    BY <1>3, <1>4, <1>6
  <2>3. /\ mls'[Creator].roster = MembersOf(log, mls'[Creator].epoch, Len(log))
        /\ \A i \in Handshakes :
             log[i].epoch = mls'[Creator].epoch + 1 => log[i].body = mls'[Creator].pending
    BY <1>3, <1>4, <1>6, CreatorAssumption
  <2> QED
    BY <1>4, <1>6, <2>1, <2>2, <2>3 DEF MemberInv
<1>7. CASE Rests(n) \/ Encrypts(n)
  <2>1. /\ log' = log /\ mls'[n].epoch = mls[n].epoch /\ mls'[n].roster = mls[n].roster
        /\ mls'[n].pending = mls[n].pending
    BY <1>7 DEF Rests, Encrypts, SameEpoch
  <2> QED
    BY <1>4, <1>6, <2>1
<1>8. CASE Adds(n)
  <2>1. /\ log' = log /\ mls'[n].epoch = mls[n].epoch /\ mls'[n].roster = mls[n].roster
        /\ n = Creator /\ mls[n].pending = None
    BY <1>8 DEF Adds, SameEpoch
  <2>2. mls[n].epoch = LastEpoch
    BY <2>1 DEF EpochInv
  <2>3. \A i \in Handshakes : log[i].epoch # mls'[n].epoch + 1
    BY <1>2, <2>1, <2>2
  <2> QED
    BY <1>4, <1>6, <2>1, <2>3
<1>9. CASE Learns(n)
  <2>1. PICK i \in Ciphertexts :
          /\ log[i].kind = "state" /\ log[i].epoch = mls[n].epoch
          /\ mls'[n].roster = log[i].body
    BY <1>9 DEF Learns
  <2>2. n # Creator /\ log' = log /\ mls'[n].epoch = mls[n].epoch
    BY <1>9 DEF Learns, SameEpoch
  <2>3. i \in 1 .. Len(log)
    BY CiphertextFacts
  <2>4. i \in Nat /\ i <= Len(log)
    BY <1>5, <2>3
  <2>5. MembersOf(log, mls[n].epoch, i) \subseteq MembersOf(log, mls[n].epoch, Len(log))
    BY <1>2, <1>5, <2>4, MembersGrow
  <2>6. mls'[n].roster \subseteq MembersOf(log, mls[n].epoch, i)
    BY <1>4, <2>1
  <2> QED
    BY <1>6, <2>2, <2>5, <2>6
<1>10. CASE Enters(n)
  <2>1. /\ n # Creator /\ log' = log /\ mls'[n].roster = mls[n].roster
        /\ mls'[n].epoch \in Nat
        /\ ~mls[n].joined \/ mls'[n].epoch = mls[n].epoch + 1
    BY <1>2, <1>10 DEF Enters
  <2>2. ~mls[n].joined => mls[n].epoch = 0
    BY NodeControl DEF Roles
  <2>3. mls[n].epoch <= mls'[n].epoch
    BY <1>2, <2>1, <2>2
  <2>4. MembersOf(log, mls[n].epoch, Len(log)) \subseteq MembersOf(log, mls'[n].epoch, Len(log))
    BY <1>2, <1>5, <2>1, <2>3, MembersGrow
  <2>5. mls'[n].roster \subseteq MembersOf(log, mls'[n].epoch, Len(log))
    BY <1>4, <2>1, <2>4
  <2> QED
    BY <1>6, <2>1, <2>5
<1>11. CASE Commits(n)
  <2>1. /\ n = Creator /\ log' = log /\ task[n].pc = "merge"
        /\ mls'[n].epoch = mls[n].epoch + 1
        /\ mls'[n].roster = mls[n].roster \cup {mls[n].pending}
    BY <1>11 DEF Commits
  <2>2. mls[n].epoch = LastEpoch - 1
    BY <2>1 DEF EpochInv
  <2>3. \E i \in Handshakes : log[i].epoch = mls[n].epoch + 1
    BY <2>1, <2>2, NextHandshake DEF HandshakeIsOnLedger
  <2>4. \A i \in Handshakes : log[i].epoch = mls[n].epoch + 1 => log[i].body = mls[n].pending
    BY <1>4, <2>1
  <2>5. /\ \E i \in DOMAIN log : log[i].kind = "handshake" /\ log[i].epoch = mls[n].epoch + 1
        /\ \A i \in DOMAIN log : log[i].kind = "handshake" /\ log[i].epoch = mls[n].epoch + 1
                                   => log[i].body = mls[n].pending
    BY <2>3, <2>4 DEF Handshakes
  <2>6. MembersOf(log, mls[n].epoch + 1, Len(log))
          = MembersOf(log, mls[n].epoch, Len(log)) \cup {mls[n].pending}
    <3>1. PICK e \in Nat : e = mls[n].epoch
      BY <1>2
    <3>2. PICK b : b = mls[n].pending
      OBVIOUS
    <3>3. \E i \in DOMAIN log : log[i].kind = "handshake" /\ log[i].epoch = e + 1
      BY <2>5, <3>1
    <3>4. \A i \in DOMAIN log :
            log[i].kind = "handshake" /\ log[i].epoch = e + 1 => log[i].body = b
      BY <2>5, <3>1, <3>2
    <3>5. MembersOf(log, e + 1, Len(log)) = MembersOf(log, e, Len(log)) \cup {b}
      BY <1>5, <3>3, <3>4, MembersOfNextEpoch
    <3> QED
      BY <3>1, <3>2, <3>5
  <2>7. mls'[n].roster = MembersOf(log, mls'[n].epoch, Len(log))
    BY <1>4, <2>1, <2>6
  <2>8. \A i \in Handshakes : log[i].epoch # mls'[n].epoch + 1
    BY <1>2, <2>1, <2>2
  <2> QED
    BY <1>6, <2>1, <2>7, <2>8
<1>12. CASE Announces(n) /\ log' = log
  BY <1>4, <1>6, <1>12 DEF Announces
\* The events of the ledger that grows keep what is known of them.
<1>13. ASSUME NEW e, log' = Append(log, e), NEW i \in Ciphertexts, i \in 1 .. Len(log)
       PROVE  /\ log'[i] = log[i]
              /\ log'[i].to \subseteq MembersOf(log', log'[i].epoch, i)
              /\ log'[i].kind = "state" => log'[i].body \subseteq MembersOf(log', log'[i].epoch, i)
  <2>1. log'[i] = log[i]
    BY <1>5, <1>13
  <2>2. i \in 0 .. Len(log)
    BY <1>5, <1>13
  <2>3. MembersOf(log', log[i].epoch, i) = MembersOf(log, log[i].epoch, i)
    BY <1>5, <1>13, <2>2, MembersStay
  <2> QED
    BY <1>4, <1>13, <2>1, <2>3
<1>14. CASE Announces(n) /\ log' # log
  <2> DEFINE e == PendingHandshake(n)
  <2>1. /\ n = Creator /\ ~HandshakeIsOnLedger(n) /\ mls'[n] = mls[n] /\ log' = Append(log, e)
    BY <1>14 DEF Announces, SubmitHandshake
  <2>2. mls[n].epoch = LastEpoch
    BY <1>2, <2>1, NextHandshake DEF EpochInv
  <2>3. e.kind = "handshake" /\ e.epoch = LastEpoch + 1 /\ e.body = mls[n].pending
    BY <2>2 DEF PendingHandshake, Handshake
  <2> HIDE DEF e
  <2>4. /\ Handshakes' = Handshakes \cup {Len(log) + 1} /\ Ciphertexts' = Ciphertexts
        /\ Len(log)' = Len(log) + 1 /\ log'[Len(log) + 1] = e
        /\ \A i \in 1 .. Len(log) : log'[i] = log[i]
    BY <2>1, <2>3, HandshakeAppended
  <2>5. mls' [Creator] = mls[Creator] /\ \A k \in Nodes : mls'[k] = mls[k]
    BY <1>3, <2>1
  <2>6. ASSUME NEW k \in Nodes
        PROVE  MembersOf(log', mls[k].epoch, Len(log)')
                 = MembersOf(log, mls[k].epoch, Len(log))
    <3>1. ~(e.epoch <= mls[k].epoch)
      BY <1>2, <2>3
    <3>2. MembersOf(Append(log, e), mls[k].epoch, Len(log) + 1)
            = MembersOf(log, mls[k].epoch, Len(log))
      BY <1>5, <3>1, MembersOfEpochStay
    <3> QED
      BY <2>1, <2>4, <3>2
  <2>7. \A k \in Nodes : mls'[k].roster \subseteq MembersOf(log', mls'[k].epoch, Len(log)')
    BY <1>4, <2>5, <2>6
  <2>8. mls'[Creator].roster = MembersOf(log', mls'[Creator].epoch, Len(log)')
    BY <1>4, <2>5, <2>6, CreatorAssumption
  <2>9. \A i \in Ciphertexts' :
           /\ log'[i].to \subseteq MembersOf(log', log'[i].epoch, i)
           /\ log'[i].kind = "state" => log'[i].body \subseteq MembersOf(log', log'[i].epoch, i)
    BY <1>13, <2>1, <2>4, CiphertextFacts
  <2>10. ASSUME NEW i \in Handshakes', log'[i].epoch = mls'[Creator].epoch + 1
         PROVE  log'[i].body = mls'[Creator].pending
    <3>1. CASE i = Len(log) + 1
      BY <2>1, <2>3, <2>4, <2>5, <3>1
    <3>2. CASE i \in Handshakes
      <4>1. i \in 1 .. Len(log)
        BY <3>2, HandshakesAreFinite
      <4>2. log[i].epoch = mls[Creator].epoch + 1
        BY <2>4, <2>5, <2>10, <4>1
      <4> QED
        BY <1>2, <2>1, <2>2, <3>2, <4>2
    <3> QED
      BY <2>4, <3>1, <3>2
  <2> QED
    BY <2>7, <2>8, <2>9, <2>10 DEF MemberInv
<1>15. CASE Publishes(n)
  <2>0. PICK N : N = Len(log) + 1
    OBVIOUS
  <2>1. PICK e : /\ e.kind # "handshake" /\ e.to = mls[n].roster \ {n}
                 /\ e.epoch = mls[n].epoch
                 /\ e.kind = "state" => e.body = mls[n].roster
                 /\ log' = Append(log, e)
    BY <1>15 DEF Publishes, SubmitState, SubmitText, Ciphertext
  <2>2. \A k \in Nodes : mls'[k] = mls[k]
    BY <1>3, <1>15 DEF Publishes
  <2>3. /\ Handshakes' = Handshakes /\ Ciphertexts' = Ciphertexts \cup {N}
        /\ Len(log)' = N /\ log'[N] = e
        /\ \A i \in 1 .. Len(log) : log'[i] = log[i]
    BY <2>0, <2>1, CiphertextAppended
  <2>4. ASSUME NEW k \in Nodes
        PROVE  MembersOf(log', mls[k].epoch, N) = MembersOf(log, mls[k].epoch, Len(log))
    BY <1>5, <2>0, <2>1, MembersOfEpochStay
  <2>5. \A k \in Nodes : mls'[k].roster \subseteq MembersOf(log', mls'[k].epoch, Len(log)')
    BY <1>4, <2>2, <2>3, <2>4
  <2>6. mls'[Creator].roster = MembersOf(log', mls'[Creator].epoch, Len(log)')
    BY <1>4, <2>2, <2>3, <2>4, CreatorAssumption
  <2>7. ASSUME NEW i \in Ciphertexts'
        PROVE  /\ log'[i].to \subseteq MembersOf(log', log'[i].epoch, i)
               /\ log'[i].kind = "state" => log'[i].body \subseteq MembersOf(log', log'[i].epoch, i)
    <3>1. CASE i \in Ciphertexts
      BY <1>13, <2>1, <3>1, CiphertextFacts
    <3>2. CASE i = N
      <4>1. MembersOf(log', e.epoch, N) = MembersOf(log, mls[n].epoch, Len(log))
        BY <2>1, <2>4
      <4> QED
        BY <1>4, <2>1, <2>3, <3>2, <4>1
    <3> QED
      BY <2>3, <3>1, <3>2
  <2>8. \A i \in Handshakes' :
          log'[i].epoch = mls'[Creator].epoch + 1 => log'[i].body = mls'[Creator].pending
    BY <1>4, <2>2, <2>3, HandshakesAreFinite, CreatorAssumption
  <2> QED
    BY <2>5, <2>6, <2>7, <2>8 DEF MemberInv
<1> QED
  BY <1>1, <1>7, <1>8, <1>9, <1>10, <1>11, <1>12, <1>14, <1>15 DEF Moves

LEMMA AlwaysMembers == Spec => []MemberInv
<1>1. Init => MemberInv
  <2> SUFFICES ASSUME Init PROVE MemberInv
    OBVIOUS
  <2>1. log = <<>> /\ DOMAIN log = {}
    BY DEF Init
  <2>2. Handshakes = {} /\ Ciphertexts = {}
    BY <2>1 DEF Handshakes, Ciphertexts
  <2>3. \A e, k : MembersOf(log, e, k) = {Creator}
    BY <2>1 DEF MembersOf
  <2>4. mls[Creator].roster = {Creator} /\ \A n \in Nodes : mls[n].roster \subseteq {Creator}
    BY CreatorAssumption DEF Init, NoGroup, NewGroup
  <2> QED
    BY <2>2, <2>3, <2>4 DEF MemberInv
<1>2. TypeInv /\ ControlInv /\ EpochInv /\ MemberInv /\ [Next]_vars => MemberInv'
  BY NextKeepsMembers
<1> QED
  BY <1>1, <1>2, AlwaysControlled, AlwaysInLine, PTL DEF Spec

\* Whoever answers to an epoch agrees on its group: a roster holds only members
\* of its installation's epoch, the creator's holds all of them, also while a
\* commit is published and not merged, or merged and its state not published.
THEOREM RostersAlwaysAgree == Spec => []RostersAgree
<1>1. MemberInv => RostersAgree
  BY MembersAtLog DEF MemberInv, RostersAgree
<1> QED
  BY <1>1, AlwaysMembers, PTL

\* A ciphertext is addressed only to members of its epoch whose welcome is on
\* the ledger before it.
THEOREM CiphertextsReachMembers == Spec => []AddressedToMembers
<1>1. MemberInv => AddressedToMembers
  BY MembersAtLog DEF MemberInv, AddressedToMembers
<1> QED
  BY <1>1, AlwaysMembers, PTL
=============================================================================
