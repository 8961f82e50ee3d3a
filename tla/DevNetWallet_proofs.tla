-------------------------- MODULE DevNetWallet_proofs --------------------------
(***************************************************************************)
(* Theorems about DevNetWallet, for any number of tabs, users and Parties, *)
(* checked by TLAPS.                                                       *)
(***************************************************************************)
EXTENDS DevNetWallet, TLAPS

-----------------------------------------------------------------------------
\* What every state looks like

IsCall(c) ==
  c = [op |-> c.op, arg |-> c.arg, cookie |-> c.cookie, login |-> c.login,
       stale |-> c.stale, heard |-> c.heard, answer |-> c.answer]

IsTx(x) ==
  /\ x = [pc |-> x.pc, id |-> x.id, actAs |-> x.actAs, shown |-> x.shown,
          agreed |-> x.agreed, ticket |-> x.ticket]
  /\ x.agreed \in BOOLEAN

IsTicket(i) ==
  i = [id |-> i.id, actAs |-> i.actAs, old |-> i.old, user |-> i.user, party |-> i.party]

Shape ==
  /\ calls = [t \in Tabs |-> [k \in Purposes |-> calls[t][k]]]
  /\ tx = [t \in Tabs |-> tx[t]]

\* The operations a tab asks for, by purpose.
OpsOf(k) ==
  CASE k = "sign"    -> {"login", "select"}
    [] k = "out"     -> {"logout"}
    [] k = "restore" -> {"restore"}
    [] k = "tx"      -> {"prepare", "execute"}

\* The dialog shows the Party that the ticket is bound to, if it shows the cookie's.
PrepareOK(c) ==
  c.op = "prepare" =>
    /\ IsTx(c.arg)
    /\ c.arg.agreed => c.arg.shown = c.cookie.party
    /\ c.answer = None \/ (c.answer.status = "ok" => c.answer.account.party = c.cookie.party)

ExecuteOK(c, reviewed) ==
  c.op = "execute" =>
    /\ c.arg \in reviewed
    /\ c.arg.agreed => c.arg.shown = c.arg.ticket.party

CallOK(k, c, reviewed) ==
  IsCall(c) /\ c.op \in OpsOf(k) /\ PrepareOK(c) /\ ExecuteOK(c, reviewed)

CallsOK ==
  \A t \in Tabs, k \in Purposes : calls[t][k] = None \/ CallOK(k, calls[t][k], approved)

DialogOK(x) ==
  x.pc = "dialog" => IsTicket(x.ticket) /\ (x.agreed => x.shown = x.ticket.party)

TxOK == \A t \in Tabs : IsTx(tx[t]) /\ DialogOK(tx[t])

ApprovalInv == Shape /\ CallsOK /\ TxOK /\ ExecutedAsApproved

-----------------------------------------------------------------------------
\* What the server answers

LEMMA PreparedFor ==
  ASSUME NEW c, c.op = "prepare", NEW a \in Answers(c), a.status = "ok"
  PROVE  a.account.party = c.cookie.party
BY DEF Answers, AuthorizedAnswer, Ok, Forbidden, Unauthorized, Answer, AccountOf

LEMMA ExecutedFor ==
  ASSUME NEW c, c.op = "execute", NEW a \in Answers(c), a.status = "ok"
  PROVE  /\ c.arg.actAs = c.cookie.party
         /\ c.arg.ticket.user = c.cookie.user
         /\ c.arg.ticket.party = c.cookie.party
BY DEF Answers, AuthorizedAnswer, Ok, Forbidden, Unauthorized, Answer, Checked, TicketFits

\* Changing nothing of a call but whether it is stale, heard or answered.
SameCall(c, d) ==
  IsCall(d) /\ d.op = c.op /\ d.arg = c.arg /\ d.cookie = c.cookie

LEMMA CallKept ==
  ASSUME NEW k, NEW c, NEW d, NEW reviewed, NEW more, reviewed \subseteq more,
         CallOK(k, c, reviewed), SameCall(c, d),
         d.answer = c.answer \/ d.answer = None
           \/ (c.op = "prepare" => d.answer \in Answers(c))
  PROVE  CallOK(k, d, more)
<1>1. PrepareOK(d)
  BY PreparedFor DEF CallOK, SameCall, PrepareOK
<1> QED
  BY <1>1 DEF CallOK, SameCall, ExecuteOK

-----------------------------------------------------------------------------
\* Steps that change calls

LEMMA SendKeeps ==
  ASSUME Shape, CallsOK, NEW t \in Tabs, NEW k \in Purposes, NEW c,
         Send(t, k, c), approved \subseteq approved',
         c = None \/ CallOK(k, c, approved')
  PROVE  /\ calls' = [u \in Tabs |-> [l \in Purposes |-> calls'[u][l]]]
         /\ CallsOK'
<1>1. /\ calls' = [u \in Tabs |-> [l \in Purposes |-> calls'[u][l]]]
      /\ calls'[t][k] = c
      /\ \A u \in Tabs, l \in Purposes :
           u # t \/ l # k => calls'[u][l] = calls[u][l]
  BY DEF Send, Shape
<1>2. ASSUME NEW u \in Tabs, NEW l \in Purposes, calls'[u][l] # None
      PROVE  CallOK(l, calls'[u][l], approved')
  <2>1. CASE u = t /\ l = k
    BY <1>1, <1>2, <2>1
  <2>2. CASE u # t \/ l # k
    <3>1. CallOK(l, calls[u][l], approved)
      BY <1>1, <1>2, <2>2 DEF CallsOK
    <3>2. CallOK(l, calls[u][l], approved')
      BY <3>1 DEF CallOK, ExecuteOK
    <3> QED
      BY <1>1, <2>2, <3>2
  <2> QED
    BY <2>1, <2>2
<1> QED
  BY <1>1, <1>2 DEF CallsOK

\* Calls may become nothing, or change in what SameCall leaves out.
SameOrGone(c, d) ==
  \/ d = None
  \/ d = c
  \/ c # None /\ SameCall(c, d) /\ d.answer = c.answer

LEMMA CallsKept ==
  ASSUME CallsOK, approved \subseteq approved',
         \A u \in Tabs, l \in Purposes : SameOrGone(calls[u][l], calls'[u][l])
  PROVE  CallsOK'
<1>1. ASSUME NEW u \in Tabs, NEW l \in Purposes, calls'[u][l] # None
      PROVE  CallOK(l, calls'[u][l], approved')
  <2>1. calls[u][l] # None => CallOK(l, calls[u][l], approved)
    BY DEF CallsOK
  <2>2. SameOrGone(calls[u][l], calls'[u][l])
    OBVIOUS
  <2>3. CASE calls'[u][l] = calls[u][l]
    BY <1>1, <2>1, <2>3 DEF CallOK, ExecuteOK
  <2>4. CASE calls'[u][l] # calls[u][l]
    BY <1>1, <2>1, <2>2, <2>4, CallKept DEF SameOrGone
  <2> QED
    BY <2>3, <2>4
<1> QED
  BY <1>1 DEF CallsOK

LEMMA TxKeeps ==
  ASSUME Shape, TxOK, NEW t \in Tabs, NEW x, IsTx(x), DialogOK(x),
         tx' = [tx EXCEPT ![t] = x]
  PROVE  tx' = [u \in Tabs |-> tx'[u]] /\ TxOK'
<1>1. /\ tx' = [u \in Tabs |-> tx'[u]]
      /\ tx'[t] = x
      /\ \A u \in Tabs : u # t => tx'[u] = tx[u]
  BY DEF Shape
<1>2. ASSUME NEW u \in Tabs PROVE IsTx(tx'[u]) /\ DialogOK(tx'[u])
  BY <1>1 DEF TxOK
<1> QED
  BY <1>1, <1>2 DEF TxOK

LEMMA ApprovedStays ==
  ASSUME ExecutedAsApproved, executed' = executed, approved \subseteq approved'
  PROVE  ExecutedAsApproved'
BY DEF ExecutedAsApproved

LEMMA IdleIsTx == IsTx(Idle) /\ DialogOK(Idle)
BY DEF IsTx, DialogOK, Idle

\* Marking a call as out of date, or as given up.
LEMMA CallMarked ==
  ASSUME NEW c, IsCall(c), NEW v
  PROVE  /\ SameCall(c, [c EXCEPT !.stale = v]) /\ [c EXCEPT !.stale = v].answer = c.answer
         /\ SameCall(c, [c EXCEPT !.heard = v]) /\ [c EXCEPT !.heard = v].answer = c.answer
BY DEF SameCall, IsCall

LEMMA TxAt ==
  ASSUME NEW x, IsTx(x), NEW pc
  PROVE  LET y == [x EXCEPT !.pc = pc]
         IN  /\ IsTx(y) /\ y.pc = pc
             /\ y.shown = x.shown /\ y.agreed = x.agreed /\ y.ticket = x.ticket
BY DEF IsTx

LEMMA TxWith ==
  ASSUME NEW x, IsTx(x), NEW v
  PROVE  /\ IsTx([x EXCEPT !.id = v]) /\ [x EXCEPT !.id = v].pc = x.pc
         /\ IsTx([x EXCEPT !.actAs = v]) /\ [x EXCEPT !.actAs = v].pc = x.pc
         /\ IsTx([x EXCEPT !.ticket = v]) /\ [x EXCEPT !.ticket = v].ticket = v
         /\ [x EXCEPT !.ticket = v].agreed = x.agreed
         /\ [x EXCEPT !.ticket = v].shown = x.shown
BY DEF IsTx

LEMMA TicketWith ==
  ASSUME NEW i, IsTicket(i), NEW v
  PROVE  IsTicket([i EXCEPT !.old = v]) /\ [i EXCEPT !.old = v].party = i.party
BY DEF IsTicket

\* A call that is sent has no answer.
LEMMA NewCall ==
  ASSUME NEW op, NEW arg
  PROVE  LET c == Call(op, arg)
         IN  /\ IsCall(c) /\ c.op = op /\ c.arg = arg
             /\ c.cookie = cookie /\ c.answer = None
BY DEF IsCall, Call

LEMMA OtherCall ==
  ASSUME NEW k, NEW op, NEW arg, op \in OpsOf(k), op \notin {"prepare", "execute"}
  PROVE  CallOK(k, Call(op, arg), approved)
BY NewCall DEF CallOK, PrepareOK, ExecuteOK

-----------------------------------------------------------------------------
\* One lemma per action that changes calls, transactions or the ledger

LEMMA AskKeeps ==
  ASSUME ApprovalInv, NEW t \in Tabs, NEW k \in Purposes, NEW op, NEW arg,
         op \in OpsOf(k), op \notin {"prepare", "execute"},
         Send(t, k, Call(op, arg)),
         UNCHANGED <<executed, tx, approved>>
  PROVE  ApprovalInv'
<1>1. CallOK(k, Call(op, arg), approved')
  BY OtherCall
<1>2. /\ calls' = [u \in Tabs |-> [l \in Purposes |-> calls'[u][l]]]
      /\ CallsOK'
  BY <1>1, SendKeeps DEF ApprovalInv
<1> QED
  BY <1>2, ApprovedStays DEF ApprovalInv, Shape, TxOK

\* The server's answer: the one step that executes a transaction.
LEMMA ServeKeeps ==
  ASSUME ApprovalInv, NEW t \in Tabs, NEW k \in Purposes, Serve(t, k)
  PROVE  ApprovalInv'
<1> DEFINE c == calls[t][k]
<1>1. CallOK(k, c, approved) /\ c # None
  BY DEF Serve, ApprovalInv, CallsOK
<1>2. PICK a \in Answers(c) :
        /\ Send(t, k, IF c.heard THEN [c EXCEPT !.answer = a] ELSE None)
        /\ executed' = IF c.op = "execute" /\ a.status = "ok"
                       THEN executed \cup {[id |-> c.arg.id, user |-> c.cookie.user,
                                            party |-> c.cookie.party]}
                       ELSE executed
  BY DEF Serve
<1>3. CallOK(k, [c EXCEPT !.answer = a], approved')
  <2>1. SameCall(c, [c EXCEPT !.answer = a]) /\ [c EXCEPT !.answer = a].answer = a
    BY <1>1 DEF SameCall, CallOK, IsCall
  <2> QED
    BY <1>1, <2>1, CallKept DEF Serve
<1>4. /\ calls' = [u \in Tabs |-> [l \in Purposes |-> calls'[u][l]]]
      /\ CallsOK'
  <2> DEFINE d == IF c.heard THEN [c EXCEPT !.answer = a] ELSE None
  <2>1. d = None \/ CallOK(k, d, approved')
    BY <1>3
  <2>2. Send(t, k, d)
    BY <1>2
  <2> HIDE DEF d
  <2> QED
    BY <2>1, <2>2, SendKeeps DEF ApprovalInv, Serve
<1>5. ExecutedAsApproved'
  <2>1. CASE c.op = "execute" /\ a.status = "ok"
    <3>1. /\ c.arg \in approved
          /\ c.arg.agreed => c.arg.shown = c.arg.ticket.party
      BY <1>1, <2>1 DEF CallOK, ExecuteOK
    <3>2. /\ c.arg.actAs = c.cookie.party
          /\ c.arg.ticket.user = c.cookie.user
          /\ c.arg.ticket.party = c.cookie.party
      BY <2>1, ExecutedFor
    <3>3. executed' = executed \cup {[id |-> c.arg.id, user |-> c.cookie.user,
                                      party |-> c.cookie.party]}
      BY <1>2, <2>1
    <3> QED
      BY <3>1, <3>2, <3>3 DEF ApprovalInv, ExecutedAsApproved, Serve
  <2>2. CASE ~(c.op = "execute" /\ a.status = "ok")
    BY <1>2, <2>2, ApprovedStays DEF ApprovalInv, Serve
  <2> QED
    BY <2>1, <2>2
<1> QED
  BY <1>4, <1>5 DEF ApprovalInv, Shape, TxOK, Serve

LEMMA PrepareKeeps ==
  ASSUME ApprovalInv, NEW t \in Tabs, Prepare(t)
  PROVE  ApprovalInv'
<1> DEFINE asks == [tx[t] EXCEPT !.pc = "prepare", !.shown = tab[t].account.party,
                       !.agreed = cookie # None /\ tab[t].account = AccountOf(cookie)]
<1>1. /\ tx' = [tx EXCEPT ![t] = asks]
      /\ Send(t, "tx", Call("prepare", asks))
      /\ UNCHANGED <<executed, approved>>
  BY DEF Prepare, ledger
<1>2. IsTx(asks) /\ DialogOK(asks) /\ (asks.agreed => asks.shown = cookie.party)
  <2> DEFINE agreed == cookie # None /\ tab[t].account = AccountOf(cookie)
  <2>1. agreed \in BOOLEAN /\ (agreed => tab[t].account.party = cookie.party)
    BY DEF AccountOf
  <2> HIDE DEF agreed
  <2>2. asks = [tx[t] EXCEPT !.pc = "prepare", !.shown = tab[t].account.party,
                  !.agreed = agreed]
    BY Zenon DEF agreed
  <2> HIDE DEF asks
  <2>3. /\ IsTx(asks) /\ asks.pc = "prepare"
        /\ asks.shown = tab[t].account.party /\ asks.agreed = agreed
    <3> DEFINE p == [tx[t] EXCEPT !.pc = "prepare"]
               q == [p EXCEPT !.shown = tab[t].account.party]
    <3>1. IsTx(p) /\ p.pc = "prepare"
      BY TxAt DEF ApprovalInv, TxOK
    <3>2. PICK b \in BOOLEAN : b = agreed
      BY <2>1
    <3>3. asks = [q EXCEPT !.agreed = b]
      BY <2>2, <3>2
    <3> HIDE DEF p
    <3>4. IsTx(q) /\ q.pc = "prepare" /\ q.shown = tab[t].account.party
      BY <3>1 DEF IsTx
    <3> HIDE DEF q
    <3>5. LET r == [q EXCEPT !.agreed = b]
          IN  IsTx(r) /\ r.pc = q.pc /\ r.shown = q.shown /\ r.agreed = b
      BY <3>4 DEF IsTx
    <3> QED
      BY <3>2, <3>3, <3>4, <3>5
  <2> QED
    BY <2>1, <2>3 DEF DialogOK
<1> HIDE DEF asks
<1>3. CallOK("tx", Call("prepare", asks), approved')
  BY <1>2, NewCall DEF CallOK, OpsOf, PrepareOK, ExecuteOK
<1>4. /\ calls' = [u \in Tabs |-> [l \in Purposes |-> calls'[u][l]]]
      /\ CallsOK'
  BY <1>1, <1>3, SendKeeps DEF ApprovalInv, Purposes
<1>5. tx' = [u \in Tabs |-> tx'[u]] /\ TxOK'
  BY <1>1, <1>2, TxKeeps DEF ApprovalInv
<1> QED
  BY <1>1, <1>4, <1>5, ApprovedStays DEF ApprovalInv, Shape

\* What is approved is what the dialog shows.
LEMMA ApproveKeeps ==
  ASSUME ApprovalInv, NEW t \in Tabs, Approve(t)
  PROVE  ApprovalInv'
<1> DEFINE reviewed == [tx[t] EXCEPT !.pc = "execute"]
<1>1. /\ tx' = [tx EXCEPT ![t] = reviewed]
      /\ approved' = approved \cup {reviewed}
      /\ Send(t, "tx", Call("execute", reviewed))
      /\ executed' = executed /\ tx[t].pc = "dialog"
  BY DEF Approve, ledger
<1>2. /\ IsTx(reviewed) /\ DialogOK(reviewed)
      /\ reviewed.agreed => reviewed.shown = reviewed.ticket.party
  <2>1. /\ IsTx(reviewed) /\ reviewed.pc = "execute"
        /\ reviewed.shown = tx[t].shown /\ reviewed.agreed = tx[t].agreed
        /\ reviewed.ticket = tx[t].ticket
    BY TxAt DEF ApprovalInv, TxOK
  <2> HIDE DEF reviewed
  <2> QED
    BY <1>1, <2>1 DEF ApprovalInv, TxOK, DialogOK
<1> HIDE DEF reviewed
<1>3. CallOK("tx", Call("execute", reviewed), approved')
  BY <1>1, <1>2, NewCall DEF CallOK, OpsOf, PrepareOK, ExecuteOK
<1>4. /\ calls' = [u \in Tabs |-> [l \in Purposes |-> calls'[u][l]]]
      /\ CallsOK'
  BY <1>1, <1>3, SendKeeps DEF ApprovalInv, Purposes
<1>5. tx' = [u \in Tabs |-> tx'[u]] /\ TxOK'
  BY <1>1, <1>2, TxKeeps DEF ApprovalInv
<1> QED
  BY <1>1, <1>4, <1>5, ApprovedStays DEF ApprovalInv, Shape

\* An answer to "prepare" opens the dialog with a ticket for the cookie's account.
LEMMA ReceiveKeeps ==
  ASSUME ApprovalInv, NEW t \in Tabs, NEW k \in Purposes, Receive(t, k)
  PROVE  ApprovalInv'
<1> DEFINE c == calls[t][k]
           rest == [calls EXCEPT ![t][k] = None]
           changed == c.op \in {"login", "select", "logout"} /\ c.answer.status = "ok"
<1>1. /\ c # None /\ c.answer # None /\ CallOK(k, c, approved)
      /\ tx' = [tx EXCEPT ![t] = NewTx(t, c)]
      /\ calls' = IF changed THEN Outdate(rest, t) ELSE rest
      /\ executed' = executed /\ approved' = approved
  BY DEF Receive, ledger, ApprovalInv, CallsOK
<1>2. IsTx(NewTx(t, c)) /\ DialogOK(NewTx(t, c))
  <2>1. CASE c.op = "prepare" /\ c.answer.status = "ok"
    <3> DEFINE i == [id |-> c.arg.id, actAs |-> c.arg.actAs, old |-> FALSE,
                     user |-> c.answer.account.user, party |-> c.answer.account.party]
    <3>1. NewTx(t, c) = [c.arg EXCEPT !.pc = "dialog", !.ticket = i]
      BY <2>1 DEF NewTx
    <3>2. IsTicket(i) /\ i.party = c.cookie.party
      BY <1>1, <2>1 DEF IsTicket, CallOK, PrepareOK
    <3>3. IsTx(c.arg) /\ (c.arg.agreed => c.arg.shown = c.cookie.party)
      BY <1>1, <2>1 DEF CallOK, PrepareOK
    <3> HIDE DEF i
    <3> QED
      BY <3>1, <3>2, <3>3 DEF IsTx, DialogOK
  <2>2. CASE ~(c.op = "prepare" /\ c.answer.status = "ok")
    BY <2>2, IdleIsTx DEF NewTx, ApprovalInv, TxOK
  <2> QED
    BY <2>1, <2>2
<1>3. tx' = [u \in Tabs |-> tx'[u]] /\ TxOK'
  BY <1>1, <1>2, TxKeeps DEF ApprovalInv
<1>4. /\ calls' = [u \in Tabs |-> [l \in Purposes |-> calls'[u][l]]]
      /\ CallsOK'
  <2>1. CASE calls' = rest
    <3>1. Send(t, k, None)
      BY <2>1 DEF Send
    <3> QED
      BY <1>1, <3>1, SendKeeps DEF ApprovalInv
  <2>2. CASE calls' = Outdate(rest, t) /\ calls' # rest
    <3>1. /\ rest[t]["restore"] # None
          /\ calls' = [rest EXCEPT ![t]["restore"].stale = TRUE]
      BY <2>2 DEF Outdate
    <3>2. k # "restore" /\ rest[t]["restore"] = calls[t]["restore"]
      BY <3>1 DEF ApprovalInv, Shape, Purposes
    <3> DEFINE c2 == calls[t]["restore"]
               d == [c2 EXCEPT !.stale = TRUE]
    <3>3. c2 # None /\ SameCall(c2, d) /\ d.answer = c2.answer
      BY <3>1, <3>2, CallMarked, Zenon DEF ApprovalInv, CallsOK, CallOK, Purposes
    <3>4. calls' = [rest EXCEPT ![t] = [rest[t] EXCEPT !["restore"] = d]]
      BY <3>1, <3>2
    <3> HIDE DEF d
    <3>5. /\ calls' = [u \in Tabs |-> [l \in Purposes |-> calls'[u][l]]]
          /\ calls'[t]["restore"] = d
          /\ \A u \in Tabs, l \in Purposes :
               u # t \/ l # "restore" => calls'[u][l] \in {None, calls[u][l]}
      BY <3>4 DEF ApprovalInv, Shape, Purposes
    <3>6. \A u \in Tabs, l \in Purposes : SameOrGone(calls[u][l], calls'[u][l])
      BY <3>3, <3>5 DEF SameOrGone
    <3> QED
      BY <1>1, <3>5, <3>6, CallsKept DEF ApprovalInv
  <2> QED
    BY <1>1, <2>1, <2>2
<1> QED
  BY <1>1, <1>3, <1>4, ApprovedStays DEF ApprovalInv, Shape

LEMMA GivenUpKeeps ==
  ASSUME NEW c, c = None \/ IsCall(c)
  PROVE  SameOrGone(c, GivenUp(c))
BY CallMarked DEF SameOrGone, GivenUp

LEMMA TimeOutKeeps ==
  ASSUME ApprovalInv, NEW t \in Tabs, NEW k \in Purposes, TimeOut(t, k)
  PROVE  ApprovalInv'
<1> DEFINE d == GivenUp(calls[t][k])
           x == IF k = "tx" THEN Idle ELSE tx[t]
<1>1. /\ Send(t, k, d)
      /\ tx' = [tx EXCEPT ![t] = x]
      /\ executed' = executed /\ approved' = approved
  BY DEF TimeOut, ledger
<1>2. SameOrGone(calls[t][k], d)
  BY GivenUpKeeps DEF ApprovalInv, CallsOK, CallOK
<1>3. IsTx(x) /\ DialogOK(x)
  BY IdleIsTx DEF ApprovalInv, TxOK
<1> HIDE DEF d, x
<1>4. /\ calls' = [u \in Tabs |-> [l \in Purposes |-> calls'[u][l]]]
      /\ \A u \in Tabs, l \in Purposes :
           calls'[u][l] = IF u = t /\ l = k THEN d ELSE calls[u][l]
  BY <1>1 DEF Send, ApprovalInv, Shape
<1>5. CallsOK'
  <2>1. \A u \in Tabs, l \in Purposes : SameOrGone(calls[u][l], calls'[u][l])
    BY <1>2, <1>4 DEF SameOrGone
  <2> QED
    BY <1>1, <2>1, CallsKept DEF ApprovalInv
<1>6. tx' = [u \in Tabs |-> tx'[u]] /\ TxOK'
  BY <1>1, <1>3, TxKeeps DEF ApprovalInv
<1> QED
  BY <1>1, <1>4, <1>5, <1>6, ApprovedStays DEF ApprovalInv, Shape

LEMMA ReloadKeeps ==
  ASSUME ApprovalInv, NEW t \in Tabs, Reload(t)
  PROVE  ApprovalInv'
<1>1. /\ calls' = [calls EXCEPT ![t] = [k \in Purposes |-> GivenUp(calls[t][k])]]
      /\ tx' = [tx EXCEPT ![t] = Idle]
      /\ executed' = executed /\ approved' = approved
  BY DEF Reload, ledger
<1>2. /\ calls' = [u \in Tabs |-> [l \in Purposes |-> calls'[u][l]]]
      /\ \A u \in Tabs, l \in Purposes :
           calls'[u][l] = IF u = t THEN GivenUp(calls[t][l]) ELSE calls[u][l]
  BY <1>1 DEF ApprovalInv, Shape
<1>3. CallsOK'
  <2>1. ASSUME NEW u \in Tabs, NEW l \in Purposes
        PROVE  SameOrGone(calls[u][l], calls'[u][l])
    <3>1. SameOrGone(calls[t][l], GivenUp(calls[t][l]))
      BY GivenUpKeeps DEF ApprovalInv, CallsOK, CallOK
    <3> QED
      BY <1>2, <3>1 DEF SameOrGone
  <2> QED
    BY <1>1, <2>1, CallsKept DEF ApprovalInv
<1>4. tx' = [u \in Tabs |-> tx'[u]] /\ TxOK'
  BY <1>1, IdleIsTx, TxKeeps DEF ApprovalInv
<1> QED
  BY <1>1, <1>2, <1>3, <1>4, ApprovedStays DEF ApprovalInv, Shape

LEMMA TicketKeeps ==
  ASSUME ApprovalInv, NEW t \in Tabs, TicketExpires(t)
  PROVE  ApprovalInv'
<1> DEFINE i == [tx[t].ticket EXCEPT !.old = TRUE]
           x == [tx[t] EXCEPT !.ticket = i]
<1>1. /\ tx[t].pc = "dialog"
      /\ tx' = [tx EXCEPT ![t] = x]
      /\ executed' = executed /\ approved' = approved /\ calls' = calls
  BY DEF TicketExpires, ledger
<1>2. IsTicket(i) /\ i.party = tx[t].ticket.party
  <2>1. IsTicket(tx[t].ticket)
    BY <1>1 DEF ApprovalInv, TxOK, DialogOK
  <2> QED
    BY <2>1, TicketWith, Zenon
<1> HIDE DEF i
<1>3. IsTx(x) /\ DialogOK(x)
  <2>1. IsTx(tx[t]) /\ DialogOK(tx[t])
    BY DEF ApprovalInv, TxOK
  <2>2. /\ IsTx(x) /\ x.ticket = i
        /\ x.agreed = tx[t].agreed /\ x.shown = tx[t].shown
    BY <2>1, TxWith
  <2> HIDE DEF x
  <2> QED
    BY <1>1, <1>2, <2>1, <2>2 DEF DialogOK
<1> HIDE DEF x
<1>4. tx' = [u \in Tabs |-> tx'[u]] /\ TxOK'
  BY <1>1, <1>3, TxKeeps DEF ApprovalInv
<1> QED
  BY <1>1, <1>4, ApprovedStays DEF ApprovalInv, Shape, CallsOK

\* What only a transaction of one tab goes through.
LEMMA TxStepKeeps ==
  ASSUME ApprovalInv, NEW t \in Tabs, Submit(t) \/ NoAccount(t) \/ Reject(t)
  PROVE  ApprovalInv'
<1> DEFINE new == [Idle EXCEPT !.pc = "restore", !.id = asked + 1, !.actAs = tab[t].session]
           x1 == [Idle EXCEPT !.pc = "restore"]
           x2 == [x1 EXCEPT !.id = asked + 1]
<1>1. IsTx(new) /\ DialogOK(new)
  <2>1. IsTx(x1) /\ x1.pc = "restore"
    BY IdleIsTx, TxAt
  <2>2. IsTx(x2) /\ x2.pc = "restore"
    <3> HIDE DEF x1
    <3> QED
      BY <2>1, TxWith
  <2>3. new = [x2 EXCEPT !.actAs = tab[t].session]
    OBVIOUS
  <2> HIDE DEF x2, new
  <2>4. IsTx(new) /\ new.pc = "restore"
    BY <2>2, <2>3, TxWith
  <2> QED
    BY <2>4 DEF DialogOK
<1>2. PICK x : tx' = [tx EXCEPT ![t] = x] /\ x \in {new, Idle}
  BY DEF Submit, NoAccount, Reject
<1> HIDE DEF new
<1>3. tx' = [u \in Tabs |-> tx'[u]] /\ TxOK'
  BY <1>1, <1>2, IdleIsTx, TxKeeps DEF ApprovalInv
<1>4. executed' = executed /\ approved' = approved /\ calls' = calls
  BY DEF Submit, NoAccount, Reject, ledger
<1> QED
  BY <1>3, <1>4, ApprovedStays DEF ApprovalInv, Shape, CallsOK

LEMMA ApprovalInit ==
  ASSUME Init
  PROVE  ApprovalInv
<1>1. Shape /\ CallsOK
  BY DEF Init, Shape, CallsOK
<1>2. TxOK
  BY IdleIsTx DEF Init, TxOK
<1> QED
  BY <1>1, <1>2 DEF ApprovalInv, ExecutedAsApproved, Init

LEMMA ApprovalStep ==
  ASSUME ApprovalInv, [Next]_vars
  PROVE  ApprovalInv'
<1>1. ASSUME NEW t \in Tabs, OfTab(t) PROVE ApprovalInv'
  <2>1. ASSUME NEW u \in Users, Login(t, u) PROVE ApprovalInv'
    BY <2>1, AskKeeps DEF Login, OpsOf, Purposes, ledger
  <2>2. ASSUME NEW p \in Parties, Select(t, p) PROVE ApprovalInv'
    BY <2>2, AskKeeps DEF Select, OpsOf, Purposes, ledger
  <2>3. CASE Logout(t)
    BY <2>3, AskKeeps DEF Logout, OpsOf, Purposes, ledger
  <2>4. CASE Restore(t)
    BY <2>4, AskKeeps DEF Restore, OpsOf, Purposes, ledger
  <2>5. CASE Adopt(t)
    BY <2>5 DEF Adopt, ledger, ApprovalInv, Shape, CallsOK, TxOK, ExecutedAsApproved
  <2>6. CASE Submit(t) \/ NoAccount(t) \/ Reject(t)
    BY <2>6, TxStepKeeps
  <2>7. CASE Prepare(t)
    BY <2>7, PrepareKeeps
  <2>8. CASE Approve(t)
    BY <2>8, ApproveKeeps
  <2>9. ASSUME NEW k \in Purposes, Serve(t, k) \/ Receive(t, k) \/ TimeOut(t, k)
        PROVE  ApprovalInv'
    BY <2>9, ServeKeeps, ReceiveKeeps, TimeOutKeeps
  <2>10. CASE Reload(t)
    BY <2>10, ReloadKeeps
  <2>11. CASE TicketExpires(t)
    BY <2>11, TicketKeeps
  <2> QED
    BY <1>1, <2>1, <2>2, <2>3, <2>4, <2>5, <2>6, <2>7, <2>8, <2>9, <2>10, <2>11 DEF OfTab
<1>2. ASSUME NEW n, TokenExpires(n) PROVE ApprovalInv'
  BY <1>2 DEF TokenExpires, ledger, ApprovalInv, Shape, CallsOK, TxOK, ExecutedAsApproved
<1>3. ASSUME NEW u, NEW p, Withdraw(u, p) PROVE ApprovalInv'
  BY <1>3 DEF Withdraw, ApprovalInv, Shape, CallsOK, TxOK, ExecutedAsApproved
<1>4. CASE UNCHANGED vars
  BY <1>4 DEF vars, ledger, ApprovalInv, Shape, CallsOK, TxOK, ExecutedAsApproved
<1> QED
  BY <1>1, <1>2, <1>3, <1>4 DEF Next

\* Every transaction that the ledger executes was approved in a dialog, for the
\* user of its ticket and the Party of its commands, in any number of tabs and
\* with any number of sign-ins, faults and requests under way.
THEOREM ExecutionsApproved == Spec => []ExecutedAsApproved
<1>1. Spec => []ApprovalInv
  BY ApprovalInit, ApprovalStep, PTL DEF Spec
<1> QED
  BY <1>1, PTL DEF ApprovalInv

-----------------------------------------------------------------------------
\* Signing out

\* Only the answer to a sign-in or a choice of Party puts a session in the cookie.
Harmless(k, c) ==
  /\ k = "out" => c.answer \in {None, SignedOut}
  /\ k \in {"restore", "tx"} => c.answer = None \/ (c.answer.sets => c.answer.session = None)

\* A choice of Party that was sent without a session.
Rejected(c) == c.op = "select" /\ c.cookie = None /\ c.answer \in {None, Unauthorized}

\* A restore that brings no account back.
OutOfDate(c) == c.stale = TRUE \/ (c.cookie = None /\ c.answer \in {None, Ok(None)})

AnswersHarmless ==
  \A t \in Tabs, k \in Purposes : calls[t][k] = None \/ Harmless(k, calls[t][k])

\* Since a tab signed out nothing is under way that would undo it.
SignedOutQuiet ==
  out # None =>
    /\ out \in Tabs /\ cookie = None /\ tab[out] = ClosedTab
    /\ \A t \in Tabs : calls[t]["sign"] = None \/ Rejected(calls[t]["sign"])
    /\ calls[out]["restore"] = None \/ OutOfDate(calls[out]["restore"])

SignOutInv ==
  /\ Shape /\ CallsOK
  /\ tab = [t \in Tabs |-> tab[t]]
  /\ AnswersHarmless /\ SignedOutQuiet

LEMMA OutImplies ==
  ASSUME SignOutInv
  PROVE  SignedOutStays
BY DEF SignOutInv, SignedOutQuiet, SignedOutStays, ClosedTab

\* What changes when one call is sent, answered or dropped.
LEMMA SendChanges ==
  ASSUME Shape, NEW t \in Tabs, NEW k \in Purposes, NEW c, Send(t, k, c)
  PROVE  \A u \in Tabs, l \in Purposes :
           calls'[u][l] = IF u = t /\ l = k THEN c ELSE calls[u][l]
BY DEF Send, Shape

\* A step that leaves cookie, tabs and `out` alone and changes one call.
LEMMA QuietCall ==
  ASSUME SignOutInv, NEW t \in Tabs, NEW k \in Purposes, NEW c, Send(t, k, c),
         UNCHANGED <<cookie, tab, out>>,
         c = None \/ Harmless(k, c),
         c = None \/ out = None \/ k # "sign" \/ Rejected(c),
         c = None \/ out = None \/ k # "restore" \/ t # out \/ OutOfDate(c)
  PROVE  tab' = [u \in Tabs |-> tab'[u]] /\ AnswersHarmless' /\ SignedOutQuiet'
<1>1. \A u \in Tabs, l \in Purposes :
        calls'[u][l] = IF u = t /\ l = k THEN c ELSE calls[u][l]
  BY SendChanges DEF SignOutInv
<1>2. AnswersHarmless'
  BY <1>1 DEF SignOutInv, AnswersHarmless
<1>3. SignedOutQuiet'
  <2> SUFFICES ASSUME out' # None
               PROVE  /\ out' \in Tabs /\ cookie' = None /\ tab'[out'] = ClosedTab
                      /\ \A u \in Tabs : calls'[u]["sign"] = None \/ Rejected(calls'[u]["sign"])
                      /\ calls'[out']["restore"] = None \/ OutOfDate(calls'[out']["restore"])
    BY DEF SignedOutQuiet
  <2>1. /\ out # None /\ out \in Tabs /\ cookie = None /\ tab[out] = ClosedTab
        /\ \A u \in Tabs : calls[u]["sign"] = None \/ Rejected(calls[u]["sign"])
        /\ calls[out]["restore"] = None \/ OutOfDate(calls[out]["restore"])
    BY DEF SignOutInv, SignedOutQuiet
  <2>2. "sign" \in Purposes /\ "restore" \in Purposes
    BY DEF Purposes
  <2> QED
    BY <1>1, <2>1, <2>2
<1> QED
  BY <1>2, <1>3 DEF SignOutInv

\* What a tab sends is harmless, and has no session once one signed out.
LEMMA AskQuiet ==
  ASSUME SignOutInv, NEW t \in Tabs, NEW k \in Purposes, NEW op, NEW arg,
         Send(t, k, Call(op, arg)), UNCHANGED <<cookie, tab, out>>,
         k = "sign" => op = "select"
  PROVE  tab' = [u \in Tabs |-> tab'[u]] /\ AnswersHarmless' /\ SignedOutQuiet'
<1> DEFINE c == Call(op, arg)
<1>1. c.op = op /\ c.cookie = cookie /\ c.answer = None
  BY NewCall
<1>2. Send(t, k, c)
  OBVIOUS
<1> HIDE DEF c
<1>3. Harmless(k, c)
  BY <1>1 DEF Harmless
<1>4. out # None => (k = "sign" => Rejected(c)) /\ OutOfDate(c)
  BY <1>1 DEF SignOutInv, SignedOutQuiet, Rejected, OutOfDate
<1> QED
  BY <1>2, <1>3, <1>4, QuietCall

\* What the server answers is harmless; without a session, to no avail.
LEMMA AnswerQuiet ==
  ASSUME NEW k \in Purposes, NEW c, c.op \in OpsOf(k), NEW a \in Answers(c)
  PROVE  /\ k = "out" => a = SignedOut
         /\ k \in {"restore", "tx"} => (a.sets => a.session = None)
         /\ k = "sign" /\ c.op = "select" /\ c.cookie = None => a = Unauthorized
         /\ k = "restore" /\ c.cookie = None => a = Ok(None)
<1>1. CASE k = "out"
  BY <1>1 DEF OpsOf, Answers
<1>2. CASE k = "sign"
  BY <1>2 DEF OpsOf, Answers, Valid
<1>3. CASE k = "restore"
  BY <1>3 DEF OpsOf, Answers, Valid, AuthorizedAnswer, Ok, Forbidden, Unauthorized, Answer
<1>4. CASE k = "tx"
  BY <1>4 DEF OpsOf, Answers, Valid, AuthorizedAnswer, Ok, Forbidden, Unauthorized, Answer
<1> QED
  BY <1>1, <1>2, <1>3, <1>4 DEF Purposes

LEMMA ServeQuiet ==
  ASSUME SignOutInv, NEW t \in Tabs, NEW k \in Purposes, Serve(t, k)
  PROVE  tab' = [u \in Tabs |-> tab'[u]] /\ AnswersHarmless' /\ SignedOutQuiet'
<1> DEFINE c == calls[t][k]
<1>1. c # None /\ c.answer = None /\ IsCall(c) /\ c.op \in OpsOf(k)
  BY DEF Serve, SignOutInv, CallsOK, CallOK
<1>2. PICK a \in Answers(c) : Send(t, k, IF c.heard THEN [c EXCEPT !.answer = a] ELSE None)
  BY DEF Serve
<1> DEFINE d == [c EXCEPT !.answer = a]
<1>3. /\ d.op = c.op /\ d.cookie = c.cookie /\ d.stale = c.stale /\ d.answer = a
  BY <1>1 DEF IsCall
<1>4. PICK n \in {d, None} : Send(t, k, n)
  BY <1>2
<1>5. UNCHANGED <<cookie, tab, out>>
  BY DEF Serve
<1> HIDE DEF d
<1>6. Harmless(k, d)
  BY <1>1, <1>3, AnswerQuiet DEF Harmless
<1>7. out # None /\ k = "sign" => Rejected(d)
  <2>1. out # None /\ k = "sign" => Rejected(c)
    BY <1>1 DEF SignOutInv, SignedOutQuiet
  <2> QED
    BY <1>1, <1>3, <2>1, AnswerQuiet DEF Rejected
<1>8. out # None /\ k = "restore" /\ t = out => OutOfDate(d)
  <2>1. out # None /\ k = "restore" /\ t = out => OutOfDate(c)
    BY <1>1 DEF SignOutInv, SignedOutQuiet
  <2> QED
    BY <1>1, <1>3, <2>1, AnswerQuiet DEF OutOfDate
<1> QED
  BY <1>4, <1>5, <1>6, <1>7, <1>8, QuietCall

\* What a call becomes when another one is answered.
LateOrGone(c, d) ==
  \/ d = None
  \/ /\ c # None /\ d.op = c.op /\ d.cookie = c.cookie /\ d.answer = c.answer
     /\ d.stale = c.stale \/ d.stale = TRUE

LEMMA MadeLate ==
  ASSUME NEW c, c # None, IsCall(c)
  PROVE  LateOrGone(c, [c EXCEPT !.stale = TRUE])
BY DEF IsCall, LateOrGone

\* An answer arrives: a sign-out is effective, and nothing late undoes it.
LEMMA ReceiveQuiet ==
  ASSUME SignOutInv, NEW t \in Tabs, NEW k \in Purposes, Receive(t, k)
  PROVE  tab' = [u \in Tabs |-> tab'[u]] /\ AnswersHarmless' /\ SignedOutQuiet'
<1> DEFINE c == calls[t][k]
           rest == [calls EXCEPT ![t][k] = None]
           changed == c.op \in {"login", "select", "logout"} /\ c.answer.status = "ok"
           new == NewTab(t, c)
<1>1. /\ c # None /\ c.answer # None /\ IsCall(c) /\ c.op \in OpsOf(k) /\ Harmless(k, c)
      /\ cookie' = NewCookie(c)
      /\ tab' = [tab EXCEPT ![t] = new]
      /\ calls' = IF changed THEN Outdate(rest, t) ELSE rest
      /\ out' = IF c.op = "logout" /\ Signing = {} THEN t ELSE out
  BY DEF Receive, SignOutInv, CallsOK, CallOK, AnswersHarmless
<1>2. /\ tab' = [u \in Tabs |-> tab'[u]]
      /\ tab'[t] = new
      /\ \A u \in Tabs : u # t => tab'[u] = tab[u]
  <2> HIDE DEF new
  <2> QED
    BY <1>1 DEF SignOutInv
<1>3. \A u \in Tabs, l \in Purposes :
        \/ calls'[u][l] \in {None, calls[u][l]}
        \/ /\ l = "restore" /\ calls[u][l] # None
           /\ calls'[u][l] = [calls[u][l] EXCEPT !.stale = TRUE]
  <2>1. CASE calls' = rest
    BY <2>1 DEF SignOutInv, Shape
  <2>2. CASE calls' = [rest EXCEPT ![t]["restore"].stale = TRUE]
             /\ rest[t]["restore"] # None
    BY <2>2 DEF SignOutInv, Shape, Purposes
  <2> QED
    BY <1>1, <2>1, <2>2 DEF Outdate
<1>4. changed => calls'[t]["restore"] = None \/ calls'[t]["restore"].stale = TRUE
  <2> SUFFICES ASSUME changed
               PROVE  calls'[t]["restore"] = None \/ calls'[t]["restore"].stale = TRUE
    OBVIOUS
  <2>1. CASE rest[t]["restore"] = None
    BY <1>1, <2>1 DEF Outdate
  <2>2. CASE rest[t]["restore"] # None
    <3>1. calls' = [rest EXCEPT ![t]["restore"].stale = TRUE]
      BY <1>1, <2>2 DEF Outdate
    <3>2. k # "restore" /\ IsCall(calls[t]["restore"])
      BY <2>2 DEF SignOutInv, Shape, Purposes, CallsOK, CallOK
    <3> QED
      BY <3>1, <3>2 DEF SignOutInv, Shape, Purposes, IsCall
  <2> QED
    BY <2>1, <2>2
<1> HIDE DEF changed, rest
<1>5. \A u \in Tabs, l \in Purposes : LateOrGone(calls[u][l], calls'[u][l])
  <2> SUFFICES ASSUME NEW u \in Tabs, NEW l \in Purposes
               PROVE  LateOrGone(calls[u][l], calls'[u][l])
    OBVIOUS
  <2>1. CASE calls'[u][l] \in {None, calls[u][l]}
    BY <2>1 DEF LateOrGone
  <2>2. CASE calls[u][l] # None /\ calls'[u][l] = [calls[u][l] EXCEPT !.stale = TRUE]
    BY <2>2, MadeLate DEF SignOutInv, CallsOK, CallOK
  <2> QED
    BY <1>3, <2>1, <2>2
<1>6. AnswersHarmless'
  <2> SUFFICES ASSUME NEW u \in Tabs, NEW l \in Purposes, calls'[u][l] # None
               PROVE  Harmless(l, calls'[u][l])
    BY DEF AnswersHarmless
  <2>1. calls[u][l] # None /\ calls'[u][l].answer = calls[u][l].answer
    BY <1>5 DEF LateOrGone
  <2>2. Harmless(l, calls[u][l])
    BY <2>1 DEF SignOutInv, AnswersHarmless
  <2> QED
    BY <2>1, <2>2 DEF Harmless
<1>7. cookie' \in {cookie, None} \/ k = "sign"
  BY <1>1 DEF NewCookie, Harmless, OpsOf, SignedOut, Answer, Purposes
<1>8. CASE out' # out
  <2>1. k = "out" /\ c.op = "logout" /\ Signing = {} /\ out' = t
    BY <1>1, <1>8 DEF OpsOf, Purposes
  <2>2. c.answer.sets = TRUE /\ c.answer.session = None /\ c.answer.status = "ok"
    BY <1>1, <2>1 DEF Harmless, SignedOut, Answer
  <2>3. cookie' = None /\ new = ClosedTab /\ changed
    BY <1>1, <2>1, <2>2 DEF NewCookie, NewTab, changed
  <2>4. \A u \in Tabs : calls'[u]["sign"] = None
    BY <1>5, <2>1 DEF Signing, Purposes, LateOrGone
  <2> QED
    BY <1>2, <1>4, <1>6, <2>1, <2>3, <2>4 DEF SignedOutQuiet, OutOfDate
<1>9. CASE out' = out
  <2> SUFFICES ASSUME out # None PROVE SignedOutQuiet'
    BY <1>2, <1>6, <1>9 DEF SignedOutQuiet
  <2>1. /\ out \in Tabs /\ cookie = None /\ tab[out] = ClosedTab
        /\ \A u \in Tabs : calls[u]["sign"] = None \/ Rejected(calls[u]["sign"])
        /\ calls[out]["restore"] = None \/ OutOfDate(calls[out]["restore"])
    BY DEF SignOutInv, SignedOutQuiet
  <2>2. k = "sign" => c.answer = Unauthorized
    BY <1>1, <2>1 DEF Rejected
  <2>3. cookie' = None
    BY <1>1, <1>7, <2>1, <2>2 DEF NewCookie, Unauthorized, Answer
  <2>4. t = out => new = ClosedTab
    BY <1>1, <2>1, <2>2
      DEF NewTab, Restored, OutOfDate, Harmless, OpsOf, Purposes, Ok, Unauthorized,
          SignedOut, Answer, ClosedTab
  <2>5. \A u \in Tabs : calls'[u]["sign"] = None \/ Rejected(calls'[u]["sign"])
    BY <1>3, <2>1 DEF Purposes
  <2>6. calls'[out]["restore"] = None \/ OutOfDate(calls'[out]["restore"])
    BY <1>5, <2>1 DEF Purposes, OutOfDate, LateOrGone
  <2> QED
    BY <1>2, <1>9, <2>1, <2>3, <2>4, <2>5, <2>6 DEF SignedOutQuiet
<1> QED
  BY <1>2, <1>6, <1>8, <1>9

\* Calls that are given up, in a step that leaves the cookie and `out` alone.
LEMMA GivenUpLate ==
  ASSUME NEW c, c = None \/ IsCall(c)
  PROVE  LateOrGone(c, GivenUp(c))
BY DEF IsCall, LateOrGone, GivenUp

LEMMA QuietChange ==
  ASSUME SignOutInv, UNCHANGED <<cookie, out>>,
         \A u \in Tabs, l \in Purposes : LateOrGone(calls[u][l], calls'[u][l]),
         out # None => tab'[out] = ClosedTab
  PROVE  AnswersHarmless' /\ SignedOutQuiet'
<1>1. AnswersHarmless'
  BY DEF SignOutInv, AnswersHarmless, LateOrGone, Harmless
<1>2. SignedOutQuiet'
  <2> SUFFICES ASSUME out # None PROVE SignedOutQuiet'
    BY DEF SignedOutQuiet
  <2>1. /\ out \in Tabs /\ cookie = None
        /\ \A u \in Tabs : calls[u]["sign"] = None \/ Rejected(calls[u]["sign"])
        /\ calls[out]["restore"] = None \/ OutOfDate(calls[out]["restore"])
    BY DEF SignOutInv, SignedOutQuiet
  <2>2. \A u \in Tabs : calls'[u]["sign"] = None \/ Rejected(calls'[u]["sign"])
    BY <2>1 DEF Purposes, LateOrGone, Rejected
  <2>3. calls'[out]["restore"] = None \/ OutOfDate(calls'[out]["restore"])
    BY <2>1 DEF Purposes, LateOrGone, OutOfDate
  <2> QED
    BY <2>1, <2>2, <2>3 DEF SignedOutQuiet
<1> QED
  BY <1>1, <1>2

\* One step of any tab keeps what SignOutInv says beyond ApprovalInv.
LEMMA TabQuiet ==
  ASSUME SignOutInv, NEW t \in Tabs, OfTab(t)
  PROVE  tab' = [u \in Tabs |-> tab'[u]] /\ AnswersHarmless' /\ SignedOutQuiet'
<1>1. ASSUME NEW u, Login(t, u)
      PROVE  tab' = [v \in Tabs |-> tab'[v]] /\ AnswersHarmless' /\ SignedOutQuiet'
  <2> DEFINE c == Call("login", u)
  <2>1. c.answer = None
    BY NewCall
  <2>2. Send(t, "sign", c) /\ out' = None /\ tab' = tab /\ "sign" \in Purposes
    BY <1>1 DEF Login, Purposes
  <2> HIDE DEF c
  <2>3. \A v \in Tabs, l \in Purposes :
          calls'[v][l] = IF v = t /\ l = "sign" THEN c ELSE calls[v][l]
    BY <2>2, SendChanges DEF SignOutInv
  <2>4. AnswersHarmless'
    BY <2>1, <2>2, <2>3 DEF SignOutInv, AnswersHarmless, Harmless
  <2> QED
    BY <2>2, <2>4 DEF SignOutInv, SignedOutQuiet
<1>2. ASSUME NEW p, Select(t, p)
      PROVE  tab' = [v \in Tabs |-> tab'[v]] /\ AnswersHarmless' /\ SignedOutQuiet'
  BY <1>2, AskQuiet DEF Select, Purposes
<1>3. CASE Logout(t)
  BY <1>3, AskQuiet DEF Logout, Purposes
<1>4. CASE Restore(t)
  BY <1>4, AskQuiet DEF Restore, Purposes
<1>5. CASE Prepare(t)
  <2>1. PICK asks : Send(t, "tx", Call("prepare", asks))
    BY <1>5 DEF Prepare
  <2> QED
    BY <1>5, <2>1, AskQuiet DEF Prepare, Purposes
<1>6. CASE Approve(t)
  <2>1. PICK asks : Send(t, "tx", Call("execute", asks))
    BY <1>6 DEF Approve
  <2> QED
    BY <1>6, <2>1, AskQuiet DEF Approve, Purposes
<1>7. CASE Adopt(t)
  <2>1. /\ tab' = [v \in Tabs |-> tab'[v]]
        /\ out # None => tab'[out] = ClosedTab
    BY <1>7 DEF Adopt, SignOutInv, SignedOutQuiet, ClosedTab
  <2> QED
    BY <1>7, <2>1, QuietChange DEF Adopt, LateOrGone
<1>8. CASE Submit(t) \/ NoAccount(t) \/ Reject(t) \/ TicketExpires(t)
  <2>1. UNCHANGED <<cookie, tab, calls, out>>
    BY <1>8 DEF Submit, NoAccount, Reject, TicketExpires
  <2> QED
    BY <2>1 DEF SignOutInv, AnswersHarmless, SignedOutQuiet
<1>9. ASSUME NEW k \in Purposes, Serve(t, k)
      PROVE  tab' = [v \in Tabs |-> tab'[v]] /\ AnswersHarmless' /\ SignedOutQuiet'
  BY <1>9, ServeQuiet
<1>10. ASSUME NEW k \in Purposes, Receive(t, k)
       PROVE  tab' = [v \in Tabs |-> tab'[v]] /\ AnswersHarmless' /\ SignedOutQuiet'
  BY <1>10, ReceiveQuiet
<1>11. ASSUME NEW k \in Purposes, TimeOut(t, k)
       PROVE  tab' = [v \in Tabs |-> tab'[v]] /\ AnswersHarmless' /\ SignedOutQuiet'
  <2> DEFINE d == GivenUp(calls[t][k])
  <2>1. Send(t, k, d) /\ UNCHANGED <<cookie, tab, out>>
    BY <1>11 DEF TimeOut
  <2>2. LateOrGone(calls[t][k], d)
    BY GivenUpLate DEF SignOutInv, CallsOK, CallOK
  <2> HIDE DEF d
  <2>3. \A u \in Tabs, l \in Purposes : LateOrGone(calls[u][l], calls'[u][l])
    BY <2>1, <2>2, SendChanges DEF SignOutInv, LateOrGone
  <2> QED
    BY <2>1, <2>3, QuietChange DEF SignOutInv, SignedOutQuiet
<1>12. CASE Reload(t)
  <2>1. /\ UNCHANGED <<cookie, out>>
        /\ tab' = [tab EXCEPT ![t] = ClosedTab]
        /\ calls' = [calls EXCEPT ![t] = [k \in Purposes |-> GivenUp(calls[t][k])]]
    BY <1>12 DEF Reload
  <2>2. \A u \in Tabs, l \in Purposes :
          calls'[u][l] = IF u = t THEN GivenUp(calls[t][l]) ELSE calls[u][l]
    BY <2>1 DEF SignOutInv, Shape
  <2>3. \A u \in Tabs, l \in Purposes : LateOrGone(calls[u][l], calls'[u][l])
    <3> SUFFICES ASSUME NEW u \in Tabs, NEW l \in Purposes
                 PROVE  LateOrGone(calls[u][l], calls'[u][l])
      OBVIOUS
    <3>1. LateOrGone(calls[t][l], GivenUp(calls[t][l]))
      BY GivenUpLate DEF SignOutInv, CallsOK, CallOK
    <3> QED
      BY <2>2, <3>1 DEF LateOrGone
  <2>4. tab' = [u \in Tabs |-> tab'[u]] /\ (out # None => tab'[out] = ClosedTab)
    BY <2>1 DEF SignOutInv, SignedOutQuiet
  <2> QED
    BY <2>1, <2>3, <2>4, QuietChange
<1> QED
  BY <1>1, <1>2, <1>3, <1>4, <1>5, <1>6, <1>7, <1>8, <1>9, <1>10, <1>11, <1>12 DEF OfTab

LEMMA SignOutInit ==
  ASSUME Init
  PROVE  SignOutInv
<1>1. Shape /\ CallsOK
  BY ApprovalInit DEF ApprovalInv
<1> QED
  BY <1>1 DEF Init, SignOutInv, AnswersHarmless, SignedOutQuiet

LEMMA SignOutStep ==
  ASSUME SignOutInv, ApprovalInv', [Next]_vars
  PROVE  SignOutInv'
<1>1. ASSUME NEW t \in Tabs, OfTab(t)
      PROVE  tab' = [u \in Tabs |-> tab'[u]] /\ AnswersHarmless' /\ SignedOutQuiet'
  BY <1>1, TabQuiet
<1>2. ASSUME UNCHANGED <<cookie, tab, calls, out>>
      PROVE  tab' = [u \in Tabs |-> tab'[u]] /\ AnswersHarmless' /\ SignedOutQuiet'
  BY <1>2 DEF SignOutInv, AnswersHarmless, SignedOutQuiet
<1>3. tab' = [u \in Tabs |-> tab'[u]] /\ AnswersHarmless' /\ SignedOutQuiet'
  BY <1>1, <1>2 DEF Next, TokenExpires, Withdraw, vars
<1> QED
  BY <1>3 DEF SignOutInv, ApprovalInv

\* Who signs out in a tab, with no sign-in or choice of Party under way, stays
\* signed out until somebody signs in again: whatever answers are still on their
\* way, in any number of tabs.
THEOREM SignedOutForGood == Spec => []SignedOutStays
<1>1. Spec => []ApprovalInv
  BY ApprovalInit, ApprovalStep, PTL DEF Spec
<1>2. Spec => []SignOutInv
  BY <1>1, SignOutInit, SignOutStep, PTL DEF Spec
<1> QED
  BY <1>2, OutImplies, PTL
=============================================================================
