------------------------------ MODULE DevNetWallet ------------------------------
(***************************************************************************)
(* The DevNet wallet: the tabs of a browser                                *)
(* (frontend/lib/devnet-wallet.ts, WalletProvider.tsx,                     *)
(* DevNetTransactionApproval.tsx), which share a cookie, and the server    *)
(* behind /api/devnet (frontend/lib/server/devnet-session.ts), which keeps *)
(* nothing: the session is sealed in the cookie, and what the user was     *)
(* asked to approve in a ticket.                                           *)
(*                                                                         *)
(* A request carries the cookie that the browser has when it is sent.  The *)
(* server takes it up later, and its answer arrives later still, or never: *)
(* meanwhile the same tab or another one may sign in, choose another Party *)
(* or sign out.  The user's rights are the ledger's and may be withdrawn;  *)
(* sessions and tickets expire.                                            *)
(***************************************************************************)
EXTENDS Integers, FiniteSets

CONSTANTS
  Tabs,           \* tabs of the browser
  Users,          \* ledger users who sign in
  Parties,        \* Parties they may act as
  None,           \* no session, account, request, answer, transaction
  MaxLogins,      \* bound: sign-ins
  MaxTx,          \* bound: transactions
  MaxCalls,       \* bound: requests under way at a time
  MaxFaults       \* bound: requests given up, reloads, expiries, withdrawals of rights

ASSUME NoneAssumption == None \notin Users \cup Parties
ASSUME BoundsAssumption == {MaxLogins, MaxTx, MaxCalls, MaxFaults} \subseteq Nat

VARIABLES
  rights,    \* the ledger: which Parties each user can act as
  executed,  \* the ledger: the transactions it executed
  cookie,    \* the browser: the sealed session
  tab,       \* per tab, the cached account and the Party of the page's session
  calls,     \* per tab and purpose, the request that is under way
  tx,        \* per tab, the transaction it works on
  expired,   \* sign-ins whose token the ledger no longer accepts
  logins, asked,  \* how many sign-ins and transactions there were
  approved,  \* what the user approved, as the dialog showed it
  out,       \* the tab that signed out last, None once there was a sign-in after it
  faults

ledger == <<rights, executed>>
vars == <<ledger, cookie, tab, calls, tx, expired, logins, asked, approved, out, faults>>

Purposes == {"sign", "out", "restore", "tx"}

Session(u, p, n) == [user |-> u, party |-> p, login |-> n]

\* The account is what the last answer said.  A tab does not ask again for two
\* seconds, in which anything may happen: any account may be out of date.
ClosedTab == [account |-> None, session |-> None]

\* A call remembers whether the tab has changed its account since (`revision`),
\* and whether the tab still waits for it.
Call(op, arg) ==
  [op |-> op, arg |-> arg, cookie |-> cookie, login |-> logins + 1,
   stale |-> FALSE, heard |-> TRUE, answer |-> None]

Send(t, k, call) == calls' = [calls EXCEPT ![t][k] = call]

UnderWay == {c \in Tabs \X Purposes : calls[c[1]][c[2]] # None}

MayCall(t, k) == calls[t][k] = None /\ Cardinality(UnderWay) < MaxCalls

\* `revision++`: what an earlier restore brings is out of date.
Outdate(of, t) ==
  IF of[t]["restore"] = None THEN of ELSE [of EXCEPT ![t]["restore"].stale = TRUE]

-----------------------------------------------------------------------------
\* The server

Answer(status, account, sets, session) ==
  [status |-> status, account |-> account, sets |-> sets, session |-> session]

\* An answer leaves the cookie alone, replaces it, or clears it: the one that
\* says 401 does, whatever it was about.
Ok(account) == Answer("ok", account, FALSE, None)
SignedIn(s) == Answer("ok", [user |-> s.user, party |-> s.party], TRUE, s)
SignedOut == Answer("ok", None, TRUE, None)
Forbidden == Answer("403", None, FALSE, None)
Unauthorized == Answer("401", None, TRUE, None)

Valid(s) == s # None /\ s.login \notin expired

\* accountFor(): the ledger is asked for the user's rights every time.
Authorized(s) == s.party \in rights[s.user]

\* Mutant: the selected Party replaces the one that the commands name.
CheckedAnyway(s, commands) == TRUE

\* checkedCommands(): only the selected Party may act.
Checked(s, commands) == commands.actAs = s.party

\* The digest covers the commands, the user and the Party.
TicketFits(s, commands) ==
  LET ticket == commands.ticket
  IN  /\ ~ticket.old
      /\ ticket.user = s.user /\ ticket.party = s.party
      /\ ticket.id = commands.id /\ ticket.actAs = commands.actAs

\* What the server may answer.  Whether a token ran out, the server may know
\* itself or hear from the ledger; only the latter is an error to a GET.  A
\* sign-in may be refused for its password or its token, whatever the rights.
AccountOf(s) == [user |-> s.user, party |-> s.party]

AuthorizedAnswer(s, call) ==
  CASE call.op = "restore" -> Ok(AccountOf(s))
    [] call.op = "select"  -> IF call.arg \in rights[s.user]
                              THEN SignedIn([s EXCEPT !.party = call.arg]) ELSE Forbidden
    [] call.op = "prepare" -> IF Checked(s, call.arg) THEN Ok(AccountOf(s)) ELSE Forbidden
    [] call.op = "execute" -> IF Checked(s, call.arg) /\ TicketFits(s, call.arg)
                              THEN Ok(AccountOf(s)) ELSE Forbidden

Answers(call) ==
  LET s == call.cookie
  IN  IF call.op = "logout" THEN {SignedOut}
      ELSE IF call.op = "login"
      THEN {Unauthorized} \cup
           (IF rights[call.arg] = {} THEN {Forbidden}
            ELSE {SignedIn(Session(call.arg, p, call.login)) : p \in rights[call.arg]})
      ELSE IF ~Valid(s)
      THEN (IF call.op = "restore" THEN {Ok(None)} ELSE {})
             \cup (IF call.op = "restore" /\ s = None THEN {} ELSE {Unauthorized})
      ELSE IF ~Authorized(s) THEN {Forbidden}
      ELSE {AuthorizedAnswer(s, call)}

\* A call that its tab gave up is executed nevertheless, if it is a transaction.
Serve(t, k) ==
  LET call == calls[t][k]
  IN  /\ call # None /\ call.answer = None
      /\ \E a \in Answers(call) :
           /\ Send(t, k, IF call.heard THEN [call EXCEPT !.answer = a] ELSE None)
           /\ executed' = IF call.op = "execute" /\ a.status = "ok"
                          THEN executed \cup {[id |-> call.arg.id, user |-> call.cookie.user,
                                               party |-> call.cookie.party]}
                          ELSE executed
      /\ UNCHANGED <<rights, cookie, tab, tx, expired, logins, asked, approved, out, faults>>

-----------------------------------------------------------------------------
\* What a tab asks for

\* DevNetLogin: there is no session on the page.
Login(t, u) ==
  /\ MayCall(t, "sign") /\ tab[t].session = None
  /\ logins < MaxLogins
  /\ Send(t, "sign", Call("login", u))
  /\ logins' = logins + 1
  /\ out' = None
  /\ UNCHANGED <<ledger, cookie, tab, tx, expired, asked, approved, faults>>

Select(t, p) ==
  /\ MayCall(t, "sign") /\ tab[t].account # None
  /\ Send(t, "sign", Call("select", p))
  /\ UNCHANGED <<ledger, cookie, tab, tx, expired, logins, asked, approved, out, faults>>

\* Choosing a Party does not disable the button that signs out.
Logout(t) ==
  /\ MayCall(t, "out") /\ tab[t].session # None
  /\ Send(t, "out", Call("logout", None))
  /\ UNCHANGED <<ledger, cookie, tab, tx, expired, logins, asked, approved, out, faults>>

\* restore(): one request for all who wait for it.
Restore(t) ==
  /\ MayCall(t, "restore")
  /\ Send(t, "restore", Call("restore", None))
  /\ UNCHANGED <<ledger, cookie, tab, tx, expired, logins, asked, approved, out, faults>>

\* The page takes over the account that was restored.
Adopt(t) ==
  LET account == tab[t].account
  IN  /\ tab' = [tab EXCEPT ![t].session = IF account = None THEN None ELSE account.party]
      /\ UNCHANGED <<ledger, cookie, calls, tx, expired, logins, asked, approved, out, faults>>

-----------------------------------------------------------------------------
\* prepareExecuteAndWait(): the account, the ticket, the dialog, the execution

Idle ==
  [pc |-> "idle", id |-> 0, actAs |-> None, shown |-> None, agreed |-> FALSE, ticket |-> None]

\* A room acts as the Party its page's session had.
Submit(t) ==
  /\ tx[t] = Idle /\ calls[t]["tx"] = None /\ tab[t].session # None
  /\ asked < MaxTx
  /\ asked' = asked + 1
  /\ tx' = [tx EXCEPT ![t] =
       [Idle EXCEPT !.pc = "restore", !.id = asked + 1, !.actAs = tab[t].session]]
  /\ UNCHANGED <<ledger, cookie, tab, calls, expired, logins, approved, out, faults>>

\* The tab gives up when it has no account.
NoAccount(t) ==
  /\ tx[t].pc = "restore" /\ tab[t].account = None
  /\ tx' = [tx EXCEPT ![t] = Idle]
  /\ UNCHANGED <<ledger, cookie, tab, calls, expired, logins, asked, approved, out, faults>>

\* The dialog will show the Party of the tab's account, the server goes by the
\* cookie; `agreed` tells whether they were the same.
Prepare(t) ==
  LET account == tab[t].account
      asks == [tx[t] EXCEPT !.pc = "prepare", !.shown = account.party,
                            !.agreed = cookie # None /\ account = AccountOf(cookie)]
  IN  /\ tx[t].pc = "restore" /\ account # None /\ MayCall(t, "tx")
      /\ tx' = [tx EXCEPT ![t] = asks]
      /\ Send(t, "tx", Call("prepare", asks))
      /\ UNCHANGED <<ledger, cookie, tab, expired, logins, asked, approved, out, faults>>

Approve(t) ==
  LET reviewed == [tx[t] EXCEPT !.pc = "execute"]
  IN  /\ tx[t].pc = "dialog" /\ MayCall(t, "tx")
      /\ tx' = [tx EXCEPT ![t] = reviewed]
      /\ approved' = approved \cup {reviewed}
      /\ Send(t, "tx", Call("execute", reviewed))
      /\ UNCHANGED <<ledger, cookie, tab, expired, logins, asked, out, faults>>

Reject(t) ==
  /\ tx[t].pc = "dialog"
  /\ tx' = [tx EXCEPT ![t] = Idle]
  /\ UNCHANGED <<ledger, cookie, tab, calls, expired, logins, asked, approved, out, faults>>

-----------------------------------------------------------------------------
\* Answers

\* Mutant: whatever a restore brings is adopted.
RestoreAnyway(t, call) ==
  [tab[t] EXCEPT !.account = call.answer.account]

Restored(t, call) ==
  IF call.stale THEN tab[t]
  ELSE [tab[t] EXCEPT !.account = call.answer.account]

NewTab(t, call) ==
  CASE call.answer.status = "401" -> ClosedTab
    [] call.answer.status = "403" -> tab[t]
    [] OTHER ->
         CASE call.op \in {"login", "select"} ->
                [tab[t] EXCEPT !.account = call.answer.account]
           [] call.op = "logout"  -> ClosedTab
           [] call.op = "restore" -> Restored(t, call)
           [] OTHER               -> tab[t]

\* The ticket is bound to the commands, the user and the Party.
NewTx(t, call) ==
  IF call.op = "prepare" /\ call.answer.status = "ok"
  THEN [call.arg EXCEPT !.pc = "dialog",
          !.ticket = [id |-> call.arg.id, actAs |-> call.arg.actAs, old |-> FALSE,
                      user |-> call.answer.account.user, party |-> call.answer.account.party]]
  ELSE IF call.op \in {"prepare", "execute"} THEN Idle
  ELSE tx[t]

Signing == {t \in Tabs : calls[t]["sign"] # None}

NewCookie(call) == IF call.answer.sets THEN call.answer.session ELSE cookie

Receive(t, k) ==
  LET call == calls[t][k]
      rest == [calls EXCEPT ![t][k] = None]
      changed == call.op \in {"login", "select", "logout"} /\ call.answer.status = "ok"
  IN  /\ call # None /\ call.answer # None
      /\ cookie' = NewCookie(call)
      /\ tab' = [tab EXCEPT ![t] = NewTab(t, call)]
      /\ tx' = [tx EXCEPT ![t] = NewTx(t, call)]
      /\ calls' = IF changed THEN Outdate(rest, t) ELSE rest
      /\ out' = IF call.op = "logout" /\ Signing = {} THEN t ELSE out
      /\ UNCHANGED <<ledger, expired, logins, asked, approved, faults>>

Fault == faults < MaxFaults /\ faults' = faults + 1

\* A request that was given up: it may still be on its way.
GivenUp(call) ==
  IF call # None /\ call.op = "execute" /\ call.answer = None
  THEN [call EXCEPT !.heard = FALSE] ELSE None

TimeOut(t, k) ==
  /\ Fault
  /\ calls[t][k] # None /\ calls[t][k].heard
  /\ Send(t, k, GivenUp(calls[t][k]))
  /\ tx' = [tx EXCEPT ![t] = IF k = "tx" THEN Idle ELSE @]
  /\ UNCHANGED <<ledger, cookie, tab, expired, logins, asked, approved, out>>

Reload(t) ==
  /\ Fault
  /\ tab[t] # ClosedTab
  /\ tab' = [tab EXCEPT ![t] = ClosedTab]
  /\ tx' = [tx EXCEPT ![t] = Idle]
  /\ calls' = [calls EXCEPT ![t] = [k \in Purposes |-> GivenUp(calls[t][k])]]
  /\ UNCHANGED <<ledger, cookie, expired, logins, asked, approved, out>>

-----------------------------------------------------------------------------
\* Time, and the ledger's operator

TokenExpires(n) ==
  /\ Fault
  /\ n \notin expired /\ n <= logins
  /\ expired' = expired \cup {n}
  /\ UNCHANGED <<ledger, cookie, tab, calls, tx, logins, asked, approved, out>>

TicketExpires(t) ==
  /\ Fault
  /\ tx[t].pc = "dialog" /\ ~tx[t].ticket.old
  /\ tx' = [tx EXCEPT ![t] = [@ EXCEPT !.ticket.old = TRUE]]
  /\ UNCHANGED <<ledger, cookie, tab, calls, expired, logins, asked, approved, out>>

Withdraw(u, p) ==
  /\ Fault
  /\ p \in rights[u]
  /\ rights' = [rights EXCEPT ![u] = @ \ {p}]
  /\ UNCHANGED <<executed, cookie, tab, calls, tx, expired, logins, asked, approved, out>>

-----------------------------------------------------------------------------
Init ==
  /\ rights = [u \in Users |-> Parties]
  /\ executed = {} /\ approved = {}
  /\ cookie = None
  /\ tab = [t \in Tabs |-> ClosedTab]
  /\ calls = [t \in Tabs |-> [k \in Purposes |-> None]]
  /\ tx = [t \in Tabs |-> Idle]
  /\ expired = {} /\ logins = 0 /\ asked = 0
  /\ out = None /\ faults = 0

OfTab(t) ==
  \/ \E u \in Users : Login(t, u)
  \/ \E p \in Parties : Select(t, p)
  \/ Logout(t)
  \/ Restore(t)
  \/ Adopt(t)
  \/ Submit(t)
  \/ NoAccount(t)
  \/ Prepare(t)
  \/ Approve(t)
  \/ Reject(t)
  \/ \E k \in Purposes : Serve(t, k) \/ Receive(t, k) \/ TimeOut(t, k)
  \/ Reload(t)
  \/ TicketExpires(t)

Next ==
  \/ \E t \in Tabs : OfTab(t)
  \/ \E n \in 1 .. MaxLogins : TokenExpires(n)
  \/ \E u \in Users, p \in Parties : Withdraw(u, p)

Spec == Init /\ [][Next]_vars

-----------------------------------------------------------------------------
\* Properties

\* Whoever signs out, with no sign-in or choice of a Party under way in any tab,
\* is signed out until somebody signs in again: no late answer brings the
\* session or, in that tab, the account back.
SignedOutStays ==
  out # None => cookie = None /\ tab[out].account = None /\ tab[out].session = None

\* Every transaction was approved in a dialog, and executed for the user of its
\* ticket and the Party that the commands named in the dialog, however the session
\* changed meanwhile in any tab.  The Party above the commands is the tab's idea of
\* the account: it is the right one if the cookie was of the same account when the
\* transaction was prepared.
ExecutedAsApproved ==
  \A e \in executed : \E a \in approved :
    /\ a.id = e.id /\ a.ticket.user = e.user /\ a.actAs = e.party
    /\ a.agreed => a.shown = e.party
=============================================================================
