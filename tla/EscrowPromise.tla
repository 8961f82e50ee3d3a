---------------------------- MODULE EscrowPromise ----------------------------
(***************************************************************************)
(* What VINSS promises the two parties of a deal, without contracts,       *)
(* allocations or clients: a deal moves along one path, work on an escrow  *)
(* deal starts only after it is funded, the payer's approval is what lets  *)
(* money move, and it moves once.  The promise is void for the deals whose *)
(* parties go behind its back: a deal never leaves that phase.             *)
(***************************************************************************)
EXTENDS Integers

CONSTANTS Deals

VARIABLES
  phase,     \* where each deal stands
  escrowed,  \* the deals backed by an allocation
  payments   \* how many times the payer's money went to the payee

vars == <<phase, escrowed, payments>>

Phases == {"none", "void", "offered", "closed", "agreed", "funded", "delivered",
           "revising", "approved", "settled"}

TypeOK ==
  /\ phase \in [Deals -> Phases]
  /\ escrowed \subseteq Deals
  /\ payments \in [Deals -> Nat]

Init ==
  /\ phase = [d \in Deals |-> "none"]
  /\ escrowed = {}
  /\ payments = [d \in Deals |-> 0]

Goto(d, to) == phase' = [phase EXCEPT ![d] = to]

Offer(d)   == Goto(d, "offered") /\ UNCHANGED <<escrowed, payments>>
Agree(d)   == Goto(d, "agreed") /\ UNCHANGED <<escrowed, payments>>
Fund(d)    == Goto(d, "funded") /\ escrowed' = escrowed \cup {d} /\ UNCHANGED payments
Deliver(d) == Goto(d, "delivered") /\ UNCHANGED <<escrowed, payments>>
SendBack(d) == Goto(d, "revising") /\ UNCHANGED <<escrowed, payments>>
Approve(d) == Goto(d, "approved") /\ UNCHANGED <<escrowed, payments>>
Pay(d)     == /\ d \in escrowed
              /\ Goto(d, "settled")
              /\ payments' = [payments EXCEPT ![d] = @ + 1]
              /\ UNCHANGED escrowed

\* The buyer rejects, or a party takes back what it alone has signed.
Close(d)   == Goto(d, "closed") /\ escrowed' = escrowed \ {d} /\ UNCHANGED payments

\* The paths of a deal: what may happen to deal d when it stands at `at`.
Step(d, at) ==
  CASE at = "none"      -> Offer(d)
    [] at = "offered"   -> Agree(d) \/ Close(d)
    [] at = "agreed"    -> Fund(d) \/ Deliver(d)
    [] at = "funded"    -> Deliver(d)
    [] at = "delivered" -> SendBack(d) \/ Approve(d) \/ Close(d)
    [] at = "revising"  -> Deliver(d) \/ Close(d)
    [] at = "approved"  -> Pay(d) \/ Close(d)
    [] OTHER            -> FALSE

\* The parties create contracts of their own that name the deals of S.
Void(S) ==
  /\ phase' = [d \in Deals |-> IF d \in S THEN "void" ELSE phase[d]]
  /\ escrowed' = escrowed \ S
  /\ payments' = [d \in Deals |-> IF d \in S THEN 0 ELSE payments[d]]

Next ==
  \/ \E S \in SUBSET Deals : Void(S)
  \/ \E d \in Deals : Step(d, phase[d])

Spec == Init /\ [][Next]_vars
=============================================================================
