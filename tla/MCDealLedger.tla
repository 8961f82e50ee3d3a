---------------------------- MODULE MCDealLedger ----------------------------
(* Instances of DealLedger small enough for TLC. *)
EXTENDS DealLedger, TLC

CONSTANTS alice, bob, carol, dso, mint, cc, d1, d2, a1, a2, r1, r2, r3

MCParties == {alice, bob, carol}

\* alice sells and delivers to bob with a registry, or sells work that bob
\* delivers without one; one offer has bob as the admin of its own registry.
EscrowTerms ==
  [seller |-> alice, buyer |-> bob, fulfiller |-> alice, reviewer |-> bob,
   admin |-> dso, instrument |-> cc, amount |-> 1, expires |-> 1]

PlainTerms == [EscrowTerms EXCEPT !.admin = None, !.fulfiller = bob, !.reviewer = alice]
OwnRegistryTerms == [EscrowTerms EXCEPT !.admin = bob]
UnparsableTerms == [EscrowTerms EXCEPT !.amount = None]

FittingSpec ==
  [deal |-> d1, sender |-> bob, receiver |-> alice, executor |-> alice,
   admin |-> dso, instrument |-> cc, amount |-> 1,
   allocateBefore |-> 1, settleBefore |-> 2]

\* A specification that fits a deal, the same for the other deal, and one with
\* another executor and amount.
MCSpecs ==
  {FittingSpec,
   [FittingSpec EXCEPT !.deal = d2],
   [FittingSpec EXCEPT !.executor = carol, !.amount = 2]}

\* Contracts a party signs alone: with an allocation made for their deal or for
\* another one, or with none, in whatever round.
Forged(tpl, d, round, alloc) ==
  [tpl |-> tpl, deal |-> d, terms |-> EscrowTerms, round |-> round, alloc |-> alloc]

MCCreations ==
  {Forged("DealFulfillment", d1, 1, a2),
   Forged("FulfillmentApproval", d2, 0, a1)}

\* Creations are interchangeable.
Symmetries == Permutations(Roots)

MCTerms == {EscrowTerms, PlainTerms, OwnRegistryTerms, UnparsableTerms}
=============================================================================
