---------------------------- MODULE MCDealClient ----------------------------
(* Instances of DealClient small enough for TLC. *)
EXTENDS DealClient, TLC

CONSTANTS alice, bob, dso, cc, d1, d2, a1, a2, a3, r1, tabA, tabB, tabB2

MCParties == {alice, bob}

OneTabEach == tabA :> alice @@ tabB :> bob
TwoPayerTabs == tabA :> alice @@ tabB :> bob @@ tabB2 :> bob

EscrowTerms ==
  [seller |-> alice, buyer |-> bob, fulfiller |-> alice, reviewer |-> bob,
   admin |-> dso, instrument |-> cc, amount |-> 1, expires |-> 3]

PlainTerms == [EscrowTerms EXCEPT !.admin = None]

UnparsableTerms == [EscrowTerms EXCEPT !.amount = None]

MCTerms == {EscrowTerms, PlainTerms, UnparsableTerms}

MCEscrowTerms == {EscrowTerms}

\* Allocation identifiers are interchangeable, and so are the payer's tabs.
Symmetries == Permutations(AllocIds) \cup Permutations({tabB, tabB2})

\* Every specification the wallet can request in these instances.
MCSpecs ==
  [deal : Deals, sender : {bob}, receiver : {alice}, executor : {alice},
   admin : {dso}, instrument : {cc}, amount : {1},
   allocateBefore : 0 .. MaxTime, settleBefore : {EscrowTerms.expires}]
=============================================================================
