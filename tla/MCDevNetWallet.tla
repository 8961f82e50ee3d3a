----------------------------- MODULE MCDevNetWallet -----------------------------
(* An instance of DevNetWallet small enough for TLC. *)
EXTENDS DevNetWallet, TLC

CONSTANTS tab1, tab2, user, partyA, partyB

\* The last transaction leaves nothing behind but the record of it: what follows
\* is no different from what happens without it.
Busy == asked < MaxTx \/ \E t \in Tabs : tx[t] # Idle \/ calls[t]["tx"] # None

UntilTheLastTransaction == Init /\ [][Next /\ Busy]_vars

TabsAndParties == Permutations(Tabs) \cup Permutations(Parties)
=============================================================================
