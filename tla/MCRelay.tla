-------------------------------- MODULE MCRelay --------------------------------
(* An instance of RelayMessaging small enough for TLC: its behaviours, but for *)
(* steps that lead nowhere.                                                     *)
EXTENDS RelayMessaging

CONSTANTS alice, bob, carol, c1

AliceCreates == [c \in Conversations |-> alice]

\* Nothing comes of what the others do before alice, who creates every
\* conversation, has opened a page: hers is the first.
AliceFirst == rt[1].page # "none" => Home(1) = alice

\* What r would refuse, or find nothing to do for, is not asked of it.
HasPurpose(r) ==
  LET s == rt'[r]
  IN  rt[r].op = "none" /\ s.op # "none" =>
        /\ s.pc = "pull" => HandshakesAfter(Home(r), rt[r].cursor) # {}
        /\ s.pc = "create" => Group(r, s.conv) = None
        /\ s.pc = "fetch" => keyPackages[s.peer] # None
        /\ s.pc \in {"fetch", "prepare"} => MayChange(Group(r, s.conv), s.op, s.peer)

\* The last runtimes are not left or reloaded: none would take over from them.
SomeoneTakesOver ==
  (\A r \in Runtimes : rt[r].page # "none") =>
    \A r \in Runtimes : rt[r].page = "open" /\ rt[r].op # "init" => rt'[r].page = "open"

Purposeful ==
  Init /\ [][Next /\ AliceFirst' /\ (\A r \in Runtimes : HasPurpose(r)) /\ SomeoneTakesOver]_vars

BobLikeCarol == Permutations({bob, carol})
=============================================================================
