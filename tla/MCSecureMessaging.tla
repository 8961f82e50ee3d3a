--------------------------- MODULE MCSecureMessaging ---------------------------
(* Instances of SecureMessaging small enough for TLC. *)
EXTENDS SecureMessaging, TLC

CONSTANTS alice, bob, charlie, t1, t2

\* A room of two whose first admission is over and read by both.
RoomOfTwo ==
  /\ log = <<Handshake(1, {}, bob),
             Ciphertext("state", alice, {bob}, 1, 0, {alice, bob})>>
  /\ mls = [n \in Nodes |->
       CASE n = alice -> [NewGroup EXCEPT !.epoch = 1, !.gen = 1, !.roster = {alice, bob}]
         [] n = bob   -> [NewGroup EXCEPT !.epoch = 1, !.opened = {<<alice, 0>>},
                                          !.roster = {alice, bob}, !.processed = {1}]
         [] OTHER     -> NoGroup]
  /\ history = [n \in Nodes |-> {}]
  /\ done = [n \in Nodes |-> IF n = bob THEN {2} ELSE {}]
  /\ cursor = [n \in Nodes |-> IF n \in {alice, bob} THEN 2 ELSE 0]
  /\ offset = cursor
  /\ task = [n \in Nodes |-> Free]
  /\ session = [n \in Nodes |-> Quiet]
  /\ crashes = 0
  /\ lost = 0

\* What follows when a third installation asks to join it.
FromRoomOfTwo == RoomOfTwo /\ [][Next]_vars
=============================================================================
