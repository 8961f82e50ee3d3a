----------------------------- MODULE RelayTransport -----------------------------
(***************************************************************************)
(* The relay: what src/messaging/relay/memory-transport.ts keeps and does  *)
(* with each request.  Its operations are synchronous, so that a request   *)
(* takes effect as a whole or not at all; http-transport.ts carries them,  *)
(* and an answer that does not arrive fails the caller either way.         *)
(***************************************************************************)
EXTENDS Integers, Sequences

CONSTANTS
  Installations,   \* installations that publish and fetch
  Conversations,   \* conversations
  None             \* no KeyPackage published

VARIABLES
  keyPackages,  \* per installation, the KeyPackage it published last
  inbox,        \* per installation, the handshakes addressed to it; the index is the sequence number
  ciphertexts   \* per conversation, the ciphertexts in order of arrival

RelayInit ==
  /\ keyPackages = [n \in Installations |-> None]
  /\ inbox = [n \in Installations |-> <<>>]
  /\ ciphertexts = [c \in Conversations |-> <<>>]

PublishKeyPackage(n, package) ==
  /\ keyPackages' = [keyPackages EXCEPT ![n] = package]
  /\ UNCHANGED <<inbox, ciphertexts>>

\* Two deliveries of one kind to one recipient, or one to its own sender, make
\* the relay refuse the whole batch.
ValidBatch(deliveries) ==
  /\ \A i \in DOMAIN deliveries : deliveries[i].from # deliveries[i].to
  /\ \A i, j \in DOMAIN deliveries :
       (deliveries[i].kind = deliveries[j].kind /\ deliveries[i].to = deliveries[j].to) => i = j

\* What of a batch is addressed to n, in the order of the batch.
Addressed(deliveries, n) ==
  LET among[i \in 0 .. Len(deliveries)] ==
        IF i = 0 THEN <<>>
        ELSE IF deliveries[i].to = n THEN Append(among[i - 1], deliveries[i])
        ELSE among[i - 1]
  IN  among[Len(deliveries)]

\* The envelope keeps neither the identifier its sender gave the delivery nor
\* a trace that an equal one is there already.
PublishHandshakes(deliveries) ==
  /\ ValidBatch(deliveries)
  /\ inbox' = [n \in Installations |-> inbox[n] \o Addressed(deliveries, n)]
  /\ UNCHANGED <<keyPackages, ciphertexts>>

PublishCiphertext(c, envelope) ==
  /\ \A i \in DOMAIN ciphertexts[c] : ciphertexts[c][i].id # envelope.id
  /\ ciphertexts' = [ciphertexts EXCEPT ![c] = Append(@, envelope)]
  /\ UNCHANGED <<keyPackages, inbox>>

\* Everything behind the cursor; the next cursor is the last sequence number.
HandshakesAfter(n, cursor) == {s \in DOMAIN inbox[n] : s > cursor}
=============================================================================
