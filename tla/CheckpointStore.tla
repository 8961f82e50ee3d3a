---------------------------- MODULE CheckpointStore ----------------------------
(***************************************************************************)
(* The encrypted MLS checkpoints of a browser                              *)
(* (src/messaging/openmls/indexeddb-checkpoint-store.ts): two object       *)
(* stores of IndexedDB, one for the installation's encryption key and one  *)
(* for its latest checkpoint, encrypted under that key.  Every access is a *)
(* transaction of its own: between two of them another runtime of the same *)
(* installation may come in, or the tab may go away.                       *)
(*                                                                         *)
(* What a checkpoint contains is up to the module that extends this one.   *)
(***************************************************************************)
EXTENDS Integers, Sequences

CONSTANTS
  Installations,  \* installations: browsers with an IndexedDB each
  Runtimes,       \* the runtimes that pages of these installations start
  None            \* no key, no checkpoint, nothing read

ASSUME RuntimesAssumption == None \notin Runtimes

VARIABLES
  keys,         \* per installation, the stored key, named after the runtime that generated it
  checkpoints,  \* per installation, the stored ciphertext: its key and its contents
  io            \* per runtime, the load or save it has in progress

store == <<keys, checkpoints>>

\* `key` and `data` are the local variables of load() and save().
NoIO == [at |-> "idle", key |-> None, data |-> None]

StoreInit ==
  /\ keys = [n \in Installations |-> None]
  /\ checkpoints = [n \in Installations |-> None]
  /\ io = [r \in Runtimes |-> NoIO]

SetIO(r, at, key, data) == io' = [io EXCEPT ![r] = [at |-> at, key |-> key, data |-> data]]

-----------------------------------------------------------------------------
\* load(): the ciphertext, then its key

BeginLoad(r) == SetIO(r, "load", None, None)

ReadCheckpoint(r, n) ==
  /\ io[r].at = "load"
  /\ SetIO(r, "open", None, checkpoints[n])
  /\ UNCHANGED store

\* A stored checkpoint opens only with the stored key.
Opens(cipher, key) == cipher = None \/ (key # None /\ cipher.key = key)

\* load() goes on to read the key and to decrypt with it what it found.
LoadSucceeds(r, n) == Opens(io[r].data, keys[n])

-----------------------------------------------------------------------------
\* save(): the key, which the first save generates, then the ciphertext

\* The contents are captured before the first transaction begins.
BeginSave(r, contents) == SetIO(r, "key", None, contents)

GetKey(r, n) ==
  /\ io[r].at = "key"
  /\ LET key == keys[n]
     IN  SetIO(r, IF key = None THEN "generate" ELSE "put", key, io[r].data)
  /\ UNCHANGED store

\* Nothing looks again whether a key was stored meanwhile.
CreateKey(r, n) ==
  /\ io[r].at = "generate"
  /\ keys' = [keys EXCEPT ![n] = r]
  /\ SetIO(r, "put", r, io[r].data)
  /\ UNCHANGED checkpoints

\* Mutant: every save generates a key, and does not store it.
PutUnderNewKey(r, n) ==
  /\ io[r].at = "put"
  /\ checkpoints' = [checkpoints EXCEPT ![n] = [key |-> r, data |-> io[r].data]]
  /\ io' = [io EXCEPT ![r] = NoIO]
  /\ UNCHANGED keys

PutCheckpoint(r, n) ==
  /\ io[r].at = "put"
  /\ checkpoints' = [checkpoints EXCEPT ![n] = [key |-> io[r].key, data |-> io[r].data]]
  /\ io' = [io EXCEPT ![r] = NoIO]
  /\ UNCHANGED keys

-----------------------------------------------------------------------------
\* The stored checkpoint can be opened again.
Readable(n) == Opens(checkpoints[n], keys[n])

Ciphers(contents) == [key : Runtimes, data : contents]

\* What a load found, or what a save is about to write, waits in `data`.
StoreTypeOK(contents) ==
  /\ keys \in [Installations -> Runtimes \cup {None}]
  /\ checkpoints \in [Installations -> Ciphers(contents) \cup {None}]
  /\ \A r \in Runtimes :
       /\ io[r].at \in {"idle", "load", "open", "key", "generate", "put"}
       /\ io[r].key \in Runtimes \cup {None}
       /\ io[r].at = "open" => io[r].data \in Ciphers(contents) \cup {None}
       /\ io[r].at \in {"key", "generate", "put"} => io[r].data \in contents
=============================================================================
