-------------------------- MODULE IdentityKeystore --------------------------
(***************************************************************************)
(* The key file of internal/identity.  Generate writes it with             *)
(* os.WriteFile, which opens it with O_TRUNC and then writes: in between,  *)
(* and for ever after a crash in between, the file is there and holds no   *)
(* key.                                                                    *)
(***************************************************************************)
CONSTANTS
  Keys,
  Absent,   \* there is no file
  Torn      \* there is one that UnmarshalPrivateKey refuses

ASSUME KeysAssumption == Absent # Torn /\ Keys \cap {Absent, Torn} = {}

VARIABLES
  file,
  made      \* history: the keys GenerateEd25519Key has returned

keyVars == <<file, made>>

KeyType ==
  /\ file \in Keys \cup {Absent, Torn}
  /\ made \in SUBSET Keys

(* Never run before, or run by an older release. *)
KeyInit ==
  /\ file \in Keys \cup {Absent}
  /\ made = {file} \ {Absent}

HasKey == file # Absent

(* Slip: the old file is removed before the new one is written. *)
RemoveFirst ==
  /\ file' = Absent
  /\ UNCHANGED made

Truncate ==
  /\ file' = Torn
  /\ UNCHANGED made

(* A key pair no Generate has returned before. *)
WriteKey(k) ==
  /\ k \notin made
  /\ made' = made \cup {k}
  /\ file' = k

(* Load returns the key of the file, or ErrKeyNotFound, or ErrKeyInvalid. *)
Loads(k) == file = k /\ k \in Keys

LoadFails == file \notin Keys
=============================================================================
