--------------------------- MODULE StreamKeyStore ---------------------------
(***************************************************************************)
(* The stream key store of internal/channel/stream_key_store.go: a         *)
(* two-way map between accounts and stream keys, persisted as one JSON     *)
(* file that is replaced with a rename.  An operation holds the store's    *)
(* mutex from its first check to its return, so operations do not          *)
(* interleave; but the process can die before, at or after the rename,     *)
(* and the save itself can fail.                                           *)
(*                                                                         *)
(* The JSON file is modelled by what it holds: the accounts map.           *)
(***************************************************************************)
EXTENDS Naturals

CONSTANTS
  Accounts,     \* account names
  Keys,         \* stream keys
  None          \* "no entry" in a Go map

ASSUME KeyStoreAssumption ==
  /\ None \notin Accounts
  /\ None \notin Keys

VARIABLES
  site,         \* cfg.Site.Enabled: a cache that cannot be loaded is fatal
  accounts,     \* StreamKeyStore.accounts
  streamKeys,   \* StreamKeyStore.streamKeys
  disk,         \* contents of the cache file
  op,           \* the operation that holds s.mu, or Idle
  up,           \* the process is running
  promised      \* history: the keys each account may have, given what calls returned

vars == <<site, accounts, streamKeys, disk, op, up, promised>>

Idle == [kind |-> "none"]

(* key is the account's key after the operation, old the one before it; saved *)
(* says that the rename is done.                                              *)
Operations ==
  {Idle} \cup [kind : {"issue", "revoke"}, account : Accounts,
               key : Keys \cup {None}, old : Keys \cup {None}, saved : BOOLEAN]

(* NewStreamKeyStore on a machine that has no cache file yet, with the site or without. *)
Init ==
  /\ site \in BOOLEAN
  /\ accounts = [a \in Accounts |-> None]
  /\ streamKeys = [k \in Keys |-> None]
  /\ disk = [a \in Accounts |-> None]
  /\ op = Idle
  /\ up = TRUE
  /\ promised = [a \in Accounts |-> {None}]

(* An operation on account a begins: until it returns, old and new are possible. *)
Begin(kind, a, k) ==
  /\ op' = [kind |-> kind, account |-> a, key |-> k, old |-> accounts[a], saved |-> FALSE]
  /\ promised' = [promised EXCEPT ![a] = @ \cup {k}]

(* The slip of leaving the old key in place. *)
Reassign_KeepsOld(sk, old, key, account) == [sk EXCEPT ![key] = account]

(* streamKeys after delete(streamKeys, old) and then streamKeys[key] = account. *)
Reassign(sk, old, key, account) ==
  [k \in Keys |-> IF k = key THEN account ELSE IF k = old THEN None ELSE sk[k]]

(***************************************************************************)
(* IssueStreamKey up to the call of saveCache.  A key that another account *)
(* owns is refused (ErrStreamKeyAssigned) before anything changes.         *)
(***************************************************************************)
IssueStreamKey(a, k) ==
  /\ up /\ op = Idle
  /\ streamKeys[k] \in {None, a}
  /\ accounts' = [accounts EXCEPT ![a] = k]
  /\ streamKeys' = Reassign(streamKeys, accounts[a], k, a)
  /\ Begin("issue", a, k)
  /\ UNCHANGED <<site, disk, up>>

(* RevokeStreamKey up to the call of saveCache; an unknown account is a no-op. *)
RevokeStreamKey(a) ==
  /\ up /\ op = Idle
  /\ accounts[a] # None
  /\ accounts' = [accounts EXCEPT ![a] = None]
  /\ streamKeys' = [streamKeys EXCEPT ![accounts[a]] = None]
  /\ Begin("revoke", a, None)
  /\ UNCHANGED <<site, disk, up>>

(* saveCache wrote the temporary file and the rename replaced the cache. *)
Rename ==
  /\ up /\ op # Idle /\ ~op.saved
  /\ disk' = accounts
  /\ op' = [op EXCEPT !.saved = TRUE]
  /\ UNCHANGED <<site, accounts, streamKeys, up, promised>>

(* The call returns; its outcome is now certain. *)
Return(key) ==
  /\ promised' = [promised EXCEPT ![op.account] = {key}]
  /\ op' = Idle

(* The operation returns after a successful save. *)
SaveOk ==
  /\ up /\ op # Idle /\ op.saved
  /\ Return(op.key)
  /\ UNCHANGED <<site, accounts, streamKeys, disk, up>>

(* The bug where the error path forgets to restore the old key. *)
IssueSaveFails_NoRestore ==
  /\ up /\ op.kind = "issue" /\ ~op.saved
  /\ streamKeys' = [streamKeys EXCEPT ![op.key] = None]
  /\ accounts' = [accounts EXCEPT ![op.account] = None]
  /\ Return(op.old)
  /\ UNCHANGED <<site, disk, up>>

(* Issue rolls the maps back when saveCache fails, and returns the error. *)
IssueSaveFails ==
  /\ up /\ op.kind = "issue" /\ ~op.saved
  /\ streamKeys' = [k \in Keys |-> IF k = op.old THEN op.account
                                   ELSE IF k = op.key THEN None ELSE streamKeys[k]]
  /\ accounts' = [accounts EXCEPT ![op.account] = op.old]
  /\ Return(op.old)
  /\ UNCHANGED <<site, disk, up>>

(* Revoke only logs a failed saveCache and still reports success. *)
RevokeSaveFails ==
  /\ up /\ op.kind = "revoke" /\ ~op.saved
  /\ Return(op.key)
  /\ UNCHANGED <<site, accounts, streamKeys, disk, up>>

(* The process stops, in the middle of an operation or between two. *)
Crash ==
  /\ up
  /\ up' = FALSE
  /\ op' = Idle
  /\ accounts' = [a \in Accounts |-> None]
  /\ streamKeys' = [k \in Keys |-> None]
  /\ UNCHANGED <<site, disk, promised>>

(* The reverse map LoadCache builds from the accounts of the file. *)
LoadedKeys(d) ==
  [k \in Keys |-> IF \E a \in Accounts : d[a] = k
                  THEN CHOOSE a \in Accounts : d[a] = k ELSE None]

(* main starts the process and LoadCache reads the file. *)
LoadCache ==
  /\ ~up
  /\ up' = TRUE
  /\ accounts' = disk
  /\ streamKeys' = LoadedKeys(disk)
  /\ UNCHANGED <<site, disk, op, promised>>

(* LoadCache fails: fatal with the site enabled, otherwise only a warning. *)
LoadCacheFails ==
  /\ ~up /\ ~site
  /\ up' = TRUE
  /\ UNCHANGED <<site, accounts, streamKeys, disk, op, promised>>

Next ==
  \/ \E a \in Accounts, k \in Keys : IssueStreamKey(a, k)
  \/ \E a \in Accounts : RevokeStreamKey(a)
  \/ Rename
  \/ SaveOk
  \/ IssueSaveFails
  \/ RevokeSaveFails
  \/ Crash
  \/ LoadCache
  \/ LoadCacheFails

Spec == Init /\ [][Next]_vars

-----------------------------------------------------------------------------
AccountMap == [Accounts -> Keys \cup {None}]

(* Every variable of the store has its type. *)
TypeOK ==
  /\ site \in BOOLEAN
  /\ accounts \in AccountMap
  /\ streamKeys \in [Keys -> Accounts \cup {None}]
  /\ disk \in AccountMap
  /\ op \in Operations
  /\ up \in BOOLEAN
  /\ promised \in [Accounts -> SUBSET (Keys \cup {None})]

(* The two maps are inverse to each other.  IsIssuedKey reads streamKeys and *)
(* List reads accounts, so a disagreement lets a key publish that no account *)
(* owns, or shows an owner whose key is refused.                             *)
InverseMaps ==
  \A a \in Accounts, k \in Keys : accounts[a] = k <=> streamKeys[k] = a

(* No two accounts share a key in the cache file.  LoadCache fills           *)
(* streamKeys in map order, so a duplicate would make its owner arbitrary.   *)
DiskInjective ==
  \A a, b \in Accounts : disk[a] = disk[b] /\ disk[a] # None => a = b

(* With the site, an issued key stays its account's key until a later call  *)
(* replaces or revokes it, whatever saves fail and whenever the process      *)
(* restarts; a call cut short by a crash may have taken effect or not.       *)
IssuedKeySurvives ==
  site /\ up /\ op = Idle =>
    \A a \in Accounts : None \notin promised[a] => accounts[a] \in promised[a]
=============================================================================
