------------------------------- MODULE Secrets -------------------------------
(***************************************************************************)
(* The secrets manager of a coordinator: secrets/manager.go with the       *)
(* RAFT-backed store and its cache (store.go), the access tokens (token.go)*)
(* and the envelope encryption (encryption.go), behind the gRPC service    *)
(* (coordinator/secrets_service.go).                                       *)
(*                                                                         *)
(* A secret is what tells its versions and its encryption apart: a stamp   *)
(* for the data a write brought, and the master key under which the data   *)
(* keys are wrapped.  The cache holds pointers: Update, Delete and the     *)
(* rotation change the secret in place before they save it, so that a      *)
(* failed save leaves the change in the cache alone.  The manager's lock   *)
(* m.mu makes a writer one step, except for the rotation, whose saves can  *)
(* fail or be cut short one by one; readers hold it shared and race on the *)
(* tokens' use counts.  The master key lives in the process only: a        *)
(* restart comes back with the configured one, an empty cache and no       *)
(* tokens.                                                                 *)
(***************************************************************************)
EXTENDS Integers, FiniteSets

CONSTANTS
  SecretNames,     \* namespace/name of the secrets
  Readers,         \* concurrent GetSecret calls
  TokenIds,        \* tokens ever issued (bound)
  TokenUses,       \* the maxUses that callers ask for
  MaxWrites,       \* bound: data writes in a behaviour
  MaxMasterKeys    \* bound: master keys ever generated

ASSUME SecretsAssumption == TokenUses \in Nat \ {0} /\ MaxWrites \in Nat /\ MaxMasterKeys \in Nat \ {0}

NoSecret == [data |-> 0, key |-> 0, deleted |-> FALSE, immutable |-> FALSE]
ConfiguredKey == 1
Outcomes == {"saved", "refused", "late"}  \* of raftStore.Set; "late": an error for a write that commits
NoRead == [pc |-> "none", token |-> 0, seen |-> 0]
Resting == [active |-> FALSE, todo |-> {}, new |-> 0, failed |-> FALSE]

VARIABLES
  saved,      \* the secrets in RAFT
  cached,     \* the cache of RaftSecretStore; NoSecret: not cached
  masterKey,  \* m.masterKey and the encryptor's key
  keysMade,   \* master keys generated so far
  writes,     \* data stamps given out so far
  token,      \* the token manager's map: id -> the tracked token
  reader,     \* the GetSecret calls
  rotation,   \* the RotateMasterKey call
  dirty,      \* history: secrets changed by a write whose save returned an error
  keyLost     \* history: a secret may be wrapped with a key that no manager has

secretVars == <<saved, cached, masterKey, keysMade, writes, token, reader, rotation, dirty, keyLost>>

NoToken == [issued |-> FALSE, tracked |-> FALSE, name |-> CHOOSE s \in SecretNames : TRUE, uses |-> 0, data |-> 0, expired |-> FALSE]

SecretsInit ==
  /\ saved = [s \in SecretNames |-> NoSecret]
  /\ cached = [s \in SecretNames |-> NoSecret]
  /\ masterKey = ConfiguredKey
  /\ keysMade = ConfiguredKey
  /\ writes = 0
  /\ token = [i \in TokenIds |-> NoToken]
  /\ reader = [r \in Readers |-> NoRead]
  /\ rotation = Resting
  /\ dirty = {} /\ keyLost = FALSE

muShared == ~rotation.active
muFree == muShared /\ \A r \in Readers : reader[r] = NoRead

(* store.Get: the cache, then RAFT, which fills the cache.                 *)
Lookup(s) == IF cached[s] # NoSecret THEN cached[s] ELSE saved[s]
FillCache(s) == cached' = [cached EXCEPT ![s] = Lookup(s)]

(* store.Save of a secret that the caller has changed.  `shared` says that *)
(* it is the cached object itself.                                         *)
Save(s, secret, outcome, shared) ==
  /\ saved' = [saved EXCEPT ![s] = IF outcome = "refused" THEN @ ELSE secret]
  /\ cached' = [cached EXCEPT ![s] = IF outcome = "saved" \/ shared THEN secret ELSE Lookup(s)]
  /\ dirty' = IF outcome = "saved" THEN dirty ELSE dirty \cup {s}

RevokeTokensForSecret(s) ==
  [i \in TokenIds |-> IF token[i].name = s THEN [token[i] EXCEPT !.tracked = FALSE] ELSE token[i]]

Encrypt(immutable) == [data |-> writes + 1, key |-> masterKey, deleted |-> FALSE, immutable |-> immutable]
Decrypts(secret, key) == secret.key = key

-----------------------------------------------------------------------------
CreateSecret(s, immutable, outcome) ==
  /\ muFree /\ writes < MaxWrites
  /\ Lookup(s) = NoSecret \/ Lookup(s).deleted
  /\ Save(s, Encrypt(immutable), outcome, FALSE)
  /\ writes' = writes + 1
  /\ UNCHANGED <<masterKey, keysMade, token, reader, rotation, keyLost>>

Exists(s) == Lookup(s) # NoSecret

(* Mutant of UpdateSecret: the tokens of the older data stay valid.        *)
UpdateKeepingTokens(s, outcome) ==
  /\ muFree /\ writes < MaxWrites
  /\ Exists(s) /\ ~Lookup(s).immutable /\ ~Lookup(s).deleted
  /\ Save(s, Encrypt(FALSE), outcome, TRUE)
  /\ writes' = writes + 1 /\ token' = token
  /\ UNCHANGED <<masterKey, keysMade, reader, rotation, keyLost>>

(* UpdateSecret revokes the secret's tokens once the new data is saved.    *)
UpdateSecret(s, outcome) ==
  /\ muFree /\ writes < MaxWrites
  /\ Exists(s) /\ ~Lookup(s).immutable /\ ~Lookup(s).deleted
  /\ Save(s, Encrypt(FALSE), outcome, TRUE)
  /\ writes' = writes + 1
  /\ token' = IF outcome = "saved" THEN RevokeTokensForSecret(s) ELSE token
  /\ UNCHANGED <<masterKey, keysMade, reader, rotation, keyLost>>

(* DeleteSecret revokes first; the secret stays, marked as deleted.        *)
DeleteSecret(s, outcome) ==
  /\ muFree /\ Exists(s)
  /\ token' = RevokeTokensForSecret(s)
  /\ Save(s, [Lookup(s) EXCEPT !.deleted = TRUE], outcome, TRUE)
  /\ UNCHANGED <<masterKey, keysMade, writes, reader, rotation, keyLost>>

-----------------------------------------------------------------------------
GenerateAccessToken(s, i) ==
  /\ muShared /\ ~token[i].issued
  /\ Exists(s) /\ ~Lookup(s).deleted
  /\ FillCache(s)
  /\ token' = [token EXCEPT ![i] = [issued |-> TRUE, tracked |-> TRUE, name |-> s, uses |-> TokenUses,
                                    data |-> Lookup(s).data, expired |-> FALSE]]
  /\ UNCHANGED <<saved, masterKey, keysMade, writes, reader, rotation, dirty, keyLost>>

(* Time passes the token's expiration.                                     *)
ExpireToken(i) ==
  /\ token[i].tracked /\ ~token[i].expired
  /\ token' = [token EXCEPT ![i].expired = TRUE]
  /\ UNCHANGED <<saved, cached, masterKey, keysMade, writes, reader, rotation, dirty, keyLost>>

CleanupExpiredTokens ==
  /\ muFree
  /\ token' = [i \in TokenIds |-> IF token[i].expired \/ token[i].uses = 0 THEN [token[i] EXCEPT !.tracked = FALSE] ELSE token[i]]
  /\ token' # token
  /\ UNCHANGED <<saved, cached, masterKey, keysMade, writes, reader, rotation, dirty, keyLost>>

(* GetSecret, under the shared lock.  ValidateToken looks the token up and *)
(* checks its use count ...                                                *)
ValidateToken(r, i) ==
  /\ muShared /\ reader[r] = NoRead
  /\ token[i].tracked /\ ~token[i].expired /\ token[i].uses # 0
  /\ reader' = [reader EXCEPT ![r] = [pc |-> "use", token |-> i, seen |-> token[i].uses]]
  /\ UNCHANGED <<saved, cached, masterKey, keysMade, writes, token, rotation, dirty, keyLost>>

(* ... and counts it down without a lock of its own: concurrent readers    *)
(* may work from the count they saw or from the present one.               *)
UseToken(r) ==
  /\ reader[r].pc = "use"
  /\ LET i == reader[r].token IN
       \E u \in {reader[r].seen, token[i].uses} :
         token' = [token EXCEPT ![i].uses = IF u > 0 THEN u - 1 ELSE u]
  /\ reader' = [reader EXCEPT ![r].pc = "read"]
  /\ UNCHANGED <<saved, cached, masterKey, keysMade, writes, rotation, dirty, keyLost>>

(* The secret itself; a deleted one, and one that does not decrypt, is an  *)
(* error.                                                                  *)
Returned(r) ==
  LET found == Lookup(token[reader[r].token].name)
  IN IF found # NoSecret /\ ~found.deleted /\ Decrypts(found, masterKey) THEN found.data ELSE 0

GetSecret(r) ==
  /\ reader[r].pc = "read"
  /\ FillCache(token[reader[r].token].name)
  /\ reader' = [reader EXCEPT ![r] = NoRead]
  /\ UNCHANGED <<saved, masterKey, keysMade, writes, token, rotation, dirty, keyLost>>

-----------------------------------------------------------------------------
(* store.List with the filter of a rotation: it goes over the cache only.  *)
List == {s \in SecretNames : cached[s] # NoSecret /\ ~cached[s].deleted}

(* RotateMasterKey holds m.mu throughout.  It lists the secrets that are   *)
(* in the cache ...                                                        *)
RotateMasterKey ==
  /\ muFree /\ keysMade < MaxMasterKeys
  /\ keysMade' = keysMade + 1
  /\ rotation' = [active |-> TRUE, new |-> keysMade + 1, failed |-> FALSE, todo |-> List]
  /\ UNCHANGED <<saved, cached, masterKey, writes, token, reader, dirty, keyLost>>

(* ... wraps the data key of each with the new key in place and saves the  *)
(* secret, going on after a failure ...                                    *)
ReEncryptWithNewKey(secret) == [secret EXCEPT !.key = rotation.new]

RotateSecret(s, outcome) ==
  /\ rotation.active /\ s \in rotation.todo
  /\ IF Decrypts(cached[s], masterKey)
       THEN Save(s, ReEncryptWithNewKey(cached[s]), outcome, TRUE)
       ELSE UNCHANGED <<saved, cached, dirty>>
  /\ rotation' = [rotation EXCEPT !.todo = @ \ {s},
       !.failed = @ \/ outcome # "saved" \/ ~Decrypts(cached[s], masterKey)]
  /\ UNCHANGED <<masterKey, keysMade, writes, token, reader, keyLost>>

LiveSecrets == {s \in SecretNames : saved[s] # NoSecret /\ ~saved[s].deleted}
Missed == LiveSecrets \ List  \* by a rotation

(* Mutant of ActivateKey: the new key takes over before all are saved.     *)
ActivateEarly ==
  /\ rotation.active
  /\ masterKey' = IF rotation.failed THEN masterKey ELSE rotation.new
  /\ rotation' = Resting
  /\ keyLost' = (keyLost \/ rotation.failed \/ Missed # {})
  /\ UNCHANGED <<saved, cached, keysMade, writes, token, reader, dirty>>

(* ... and puts the new key to use when nothing failed, or forgets it.     *)
ActivateKey ==
  /\ rotation.active /\ rotation.todo = {}
  /\ masterKey' = IF rotation.failed THEN masterKey ELSE rotation.new
  /\ rotation' = Resting
  /\ keyLost' = (keyLost \/ rotation.failed \/ Missed # {})
  /\ UNCHANGED <<saved, cached, keysMade, writes, token, reader, dirty>>

(* NewManager and NewRaftSecretStore: loadCache loads nothing.             *)
RestartManager ==
  /\ cached # [s \in SecretNames |-> NoSecret]
  /\ cached' = [s \in SecretNames |-> NoSecret]
  /\ masterKey' = ConfiguredKey
  /\ token' = [i \in TokenIds |-> [token[i] EXCEPT !.tracked = FALSE]]
  /\ reader' = [r \in Readers |-> NoRead]
  /\ rotation' = Resting
  /\ dirty' = {}
  /\ keyLost' = (keyLost \/ masterKey # ConfiguredKey \/ rotation.active)
  /\ UNCHANGED <<saved, keysMade, writes>>

-----------------------------------------------------------------------------
ServiceStep(s) ==
  \/ \E outcome \in Outcomes :
       \/ \E immutable \in BOOLEAN : CreateSecret(s, immutable, outcome)
       \/ UpdateSecret(s, outcome) \/ DeleteSecret(s, outcome) \/ RotateSecret(s, outcome)
  \/ \E i \in TokenIds : GenerateAccessToken(s, i)

ReaderStep(r) == (\E i \in TokenIds : ValidateToken(r, i)) \/ UseToken(r) \/ GetSecret(r)

SecretsNext ==
  \/ \E s \in SecretNames : ServiceStep(s)
  \/ \E r \in Readers : ReaderStep(r)
  \/ \E i \in TokenIds : ExpireToken(i)
  \/ CleanupExpiredTokens \/ RotateMasterKey \/ ActivateKey \/ RestartManager

SecretsSpec == SecretsInit /\ [][SecretsNext]_secretVars

-----------------------------------------------------------------------------
(* Whatever the order of creations, updates, deletions and rotations, of   *)
(* failed saves and restarts, every secret that is not deleted decrypts    *)
(* with the manager's master key, in RAFT and in the cache; between the    *)
(* saves of a rotation, with the old key or the new one.  What ends this is*)
(* exactly a rotation that fails, is cut short or misses secrets that are  *)
(* not cached or whose deletion was not saved, and a restart after a       *)
(* rotation.                                                               *)
SecretsReadable ==
  LET readable(s, secret) ==
        secret # NoSecret /\ ~secret.deleted =>
          Decrypts(secret, IF rotation.active /\ secret.key # masterKey THEN rotation.new ELSE masterKey)
  IN ~keyLost => \A s \in SecretNames : readable(s, saved[s]) /\ readable(s, cached[s])

(* A read returns the data that was current when its token was issued:     *)
(* UpdateSecret and DeleteSecret revoke the tokens of the older data under *)
(* the lock that keeps readers out, so that no reader that has passed the  *)
(* token check meets newer data, unless a save has returned an error.      *)
TokenReadsItsData ==
  \A r \in Readers : reader[r].pc = "read" =>
    LET t == token[reader[r].token] IN t.name \in dirty \/ Returned(r) \in {0, t.data}
=============================================================================
