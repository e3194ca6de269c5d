--------------------------- MODULE SecurityProofs ---------------------------
(***************************************************************************)
(* Proofs about the secrets and the policies: the secrets stay readable    *)
(* across rotations of the master key, a read returns the data its token   *)
(* was issued for, an agent's cache serves a replaced secret for a bounded *)
(* time, and an admission is decided by the policies of the moment.        *)
(***************************************************************************)
EXTENDS Secrets, AgentSecrets, Policy, TLAPS

-----------------------------------------------------------------------------
(* The manager of the secrets.                                             *)

Secret == [data : Nat, key : Nat, deleted : BOOLEAN, immutable : BOOLEAN]
Token == [issued : BOOLEAN, tracked : BOOLEAN, name : SecretNames \cup {NoToken.name}, uses : Nat,
          data : Nat, expired : BOOLEAN]
Reader == [pc : {"none", "use", "read"}, token : TokenIds \cup {0}, seen : Nat]
Rotation == [active : BOOLEAN, todo : SUBSET SecretNames, new : Nat, failed : BOOLEAN]

StoreType ==
  /\ saved \in [SecretNames -> Secret] /\ cached \in [SecretNames -> Secret]
  /\ masterKey \in Nat /\ keysMade \in Nat /\ writes \in Nat
  /\ rotation \in Rotation
TokenType == token \in [TokenIds -> Token] /\ reader \in [Readers -> Reader]

(* RotateMasterKey holds the lock that GetSecret shares, and goes over     *)
(* secrets that are in the cache.                                          *)
LockInv ==
  rotation.active =>
    /\ \A r \in Readers : reader[r] = NoRead
    /\ rotation.todo \subseteq List /\ rotation.new > 0

Live(secret) == secret # NoSecret /\ ~secret.deleted

(* The readable secrets alone are not inductive: that ActivateKey loses    *)
(* none rests on every secret that the rotation is done with being wrapped *)
(* with the new key, in the cache and in RAFT, unless a save failed.       *)
KeyInv ==
  ~keyLost =>
    \A s \in SecretNames :
      /\ \A secret \in {saved[s], cached[s]} :
           Live(secret) => secret.key = masterKey \/ (rotation.active /\ secret.key = rotation.new)
      /\ rotation.active /\ ~rotation.failed /\ s \in List \ rotation.todo =>
           /\ cached[s].key = rotation.new
           /\ Live(saved[s]) => saved[s].key = rotation.new

(* A token that is tracked stands for what is stored now, unless a save of *)
(* its secret has returned an error; and a reader's token stays tracked    *)
(* while it reads.                                                         *)
Stands(t) == t.name \in SecretNames /\ (t.name \in dirty \/ (Live(Lookup(t.name)) /\ Lookup(t.name).data = t.data))
TokenInv ==
  /\ \A i \in TokenIds : token[i].tracked => token[i].issued /\ Stands(token[i])
  /\ \A r \in Readers :
       reader[r].pc # "none" => reader[r].token \in TokenIds /\ token[reader[r].token].tracked

SecretsInv == StoreType /\ TokenType /\ LockInv /\ KeyInv /\ TokenInv

-----------------------------------------------------------------------------
(* The invariant holds before any secret is stored.                        *)
LEMMA SecretsInitInv == SecretsInit => SecretsInv
<1> SUFFICES ASSUME SecretsInit PROVE SecretsInv
  BY Zenon
<1> USE SecretsAssumption DEF SecretsInit
<1>1. NoSecret \in Secret /\ Resting \in Rotation
  BY Zenon DEF NoSecret, Secret, Resting, Rotation
<1>2. NoToken \in Token /\ ~NoToken.tracked
  BY Zenon DEF NoToken, Token
<1>3. NoRead \in Reader
  BY Zenon DEF NoRead, Reader
<1>4. StoreType
  BY Zenon, <1>1 DEF StoreType, ConfiguredKey
<1>5. TokenType
  BY Zenon, <1>2, <1>3 DEF TokenType
<1>6. LockInv /\ KeyInv
  BY Zenon DEF LockInv, KeyInv, Resting, Live
<1>7. TokenInv
  BY Zenon, <1>2 DEF TokenInv, NoRead
<1> QED
  BY Zenon, <1>4, <1>5, <1>6, <1>7 DEF SecretsInv

(* What store.Get finds, and what store.Save leaves, are secrets.          *)
LEMMA SaveType ==
  ASSUME StoreType, NEW s \in SecretNames, NEW secret \in Secret, NEW outcome, NEW shared,
         Save(s, secret, outcome, shared)
  PROVE  saved' \in [SecretNames -> Secret] /\ cached' \in [SecretNames -> Secret]
BY Zenon DEF Save, StoreType, Lookup

(* Every step keeps the types of the stored secrets.                       *)
LEMMA StoreTypeStep == StoreType /\ [SecretsNext]_secretVars => StoreType'
<1> SUFFICES ASSUME StoreType, [SecretsNext]_secretVars PROVE StoreType'
  BY Zenon
<1> USE DEF StoreType
<1>1. ASSUME NEW s \in SecretNames, NEW outcome \in Outcomes, NEW immutable \in BOOLEAN,
             CreateSecret(s, immutable, outcome)
      PROVE  StoreType'
  <2>1. Encrypt(immutable) \in Secret
    BY DEF Encrypt, Secret
  <2>2. saved' \in [SecretNames -> Secret] /\ cached' \in [SecretNames -> Secret]
    BY Zenon, <1>1, <2>1, SaveType DEF CreateSecret
  <2> QED
    BY <1>1, <2>2 DEF CreateSecret
<1>2. ASSUME NEW s \in SecretNames, NEW outcome \in Outcomes, UpdateSecret(s, outcome)
      PROVE  StoreType'
  <2>1. Encrypt(FALSE) \in Secret
    BY DEF Encrypt, Secret
  <2>2. saved' \in [SecretNames -> Secret] /\ cached' \in [SecretNames -> Secret]
    BY Zenon, <1>2, <2>1, SaveType DEF UpdateSecret
  <2> QED
    BY <1>2, <2>2 DEF UpdateSecret
<1>3. ASSUME NEW s \in SecretNames, NEW outcome \in Outcomes, DeleteSecret(s, outcome)
      PROVE  StoreType'
  <2>1. [Lookup(s) EXCEPT !.deleted = TRUE] \in Secret
    BY Zenon DEF Lookup, Secret
  <2> QED
    BY Zenon, <1>3, <2>1, SaveType DEF DeleteSecret
<1>4. ASSUME NEW s \in SecretNames, NEW outcome \in Outcomes, RotateSecret(s, outcome)
      PROVE  StoreType'
  <2>1. ReEncryptWithNewKey(cached[s]) \in Secret
    BY Zenon DEF ReEncryptWithNewKey, Secret, Rotation
  <2>2. saved' \in [SecretNames -> Secret] /\ cached' \in [SecretNames -> Secret]
    BY Zenon, <1>4, <2>1, SaveType DEF RotateSecret
  <2>3. rotation' \in Rotation
    <3>1. (outcome # "saved") \in BOOLEAN /\ (~Decrypts(cached[s], masterKey)) \in BOOLEAN
      BY Zenon DEF Decrypts
    <3> QED
      BY Zenon, <1>4, <3>1 DEF RotateSecret, Rotation
  <2> QED
    BY Zenon, <1>4, <2>2, <2>3 DEF RotateSecret
<1>5. ASSUME NEW s \in SecretNames, FillCache(s), saved' = saved PROVE cached' \in [SecretNames -> Secret]
  BY Zenon, <1>5 DEF FillCache, Lookup
<1>6. ASSUME NEW s \in SecretNames, NEW i \in TokenIds, GenerateAccessToken(s, i)
      PROVE  StoreType'
  BY Zenon, <1>5, <1>6 DEF GenerateAccessToken
<1>7. ASSUME NEW r \in Readers, ReaderStep(r)
      PROVE  StoreType'
  <2>1. ASSUME GetSecret(r) PROVE cached' \in [SecretNames -> Secret]
    BY Zenon, <2>1 DEF GetSecret, FillCache, Lookup
  <2> QED
    BY Zenon, <1>7, <2>1 DEF ReaderStep, ValidateToken, UseToken, GetSecret
<1>8. ASSUME RotateMasterKey PROVE StoreType'
  BY <1>8 DEF RotateMasterKey, Rotation, List
<1>9. ASSUME ActivateKey PROVE StoreType'
  BY Zenon, <1>9 DEF ActivateKey, Resting, Rotation
<1>10. ASSUME RestartManager PROVE StoreType'
  BY Zenon, <1>10 DEF RestartManager, Resting, Rotation, NoSecret, Secret, ConfiguredKey
<1>11. CASE UNCHANGED secretVars
  BY Zenon, <1>11 DEF secretVars
<1> QED
  BY Zenon, <1>1, <1>2, <1>3, <1>4, <1>6, <1>7, <1>8, <1>9, <1>10, <1>11
     DEF SecretsNext, ServiceStep, ExpireToken, CleanupExpiredTokens

(* Every step keeps the types of the tokens.                               *)
LEMMA TokenTypeStep == StoreType /\ TokenType /\ [SecretsNext]_secretVars => TokenType'
<1> SUFFICES ASSUME StoreType, TokenType, [SecretsNext]_secretVars PROVE TokenType'
  BY Zenon
<1> USE DEF TokenType
<1>1. ASSUME NEW s \in SecretNames PROVE RevokeTokensForSecret(s) \in [TokenIds -> Token]
  BY Zenon DEF RevokeTokensForSecret, Token
<1>2. ASSUME NEW s \in SecretNames, NEW outcome \in Outcomes, UpdateSecret(s, outcome) \/ DeleteSecret(s, outcome)
      PROVE  TokenType'
  BY Zenon, <1>1, <1>2 DEF UpdateSecret, DeleteSecret
<1>3. ASSUME NEW s \in SecretNames, NEW i \in TokenIds, GenerateAccessToken(s, i)
      PROVE  TokenType'
  <2>1. Lookup(s).data \in Nat
    BY Zenon DEF StoreType, Lookup, Secret
  <2> QED
    BY Zenon, <1>3, <2>1, SecretsAssumption DEF GenerateAccessToken, Token
<1>4. ASSUME NEW r \in Readers, NEW i \in TokenIds, ValidateToken(r, i) PROVE TokenType'
  BY Zenon, <1>4 DEF ValidateToken, Reader, Token
<1>5. ASSUME NEW r \in Readers, UseToken(r) PROVE TokenType'
  <2>1. PICK u \in {reader[r].seen, token[reader[r].token].uses} :
          token' = [token EXCEPT ![reader[r].token].uses = IF u > 0 THEN u - 1 ELSE u]
    BY Zenon, <1>5 DEF UseToken
  <2>2. token' \in [TokenIds -> Token]
    <3>1. CASE reader[r].token \notin TokenIds
      BY Zenon, <2>1, <3>1
    <3>2. CASE reader[r].token \in TokenIds
      <4>1. u \in Nat
        BY <2>1, <3>2 DEF Reader, Token
      <4>2. (IF u > 0 THEN u - 1 ELSE u) \in Nat
        BY <4>1
      <4> QED
        BY <2>1, <3>2, <4>2 DEF Token
    <3> QED
      BY Zenon, <3>1, <3>2
  <2> QED
    BY <1>5, <2>2 DEF UseToken, Reader
<1>6. ASSUME NEW r \in Readers, GetSecret(r) PROVE TokenType'
  BY Zenon, <1>6 DEF GetSecret, NoRead, Reader
<1>7. ASSUME NEW i \in TokenIds, ExpireToken(i) PROVE TokenType'
  BY Zenon, <1>7 DEF ExpireToken, Token
<1>8. CASE CleanupExpiredTokens
  BY ZenonT(60), <1>8 DEF CleanupExpiredTokens, Token
<1>9. CASE RestartManager
  BY ZenonT(60), <1>9 DEF RestartManager, Token, NoRead, Reader
<1>10. CASE UNCHANGED <<token, reader>>
  BY Zenon, <1>10
<1> QED
  BY Zenon, <1>2, <1>3, <1>4, <1>5, <1>6, <1>7, <1>8, <1>9, <1>10
     DEF SecretsNext, ServiceStep, ReaderStep, CreateSecret, RotateSecret, RotateMasterKey, ActivateKey, secretVars

(* Every step keeps the rotation alone with its lock.                      *)
LEMMA LockStep == StoreType /\ TokenType /\ LockInv /\ [SecretsNext]_secretVars => LockInv'
<1> SUFFICES ASSUME StoreType, TokenType, LockInv, [SecretsNext]_secretVars PROVE LockInv'
  BY Zenon
<1>1. CASE ~rotation'.active
  BY Zenon, <1>1 DEF LockInv
<1>2. CASE RotateMasterKey
  BY <1>2 DEF RotateMasterKey, muFree, LockInv, List, StoreType
<1>3. ASSUME NEW s \in SecretNames, NEW outcome \in Outcomes, RotateSecret(s, outcome)
      PROVE  LockInv'
  <2>1. /\ rotation.active /\ rotation'.new = rotation.new /\ rotation'.todo = rotation.todo \ {s}
        /\ reader' = reader
    BY Zenon, <1>3 DEF RotateSecret, StoreType, Rotation
  <2>2. \A t \in SecretNames \ {s} : cached'[t] = cached[t]
    BY Zenon, <1>3 DEF RotateSecret, Save, StoreType
  <2> QED
    BY Zenon, <2>1, <2>2 DEF LockInv, List
<1>4. ASSUME rotation.active, rotation' = rotation, UNCHANGED <<cached, reader>> PROVE LockInv'
  BY Zenon, <1>4 DEF LockInv, List
<1>5. ASSUME rotation.active, NEW r \in Readers PROVE ~ReaderStep(r)
  BY <1>5 DEF LockInv, ReaderStep, ValidateToken, UseToken, GetSecret, NoRead, muShared
<1>6. CASE ActivateKey \/ RestartManager
  BY <1>1, <1>6 DEF ActivateKey, RestartManager, Resting
<1>7. ASSUME NEW s \in SecretNames, ServiceStep(s) PROVE LockInv'
  BY Zenon, <1>1, <1>3, <1>7
     DEF ServiceStep, CreateSecret, UpdateSecret, DeleteSecret, GenerateAccessToken, muFree, muShared
<1>8. ASSUME NEW r \in Readers, ReaderStep(r) PROVE LockInv'
  BY Zenon, <1>1, <1>5, <1>8 DEF ReaderStep, ValidateToken, UseToken, GetSecret
<1>9. ASSUME UNCHANGED <<cached, reader, rotation>> PROVE LockInv'
  BY Zenon, <1>1, <1>4, <1>9
<1> QED
  BY Zenon, <1>2, <1>6, <1>7, <1>8, <1>9
     DEF SecretsNext, ExpireToken, CleanupExpiredTokens, secretVars

-----------------------------------------------------------------------------
(* Outside a rotation, saving a secret wrapped with the master key and     *)
(* filling the cache from RAFT keep every secret readable.                 *)
LEMMA SaveKeys ==
  ASSUME StoreType, KeyInv, ~rotation.active, NEW s \in SecretNames, NEW secret \in Secret, NEW outcome, NEW shared,
         ~keyLost => (Live(secret) => secret.key = masterKey), Save(s, secret, outcome, shared),
         UNCHANGED <<masterKey, rotation, keyLost>>
  PROVE  KeyInv'
<1>1. ASSUME NEW t \in SecretNames
      PROVE  /\ saved'[t] \in {saved[t], secret} /\ (t # s => saved'[t] = saved[t])
             /\ cached'[t] \in {cached[t], saved[t], secret} /\ (t # s => cached'[t] = cached[t])
  BY Zenon DEF Save, StoreType, Lookup
<1> QED
  BY Zenon, <1>1 DEF KeyInv

(* A read that fills the cache brings in no secret under another key.      *)
LEMMA FillKeys ==
  ASSUME StoreType, KeyInv, ~rotation.active, NEW s \in SecretNames, FillCache(s),
         UNCHANGED <<saved, masterKey, rotation, keyLost>>
  PROVE  KeyInv'
<1>1. \A t \in SecretNames : cached'[t] \in {cached[t], saved[t]}
  BY Zenon DEF FillCache, StoreType, Lookup
<1> QED
  BY Zenon, <1>1 DEF KeyInv

(* Every step keeps the secrets under the key of the moment.               *)
LEMMA KeyStep == SecretsInv /\ [SecretsNext]_secretVars => KeyInv'
<1> SUFFICES ASSUME SecretsInv, [SecretsNext]_secretVars PROVE KeyInv'
  BY Zenon
<1> USE DEF SecretsInv
<1>1. ASSUME NEW s \in SecretNames, NEW outcome \in Outcomes, NEW immutable \in BOOLEAN,
             CreateSecret(s, immutable, outcome) \/ (immutable = FALSE /\ UpdateSecret(s, outcome))
      PROVE  KeyInv'
  <2>1. Encrypt(immutable) \in Secret /\ Encrypt(immutable).key = masterKey
    BY DEF Encrypt, Secret, StoreType
  <2>2. ~rotation.active /\ UNCHANGED <<masterKey, rotation, keyLost>>
    BY Zenon, <1>1 DEF CreateSecret, UpdateSecret, muFree, muShared
  <2>3. \E shared \in BOOLEAN : Save(s, Encrypt(immutable), outcome, shared)
    BY Zenon, <1>1 DEF CreateSecret, UpdateSecret
  <2> QED
    BY Zenon, <2>1, <2>2, <2>3, SaveKeys
<1>2. ASSUME NEW s \in SecretNames, NEW outcome \in Outcomes, DeleteSecret(s, outcome)
      PROVE  KeyInv'
  <2> DEFINE gone == [Lookup(s) EXCEPT !.deleted = TRUE]
  <2>1. gone \in Secret /\ gone.deleted
    BY Zenon DEF Lookup, Secret, StoreType
  <2>2. ~rotation.active /\ UNCHANGED <<masterKey, rotation, keyLost>> /\ Save(s, gone, outcome, TRUE)
    BY Zenon, <1>2 DEF DeleteSecret, muFree, muShared
  <2> HIDE DEF gone
  <2> QED
    BY Zenon, <2>1, <2>2, SaveKeys DEF Live
<1>3. ASSUME NEW s \in SecretNames, NEW i \in TokenIds, GenerateAccessToken(s, i) PROVE KeyInv'
  BY Zenon, <1>3, FillKeys DEF GenerateAccessToken, muShared
<1>4. ASSUME NEW r \in Readers, GetSecret(r) PROVE KeyInv'
  <2>1. ~rotation.active /\ token[reader[r].token].name \in SecretNames
    BY <1>4 DEF GetSecret, LockInv, NoRead, TokenInv, Stands
  <2> QED
    BY Zenon, <1>4, <2>1, FillKeys DEF GetSecret
<1>5. ASSUME NEW s \in SecretNames, NEW outcome \in Outcomes, RotateSecret(s, outcome)
      PROVE  KeyInv'
  <2> DEFINE new == ReEncryptWithNewKey(cached[s])
  <2>1. /\ rotation.active /\ s \in List /\ rotation'.active /\ rotation'.new = rotation.new
        /\ rotation'.todo = rotation.todo \ {s} /\ UNCHANGED <<masterKey, keyLost>>
        /\ ~rotation'.failed => ~rotation.failed /\ outcome = "saved" /\ Decrypts(cached[s], masterKey)
    BY Zenon, <1>5 DEF RotateSecret, StoreType, Rotation, LockInv
  <2>2. new \in Secret /\ new.key = rotation.new
    BY Zenon DEF ReEncryptWithNewKey, Secret, StoreType, Rotation
  <2>3. ASSUME NEW t \in SecretNames
        PROVE  /\ saved'[t] \in {saved[t], new} /\ cached'[t] \in {cached[t], new}
               /\ t # s => saved'[t] = saved[t] /\ cached'[t] = cached[t]
    BY Zenon, <1>5, <2>1 DEF RotateSecret, Save, StoreType, List
  <2>4. ~rotation'.failed => saved'[s] = new /\ cached'[s] = new
    BY Zenon, <1>5, <2>1 DEF RotateSecret, Save, StoreType
  <2> HIDE DEF new
  <2>5. \A t \in SecretNames \ {s} : t \in List' => t \in List
    BY Zenon, <2>3 DEF List
  <2> QED
    BY <2>1, <2>2, <2>3, <2>4, <2>5 DEF KeyInv
<1>6. CASE RotateMasterKey
  BY Zenon, <1>6 DEF RotateMasterKey, KeyInv, muFree, muShared, List
<1>7. CASE ActivateKey
  <2>1. CASE rotation.failed \/ Missed # {}
    BY Zenon, <1>7, <2>1 DEF ActivateKey, KeyInv
  <2>2. CASE ~rotation.failed /\ Missed = {}
    <3>1. \A t \in SecretNames : Live(saved[t]) \/ Live(cached[t]) => t \in List
      BY Zenon, <2>2 DEF Missed, LiveSecrets, List, Live
    <3> QED
      BY Zenon, <1>7, <2>2, <3>1 DEF ActivateKey, KeyInv, Resting
  <2> QED
    BY Zenon, <2>1, <2>2 DEF StoreType, Rotation
<1>8. CASE RestartManager
  BY Zenon, <1>8 DEF RestartManager, KeyInv, Resting, Live, StoreType
<1>9. CASE UNCHANGED <<saved, cached, masterKey, rotation, keyLost>>
  BY Zenon, <1>9 DEF KeyInv, List
<1> QED
  BY Zenon, <1>1, <1>2, <1>3, <1>4, <1>5, <1>6, <1>7, <1>8, <1>9
     DEF SecretsNext, ServiceStep, ReaderStep, ValidateToken, UseToken, ExpireToken, CleanupExpiredTokens, secretVars

-----------------------------------------------------------------------------
(* store.Save changes what store.Get finds of its own secret only.         *)
LEMMA SaveLooksUp ==
  ASSUME StoreType, NEW s \in SecretNames, NEW secret \in Secret, NEW outcome, NEW shared,
         Save(s, secret, outcome, shared)
  PROVE  /\ dirty \subseteq dirty' /\ (outcome # "saved" => s \in dirty')
         /\ \A n \in SecretNames \ {s} : Lookup(n)' = Lookup(n)
BY Zenon DEF Save, StoreType, Lookup

(* A read that fills the cache changes no answer.                          *)
LEMMA FillLooksUp ==
  ASSUME StoreType, NEW s \in SecretNames, FillCache(s), saved' = saved
  PROVE  \A n \in SecretNames : Lookup(n)' = Lookup(n)
BY Zenon DEF FillCache, StoreType, Lookup

(* Every step keeps the tokens with the data they were issued for.         *)
LEMMA TokenStep == SecretsInv /\ [SecretsNext]_secretVars => TokenInv'
<1> SUFFICES ASSUME SecretsInv, [SecretsNext]_secretVars PROVE TokenInv'
  BY Zenon
<1> USE DEF SecretsInv
<1>a. ASSUME \A r \in Readers : reader[r] = NoRead, reader' = reader,
             \A i \in TokenIds : token'[i].tracked => token'[i].issued /\ Stands(token[i])'
      PROVE  TokenInv'
  BY <1>a DEF TokenInv, NoRead
<1>1. ASSUME NEW s \in SecretNames, NEW outcome \in Outcomes, NEW immutable \in BOOLEAN,
             CreateSecret(s, immutable, outcome)
      PROVE  TokenInv'
  <2>1. Encrypt(immutable) \in Secret
    BY DEF Encrypt, Secret, StoreType
  <2>2. /\ ~Live(Lookup(s)) /\ token' = token /\ reader' = reader /\ Save(s, Encrypt(immutable), outcome, FALSE)
        /\ \A r \in Readers : reader[r] = NoRead
    BY Zenon, <1>1 DEF CreateSecret, Live, muFree
  <2>3. /\ dirty \subseteq dirty' /\ \A n \in SecretNames \ {s} : Lookup(n)' = Lookup(n)
    BY Zenon, <2>1, <2>2, SaveLooksUp
  <2>4. \A i \in TokenIds : token'[i].tracked => token'[i].issued /\ Stands(token[i])'
    BY Zenon, <2>2, <2>3 DEF TokenInv, Stands
  <2> QED
    BY Zenon, <1>a, <2>2, <2>4
<1>2. ASSUME NEW s \in SecretNames, NEW outcome \in Outcomes,
             UpdateSecret(s, outcome) \/ DeleteSecret(s, outcome)
      PROVE  TokenInv'
  <2>1. PICK secret \in Secret : Save(s, secret, outcome, TRUE)
    <3>1. Encrypt(FALSE) \in Secret
      BY DEF Encrypt, Secret, StoreType
    <3>2. [Lookup(s) EXCEPT !.deleted = TRUE] \in Secret
      BY Zenon DEF Secret, StoreType, Lookup
    <3> QED
      BY Zenon, <1>2, <3>1, <3>2 DEF UpdateSecret, DeleteSecret
  <2>2. /\ dirty \subseteq dirty' /\ (outcome # "saved" => s \in dirty')
        /\ \A n \in SecretNames \ {s} : Lookup(n)' = Lookup(n)
    BY Zenon, <2>1, SaveLooksUp
  <2>3. reader' = reader /\ \A r \in Readers : reader[r] = NoRead
    BY Zenon, <1>2 DEF UpdateSecret, DeleteSecret, muFree
  <2>4. ASSUME NEW i \in TokenIds, token'[i].tracked
        PROVE  token'[i] = token[i] /\ (token[i].name = s => outcome # "saved")
    BY ZenonT(60), <1>2, <2>4 DEF UpdateSecret, DeleteSecret, RevokeTokensForSecret, TokenType,
       Token
  <2>5. \A i \in TokenIds : token'[i].tracked => token'[i].issued /\ Stands(token[i])'
    BY Zenon, <2>2, <2>4 DEF TokenInv, Stands
  <2> QED
    BY Zenon, <1>a, <2>3, <2>5
<1>3. ASSUME NEW s \in SecretNames, NEW i \in TokenIds, GenerateAccessToken(s, i) PROVE TokenInv'
  <2>1. /\ ~token[i].issued /\ Live(Lookup(s)) /\ UNCHANGED <<reader, dirty>>
        /\ token' = [token EXCEPT ![i] = [issued |-> TRUE, tracked |-> TRUE, name |-> s, uses |-> TokenUses,
                                           data |-> Lookup(s).data, expired |-> FALSE]]
    BY Zenon, <1>3 DEF GenerateAccessToken, Exists, Live
  <2>2. \A n \in SecretNames : Lookup(n)' = Lookup(n)
    BY Zenon, <1>3, FillLooksUp DEF GenerateAccessToken
  <2>3. \A j \in TokenIds : token'[j] = IF j = i THEN [issued |-> TRUE, tracked |-> TRUE, name |-> s,
                                            uses |-> TokenUses, data |-> Lookup(s).data, expired |-> FALSE]
                                        ELSE token[j]
    BY Zenon, <2>1 DEF TokenType
  <2> QED
    BY <2>1, <2>2, <2>3 DEF TokenInv, Stands
<1>4. ASSUME NEW r \in Readers, NEW i \in TokenIds, ValidateToken(r, i) PROVE TokenInv'
  BY Zenon, <1>4 DEF ValidateToken, TokenInv, TokenType, Stands, Lookup
<1>5. ASSUME NEW r \in Readers, UseToken(r) PROVE TokenInv'
  <2>1. /\ \A i \in TokenIds : /\ token'[i].tracked = token[i].tracked /\ token'[i].issued = token[i].issued
                               /\ token'[i].name = token[i].name /\ token'[i].data = token[i].data
        /\ \A q \in Readers : reader'[q].token = reader[q].token /\ (reader'[q].pc # "none" => reader[q].pc # "none")
    BY <1>5 DEF UseToken, TokenType, Token, Reader
  <2> QED
    BY ZenonT(60), <1>5, <2>1 DEF UseToken, TokenInv, Stands, Lookup
<1>6. ASSUME NEW r \in Readers, GetSecret(r) PROVE TokenInv'
  <2>1. token[reader[r].token].name \in SecretNames
    BY Zenon, <1>6 DEF GetSecret, TokenInv, Stands
  <2>2. \A n \in SecretNames : Lookup(n)' = Lookup(n)
    BY Zenon, <1>6, <2>1, FillLooksUp DEF GetSecret
  <2>3. \A q \in Readers : reader'[q].pc # "none" => reader'[q] = reader[q]
    BY Zenon, <1>6 DEF GetSecret, TokenType, NoRead
  <2> QED
    BY Zenon, <1>6, <2>2, <2>3 DEF GetSecret, TokenInv, Stands
<1>7. ASSUME NEW i \in TokenIds, ExpireToken(i) PROVE TokenInv'
  <2>1. \A j \in TokenIds : /\ token'[j].tracked = token[j].tracked /\ token'[j].issued = token[j].issued
                            /\ token'[j].name = token[j].name /\ token'[j].data = token[j].data
    BY Zenon, <1>7 DEF ExpireToken, TokenType, Token
  <2> QED
    BY <1>7, <2>1 DEF ExpireToken, TokenInv, Stands, Lookup
<1>8. CASE CleanupExpiredTokens
  <2>1. \A j \in TokenIds : token'[j].tracked => token'[j] = token[j]
    BY Zenon, <1>8 DEF CleanupExpiredTokens, TokenType, Token
  <2> QED
    BY <1>8, <2>1, <1>a DEF CleanupExpiredTokens, TokenInv, Stands, Lookup, muFree
<1>9. ASSUME NEW s \in SecretNames, NEW outcome \in Outcomes, RotateSecret(s, outcome) PROVE TokenInv'
  <2>1. /\ cached[s] # NoSecret /\ ~cached[s].deleted /\ rotation.new > 0 /\ UNCHANGED <<token, reader>>
        /\ \A r \in Readers : reader[r] = NoRead
    BY Zenon, <1>9 DEF RotateSecret, LockInv, List
  <2>2. CASE ~Decrypts(cached[s], masterKey)
    BY Zenon, <1>9, <2>2 DEF RotateSecret, TokenInv, Stands, Lookup
  <2>3. CASE Decrypts(cached[s], masterKey)
    <3> DEFINE new == ReEncryptWithNewKey(cached[s])
    <3>1. new \in Secret /\ new # NoSecret /\ ~new.deleted /\ new.data = cached[s].data
      BY <2>1 DEF ReEncryptWithNewKey, Secret, StoreType, Rotation, NoSecret
    <3>2. Save(s, new, outcome, TRUE)
      BY Zenon, <1>9, <2>3 DEF RotateSecret
    <3>3. cached'[s] = new
      BY Zenon, <3>2 DEF Save, StoreType
    <3> HIDE DEF new
    <3>4. dirty \subseteq dirty' /\ \A n \in SecretNames \ {s} : Lookup(n)' = Lookup(n)
      BY Zenon, <3>1, <3>2, SaveLooksUp
    <3>5. Live(Lookup(s)') /\ Lookup(s)'.data = Lookup(s).data
      BY Zenon, <2>1, <3>1, <3>3 DEF Lookup, Live
    <3>6. \A i \in TokenIds : token'[i].tracked => token'[i].issued /\ Stands(token[i])'
      BY Zenon, <2>1, <3>4, <3>5 DEF TokenInv, Stands
    <3> QED
      BY Zenon, <1>a, <2>1, <3>6
  <2> QED
    BY Zenon, <2>2, <2>3
<1>10. CASE RestartManager
  <2>1. \A i \in TokenIds : ~token'[i].tracked
    BY Zenon, <1>10 DEF RestartManager, TokenType, Token
  <2> QED
    BY Zenon, <1>10, <2>1 DEF RestartManager, TokenInv, NoRead
<1>11. CASE UNCHANGED <<saved, cached, token, reader, dirty>>
  BY Zenon, <1>11 DEF TokenInv, Stands, Lookup
<1> QED
  BY Zenon, <1>1, <1>2, <1>3, <1>4, <1>5, <1>6, <1>7, <1>8, <1>9, <1>10, <1>11
     DEF SecretsNext, ServiceStep, ReaderStep, RotateMasterKey, ActivateKey, secretVars

-----------------------------------------------------------------------------
(* The invariant holds in every reachable state.                           *)
LEMMA Invariance == SecretsSpec => []SecretsInv
<1>1. SecretsInv /\ [SecretsNext]_secretVars => SecretsInv'
  BY Zenon, StoreTypeStep, TokenTypeStep, LockStep, KeyStep, TokenStep DEF SecretsInv
<1> QED
  BY SecretsInitInv, <1>1, PTL DEF SecretsSpec

(* The secrets stay readable with the key the manager has, for any number  *)
(* of secrets, writes, rotations, failed saves and restarts, as long as no *)
(* rotation has failed, missed a secret or been undone by a restart.       *)
THEOREM SecretsStayReadable == SecretsSpec => []SecretsReadable
<1>1. SecretsInv => SecretsReadable
  BY Zenon DEF SecretsInv, KeyInv, SecretsReadable, Live, Decrypts
<1> QED
  BY Invariance, <1>1, PTL

(* A read returns the data that was current when its token was issued, for *)
(* any number of secrets, tokens, readers and writes.                      *)
THEOREM TokensReadTheirData == SecretsSpec => []TokenReadsItsData
<1>1. SecretsInv => TokenReadsItsData
  BY Zenon DEF SecretsInv, TokenInv, Stands, Live, TokenReadsItsData, Returned
<1> QED
  BY Invariance, <1>1, PTL

-----------------------------------------------------------------------------
(* The agent's client.                                                     *)

Answer == [data : Nat, expires : Nat]
Fetch == [pc : {"none", "token", "retrieve", "store"}, data : Nat, tokenFor : Nat, expires : Nat]

ClientType ==
  /\ held \in Nat \ {0} /\ (held = 1 \/ held <= MaxUpdates)
  /\ replacedAt \in [1..MaxUpdates -> Int]
  /\ entry \in Answer /\ fetch \in [Fetches -> Fetch]
  /\ served \in [data : Nat, at : Nat] /\ clock \in Nat

(* A token for the data d that expires at x was issued while d was         *)
(* current, which was at x - TokenLife.                                    *)
Issued(d, x) == d \in 1..held /\ x <= clock + TokenLife /\ (d < held => x <= replacedAt[d] + TokenLife)

(* The inductive invariant: the bound on what was served rests on when the *)
(* token of every entry, and of every call that may yet store one, was     *)
(* issued.                                                                 *)
StaleInv ==
  /\ entry.data # 0 => Issued(entry.data, entry.expires)
  /\ \A f \in Fetches :
       /\ fetch[f].pc = "retrieve" => Issued(fetch[f].tokenFor, fetch[f].expires)
       /\ fetch[f].pc = "store" => Issued(fetch[f].data, fetch[f].expires)
  /\ served.data # 0 =>
       /\ served.at <= clock /\ RefreshThreshold < TokenLife /\ served.data <= held
       /\ served.data < held => served.at - replacedAt[served.data] < TokenLife - RefreshThreshold

AgentInv == ClientType /\ StaleInv

(* The durations are natural numbers.                                      *)
LEMMA ClientConstants ==
  TokenLife \in Nat /\ RefreshThreshold \in Nat /\ MaxUpdates \in Nat /\ MaxAgentClock \in Nat
BY Zenon, AgentSecretsAssumption

(* The invariant holds when the agent starts.                              *)
LEMMA AgentInitInv == AgentSecretsInit => AgentInv
BY ClientConstants DEF AgentSecretsInit, AgentInv, ClientType, StaleInv, NoAnswer, NoFetch,
   Answer, Fetch

(* Every step keeps the types of the client.                               *)
LEMMA ClientTypeStep == ClientType /\ [AgentSecretsNext]_agentSecretVars => ClientType'
<1> SUFFICES ASSUME ClientType, [AgentSecretsNext]_agentSecretVars PROVE ClientType'
  BY Zenon
<1> USE ClientConstants DEF ClientType
<1>1. CASE ReplaceSecret
  BY <1>1 DEF ReplaceSecret
<1>2. CASE cleanupExpiredEntries \/ InvalidateCache \/ AgentClock
  BY SMTT(30), <1>2 DEF cleanupExpiredEntries, InvalidateCache, AgentClock, NoAnswer, Answer
<1>3. ASSUME NEW f \in Fetches, FetchStep(f) PROVE ClientType'
  <2>1. NoFetch \in Fetch
    BY Zenon DEF NoFetch, Fetch
  <2>2. CASE LookIntoCache(f)
    <3>1. [fetch[f] EXCEPT !.pc = "token"] \in Fetch
      BY Zenon DEF Fetch
    <3>2. fetch' = fetch \/ fetch' = [fetch EXCEPT ![f] = [fetch[f] EXCEPT !.pc = "token"]]
      BY Zenon, <2>2 DEF LookIntoCache
    <3>3. fetch' \in [Fetches -> Fetch]
      BY Zenon, <3>1, <3>2
    <3>4. served' \in [data : Nat, at : Nat]
      BY <2>2 DEF LookIntoCache, Answer
    <3> QED
      BY Zenon, <2>2, <3>3, <3>4 DEF LookIntoCache
  <2>3. CASE generateAccessToken(f)
    BY <2>3 DEF generateAccessToken, Fetch
  <2>4. CASE retrieveSecret(f)
    BY Zenon, <2>1, <2>4 DEF retrieveSecret, Fetch
  <2>5. CASE StoreEntry(f)
    BY Zenon, <2>1, <2>5 DEF StoreEntry, extractTokenExpiration, Fetch, Answer
  <2>6. CASE FetchFails(f)
    BY Zenon, <2>1, <2>6 DEF FetchFails
  <2> QED
    BY Zenon, <1>3, <2>2, <2>3, <2>4, <2>5, <2>6 DEF FetchStep
<1>4. CASE UNCHANGED agentSecretVars
  BY Zenon, <1>4 DEF agentSecretVars
<1> QED
  BY Zenon, <1>1, <1>2, <1>3, <1>4 DEF AgentSecretsNext

(* When a token was issued stays true as time passes and data is replaced. *)
LEMMA IssuedStays ==
  ASSUME ClientType, ClientType', ReplaceSecret \/ AgentClock \/ UNCHANGED <<held, replacedAt, clock>>,
         NEW d \in Nat, NEW x \in Nat, Issued(d, x)
  PROVE  Issued(d, x)'
<1> USE ClientConstants
<1>1. CASE ReplaceSecret
  <2>1. held' = held + 1 /\ clock' = clock /\ held \in 1..MaxUpdates
    BY <1>1 DEF ReplaceSecret, ClientType
  <2>2. \A e \in 1..held : replacedAt'[e] = IF e = held THEN clock ELSE replacedAt[e]
    BY <1>1, <2>1 DEF ReplaceSecret, ClientType
  <2> QED
    BY SMTT(30), <2>1, <2>2 DEF Issued, ClientType
<1>2. CASE AgentClock
  BY <1>2 DEF AgentClock, Issued, ClientType
<1>3. CASE UNCHANGED <<held, replacedAt, clock>>
  BY Zenon, <1>3 DEF Issued
<1> QED
  BY Zenon, <1>1, <1>2, <1>3

(* Every step keeps the age of what the cache holds within the bound.      *)
LEMMA StaleStep == AgentInv /\ [AgentSecretsNext]_agentSecretVars => StaleInv'
<1> SUFFICES ASSUME AgentInv, [AgentSecretsNext]_agentSecretVars PROVE StaleInv'
  BY Zenon
<1> USE ClientConstants
<1>0. ClientType /\ ClientType' /\ StaleInv
  BY Zenon, ClientTypeStep DEF AgentInv
<1>1. ASSUME ReplaceSecret \/ AgentClock \/ UNCHANGED <<held, replacedAt, clock>>,
             NEW d \in Nat, NEW x \in Nat, Issued(d, x)
      PROVE  Issued(d, x)'
  BY Zenon, <1>0, <1>1, IssuedStays
<1>2. CASE ReplaceSecret \/ AgentClock
  <2>1. UNCHANGED <<entry, fetch, served>>
    BY Zenon, <1>2 DEF ReplaceSecret, AgentClock
  <2>2. entry'.data # 0 => Issued(entry.data, entry.expires)'
    BY Zenon, <1>0, <1>1, <1>2, <2>1 DEF ClientType, StaleInv, Answer, Issued
  <2>3. ASSUME NEW f \in Fetches
        PROVE  /\ fetch'[f].pc = "retrieve" => Issued(fetch[f].tokenFor, fetch[f].expires)'
               /\ fetch'[f].pc = "store" => Issued(fetch[f].data, fetch[f].expires)'
    BY Zenon, <1>0, <1>1, <1>2, <2>1 DEF ClientType, StaleInv, Fetch, Issued
  <2>4. served'.data # 0 =>
          /\ served'.at <= clock' /\ RefreshThreshold < TokenLife /\ served'.data <= held'
          /\ served'.data < held' => served'.at - replacedAt'[served'.data] < TokenLife - RefreshThreshold
    <3>1. CASE ReplaceSecret
      <4>1. held' = held + 1 /\ clock' = clock /\ held \in 1..MaxUpdates
        BY <1>0, <3>1 DEF ReplaceSecret, ClientType
      <4>2. \A e \in 1..held : replacedAt'[e] = IF e = held THEN clock ELSE replacedAt[e]
        BY <1>0, <3>1, <4>1 DEF ReplaceSecret, ClientType
      <4>3. served.data \in Nat /\ served.at \in Nat /\ clock \in Nat /\ held \in Nat
        BY Zenon, <1>0 DEF ClientType
      <4>4. CASE served.data = held
        BY <1>0, <2>1, <4>1, <4>2, <4>3, <4>4 DEF StaleInv
      <4>5. CASE served.data # held
        BY <1>0, <2>1, <4>1, <4>2, <4>3, <4>5 DEF StaleInv
      <4> QED
        BY Zenon, <4>4, <4>5
    <3>2. CASE AgentClock
      BY <1>0, <2>1, <3>2 DEF ClientType, StaleInv, AgentClock
    <3> QED
      BY Zenon, <1>2, <3>1, <3>2
  <2> QED
    BY Zenon, <2>2, <2>3, <2>4 DEF StaleInv
<1>3. ASSUME UNCHANGED <<held, replacedAt, clock>>, NEW d, NEW x, Issued(d, x) PROVE Issued(d, x)'
  BY Zenon, <1>3 DEF Issued
<1>4. CASE cleanupExpiredEntries \/ InvalidateCache
  BY <1>0, <1>4 DEF cleanupExpiredEntries, InvalidateCache, NoAnswer, StaleInv, Issued
<1>5. ASSUME NEW f \in Fetches, FetchStep(f) PROVE StaleInv'
  <2>1. CASE LookIntoCache(f)
    <3>1. CASE Fresh
      BY SMTT(30), <1>0, <2>1, <3>1 DEF LookIntoCache, Fresh, ClientType, Answer, StaleInv, Issued
    <3>2. CASE ~Fresh
      <4>1. \A g \in Fetches : fetch'[g] = fetch[g] \/ fetch'[g].pc = "token"
        BY <1>0, <2>1, <3>2 DEF LookIntoCache, ClientType, Fetch
      <4> QED
        BY Zenon, <1>0, <2>1, <3>2, <4>1 DEF LookIntoCache, StaleInv, Issued
    <3> QED
      BY Zenon, <3>1, <3>2
  <2>2. CASE generateAccessToken(f)
    <3>1. \A g \in Fetches :
            \/ fetch'[g] = fetch[g]
            \/ fetch'[g] = [pc |-> "retrieve", data |-> 0, tokenFor |-> held, expires |-> clock + TokenLife]
      BY Zenon, <1>0, <2>2 DEF generateAccessToken, ClientType
    <3> QED
      BY SMTT(30), <1>0, <2>2, <3>1 DEF generateAccessToken, ClientType, StaleInv, Issued
  <2>3. CASE retrieveSecret(f)
    <3>1. \A g \in Fetches :
            \/ fetch'[g] = fetch[g] \/ fetch'[g] = NoFetch
            \/ /\ fetch[g].pc = "retrieve" /\ fetch[g].tokenFor = held
               /\ fetch'[g] = [fetch[g] EXCEPT !.pc = "store", !.data = held]
      BY Zenon, <1>0, <2>3 DEF retrieveSecret, ClientType
    <3>2. ASSUME NEW g \in Fetches
          PROVE  /\ fetch'[g].pc = "retrieve" => Issued(fetch'[g].tokenFor, fetch'[g].expires)
                 /\ fetch'[g].pc = "store" => Issued(fetch'[g].data, fetch'[g].expires)
      <4>1. fetch[g] \in Fetch
        BY Zenon, <1>0 DEF ClientType
      <4>2. CASE fetch'[g] = fetch[g]
        BY Zenon, <1>0, <4>2 DEF StaleInv
      <4>3. CASE fetch'[g] = NoFetch
        BY <4>3 DEF NoFetch
      <4>4. CASE /\ fetch[g].pc = "retrieve" /\ fetch[g].tokenFor = held
                 /\ fetch'[g] = [fetch[g] EXCEPT !.pc = "store", !.data = held]
        <5>1. fetch'[g].pc = "store" /\ fetch'[g].data = held /\ fetch'[g].expires = fetch[g].expires
          BY Zenon, <4>1, <4>4 DEF Fetch
        <5> QED
          BY Zenon, <1>0, <4>4, <5>1 DEF StaleInv
      <4> QED
        BY Zenon, <3>1, <4>2, <4>3, <4>4
    <3>3. UNCHANGED <<held, replacedAt, entry, served, clock>>
      BY Zenon, <2>3 DEF retrieveSecret
    <3> QED
      BY Zenon, <1>0, <3>2, <3>3 DEF StaleInv, Issued
  <2>4. CASE StoreEntry(f)
    <3>1. \A g \in Fetches : fetch'[g] = fetch[g] \/ fetch'[g] = NoFetch
      BY Zenon, <1>0, <2>4 DEF StoreEntry, ClientType
    <3> QED
      BY <1>0, <2>4, <3>1 DEF StoreEntry, extractTokenExpiration, NoFetch, StaleInv, Issued
  <2>5. CASE FetchFails(f)
    <3>1. \A g \in Fetches : fetch'[g] = fetch[g] \/ fetch'[g] = NoFetch
      BY Zenon, <1>0, <2>5 DEF FetchFails, ClientType
    <3> QED
      BY <1>0, <2>5, <3>1 DEF FetchFails, NoFetch, StaleInv, Issued
  <2> QED
    BY Zenon, <1>5, <2>1, <2>2, <2>3, <2>4, <2>5 DEF FetchStep
<1>6. CASE UNCHANGED agentSecretVars
  BY Zenon, <1>0, <1>6 DEF agentSecretVars, StaleInv, Issued
<1> QED
  BY Zenon, <1>2, <1>4, <1>5, <1>6 DEF AgentSecretsNext

(* The cache never serves data that was replaced a token's lifetime, less  *)
(* the refresh threshold, before: for any lifetime, threshold and number   *)
(* of calls, updates and ticks.                                            *)
THEOREM CacheStalenessIsBounded == AgentSecretsSpec => []StalenessBounded
<1>1. AgentInv /\ [AgentSecretsNext]_agentSecretVars => AgentInv'
  BY Zenon, ClientTypeStep, StaleStep DEF AgentInv
<1>2. AgentInv => StalenessBounded
  BY Zenon DEF AgentInv, StaleInv, StalenessBounded
<1> QED
  BY AgentInitInv, <1>1, <1>2, PTL DEF AgentSecretsSpec

-----------------------------------------------------------------------------
(* The policy engine.                                                      *)

AllPolicies == AddedPolicies \cup DefaultPolicies

Entry == [allowed : BOOLEAN, spec : Specs \cup {<<>>}, fresh : BOOLEAN]

Request ==
  [step : {"none", "policies", "evaluating", "answered"}, spec : Specs \cup {<<>>},
   todo : SUBSET AllPolicies, allowed : BOOLEAN, matched : SUBSET {p.name : p \in AllPolicies},
   seen : SUBSET AllPolicies, during : SUBSET SUBSET AllPolicies, hit : {"none", "own", "other"}]

PolicyType ==
  /\ policies \subseteq AllPolicies
  /\ resultCache \in [CacheKeys -> Entry]
  /\ request \in [Requests -> Request]
  /\ \A r \in Requests : /\ request[r].step # "none" => request[r].spec \in Specs
                         /\ request[r].step = "none" => request[r] = Unsubmitted

(* The policy is in force for the spec; it denies the spec.                *)
Counts(p, spec) == p.enabled /\ policyApplies(p, spec) /\ evaluatePolicy(p, spec).matched
Denies(p, spec) == Counts(p, spec) /\ p.action = "Deny" /\ evaluatePolicy(p, spec).violated

(* What Evaluate has found out from the policies it is done with.          *)
AllowedBy(ps, spec) == \A p \in ps : ~Denies(p, spec)
MatchedBy(ps, spec) == \E p \in ps : Counts(p, spec)

SoFar(q) ==
  /\ q.todo \subseteq q.seen
  /\ q.allowed <=> AllowedBy(q.seen \ q.todo, q.spec)
  /\ q.matched # {} <=> MatchedBy(q.seen \ q.todo, q.spec)

Told(q) == \E ps \in q.during : q.allowed <=> Complies(ps, q.spec)

RequestInv(q, now) ==
  /\ q.step = "policies" => now \in q.during /\ q.allowed /\ q.matched = {} /\ q.hit = "none"
  /\ q.step = "evaluating" => q.seen \in q.during /\ SoFar(q) /\ q.hit = "none"
  /\ q.step = "answered" /\ q.hit # "other" => Told(q)

(* A result stored from the policies in force is what they still say.      *)
FreshEntry(e, now) == e.fresh => (e.allowed <=> Complies(now, e.spec))

(* The inductive invariant.                                                *)
PolicyInv ==
  /\ PolicyType
  /\ \A k \in CacheKeys : FreshEntry(resultCache[k], policies)
  /\ \A r \in Requests : RequestInv(request[r], policies)

-----------------------------------------------------------------------------
(* Complies says, without an order, what Evaluate adds up.                 *)
LEMMA CompliesIs ==
  ASSUME NEW ps, NEW spec
  PROVE  Complies(ps, spec) <=> MatchedBy(ps, spec) /\ AllowedBy(ps, spec)
BY Zenon DEF Complies, MatchedBy, AllowedBy, Counts, Denies

(* A request that was not submitted is well formed.                        *)
LEMMA UnsubmittedType == Unsubmitted \in Request /\ RequestInv(Unsubmitted, policies)
BY Zenon DEF Unsubmitted, Request, RequestInv

(* The invariant holds under the default policies.                         *)
LEMMA PolicyInitInv == PolicyInit => PolicyInv
<1> SUFFICES ASSUME PolicyInit PROVE PolicyInv
  BY Zenon
<1>1. NotCached \in Entry /\ ~NotCached.fresh
  BY Zenon DEF NotCached, Entry
<1>2. PolicyType
  BY Zenon, <1>1, UnsubmittedType DEF PolicyInit, PolicyType, AllPolicies, Unsubmitted
<1>3. \A k \in CacheKeys : FreshEntry(resultCache[k], policies)
  BY Zenon, <1>1 DEF PolicyInit, FreshEntry
<1>4. \A r \in Requests : RequestInv(request[r], policies)
  BY Zenon, UnsubmittedType DEF PolicyInit
<1> QED
  BY Zenon, <1>2, <1>3, <1>4 DEF PolicyInv

(* A step of one request that leaves the policies: what it has to show.    *)
LEMMA OneRequest ==
  ASSUME PolicyInv, NEW r \in Requests, NEW q \in Request,
         request' = [request EXCEPT ![r] = q], policies' = policies,
         q.step # "none" => q.spec \in Specs, q.step = "none" => q = Unsubmitted,
         RequestInv(q, policies), resultCache' \in [CacheKeys -> Entry],
         \A k \in CacheKeys : FreshEntry(resultCache'[k], policies)
  PROVE  PolicyInv'
<1>1. PolicyType'
  BY Zenon DEF PolicyInv, PolicyType
<1>2. \A k \in CacheKeys : FreshEntry(resultCache'[k], policies')
  BY Zenon DEF FreshEntry
<1>3. \A s \in Requests : RequestInv(request'[s], policies)
  BY Zenon DEF PolicyInv, PolicyType
<1>4. \A s \in Requests : RequestInv(request'[s], policies')
  BY Zenon, <1>3 DEF RequestInv
<1> QED
  BY Zenon, <1>1, <1>2, <1>4 DEF PolicyInv

(* The steps of an evaluation keep the invariant.                          *)
LEMMA EvaluateStep ==
  ASSUME PolicyInv, NEW r \in Requests, Evaluate(r)
  PROVE  PolicyInv'
<1> DEFINE q == request[r]
<1>0. /\ q \in Request /\ RequestInv(q, policies) /\ (q.step # "none" => q.spec \in Specs)
      /\ (q.step = "none" => q = Unsubmitted) /\ policies \subseteq AllPolicies
      /\ resultCache \in [CacheKeys -> Entry] /\ \A k \in CacheKeys : FreshEntry(resultCache[k], policies)
  BY Zenon DEF PolicyInv, PolicyType
<1>1. ASSUME NEW spec \in Specs, AdmitWorkload(r, spec) PROVE PolicyInv'
  <2> DEFINE e == resultCache[getCacheKey(spec)]
             hit == [q EXCEPT !.step = "answered", !.spec = spec, !.allowed = e.allowed,
                       !.during = {policies},
                       !.hit = IF e.fresh /\ e.spec = spec THEN "own" ELSE "other"]
             miss == [q EXCEPT !.step = "policies", !.spec = spec, !.during = {policies}]
  <2>1. q = Unsubmitted /\ UNCHANGED <<policies, resultCache>>
    BY Zenon, <1>0, <1>1 DEF AdmitWorkload
  <2>2. e \in Entry /\ FreshEntry(e, policies)
    BY Zenon, <1>0 DEF CacheKeys
  <2>3. hit \in Request /\ hit.step = "answered" /\ hit.spec = spec
    <3> HIDE DEF e, q
    <3>1. e.allowed \in BOOLEAN /\ {policies} \in SUBSET SUBSET AllPolicies
      BY Zenon, <1>0, <2>2 DEF Entry
    <3>2. (IF e.fresh /\ e.spec = spec THEN "own" ELSE "other") \in {"none", "own", "other"}
      BY Zenon
    <3> QED
      BY Zenon, <1>0, <3>1, <3>2 DEF Request
  <2>4. RequestInv(hit, policies)
    <3>1. hit.hit # "other" => e.fresh /\ e.spec = spec
      BY Zenon, <1>0 DEF Request
    <3>2. policies \in hit.during /\ hit.allowed = e.allowed /\ hit.spec = spec
      BY Zenon, <1>0 DEF Request
    <3>3. hit.hit # "other" => Told(hit)
      BY Zenon, <2>2, <3>1, <3>2 DEF FreshEntry, Told
    <3> QED
      BY Zenon, <2>3, <3>3 DEF RequestInv
  <2>5. miss \in Request /\ miss.step = "policies" /\ miss.spec = spec /\ RequestInv(miss, policies)
    <3>1. {policies} \in SUBSET SUBSET AllPolicies
      BY Zenon, <1>0
    <3>2. /\ miss \in Request /\ miss.step = "policies" /\ miss.spec = spec /\ miss.during = {policies}
          /\ miss.allowed = q.allowed /\ miss.matched = q.matched /\ miss.hit = q.hit
      BY Zenon, <1>0, <3>1 DEF Request
    <3>3. q.allowed /\ q.matched = {} /\ q.hit = "none"
      BY <2>1 DEF Unsubmitted
    <3> QED
      BY Zenon, <3>2, <3>3 DEF RequestInv
  <2>6. request' = [request EXCEPT ![r] = IF Cached(spec) THEN hit ELSE miss]
    BY Zenon, <1>1 DEF AdmitWorkload
  <2> HIDE DEF hit, miss, e, q
  <2>7. CASE Cached(spec)
    BY Zenon, <1>0, <2>1, <2>3, <2>4, <2>6, <2>7, OneRequest
  <2>8. CASE ~Cached(spec)
    BY Zenon, <1>0, <2>1, <2>5, <2>6, <2>8, OneRequest
  <2> QED
    BY Zenon, <2>7, <2>8
<1>2. CASE getSortedPolicies(r)
  <2> DEFINE n == [q EXCEPT !.step = "evaluating", !.todo = policies, !.seen = policies]
  <2>1. q.step = "policies" /\ request' = [request EXCEPT ![r] = n] /\ UNCHANGED <<policies, resultCache>>
    BY Zenon, <1>2 DEF getSortedPolicies
  <2>2. n \in Request /\ n.step = "evaluating" /\ n.spec = q.spec /\ n.seen = policies /\ n.todo = policies
        /\ n.during = q.during /\ n.hit = q.hit /\ n.allowed = q.allowed /\ n.matched = q.matched
    BY Zenon, <1>0 DEF Request
  <2> HIDE DEF n
  <2>3. RequestInv(n, policies)
    BY Zenon, <1>0, <2>1, <2>2 DEF RequestInv, SoFar, AllowedBy, MatchedBy
  <2> QED
    BY Zenon, <1>0, <2>1, <2>2, <2>3, OneRequest
<1>3. CASE EvaluateNextPolicy(r)
  <2>1. PICK p \in q.todo : request' = [request EXCEPT ![r] = Evaluated(r, p)]
    BY Zenon, <1>3 DEF EvaluateNextPolicy
  <2>2. q.step = "evaluating" /\ UNCHANGED <<policies, resultCache>>
    BY Zenon, <1>3 DEF EvaluateNextPolicy
  <2> DEFINE n == Evaluated(r, p)
  <2>3. p \in AllPolicies
    BY Zenon, <1>0, <2>1 DEF Request
  <2>4. /\ n \in Request /\ n.step = q.step /\ n.spec = q.spec /\ n.seen = q.seen /\ n.hit = q.hit
        /\ n.during = q.during /\ n.todo = q.todo \ {p}
    BY Zenon, <1>0, <2>3 DEF Evaluated, Request
  <2>5. n.allowed <=> q.allowed /\ ~Denies(p, q.spec)
    BY Zenon, <1>0 DEF Evaluated, Request, Denies, Counts
  <2>6. n.matched # {} <=> q.matched # {} \/ Counts(p, q.spec)
    BY Zenon, <1>0 DEF Evaluated, Request, Counts
  <2>7. p \in q.seen /\ n.seen \ n.todo = (q.seen \ q.todo) \cup {p}
    BY Zenon, <1>0, <2>1, <2>2, <2>4 DEF RequestInv, SoFar
  <2>8. SoFar(q)
    BY Zenon, <1>0, <2>2 DEF RequestInv
  <2> HIDE DEF n, q
  <2>9. SoFar(n)
    BY Zenon, <2>4, <2>5, <2>6, <2>7, <2>8 DEF SoFar, AllowedBy, MatchedBy
  <2>10. RequestInv(n, policies)
    BY Zenon, <1>0, <2>2, <2>4, <2>9 DEF RequestInv
  <2> QED
    BY Zenon, <1>0, <2>1, <2>2, <2>4, <2>10, OneRequest DEF n
<1>4. CASE EvaluationTimeout(r) \/ ReturnResult(r)
  <2>1. request' = [request EXCEPT ![r] = Unsubmitted] /\ UNCHANGED <<policies, resultCache>>
    BY Zenon, <1>4 DEF EvaluationTimeout, ReturnResult
  <2>2. Unsubmitted.step = "none"
    BY Zenon DEF Unsubmitted
  <2> QED
    BY Zenon, <1>0, <2>1, <2>2, UnsubmittedType, OneRequest
<1>5. CASE cacheResult(r)
  <2> DEFINE allowed == q.allowed /\ q.matched # {}
             e == [allowed |-> allowed, spec |-> q.spec, fresh |-> q.seen = policies]
             n == [q EXCEPT !.step = "answered", !.allowed = allowed]
  <2>1. /\ q.step = "evaluating" /\ q.todo = {} /\ policies' = policies
        /\ resultCache' = [resultCache EXCEPT ![getCacheKey(q.spec)] = e]
        /\ request' = [request EXCEPT ![r] = n]
    BY Zenon, <1>5 DEF cacheResult
  <2>2. q.spec \in Specs /\ getCacheKey(q.spec) \in CacheKeys
    BY Zenon, <1>0, <2>1 DEF CacheKeys
  <2>3. SoFar(q) /\ q.seen \in q.during /\ q.hit = "none"
    BY Zenon, <1>0, <2>1 DEF RequestInv
  <2>4. q.seen \ q.todo = q.seen
    BY Zenon, <2>1
  <2>5. allowed <=> Complies(q.seen, q.spec)
    BY Zenon, <2>3, <2>4, CompliesIs DEF SoFar
  <2>6. e \in Entry /\ (e.allowed <=> allowed) /\ e.spec = q.spec /\ (e.fresh => q.seen = policies)
    BY Zenon, <1>0, <2>2 DEF Entry, Request
  <2>7. FreshEntry(e, policies)
    BY Zenon, <2>5, <2>6 DEF FreshEntry
  <2>8. /\ n \in Request /\ n.step = "answered" /\ n.spec = q.spec /\ (n.allowed <=> allowed)
        /\ n.during = q.during
    BY Zenon, <1>0 DEF Request
  <2>9. RequestInv(n, policies)
    BY Zenon, <2>3, <2>5, <2>8 DEF RequestInv, Told
  <2> HIDE DEF e, n, allowed, q
  <2>10. resultCache' \in [CacheKeys -> Entry] /\ \A k \in CacheKeys : FreshEntry(resultCache'[k], policies)
    BY Zenon, <1>0, <2>1, <2>2, <2>6, <2>7
  <2> QED
    BY Zenon, <2>1, <2>2, <2>8, <2>9, <2>10, OneRequest
<1> QED
  BY Zenon, <1>1, <1>2, <1>3, <1>4, <1>5 DEF Evaluate

(* AddPolicy and RemovePolicy: no result stays in the cache, and every     *)
(* call under way has the new policies among those in force during it.     *)
LEMMA ChangedStep ==
  ASSUME PolicyInv, NEW new, new \subseteq AllPolicies, Changed(new)
  PROVE  PolicyInv'
<1>1. NotCached \in Entry /\ ~NotCached.fresh
  BY Zenon DEF NotCached, Entry
<1>2. policies' = new /\ resultCache' = [k \in CacheKeys |-> NotCached]
  BY Zenon DEF Changed
<1>3. ASSUME NEW r \in Requests
      PROVE  /\ request'[r] \in Request /\ RequestInv(request'[r], policies')
             /\ request'[r].step # "none" => request'[r].spec \in Specs
             /\ request'[r].step = "none" => request'[r] = Unsubmitted
  <2> DEFINE q == request[r]
             n == [q EXCEPT !.during = q.during \cup {new}]
  <2>1. /\ q \in Request /\ RequestInv(q, policies) /\ (q.step # "none" => q.spec \in Specs)
        /\ (q.step = "none" => q = Unsubmitted)
    BY Zenon DEF PolicyInv, PolicyType
  <2>2. CASE q.step = "none"
    <3>1. request'[r] = q
      BY Zenon, <2>2 DEF Changed
    <3> QED
      BY Zenon, <2>1, <2>2, <3>1 DEF RequestInv
  <2>3. CASE q.step # "none"
    <3>1. request'[r] = n
      BY Zenon, <2>3 DEF Changed
    <3>2. /\ n \in Request /\ n.step = q.step /\ n.spec = q.spec /\ n.todo = q.todo /\ n.seen = q.seen
          /\ n.allowed = q.allowed /\ n.matched = q.matched /\ n.hit = q.hit /\ n.during = q.during \cup {new}
      BY SMTT(30), <2>1 DEF Request
    <3> HIDE DEF n, q
    <3>3. SoFar(q) => SoFar(n)
      BY ZenonT(60), <3>2 DEF SoFar
    <3>4. Told(q) => Told(n)
      BY Zenon, <3>2 DEF Told
    <3>5. RequestInv(n, policies')
      BY Zenon, <1>2, <2>1, <3>2, <3>3, <3>4 DEF RequestInv
    <3> QED
      BY Zenon, <2>1, <2>3, <3>1, <3>2, <3>5
  <2> QED
    BY Zenon, <2>2, <2>3
<1>4. request' \in [Requests -> Request]
  <2>1. request' = [r \in Requests |-> request'[r]]
    BY Zenon DEF Changed
  <2> QED
    BY Zenon, <1>3, <2>1
<1>5. PolicyType'
  BY Zenon, <1>1, <1>2, <1>3, <1>4 DEF PolicyType
<1>6. \A k \in CacheKeys : FreshEntry(resultCache'[k], policies')
  BY Zenon, <1>1, <1>2 DEF FreshEntry
<1> QED
  BY Zenon, <1>3, <1>5, <1>6 DEF PolicyInv

(* Every step keeps the invariant.                                         *)
LEMMA PolicyStep == PolicyInv /\ [PolicyNext]_policyVars => PolicyInv'
<1> SUFFICES ASSUME PolicyInv, [PolicyNext]_policyVars PROVE PolicyInv'
  BY Zenon
<1>0. policies \subseteq AllPolicies
  BY Zenon DEF PolicyInv, PolicyType
<1>1. ASSUME NEW key \in CacheKeys, CacheTTL(key) PROVE PolicyInv'
  <2>1. NotCached \in Entry /\ ~NotCached.fresh
    BY Zenon DEF NotCached, Entry
  <2>2. policies' = policies /\ request' = request /\ resultCache' = [resultCache EXCEPT ![key] = NotCached]
    BY Zenon, <1>1 DEF CacheTTL
  <2>3. PolicyType'
    BY Zenon, <2>1, <2>2 DEF PolicyInv, PolicyType
  <2>4. \A k \in CacheKeys : FreshEntry(resultCache'[k], policies')
    BY Zenon, <2>1, <2>2 DEF PolicyInv, PolicyType, FreshEntry
  <2>5. \A r \in Requests : RequestInv(request'[r], policies')
    BY Zenon, <2>2 DEF PolicyInv, RequestInv
  <2> QED
    BY Zenon, <2>3, <2>4, <2>5 DEF PolicyInv
<1>2. ASSUME NEW policy \in AddedPolicies, AddPolicy(policy) PROVE PolicyInv'
  BY Zenon, <1>0, <1>2, ChangedStep DEF AddPolicy, AllPolicies
<1>3. ASSUME NEW name, RemovePolicy(name) PROVE PolicyInv'
  BY Zenon, <1>0, <1>3, ChangedStep DEF RemovePolicy
<1>4. CASE UNCHANGED policyVars
  BY ZenonT(60), <1>4 DEF policyVars, PolicyInv, PolicyType, FreshEntry, RequestInv
<1> QED
  BY Zenon, <1>1, <1>2, <1>3, <1>4, EvaluateStep DEF PolicyNext

(* For any requests, workloads and policies: what AdmitWorkload is told is *)
(* what policies in force at some time of the call say of the workload, in *)
(* whatever order Evaluate goes over policies of one priority, unless it is*)
(* a cached result of another workload with the same key, or one stored    *)
(* after its policies were replaced (engine.go: clearCache runs with every *)
(* change of the policies).                                                *)
THEOREM AdmissionsAreCurrent == PolicySpec => []AnswersAreCurrent
<1>1. PolicyInv => AnswersAreCurrent
  BY Zenon DEF PolicyInv, RequestInv, Told, AnswersAreCurrent
<1> QED
  BY <1>1, PolicyInitInv, PolicyStep, PTL DEF PolicySpec

=============================================================================
