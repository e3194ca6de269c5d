--------------------------- MODULE BootstrapTokens ---------------------------
(***************************************************************************)
(* The in-memory bootstrap-token table of pkg/mtls/token.go                *)
(* (TokenManager).  Every operation runs under tm.mu, so each is one       *)
(* action; the two operations the enrolment path calls, ValidateToken and  *)
(* UseToken, are operators that Membership uses at the two points of       *)
(* EnrollNode where the code calls them.  JWT signing and parsing are      *)
(* abstracted: a request carries the identity of a token.                  *)
(***************************************************************************)
EXTENDS Integers

CONSTANTS
  Tokens,      \* token IDs (uuid.New: never reused)
  MaxUses      \* the largest maxUses a caller of GenerateToken asks for

ASSUME MaxUsesAssumption == MaxUses \in Nat \ {0}

VARIABLE
  tokens       \* [Tokens -> TokenRec]: tm.tokens, plus what became of a deleted entry

TokenStatus == {"ungenerated", "stored", "deleted"}

(* UseCount, MaxUses and the passing of ExpiresAt.  Used is not kept: the  *)
(* code sets it exactly when UseCount reaches MaxUses.                     *)
TokenRec == [status : TokenStatus, expired : BOOLEAN,
             useCount : 0..MaxUses, maxUses : 1..MaxUses]

NoToken == [status |-> "ungenerated", expired |-> FALSE, useCount |-> 0, maxUses |-> 1]

TokensInit == tokens = [t \in Tokens |-> NoToken]

(* Mutant of Exhausted: off by one.                                        *)
ExhaustedLate(t) == tokens[t].useCount > tokens[t].maxUses

Exhausted(t) == tokens[t].useCount >= tokens[t].maxUses

(* ValidateToken succeeds; it changes nothing.                             *)
ValidateToken(t) ==
  /\ tokens[t].status = "stored"
  /\ ~tokens[t].expired
  /\ ~Exhausted(t)

(* What UseToken leaves behind.  Its two errors (unknown token, already at *)
(* the limit) change nothing; it does not look at the expiry.              *)
UseToken(t) ==
  IF tokens[t].status = "stored" /\ ~Exhausted(t)
  THEN [tokens EXCEPT ![t].useCount = @ + 1]
  ELSE tokens

(* A maxUses of zero or less becomes one.                                  *)
GenerateToken(t, uses) ==
  /\ tokens[t].status = "ungenerated"
  /\ tokens' = [tokens EXCEPT ![t] =
       [status |-> "stored", expired |-> FALSE, useCount |-> 0,
        maxUses |-> IF uses <= 0 THEN 1 ELSE uses]]

(* Time passes ExpiresAt.                                                  *)
ExpireToken(t) ==
  /\ tokens[t].status = "stored" /\ ~tokens[t].expired
  /\ tokens' = [tokens EXCEPT ![t].expired = TRUE]

RevokeToken(t) ==
  /\ tokens[t].status = "stored"
  /\ tokens' = [tokens EXCEPT ![t].useCount = tokens[t].maxUses]

(* One pass of the cleanup task deletes every expired or used-up token.    *)
CleanupExpiredTokens ==
  /\ \E t \in Tokens : tokens[t].status = "stored" /\ (tokens[t].expired \/ Exhausted(t))
  /\ tokens' = [t \in Tokens |->
       IF tokens[t].status = "stored" /\ (tokens[t].expired \/ Exhausted(t))
       THEN [tokens[t] EXCEPT !.status = "deleted"] ELSE tokens[t]]

(* The table is not persisted: a restart of the coordinator forgets it.    *)
ForgetTokens ==
  [t \in Tokens |-> IF tokens[t].status = "stored"
                    THEN [tokens[t] EXCEPT !.status = "deleted"] ELSE tokens[t]]

TokensNext ==
  \/ \E t \in Tokens, uses \in 0..MaxUses : GenerateToken(t, uses)
  \/ \E t \in Tokens : ExpireToken(t)
  \/ \E t \in Tokens : RevokeToken(t)
  \/ CleanupExpiredTokens
=============================================================================
