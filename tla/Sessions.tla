------------------------------ MODULE Sessions ------------------------------
(***************************************************************************)
(* What one account is entered with: the sessions its logins left and the  *)
(* secret of its second factor (routes/auth.js, routes/sessions.js,        *)
(* middleware/authGuard.js, revokeAccessFor of routes/members.js).         *)
(*                                                                         *)
(* Enabling the second factor reads the secret and writes in two           *)
(* statements; everything else here is one.                                *)
(***************************************************************************)
EXTENDS Integers, FiniteSets

CONSTANTS
  Jtis,         \* token ids the logins hand out, in order
  Clients,      \* requests to enable the second factor
  Secrets       \* second-factor secrets

ASSUME SessionsAssumption == Jtis \subseteq Nat

VARIABLES
  status,       \* users.status
  token,        \* the JWT of a jti: "none", "good" or "expired"
  row,          \* its user_sessions row: "none", "live" or "revoked"
  mfa,          \* users.mfa_secret and mfa_enabled; `proven` is a history variable,
                \* the secret a code was last checked against
  client,       \* the secret that a request has read, if one is in progress
  alone         \* history: nothing touched the secret while a request held one

sessionVars == <<status, token, row, mfa, client, alone>>

NoSecret == "none"
SessionInit ==
  /\ status = "Active"
  /\ token = [j \in Jtis |-> "none"] /\ row = [j \in Jtis |-> "none"]
  /\ mfa = [secret |-> NoSecret, enabled |-> FALSE, proven |-> NoSecret]
  /\ client = [c \in Clients |-> NoSecret] /\ alone = TRUE

\* mutated: the row is not looked at
AuthenticatesByToken(j) == token[j] = "good"
\* authGuard: a good token whose row, if there is one, has not been revoked.
Authenticates(j) == token[j] = "good" /\ row[j] # "revoked"
SignedIn == \E j \in Jtis : Authenticates(j)

\* POST /login: the session row is best-effort, the token is not.
Login == \E j \in Jtis, recorded \in BOOLEAN :
  /\ status = "Active" /\ token[j] = "none" /\ \A i \in Jtis : i < j => token[i] # "none"
  /\ token' = [token EXCEPT ![j] = "good"]
  /\ row' = [row EXCEPT ![j] = IF recorded THEN "live" ELSE "none"]
  /\ UNCHANGED <<status, mfa, client, alone>>

\* A token ends after 1 or 30 days.
Expire == \E j \in Jtis :
  /\ token[j] = "good"
  /\ token' = [token EXCEPT ![j] = "expired"]
  /\ UNCHANGED <<status, row, mfa, client, alone>>

\* DELETE /sessions/:id, and POST /sessions/revoke-all by the session k.
RevokeOne == \E j \in Jtis :
  /\ SignedIn /\ row[j] # "none"
  /\ row' = [row EXCEPT ![j] = "revoked"]
  /\ UNCHANGED <<status, token, mfa, client, alone>>
RevokeAll == \E k \in Jtis :
  /\ Authenticates(k)
  /\ row' = [j \in Jtis |-> IF row[j] = "live" /\ j # k THEN "revoked" ELSE row[j]]
  /\ UNCHANGED <<status, token, mfa, client, alone>>

\* revokeAccessFor deletes the rows; an admin may let the account in again.
RemoveAccount ==
  /\ status = "Active" /\ status' = "Deactivated"
  /\ row' = [j \in Jtis |-> "none"]
  /\ UNCHANGED <<token, mfa, client, alone>>
Readmit ==
  /\ status = "Deactivated" /\ status' = "Active"
  /\ UNCHANGED <<token, row, mfa, client, alone>>

\* POST /mfa/setup stores a fresh secret and turns the factor off; /mfa/enable
\* reads the secret, checks a code against it and turns the factor on;
\* /mfa/disable clears both.
Untouched == alone' = (alone /\ \A c \in Clients : client[c] = NoSecret)
SetupMfa == \E s \in Secrets :
  /\ SignedIn /\ s # mfa.secret
  /\ mfa' = [mfa EXCEPT !.secret = s, !.enabled = FALSE]
  /\ Untouched
  /\ UNCHANGED <<status, token, row, client>>
ReadSecret(c) ==
  /\ SignedIn /\ mfa.secret # NoSecret /\ client[c] = NoSecret
  /\ client' = [client EXCEPT ![c] = mfa.secret]
  /\ UNCHANGED <<status, token, row, mfa, alone>>
EnableMfa(c) ==
  /\ client[c] # NoSecret
  /\ mfa' = [mfa EXCEPT !.enabled = TRUE, !.proven = client[c]]
  /\ client' = [client EXCEPT ![c] = NoSecret]
  /\ UNCHANGED <<status, token, row, alone>>
DisableMfa ==
  /\ SignedIn /\ mfa.secret # NoSecret
  /\ mfa' = [mfa EXCEPT !.secret = NoSecret, !.enabled = FALSE]
  /\ Untouched
  /\ UNCHANGED <<status, token, row, client>>

SessionNext ==
  \/ Login \/ Expire \/ RevokeOne \/ RevokeAll \/ RemoveAccount \/ Readmit
  \/ SetupMfa \/ DisableMfa
  \/ \E c \in Clients : ReadSecret(c) \/ EnableMfa(c)

SessionSpec == SessionInit /\ [][SessionNext]_sessionVars

-----------------------------------------------------------------------------
\* The type invariant; a session row is of a token that was handed out.
SessionTypeOK ==
  /\ status \in {"Active", "Deactivated"}
  /\ token \in [Jtis -> {"none", "good", "expired"}] /\ row \in [Jtis -> {"none", "live", "revoked"}]
  /\ \A j \in Jtis : row[j] # "none" => token[j] # "none"
  /\ mfa \in [secret : Secrets \cup {NoSecret}, enabled : BOOLEAN, proven : Secrets \cup {NoSecret}]
  /\ client \in [Clients -> Secrets \cup {NoSecret}] /\ alone \in BOOLEAN

\* The second factor is on only with a secret its owner has shown a code of
\* (auth.js:604-605 "The user must confirm a code via /mfa/enable before MFA
\* takes effect"); a setup between the read and the write of an enable breaks it.
FactorProven == alone /\ mfa.enabled => mfa.proven = mfa.secret

\* A session that was signed out stays out, unless the removal of the member
\* deletes the row that says so (authGuard.js:26-30, members.js:65).
SignedOutStaysOut ==
  [][\A j \in Jtis : row[j] = "revoked" /\ Authenticates(j)' => RemoveAccount]_sessionVars

\* Who is signed in, and with what, over any sequence of calls.
SessionsSound == []FactorProven /\ SignedOutStaysOut
=============================================================================
