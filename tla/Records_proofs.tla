--------------------------- MODULE Records_proofs ---------------------------
(***************************************************************************)
(* Theorems about the records that outlive a request: the tokens that      *)
(* reset a password, the sessions, the names and structure of issues, the  *)
(* history and the tree of wiki pages, and the documents, folders and      *)
(* quota of a Space, for every set of accounts, tokens, projects, pages,   *)
(* documents and requests.                                                 *)
(***************************************************************************)
EXTENDS PasswordReset, Sessions, IssueTree, Wiki, Documents, NumberLemmas, FiniteSetTheorems, TLAPS

(***************************************************************************)
(* PasswordReset.  Tokens are handed out in order, and a request holds one *)
(* that was handed out; this much survives any overlap.                    *)
(***************************************************************************)
HandedOut ==
  /\ \A s, t \in Resets : s < t /\ reset[t] # "none" => reset[s] # "none"
  /\ \A c \in Forgetful : asks[c].pc \in {"set", "use"} =>
       asks[c].token \in Resets /\ reset[asks[c].token] # "none"

\* While the requests come one at a time a live token is the newest one, the
\* request that holds a token holds the newest one, and a token that has set a
\* password is used, or the request that used it is about to say so.
NewestToken(t) == \A s \in Resets : s > t => reset[s] = "none"
Turns == \A c, d \in Forgetful : asks[c] # Away /\ asks[d] # Away => c = d
LiveNewest ==
  /\ \A t \in Resets : reset[t] = "live" => NewestToken(t)
  /\ \A c \in Forgetful : asks[c].pc = "insert" => \A t \in Resets : reset[t] # "live"
HeldNewest ==
  \A c \in Forgetful : asks[c].pc \in {"set", "use"} =>
    LET t == asks[c].token IN
      /\ reset[t] \in {"live", "expired"} /\ NewestToken(t)
      /\ asks[c].pc = "set" => spent[t] = 0
      /\ asks[c].pc = "use" => spent[t] = 1 /\ password = t
SpentUsed ==
  \A t \in Resets : spent[t] > 0 =>
    /\ spent[t] = 1 /\ t <= password
    /\ reset[t] = "used" \/ \E c \in Forgetful : asks[c].pc = "use" /\ asks[c].token = t

ResetInv ==
  /\ ResetTypeOK /\ HandedOut
  /\ single => Turns /\ LiveNewest /\ HeldNewest /\ SpentUsed

LEMMA AwayTyped == Away.pc = "away" /\ Away.token = 0
BY DEF Away

\* The request that takes a step is the only one, or it has just begun.
LEMMA AskMoves ==
  ASSUME ResetInv, NEW c \in Forgetful,
         NEW q \in [pc : {"away", "insert", "set", "use"}, token : Resets \cup {0}], Ask(c, q)
  PROVE  /\ asks' \in [Forgetful -> [pc : {"away", "insert", "set", "use"}, token : Resets \cup {0}]]
         /\ asks'[c] = q /\ \A d \in Forgetful \ {c} : asks'[d] = asks[d]
         /\ single' \in BOOLEAN
         /\ single' => single /\ \A d \in Forgetful : asks[d] = Away
<1>1. asks' = [asks EXCEPT ![c] = q]
  BY DEF Ask
<1>2. single' \in BOOLEAN /\ (single' => single /\ \A d \in Forgetful : asks[d] = Away)
  BY Zenon DEF Ask, ResetInv, ResetTypeOK
<1> QED BY <1>1, <1>2 DEF ResetInv, ResetTypeOK

LEMMA AnswerMoves ==
  ASSUME ResetInv, NEW c \in Forgetful, Answer(c)
  PROVE  /\ asks' \in [Forgetful -> [pc : {"away", "insert", "set", "use"}, token : Resets \cup {0}]]
         /\ asks'[c] = Away /\ \A d \in Forgetful \ {c} : asks'[d] = asks[d]
         /\ single' \in BOOLEAN /\ (single' <=> single)
<1>1. Away \in [pc : {"away", "insert", "set", "use"}, token : Resets \cup {0}]
  BY DEF Away
<1> QED BY <1>1 DEF Answer, ResetInv, ResetTypeOK

LEMMA ResetStarts == ASSUME ResetInit PROVE ResetInv
<1>1. Away \in [pc : {"away", "insert", "set", "use"}, token : Resets \cup {0}]
  BY DEF Away
<1>2. ResetTypeOK
  BY <1>1 DEF ResetInit, ResetTypeOK
<1>3. \A c \in Forgetful : asks[c].pc = "away" /\ asks[c] = Away
  BY AwayTyped DEF ResetInit
<1>4. HandedOut /\ Turns /\ LiveNewest /\ HeldNewest /\ SpentUsed
  BY <1>3 DEF ResetInit, HandedOut, Turns, LiveNewest, HeldNewest, SpentUsed
<1> QED BY <1>2, <1>4 DEF ResetInv

LEMMA ForgotKeeps == ASSUME ResetInv, NEW c \in Forgetful, Forgot(c) PROVE ResetInv'
<1> DEFINE q == [Away EXCEPT !.pc = "insert"]
<1>1. q \in [pc : {"away", "insert", "set", "use"}, token : Resets \cup {0}] /\ q.pc = "insert"
  BY DEF Away
<1>2. Ask(c, q)
  BY DEF Forgot
<1>3. /\ asks' \in [Forgetful -> [pc : {"away", "insert", "set", "use"}, token : Resets \cup {0}]]
      /\ asks'[c].pc = "insert" /\ \A d \in Forgetful \ {c} : asks'[d] = asks[d]
      /\ single' \in BOOLEAN
      /\ single' => single /\ \A d \in Forgetful : asks[d] = Away
  <2> HIDE DEF q
  <2> QED BY <1>1, <1>2, AskMoves
<1>4. /\ \A t \in Resets : reset'[t] = IF reset[t] = "none" THEN "none" ELSE "used"
      /\ reset' = [t \in Resets |-> IF reset[t] = "none" THEN "none" ELSE "used"]
      /\ UNCHANGED <<password, spent>>
  BY DEF Forgot
<1>5. ResetTypeOK'
  BY <1>3, <1>4 DEF ResetInv, ResetTypeOK
<1>6. HandedOut'
  BY <1>3, <1>4 DEF ResetInv, ResetTypeOK, HandedOut
<1>7. ASSUME single' PROVE (Turns /\ LiveNewest /\ HeldNewest /\ SpentUsed)'
  <2>1. \A d \in Forgetful \ {c} : asks'[d] = Away /\ asks'[d].pc = "away"
    BY <1>3, <1>7, AwayTyped
  <2>2. Turns' /\ LiveNewest' /\ HeldNewest'
    BY <1>3, <1>4, <2>1 DEF Turns, LiveNewest, HeldNewest
  <2>3. SpentUsed'
    BY <1>3, <1>4, <1>7 DEF ResetInv, ResetTypeOK, SpentUsed
  <2> QED BY <2>2, <2>3
<1> QED BY <1>5, <1>6, <1>7 DEF ResetInv

LEMMA NewResetKeeps == ASSUME ResetInv, NEW c \in Forgetful, NewReset(c) PROVE ResetInv'
<1>1. PICK t \in Resets :
        /\ asks[c].pc = "insert"
        /\ reset[t] = "none" /\ \A s \in Resets : s < t => reset[s] # "none"
        /\ reset' = [reset EXCEPT ![t] = "live"]
        /\ Answer(c)
        /\ UNCHANGED <<password, spent>>
  BY DEF NewReset
<1>2. /\ asks' \in [Forgetful -> [pc : {"away", "insert", "set", "use"}, token : Resets \cup {0}]]
      /\ asks'[c] = Away /\ asks'[c].pc = "away" /\ \A d \in Forgetful \ {c} : asks'[d] = asks[d]
      /\ single' \in BOOLEAN /\ (single' <=> single)
  BY <1>1, AnswerMoves, AwayTyped
<1>3. reset'[t] = "live" /\ \A s \in Resets \ {t} : reset'[s] = reset[s]
  BY <1>1 DEF ResetInv, ResetTypeOK
<1>4. \A s \in Resets : s > t => reset[s] = "none"
  BY <1>1, PasswordResetAssumption DEF ResetInv, HandedOut
<1>5. ResetTypeOK'
  BY <1>1, <1>2, <1>3 DEF ResetInv, ResetTypeOK
<1>6. HandedOut'
  BY <1>1, <1>2, <1>3, <1>4, PasswordResetAssumption DEF ResetInv, HandedOut
<1>7. ASSUME single' PROVE (Turns /\ LiveNewest /\ HeldNewest /\ SpentUsed)'
  <2>1. asks[c] # Away /\ \A d \in Forgetful \ {c} : asks'[d] = Away /\ asks'[d].pc = "away"
    BY <1>1, <1>2, <1>7, AwayTyped DEF ResetInv, Turns
  <2>2. Turns' /\ HeldNewest'
    BY <1>2, <2>1 DEF Turns, HeldNewest
  <2>3. LiveNewest'
    BY <1>1, <1>2, <1>3, <1>4, <1>7, <2>1, PasswordResetAssumption DEF ResetInv, LiveNewest, NewestToken
  <2>4. SpentUsed'
    BY <1>1, <1>2, <1>3, <1>7 DEF ResetInv, ResetTypeOK, SpentUsed
  <2> QED BY <2>2, <2>3, <2>4
<1> QED BY <1>5, <1>6, <1>7 DEF ResetInv

LEMMA LapsedKeeps == ASSUME ResetInv, Lapsed PROVE ResetInv'
<1>1. PICK t \in Resets : /\ reset[t] = "live" /\ reset' = [reset EXCEPT ![t] = "expired"]
                         /\ UNCHANGED <<asks, password, spent, single>>
  BY DEF Lapsed
<1>2. reset'[t] = "expired" /\ \A s \in Resets \ {t} : reset'[s] = reset[s]
  BY <1>1 DEF ResetInv, ResetTypeOK
<1>3. ResetTypeOK' /\ HandedOut'
  BY <1>1, <1>2 DEF ResetInv, ResetTypeOK, HandedOut
<1>4. ASSUME single' PROVE (Turns /\ LiveNewest /\ HeldNewest /\ SpentUsed)'
  <2>1. Turns /\ LiveNewest /\ HeldNewest /\ SpentUsed
    BY <1>1, <1>4 DEF ResetInv
  <2>2. Turns' /\ LiveNewest'
    BY <1>1, <1>2, <2>1 DEF Turns, LiveNewest, NewestToken
  <2>3. HeldNewest'
    BY <1>1, <1>2, <2>1 DEF ResetInv, HandedOut, HeldNewest, NewestToken
  <2>4. SpentUsed'
    BY <1>1, <1>2, <2>1 DEF SpentUsed
  <2> QED BY <2>2, <2>3, <2>4
<1> QED BY <1>3, <1>4 DEF ResetInv

LEMMA CheckResetKeeps == ASSUME ResetInv, NEW c \in Forgetful, CheckReset(c) PROVE ResetInv'
<1>1. PICK t \in Resets : /\ reset[t] = "live" /\ Ask(c, [pc |-> "set", token |-> t])
                         /\ UNCHANGED <<reset, password, spent>>
  BY DEF CheckReset
<1> DEFINE q == [pc |-> "set", token |-> t]
<1>2. q \in [pc : {"away", "insert", "set", "use"}, token : Resets \cup {0}] /\ q.pc = "set" /\ q.token = t
  OBVIOUS
<1>3. /\ asks' \in [Forgetful -> [pc : {"away", "insert", "set", "use"}, token : Resets \cup {0}]]
      /\ asks'[c].pc = "set" /\ asks'[c].token = t /\ \A d \in Forgetful \ {c} : asks'[d] = asks[d]
      /\ single' \in BOOLEAN
      /\ single' => single /\ \A d \in Forgetful : asks[d] = Away
  <2>1. Ask(c, q)
    BY <1>1
  <2> HIDE DEF q
  <2> QED BY <1>2, <2>1, AskMoves
<1>4. ResetTypeOK' /\ HandedOut'
  BY <1>1, <1>3 DEF ResetInv, ResetTypeOK, HandedOut
<1>5. ASSUME single' PROVE (Turns /\ LiveNewest /\ HeldNewest /\ SpentUsed)'
  <2>1. /\ Turns /\ LiveNewest /\ HeldNewest /\ SpentUsed
        /\ \A d \in Forgetful : asks[d] = Away /\ asks[d].pc = "away"
    BY <1>3, <1>5, AwayTyped DEF ResetInv
  <2>2. Turns' /\ LiveNewest'
    BY <1>1, <1>3, <2>1 DEF Turns, LiveNewest, NewestToken
  <2>3. spent[t] = 0
    BY <1>1, <2>1 DEF ResetInv, ResetTypeOK, SpentUsed
  <2>4. HeldNewest'
    BY <1>1, <1>3, <2>1, <2>3 DEF HeldNewest, LiveNewest, NewestToken
  <2>5. SpentUsed'
    BY <1>1, <1>3, <2>1 DEF SpentUsed
  <2> QED BY <2>2, <2>4, <2>5
<1> QED BY <1>4, <1>5 DEF ResetInv

LEMMA SetPasswordKeeps == ASSUME ResetInv, NEW c \in Forgetful, SetPassword(c) PROVE ResetInv'
<1> DEFINE t == asks[c].token
<1>1. /\ asks[c].pc = "set" /\ password' = t
      /\ spent' = [spent EXCEPT ![t] = IF @ < 2 THEN @ + 1 ELSE @]
      /\ asks' = [asks EXCEPT ![c].pc = "use"]
      /\ UNCHANGED <<reset, single>>
  BY DEF SetPassword
<1>2. t \in Resets /\ reset[t] # "none"
  BY <1>1 DEF ResetInv, HandedOut
<1>3. /\ asks' \in [Forgetful -> [pc : {"away", "insert", "set", "use"}, token : Resets \cup {0}]]
      /\ asks'[c].pc = "use" /\ asks'[c].token = t /\ \A d \in Forgetful \ {c} : asks'[d] = asks[d]
  BY <1>1 DEF ResetInv, ResetTypeOK
<1>4. /\ spent' \in [Resets -> 0..2] /\ \A s \in Resets \ {t} : spent'[s] = spent[s]
      /\ spent[t] = 0 => spent'[t] = 1
  BY <1>1, <1>2 DEF ResetInv, ResetTypeOK
<1>5. ResetTypeOK' /\ HandedOut'
  BY <1>1, <1>2, <1>3, <1>4 DEF ResetInv, ResetTypeOK, HandedOut
<1>6. ASSUME single' PROVE (Turns /\ LiveNewest /\ HeldNewest /\ SpentUsed)'
  <2>1. Turns /\ LiveNewest /\ HeldNewest /\ SpentUsed
    BY <1>1, <1>6 DEF ResetInv
  <2>2. /\ asks[c] # Away
        /\ \A d \in Forgetful \ {c} : asks[d] = Away /\ asks[d].pc = "away" /\ asks'[d] = Away
    BY <1>1, <1>3, <2>1, AwayTyped DEF Turns
  <2>3. Turns' /\ LiveNewest'
    BY <1>1, <1>3, <2>1, <2>2 DEF Turns, LiveNewest, NewestToken
  <2>4. reset[t] \in {"live", "expired"} /\ NewestToken(t) /\ spent[t] = 0
    BY <1>1, <2>1 DEF HeldNewest
  <2>5. HeldNewest'
    BY <1>1, <1>3, <1>4, <2>2, <2>4 DEF HeldNewest, NewestToken
  <2>6. ASSUME NEW s \in Resets, spent[s] > 0 PROVE s <= t /\ reset[s] = "used" /\ spent[s] = 1
    <3>1. reset[s] # "none"
      BY <2>6 DEF ResetInv, ResetTypeOK
    <3>2. s <= t
      <4>1. t \in Nat /\ s \in Nat
        BY <1>2, PasswordResetAssumption
      <4>2. s > t => reset[s] = "none"
        BY <2>4 DEF NewestToken
      <4> HIDE DEF t
      <4> QED BY <3>1, <4>1, <4>2
    <3> QED BY <1>1, <2>1, <2>2, <2>6, <3>2 DEF SpentUsed
  <2>7. SpentUsed'
    BY <1>1, <1>2, <1>3, <1>4, <2>4, <2>6, PasswordResetAssumption DEF SpentUsed
  <2> QED BY <2>3, <2>5, <2>7
<1> QED BY <1>5, <1>6 DEF ResetInv

LEMMA UseResetKeeps == ASSUME ResetInv, NEW c \in Forgetful, UseReset(c) PROVE ResetInv'
<1> DEFINE t == asks[c].token
<1>1. /\ asks[c].pc = "use" /\ reset' = [reset EXCEPT ![t] = "used"] /\ Answer(c)
      /\ UNCHANGED <<password, spent>>
  BY DEF UseReset
<1>2. t \in Resets /\ reset[t] # "none"
  BY <1>1 DEF ResetInv, HandedOut
<1>3. /\ asks' \in [Forgetful -> [pc : {"away", "insert", "set", "use"}, token : Resets \cup {0}]]
      /\ asks'[c] = Away /\ asks'[c].pc = "away" /\ \A d \in Forgetful \ {c} : asks'[d] = asks[d]
      /\ single' \in BOOLEAN /\ (single' <=> single)
  BY <1>1, AnswerMoves, AwayTyped
<1>4. reset'[t] = "used" /\ \A s \in Resets \ {t} : reset'[s] = reset[s]
  BY <1>1, <1>2 DEF ResetInv, ResetTypeOK
<1>5. ResetTypeOK' /\ HandedOut'
  BY <1>1, <1>2, <1>3, <1>4 DEF ResetInv, ResetTypeOK, HandedOut
<1>6. ASSUME single' PROVE (Turns /\ LiveNewest /\ HeldNewest /\ SpentUsed)'
  <2>1. /\ Turns /\ LiveNewest /\ HeldNewest /\ SpentUsed
        /\ \A d \in Forgetful \ {c} : asks'[d] = Away /\ asks'[d].pc = "away" /\ asks[d].pc = "away"
    BY <1>1, <1>3, <1>6, AwayTyped DEF ResetInv, Turns
  <2>2. Turns' /\ HeldNewest'
    BY <1>3, <2>1 DEF Turns, HeldNewest
  <2>3. LiveNewest'
    BY <1>2, <1>3, <1>4, <2>1 DEF LiveNewest, NewestToken
  <2>4. SpentUsed'
    BY <1>1, <1>4, <2>1 DEF SpentUsed
  <2> QED BY <2>2, <2>3, <2>4
<1> QED BY <1>5, <1>6 DEF ResetInv

LEMMA CutOffKeeps == ASSUME ResetInv, CutOff PROVE ResetInv'
<1>1. /\ asks' = [c \in Forgetful |-> Away] /\ single' = FALSE /\ UNCHANGED <<reset, password, spent>>
      /\ Away \in [pc : {"away", "insert", "set", "use"}, token : Resets \cup {0}]
  BY DEF CutOff, Away
<1> QED BY <1>1, AwayTyped DEF ResetInv, ResetTypeOK, HandedOut

LEMMA ResetStep == ASSUME ResetInv, [ResetNext]_resetVars PROVE ResetInv'
<1>1. ASSUME NEW c \in Forgetful,
             Forgot(c) \/ NewReset(c) \/ CheckReset(c) \/ SetPassword(c) \/ UseReset(c)
      PROVE  ResetInv'
  BY <1>1, ForgotKeeps, NewResetKeeps, CheckResetKeeps, SetPasswordKeeps, UseResetKeeps
<1>2. CASE UNCHANGED resetVars
  BY <1>2 DEF resetVars, ResetInv, ResetTypeOK, HandedOut, Turns, LiveNewest, HeldNewest, SpentUsed, NewestToken
<1> QED BY <1>1, <1>2, LapsedKeeps, CutOffKeeps DEF ResetNext

\* What one request after the other may rely on follows.
LEMMA NewestWorks == ASSUME ResetInv PROVE OneReset
<1> SUFFICES ASSUME single PROVE OneReset
  BY DEF OneReset
<1> DEFINE L == {t \in Resets : reset[t] = "live"}
<1>1. ASSUME NEW s \in L, NEW t \in L PROVE s = t
  <2>1. reset[s] = "live" /\ reset[t] = "live" /\ s \in Resets /\ t \in Resets
    OBVIOUS
  <2>2. NewestToken(s) /\ NewestToken(t)
    BY <2>1 DEF ResetInv, LiveNewest
  <2>3. ~(s < t) /\ ~(t < s)
    BY <2>1, <2>2 DEF NewestToken
  <2> QED BY <2>1, <2>3, PasswordResetAssumption
<1>2. Cardinality(L) <= 1
  <2>1. CASE L = {}
    BY <2>1, FS_EmptySet
  <2>2. CASE L # {}
    <3>1. PICK t : t \in L
      BY <2>2
    <3>2. L = {t}
      BY <1>1, <3>1
    <3>3. Cardinality(L) = 1
      BY <3>2, FS_Singleton
    <3> QED BY <3>3
  <2> QED BY <2>1, <2>2
<1>3. \A t \in Resets : spent[t] <= 1 /\ (spent[t] > 0 => t <= password)
  BY DEF ResetInv, ResetTypeOK, SpentUsed
<1> QED BY <1>2, <1>3 DEF OneReset

(***************************************************************************)
(* The inductive invariant of PasswordReset holds of every behaviour.      *)
(***************************************************************************)
THEOREM ResetInvariant == ResetSpec => []ResetInv
BY ResetStarts, ResetStep, PTL DEF ResetSpec

\* No password is ever set with a token that was not handed out (auth.js:471).
THEOREM ResetTypes == ResetSpec => []ResetTypeOK
<1>1. ResetInv => ResetTypeOK
  BY DEF ResetInv
<1> QED BY <1>1, ResetInvariant, PTL

\* One token resets one password, only the newest works, and an older one never
\* undoes a newer one (auth.js:407-417, 471-494), for any number of tokens and
\* requests that do not overlap.
THEOREM ResetsOnce == ResetSpec => []OneReset
BY ResetInvariant, NewestWorks, PTL
-----------------------------------------------------------------------------
(***************************************************************************)
(* Sessions.  As long as nothing touched the secret while a request to     *)
(* enable the second factor held one, what such a request has read is what *)
(* is stored, so the code it checks is a code of the secret it turns on.   *)
(***************************************************************************)
MfaSet == [secret : Secrets \cup {NoSecret}, enabled : BOOLEAN, proven : Secrets \cup {NoSecret}]
ReadStands == alone => \A c \in Clients : client[c] # NoSecret => client[c] = mfa.secret
SessionInv == SessionTypeOK /\ ReadStands /\ FactorProven

LEMMA SessionStarts == ASSUME SessionInit PROVE SessionInv
BY DEF SessionInit, SessionInv, SessionTypeOK, ReadStands, FactorProven, NoSecret

\* What leaves the secret and the requests alone.
LEMMA EntriesKeep ==
  ASSUME SessionInv,
         Login \/ Expire \/ RevokeOne \/ RevokeAll \/ RemoveAccount \/ Readmit
  PROVE  SessionInv'
<1>1. UNCHANGED <<mfa, client, alone>>
  BY DEF Login, Expire, RevokeOne, RevokeAll, RemoveAccount, Readmit
<1>2. ReadStands' /\ FactorProven'
  BY <1>1 DEF SessionInv, ReadStands, FactorProven
<1>3. SessionTypeOK'
  <2>1. CASE Login
    BY <1>1, <2>1 DEF Login, SessionInv, SessionTypeOK
  <2>2. CASE Expire
    BY <1>1, <2>2 DEF Expire, SessionInv, SessionTypeOK
  <2>3. CASE RevokeOne
    BY <1>1, <2>3 DEF RevokeOne, SessionInv, SessionTypeOK
  <2>4. CASE RevokeAll
    BY <1>1, <2>4 DEF RevokeAll, SessionInv, SessionTypeOK
  <2>5. CASE RemoveAccount
    BY <1>1, <2>5 DEF RemoveAccount, SessionInv, SessionTypeOK
  <2>6. CASE Readmit
    BY <1>1, <2>6 DEF Readmit, SessionInv, SessionTypeOK
  <2> QED BY <2>1, <2>2, <2>3, <2>4, <2>5, <2>6
<1> QED BY <1>2, <1>3 DEF SessionInv

\* A new secret, or none, turns the factor off.
LEMMA SecretKeeps == ASSUME SessionInv, SetupMfa \/ DisableMfa PROVE SessionInv'
<1>1. PICK s \in Secrets \cup {NoSecret} :
        /\ mfa' = [mfa EXCEPT !.secret = s, !.enabled = FALSE]
        /\ Untouched /\ UNCHANGED <<status, token, row, client>>
  BY DEF SetupMfa, DisableMfa
<1>2. mfa' \in MfaSet /\ mfa'.enabled = FALSE
  BY <1>1 DEF SessionInv, SessionTypeOK, MfaSet
<1>3. alone' \in BOOLEAN /\ (alone' => \A c \in Clients : client[c] = NoSecret)
  BY <1>1, Zenon DEF Untouched, SessionInv, SessionTypeOK
<1>4. SessionTypeOK'
  BY <1>1, <1>2, <1>3 DEF SessionInv, SessionTypeOK, MfaSet
<1>5. ReadStands' /\ FactorProven'
  BY <1>1, <1>2, <1>3 DEF ReadStands, FactorProven
<1> QED BY <1>4, <1>5 DEF SessionInv

LEMMA EnablingKeeps ==
  ASSUME SessionInv, NEW c \in Clients, ReadSecret(c) \/ EnableMfa(c) PROVE SessionInv'
<1>1. CASE ReadSecret(c)
  <2>1. client' = [client EXCEPT ![c] = mfa.secret] /\ UNCHANGED <<status, token, row, mfa, alone>>
    BY <1>1 DEF ReadSecret
  <2>2. mfa.secret \in Secrets \cup {NoSecret}
    BY DEF SessionInv, SessionTypeOK
  <2>3. SessionTypeOK'
    BY <2>1, <2>2 DEF SessionInv, SessionTypeOK
  <2>4. ReadStands' /\ FactorProven'
    BY <2>1 DEF SessionInv, SessionTypeOK, ReadStands, FactorProven
  <2> QED BY <2>3, <2>4 DEF SessionInv
<1>2. CASE EnableMfa(c)
  <2>1. /\ client[c] # NoSecret /\ mfa' = [mfa EXCEPT !.enabled = TRUE, !.proven = client[c]]
        /\ client' = [client EXCEPT ![c] = NoSecret] /\ UNCHANGED <<status, token, row, alone>>
    BY <1>2 DEF EnableMfa
  <2>2. client[c] \in Secrets \cup {NoSecret}
    BY DEF SessionInv, SessionTypeOK
  <2>3. mfa' \in MfaSet /\ mfa'.proven = client[c] /\ mfa'.secret = mfa.secret
    BY <2>1, <2>2 DEF SessionInv, SessionTypeOK, MfaSet
  <2>4. SessionTypeOK'
    BY <2>1, <2>3 DEF SessionInv, SessionTypeOK, MfaSet
  <2>5. ReadStands' /\ FactorProven'
    BY <2>1, <2>3 DEF SessionInv, SessionTypeOK, ReadStands, FactorProven
  <2> QED BY <2>4, <2>5 DEF SessionInv
<1> QED BY <1>1, <1>2

LEMMA SessionStep == ASSUME SessionInv, [SessionNext]_sessionVars PROVE SessionInv'
<1>1. CASE UNCHANGED sessionVars
  BY <1>1 DEF sessionVars, SessionInv, SessionTypeOK, ReadStands, FactorProven
<1> QED BY <1>1, EntriesKeep, SecretKeeps, EnablingKeeps DEF SessionNext

\* A row that says revoked is only ever overwritten by saying so again, and a
\* token that has ended never begins again: removing the account alone deletes it.
LEMMA SignOutLasts ==
  ASSUME SessionInv, [SessionNext]_sessionVars, NEW j \in Jtis, row[j] = "revoked", Authenticates(j)'
  PROVE  RemoveAccount
<1>1. token[j] # "none" /\ row'[j] # "revoked"
  BY DEF SessionInv, SessionTypeOK, Authenticates
<1>2. ~UNCHANGED row
  BY <1>1
<1>3. Login \/ RevokeOne \/ RevokeAll \/ RemoveAccount
  BY <1>2 DEF SessionNext, sessionVars, Expire, Readmit, SetupMfa, DisableMfa, ReadSecret, EnableMfa
<1>4. ~Login
  BY <1>1 DEF Login, SessionInv, SessionTypeOK
<1>5. ~RevokeOne
  BY <1>1 DEF RevokeOne, SessionInv, SessionTypeOK
<1>6. ~RevokeAll
  BY <1>1 DEF RevokeAll
<1> QED BY <1>3, <1>4, <1>5, <1>6

(***************************************************************************)
(* The inductive invariant of Sessions holds of every behaviour.           *)
(***************************************************************************)
THEOREM SessionInvariant == SessionSpec => []SessionInv
BY SessionStarts, SessionStep, PTL DEF SessionSpec

\* The second factor is only on with a secret that a code of it was shown for
\* (auth.js:604-605), and who was signed out stays out unless the member is
\* removed (authGuard.js:26-30, members.js:65), for any number of sessions,
\* secrets and requests.
THEOREM EntriesSound == SessionSpec => SessionsSound
<1>1. SessionInv => FactorProven
  BY DEF SessionInv
<1>2. SessionInv /\ [SessionNext]_sessionVars =>
        [\A j \in Jtis : row[j] = "revoked" /\ Authenticates(j)' => RemoveAccount]_sessionVars
  BY SignOutLasts
<1> QED BY <1>1, <1>2, SessionInvariant, PTL DEF SessionSpec, SessionsSound, SignedOutStaysOut

(***************************************************************************)
(* IssueTree.  What the rows and the requests are made of, and that a      *)
(* parent has no parent: ids are drawn from a sequence, so the parent a    *)
(* request has read cannot come back as another issue.                     *)
(***************************************************************************)
BeingMade == {"number", "epic", "insert"}
AskSet == [pc : BeingMade \cup {"idle", "patch", "retype", "bulk", "drop"}, project : Projects \cup {NoOne},
           name : Names, n : Nat, left : {1, 2}, type : Types \cup {"same", "delete"},
           parent : Nat, epic : Nat, id : Nat, todo : SUBSET (Nat \ {0})]
IssueSet == [id : Nat \ {0}, key : Names \X (Nat \ {0}), type : Types, project : Projects \cup {NoOne},
             parent : Nat, epic : Nat]

TreeTyped ==
  /\ project \in [Projects -> [state : {"none", "live", "gone"}, name : Names, counter : Nat]]
  /\ issue \subseteq IssueSet /\ IsFiniteSet(issue) /\ lastIssue \in Nat
  /\ ask \in [Askers -> AskSet]
  /\ asked \in 0..MaxAsks \cup 0..MaxAsksAtOnce /\ orderly \in BOOLEAN

Refers(i) ==
  /\ i.id <= lastIssue
  /\ i.project # NoOne => Stands(i.project)
  /\ i.epic # NoOne => \E e \in issue : e.id = i.epic
  /\ i.parent # NoOne =>
       \E p \in issue : p.id = i.parent /\ p.parent = NoOne /\ p.project \in {i.project, NoOne}
RowsSound ==
  /\ \A i, j \in issue : i.id = j.id => i = j
  /\ \A i \in issue : Refers(i)

\* What a request will insert, or has chosen.
Kin(a) ==
  /\ ask[a].pc \in BeingMade =>
       /\ ask[a].type \in Types
       /\ ask[a].left = 2 => ask[a].project # NoOne
       /\ ask[a].pc # "number" => ask[a].n > 0
       /\ ask[a].parent # NoOne =>
            /\ ask[a].parent <= lastIssue
            /\ \A p \in issue : p.id = ask[a].parent => p.parent = NoOne /\ p.project \in {ask[a].project, NoOne}
  /\ ask[a].pc \in {"patch", "retype"} => ask[a].type # "delete"
  /\ ask[a].pc = "bulk" => ask[a].type # "same"
  /\ ask[a].pc = "drop" => ask[a].project # NoOne

TreeInv == TreeTyped /\ RowsSound /\ \A a \in Askers : Kin(a)

LEMMA TreeConstants ==
  /\ "PROJ" \in Names /\ NoOne = 0 /\ Projects \subseteq Nat /\ NoOne \notin Projects
  /\ NoAsk \in AskSet /\ NoAsk.pc = "idle" /\ Types \subseteq {"Story", "Epic", "Sub-task"}
BY IssueTreeAssumption DEF NoAsk, AskSet, NoOne, Projects, Types, BeingMade

\* A request whose place, or whose numbers, change.
Placed(q, p, n) == [q EXCEPT !.pc = p, !.n = n]
LEMMA AskPlaced ==
  ASSUME NEW q \in AskSet, NEW p \in BeingMade, NEW n \in Nat
  PROVE  LET r == Placed(q, p, n) IN
         /\ r \in AskSet /\ r.pc = p /\ r.n = n /\ r.left = q.left /\ r.type = q.type
         /\ r.project = q.project /\ r.name = q.name /\ r.parent = q.parent /\ r.epic = q.epic /\ r.id = q.id
BY DEF AskSet, BeingMade, Placed
Shifted(q) == [q EXCEPT !.n = @ + 1, !.left = @ - 1]
LEMMA AskShifted ==
  ASSUME NEW q \in AskSet, q.left # 1
  PROVE  LET r == Shifted(q) IN
         /\ r \in AskSet /\ r.pc = q.pc /\ r.n = q.n + 1 /\ r.left = 1 /\ q.left = 2 /\ r.type = q.type
         /\ r.project = q.project /\ r.name = q.name /\ r.parent = q.parent /\ r.epic = q.epic /\ r.id = q.id
<1>1. q.left = 2 /\ q.n \in Nat
  BY DEF AskSet
<1>2. PICK n, m : n = q.n /\ m = q.left
  OBVIOUS
<1>3. Shifted(q) = [q EXCEPT !.n = n + 1, !.left = m - 1]
  BY <1>2 DEF AskSet, Shifted
<1>4. PICK k : k = n + 1 /\ k \in Nat
  BY <1>1, <1>2
<1>5. m - 1 = 1
  BY <1>1, <1>2
<1>6. Shifted(q) = [q EXCEPT !.n = k, !.left = 1]
  BY <1>3, <1>4, <1>5
<1> QED BY <1>1, <1>2, <1>4, <1>6 DEF AskSet

LEMMA TakeMoves ==
  ASSUME TreeTyped, NEW a \in Askers, NEW q \in AskSet, Take(a, q)
  PROVE  /\ ask' \in [Askers -> AskSet] /\ ask'[a] = q /\ \A b \in Askers \ {a} : ask'[b] = ask[b]
         /\ asked' \in 0..MaxAsks \cup 0..MaxAsksAtOnce /\ orderly' \in BOOLEAN
         /\ orderly' => orderly /\ \A b \in Askers : Resting(b)
<1>1. /\ asked < IF orderly' THEN MaxAsks ELSE MaxAsksAtOnce
      /\ asked' = asked + 1
      /\ ask' = [ask EXCEPT ![a] = q]
  BY DEF Take
<1>2. orderly' \in BOOLEAN /\ (orderly' => orderly /\ \A b \in Askers : Resting(b))
  BY Zenon DEF Take, TreeTyped
<1>3. asked' \in 0..MaxAsks \cup 0..MaxAsksAtOnce
  <2>1. asked \in Nat /\ (asked < MaxAsks \/ asked < MaxAsksAtOnce)
    BY <1>1, IssueTreeAssumption DEF TreeTyped
  <2> QED BY <1>1, <2>1, IssueTreeAssumption
<1> QED BY <1>1, <1>2, <1>3 DEF TreeTyped

LEMMA ThenMoves ==
  ASSUME TreeTyped, NEW a \in Askers, NEW q \in AskSet, Then(a, q)
  PROVE  /\ ask' \in [Askers -> AskSet] /\ ask'[a] = q /\ \A b \in Askers \ {a} : ask'[b] = ask[b]
         /\ asked' \in 0..MaxAsks \cup 0..MaxAsksAtOnce /\ orderly' \in BOOLEAN /\ (orderly' <=> orderly)
<1>1. ask' = [ask EXCEPT ![a] = q] /\ asked' = asked /\ orderly' = orderly
  BY DEF Then
<1> QED BY <1>1 DEF TreeTyped

LEMMA TreeStarts == ASSUME TreeInit PROVE TreeInv
<1>1. TreeTyped
  <2>1. IsFiniteSet({}) BY FS_EmptySet
  <2>2. project \in [Projects -> [state : {"none", "live", "gone"}, name : Names, counter : Nat]]
    BY IssueTreeAssumption DEF TreeInit
  <2> QED BY <2>1, <2>2, TreeConstants, IssueTreeAssumption DEF TreeInit, TreeTyped
<1>2. RowsSound
  BY DEF TreeInit, RowsSound
<1>3. \A a \in Askers : Kin(a)
  BY TreeConstants DEF TreeInit, Kin, BeingMade
<1> QED BY <1>1, <1>2, <1>3 DEF TreeInv

\* The row as it was, of a row that is not new.
Descends(j) == \E i \in issue : i.id = j.id /\ i.parent = j.parent /\ j.project \in {i.project, NoOne}

\* A request that does not move finds its parent as it was.
LEMMA KinKept ==
  ASSUME TreeTyped, NEW b \in Askers, Kin(b), ask'[b] = ask[b],
         lastIssue' \in Nat, lastIssue <= lastIssue', issue' \subseteq IssueSet,
         \A j \in issue' : j.id > lastIssue \/ Descends(j)
  PROVE  Kin(b)'
<1>1. ask[b] \in AskSet /\ lastIssue \in Nat
  BY DEF TreeTyped
<1>2. CASE ask[b].pc \in BeingMade /\ ask[b].parent # NoOne
  <2>1. ask[b].parent <= lastIssue /\ ask[b].parent \in Nat
    BY <1>1, <1>2 DEF Kin, AskSet
  <2>2. ASSUME NEW p \in issue', p.id = ask[b].parent
        PROVE  p.parent = NoOne /\ p.project \in {ask[b].project, NoOne}
    <3>1. Descends(p)
      BY <2>1, <2>2, <1>1 DEF IssueSet
    <3>2. PICK i \in issue : i.id = p.id /\ i.parent = p.parent /\ p.project \in {i.project, NoOne}
      BY <3>1 DEF Descends
    <3> QED BY <3>2, <2>2, <1>2 DEF Kin
  <2>3. ask[b].parent <= lastIssue'
    BY <2>1, <1>1
  <2> QED BY <2>2, <2>3, <1>2 DEF Kin, BeingMade
<1>3. CASE ~(ask[b].pc \in BeingMade /\ ask[b].parent # NoOne)
  BY <1>3 DEF Kin
<1> QED BY <1>2, <1>3

\* Steps that leave the issues alone.
LEMMA RowsRest ==
  ASSUME RowsSound, UNCHANGED <<issue, lastIssue>>, \A p \in Projects : Stands(p) => Stands(p)'
  PROVE  RowsSound'
<1>1. ASSUME NEW i \in issue PROVE Refers(i)'
  BY <1>1 DEF RowsSound, Refers, Stands
<1> QED BY <1>1 DEF RowsSound

LEMMA IssuesRest ==
  ASSUME TreeInv, NEW a \in Askers, UNCHANGED <<issue, lastIssue>>,
         \A p \in Projects : Stands(p) => Stands(p)',
         project' \in [Projects -> [state : {"none", "live", "gone"}, name : Names, counter : Nat]],
         ask' \in [Askers -> AskSet], \A b \in Askers \ {a} : ask'[b] = ask[b],
         asked' \in 0..MaxAsks \cup 0..MaxAsksAtOnce, orderly' \in BOOLEAN,
         Kin(a)'
  PROVE  TreeInv'
<1>1. TreeTyped'
  BY DEF TreeInv, TreeTyped
<1>2. RowsSound'
  BY RowsRest DEF TreeInv
<1>3. \A j \in issue' : Descends(j)
  BY DEF Descends
<1>4. ASSUME NEW b \in Askers \ {a} PROVE Kin(b)'
  BY <1>3, <1>4, KinKept DEF TreeInv, TreeTyped
<1> QED BY <1>1, <1>2, <1>4 DEF TreeInv

\* A request begins.
LEMMA BegunKeeps ==
  ASSUME TreeInv, NEW a \in Askers, NEW q \in AskSet, Take(a, q), UNCHANGED <<project, issue, lastIssue>>,
         q.pc \in BeingMade \cup {"patch", "retype", "bulk", "idle"},
         q.pc \in {"patch", "retype"} => q.type # "delete",
         q.pc = "bulk" => q.type # "same",
         q.pc \in BeingMade =>
           /\ q.pc = "number" /\ q.type \in Types /\ (q.left = 2 => q.project # NoOne)
           /\ q.parent # NoOne =>
                \E p \in issue : p.id = q.parent /\ p.parent = NoOne /\ p.project = q.project
  PROVE  TreeInv'
<1>1. /\ ask' \in [Askers -> AskSet] /\ ask'[a] = q /\ \A b \in Askers \ {a} : ask'[b] = ask[b]
      /\ asked' \in 0..MaxAsks \cup 0..MaxAsksAtOnce /\ orderly' \in BOOLEAN
  BY TakeMoves DEF TreeInv
<1>2. ASSUME q.pc \in BeingMade, q.parent # NoOne
      PROVE  /\ q.parent <= lastIssue
             /\ \A p \in issue : p.id = q.parent => p.parent = NoOne /\ p.project \in {q.project, NoOne}
  <2>1. PICK p \in issue : p.id = q.parent /\ p.parent = NoOne /\ p.project = q.project
    BY <1>2
  <2>2. \A i \in issue : i.id = p.id => i = p
    BY DEF TreeInv, RowsSound
  <2>3. p.id <= lastIssue
    BY DEF TreeInv, RowsSound, Refers
  <2> QED BY <2>1, <2>2, <2>3
<1>3. Kin(a)'
  BY <1>1, <1>2 DEF Kin, BeingMade
<1>4. project' \in [Projects -> [state : {"none", "live", "gone"}, name : Names, counter : Nat]]
  BY DEF TreeInv, TreeTyped
<1>5. \A p \in Projects : Stands(p) => Stands(p)'
  BY DEF Stands
<1> QED BY <1>1, <1>3, <1>4, <1>5, IssuesRest

LEMMA NameTyped ==
  ASSUME TreeTyped, NEW p \in Projects \cup {NoOne} PROVE NameFor(p) \in Names
BY TreeConstants DEF NameFor, TreeTyped

LEMMA AskIssueKeeps == ASSUME TreeInv, NEW a \in Askers, AskIssue(a) PROVE TreeInv'
<1>1. PICK p \in {NoOne} \cup {q \in Projects : Stands(q)}, t \in Types, e \in {NoOne} \cup Ids :
        /\ Take(a, [NoAsk EXCEPT !.pc = "number", !.project = p, !.name = NameFor(p), !.type = t, !.epic = e])
        /\ UNCHANGED <<project, issue, lastIssue>>
  BY DEF AskIssue
<1>2. NameFor(p) \in Names /\ e \in Nat
  BY NameTyped, TreeConstants DEF Ids, TreeInv, TreeTyped, IssueSet
<1> DEFINE q == [NoAsk EXCEPT !.pc = "number", !.project = p, !.name = NameFor(p), !.type = t, !.epic = e]
<1>3. q \in AskSet /\ q.pc = "number" /\ q.type \in Types /\ q.left = 1 /\ q.parent = NoOne
  BY <1>2, TreeConstants DEF NoAsk, AskSet, BeingMade, NoOne
<1>4. Take(a, q)
  BY <1>1
<1> HIDE DEF q
<1> QED BY <1>1, <1>3, <1>4, BegunKeeps DEF BeingMade

LEMMA AskSubtaskKeeps == ASSUME TreeInv, NEW a \in Askers, AskSubtask(a) PROVE TreeInv'
<1>1. PICK i \in issue :
        /\ i.parent = NoOne
        /\ Take(a, [NoAsk EXCEPT !.pc = "number", !.project = i.project, !.name = NameFor(i.project),
                                !.type = "Sub-task", !.parent = i.id])
        /\ UNCHANGED <<project, issue, lastIssue>>
  BY DEF AskSubtask
<1>2. i \in IssueSet /\ NameFor(i.project) \in Names
  BY NameTyped DEF TreeInv, TreeTyped, IssueSet
<1> DEFINE q == [NoAsk EXCEPT !.pc = "number", !.project = i.project, !.name = NameFor(i.project),
                              !.type = "Sub-task", !.parent = i.id]
<1>3. q \in AskSet /\ q.pc = "number" /\ q.type \in Types /\ q.left = 1 /\ q.parent = i.id /\ q.project = i.project
  BY <1>2, TreeConstants DEF NoAsk, AskSet, BeingMade, NoOne, IssueSet, Types
<1>4. Take(a, q)
  BY <1>1
<1> HIDE DEF q
<1> QED BY <1>1, <1>3, <1>4, BegunKeeps DEF BeingMade

LEMMA AskCloneKeeps == ASSUME TreeInv, NEW a \in Askers, AskClone(a) PROVE TreeInv'
<1>1. PICK i \in issue :
        /\ Take(a, [NoAsk EXCEPT !.pc = "number", !.project = i.project, !.name = NameFor(i.project),
                                !.type = i.type, !.epic = i.epic, !.id = i.id])
        /\ UNCHANGED <<project, issue, lastIssue>>
  BY DEF AskClone
<1>2. i \in IssueSet /\ NameFor(i.project) \in Names
  BY NameTyped DEF TreeInv, TreeTyped, IssueSet
<1> DEFINE q == [NoAsk EXCEPT !.pc = "number", !.project = i.project, !.name = NameFor(i.project),
                              !.type = i.type, !.epic = i.epic, !.id = i.id]
<1>3. q \in AskSet /\ q.pc = "number" /\ q.type \in Types /\ q.left = 1 /\ q.parent = NoOne
  BY <1>2, TreeConstants DEF NoAsk, AskSet, BeingMade, NoOne, IssueSet
<1>4. Take(a, q)
  BY <1>1
<1> HIDE DEF q
<1> QED BY <1>1, <1>3, <1>4, BegunKeeps DEF BeingMade

LEMMA AskImportKeeps == ASSUME TreeInv, NEW a \in Askers, AskImport(a) PROVE TreeInv'
<1>1. PICK p \in Projects :
        /\ Take(a, [NoAsk EXCEPT !.pc = "number", !.project = p, !.name = NameFor(p), !.left = 2])
        /\ UNCHANGED <<project, issue, lastIssue>>
  BY DEF AskImport
<1>2. NameFor(p) \in Names
  BY NameTyped DEF TreeInv
<1> DEFINE q == [NoAsk EXCEPT !.pc = "number", !.project = p, !.name = NameFor(p), !.left = 2]
<1>3. q \in AskSet /\ q.pc = "number" /\ q.type \in Types /\ q.project # NoOne /\ q.parent = NoOne
  BY <1>2, TreeConstants DEF NoAsk, AskSet, BeingMade, NoOne, Types
<1>4. Take(a, q)
  BY <1>1
<1> HIDE DEF q
<1> QED BY <1>1, <1>3, <1>4, BegunKeeps DEF BeingMade

LEMMA PatchIssueKeeps == ASSUME TreeInv, NEW a \in Askers, PatchIssue(a) PROVE TreeInv'
<1>1. PICK i \in issue, t \in Types \cup {"same"}, e \in Ids \cup {NoOne}, named \in BOOLEAN :
        /\ Take(a, [NoAsk EXCEPT !.pc = IF named THEN "patch" ELSE "retype", !.id = i.id, !.type = t, !.epic = e])
        /\ UNCHANGED <<project, issue, lastIssue>>
  BY DEF PatchIssue
<1>2. i \in IssueSet /\ e \in Nat
  BY TreeConstants DEF Ids, TreeInv, TreeTyped, IssueSet
<1> DEFINE q == [NoAsk EXCEPT !.pc = IF named THEN "patch" ELSE "retype", !.id = i.id, !.type = t, !.epic = e]
<1>3. q \in AskSet /\ q.pc \in {"patch", "retype"} /\ q.type # "delete"
  BY <1>2, TreeConstants DEF NoAsk, AskSet, BeingMade, NoOne, IssueSet, Types
<1>4. Take(a, q)
  BY <1>1
<1> HIDE DEF q
<1> QED BY <1>1, <1>3, <1>4, BegunKeeps DEF BeingMade

LEMMA BulkKeeps == ASSUME TreeInv, NEW a \in Askers, Bulk(a) PROVE TreeInv'
<1>1. PICK T \in SUBSET issue, t \in {"delete"} \cup Types :
        /\ Take(a, [NoAsk EXCEPT !.pc = "bulk", !.type = t, !.todo = {i.id : i \in T}])
        /\ UNCHANGED <<project, issue, lastIssue>>
  BY DEF Bulk
<1>2. {i.id : i \in T} \subseteq Nat \ {0}
  BY DEF TreeInv, TreeTyped, IssueSet
<1> DEFINE q == [NoAsk EXCEPT !.pc = "bulk", !.type = t, !.todo = {i.id : i \in T}]
<1>3. q \in AskSet /\ q.pc = "bulk" /\ q.type # "same"
  BY <1>2, TreeConstants DEF NoAsk, AskSet, BeingMade, NoOne, Types
<1>4. Take(a, q)
  BY <1>1
<1> HIDE DEF q
<1> QED BY <1>1, <1>3, <1>4, BegunKeeps DEF BeingMade

\* A project is made or given another name.
LEMMA ProjectKeeps ==
  ASSUME TreeInv, NEW a \in Askers, NewProject(a) \/ RenameProject(a)
  PROVE  TreeInv'
<1>1. PICK p \in Projects, n \in Names :
        /\ Take(a, NoAsk)
        /\ project' = [project EXCEPT ![p].state = "live", ![p].name = n]
           \/ (Stands(p) /\ project' = [project EXCEPT ![p].name = n])
        /\ UNCHANGED <<issue, lastIssue>>
  BY DEF NewProject, RenameProject
<1>2. /\ ask' \in [Askers -> AskSet] /\ ask'[a] = NoAsk /\ \A b \in Askers \ {a} : ask'[b] = ask[b]
      /\ asked' \in 0..MaxAsks \cup 0..MaxAsksAtOnce /\ orderly' \in BOOLEAN
  BY <1>1, TakeMoves, TreeConstants DEF TreeInv
<1>3. Kin(a)'
  BY <1>2, TreeConstants DEF Kin, BeingMade
<1>4. /\ project' \in [Projects -> [state : {"none", "live", "gone"}, name : Names, counter : Nat]]
      /\ \A r \in Projects : Stands(r) => Stands(r)'
  BY <1>1 DEF TreeInv, TreeTyped, Stands
<1> QED BY <1>1, <1>2, <1>3, <1>4, IssuesRest

\* What a request draws is a number, and the counter of its project moves.
LEMMA NumberDrawn ==
  ASSUME TreeTyped, NEW a \in Askers, Kin(a), ask[a].pc = "number",
         ask[a].project # NoOne => Stands(ask[a].project),
         NEW last, last = IF ask[a].project = NoOne THEN Cardinality(issue) + 1
                          ELSE project[ask[a].project].counter + ask[a].left
  PROVE  last \in Nat /\ last >= ask[a].left
<1>1. Cardinality(issue) \in Nat
  BY FS_CardinalityType DEF TreeTyped
<1>2. CASE ask[a].project = NoOne
  <2>1. ask[a].left = 1
    BY <1>2 DEF Kin, BeingMade, TreeTyped, AskSet
  <2> QED BY <1>1, <1>2, <2>1
<1>3. CASE ask[a].project # NoOne
  <2>1. project[ask[a].project].counter \in Nat /\ ask[a].left \in {1, 2}
    BY <1>3 DEF TreeTyped, Stands, AskSet
  <2> QED BY <1>3, <2>1
<1> QED BY <1>2, <1>3

LEMMA DrawNumberKeeps == ASSUME TreeInv, NEW a \in Askers, DrawNumber(a) PROVE TreeInv'
<1>t. ask[a] \in AskSet /\ Kin(a) /\ ask[a].pc = "number" /\ UNCHANGED <<issue, lastIssue>>
  BY DEF TreeInv, TreeTyped, DrawNumber
<1>1. CASE ask[a].project # NoOne /\ ~Stands(ask[a].project)
  <2>1. Then(a, NoAsk) /\ UNCHANGED project
    BY <1>1 DEF DrawNumber, Over
  <2>2. /\ ask' \in [Askers -> AskSet] /\ ask'[a] = NoAsk /\ \A b \in Askers \ {a} : ask'[b] = ask[b]
        /\ asked' \in 0..MaxAsks \cup 0..MaxAsksAtOnce /\ orderly' \in BOOLEAN
    BY <2>1, ThenMoves, TreeConstants DEF TreeInv
  <2>3. Kin(a)'
    BY <2>2, TreeConstants DEF Kin, BeingMade
  <2>4. /\ project' \in [Projects -> [state : {"none", "live", "gone"}, name : Names, counter : Nat]]
        /\ \A r \in Projects : Stands(r) => Stands(r)'
    BY <2>1 DEF TreeInv, TreeTyped, Stands
  <2> QED BY <1>t, <2>2, <2>3, <2>4, IssuesRest
<1>2. CASE ask[a].project # NoOne => Stands(ask[a].project)
  <2> DEFINE l == IF ask[a].project = NoOne THEN Cardinality(issue) + 1
                  ELSE project[ask[a].project].counter + ask[a].left
  <2>1. PICK last, new :
          /\ last = l
          /\ new = [ask[a] EXCEPT !.pc = IF ask[a].id = NoOne /\ ask[a].epic # NoOne THEN "epic" ELSE "insert",
                                  !.n = last - ask[a].left + 1]
          /\ Then(a, new)
          /\ project' = IF ask[a].project = NoOne THEN project
                        ELSE [project EXCEPT ![ask[a].project].counter = last]
    BY <1>2 DEF DrawNumber
  <2>2. last \in Nat /\ last >= ask[a].left
    BY <1>t, <1>2, <2>1, NumberDrawn DEF TreeInv
  <2>3. last - ask[a].left + 1 \in Nat \ {0}
    BY <1>t, <2>2 DEF AskSet
  <2>4. /\ new \in AskSet /\ new.pc \in {"epic", "insert"} /\ new.n > 0 /\ new.type = ask[a].type
        /\ new.left = ask[a].left /\ new.project = ask[a].project /\ new.parent = ask[a].parent
    <3>1. PICK q, p, n :
            /\ q \in AskSet /\ p \in {"epic", "insert"} /\ n \in Nat \ {0}
            /\ q = ask[a] /\ new = Placed(q, p, n)
      BY <1>t, <2>1, <2>3 DEF Placed
    <3>2. p \in BeingMade /\ n \in Nat
      BY <3>1 DEF BeingMade
    <3>3. /\ new \in AskSet /\ new.pc = p /\ new.n = n /\ new.type = q.type
          /\ new.left = q.left /\ new.project = q.project /\ new.parent = q.parent
      BY <3>1, <3>2, AskPlaced
    <3> QED BY <3>1, <3>3
  <2>5. /\ ask' \in [Askers -> AskSet] /\ ask'[a] = new /\ \A b \in Askers \ {a} : ask'[b] = ask[b]
        /\ asked' \in 0..MaxAsks \cup 0..MaxAsksAtOnce /\ orderly' \in BOOLEAN
    BY <2>1, <2>4, ThenMoves DEF TreeInv
  <2>6. Kin(a)'
    BY <1>t, <2>4, <2>5 DEF Kin, BeingMade
  <2>7. /\ project' \in [Projects -> [state : {"none", "live", "gone"}, name : Names, counter : Nat]]
        /\ \A r \in Projects : Stands(r) => Stands(r)'
    BY <1>2, <2>1, <2>2 DEF TreeInv, TreeTyped, Stands
  <2> QED BY <1>t, <2>5, <2>6, <2>7, IssuesRest
<1> QED BY <1>1, <1>2

LEMMA CheckKeeps == ASSUME TreeInv, NEW a \in Askers, CheckEpic(a) \/ GiveUp(a) PROVE TreeInv'
<1>t. ask[a] \in AskSet /\ Kin(a) /\ ask[a].pc \in {"epic", "insert"} /\ UNCHANGED <<project, issue, lastIssue>>
  BY DEF TreeInv, TreeTyped, CheckEpic, GiveUp
<1>1. PICK new : Then(a, new) /\ new \in {NoAsk, [ask[a] EXCEPT !.pc = "insert"]}
  BY DEF CheckEpic, GiveUp, Over
<1>2. new \in AskSet
  BY <1>1, <1>t, TreeConstants DEF AskSet, BeingMade
<1>3. /\ ask' \in [Askers -> AskSet] /\ ask'[a] = new /\ \A b \in Askers \ {a} : ask'[b] = ask[b]
      /\ asked' \in 0..MaxAsks \cup 0..MaxAsksAtOnce /\ orderly' \in BOOLEAN
  BY <1>1, <1>2, ThenMoves DEF TreeInv
<1>4. Kin(a)'
  <2>1. CASE new = NoAsk
    BY <2>1, <1>3, TreeConstants DEF Kin, BeingMade
  <2>2. CASE new = [ask[a] EXCEPT !.pc = "insert"]
    <3>1. /\ new.pc = "insert" /\ new.type = ask[a].type /\ new.left = ask[a].left /\ new.n = ask[a].n
          /\ new.project = ask[a].project /\ new.parent = ask[a].parent
      BY <2>2, <1>t DEF AskSet
    <3> QED BY <3>1, <1>3, <1>t DEF Kin, BeingMade
  <2> QED BY <1>1, <2>1, <2>2
<1>5. /\ project' \in [Projects -> [state : {"none", "live", "gone"}, name : Names, counter : Nat]]
      /\ \A r \in Projects : Stands(r) => Stands(r)'
  BY <1>t DEF TreeInv, TreeTyped, Stands
<1> QED BY <1>t, <1>3, <1>4, <1>5, IssuesRest

LEMMA InsertKeeps == ASSUME TreeInv, NEW a \in Askers, Insert(a) PROVE TreeInv'
<1>t. /\ ask[a] \in AskSet /\ Kin(a) /\ ask[a].pc = "insert" /\ ask[a].n > 0 /\ ask[a].type \in Types
      /\ lastIssue \in Nat /\ lastIssue' = lastIssue + 1 /\ UNCHANGED project
      /\ issue \subseteq IssueSet /\ IsFiniteSet(issue)
  BY DEF TreeInv, TreeTyped, Insert, Kin, BeingMade
<1>1. CASE Over(a) /\ UNCHANGED issue
  <2>1. /\ ask' \in [Askers -> AskSet] /\ ask'[a] = NoAsk /\ \A b \in Askers \ {a} : ask'[b] = ask[b]
        /\ asked' \in 0..MaxAsks \cup 0..MaxAsksAtOnce /\ orderly' \in BOOLEAN
    BY <1>1, ThenMoves, TreeConstants DEF TreeInv, Over
  <2>2. Kin(a)'
    BY <2>1, TreeConstants DEF Kin, BeingMade
  <2>3. \A j \in issue' : Descends(j)
    BY <1>1 DEF Descends
  <2>4. \A b \in Askers \ {a} : Kin(b)'
    BY <1>1, <1>t, <2>1, <2>3, KinKept DEF TreeInv
  <2>5. TreeTyped'
    BY <1>1, <1>t, <2>1 DEF TreeInv, TreeTyped
  <2>6. RowsSound'
    <3>1. ASSUME NEW i \in issue PROVE Refers(i)'
      <4>1. Refers(i) /\ i \in IssueSet
        BY <1>t DEF TreeInv, RowsSound
      <4> QED BY <1>1, <1>t, <4>1 DEF Refers, Stands, IssueSet
    <3> QED BY <1>1, <3>1 DEF TreeInv, RowsSound
  <2> QED BY <2>2, <2>4, <2>5, <2>6 DEF TreeInv
<1>2. CASE ~(Over(a) /\ UNCHANGED issue)
  <2>1. PICK added, new :
          /\ added = [id |-> lastIssue', key |-> <<ask[a].name, ask[a].n>>, type |-> ask[a].type,
                    project |-> ask[a].project, parent |-> ask[a].parent, epic |-> ask[a].epic]
          /\ issue' = issue \cup {added}
          /\ ask[a].project = NoOne \/ Stands(ask[a].project)
          /\ {ask[a].parent, ask[a].epic} \subseteq Ids \cup {NoOne}
          /\ Then(a, new)
          /\ new = IF ask[a].left = 1 THEN NoAsk ELSE [ask[a] EXCEPT !.n = @ + 1, !.left = @ - 1]
    BY <1>2 DEF Insert, Over
  <2>2. added \in IssueSet
    BY <1>t, <2>1 DEF IssueSet, AskSet
  <2>3. new \in AskSet
    <3>1. CASE ask[a].left = 1
      BY <2>1, <3>1, TreeConstants
    <3>2. CASE ask[a].left # 1
      <4>1. PICK q : q = ask[a] /\ q \in AskSet /\ q.left # 1 /\ new = Shifted(q)
        BY <1>t, <2>1, <3>2 DEF Shifted
      <4> QED BY <4>1, AskShifted
    <3> QED BY <3>1, <3>2
  <2>4. /\ ask' \in [Askers -> AskSet] /\ ask'[a] = new /\ \A b \in Askers \ {a} : ask'[b] = ask[b]
        /\ asked' \in 0..MaxAsks \cup 0..MaxAsksAtOnce /\ orderly' \in BOOLEAN
    BY <2>1, <2>3, ThenMoves DEF TreeInv
  <2>5. IsFiniteSet(issue')
    BY <1>t, <2>1, FS_AddElement
  <2>6. TreeTyped'
    BY <1>t, <2>1, <2>2, <2>4, <2>5 DEF TreeInv, TreeTyped
  <2>7. \A j \in issue' : j.id > lastIssue \/ Descends(j)
    BY <1>t, <2>1, <2>2 DEF Descends, IssueSet
  <2>8. \A b \in Askers \ {a} : Kin(b)'
    BY <1>t, <2>4, <2>6, <2>7, KinKept DEF TreeInv, TreeTyped
  <2>9. Kin(a)'
    <3>1. CASE ask[a].left = 1
      BY <2>1, <2>4, <3>1, TreeConstants DEF Kin, BeingMade
    <3>2. CASE ask[a].left # 1
      <4>1. /\ new.pc = "insert" /\ new.type = ask[a].type /\ new.left = 1 /\ new.n > 0
            /\ new.project = ask[a].project /\ new.parent = ask[a].parent
        <5>1. PICK q : q = ask[a] /\ q \in AskSet /\ q.left # 1 /\ new = Shifted(q)
          BY <1>t, <2>1, <3>2 DEF Shifted
        <5>2. q.n > 0 /\ q.n \in Nat
          BY <5>1, <1>t DEF AskSet
        <5>3. /\ new.pc = q.pc /\ new.type = q.type /\ new.left = 1 /\ new.n = q.n + 1
              /\ new.project = q.project /\ new.parent = q.parent
          BY <5>1, AskShifted
        <5> QED BY <5>1, <5>2, <5>3, <1>t
      <4>2. ASSUME new.parent # NoOne
            PROVE  /\ new.parent <= lastIssue'
                   /\ \A p \in issue' : p.id = new.parent => p.parent = NoOne /\ p.project \in {new.project, NoOne}
        <5>1. new.parent <= lastIssue /\ new.parent \in Nat /\ added.id > lastIssue
          BY <1>t, <2>1, <4>1, <4>2 DEF Kin, BeingMade, AskSet
        <5>2. \A p \in issue : p.id = new.parent => p.parent = NoOne /\ p.project \in {new.project, NoOne}
          BY <1>t, <4>1, <4>2 DEF Kin, BeingMade
        <5> QED BY <1>t, <2>1, <5>1, <5>2
      <4> QED BY <1>t, <2>4, <4>1, <4>2 DEF Kin, BeingMade
    <3> QED BY <3>1, <3>2
  <2>10. ASSUME NEW i \in issue PROVE Refers(i)'
    <3>1. Refers(i) /\ i \in IssueSet
      BY <1>t DEF TreeInv, RowsSound
    <3> QED BY <1>t, <2>1, <3>1 DEF Refers, Stands, IssueSet
  <2>11. Refers(added)'
    <3>1. added.id <= lastIssue' /\ (added.project # NoOne => Stands(added.project)')
      BY <1>t, <2>1 DEF Stands
    <3>2. added.epic # NoOne => \E e \in issue' : e.id = added.epic
      BY <2>1 DEF Ids
    <3>3. ASSUME added.parent # NoOne
          PROVE  \E p \in issue' : p.id = added.parent /\ p.parent = NoOne /\ p.project \in {added.project, NoOne}
      <4>1. PICK p \in issue : p.id = ask[a].parent
        BY <2>1, <3>3 DEF Ids
      <4> QED BY <1>t, <2>1, <3>3, <4>1 DEF Kin, BeingMade
    <3> QED BY <3>1, <3>2, <3>3 DEF Refers
  <2>12. \A i \in issue : i.id # added.id
    BY <1>t, <2>1 DEF TreeInv, RowsSound, Refers, IssueSet
  <2>13. RowsSound'
    BY <2>1, <2>10, <2>11, <2>12 DEF TreeInv, RowsSound
  <2> QED BY <2>6, <2>8, <2>9, <2>13 DEF TreeInv
<1> QED BY <1>1, <1>2

\* Steps that change the issues of S, or drop those outside: e is what becomes of each.
LEMMA EditKeeps ==
  ASSUME TreeInv, NEW a \in Askers, NEW S \in SUBSET issue, NEW e \in [S -> IssueSet],
         issue' = {e[i] : i \in S}, UNCHANGED lastIssue,
         \A i \in S : e[i].id = i.id /\ e[i].parent = i.parent /\ e[i].project \in {i.project, NoOne},
         \A i, p \in S : i.project = p.project => e[i].project = e[p].project,
         \A i \in S : e[i].project # NoOne => Stands(e[i].project)',
         \A i \in S : e[i].epic # NoOne => \E k \in S : k.id = e[i].epic,
         \A i \in S, p \in issue : i.parent # NoOne /\ p.id = i.parent => p \in S,
         project' \in [Projects -> [state : {"none", "live", "gone"}, name : Names, counter : Nat]],
         ask' \in [Askers -> AskSet], \A b \in Askers \ {a} : ask'[b] = ask[b],
         asked' \in 0..MaxAsks \cup 0..MaxAsksAtOnce, orderly' \in BOOLEAN,
         Kin(a)'
  PROVE  TreeInv'
<1>1. issue' \subseteq IssueSet /\ IsFiniteSet(issue')
  <2>1. IsFiniteSet(S)
    BY FS_Subset DEF TreeInv, TreeTyped
  <2>2. PICK T : T = {e[i] : i \in S}
    OBVIOUS
  <2>3. e \in Surjection(S, T)
    BY <2>2 DEF Surjection
  <2>4. IsFiniteSet(T)
    BY <2>1, <2>3, FS_Surjection
  <2> QED BY <2>2, <2>4
<1>2. TreeTyped'
  BY <1>1 DEF TreeInv, TreeTyped
<1>3. \A j \in issue' : Descends(j)
  BY DEF Descends
<1>4. ASSUME NEW b \in Askers \ {a} PROVE Kin(b)'
  <2>1. lastIssue \in Nat /\ Kin(b) /\ TreeTyped
    BY DEF TreeInv, TreeTyped
  <2> QED BY <1>1, <1>3, <1>4, <2>1, KinKept
<1>5. \A i, j \in issue' : i.id = j.id => i = j
  <2>1. ASSUME NEW i \in S, NEW j \in S, e[i].id = e[j].id PROVE e[i] = e[j]
    <3>1. i = j
      BY <2>1 DEF TreeInv, RowsSound
    <3> QED BY <3>1
  <2> QED BY <2>1
<1>6. ASSUME NEW i \in S PROVE Refers(e[i])'
  <2>1. Refers(i) /\ i \in issue
    BY DEF TreeInv, RowsSound
  <2>2. e[i].id <= lastIssue' /\ (e[i].project # NoOne => Stands(e[i].project)')
    BY <2>1 DEF Refers
  <2>3. e[i].epic # NoOne => \E k \in issue' : k.id = e[i].epic
    OBVIOUS
  <2>4. ASSUME i.parent # NoOne
        PROVE  \E p \in issue' : p.id = e[i].parent /\ p.parent = NoOne /\ p.project \in {e[i].project, NoOne}
    <3>1. PICK p \in issue : p.id = i.parent /\ p.parent = NoOne /\ p.project \in {i.project, NoOne}
      BY <2>1, <2>4 DEF Refers
    <3>2. p \in S /\ e[p] \in issue'
      BY <2>4, <3>1
    <3>3. e[p].project \in {e[i].project, NoOne}
      BY <3>1, <3>2
    <3> QED BY <3>1, <3>2, <3>3
  <2>5. e[i].parent = i.parent
    OBVIOUS
  <2> QED BY <2>2, <2>3, <2>4, <2>5 DEF Refers
<1>7. RowsSound'
  BY <1>5, <1>6 DEF RowsSound
<1> QED BY <1>2, <1>4, <1>7 DEF TreeInv

LEMMA RowFound ==
  ASSUME RowsSound, NEW id \in Ids PROVE Row(id) \in issue /\ Row(id).id = id
BY DEF Ids, Row

LEMMA ProjectsRest ==
  ASSUME TreeInv, UNCHANGED project
  PROVE  /\ project' \in [Projects -> [state : {"none", "live", "gone"}, name : Names, counter : Nat]]
         /\ \A p : Stands(p)' <=> Stands(p)
BY DEF TreeInv, TreeTyped, Stands

LEMMA WritePatchKeeps == ASSUME TreeInv, NEW a \in Askers, WritePatch(a) PROVE TreeInv'
<1>t. /\ ask[a] \in AskSet /\ Kin(a) /\ ask[a].pc \in {"patch", "retype"}
      /\ Then(a, NoAsk) /\ UNCHANGED <<project, lastIssue>> /\ issue \subseteq IssueSet
  BY DEF TreeInv, TreeTyped, WritePatch, Over
<1>1. /\ ask' \in [Askers -> AskSet] /\ ask'[a] = NoAsk /\ \A b \in Askers \ {a} : ask'[b] = ask[b]
      /\ asked' \in 0..MaxAsks \cup 0..MaxAsksAtOnce /\ orderly' \in BOOLEAN
  BY <1>t, ThenMoves, TreeConstants DEF TreeInv
<1>2. Kin(a)'
  BY <1>1, TreeConstants DEF Kin, BeingMade
<1>3. CASE UNCHANGED issue
  BY <1>t, <1>1, <1>2, <1>3, ProjectsRest, IssuesRest
<1>4. CASE ~UNCHANGED issue
  <2>0. PICK i, t, j :
          /\ ask[a].id \in Ids /\ ask[a].epic \in Ids \cup {NoOne}
          /\ i = Row(ask[a].id)
          /\ t = IF ask[a].type = "same" THEN i.type ELSE ask[a].type
          /\ j = [i EXCEPT !.type = t, !.epic = IF ask[a].pc = "patch" THEN ask[a].epic ELSE @]
          /\ issue' = (issue \ {i}) \cup {j}
    BY <1>4 DEF WritePatch
  <2>2. i \in issue /\ i \in IssueSet
    BY <1>t, <2>0, RowFound DEF TreeInv
  <2>1. PICK f :
          /\ ask[a].epic \in Ids \cup {NoOne}
          /\ t = IF ask[a].type = "same" THEN i.type ELSE ask[a].type
          /\ f = IF ask[a].pc = "patch" THEN ask[a].epic ELSE i.epic
          /\ j = [i EXCEPT !.type = t, !.epic = f]
          /\ issue' = (issue \ {i}) \cup {j}
    BY <2>0, <2>2 DEF IssueSet
  <2>3. t \in Types /\ f \in Nat
    BY <1>t, <2>1, <2>2 DEF Kin, AskSet, IssueSet
  <2>4. j \in IssueSet /\ j.id = i.id /\ j.parent = i.parent /\ j.project = i.project /\ j.epic = f
    BY <2>1, <2>2, <2>3 DEF IssueSet
  <2>e. PICK e : e = [r \in issue |-> IF r = i THEN j ELSE r]
    OBVIOUS
  <2>5. e \in [issue -> IssueSet] /\ issue' = {e[r] : r \in issue}
    BY <1>t, <2>1, <2>2, <2>4, <2>e
  <2>6. \A r \in issue : e[r].id = r.id /\ e[r].parent = r.parent /\ e[r].project = r.project
    BY <2>4, <2>e
  <2>7. ASSUME NEW r \in issue, e[r].epic # NoOne PROVE \E k \in issue : k.id = e[r].epic
    <3>1. CASE r = i /\ ask[a].pc = "patch"
      BY <2>e, <2>1, <2>4, <2>7, <3>1 DEF Ids
    <3>2. CASE ~(r = i /\ ask[a].pc = "patch")
      BY <2>e, <2>1, <2>4, <2>7, <3>2 DEF TreeInv, RowsSound, Refers
    <3> QED BY <3>1, <3>2
  <2>8. \A r \in issue : e[r].project # NoOne => Stands(e[r].project)'
    BY <1>t, <2>6, ProjectsRest DEF TreeInv, RowsSound, Refers
  <2>9. issue \in SUBSET issue
    OBVIOUS
  <2>10. /\ \A r \in issue : e[r].id = r.id /\ e[r].parent = r.parent /\ e[r].project \in {r.project, NoOne}
         /\ \A r, p \in issue : r.project = p.project => e[r].project = e[p].project
    BY <2>6
  <2>11. project' \in [Projects -> [state : {"none", "live", "gone"}, name : Names, counter : Nat]]
    BY <1>t, ProjectsRest
  <2> QED BY <1>t, <1>1, <1>2, <2>5, <2>7, <2>8, <2>9, <2>10, <2>11, EditKeeps
<1> QED BY <1>3, <1>4

\* What deleting issues leaves.
LEMMA WithoutKeeps ==
  ASSUME TreeInv, NEW a \in Askers, NEW ids \in SUBSET (Nat \ {0}), issue' = Without(ids),
         UNCHANGED <<project, lastIssue>>,
         ask' \in [Askers -> AskSet], \A b \in Askers \ {a} : ask'[b] = ask[b],
         asked' \in 0..MaxAsks \cup 0..MaxAsksAtOnce, orderly' \in BOOLEAN, Kin(a)'
  PROVE  TreeInv'
<1>t. issue \subseteq IssueSet /\ RowsSound
  BY DEF TreeInv, TreeTyped
<1>1. PICK gone : gone = {i.id : i \in {j \in issue : j.id \in ids \/ j.parent \in ids}}
  OBVIOUS
<1>e. PICK S, e : /\ S = {j \in issue : j.id \notin gone}
                  /\ e = [i \in S |-> IF i.epic \in gone THEN [i EXCEPT !.epic = NoOne] ELSE i]
  OBVIOUS
<1>2. issue' = {e[i] : i \in S}
  <2>1. issue' = {IF i.epic \in gone THEN [i EXCEPT !.epic = NoOne] ELSE i : i \in S}
    BY <1>1, <1>e DEF Without
  <2> QED BY <2>1, <1>e
<1>3. ASSUME NEW i \in S
      PROVE  /\ e[i] \in IssueSet /\ e[i].id = i.id /\ e[i].parent = i.parent /\ e[i].project = i.project
             /\ e[i].epic # NoOne => e[i].epic = i.epic /\ i.epic \notin gone
  <2>1. i \in IssueSet /\ i \in S /\ e[i] = IF i.epic \in gone THEN [i EXCEPT !.epic = NoOne] ELSE i
    BY <1>t, <1>e, <1>3
  <2>2. CASE i.epic \in gone
    BY <2>1, <2>2, TreeConstants DEF IssueSet
  <2>3. CASE i.epic \notin gone
    BY <2>1, <2>3
  <2> QED BY <2>2, <2>3
<1>4. \A i \in S : e[i].epic # NoOne => \E k \in S : k.id = e[i].epic
  BY <1>3, <1>t, <1>e DEF RowsSound, Refers
<1>5. ASSUME NEW i \in S, NEW p \in issue, i.parent # NoOne, p.id = i.parent PROVE p \in S
  <2>1. p.parent = NoOne
    BY <1>5, <1>t, <1>e DEF RowsSound, Refers
  <2>2. p.id \notin ids
    BY <1>1, <1>5, <1>e
  <2>3. ASSUME p.id \in gone PROVE FALSE
    <3>1. PICK k \in issue : k.id = p.id /\ (k.id \in ids \/ k.parent \in ids)
      BY <1>1, <2>3
    <3>2. k = p
      BY <3>1, <1>t DEF RowsSound
    <3> QED BY <2>1, <2>2, <3>1, <3>2, TreeConstants
  <2> QED BY <2>3, <1>e, <1>5
<1>6. \A i \in S : e[i].project # NoOne => Stands(e[i].project)'
  BY <1>3, <1>t, <1>e, ProjectsRest DEF RowsSound, Refers
<1>7. S \in SUBSET issue /\ e \in [S -> IssueSet]
  BY <1>3, <1>e
<1>8. /\ \A i \in S : e[i].id = i.id /\ e[i].parent = i.parent /\ e[i].project \in {i.project, NoOne}
      /\ \A i, p \in S : i.project = p.project => e[i].project = e[p].project
  BY <1>3
<1>9. project' \in [Projects -> [state : {"none", "live", "gone"}, name : Names, counter : Nat]]
  BY ProjectsRest
<1>10. \A i \in S, p \in issue : i.parent # NoOne /\ p.id = i.parent => p \in S
  BY <1>5
<1> QED BY <1>2, <1>4, <1>6, <1>7, <1>8, <1>9, <1>10, EditKeeps

LEMMA DeleteOneKeeps == ASSUME TreeInv, NEW a \in Askers, DeleteOne(a) PROVE TreeInv'
<1>1. PICK i \in issue : Take(a, NoAsk) /\ issue' = Without({i.id}) /\ UNCHANGED <<project, lastIssue>>
  BY DEF DeleteOne
<1>2. /\ ask' \in [Askers -> AskSet] /\ ask'[a] = NoAsk /\ \A b \in Askers \ {a} : ask'[b] = ask[b]
      /\ asked' \in 0..MaxAsks \cup 0..MaxAsksAtOnce /\ orderly' \in BOOLEAN
  BY <1>1, TakeMoves, TreeConstants DEF TreeInv
<1>3. Kin(a)'
  BY <1>2, TreeConstants DEF Kin, BeingMade
<1>4. {i.id} \in SUBSET (Nat \ {0})
  BY DEF TreeInv, TreeTyped, IssueSet
<1> QED BY <1>1, <1>2, <1>3, <1>4, WithoutKeeps

LEMMA BulkNextKeeps == ASSUME TreeInv, NEW a \in Askers, BulkNext(a) PROVE TreeInv'
<1>1. PICK id, new :
        /\ id \in ask[a].todo /\ ask[a].pc = "bulk" /\ UNCHANGED <<project, lastIssue>>
        /\ Then(a, new) /\ new \in {NoAsk, [ask[a] EXCEPT !.todo = @ \ {id}]}
        /\ IF ask[a].type = "delete" THEN issue' = Without({id})
           ELSE issue' = {IF i.id = id THEN [i EXCEPT !.type = ask[a].type] ELSE i : i \in issue}
  BY DEF BulkNext, Over
<1>t. ask[a] \in AskSet /\ ask[a].type # "same" /\ issue \subseteq IssueSet /\ RowsSound /\ id \in Nat \ {0}
  BY <1>1 DEF TreeInv, TreeTyped, Kin, AskSet
<1>2. new \in AskSet /\ (new = NoAsk \/ (new.pc = "bulk" /\ new.type = ask[a].type))
  <2>1. CASE new # NoAsk
    <3>1. PICK q, rest : q = ask[a] /\ rest = q.todo \ {id} /\ new = [q EXCEPT !.todo = rest]
      BY <1>1, <2>1
    <3>2. q \in AskSet /\ rest \in SUBSET (Nat \ {0})
      BY <3>1, <1>t DEF AskSet
    <3>3. new \in AskSet /\ new.pc = q.pc /\ new.type = q.type
      BY <3>1, <3>2 DEF AskSet
    <3> QED BY <3>1, <3>3, <1>1
  <2> QED BY <2>1, TreeConstants
<1>3. /\ ask' \in [Askers -> AskSet] /\ ask'[a] = new /\ \A b \in Askers \ {a} : ask'[b] = ask[b]
      /\ asked' \in 0..MaxAsks \cup 0..MaxAsksAtOnce /\ orderly' \in BOOLEAN
  BY <1>1, <1>2, ThenMoves DEF TreeInv
<1>4. Kin(a)'
  BY <1>t, <1>2, <1>3, TreeConstants DEF Kin, BeingMade
<1>5. CASE ask[a].type = "delete"
  <2>1. {id} \in SUBSET (Nat \ {0})
    BY <1>t
  <2> QED BY <1>1, <1>3, <1>4, <1>5, <2>1, WithoutKeeps
<1>6. CASE ask[a].type # "delete"
  <2>e. PICK e, t : t = ask[a].type /\ e = [i \in issue |-> IF i.id = id THEN [i EXCEPT !.type = t] ELSE i]
    OBVIOUS
  <2>1. issue' = {e[i] : i \in issue}
    BY <1>1, <1>6, <2>e
  <2>2. t \in Types
    BY <1>t, <1>6, <2>e DEF AskSet
  <2>3. ASSUME NEW i \in issue
        PROVE  /\ e[i] \in IssueSet /\ e[i].id = i.id /\ e[i].parent = i.parent /\ e[i].project = i.project
               /\ e[i].epic = i.epic
    <3>1. i \in IssueSet
      BY <1>t
    <3>2. e[i] = IF i.id = id THEN [i EXCEPT !.type = t] ELSE i
      BY <2>e, <2>3
    <3> QED BY <3>1, <3>2, <2>2 DEF IssueSet
  <2>4. e \in [issue -> IssueSet] /\ issue \in SUBSET issue
    BY <2>3, <2>e
  <2>5. \A i \in issue : e[i].epic # NoOne => \E k \in issue : k.id = e[i].epic
    BY <2>3, <1>t DEF RowsSound, Refers
  <2>6. \A i \in issue : e[i].project # NoOne => Stands(e[i].project)'
    BY <1>1, <2>3, <1>t, ProjectsRest DEF RowsSound, Refers
  <2>7. /\ \A i \in issue : e[i].id = i.id /\ e[i].parent = i.parent /\ e[i].project \in {i.project, NoOne}
        /\ \A i, p \in issue : i.project = p.project => e[i].project = e[p].project
    BY <2>3
  <2> QED BY <1>1, <1>3, <1>4, <2>1, <2>4, <2>5, <2>6, <2>7, ProjectsRest, EditKeeps
<1> QED BY <1>5, <1>6

\* A project loses its issues.
LEMMA OrphanKeeps ==
  ASSUME TreeInv, NEW a \in Askers, NEW p \in Projects, issue' = Orphan(p), UNCHANGED lastIssue,
         \A r \in Projects \ {p} : Stands(r) => Stands(r)',
         project' \in [Projects -> [state : {"none", "live", "gone"}, name : Names, counter : Nat]],
         ask' \in [Askers -> AskSet], \A b \in Askers \ {a} : ask'[b] = ask[b],
         asked' \in 0..MaxAsks \cup 0..MaxAsksAtOnce, orderly' \in BOOLEAN, Kin(a)'
  PROVE  TreeInv'
<1>t. issue \subseteq IssueSet /\ RowsSound
  BY DEF TreeInv, TreeTyped
<1>e. PICK e : e = [i \in issue |-> IF i.project = p THEN [i EXCEPT !.project = NoOne] ELSE i]
  OBVIOUS
<1>1. issue' = {e[i] : i \in issue}
  BY <1>e DEF Orphan
<1>2. ASSUME NEW i \in issue
      PROVE  /\ e[i] \in IssueSet /\ e[i].id = i.id /\ e[i].parent = i.parent /\ e[i].epic = i.epic
             /\ e[i].project = IF i.project = p THEN NoOne ELSE i.project
  <2>1. i \in IssueSet
    BY <1>t
  <2>2. e[i] = IF i.project = p THEN [i EXCEPT !.project = NoOne] ELSE i
    BY <1>e, <1>2
  <2> QED BY <2>1, <2>2 DEF IssueSet
<1>3. e \in [issue -> IssueSet] /\ issue \in SUBSET issue
  BY <1>2, <1>e
<1>4. \A i \in issue : e[i].epic # NoOne => \E k \in issue : k.id = e[i].epic
  BY <1>2, <1>t DEF RowsSound, Refers
<1>5. \A i \in issue : e[i].project # NoOne => Stands(e[i].project)'
  <2>1. ASSUME NEW i \in issue, e[i].project # NoOne PROVE Stands(e[i].project)'
    <3>1. e[i].project = i.project /\ i.project # p
      BY <1>2, <2>1
    <3>2. Stands(i.project) /\ i.project \in Projects
      BY <1>t, <2>1, <3>1 DEF RowsSound, Refers, Stands
    <3>3. Stands(i.project)'
      BY <3>1, <3>2
    <3> QED BY <3>1, <3>3
  <2> QED BY <2>1
<1>6. /\ \A i \in issue : e[i].id = i.id /\ e[i].parent = i.parent /\ e[i].project \in {i.project, NoOne}
      /\ \A i, r \in issue : i.project = r.project => e[i].project = e[r].project
  BY <1>2
<1> QED BY <1>1, <1>3, <1>4, <1>5, <1>6, EditKeeps

LEMMA DropKeeps == ASSUME TreeInv, NEW a \in Askers, ClearProject(a) \/ DropProject(a) PROVE TreeInv'
<1>1. CASE ClearProject(a)
  <2>1. PICK p \in Projects :
          /\ Take(a, [NoAsk EXCEPT !.pc = "drop", !.project = p])
          /\ issue' = Orphan(p) /\ UNCHANGED <<project, lastIssue>>
    BY <1>1 DEF ClearProject
  <2>2. PICK q : q = [NoAsk EXCEPT !.pc = "drop", !.project = p]
    OBVIOUS
  <2>3. q \in AskSet /\ q.pc = "drop" /\ q.project # NoOne
    BY <2>2, TreeConstants DEF NoAsk, AskSet, BeingMade, NoOne, Types
  <2>4. /\ ask' \in [Askers -> AskSet] /\ ask'[a] = q /\ \A b \in Askers \ {a} : ask'[b] = ask[b]
        /\ asked' \in 0..MaxAsks \cup 0..MaxAsksAtOnce /\ orderly' \in BOOLEAN
    BY <2>1, <2>2, <2>3, TakeMoves DEF TreeInv
  <2>5. Kin(a)'
    BY <2>3, <2>4 DEF Kin, BeingMade
  <2> QED BY <2>1, <2>4, <2>5, ProjectsRest, OrphanKeeps
<1>2. CASE DropProject(a)
  <2>1. PICK p : p = ask[a].project
    OBVIOUS
  <2>2. /\ Then(a, NoAsk) /\ project' = [project EXCEPT ![p].state = "gone"]
        /\ issue' = Orphan(p) /\ UNCHANGED lastIssue
    BY <1>2, <2>1 DEF DropProject, Over
  <2>3. p \in Projects
    BY <1>2, <2>1 DEF TreeInv, TreeTyped, Kin, DropProject, AskSet
  <2>4. /\ ask' \in [Askers -> AskSet] /\ ask'[a] = NoAsk /\ \A b \in Askers \ {a} : ask'[b] = ask[b]
        /\ asked' \in 0..MaxAsks \cup 0..MaxAsksAtOnce /\ orderly' \in BOOLEAN
    BY <2>2, ThenMoves, TreeConstants DEF TreeInv
  <2>5. Kin(a)'
    BY <2>4, TreeConstants DEF Kin, BeingMade
  <2>6. /\ project' \in [Projects -> [state : {"none", "live", "gone"}, name : Names, counter : Nat]]
        /\ \A r \in Projects \ {p} : Stands(r) => Stands(r)'
    BY <2>2, <2>3 DEF TreeInv, TreeTyped, Stands
  <2> QED BY <2>2, <2>3, <2>4, <2>5, <2>6, OrphanKeeps
<1> QED BY <1>1, <1>2

LEMMA TreeStep == ASSUME TreeInv, [TreeNext]_treeVars PROVE TreeInv'
<1>1. CASE TreeNext
  BY <1>1, AskIssueKeeps, AskSubtaskKeeps, AskCloneKeeps, AskImportKeeps, DrawNumberKeeps, CheckKeeps,
     InsertKeeps, PatchIssueKeeps, WritePatchKeeps, BulkKeeps, BulkNextKeeps, DeleteOneKeeps, ProjectKeeps,
     DropKeeps DEF TreeNext
<1>2. CASE UNCHANGED treeVars
  BY <1>2 DEF treeVars, TreeInv, TreeTyped, RowsSound, Refers, Kin, Stands
<1> QED BY <1>1, <1>2

(***************************************************************************)
(* Keys.                                                                   *)
(***************************************************************************)
Holds(a) == ask[a].pc \in {"epic", "insert"}
LastNumber(q) == q.n + q.left - 1
Sole(n) == NoOne \notin served[n] /\ \A p, r \in served[n] : p = r

KeysTyped ==
  /\ used \subseteq (Names \X (Nat \ {0})) \X (Nat \ {0})
  /\ served \in [Names -> SUBSET (Projects \cup {NoOne})] /\ refused \subseteq Names

\* The numbers a request has drawn and not given out are its own.
DrawnApart ==
  /\ \A a \in Askers : Holds(a) =>
       /\ ask[a].project \in served[ask[a].name]
       /\ ask[a].project # NoOne => LastNumber(ask[a]) <= project[ask[a].project].counter
  /\ \A a, b \in Askers : a # b /\ Holds(a) /\ Holds(b) /\ ask[a].project = ask[b].project /\ ask[a].project # NoOne =>
       LastNumber(ask[a]) < ask[b].n \/ LastNumber(ask[b]) < ask[a].n

\* So are those it has given out.
KeyKnown(u) ==
  /\ u[2] <= lastIssue /\ served[u[1][1]] # {}
  /\ Sole(u[1][1]) =>
       /\ \A p \in served[u[1][1]] : u[1][2] <= project[p].counter
       /\ \A a \in Askers : Holds(a) /\ ask[a].name = u[1][1] => u[1][2] \notin ask[a].n..LastNumber(ask[a])
KeysApart ==
  /\ \A u \in used : KeyKnown(u)
  /\ \A i \in issue : <<i.key, i.id>> \in used
  /\ \A u, v \in used : u[1] = v[1] /\ u[2] # v[2] => ~Sole(u[1][1])
  /\ \A n \in refused : ~Sole(n)
KeyInv == KeysTyped /\ DrawnApart /\ KeysApart


LEMMA SharedNames ==
  ASSUME KeysTyped, NEW n \in Names, ~Sole(n) PROVE Shared(n)
<1>1. served[n] \subseteq 0..MaxProjects
  BY IssueTreeAssumption DEF KeysTyped, Projects, NoOne
<1>2. IsFiniteSet(0..MaxProjects)
  BY IssueTreeAssumption, FS_Interval
<1>3. IsFiniteSet(served[n]) /\ Cardinality(served[n]) \in Nat
  BY <1>1, <1>2, FS_Subset, FS_CardinalityType
<1>4. CASE NoOne \in served[n]
  BY <1>4 DEF Shared
<1>5. ASSUME NEW p \in served[n], NEW r \in served[n], p # r PROVE Shared(n)
  <2>1. IsFiniteSet({p}) /\ Cardinality({p}) = 1
    BY FS_Singleton
  <2>2. Cardinality({p} \cup {r}) = 2
    <3>1. r \notin {p} /\ 1 + 1 = 2
      BY <1>5
    <3>2. Cardinality({p} \cup {r}) = IF r \in {p} THEN Cardinality({p}) ELSE Cardinality({p}) + 1
      BY ONLY <2>1, FS_AddElement
    <3> QED BY ONLY <2>1, <3>1, <3>2
  <2>3. Cardinality({p} \cup {r}) <= Cardinality(served[n])
    BY <1>3, <1>5, FS_Subset
  <2> QED BY <1>3, <2>2, <2>3 DEF Shared
<1> QED BY <1>4, <1>5 DEF Sole

LEMMA KeysStart == ASSUME TreeInit PROVE KeyInv
BY TreeConstants DEF TreeInit, KeyInv, KeysTyped, DrawnApart, KeysApart, Holds, NoAsk

\* The numbers a request holds it has held before; rows keep their keys.
HoldersStay ==
  \A b \in Askers : Holds(b)' =>
    /\ Holds(b) /\ ask'[b].project = ask[b].project /\ ask'[b].name = ask[b].name
    /\ ask[b].n <= ask'[b].n /\ LastNumber(ask'[b]) = LastNumber(ask[b])
NamesStay == \A j \in issue' : \E i \in issue : j.key = i.key /\ j.id = i.id
CountersMove == \A p \in Projects : project[p].counter <= project'[p].counter /\ project'[p].counter \in Nat

LEMMA DrawnRest ==
  ASSUME TreeTyped, TreeTyped', KeyInv, UNCHANGED served, CountersMove, HoldersStay
  PROVE  DrawnApart'
<1>t. \A b \in Askers : ask[b] \in AskSet /\ ask'[b] \in AskSet
  BY DEF TreeTyped
<1>c. \A p \in Projects : project[p].counter \in Nat
  BY DEF TreeTyped
<1>n. \A q \in AskSet : q.n \in Nat /\ LastNumber(q) \in Int
  BY DEF AskSet, LastNumber
<1>1. ASSUME NEW b \in Askers, Holds(b)'
      PROVE  /\ ask'[b].project \in served'[ask'[b].name]
             /\ ask'[b].project # NoOne => LastNumber(ask'[b]) <= project'[ask'[b].project].counter
  <2>1. /\ Holds(b) /\ ask'[b].project = ask[b].project /\ ask'[b].name = ask[b].name
        /\ LastNumber(ask'[b]) = LastNumber(ask[b]) /\ LastNumber(ask[b]) \in Int
    BY <1>1, <1>t, <1>n DEF HoldersStay
  <2>2. /\ ask[b].project \in served[ask[b].name]
        /\ ask[b].project # NoOne => LastNumber(ask[b]) <= project[ask[b].project].counter
        /\ ask[b].project # NoOne => ask[b].project \in Projects
    BY <2>1, <1>t DEF KeyInv, DrawnApart, AskSet
  <2> QED BY <2>1, <2>2, <1>c DEF CountersMove
<1>2. ASSUME NEW b \in Askers, NEW c \in Askers, b # c, Holds(b)', Holds(c)',
             ask'[b].project = ask'[c].project, ask'[b].project # NoOne
      PROVE  LastNumber(ask'[b]) < ask'[c].n \/ LastNumber(ask'[c]) < ask'[b].n
  <2>1. LastNumber(ask[b]) < ask[c].n \/ LastNumber(ask[c]) < ask[b].n
    BY <1>2 DEF HoldersStay, KeyInv, DrawnApart
  <2>2. /\ ask[b].n <= ask'[b].n /\ LastNumber(ask'[b]) = LastNumber(ask[b])
        /\ ask[c].n <= ask'[c].n /\ LastNumber(ask'[c]) = LastNumber(ask[c])
    BY <1>2 DEF HoldersStay
  <2> QED BY <1>t, <1>n, <2>1, <2>2
<1> QED BY <1>1, <1>2 DEF DrawnApart

LEMMA KnownRest ==
  ASSUME TreeTyped, TreeTyped', KeyInv, UNCHANGED served, CountersMove, HoldersStay,
         lastIssue <= lastIssue', NEW u \in used
  PROVE  KeyKnown(u)'
<1>t. \A b \in Askers : ask[b] \in AskSet /\ ask'[b] \in AskSet
  BY DEF TreeTyped
<1>c. \A p \in Projects : project[p].counter \in Nat
  BY DEF TreeTyped
<1>s. \A n : Sole(n)' <=> Sole(n)
  BY DEF Sole
<1>1. KeyKnown(u) /\ u[2] \in Nat /\ u[1][2] \in Nat /\ served[u[1][1]] \subseteq Projects \cup {NoOne}
  BY DEF KeyInv, KeysApart, KeysTyped
<1>2. u[2] <= lastIssue' /\ served'[u[1][1]] # {}
  BY <1>1 DEF KeyKnown, TreeTyped
<1>3. ASSUME Sole(u[1][1]), NEW p \in served[u[1][1]] PROVE u[1][2] <= project'[p].counter
  <2>1. p \in Projects /\ u[1][2] <= project[p].counter
    BY <1>1, <1>3 DEF Sole, KeyKnown
  <2> QED BY <1>1, <2>1, <1>c DEF CountersMove
<1>4. ASSUME Sole(u[1][1]), NEW b \in Askers, Holds(b)', ask'[b].name = u[1][1]
      PROVE  u[1][2] \notin ask'[b].n..LastNumber(ask'[b])
  <2>1. /\ Holds(b) /\ ask[b].name = u[1][1] /\ ask[b].n <= ask'[b].n /\ LastNumber(ask'[b]) = LastNumber(ask[b])
        /\ ask[b].n \in Nat /\ ask'[b].n \in Nat /\ LastNumber(ask[b]) \in Int
    BY <1>t, <1>4 DEF HoldersStay, AskSet, LastNumber
  <2>2. u[1][2] \notin ask[b].n..LastNumber(ask[b])
    BY <1>1, <1>4, <2>1 DEF KeyKnown
  <2> QED BY <1>1, <2>1, <2>2
<1> QED BY <1>2, <1>3, <1>4, <1>s DEF KeyKnown

LEMMA KeysRest ==
  ASSUME TreeTyped, TreeTyped', KeyInv, UNCHANGED <<used, served, refused>>, lastIssue <= lastIssue',
         CountersMove, HoldersStay, NamesStay
  PROVE  KeyInv'
<1>1. KeysTyped'
  BY DEF KeyInv, KeysTyped
<1>2. DrawnApart'
  BY DrawnRest
<1>3. \A u \in used' : KeyKnown(u)'
  BY KnownRest
<1>s. \A n : Sole(n)' <=> Sole(n)
  BY DEF Sole
<1>4. KeysApart'
  BY <1>3, <1>s DEF KeysApart, NamesStay, KeyInv
<1> QED BY <1>1, <1>2, <1>4 DEF KeyInv

\* One request moves.
LEMMA HoldersRest ==
  ASSUME TreeTyped, NEW a \in Askers, NEW q, ask' = [ask EXCEPT ![a] = q], q.pc \notin {"epic", "insert"}
  PROVE  HoldersStay
<1>1. \A b \in Askers \ {a} : ask'[b] = ask[b]
  BY DEF TreeTyped
<1>2. ask'[a] = q
  BY DEF TreeTyped
<1> QED BY <1>1, <1>2 DEF HoldersStay, Holds, TreeTyped, AskSet

LEMMA CountersRest ==
  ASSUME TreeTyped, UNCHANGED <<project, lastIssue>>
  PROVE  CountersMove /\ lastIssue <= lastIssue'
BY DEF TreeTyped, CountersMove

\* Reads, and writes that touch neither keys nor numbers.
LEMMA AsksKeepKeys ==
  ASSUME TreeInv, TreeInv', KeyInv, NEW a \in Askers,
         AskIssue(a) \/ AskSubtask(a) \/ AskClone(a) \/ AskImport(a) \/ PatchIssue(a) \/ Bulk(a)
  PROVE  KeyInv'
<1>1. PICK q : /\ ask' = [ask EXCEPT ![a] = q] /\ q.pc \notin {"epic", "insert"}
               /\ UNCHANGED <<project, issue, lastIssue, used, served, refused>>
  <2>1. CASE AskIssue(a) BY <2>1 DEF AskIssue, Take, Drawn, NoAsk
  <2>2. CASE AskSubtask(a) BY <2>2 DEF AskSubtask, Take, Drawn, NoAsk
  <2>3. CASE AskClone(a) BY <2>3 DEF AskClone, Take, Drawn, NoAsk
  <2>4. CASE AskImport(a) BY <2>4 DEF AskImport, Take, Drawn, NoAsk
  <2>5. CASE PatchIssue(a)
    <3>1. PICK i \in issue, t \in Types \cup {"same"}, e \in Ids \cup {NoOne}, named \in BOOLEAN :
            /\ Take(a, [NoAsk EXCEPT !.pc = IF named THEN "patch" ELSE "retype", !.id = i.id, !.type = t, !.epic = e])
            /\ UNCHANGED <<project, issue, lastIssue>> /\ Drawn
      BY <2>5 DEF PatchIssue
    <3>2. PICK q : q = [NoAsk EXCEPT !.pc = IF named THEN "patch" ELSE "retype", !.id = i.id, !.type = t, !.epic = e]
      OBVIOUS
    <3>3. q.pc \in {"patch", "retype"}
      BY <3>2 DEF NoAsk
    <3> QED BY <3>1, <3>2, <3>3 DEF Take, Drawn
  <2>6. CASE Bulk(a) BY <2>6 DEF Bulk, Take, Drawn, NoAsk
  <2> QED BY <2>1, <2>2, <2>3, <2>4, <2>5, <2>6
<1>2. TreeTyped /\ TreeTyped'
  BY DEF TreeInv
<1>3. HoldersStay
  BY <1>1, <1>2, HoldersRest
<1>4. NamesStay
  BY <1>1 DEF NamesStay
<1> QED BY <1>1, <1>2, <1>3, <1>4, CountersRest, KeysRest

\* Rows lose an epic or a project.
LEMMA WithoutStay ==
  ASSUME issue \subseteq IssueSet, NEW ids, issue' = Without(ids) PROVE NamesStay
<1>1. PICK gone : issue' = {IF i.epic \in gone THEN [i EXCEPT !.epic = NoOne] ELSE i :
                            i \in {j \in issue : j.id \notin gone}}
  BY DEF Without
<1>2. ASSUME NEW i \in issue
      PROVE  [i EXCEPT !.epic = NoOne].key = i.key /\ [i EXCEPT !.epic = NoOne].id = i.id
  BY DEF IssueSet
<1> QED BY <1>1, <1>2 DEF NamesStay

LEMMA OrphanStays ==
  ASSUME issue \subseteq IssueSet, NEW p, issue' = Orphan(p) PROVE NamesStay
<1>2. ASSUME NEW i \in issue
      PROVE  [i EXCEPT !.project = NoOne].key = i.key /\ [i EXCEPT !.project = NoOne].id = i.id
  BY DEF IssueSet
<1> QED BY <1>2 DEF NamesStay, Orphan

LEMMA EditsKeepKeys ==
  ASSUME TreeInv, TreeInv', KeyInv, NEW a \in Askers,
         WritePatch(a) \/ BulkNext(a) \/ DeleteOne(a)
  PROVE  KeyInv'
<1>t. TreeTyped /\ TreeTyped' /\ issue \subseteq IssueSet
  BY DEF TreeInv, TreeTyped
<1>1. CASE WritePatch(a)
  <2>1. ask' = [ask EXCEPT ![a] = NoAsk] /\ UNCHANGED <<project, lastIssue, used, served, refused>>
    BY <1>1 DEF WritePatch, Over, Then
  <2>2. CASE UNCHANGED issue
    BY <1>t, <2>1, <2>2, TreeConstants, HoldersRest, CountersRest, KeysRest DEF NamesStay
  <2>3. CASE ~UNCHANGED issue
    <3>1. PICK i, t, f, j :
            /\ ask[a].id \in Ids /\ i = Row(ask[a].id)
            /\ j = [i EXCEPT !.type = t, !.epic = f] /\ issue' = (issue \ {i}) \cup {j}
      <4>1. PICK i, t, j : /\ ask[a].id \in Ids /\ i = Row(ask[a].id)
                           /\ j = [i EXCEPT !.type = t, !.epic = IF ask[a].pc = "patch" THEN ask[a].epic ELSE @]
                           /\ issue' = (issue \ {i}) \cup {j}
        BY <1>1, <2>3 DEF WritePatch
      <4>2. i \in IssueSet
        BY <1>t, <4>1, RowFound DEF TreeInv
      <4> QED BY <4>1, <4>2 DEF IssueSet
    <3>2. i \in issue /\ i \in IssueSet
      BY <1>t, <3>1, RowFound DEF TreeInv
    <3>3. j.key = i.key /\ j.id = i.id
      BY <3>1, <3>2 DEF IssueSet
    <3>4. NamesStay
      BY <3>1, <3>2, <3>3 DEF NamesStay
    <3> QED BY <1>t, <2>1, <3>4, TreeConstants, HoldersRest, CountersRest, KeysRest
  <2> QED BY <2>2, <2>3
<1>2. CASE BulkNext(a)
  <2>0. PICK t : t = ask[a].type
    OBVIOUS
  <2>1. PICK id, new :
          /\ ask[a].pc = "bulk" /\ UNCHANGED <<project, lastIssue, used, served, refused>>
          /\ ask' = [ask EXCEPT ![a] = new] /\ new \in {NoAsk, [ask[a] EXCEPT !.todo = @ \ {id}]}
          /\ \/ issue' = Without({id})
             \/ issue' = {IF i.id = id THEN [i EXCEPT !.type = t] ELSE i : i \in issue}
    <3>1. PICK id : /\ ask[a].pc = "bulk" /\ UNCHANGED <<project, lastIssue, used, served, refused>>
                    /\ IF ask[a].todo = {id} THEN Over(a) ELSE Then(a, [ask[a] EXCEPT !.todo = @ \ {id}])
                    /\ \/ issue' = Without({id})
                       \/ issue' = {IF i.id = id THEN [i EXCEPT !.type = ask[a].type] ELSE i : i \in issue}
      BY <1>2 DEF BulkNext
    <3>2. issue' = Without({id}) \/ issue' = {IF i.id = id THEN [i EXCEPT !.type = t] ELSE i : i \in issue}
      BY <2>0, <3>1
    <3>3. PICK new : ask' = [ask EXCEPT ![a] = new] /\ new \in {NoAsk, [ask[a] EXCEPT !.todo = @ \ {id}]}
      BY <3>1 DEF Over, Then
    <3> QED BY <3>1, <3>2, <3>3
  <2>2. new.pc \notin {"epic", "insert"}
    BY <1>t, <2>1, TreeConstants DEF TreeTyped, AskSet
  <2>3. NamesStay
    <3>1. CASE issue' = Without({id})
      BY <1>t, <3>1, WithoutStay
    <3>2. CASE issue' = {IF i.id = id THEN [i EXCEPT !.type = t] ELSE i : i \in issue}
      <4>1. ASSUME NEW i \in issue
            PROVE  [i EXCEPT !.type = t].key = i.key /\ [i EXCEPT !.type = t].id = i.id
        BY <1>t DEF IssueSet
      <4> QED BY <3>2, <4>1 DEF NamesStay
    <3> QED BY <2>1, <3>1, <3>2
  <2> QED BY <1>t, <2>1, <2>2, <2>3, HoldersRest, CountersRest, KeysRest
<1>3. CASE DeleteOne(a)
  <2>1. PICK ids : ask' = [ask EXCEPT ![a] = NoAsk] /\ issue' = Without(ids)
                   /\ UNCHANGED <<project, lastIssue, used, served, refused>>
    BY <1>3 DEF DeleteOne, Take, Drawn
  <2> QED BY <1>t, <2>1, WithoutStay, TreeConstants, HoldersRest, CountersRest, KeysRest
<1> QED BY <1>1, <1>2, <1>3

LEMMA ChecksKeepKeys ==
  ASSUME TreeInv, TreeInv', KeyInv, NEW a \in Askers, CheckEpic(a) \/ GiveUp(a)
  PROVE  KeyInv'
<1>t. TreeTyped /\ TreeTyped' /\ ask[a] \in AskSet
  BY DEF TreeInv, TreeTyped
<1>1. PICK q : /\ ask' = [ask EXCEPT ![a] = q] /\ q \in {NoAsk, [ask[a] EXCEPT !.pc = "insert"]}
               /\ ask[a].pc \in {"epic", "insert"}
               /\ UNCHANGED <<project, issue, lastIssue, used, served, refused>>
  BY DEF CheckEpic, GiveUp, Over, Then, Drawn
<1>2. HoldersStay
  <2>1. CASE q = NoAsk
    BY <1>t, <1>1, <2>1, TreeConstants, HoldersRest
  <2>2. CASE q = [ask[a] EXCEPT !.pc = "insert"]
    <3>1. q.project = ask[a].project /\ q.name = ask[a].name /\ q.n = ask[a].n /\ q.left = ask[a].left
      BY <1>t, <2>2 DEF AskSet
    <3>2. ask'[a] = q /\ \A b \in Askers \ {a} : ask'[b] = ask[b]
      BY <1>1 DEF TreeInv, TreeTyped
    <3>3. LastNumber(q) = LastNumber(ask[a]) /\ \A b \in Askers : ask[b].n \in Nat
      BY <1>t, <3>1 DEF LastNumber, TreeTyped, AskSet
    <3> QED BY <1>1, <3>1, <3>2, <3>3 DEF HoldersStay, Holds
  <2> QED BY <1>1, <2>1, <2>2
<1>3. NamesStay
  BY <1>1 DEF NamesStay
<1> QED BY <1>t, <1>1, <1>2, <1>3, CountersRest, KeysRest

LEMMA ProjectsKeepKeys ==
  ASSUME TreeInv, TreeInv', KeyInv, NEW a \in Askers,
         NewProject(a) \/ RenameProject(a) \/ ClearProject(a) \/ DropProject(a)
  PROVE  KeyInv'
<1>t. TreeTyped /\ TreeTyped' /\ issue \subseteq IssueSet
  BY DEF TreeInv, TreeTyped
<1>1. PICK q, p : /\ ask' = [ask EXCEPT ![a] = q] /\ q.pc \notin {"epic", "insert"}
                  /\ issue' = issue \/ issue' = Orphan(p)
                  /\ UNCHANGED <<lastIssue, used, served, refused>>
  <2>1. CASE NewProject(a) BY <2>1, TreeConstants DEF NewProject, Take, Drawn
  <2>2. CASE RenameProject(a) BY <2>2, TreeConstants DEF RenameProject, Take, Drawn
  <2>3. CASE ClearProject(a)
    BY <2>3 DEF ClearProject, Take, Drawn, NoAsk
  <2>4. CASE DropProject(a) BY <2>4, TreeConstants DEF DropProject, Over, Then, Drawn
  <2> QED BY <2>1, <2>2, <2>3, <2>4
<1>2. NamesStay
  BY <1>t, <1>1, OrphanStays DEF NamesStay
<1>3. CountersMove
  <2>1. CASE NewProject(a) BY <2>1, <1>t DEF NewProject, TreeTyped, CountersMove
  <2>2. CASE RenameProject(a) BY <2>2, <1>t DEF RenameProject, TreeTyped, CountersMove
  <2>3. CASE ClearProject(a)
    <3>1. UNCHANGED <<project, lastIssue>> BY <2>3 DEF ClearProject
    <3> QED BY <1>t, <3>1, CountersRest
  <2>4. CASE DropProject(a) BY <2>4, <1>t DEF DropProject, TreeTyped, CountersMove
  <2> QED BY <2>1, <2>2, <2>3, <2>4
<1>4. lastIssue <= lastIssue'
  BY <1>1, <1>t DEF TreeTyped
<1> QED BY <1>t, <1>1, <1>2, <1>3, <1>4, HoldersRest, KeysRest

LEMMA DrawKeepsKeys ==
  ASSUME TreeInv, TreeInv', KeyInv, NEW a \in Askers, DrawNumber(a)
  PROVE  KeyInv'
<1>t. /\ TreeTyped /\ TreeTyped' /\ ask[a] \in AskSet /\ Kin(a) /\ ask[a].pc = "number"
      /\ UNCHANGED <<issue, lastIssue, used, refused>>
  BY DEF TreeInv, TreeTyped, DrawNumber
<1>1. CASE ask[a].project # NoOne /\ ~Stands(ask[a].project)
  <2>1. ask' = [ask EXCEPT ![a] = NoAsk] /\ UNCHANGED <<project, served>>
    BY <1>1 DEF DrawNumber, Over, Then
  <2> QED BY <1>t, <2>1, TreeConstants, HoldersRest, CountersRest, KeysRest DEF NamesStay
<1>2. CASE ask[a].project # NoOne => Stands(ask[a].project)
  <2> DEFINE l == IF ask[a].project = NoOne THEN Cardinality(issue) + 1
                  ELSE project[ask[a].project].counter + ask[a].left
  <2>1. PICK last, q, p, m :
          /\ last = l /\ q = ask[a] /\ p = ask[a].project /\ m = ask[a].name
          /\ ask' = [ask EXCEPT ![a] = [q EXCEPT !.pc = IF q.id = NoOne /\ q.epic # NoOne THEN "epic" ELSE "insert",
                                                 !.n = last - q.left + 1]]
          /\ project' = IF p = NoOne THEN project ELSE [project EXCEPT ![p].counter = last]
          /\ served' = [served EXCEPT ![m] = @ \cup {p}]
    <3>1. PICK last, q, p, m : last = l /\ q = ask[a] /\ p = ask[a].project /\ m = ask[a].name
      OBVIOUS
    <3>2. /\ ask' = [ask EXCEPT ![a] = [q EXCEPT !.pc = IF q.id = NoOne /\ q.epic # NoOne THEN "epic" ELSE "insert",
                                                !.n = last - q.left + 1]]
          /\ project' = IF p = NoOne THEN project ELSE [project EXCEPT ![p].counter = last]
      BY <1>2, <3>1 DEF DrawNumber, Then
    <3>3. served' = [served EXCEPT ![m] = @ \cup {p}]
      BY <1>2, <3>1 DEF DrawNumber
    <3> QED BY <3>1, <3>2, <3>3
  <2>2. last \in Nat /\ last >= q.left /\ q \in AskSet /\ p \in Projects \cup {NoOne} /\ m \in Names
    BY <1>t, <1>2, <2>1, NumberDrawn DEF AskSet
  <2>3. PICK new : /\ ask' = [ask EXCEPT ![a] = new] /\ new.n = last - q.left + 1 /\ new.left = q.left
                   /\ new.project = p /\ new.name = m
    <3>1. PICK s, n : /\ s = (IF q.id = NoOne /\ q.epic # NoOne THEN "epic" ELSE "insert") /\ n = last - q.left + 1
                      /\ ask' = [ask EXCEPT ![a] = [q EXCEPT !.pc = s, !.n = n]]
      BY <2>1
    <3>2. q.left = [q EXCEPT !.pc = s, !.n = n].left /\ [q EXCEPT !.pc = s, !.n = n].n = n
          /\ [q EXCEPT !.pc = s, !.n = n].project = p /\ [q EXCEPT !.pc = s, !.n = n].name = m
      BY <2>1, <2>2 DEF AskSet
    <3> QED BY <3>1, <3>2
  <2>4. LastNumber(new) = last /\ new.n \in Nat /\ q.left \in {1, 2} /\ new.n = last - q.left + 1
    BY <2>2, <2>3 DEF LastNumber, AskSet
  <2>5. ask'[a] = new /\ \A b \in Askers \ {a} : ask'[b] = ask[b]
    BY <2>3, <1>t DEF TreeTyped
  <2>6. /\ \A r \in Projects : /\ project[r].counter \in Nat /\ project'[r].counter \in Nat
                               /\ project[r].counter <= project'[r].counter
        /\ p # NoOne => p \in Projects /\ project'[p].counter = last /\ new.n = project[p].counter + 1
    BY <1>t, <2>1, <2>2, <2>4 DEF TreeTyped
  <2>7. /\ served \in [Names -> SUBSET (Projects \cup {NoOne})]
        /\ \A n \in Names : served'[n] = IF n = m THEN served[n] \cup {p} ELSE served[n]
        /\ p \in served'[m]
    BY <2>1, <2>2 DEF KeyInv, KeysTyped
  <2>8. KeysTyped'
    BY <1>t, <2>1, <2>2 DEF KeyInv, KeysTyped
  <2>9. ASSUME NEW b \in Askers \ {a}, Holds(b)'
        PROVE  /\ Holds(b) /\ ask'[b] = ask[b] /\ ask[b] \in AskSet /\ ask[b].n \in Nat /\ LastNumber(ask[b]) \in Int
               /\ ask[b].project \in served[ask[b].name] /\ ask[b].name \in Names
               /\ ask[b].project # NoOne =>
                    ask[b].project \in Projects /\ LastNumber(ask[b]) <= project[ask[b].project].counter
    <3>1. Holds(b) /\ ask'[b] = ask[b] /\ ask[b] \in AskSet
      BY <1>t, <2>5, <2>9 DEF Holds, TreeTyped
    <3> QED BY <3>1 DEF KeyInv, DrawnApart, AskSet, LastNumber
  <2>10. DrawnApart'
    <3>1. ASSUME NEW b \in Askers, Holds(b)'
          PROVE  /\ ask'[b].project \in served'[ask'[b].name]
                 /\ ask'[b].project # NoOne => LastNumber(ask'[b]) <= project'[ask'[b].project].counter
      <4>1. CASE b = a
        <5>1. ask'[b].project = p /\ ask'[b].name = m /\ LastNumber(ask'[b]) = last
          BY <2>3, <2>4, <2>5, <4>1
        <5> QED BY <2>2, <2>6, <2>7, <5>1
      <4>2. CASE b # a
        <5>1. PICK r : r = ask[b] /\ ask'[b] = r
          BY <2>9, <3>1, <4>2
        <5>2. /\ r.project \in served[r.name] /\ r.name \in Names /\ LastNumber(r) \in Int
              /\ r.project # NoOne => r.project \in Projects /\ LastNumber(r) <= project[r.project].counter
          BY <2>9, <3>1, <4>2, <5>1
        <5>3. r.project \in served'[r.name]
          BY <2>7, <5>2
        <5>4. r.project # NoOne => LastNumber(r) <= project'[r.project].counter
          BY <2>6, <5>2
        <5> QED BY <5>1, <5>3, <5>4
      <4> QED BY <4>1, <4>2
    <3>2. ASSUME NEW b \in Askers \ {a}, Holds(b)', ask'[b].project = p, p # NoOne
          PROVE  LastNumber(ask'[b]) < new.n
      BY <2>6, <2>9, <3>2
    <3>3. ASSUME NEW b \in Askers, NEW c \in Askers, b # c, Holds(b)', Holds(c)',
                 ask'[b].project = ask'[c].project, ask'[b].project # NoOne
          PROVE  LastNumber(ask'[b]) < ask'[c].n \/ LastNumber(ask'[c]) < ask'[b].n
      <4>1. CASE b = a \/ c = a
        BY <2>3, <2>5, <3>2, <3>3, <4>1
      <4>2. CASE b # a /\ c # a
        BY <2>9, <3>3, <4>2 DEF KeyInv, DrawnApart
      <4> QED BY <4>1, <4>2
    <3> QED BY <3>1, <3>3 DEF DrawnApart
  <2>11. \A n \in Names : Sole(n)' => Sole(n)
    BY <2>7 DEF Sole
  <2>12. ASSUME NEW u \in used PROVE KeyKnown(u)'
    <3>1. KeyKnown(u) /\ u[2] \in Nat /\ u[1][2] \in Nat /\ u[1][1] \in Names
          /\ served[u[1][1]] \subseteq Projects \cup {NoOne}
      BY DEF KeyInv, KeysApart, KeysTyped
    <3>2. PICK n, k : n = u[1][1] /\ k = u[1][2]
      OBVIOUS
    <3>3. u[2] <= lastIssue' /\ served'[n] # {}
      BY <1>t, <3>1, <3>2, <2>7 DEF KeyKnown
    <3>4. ASSUME Sole(n)', n = m
          PROVE  p # NoOne /\ served[n] = {p} /\ served'[n] = {p} /\ k <= project[p].counter
      <4>1. served'[n] = served[n] \cup {p} /\ served[n] # {}
        BY <2>7, <3>1, <3>2, <3>4 DEF KeyKnown
      <4>2. p # NoOne /\ served[n] = {p} /\ served'[n] = {p}
        BY <4>1, <3>4 DEF Sole
      <4> QED BY <3>1, <3>2, <4>2, <2>11, <3>4 DEF KeyKnown
    <3>5. ASSUME Sole(n)', NEW r \in served'[n] PROVE k <= project'[r].counter
      <4>1. r \in Projects
        BY <2>8, <3>1, <3>2, <3>5 DEF KeysTyped, Sole
      <4>2. k <= project[r].counter
        <5>1. CASE n = m BY <3>4, <3>5, <5>1
        <5>2. CASE n # m BY <2>7, <2>11, <3>1, <3>2, <3>5, <5>2 DEF KeyKnown
        <5> QED BY <5>1, <5>2
      <4> QED BY <4>1, <4>2, <2>6, <3>1, <3>2
    <3>6. ASSUME Sole(n)', NEW b \in Askers, Holds(b)', ask'[b].name = n
          PROVE  k \notin ask'[b].n..LastNumber(ask'[b])
      <4>1. CASE b = a
        <5>1. n = m /\ ask'[b].n = new.n
          BY <2>3, <2>5, <3>6, <4>1
        <5>2. k < new.n
          BY <2>6, <3>1, <3>2, <3>4, <3>6, <5>1
        <5> QED BY <2>4, <3>1, <3>2, <5>1, <5>2
      <4>2. CASE b # a
        <5>1. Holds(b) /\ ask'[b] = ask[b]
          BY <2>9, <3>6, <4>2
        <5> QED BY <2>11, <3>1, <3>2, <3>6, <5>1 DEF KeyKnown
      <4> QED BY <4>1, <4>2
    <3> QED BY <3>2, <3>3, <3>5, <3>6 DEF KeyKnown
  <2>13. KeysApart'
    <3>1. ASSUME NEW u \in used', NEW v \in used', u[1] = v[1], u[2] # v[2] PROVE ~Sole(u[1][1])'
      <4>1. u[1][1] \in Names
        BY <1>t, <3>1 DEF KeyInv, KeysTyped
      <4> QED BY <1>t, <2>11, <3>1, <4>1 DEF KeyInv, KeysApart
    <3>2. ASSUME NEW n \in refused' PROVE ~Sole(n)'
      BY <1>t, <2>11, <3>2 DEF KeyInv, KeysApart, KeysTyped
    <3>3. \A u \in used' : KeyKnown(u)'
      BY <1>t, <2>12
    <3> QED BY <1>t, <3>1, <3>2, <3>3 DEF KeysApart, KeyInv
  <2> QED BY <2>8, <2>10, <2>13 DEF KeyInv
<1> QED BY <1>1, <1>2

\* The number an INSERT is about to give out is new, under a name with one project.
LEMMA NumberNew ==
  ASSUME TreeInv, KeyInv, NEW a \in Askers, ask[a].pc = "insert", Sole(ask[a].name)
  PROVE  \A u \in used : u[1] # <<ask[a].name, ask[a].n>>
<1>1. ask[a] \in AskSet /\ Holds(a) /\ ask[a].n \in ask[a].n..LastNumber(ask[a])
  BY DEF TreeInv, TreeTyped, AskSet, Holds, LastNumber
<1> QED BY <1>1 DEF KeyInv, KeysApart, KeyKnown

LEMMA InsertKeepsKeys ==
  ASSUME TreeInv, TreeInv', KeyInv, NEW a \in Askers, Insert(a)
  PROVE  KeyInv'
<1>t. /\ TreeTyped /\ TreeTyped' /\ ask[a] \in AskSet /\ Kin(a) /\ ask[a].pc = "insert" /\ Holds(a)
      /\ lastIssue \in Nat /\ lastIssue' = lastIssue + 1 /\ UNCHANGED <<project, served>>
  BY DEF TreeInv, TreeTyped, Insert, Holds
<1>q. PICK q, m, n : q = ask[a] /\ m = q.name /\ n = q.n
  OBVIOUS
<1>n. /\ m \in Names /\ n \in Nat \ {0} /\ q.left \in {1, 2} /\ LastNumber(q) \in Nat /\ n <= LastNumber(q)
      /\ q.project \in served[m] /\ (q.project # NoOne => LastNumber(q) <= project[q.project].counter)
      /\ q.project \in Projects \cup {NoOne}
  <2>1. m \in Names /\ n \in Nat \ {0} /\ q.left \in {1, 2} /\ q.project \in Projects \cup {NoOne}
    BY <1>t, <1>q DEF AskSet, Kin, BeingMade
  <2> QED BY <1>t, <1>q, <2>1 DEF KeyInv, DrawnApart, LastNumber
<1>l. CountersMove /\ lastIssue <= lastIssue'
  BY <1>t DEF TreeTyped, CountersMove
<1>s. \A k : Sole(k)' <=> Sole(k)
  BY <1>t DEF Sole
<1>h. HoldersStay /\ \A b \in Askers \ {a} : ask'[b] = ask[b]
  <2>1. CASE ask' = [ask EXCEPT ![a] = NoAsk]
    BY <1>t, <2>1, TreeConstants, HoldersRest DEF TreeTyped
  <2>2. CASE q.left # 1 /\ ask' = [ask EXCEPT ![a] = Shifted(q)]
    <3>1. PICK r : r = Shifted(q) /\ ask' = [ask EXCEPT ![a] = r]
      BY <2>2
    <3>2. r.n = n + 1 /\ r.left = 1 /\ q.left = 2 /\ r.project = q.project /\ r.name = q.name
      BY <1>t, <1>q, <2>2, <3>1, AskShifted
    <3>3. LastNumber(r) = LastNumber(q) /\ n <= r.n
      BY <1>n, <1>q, <3>2 DEF LastNumber
    <3>4. ask'[a] = r /\ \A b \in Askers \ {a} : ask'[b] = ask[b]
      BY <1>t, <3>1 DEF TreeTyped
    <3>5. \A b \in Askers : ask[b].n \in Nat
      BY <1>t DEF TreeTyped, AskSet
    <3> QED BY <1>t, <1>q, <3>2, <3>3, <3>4, <3>5 DEF HoldersStay, Holds
  <2> QED BY <1>q, <2>1, <2>2 DEF Insert, Over, Then, Shifted
<1>d. DrawnApart'
  BY <1>t, <1>l, <1>h, DrawnRest
<1>k. \A u \in used : KeyKnown(u)'
  BY <1>t, <1>l, <1>h, KnownRest
<1>r. refused' \subseteq Names /\ \A k \in refused' : ~Sole(k)'
  <2>1. CASE refused' = refused
    BY <1>s, <2>1 DEF KeyInv, KeysTyped, KeysApart
  <2>2. CASE refused' # refused
    <3>1. PICK i \in issue : i.key = <<m, n>> /\ refused' = refused \cup {m}
      BY <1>q, <2>2 DEF Insert
    <3>2. <<i.key, i.id>> \in used
      BY DEF KeyInv, KeysApart
    <3>3. ~Sole(m)
      BY <1>t, <1>q, <3>1, <3>2, NumberNew
    <3> QED BY <1>n, <1>s, <3>1, <3>3 DEF KeyInv, KeysTyped, KeysApart
  <2> QED BY <2>1, <2>2
<1>1. CASE UNCHANGED <<issue, used>>
  BY <1>s, <1>t, <1>d, <1>k, <1>r, <1>1 DEF KeyInv, KeysTyped, KeysApart
<1>2. CASE ~UNCHANGED <<issue, used>>
  <2>1. PICK added, u :
          /\ added.id = lastIssue' /\ added.key = <<m, n>> /\ issue' = issue \cup {added}
          /\ u = <<<<m, n>>, lastIssue'>> /\ used' = used \cup {u}
          /\ ask' = [ask EXCEPT ![a] = IF q.left = 1 THEN NoAsk ELSE Shifted(q)]
    BY <1>q, <1>2 DEF Insert, Over, Then, Shifted
  <2>2. u \in (Names \X (Nat \ {0})) \X (Nat \ {0}) /\ u[1][1] = m /\ u[1][2] = n /\ u[2] = lastIssue'
    BY <1>n, <1>t, <2>1
  <2>3. KeysTyped'
    BY <1>r, <1>t, <2>1, <2>2 DEF KeyInv, KeysTyped
  <2>4. ASSUME Sole(m)
        PROVE  /\ \A p \in served[m] : p = q.project /\ p # NoOne
               /\ \A v \in used : v[1] # u[1]
    BY <1>t, <1>q, <1>n, <2>1, <2>4, NumberNew DEF Sole
  <2>5. ASSUME Sole(m), NEW b \in Askers, Holds(b)', ask'[b].name = m
        PROVE  n \notin ask'[b].n..LastNumber(ask'[b])
    <3>1. CASE b = a
      <4>1. ask'[a].pc \in {"epic", "insert"} /\ ask'[a] = IF q.left = 1 THEN NoAsk ELSE Shifted(q)
        BY <2>1, <2>5, <3>1, <1>t DEF Holds, TreeTyped
      <4>2. q.left # 1 /\ ask'[a] = Shifted(q)
        BY <4>1, TreeConstants
      <4>3. ask'[a].n = n + 1
        BY <4>2, <1>t, <1>q, AskShifted
      <4> QED BY <3>1, <4>3, <1>n
    <3>2. CASE b # a
      <4>1. Holds(b) /\ ask'[b] = ask[b] /\ ask[b] \in AskSet
        BY <1>h, <1>t, <2>5, <3>2 DEF Holds, TreeTyped
      <4>2. ask[b].project = q.project /\ q.project # NoOne
        BY <2>4, <2>5, <4>1, <1>n DEF KeyInv, DrawnApart
      <4>3. LastNumber(ask[b]) < n \/ LastNumber(q) < ask[b].n
        BY <1>t, <1>q, <3>2, <4>1, <4>2 DEF KeyInv, DrawnApart
      <4>4. ask[b].n \in Nat /\ LastNumber(ask[b]) \in Int
        BY <4>1 DEF AskSet, LastNumber
      <4> QED BY <4>1, <4>3, <4>4, <1>n
    <3> QED BY <3>1, <3>2
  <2>6. KeyKnown(u)'
    <3>1. u[2] <= lastIssue' /\ served'[u[1][1]] # {}
      BY <2>2, <1>t, <1>n
    <3>2. ASSUME Sole(m), NEW p \in served[m] PROVE n <= project'[p].counter
      <4>1. p = q.project /\ p \in Projects /\ LastNumber(q) <= project[p].counter
        BY <2>4, <3>2, <1>n
      <4>2. project[p].counter \in Nat
        BY <4>1, <1>t DEF TreeTyped
      <4> QED BY <4>1, <4>2, <1>n, <1>t
    <3> QED BY <3>1, <3>2, <2>2, <2>5, <1>s, <1>t DEF KeyKnown
  <2>7. KeysApart'
    <3>1. ASSUME NEW v \in used', NEW w \in used', v[1] = w[1], v[2] # w[2] PROVE ~Sole(v[1][1])'
      <4>1. CASE v \in used /\ w \in used
        BY <1>s, <3>1, <4>1 DEF KeyInv, KeysApart
      <4>2. CASE v = u \/ w = u
        BY <1>s, <2>1, <2>2, <2>4, <3>1, <4>2
      <4> QED BY <2>1, <4>1, <4>2
    <3>2. \A i \in issue' : <<i.key, i.id>> \in used'
      BY <2>1 DEF KeyInv, KeysApart
    <3> QED BY <1>k, <1>r, <2>1, <2>6, <3>1, <3>2 DEF KeysApart
  <2> QED BY <1>d, <2>3, <2>7 DEF KeyInv
<1> QED BY <1>1, <1>2

LEMMA KeysStep == ASSUME TreeInv, TreeInv', KeyInv, [TreeNext]_treeVars PROVE KeyInv'
<1>1. CASE TreeNext
  BY <1>1, AsksKeepKeys, EditsKeepKeys, ChecksKeepKeys, ProjectsKeepKeys, DrawKeepsKeys, InsertKeepsKeys
     DEF TreeNext
<1>2. CASE UNCHANGED treeVars
  BY <1>2 DEF treeVars, KeyInv, KeysTyped, DrawnApart, KeysApart, KeyKnown, Sole, Holds
<1> QED BY <1>1, <1>2
LEMMA KeysFollow == ASSUME KeyInv PROVE KeysHold
<1>1. \A u \in used : u[1][1] \in Names
  BY DEF KeyInv, KeysTyped
<1> QED BY <1>1, SharedNames DEF KeyInv, KeysTyped, KeysApart, KeysHold

(***************************************************************************)
(* Epics.                                                                  *)
(***************************************************************************)
\* What a request has been judged on still holds: the epic it will insert, the
\* row it will patch, the rows it is about to change.
Fitted(q) ==
  /\ q.pc \in BeingMade /\ (q.pc = "insert" \/ q.id # NoOne) /\ q.epic # NoOne /\ {q.id, q.epic} \cap retyped = {} =>
       EpicFits(q.epic, q.type)
  /\ q.pc \in {"patch", "retype"} /\ q.epic # NoOne =>
       /\ q.pc = "patch" /\ q.epic # q.id
       /\ \A i \in issue : i.id = q.id => EpicFits(q.epic, IF q.type = "same" THEN i.type ELSE q.type)
  /\ q.pc = "bulk" /\ q.type # "delete" => \A i \in issue : i.id \in q.todo => MayBecome(i, q.type)
EpicsNow == \A i \in issue : i.epic # NoOne /\ {i.id, i.epic} \cap retyped = {} => EpicFits(i.epic, i.type)
EpicInv ==
  /\ retyped \subseteq 1..lastIssue
  /\ orderly => /\ \A a, b \in Askers : Resting(a) \/ Resting(b) \/ a = b
                /\ \A a \in Askers : Fitted(ask[a])
                /\ EpicsNow

LEMMA EpicsStart == ASSUME TreeInit PROVE EpicInv
BY TreeConstants DEF TreeInit, EpicInv, EpicsNow, Fitted, Resting, BeingMade, NoAsk

\* One request moves, and while requests come one at a time the others rest.
LEMMA EpicsMove ==
  ASSUME NEW a \in Askers, NEW q, EpicInv, retyped' \subseteq 1..lastIssue',
         ask'[a] = q, \A b \in Askers \ {a} : ask'[b] = ask[b],
         orderly' => \A b \in Askers \ {a} : Resting(b),
         orderly' => Fitted(q)' /\ EpicsNow'
  PROVE  EpicInv'
<1>1. ASSUME orderly', NEW b \in Askers \ {a} PROVE Resting(b)' /\ Fitted(ask[b])'
  BY <1>1 DEF Resting, Fitted, BeingMade
<1>2. ASSUME orderly' PROVE Fitted(ask[a])'
  BY <1>2 DEF Fitted
<1> QED BY <1>1, <1>2 DEF EpicInv

LEMMA TakeAlone ==
  ASSUME TreeTyped, NEW a \in Askers, NEW q, Take(a, q)
  PROVE  /\ ask'[a] = q /\ \A b \in Askers \ {a} : ask'[b] = ask[b]
         /\ orderly' => orderly /\ \A b \in Askers : Resting(b)
<1>1. ask' = [ask EXCEPT ![a] = q]
  BY DEF Take
<1>2. orderly' => orderly /\ \A b \in Askers : Resting(b)
  BY Zenon DEF Take, TreeTyped
<1> QED BY <1>1, <1>2 DEF TreeTyped

LEMMA ThenAlone ==
  ASSUME TreeTyped, EpicInv, NEW a \in Askers, NEW q, ~Resting(a), Then(a, q)
  PROVE  /\ (orderly' <=> orderly) /\ ask'[a] = q /\ \A b \in Askers \ {a} : ask'[b] = ask[b]
         /\ orderly => Fitted(ask[a]) /\ EpicsNow /\ \A b \in Askers \ {a} : Resting(b)
BY DEF Then, TreeTyped, EpicInv

\* A request begins.
LEMMA EpicsBegun ==
  ASSUME TreeInv, EpicInv, NEW a \in Askers, NEW q, Take(a, q), UNCHANGED <<issue, lastIssue, retyped>>,
         orderly /\ EpicsNow => Fitted(q)
  PROVE  EpicInv'
<1>1. /\ ask'[a] = q /\ \A b \in Askers \ {a} : ask'[b] = ask[b]
      /\ orderly' => orderly /\ \A b \in Askers : Resting(b)
  BY TakeAlone DEF TreeInv
<1>2. orderly' => Fitted(q)' /\ EpicsNow'
  BY <1>1 DEF EpicInv, EpicsNow, Fitted, EpicFits, MayBecome
<1>3. retyped' \subseteq 1..lastIssue'
  BY DEF EpicInv
<1> QED BY <1>1, <1>2, <1>3, EpicsMove

LEMMA AsksKeepEpics ==
  ASSUME TreeInv, EpicInv, NEW a \in Askers, AskIssue(a) \/ AskSubtask(a) \/ AskImport(a)
  PROVE  EpicInv'
<1>1. PICK q : /\ Take(a, q) /\ q.pc = "number" /\ (q.id = NoOne \/ q.epic = NoOne)
               /\ UNCHANGED <<issue, lastIssue, retyped>>
  <2>1. CASE AskIssue(a) BY <2>1 DEF AskIssue, Drawn, NoAsk
  <2>2. CASE AskSubtask(a) BY <2>2 DEF AskSubtask, Drawn, NoAsk
  <2>3. CASE AskImport(a) BY <2>3 DEF AskImport, Drawn, NoAsk
  <2> QED BY <2>1, <2>2, <2>3
<1>2. Fitted(q)
  BY <1>1 DEF Fitted
<1> QED BY <1>1, <1>2, EpicsBegun

LEMMA CloneKeepsEpics ==
  ASSUME TreeInv, EpicInv, NEW a \in Askers, AskClone(a) PROVE EpicInv'
<1>1. PICK i, q : /\ i \in issue /\ Take(a, q) /\ q.pc = "number" /\ q.id = i.id /\ q.epic = i.epic /\ q.type = i.type
                  /\ UNCHANGED <<issue, lastIssue, retyped>>
  BY DEF AskClone, Drawn, NoAsk
<1>2. EpicsNow => Fitted(q)
  BY <1>1 DEF Fitted, EpicsNow
<1> QED BY <1>1, <1>2, EpicsBegun

LEMMA PatchKeepsEpics ==
  ASSUME TreeInv, EpicInv, NEW a \in Askers, PatchIssue(a) PROVE EpicInv'
<1>1. PICK i \in issue, t \in Types \cup {"same"}, e \in Ids \cup {NoOne}, named \in BOOLEAN :
        /\ named \/ e = NoOne
        /\ e # NoOne => e # i.id /\ EpicFits(e, IF t = "same" THEN i.type ELSE t)
        /\ Take(a, [NoAsk EXCEPT !.pc = IF named THEN "patch" ELSE "retype", !.id = i.id, !.type = t, !.epic = e])
        /\ UNCHANGED <<issue, lastIssue, retyped>>
  BY DEF PatchIssue, Drawn
<1>2. PICK q : q = [NoAsk EXCEPT !.pc = IF named THEN "patch" ELSE "retype", !.id = i.id, !.type = t, !.epic = e]
  OBVIOUS
<1>3. q.pc = (IF named THEN "patch" ELSE "retype") /\ q.id = i.id /\ q.type = t /\ q.epic = e
  BY <1>2 DEF NoAsk
<1>4. Take(a, q)
  BY <1>1, <1>2
<1>5. \A j \in issue : j.id = i.id => j = i
  BY DEF TreeInv, RowsSound
<1>6. Fitted(q)
  BY <1>1, <1>3, <1>5 DEF Fitted, BeingMade
<1> QED BY <1>1, <1>4, <1>6, EpicsBegun

LEMMA BulkKeepsEpics ==
  ASSUME TreeInv, EpicInv, NEW a \in Askers, Bulk(a) PROVE EpicInv'
<1>1. PICK T \in SUBSET issue, t \in {"delete"} \cup Types :
        /\ t # "delete" => \A i \in T : MayBecome(i, t)
        /\ Take(a, [NoAsk EXCEPT !.pc = "bulk", !.type = t, !.todo = {i.id : i \in T}])
        /\ UNCHANGED <<issue, lastIssue, retyped>>
  BY DEF Bulk, Drawn
<1>2. PICK q : q = [NoAsk EXCEPT !.pc = "bulk", !.type = t, !.todo = {i.id : i \in T}]
  OBVIOUS
<1>3. q.pc = "bulk" /\ q.type = t /\ q.todo = {i.id : i \in T}
  BY <1>2 DEF NoAsk
<1>4. Take(a, q)
  BY <1>1, <1>2
<1>5. \A i \in issue : i.id \in q.todo => i \in T
  BY <1>3 DEF TreeInv, RowsSound
<1>6. Fitted(q)
  BY <1>1, <1>3, <1>5 DEF Fitted, BeingMade
<1> QED BY <1>1, <1>4, <1>6, EpicsBegun

LEMMA DrawKeepsEpics ==
  ASSUME TreeInv, EpicInv, NEW a \in Askers, DrawNumber(a) \/ CheckEpic(a) \/ GiveUp(a)
  PROVE  EpicInv'
<1>t. /\ TreeTyped /\ ask[a] \in AskSet /\ ask[a].pc \in BeingMade /\ UNCHANGED <<issue, lastIssue, retyped>>
  BY DEF TreeInv, TreeTyped, DrawNumber, CheckEpic, GiveUp, Drawn, BeingMade
<1>1. PICK q : /\ Then(a, q)
               /\ \/ q = NoAsk
                  \/ /\ q.id = ask[a].id /\ q.epic = ask[a].epic /\ q.type = ask[a].type /\ q.pc \in {"epic", "insert"}
                     /\ q.pc = "insert" => ask[a].id # NoOne \/ ask[a].epic = NoOne \/ EpicFits(ask[a].epic, ask[a].type)
  <2>1. CASE DrawNumber(a)
    <3>1. CASE Over(a)
      BY <3>1 DEF Over
    <3>2. CASE ~Over(a)
      <4>1. PICK p, n : /\ Then(a, [ask[a] EXCEPT !.pc = p, !.n = n])
                        /\ p = IF ask[a].id = NoOne /\ ask[a].epic # NoOne THEN "epic" ELSE "insert"
        BY <2>1, <3>2 DEF DrawNumber
      <4>2. PICK q : q = [ask[a] EXCEPT !.pc = p, !.n = n]
        OBVIOUS
      <4>3. q.pc = p /\ q.id = ask[a].id /\ q.epic = ask[a].epic /\ q.type = ask[a].type
        BY <4>2, <1>t DEF AskSet
      <4>4. Then(a, q) /\ q.pc \in {"epic", "insert"} /\ (q.pc = "insert" => ask[a].id # NoOne \/ ask[a].epic = NoOne)
        BY <4>1, <4>2, <4>3
      <4> QED BY <4>3, <4>4
    <3> QED BY <3>1, <3>2
  <2>2. CASE CheckEpic(a)
    <3>1. CASE Over(a)
      BY <3>1 DEF Over
    <3>2. CASE ~Over(a)
      <4>1. EpicFits(ask[a].epic, ask[a].type) /\ Then(a, [ask[a] EXCEPT !.pc = "insert"])
        BY <2>2, <3>2 DEF CheckEpic
      <4>2. PICK q : q = [ask[a] EXCEPT !.pc = "insert"]
        OBVIOUS
      <4>3. q.pc = "insert" /\ q.id = ask[a].id /\ q.epic = ask[a].epic /\ q.type = ask[a].type
        BY <4>2, <1>t DEF AskSet
      <4> QED BY <4>1, <4>2, <4>3
    <3> QED BY <3>1, <3>2
  <2>3. CASE GiveUp(a)
    BY <2>3 DEF GiveUp, Over
  <2> QED BY <2>1, <2>2, <2>3
<1>2. ~Resting(a)
  BY <1>t DEF Resting, BeingMade
<1>3. /\ (orderly' <=> orderly) /\ ask'[a] = q /\ \A b \in Askers \ {a} : ask'[b] = ask[b]
      /\ orderly => Fitted(ask[a]) /\ EpicsNow /\ \A b \in Askers \ {a} : Resting(b)
  BY <1>t, <1>1, <1>2, ThenAlone
<1>4. orderly' => Fitted(q)' /\ EpicsNow'
  <2>1. ASSUME orderly PROVE Fitted(q)
    <3>1. CASE q = NoAsk
      BY <3>1, TreeConstants DEF Fitted, BeingMade
    <3>2. CASE q # NoAsk
      <4>1. Fitted(ask[a])
        BY <1>3, <2>1
      <4> QED BY <1>t, <1>1, <3>2, <4>1 DEF Fitted, BeingMade
    <3> QED BY <3>1, <3>2
  <2> QED BY <1>t, <1>3, <2>1 DEF EpicsNow, Fitted, EpicFits, MayBecome
<1>5. retyped' \subseteq 1..lastIssue'
  BY <1>t DEF EpicInv
<1> QED BY <1>3, <1>4, <1>5, EpicsMove

\* An epic that stays an Epic.
LEMMA FitsStays ==
  ASSUME NEW k, NEW t, EpicFits(k, t), \A i \in issue : i.id = k => \E j \in issue' : j.id = k /\ j.type = i.type
  PROVE  EpicFits(k, t)'
BY DEF EpicFits

LEMMA InsertKeepsEpics ==
  ASSUME TreeInv, EpicInv, NEW a \in Askers, Insert(a) PROVE EpicInv'
<1>t. /\ TreeTyped /\ ask[a] \in AskSet /\ ask[a].pc = "insert" /\ lastIssue \in Nat /\ lastIssue' = lastIssue + 1
      /\ ~Resting(a)
  BY DEF TreeInv, TreeTyped, Insert, Resting
<1>q. PICK q : q = ask[a]
  OBVIOUS
<1>1. retyped \subseteq retyped' /\ retyped' \subseteq 1..lastIssue'
  BY <1>t DEF EpicInv, Insert
<1>2. PICK new : /\ Then(a, new) /\ new.pc # "patch" /\ new.pc # "retype" /\ new.pc # "bulk"
                 /\ new.pc \in BeingMade => new.id = q.id /\ new.epic = q.epic /\ new.type = q.type
  <2>1. CASE Over(a)
    BY <2>1, TreeConstants DEF Over, BeingMade
  <2>2. CASE ~Over(a)
    <3>1. q.left # 1 /\ Then(a, Shifted(q))
      BY <1>q, <2>2 DEF Insert, Shifted
    <3>2. PICK r : r = Shifted(q)
      OBVIOUS
    <3>3. r.pc = q.pc /\ r.id = q.id /\ r.epic = q.epic /\ r.type = q.type
      BY <1>t, <1>q, <3>1, <3>2, AskShifted
    <3> QED BY <1>t, <1>q, <3>1, <3>2, <3>3
  <2> QED BY <2>1, <2>2
<1>3. /\ (orderly' <=> orderly) /\ ask'[a] = new /\ \A b \in Askers \ {a} : ask'[b] = ask[b]
      /\ orderly => Fitted(q) /\ EpicsNow /\ \A b \in Askers \ {a} : Resting(b)
  BY <1>t, <1>q, <1>2, ThenAlone
<1>4. \A i \in issue : i \in issue'
  BY DEF Insert
<1>5. \A k, t : EpicFits(k, t) => EpicFits(k, t)'
  BY <1>4 DEF EpicFits
<1>6. ASSUME orderly PROVE Fitted(new)'
  <2>1. Fitted(q)
    BY <1>3, <1>6
  <2> QED BY <1>t, <1>q, <1>1, <1>2, <1>5, <2>1 DEF Fitted, BeingMade
<1>7. ASSUME orderly PROVE EpicsNow'
  <2>1. Fitted(q) /\ EpicsNow
    BY <1>3, <1>7
  <2>2. ASSUME NEW i \in issue, i.epic # NoOne, {i.id, i.epic} \cap retyped' = {} PROVE EpicFits(i.epic, i.type)'
    BY <1>1, <1>5, <2>1, <2>2 DEF EpicsNow
  <2>3. CASE issue' = issue
    BY <2>2, <2>3 DEF EpicsNow
  <2>4. CASE issue' # issue
    <3>1. PICK added : /\ issue' = issue \cup {added} /\ added.id = lastIssue' /\ added.type = q.type /\ added.epic = q.epic
                     /\ retyped' = IF q.id \in retyped THEN retyped \cup {lastIssue'} ELSE retyped
      BY <1>q, <2>4 DEF Insert
    <3>2. ASSUME added.epic # NoOne, {added.id, added.epic} \cap retyped' = {} PROVE EpicFits(added.epic, added.type)'
      <4>1. {q.id, q.epic} \cap retyped = {} /\ q.epic # NoOne
        BY <1>1, <3>1, <3>2
      <4>2. EpicFits(q.epic, q.type)
        BY <1>t, <1>q, <2>1, <4>1 DEF Fitted, BeingMade
      <4> QED BY <1>5, <3>1, <4>2
    <3> QED BY <2>2, <3>1, <3>2 DEF EpicsNow
  <2> QED BY <2>3, <2>4
<1> QED BY <1>1, <1>3, <1>6, <1>7, EpicsMove

LEMMA WriteKeepsEpics ==
  ASSUME TreeInv, EpicInv, NEW a \in Askers, WritePatch(a) PROVE EpicInv'
<1>t. /\ TreeTyped /\ RowsSound /\ issue \subseteq IssueSet /\ UNCHANGED lastIssue /\ Then(a, NoAsk)
      /\ ask[a] \in AskSet /\ ask[a].pc \in {"patch", "retype"} /\ ~Resting(a)
  BY DEF TreeInv, TreeTyped, WritePatch, Over, Resting
<1>q. PICK q : q = ask[a]
  OBVIOUS
<1>1. /\ (orderly' <=> orderly) /\ ask'[a] = NoAsk /\ \A b \in Askers \ {a} : ask'[b] = ask[b]
      /\ orderly => Fitted(q) /\ EpicsNow /\ \A b \in Askers \ {a} : Resting(b)
  BY <1>t, <1>q, ThenAlone
<1>2. Fitted(NoAsk)'
  BY TreeConstants DEF Fitted, BeingMade
<1>3. CASE UNCHANGED <<issue, retyped>>
  <2>1. retyped' \subseteq 1..lastIssue'
    BY <1>t, <1>3 DEF EpicInv
  <2>2. orderly' => EpicsNow'
    BY <1>1, <1>3 DEF EpicsNow, EpicFits
  <2> QED BY <1>1, <1>2, <2>1, <2>2, EpicsMove
<1>4. CASE ~UNCHANGED <<issue, retyped>>
  <2>1. PICK i, t, f, j :
          /\ q.id \in Ids /\ i = Row(q.id)
          /\ t = (IF q.type = "same" THEN i.type ELSE q.type) /\ f = (IF q.pc = "patch" THEN q.epic ELSE i.epic)
          /\ j = [i EXCEPT !.type = t, !.epic = f] /\ issue' = (issue \ {i}) \cup {j}
          /\ retyped' = IF Strays(i, t, q.pc = "patch") THEN retyped \cup {i.id} ELSE retyped
    <3>1. PICK i, t : /\ q.id \in Ids /\ i = Row(q.id) /\ t = (IF q.type = "same" THEN i.type ELSE q.type)
                      /\ issue' = (issue \ {i}) \cup {[i EXCEPT !.type = t, !.epic = IF q.pc = "patch" THEN q.epic ELSE @]}
                      /\ retyped' = IF Strays(i, t, q.pc = "patch") THEN retyped \cup {i.id} ELSE retyped
      BY <1>4, <1>q DEF WritePatch
    <3>2. i \in IssueSet
      BY <1>t, <3>1, RowFound
    <3>3. PICK f, j : f = (IF q.pc = "patch" THEN q.epic ELSE i.epic) /\ j = [i EXCEPT !.type = t, !.epic = f]
      OBVIOUS
    <3>4. issue' = (issue \ {i}) \cup {j}
      BY <3>1, <3>2, <3>3 DEF IssueSet
    <3> WITNESS i, t, f, j
    <3> QED BY <3>1, <3>3, <3>4
  <2>2. i \in issue /\ i \in IssueSet /\ i.id = q.id
    BY <1>t, <2>1, RowFound
  <2>3. j.id = i.id /\ j.type = t /\ j.epic = f
    BY <2>1, <2>2 DEF IssueSet
  <2>4. retyped \subseteq retyped' /\ retyped' \subseteq 1..lastIssue'
    <3>1. i.id \in 1..lastIssue
      BY <1>t, <2>2 DEF RowsSound, Refers, IssueSet, TreeTyped
    <3> QED BY <1>t, <2>1, <3>1 DEF EpicInv
  <2>5. \A r \in issue : r.id = i.id => r = i
    BY <1>t, <2>2 DEF RowsSound
  <2>6. ASSUME orderly PROVE EpicsNow'
    <3>0. Fitted(q) /\ EpicsNow
      BY <1>1, <2>6
    <3>1. ASSUME NEW k, NEW s, EpicFits(k, s), k = i.id => i.type # "Epic" \/ t = "Epic"
          PROVE  EpicFits(k, s)'
      BY <2>1, <2>2, <2>3, <2>5, <3>1, ZenonT(40) DEF EpicFits
    <3>2. ASSUME NEW r \in issue, r # i, r.epic # NoOne, {r.id, r.epic} \cap retyped' = {}
          PROVE  EpicFits(r.epic, r.type)'
      <4>1. EpicFits(r.epic, r.type)
        BY <2>4, <3>0, <3>2 DEF EpicsNow
      <4>2. r.epic = i.id => i.type # "Epic" \/ t = "Epic"
        BY <2>1, <3>2 DEF Strays
      <4> QED BY <3>1, <4>1, <4>2
    <3>3. ASSUME j.epic # NoOne, {j.id, j.epic} \cap retyped' = {}
          PROVE  EpicFits(j.epic, j.type)'
      <4>1. i.id \notin retyped' /\ ~Strays(i, t, q.pc = "patch")
        BY <2>1, <2>3, <3>3
      <4>2. CASE q.pc = "patch"
        <5>1. EpicFits(f, t) /\ f # i.id
          BY <2>1, <2>2, <2>3, <3>0, <3>3, <4>2 DEF Fitted
        <5> QED BY <2>3, <3>1, <5>1
      <4>3. CASE q.pc # "patch"
        <5>1. t = i.type /\ f = i.epic
          BY <2>1, <4>1, <4>3 DEF Strays
        <5>2. EpicFits(f, t)
          BY <2>2, <2>3, <2>4, <3>0, <3>3, <5>1 DEF EpicsNow
        <5> QED BY <2>3, <3>1, <5>1, <5>2
      <4> QED BY <4>2, <4>3
    <3> QED BY <2>1, <3>2, <3>3 DEF EpicsNow
  <2> QED BY <1>1, <1>2, <2>4, <2>6, EpicsMove
<1> QED BY <1>3, <1>4

\* What is left of the issues when some are deleted, or lose their epic or project.
Thinned(gone) ==
  /\ \A j \in issue' : \E i \in issue :
       /\ i.id \notin gone /\ j.id = i.id /\ j.type = i.type
       /\ j.epic # NoOne => j.epic = i.epic /\ i.epic \notin gone
  /\ \A i \in issue : i.id \notin gone => \E j \in issue' : j.id = i.id /\ j.type = i.type

LEMMA WithoutThins ==
  ASSUME issue \subseteq IssueSet, NEW ids, issue' = Without(ids) PROVE \E gone : Thinned(gone)
<1>1. PICK gone : issue' = {IF i.epic \in gone THEN [i EXCEPT !.epic = NoOne] ELSE i :
                            i \in {j \in issue : j.id \notin gone}}
  BY DEF Without
<1>2. ASSUME NEW i \in issue
      PROVE  [i EXCEPT !.epic = NoOne].id = i.id /\ [i EXCEPT !.epic = NoOne].type = i.type
             /\ [i EXCEPT !.epic = NoOne].epic = NoOne
  BY DEF IssueSet
<1>3. Thinned(gone)
  BY <1>1, <1>2 DEF Thinned
<1> QED BY <1>3

LEMMA OrphanThins ==
  ASSUME issue \subseteq IssueSet, NEW p, issue' = Orphan(p) PROVE Thinned({})
<1>1. ASSUME NEW i \in issue
      PROVE  [i EXCEPT !.project = NoOne].id = i.id /\ [i EXCEPT !.project = NoOne].type = i.type
             /\ [i EXCEPT !.project = NoOne].epic = i.epic
  BY DEF IssueSet
<1> QED BY <1>1 DEF Thinned, Orphan

LEMMA ThinnedKeeps ==
  ASSUME NEW gone, Thinned(gone), UNCHANGED retyped, EpicsNow PROVE EpicsNow'
<1>1. ASSUME NEW j \in issue', j.epic # NoOne, {j.id, j.epic} \cap retyped' = {} PROVE EpicFits(j.epic, j.type)'
  <2>1. PICK i \in issue : /\ j.id = i.id /\ j.type = i.type /\ j.epic = i.epic /\ i.epic \notin gone
    BY <1>1 DEF Thinned
  <2>2. EpicFits(i.epic, i.type)
    BY <1>1, <2>1 DEF EpicsNow
  <2> QED BY <2>1, <2>2, FitsStays DEF Thinned
<1> QED BY <1>1 DEF EpicsNow

LEMMA BulkNextKeepsEpics ==
  ASSUME TreeInv, EpicInv, NEW a \in Askers, BulkNext(a) PROVE EpicInv'
<1>t. /\ TreeTyped /\ RowsSound /\ issue \subseteq IssueSet /\ UNCHANGED lastIssue
      /\ ask[a] \in AskSet /\ ask[a].pc = "bulk" /\ ~Resting(a)
  BY DEF TreeInv, TreeTyped, BulkNext, Resting
<1>q. PICK q : q = ask[a]
  OBVIOUS
<1>1. PICK id, new :
        /\ id \in q.todo /\ Then(a, new)
        /\ new = NoAsk \/ (new.pc = "bulk" /\ new.type = q.type /\ new.todo = q.todo \ {id})
        /\ IF q.type = "delete" THEN issue' = Without({id}) /\ UNCHANGED retyped
           ELSE /\ issue' = {IF i.id = id THEN [i EXCEPT !.type = q.type] ELSE i : i \in issue}
                /\ retyped' = retyped \cup {i.id : i \in {j \in issue : j.id = id /\ j.type = "Epic"}}
  <2>0. PICK id \in ask[a].todo :
        /\ IF ask[a].todo = {id} THEN Over(a) ELSE Then(a, [ask[a] EXCEPT !.todo = @ \ {id}])
        /\ IF ask[a].type = "delete" THEN issue' = Without({id}) /\ UNCHANGED retyped
           ELSE /\ issue' = {IF i.id = id THEN [i EXCEPT !.type = ask[a].type] ELSE i : i \in issue}
                /\ retyped' = retyped \cup {i.id : i \in {j \in issue : j.id = id /\ j.type = "Epic"}}
    BY DEF BulkNext
  <2>1. /\ id \in q.todo
        /\ IF q.todo = {id} THEN Over(a) ELSE Then(a, [q EXCEPT !.todo = @ \ {id}])
        /\ IF q.type = "delete" THEN issue' = Without({id}) /\ UNCHANGED retyped
           ELSE /\ issue' = {IF i.id = id THEN [i EXCEPT !.type = q.type] ELSE i : i \in issue}
                /\ retyped' = retyped \cup {i.id : i \in {j \in issue : j.id = id /\ j.type = "Epic"}}
    BY <1>q, <2>0
  <2>2. PICK new : new = IF q.todo = {id} THEN NoAsk ELSE [q EXCEPT !.todo = @ \ {id}]
    OBVIOUS
  <2>3. Then(a, new)
    BY <2>1, <2>2 DEF Over
  <2>4. new = NoAsk \/ (new.pc = "bulk" /\ new.type = q.type /\ new.todo = q.todo \ {id})
    BY <2>2, <1>t, <1>q DEF AskSet
  <2> WITNESS id, new
  <2> QED BY <2>1, <2>3, <2>4
<1>2. /\ (orderly' <=> orderly) /\ ask'[a] = new /\ \A b \in Askers \ {a} : ask'[b] = ask[b]
      /\ orderly => Fitted(q) /\ EpicsNow /\ \A b \in Askers \ {a} : Resting(b)
  BY <1>t, <1>q, <1>1, ThenAlone
<1>3. CASE q.type = "delete"
  <2>1. issue' = Without({id}) /\ UNCHANGED retyped
    BY <1>1, <1>3
  <2>2. EpicsNow => EpicsNow'
    BY <1>t, <2>1, WithoutThins, ThinnedKeeps
  <2>3. Fitted(new)'
    BY <1>1, <1>3, TreeConstants DEF Fitted, BeingMade
  <2>4. retyped' \subseteq 1..lastIssue'
    BY <1>t, <2>1 DEF EpicInv
  <2> QED BY <1>2, <2>2, <2>3, <2>4, EpicsMove
<1>4. CASE q.type # "delete"
  <2>e. PICK e, t : t = q.type /\ e = [i \in issue |-> IF i.id = id THEN [i EXCEPT !.type = t] ELSE i]
    OBVIOUS
  <2>1. issue' = {e[i] : i \in issue} /\ retyped' = retyped \cup {i.id : i \in {j \in issue : j.id = id /\ j.type = "Epic"}}
    BY <1>1, <1>4, <2>e
  <2>2. ASSUME NEW i \in issue
        PROVE  /\ e[i].id = i.id /\ e[i].epic = i.epic /\ e[i].type = (IF i.id = id THEN t ELSE i.type)
               /\ i.id # id => e[i] = i
    <3>1. i \in IssueSet
      BY <1>t
    <3>2. e[i] = IF i.id = id THEN [i EXCEPT !.type = t] ELSE i
      BY <2>e, <2>2
    <3> QED BY <3>1, <3>2 DEF IssueSet
  <2>3. retyped \subseteq retyped' /\ retyped' \subseteq 1..lastIssue'
    <3>1. \A i \in issue : i.id \in 1..lastIssue
      BY <1>t DEF RowsSound, Refers, IssueSet, TreeTyped
    <3> QED BY <1>t, <2>1, <3>1 DEF EpicInv
  <2>4. ASSUME orderly PROVE Fitted(new)' /\ EpicsNow'
    <3>0. Fitted(q) /\ EpicsNow
      BY <1>2, <2>4
    <3>1. \A i \in issue : i.id \in q.todo => MayBecome(i, t)
      BY <1>t, <1>q, <1>4, <2>e, <3>0 DEF Fitted
    <3>2. Fitted(new)'
      <4>1. ASSUME new # NoAsk, NEW j \in issue', j.id \in new.todo PROVE MayBecome(j, t)
        <5>1. PICK i \in issue : j = e[i]
          BY <2>1, <4>1
        <5>2. i.id \in q.todo /\ i.id # id
          BY <1>1, <2>2, <4>1, <5>1
        <5> QED BY <2>2, <3>1, <5>1, <5>2
      <4> QED BY <1>1, <2>e, <4>1, TreeConstants DEF Fitted, BeingMade, MayBecome
    <3>3. ASSUME NEW i \in issue, i.epic # NoOne, {i.id, i.epic} \cap retyped' = {}
          PROVE  EpicFits(i.epic, e[i].type)'
      <4>1. EpicFits(i.epic, i.type)
        BY <2>3, <3>0, <3>3 DEF EpicsNow
      <4>2. PICK k \in issue : k.id = i.epic /\ k.type = "Epic" /\ i.type = "Story"
        BY <4>1 DEF EpicFits
      <4>3. k.id # id
        BY <2>1, <3>3, <4>2
      <4>4. e[i].type = "Story"
        <5>1. CASE i.id = id
          <6>1. MayBecome(i, t)
            BY <1>1, <3>1, <5>1
          <6>2. t \in Types
            BY <1>t, <1>q, <1>4, <2>e DEF TreeInv, Kin, AskSet
          <6> QED BY <3>3, <4>2, <6>1, <6>2 DEF MayBecome, Types
        <5>2. CASE i.id # id
          BY <2>2, <4>2, <5>2
        <5> QED BY <5>1, <5>2
      <4>5. e[k] \in issue' /\ e[k].id = i.epic /\ e[k].type = "Epic"
        BY <2>1, <2>2, <4>2, <4>3
      <4> QED BY <4>4, <4>5 DEF EpicFits
    <3>4. ASSUME NEW j \in issue', j.epic # NoOne, {j.id, j.epic} \cap retyped' = {}
          PROVE  EpicFits(j.epic, j.type)'
      <4>1. PICK i \in issue : j = e[i]
        BY <2>1
      <4> QED BY <2>2, <3>3, <3>4, <4>1
    <3> QED BY <3>2, <3>4 DEF EpicsNow
  <2> QED BY <1>2, <2>3, <2>4, EpicsMove
<1> QED BY <1>3, <1>4

LEMMA OthersKeepEpics ==
  ASSUME TreeInv, EpicInv, NEW a \in Askers,
         DeleteOne(a) \/ NewProject(a) \/ RenameProject(a) \/ ClearProject(a) \/ DropProject(a)
  PROVE  EpicInv'
<1>t. TreeTyped /\ issue \subseteq IssueSet
  BY DEF TreeInv, TreeTyped
<1>1. PICK q : q.pc \in {"idle", "drop"} /\ (Take(a, q) \/ (Then(a, q) /\ ~Resting(a))) /\ UNCHANGED <<lastIssue, retyped>>
  <2>1. CASE DeleteOne(a) BY <2>1, TreeConstants DEF DeleteOne, Drawn
  <2>2. CASE NewProject(a) BY <2>2, TreeConstants DEF NewProject, Drawn
  <2>3. CASE RenameProject(a) BY <2>3, TreeConstants DEF RenameProject, Drawn
  <2>4. CASE ClearProject(a)
    <3>1. PICK p : Take(a, [NoAsk EXCEPT !.pc = "drop", !.project = p]) /\ UNCHANGED <<lastIssue, retyped>>
      BY <2>4 DEF ClearProject, Drawn
    <3>2. [NoAsk EXCEPT !.pc = "drop", !.project = p].pc = "drop"
      BY DEF NoAsk
    <3> QED BY <3>1, <3>2
  <2>5. CASE DropProject(a) BY <2>5, TreeConstants DEF DropProject, Over, Drawn, Resting
  <2> QED BY <2>1, <2>2, <2>3, <2>4, <2>5
<1>2. \E gone : Thinned(gone)
  <2>1. CASE DeleteOne(a) BY <1>t, <2>1, WithoutThins DEF DeleteOne
  <2>2. CASE UNCHANGED issue
    <3>1. Thinned({}) BY <2>2 DEF Thinned
    <3> QED BY <3>1
  <2>3. CASE \E p : issue' = Orphan(p) BY <1>t, <2>3, OrphanThins
  <2> QED BY <2>1, <2>2, <2>3 DEF NewProject, RenameProject, ClearProject, DropProject
<1>3. EpicsNow => EpicsNow'
  BY <1>1, <1>2, ThinnedKeeps
<1>4. Fitted(q)'
  BY <1>1 DEF Fitted, BeingMade
<1>5. /\ ask'[a] = q /\ \A b \in Askers \ {a} : ask'[b] = ask[b]
      /\ orderly' => orderly /\ \A b \in Askers \ {a} : Resting(b)
  BY <1>t, <1>1, TakeAlone, ThenAlone
<1>6. orderly => EpicsNow
  BY DEF EpicInv
<1>7. retyped' \subseteq 1..lastIssue'
  BY <1>1 DEF EpicInv
<1> QED BY <1>3, <1>4, <1>5, <1>6, <1>7, EpicsMove

LEMMA EpicsStep == ASSUME TreeInv, EpicInv, [TreeNext]_treeVars PROVE EpicInv'
<1>1. CASE TreeNext
  BY <1>1, AsksKeepEpics, CloneKeepsEpics, PatchKeepsEpics, BulkKeepsEpics, DrawKeepsEpics, InsertKeepsEpics,
     WriteKeepsEpics, BulkNextKeepsEpics, OthersKeepEpics DEF TreeNext
<1>2. CASE UNCHANGED treeVars
  BY <1>2 DEF treeVars, EpicInv, EpicsNow, Fitted, EpicFits, MayBecome, Resting
<1> QED BY <1>1, <1>2

LEMMA TypesFollow == ASSUME TreeInv PROVE TreeTypeOK
<1>1. ASSUME NEW i \in issue
      PROVE  /\ i.id \in 1..lastIssue /\ i.key \in Names \X (Nat \ {0}) /\ i.type \in Types
             /\ i.project = NoOne \/ Stands(i.project)
             /\ {i.parent, i.epic} \subseteq Ids \cup {NoOne}
  <2>1. i \in IssueSet /\ Refers(i) /\ lastIssue \in Nat
    BY DEF TreeInv, TreeTyped, RowsSound
  <2> QED BY <2>1 DEF IssueSet, Refers, Ids
<1> QED BY <1>1 DEF TreeInv, TreeTyped, TreeTypeOK

LEMMA FamiliesFollow == ASSUME TreeInv PROVE Families
<1>1. ASSUME NEW i \in issue, i.parent # NoOne
      PROVE  Row(i.parent).parent = NoOne /\ Row(i.parent).project \in {i.project, NoOne}
  <2>1. PICK p \in issue : p.id = i.parent /\ p.parent = NoOne /\ p.project \in {i.project, NoOne}
    BY <1>1 DEF TreeInv, RowsSound, Refers
  <2>2. Row(i.parent) \in issue /\ Row(i.parent).id = i.parent
    BY <2>1, RowFound DEF TreeInv, Ids
  <2>3. Row(i.parent) = p
    BY <2>1, <2>2 DEF TreeInv, RowsSound
  <2> QED BY <2>1, <2>3
<1> QED BY <1>1 DEF Families

\* At every step of any number of requests: the rows and requests are well formed,
\* no two requests hold a number of the same project, a number drawn is not yet
\* given out, and what a request was judged on holds when it writes.
THEOREM IssueInvariant == TreeSpec => [](TreeInv /\ KeyInv /\ EpicInv)
<1>1. TreeInit => TreeInv /\ KeyInv /\ EpicInv
  BY TreeStarts, KeysStart, EpicsStart
<1>2. TreeInv /\ KeyInv /\ EpicInv /\ [TreeNext]_treeVars => (TreeInv /\ KeyInv /\ EpicInv)'
  BY TreeStep, KeysStep, EpicsStep
<1> QED BY <1>1, <1>2, PTL DEF TreeSpec

\* What an issue refers to is there: its project, its parent and its epic.
THEOREM TreeTypes == TreeSpec => []TreeTypeOK
BY IssueInvariant, TypesFollow, PTL

\* Keys are given out once and INSERT finds none taken while a name stands for one
\* project; parents have no parent and share the project; epics are Epics.
THEOREM IssuesStaySound == TreeSpec => []IssuesSound
<1>1. TreeInv /\ KeyInv /\ EpicInv => IssuesSound
  BY KeysFollow, FamiliesFollow DEF IssuesSound, HierarchyHolds, Epics, EpicInv, EpicsNow
<1> QED BY <1>1, IssueInvariant, PTL

(***************************************************************************)
(* Wiki.  A request at work is about a page that exists, and carries what  *)
(* its next statement needs.                                               *)
(***************************************************************************)
Versions == [num : Nat \ {0}, text : FullTexts]
PageRows == [state : {"none", "live", "trash"}, status : {"draft", "published"},
             parent : Pages \cup {Root}, text : SentTexts,
             pending : SentTexts, author : Authors \cup {"none"}, kept : [Parts -> BOOLEAN]]
Edits == [pc : {"rest", "insert", "rewrite", "update", "number", "save", "publish", "trash", "revive"},
          page : Pages \cup {0}, sent : SentTexts, text : SentTexts, parent : Pages \cup {Root, Keep},
          status : {"keep", "draft", "published", "restore"}, next : Nat]
\* What a row of an existing page holds, and what a request carries.
Written(z) == z.state # "none" /\ z.text \in FullTexts /\ z.author \in Authors
Carries(q) ==
  /\ q.pc = "rest" => q = NoEdit
  /\ q.pc # "rest" => q.page \in Pages
  /\ q.pc \in {"insert", "rewrite", "update", "number", "publish"} => q.text \in FullTexts
  /\ q.pc = "update" => \A k \in Parts : q.sent[k] # NoText => q.text[k] = q.sent[k]
  /\ q.pc = "insert" => q.next \in Nat \ {0}
  /\ q.pc = "save" => q.status \in {"draft", "published"}
  /\ q.pc \in {"update", "number"} => q.status \in {"keep", "draft", "published"}
  /\ q.pc \in {"publish", "revive"} => q.parent \in Pages \cup {Root}
WikiShape ==
  /\ page \in [Pages -> PageRows] /\ versions \in [Pages -> Seq(Versions)]
  /\ edit \in [Editors -> Edits]
  /\ \A p \in Pages : page[p].state = "none" => page[p] = Unwritten /\ versions[p] = <<>>
  /\ \A p \in Pages : page[p].state # "none" => Written(page[p])
  /\ \A e \in Editors : Carries(edit[e])
  /\ \A e \in Editors : edit[e].pc # "rest" => page[edit[e].page].state # "none"
  /\ saves \in 0..MaxSaves \cup 0..MaxSavesAtOnce /\ inTurn \in BOOLEAN /\ whole \in BOOLEAN

\* What a request sends, filled from a text, is a text.
LEMMA TextsFilled ==
  /\ Blank \in SentTexts /\ FullTexts \subseteq SentTexts
  /\ \A x \in SentTexts : \A y \in FullTexts : Fill(x, y) \in FullTexts
  /\ \A x, y \in SentTexts : Fill(x, y) \in SentTexts
  /\ \A x \in SentTexts : \A y : \A k \in Parts : Fill(x, y)[k] = (IF x[k] = NoText THEN y[k] ELSE x[k])
  /\ \A y \in FullTexts : Fill(Blank, y) = y
BY DEF Blank, SentTexts, FullTexts, Fill

LEMMA RestTyped ==
  /\ NoEdit \in Edits /\ Carries(NoEdit)
  /\ NoEdit.pc = "rest" /\ NoEdit.page = 0 /\ NoEdit.sent = Blank /\ NoEdit.parent = Keep
  /\ NoEdit.status = "keep" /\ NoEdit.next = 0
BY TextsFilled DEF NoEdit, Edits, Carries, Keep

LEMMA UnwrittenTyped ==
  /\ Unwritten \in PageRows /\ Unwritten.state = "none" /\ Unwritten.status = "draft"
  /\ \A k \in Parts : Unwritten.kept[k] = FALSE
BY TextsFilled DEF Unwritten, PageRows, Root

LEMMA WikiStarts == ASSUME WikiInit PROVE WikiShape
<1>1. saves \in 0..MaxSaves
  BY WikiAssumption DEF WikiInit
<1> QED BY <1>1, RestTyped, UnwrittenTyped DEF WikiInit, WikiShape

\* A step that gives one request its next, and changes the pages as it may.
Moved(e, q) ==
  /\ edit' = [edit EXCEPT ![e] = q]
  /\ saves' \in 0..MaxSaves \cup 0..MaxSavesAtOnce
  /\ inTurn' \in BOOLEAN /\ whole' = whole
  /\ inTurn' => inTurn /\ (edit[e].pc = "rest" => \A f \in Editors : edit[f] = NoEdit)

LEMMA OpenMoves ==
  ASSUME WikiShape, NEW e \in Editors, NEW q, Open(e, q)
  PROVE  Moved(e, q) /\ edit[e].pc = "rest"
<1>1. /\ edit[e] = NoEdit /\ inTurn' = (inTurn /\ ~Busy)
      /\ saves < (IF inTurn' THEN MaxSaves ELSE MaxSavesAtOnce)
      /\ saves' = saves + 1 /\ edit' = [edit EXCEPT ![e] = q] /\ whole' = whole
  BY DEF Open
<1>2. saves \in Nat
  BY WikiAssumption DEF WikiShape
<1>3. saves' \in 0..MaxSaves \cup 0..MaxSavesAtOnce
  BY <1>1, <1>2, WikiAssumption
<1>4. inTurn' \in BOOLEAN
  BY <1>1
<1>5. inTurn' => inTurn /\ \A f \in Editors : edit[f] = NoEdit
  BY <1>1, Zenon DEF Busy
<1>6. edit[e].pc = "rest"
  BY <1>1, RestTyped
<1> QED BY <1>1, <1>3, <1>4, <1>5, <1>6 DEF Moved

LEMMA GoMoves ==
  ASSUME WikiShape, NEW e \in Editors, NEW q, Go(e, q), edit[e].pc # "rest"
  PROVE  Moved(e, q)
BY DEF Go, Moved, WikiShape

\* The types hold after a step that keeps them where it writes.
LEMMA ShapeKept ==
  ASSUME WikiShape, NEW e \in Editors, NEW q \in Edits, Moved(e, q), Carries(q),
         page' \in [Pages -> PageRows], versions' \in [Pages -> Seq(Versions)],
         \A p \in Pages : \/ page'[p] = page[p] /\ (page[p].state = "none" => versions'[p] = versions[p])
                          \/ Written(page'[p]),
         q.pc # "rest" => page'[q.page].state # "none"
  PROVE  WikiShape'
<1>1. edit' \in [Editors -> Edits] /\ edit'[e] = q /\ \A f \in Editors \ {e} : edit'[f] = edit[f]
  BY DEF WikiShape, Moved
<1>2. \A p \in Pages : page[p].state # "none" => page'[p].state # "none"
  BY DEF WikiShape, Written
<1>3. \A f \in Editors : Carries(edit'[f])
  BY <1>1 DEF WikiShape
<1>4. ASSUME NEW f \in Editors, edit'[f].pc # "rest" PROVE page'[edit'[f].page].state # "none"
  <2>1. CASE f = e
    BY <1>1, <1>4, <2>1
  <2>2. CASE f # e
    <3>1. edit'[f] = edit[f] /\ edit[f].page \in Pages /\ page[edit[f].page].state # "none"
      BY <1>1, <1>4, <2>2 DEF WikiShape, Carries
    <3> QED BY <3>1, <1>2
  <2> QED BY <2>1, <2>2
<1>5. ASSUME NEW p \in Pages, page'[p].state = "none" PROVE page'[p] = Unwritten /\ versions'[p] = <<>>
  BY <1>5 DEF WikiShape, Written
<1>6. ASSUME NEW p \in Pages, page'[p].state # "none" PROVE Written(page'[p])
  BY <1>6 DEF WikiShape
<1>7. whole' \in BOOLEAN
  BY DEF WikiShape, Moved
<1> QED BY <1>1, <1>3, <1>4, <1>5, <1>6, <1>7 DEF WikiShape, Moved

\* A page's row is written over, its history perhaps extended.
LEMMA RowWritten ==
  ASSUME WikiShape, NEW e \in Editors, NEW q \in Edits, Moved(e, q), Carries(q),
         NEW p \in Pages, NEW z \in PageRows, Written(z), page' = [page EXCEPT ![p] = z],
         versions' \in [Pages -> Seq(Versions)], \A o \in Pages \ {p} : versions'[o] = versions[o],
         q.pc # "rest" => q.page = p
  PROVE  WikiShape' /\ page'[p] = z /\ \A o \in Pages \ {p} : page'[o] = page[o]
<1>1. page' \in [Pages -> PageRows] /\ page'[p] = z /\ \A o \in Pages \ {p} : page'[o] = page[o]
  BY DEF WikiShape
<1>3. \A o \in Pages : \/ page'[o] = page[o] /\ (page[o].state = "none" => versions'[o] = versions[o])
                       \/ Written(page'[o])
  BY <1>1
<1>4. q.pc # "rest" => page'[q.page].state # "none"
  BY <1>1 DEF Written
<1> QED BY <1>1, <1>3, <1>4, ShapeKept

(***************************************************************************)
(* The history of a page.  Its numbers run from 1 on without a gap, and a  *)
(* request inserts one that is in that row or the next.                    *)
(***************************************************************************)
NumsOf(s) == {s[i].num : i \in DOMAIN s}
TopOf(s) == IF s = <<>> THEN 0
            ELSE CHOOSE n \in {v.num : v \in {s[i] : i \in DOMAIN s}} : \A i \in DOMAIN s : s[i].num <= n
Gapless == \A p \in Pages : TopOf(versions[p]) \in Nat /\ NumsOf(versions[p]) = 1..TopOf(versions[p])
NextFits == \A e \in Editors : edit[e].pc = "insert" => edit[e].next <= TopOf(versions[edit[e].page]) + 1
\* A version of this text.
Told(p, x) == \E i \in DOMAIN versions[p] : versions[p][i].text = x
RewritesTold == \A e \in Editors : edit[e].pc = "rewrite" => Told(edit[e].page, edit[e].text)

\* While requests come one at a time, what the one at work has read still holds.
Lone == \A e, f \in Editors : edit[e].pc # "rest" /\ edit[f].pc # "rest" => e = f
Exact ==
  /\ \A p \in Pages : \A i \in DOMAIN versions[p] : versions[p][i].num = i
  /\ \A e \in Editors : edit[e].pc = "insert" => edit[e].next = Len(versions[edit[e].page]) + 1
ReadHolds == \A e \in Editors :
  /\ edit[e].pc = "save" => edit[e].status = page[edit[e].page].status
  /\ edit[e].pc = "update" => edit[e].text = Fill(edit[e].sent, page[edit[e].page].text)
\* A text that is on the page, and on its way into the history.
OnTheWay(q) == q.pc = "number" \/ (q.pc = "insert" /\ q.status # "restore")
LastTold(p, x) == versions[p] # <<>> /\ versions[p][Len(versions[p])].text = x
\* A title, or a body, in the history.
ToldPart(p, k, x) == \E i \in DOMAIN versions[p] : versions[p][i].text[k] = x
LastPart(p, k, x) == versions[p] # <<>> /\ versions[p][Len(versions[p])].text[k] = x
Carried == \A e \in Editors :
  /\ OnTheWay(edit[e]) => edit[e].text = page[edit[e].page].text
  /\ edit[e].pc = "rewrite" => LastTold(edit[e].page, edit[e].text)
Shown == \A p \in Pages, k \in Parts :
  page[p].kept[k] /\ (\A e \in Editors : edit[e].page = p => ~OnTheWay(edit[e]) /\ edit[e].pc # "rewrite")
    => LastPart(p, k, page[p].text[k])

WikiHistory ==
  /\ Gapless /\ NextFits /\ RewritesTold /\ Recorded
  /\ inTurn => Lone /\ Exact /\ ReadHolds
  /\ inTurn => Carried
  /\ inTurn /\ whole => Shown

WikiInv == WikiShape /\ WikiHistory

\* The current version is the greatest number of the history.
LEMMA TopIs ==
  ASSUME NEW s \in Seq(Versions), NEW n \in Nat, NumsOf(s) = 1..n
  PROVE  TopOf(s) = n
<1>1. CASE s = <<>>
  <2>1. NumsOf(s) = {}
    BY <1>1 DEF NumsOf
  <2> QED BY <1>1, <2>1 DEF TopOf
<1>2. CASE s # <<>>
  <2>1. 1 \in DOMAIN s /\ s[1].num \in NumsOf(s)
    BY <1>2 DEF NumsOf
  <2>2. n >= 1 /\ n \in NumsOf(s)
    BY <2>1
  <2>3. {v.num : v \in {s[i] : i \in DOMAIN s}} = NumsOf(s)
    BY Zenon DEF NumsOf
  <2>4. \A i \in DOMAIN s : s[i].num \in 1..n
    BY DEF NumsOf
  <2>5. \A m \in NumsOf(s) : m \in Nat /\ ((\A i \in DOMAIN s : s[i].num <= m) <=> m = n)
    <3> SUFFICES ASSUME NEW m \in NumsOf(s) PROVE m \in Nat /\ ((\A i \in DOMAIN s : s[i].num <= m) <=> m = n)
      OBVIOUS
    <3>1. m \in 1..n
      OBVIOUS
    <3>2. PICK j \in DOMAIN s : s[j].num = n
      BY <2>2 DEF NumsOf
    <3>3. (\A i \in DOMAIN s : s[i].num <= m) => m = n
      BY <3>1, <3>2
    <3>4. m = n => \A i \in DOMAIN s : s[i].num <= m
      BY <2>4
    <3> QED BY <3>1, <3>3, <3>4
  <2>6. TopOf(s) = CHOOSE m \in NumsOf(s) : \A i \in DOMAIN s : s[i].num <= m
    BY <1>2, <2>3 DEF TopOf
  <2> QED BY <2>2, <2>5, <2>6
<1> QED BY <1>1, <1>2

\* A version whose number fits leaves no gap.
LEMMA TopGrows ==
  ASSUME NEW s \in Seq(Versions), TopOf(s) \in Nat, NumsOf(s) = 1..TopOf(s),
         NEW v \in Versions, v.num <= TopOf(s) + 1
  PROVE  LET t == Append(s, v) IN
         /\ TopOf(t) \in Nat /\ NumsOf(t) = 1..TopOf(t) /\ TopOf(t) >= TopOf(s) /\ TopOf(t) >= v.num
         /\ TopOf(t) <= TopOf(s) + 1
<1> DEFINE t == Append(s, v)
           m == IF v.num <= TopOf(s) THEN TopOf(s) ELSE v.num
<1>0. v.num \in Nat \ {0}
  BY DEF Versions
<1>1. t \in Seq(Versions) /\ DOMAIN t = 1..(Len(s) + 1) /\ DOMAIN s = 1..Len(s) /\ Len(s) \in Nat
  OBVIOUS
<1>2. t[Len(s) + 1] = v /\ \A i \in 1..Len(s) : t[i] = s[i]
  OBVIOUS
<1>3. NumsOf(t) = NumsOf(s) \cup {v.num}
  <2>1. \A x : x \in NumsOf(t) <=> \E i \in 1..(Len(s) + 1) : x = t[i].num
    BY <1>1 DEF NumsOf
  <2>2. \A x : x \in NumsOf(s) <=> \E i \in 1..Len(s) : x = s[i].num
    BY <1>1 DEF NumsOf
  <2>3. ASSUME NEW x \in NumsOf(t) PROVE x \in NumsOf(s) \cup {v.num}
    <3>1. PICK i \in 1..(Len(s) + 1) : x = t[i].num
      BY <2>1
    <3>2. CASE i = Len(s) + 1
      BY <3>1, <3>2, <1>2
    <3>3. CASE i \in 1..Len(s)
      BY <3>1, <3>3, <1>2, <2>2
    <3> QED BY <3>2, <3>3, <1>1
  <2>4. NumsOf(s) \subseteq NumsOf(t)
    <3> SUFFICES ASSUME NEW x \in NumsOf(s) PROVE x \in NumsOf(t)
      OBVIOUS
    <3>1. PICK i \in 1..Len(s) : x = s[i].num
      BY <2>2
    <3>2. i \in 1..(Len(s) + 1) /\ x = t[i].num
      BY <3>1, <1>1, <1>2
    <3> QED BY <3>2, <2>1
  <2>5. v.num \in NumsOf(t)
    <3>1. Len(s) + 1 \in 1..(Len(s) + 1) /\ v.num = t[Len(s) + 1].num
      BY <1>1, <1>2
    <3> QED BY <3>1, <2>1
  <2> QED BY <2>3, <2>4, <2>5
<1>4. m \in Nat /\ 1..TopOf(s) \cup {v.num} = 1..m /\ m >= TopOf(s) /\ m >= v.num /\ m <= TopOf(s) + 1
  BY <1>0
<1>5. TopOf(t) = m
  BY <1>1, <1>3, <1>4, TopIs
<1> QED BY <1>3, <1>4, <1>5

LEMMA ExactTop ==
  ASSUME NEW s \in Seq(Versions), \A i \in DOMAIN s : s[i].num = i
  PROVE  NumsOf(s) = 1..Len(s) /\ TopOf(s) = Len(s)
<1>1. NumsOf(s) = 1..Len(s) /\ Len(s) \in Nat
  BY DEF NumsOf
<1> QED BY <1>1, TopIs

LEMMA WikiHistoryStarts == ASSUME WikiInit, WikiShape PROVE WikiHistory
<1>1. \A p \in Pages : versions[p] = <<>> /\ \A k \in Parts : page[p].kept[k] = FALSE
  BY UnwrittenTyped DEF WikiInit
<1>2. \A e \in Editors : edit[e].pc = "rest"
  BY RestTyped DEF WikiInit
<1>3. Gapless
  <2>1. TopOf(<<>>) = 0 /\ NumsOf(<<>>) = {} /\ 1..0 = {}
    BY DEF TopOf, NumsOf
  <2>2. ASSUME NEW p \in Pages PROVE TopOf(versions[p]) = 0 /\ NumsOf(versions[p]) = 1..0
    BY <1>1, <2>1
  <2> QED BY <2>2, SMTT(30) DEF Gapless
<1>4. NextFits /\ RewritesTold /\ Lone /\ ReadHolds
  BY <1>2 DEF NextFits, RewritesTold, Lone, ReadHolds
<1>5. Recorded /\ Shown
  BY <1>1, Zenon DEF Recorded, Shown
<1>6. Exact
  BY <1>1, <1>2 DEF Exact
<1>7. Carried
  BY <1>2 DEF Carried, OnTheWay
<1> QED BY <1>3, <1>4, <1>5, <1>6, <1>7 DEF WikiHistory

\* A step that adds no version.
LEMMA QuietHistory ==
  ASSUME WikiInv, WikiShape', NEW e \in Editors, NEW q \in Edits, Moved(e, q), versions' = versions,
         edit[e].pc # "insert", q.pc # "rewrite",
         q.pc = "insert" => q.next <= TopOf(versions[q.page]) + 1,
         \A p \in Pages : \A k \in Parts : page'[p].kept[k] =>
           \/ page[p].kept[k] /\ page'[p].text[k] = page[p].text[k]
           \/ q.page = p /\ OnTheWay(q) /\ q.text[k] = page'[p].text[k]
           \/ edit[e].pc = "rewrite" /\ edit[e].page = p /\ page'[p].text = edit[e].text,
         edit[e].pc = "number" => q.page = edit[e].page /\ q.text = edit[e].text /\ OnTheWay(q),
         edit[e].pc = "rewrite" => page'[edit[e].page].text = edit[e].text,
         inTurn' => /\ q.pc = "insert" => q.next = Len(versions[q.page]) + 1
                    /\ q.pc = "save" => q.status = page'[q.page].status
                    /\ q.pc = "update" => q.text = Fill(q.sent, page'[q.page].text)
                    /\ OnTheWay(q) => q.text = page'[q.page].text
  PROVE  WikiHistory'
<1>1. edit'[e] = q /\ (\A f \in Editors \ {e} : edit'[f] = edit[f]) /\ whole' = whole
  BY DEF Moved, WikiInv, WikiShape
<1>2. inTurn' => inTurn /\ \A f \in Editors \ {e} : edit[f].pc = "rest" /\ edit'[f].pc = "rest"
  <2> SUFFICES ASSUME inTurn', NEW f \in Editors \ {e} PROVE inTurn /\ edit[f].pc = "rest"
    BY <1>1 DEF Moved
  <2>1. CASE edit[e].pc = "rest"
    BY <2>1, RestTyped DEF Moved
  <2>2. CASE edit[e].pc # "rest"
    BY <2>2 DEF Moved, WikiInv, WikiHistory, Lone
  <2> QED BY <2>1, <2>2
<1>3. Gapless'
  BY DEF WikiInv, WikiHistory, Gapless
<1>4. NextFits'
  <2> SUFFICES ASSUME NEW f \in Editors, edit'[f].pc = "insert"
               PROVE  edit'[f].next <= TopOf(versions[edit'[f].page]) + 1
    BY DEF NextFits
  <2>1. CASE f = e
    BY <1>1, <2>1
  <2>2. CASE f # e
    BY <1>1, <2>2 DEF WikiInv, WikiHistory, NextFits
  <2> QED BY <2>1, <2>2
<1>5. RewritesTold'
  <2> SUFFICES ASSUME NEW f \in Editors, edit'[f].pc = "rewrite"
               PROVE  \E i \in DOMAIN versions'[edit'[f].page] : versions'[edit'[f].page][i].text = edit'[f].text
    BY DEF RewritesTold, Told
  <2>1. f # e /\ edit'[f] = edit[f]
    BY <1>1
  <2>2. Told(edit[f].page, edit[f].text)
    BY <2>1 DEF WikiInv, WikiHistory, RewritesTold
  <2> QED BY <2>1, <2>2 DEF Told
<1>6. Recorded'
  <2> SUFFICES ASSUME whole, NEW p \in Pages, NEW k \in Parts, page'[p].kept[k]
               PROVE  \/ ToldPart(p, k, page'[p].text[k])
                      \/ \E f \in Editors : /\ edit'[f].pc \in {"number", "insert"}
                                             /\ edit'[f].page = p /\ edit'[f].text[k] = page'[p].text[k]
    BY <1>1 DEF Recorded, ToldPart
  <2>1. CASE page[p].kept[k] /\ page'[p].text[k] = page[p].text[k]
    <3>1. \/ ToldPart(p, k, page[p].text[k])
          \/ \E f \in Editors : /\ edit[f].pc \in {"number", "insert"}
                                 /\ edit[f].page = p /\ edit[f].text[k] = page[p].text[k]
      BY <2>1 DEF WikiInv, WikiHistory, Recorded, ToldPart
    <3>2. ASSUME NEW f \in Editors, edit[f].pc \in {"number", "insert"}, edit[f].page = p,
                 edit[f].text[k] = page[p].text[k]
          PROVE  edit'[f].pc \in {"number", "insert"} /\ edit'[f].page = p /\ edit'[f].text[k] = page'[p].text[k]
      <4>1. CASE f = e
        BY <1>1, <2>1, <3>2, <4>1 DEF OnTheWay
      <4>2. CASE f # e
        BY <1>1, <2>1, <3>2, <4>2
      <4> QED BY <4>1, <4>2
    <3> QED BY <2>1, <3>1, <3>2
  <2>2. CASE q.page = p /\ OnTheWay(q) /\ q.text[k] = page'[p].text[k]
    BY <1>1, <2>2 DEF OnTheWay
  <2>3. CASE edit[e].pc = "rewrite" /\ edit[e].page = p /\ page'[p].text = edit[e].text
    <3>1. Told(p, page'[p].text)
      BY <2>3 DEF WikiInv, WikiHistory, RewritesTold
    <3> QED BY <3>1 DEF Told, ToldPart
  <2> QED BY <2>1, <2>2, <2>3
<1>7. ASSUME inTurn' PROVE Lone' /\ Exact' /\ ReadHolds' /\ Carried'
  <2>1. \A f \in Editors : f # e => edit'[f].pc = "rest" /\ edit[f].pc = "rest"
    BY <1>2, <1>7
  <2>2. Lone'
    BY <2>1 DEF Lone
  <2>3. Exact'
    BY <1>1, <1>2, <1>7, <2>1 DEF Exact, WikiInv, WikiHistory
  <2>4. ReadHolds'
    BY <1>1, <1>7, <2>1 DEF ReadHolds
  <2>5. Carried'
    BY <1>1, <1>7, <2>1 DEF Carried, OnTheWay
  <2> QED BY <2>2, <2>3, <2>4, <2>5
<1>8. ASSUME inTurn', whole' PROVE Shown'
  <2>1. inTurn /\ whole /\ \A f \in Editors : f # e => edit'[f].pc = "rest" /\ edit[f].pc = "rest"
    BY <1>1, <1>2, <1>8
  <2> SUFFICES ASSUME NEW p \in Pages, NEW k \in Parts, page'[p].kept[k],
                      \A f \in Editors : edit'[f].page = p => ~OnTheWay(edit'[f]) /\ edit'[f].pc # "rewrite"
               PROVE  LastPart(p, k, page'[p].text[k])
    BY DEF Shown, LastPart
  <2>2. ~(q.page = p /\ OnTheWay(q))
    BY <1>1
  <2>3. CASE edit[e].pc = "rewrite" /\ edit[e].page = p
    BY <2>1, <2>3 DEF WikiInv, WikiHistory, Carried, LastTold, LastPart
  <2>4. CASE ~(edit[e].pc = "rewrite" /\ edit[e].page = p)
    <3>1. page[p].kept[k] /\ page'[p].text[k] = page[p].text[k]
      BY <2>2, <2>4
    <3>2. ASSUME NEW f \in Editors, edit[f].page = p PROVE ~OnTheWay(edit[f]) /\ edit[f].pc # "rewrite"
      <4>1. CASE f = e
        BY <2>2, <2>4, <3>2, <4>1 DEF OnTheWay
      <4>2. CASE f # e
        BY <2>1, <4>2 DEF OnTheWay
      <4> QED BY <4>1, <4>2
    <3> QED BY <2>1, <3>1, <3>2 DEF WikiInv, WikiHistory, Shown
  <2> QED BY <2>3, <2>4
<1> QED BY <1>3, <1>4, <1>5, <1>6, <1>7, <1>8 DEF WikiHistory

\* A step that adds one, the next in turn.
LEMMA GrownHistory ==
  ASSUME WikiInv, WikiShape', NEW e \in Editors, NEW q \in Edits, Moved(e, q),
         NEW p \in Pages, NEW v \in Versions, versions'[p] = Append(versions[p], v),
         \A o \in Pages \ {p} : versions'[o] = versions[o],
         edit[e].pc \in {"insert", "publish"}, edit[e].page = p, q.pc \in {"rest", "rewrite"},
         v.num <= TopOf(versions[p]) + 1, inTurn => v.num = Len(versions[p]) + 1,
         q.pc = "rewrite" => q.page = p /\ q.text = v.text,
         edit[e].pc = "insert" => v.text = edit[e].text,
         q.pc = "rest" => \/ page'[p].text = v.text
                          \/ OnTheWay(edit[e]) /\ v.text = edit[e].text /\ page'[p].text = page[p].text,
         \A o \in Pages : \A k \in Parts : page'[o].kept[k] =>
           \/ page[o].kept[k] /\ page'[o].text[k] = page[o].text[k]
           \/ o = p /\ page'[o].text = v.text
  PROVE  WikiHistory'
<1>1. edit'[e] = q /\ (\A f \in Editors \ {e} : edit'[f] = edit[f]) /\ whole' = whole
  BY DEF Moved, WikiInv, WikiShape
<1>2. inTurn' => inTurn /\ \A f \in Editors : f # e => edit[f].pc = "rest" /\ edit'[f].pc = "rest"
  BY <1>1 DEF Moved, WikiInv, WikiHistory, Lone
<1>3. /\ versions[p] \in Seq(Versions) /\ versions'[p] = Append(versions[p], v)
      /\ \A o \in Pages \ {p} : versions'[o] = versions[o]
  BY DEF WikiInv, WikiShape
<1>4. \A o \in Pages : TopOf(versions[o]) \in Nat /\ NumsOf(versions[o]) = 1..TopOf(versions[o])
  BY DEF WikiInv, WikiHistory, Gapless
<1>5. /\ TopOf(versions'[p]) \in Nat /\ NumsOf(versions'[p]) = 1..TopOf(versions'[p])
      /\ TopOf(versions'[p]) >= TopOf(versions[p])
  BY <1>3, <1>4, TopGrows
<1>6. Gapless'
  BY <1>3, <1>4, <1>5 DEF Gapless
<1>7. NextFits'
  <2> SUFFICES ASSUME NEW f \in Editors, edit'[f].pc = "insert"
               PROVE  edit'[f].next <= TopOf(versions'[edit'[f].page]) + 1
    BY DEF NextFits
  <2>1. f # e /\ edit'[f] = edit[f]
    BY <1>1
  <2>2. edit[f].page \in Pages /\ edit[f].next \in Nat /\ edit[f].next <= TopOf(versions[edit[f].page]) + 1
    BY <2>1 DEF WikiInv, WikiHistory, NextFits, WikiShape, Carries
  <2>3. CASE edit[f].page = p
    <3>1. PICK m : m = TopOf(versions[p])
      OBVIOUS
    <3>2. PICK n : n = TopOf(versions'[p])
      OBVIOUS
    <3>3. m \in Nat /\ n \in Nat /\ n >= m
      BY <1>4, <1>5, <3>1, <3>2
    <3>4. edit[f].next \in Nat /\ edit[f].next <= m + 1
      BY <2>2, <2>3, <3>1
    <3>5. edit'[f].next = edit[f].next /\ n = TopOf(versions'[edit'[f].page])
      BY <2>1, <2>3, <3>2
    <3>6. edit[f].next <= n + 1
      BY <3>3, <3>4
    <3> QED BY <3>5, <3>6
  <2>4. CASE edit[f].page # p
    BY <1>3, <2>1, <2>2, <2>4
  <2> QED BY <2>3, <2>4
<1>8. /\ Told(p, v.text)' /\ LastTold(p, v.text)'
      /\ \A o \in Pages : \A x : Told(o, x) => Told(o, x)'
      /\ \A o \in Pages : \A k, x : ToldPart(o, k, x) => ToldPart(o, k, x)'
  <2>1. /\ DOMAIN versions'[p] = 1..(Len(versions[p]) + 1) /\ versions'[p][Len(versions[p]) + 1] = v
        /\ Len(versions'[p]) = Len(versions[p]) + 1 /\ versions'[p] # <<>>
        /\ DOMAIN versions[p] = 1..Len(versions[p]) /\ Len(versions[p]) \in Nat
        /\ \A i \in 1..Len(versions[p]) : versions'[p][i] = versions[p][i]
    BY <1>3
  <2>2. LastTold(p, v.text)'
    BY <2>1 DEF LastTold
  <2>3. Told(p, v.text)'
    BY <2>1 DEF Told
  <2>4. ASSUME NEW o \in Pages, NEW x, Told(o, x) PROVE Told(o, x)'
    <3>1. CASE o = p
      <4>1. PICK i \in 1..Len(versions[p]) : versions[p][i].text = x
        BY <2>1, <2>4, <3>1 DEF Told
      <4>2. i \in 1..(Len(versions[p]) + 1)
        BY <2>1
      <4>3. i \in DOMAIN versions'[p] /\ versions'[p][i].text = x
        BY <2>1, <4>1, <4>2, Zenon
      <4>4. \E j \in DOMAIN versions'[p] : versions'[p][j].text = x
        BY <4>3
      <4> QED BY <3>1, <4>4 DEF Told
    <3>2. CASE o # p
      BY <1>3, <2>4, <3>2 DEF Told
    <3> QED BY <3>1, <3>2
  <2>5. ASSUME NEW o \in Pages, NEW k, NEW x, ToldPart(o, k, x) PROVE ToldPart(o, k, x)'
    <3>1. CASE o = p
      <4>1. PICK i \in 1..Len(versions[p]) : versions[p][i].text[k] = x
        BY <2>1, <2>5, <3>1 DEF ToldPart
      <4>2. i \in 1..(Len(versions[p]) + 1)
        BY <2>1
      <4>3. i \in DOMAIN versions'[p] /\ versions'[p][i].text[k] = x
        BY <2>1, <4>1, <4>2, Zenon
      <4>4. \E j \in DOMAIN versions'[p] : versions'[p][j].text[k] = x
        BY <4>3
      <4> QED BY <3>1, <4>4 DEF ToldPart
    <3>2. CASE o # p
      BY <1>3, <2>5, <3>2 DEF ToldPart
    <3> QED BY <3>1, <3>2
  <2> QED BY <2>2, <2>3, <2>4, <2>5
<1>9. RewritesTold'
  <2> SUFFICES ASSUME NEW f \in Editors, edit'[f].pc = "rewrite"
               PROVE  \E i \in DOMAIN versions'[edit'[f].page] : versions'[edit'[f].page][i].text = edit'[f].text
    BY DEF RewritesTold, Told
  <2>1. CASE f = e
    <3>1. edit'[f].page = p /\ edit'[f].text = v.text
      BY <1>1, <2>1
    <3>2. \E i \in DOMAIN versions'[p] : versions'[p][i].text = v.text
      BY <1>8 DEF Told
    <3> QED BY <3>1, <3>2
  <2>2. CASE f # e
    <3>1. edit'[f] = edit[f] /\ edit[f].page \in Pages /\ Told(edit[f].page, edit[f].text)
      BY <1>1, <2>2 DEF WikiInv, WikiHistory, RewritesTold, WikiShape, Carries
    <3>2. \A o \in Pages : \A x : (\E i \in DOMAIN versions[o] : versions[o][i].text = x)
            => \E i \in DOMAIN versions'[o] : versions'[o][i].text = x
      BY <1>8 DEF Told
    <3> QED BY <3>1, <3>2 DEF Told
  <2> QED BY <2>1, <2>2
<1>10. Recorded'
  <2> SUFFICES ASSUME whole, NEW o \in Pages, NEW k \in Parts, page'[o].kept[k]
               PROVE  \/ \E i \in DOMAIN versions'[o] : versions'[o][i].text[k] = page'[o].text[k]
                      \/ \E f \in Editors : /\ edit'[f].pc \in {"number", "insert"}
                                             /\ edit'[f].page = o /\ edit'[f].text[k] = page'[o].text[k]
    BY <1>1 DEF Recorded
  <2>1. \A x : (\E i \in DOMAIN versions[o] : versions[o][i].text[k] = x)
            => \E i \in DOMAIN versions'[o] : versions'[o][i].text[k] = x
    BY <1>8 DEF ToldPart
  <2>2. \E i \in DOMAIN versions'[p] : versions'[p][i].text[k] = v.text[k]
    BY <1>8 DEF Told
  <2>3. CASE page[o].kept[k] /\ page'[o].text[k] = page[o].text[k]
    <3>1. \/ \E i \in DOMAIN versions[o] : versions[o][i].text[k] = page[o].text[k]
          \/ \E f \in Editors : /\ edit[f].pc \in {"number", "insert"}
                                 /\ edit[f].page = o /\ edit[f].text[k] = page[o].text[k]
      BY <2>3 DEF WikiInv, WikiHistory, Recorded
    <3>2. ASSUME NEW f \in Editors, edit[f].pc \in {"number", "insert"}, edit[f].page = o,
                 edit[f].text[k] = page[o].text[k]
          PROVE  \/ \E i \in DOMAIN versions'[o] : versions'[o][i].text[k] = page'[o].text[k]
                 \/ edit'[f].pc \in {"number", "insert"} /\ edit'[f].page = o /\ edit'[f].text[k] = page'[o].text[k]
      <4>1. CASE f = e
        BY <2>2, <2>3, <3>2, <4>1
      <4>2. CASE f # e
        BY <1>1, <2>3, <3>2, <4>2
      <4> QED BY <4>1, <4>2
    <3> QED BY <2>1, <2>3, <3>1, <3>2, SMTT(30)
  <2>4. CASE o = p /\ page'[o].text = v.text
    BY <2>2, <2>4
  <2> QED BY <2>3, <2>4
<1>11. ASSUME inTurn' PROVE Lone' /\ Exact' /\ ReadHolds' /\ Carried'
  <2>1. inTurn /\ \A f \in Editors : f # e => edit'[f].pc = "rest" /\ edit[f].pc = "rest"
    BY <1>2, <1>11
  <2>2. Lone'
    BY <2>1 DEF Lone
  <2>3. \A o \in Pages : \A i \in DOMAIN versions'[o] : versions'[o][i].num = i
    <3> SUFFICES ASSUME NEW o \in Pages, NEW i \in DOMAIN versions'[o] PROVE versions'[o][i].num = i
      OBVIOUS
    <3>1. \A j \in DOMAIN versions[o] : versions[o][j].num = j
      BY <2>1 DEF WikiInv, WikiHistory, Exact
    <3>2. CASE o # p
      BY <1>3, <3>1, <3>2
    <3>3. CASE o = p
      <4>1. i \in 1..(Len(versions[p]) + 1) /\ DOMAIN versions[p] = 1..Len(versions[p]) /\ Len(versions[p]) \in Nat
        BY <1>3, <3>3
      <4>2. CASE i = Len(versions[p]) + 1
        BY <1>3, <2>1, <3>3, <4>2
      <4>3. CASE i # Len(versions[p]) + 1
        BY <1>3, <3>1, <3>3, <4>1, <4>3
      <4> QED BY <4>2, <4>3
    <3> QED BY <3>2, <3>3
  <2>4. Exact' /\ ReadHolds'
    BY <1>1, <2>1, <2>3 DEF Exact, ReadHolds
  <2>5. Carried'
    <3> SUFFICES ASSUME NEW f \in Editors
                 PROVE  /\ OnTheWay(edit'[f]) => edit'[f].text = page'[edit'[f].page].text
                        /\ edit'[f].pc = "rewrite" =>
                             /\ versions'[edit'[f].page] # <<>>
                             /\ versions'[edit'[f].page][Len(versions'[edit'[f].page])].text = edit'[f].text
      BY DEF Carried, LastTold
    <3>1. CASE f = e
      BY <1>1, <1>8, <3>1 DEF OnTheWay, LastTold
    <3>2. CASE f # e
      BY <2>1, <3>2 DEF OnTheWay
    <3> QED BY <3>1, <3>2
  <2> QED BY <2>2, <2>4, <2>5
<1>12. ASSUME inTurn', whole' PROVE Shown'
  <2>1. inTurn /\ whole /\ \A f \in Editors : f # e => edit'[f].pc = "rest" /\ edit[f].pc = "rest"
    BY <1>1, <1>2, <1>12
  <2> SUFFICES ASSUME NEW o \in Pages, NEW k \in Parts, page'[o].kept[k],
                      \A f \in Editors : edit'[f].page = o => ~OnTheWay(edit'[f]) /\ edit'[f].pc # "rewrite"
               PROVE  versions'[o] # <<>> /\ versions'[o][Len(versions'[o])].text[k] = page'[o].text[k]
    BY DEF Shown, LastPart
  <2>2. CASE o = p
    <3>1. q.pc = "rest"
      BY <1>1, <2>2
    <3>2. page'[p].text = v.text
      BY <2>1, <3>1 DEF WikiInv, WikiHistory, Carried
    <3> QED BY <1>8, <2>2, <3>2 DEF LastTold
  <2>3. CASE o # p
    <3>1. page[o].kept[k] /\ page'[o].text[k] = page[o].text[k] /\ versions'[o] = versions[o]
      BY <1>3, <2>3
    <3>2. ASSUME NEW f \in Editors, edit[f].page = o PROVE ~OnTheWay(edit[f]) /\ edit[f].pc # "rewrite"
      BY <2>1, <2>3, <3>2 DEF OnTheWay
    <3>3. LastPart(o, k, page[o].text[k])
      BY <2>1, <3>1, <3>2 DEF WikiInv, WikiHistory, Shown
    <3> QED BY <3>1, <3>3 DEF LastPart
  <2> QED BY <2>2, <2>3
<1> QED BY <1>6, <1>7, <1>9, <1>10, <1>11, <1>12 DEF WikiHistory

\* The actions, one after the other.
LEMMA CreateKeeps == ASSUME WikiInv, NEW e \in Editors, Create(e) PROVE WikiInv'
<1>1. PICK p \in Pages, u \in Authors, x \in FullTexts, s \in {"draft", "published"},
           up \in {q \in Pages : Exists(q)} \cup {Root} :
        /\ ~Exists(p)
        /\ page' = [page EXCEPT ![p] = [Unwritten EXCEPT !.state = "live", !.status = s, !.parent = up,
                                      !.text = x, !.author = u, !.kept = [k \in Parts |-> s = "published"]]]
        /\ Open(e, IF s = "draft" THEN NoEdit ELSE [NoEdit EXCEPT !.pc = "insert", !.page = p,
                                                            !.text = x, !.next = 1])
        /\ versions' = versions
  BY ZenonT(40) DEF Create
<1>2. PICK z : z = [Unwritten EXCEPT !.state = "live", !.status = s, !.parent = up,
                                      !.text = x, !.author = u, !.kept = [k \in Parts |-> s = "published"]]
  OBVIOUS
<1>3. z \in PageRows /\ Written(z) /\ z.kept = [k \in Parts |-> s = "published"] /\ z.text = x /\ z.status = s
  BY <1>2, TextsFilled DEF Unwritten, PageRows, Written
<1>4. PICK q : q = IF s = "draft" THEN NoEdit ELSE [NoEdit EXCEPT !.pc = "insert", !.page = p, !.text = x, !.next = 1]
  OBVIOUS
<1>5. /\ q \in Edits /\ Carries(q) /\ q.pc \in {"rest", "insert"} /\ (q.pc # "rest" => q.page = p /\ q.next = 1)
      /\ q.status = "keep"
      /\ s = "published" => q.pc = "insert" /\ q.page = p /\ q.text = x
      /\ s = "draft" => q.pc = "rest"
  <2>1. CASE s = "draft"
    BY <1>4, <2>1, RestTyped
  <2>2. CASE s # "draft"
    <3>1. q = [pc |-> "insert", page |-> p, sent |-> Blank, text |-> x, parent |-> Keep, status |-> "keep", next |-> 1]
      BY <1>4, <2>2 DEF NoEdit
    <3> QED BY <2>2, <3>1, TextsFilled DEF Edits, Carries
  <2> QED BY <2>1, <2>2
<1>6. Moved(e, q) /\ edit[e].pc = "rest"
  BY <1>1, <1>4, OpenMoves DEF WikiInv
<1>7. /\ WikiShape' /\ page'[p] = z /\ \A o \in Pages \ {p} : page'[o] = page[o]
  <2>1. page' = [page EXCEPT ![p] = z] /\ versions' = versions
    BY <1>1, <1>2
  <2>4. versions' \in [Pages -> Seq(Versions)] /\ \A o \in Pages \ {p} : versions'[o] = versions[o]
    BY <2>1 DEF WikiInv, WikiShape
  <2>2. WikiShape /\ (q.pc # "rest" => q.page = p)
    BY <1>5 DEF WikiInv
  <2>3. Moved(e, q) /\ Carries(q) /\ q \in Edits /\ z \in PageRows /\ Written(z)
    BY <1>3, <1>5, <1>6
  <2> QED BY <2>1, <2>2, <2>3, <2>4, RowWritten, ZenonT(40)
<1>8. page[p].state = "none" /\ versions[p] = <<>> /\ TopOf(versions[p]) \in Nat /\ Len(versions[p]) = 0
  BY <1>1 DEF Exists, WikiInv, WikiShape, WikiHistory, Gapless
<1>9. \A o \in Pages : \A k \in Parts : page'[o].kept[k] =>
        \/ page[o].kept[k] /\ page'[o].text[k] = page[o].text[k]
        \/ q.page = o /\ OnTheWay(q) /\ q.text[k] = page'[o].text[k]
  <2> SUFFICES ASSUME NEW o \in Pages, NEW k \in Parts, page'[o].kept[k]
               PROVE  \/ page[o].kept[k] /\ page'[o].text[k] = page[o].text[k]
                      \/ q.page = o /\ OnTheWay(q) /\ q.text[k] = page'[o].text[k]
    OBVIOUS
  <2>1. CASE o = p
    <3>1. s = "published"
      BY <1>3, <1>7, <2>1
    <3> QED BY <1>3, <1>5, <1>7, <2>1, <3>1 DEF OnTheWay
  <2>2. CASE o # p
    BY <1>7, <2>2
  <2> QED BY <2>1, <2>2
<1>10. /\ q.pc = "insert" => q.next <= TopOf(versions[q.page]) + 1 /\ q.next = Len(versions[q.page]) + 1
       /\ OnTheWay(q) => q.text = page'[q.page].text
  BY <1>3, <1>5, <1>7, <1>8 DEF OnTheWay
<1>11. WikiHistory'
  BY <1>1, <1>5, <1>6, <1>7, <1>9, <1>10, QuietHistory
<1> QED BY <1>7, <1>11 DEF WikiInv

\* A request opens and reads, and writes no more than its place.
LEMMA ReadKeeps ==
  ASSUME WikiInv, NEW e \in Editors, NEW q \in Edits, Moved(e, q), Carries(q), UNCHANGED <<page, versions>>,
         edit[e].pc \in {"rest", "number"},
         q.pc # "rest" => page[q.page].state # "none",
         q.pc \notin {"rest", "rewrite"},
         edit[e].pc = "rest" => q.pc # "number" /\ (q.pc = "insert" => q.status = "restore"),
         edit[e].pc = "number" => q.page = edit[e].page /\ q.text = edit[e].text /\ OnTheWay(q) /\ q.pc = "insert",
         q.pc = "insert" => q.next = CurrentVersion(q.page) + 1,
         q.pc = "save" => q.status = page[q.page].status,
         q.pc = "update" => q.text = Fill(q.sent, page[q.page].text)
  PROVE  WikiInv'
<1>1. WikiShape'
  BY ShapeKept DEF WikiInv, WikiShape
<1>2. edit[e].pc = "number" /\ inTurn => edit[e].text = page[edit[e].page].text
  BY DEF WikiInv, WikiHistory, Carried, OnTheWay
<1>3. q.pc = "insert" =>
        /\ q.page \in Pages /\ TopOf(versions[q.page]) \in Nat /\ CurrentVersion(q.page) = TopOf(versions[q.page])
        /\ inTurn => TopOf(versions[q.page]) = Len(versions[q.page])
  <2> SUFFICES ASSUME q.pc = "insert"
               PROVE  /\ q.page \in Pages /\ TopOf(versions[q.page]) \in Nat
                      /\ CurrentVersion(q.page) = TopOf(versions[q.page])
                      /\ inTurn => TopOf(versions[q.page]) = Len(versions[q.page])
    OBVIOUS
  <2>1. q.page \in Pages /\ versions[q.page] \in Seq(Versions)
    BY DEF Carries, WikiInv, WikiShape
  <2>2. TopOf(versions[q.page]) \in Nat
    BY <2>1 DEF WikiInv, WikiHistory, Gapless
  <2>3. CurrentVersion(q.page) = TopOf(versions[q.page])
    BY Zenon DEF CurrentVersion, TopOf
  <2>4. ASSUME inTurn PROVE TopOf(versions[q.page]) = Len(versions[q.page])
    BY <2>1, <2>4, ExactTop DEF WikiInv, WikiHistory, Exact
  <2> QED BY <2>1, <2>2, <2>3, <2>4
<1>4. inTurn' => inTurn
  BY DEF Moved
<1>5. WikiHistory'
  <2>1. \A p \in Pages : \A k \in Parts : page'[p].kept[k] => page[p].kept[k] /\ page'[p].text[k] = page[p].text[k]
    OBVIOUS
  <2>2. q.pc = "insert" => q.next <= TopOf(versions[q.page]) + 1
    BY <1>3
  <2>3. inTurn' => /\ q.pc = "insert" => q.next = Len(versions[q.page]) + 1
                   /\ q.pc = "save" => q.status = page'[q.page].status
                   /\ q.pc = "update" => q.text = Fill(q.sent, page'[q.page].text)
                   /\ OnTheWay(q) => q.text = page'[q.page].text
    BY <1>2, <1>3, <1>4 DEF OnTheWay
  <2> QED BY <1>1, <2>1, <2>2, <2>3, QuietHistory
<1> QED BY <1>1, <1>5 DEF WikiInv

LEMMA NumberKeeps == ASSUME WikiInv, NEW e \in Editors, Number(e) PROVE WikiInv'
<1>1. PICK w : w = edit[e]
  OBVIOUS
<1>2. /\ w \in Edits /\ w.pc = "number" /\ w.page \in Pages /\ w.text \in FullTexts
      /\ w.status \in {"keep", "draft", "published"} /\ page[w.page].state # "none"
  BY <1>1 DEF Number, WikiInv, WikiShape, Carries
<1>3. PICK q : q = [At(e, "insert") EXCEPT !.next = CurrentVersion(w.page) + 1]
  OBVIOUS
<1>4. CurrentVersion(w.page) \in Nat
  BY <1>2 DEF WikiInv, WikiHistory, Gapless, CurrentVersion, TopOf
<1>5. /\ q \in Edits /\ q.pc = "insert" /\ q.page = w.page /\ q.text = w.text /\ q.status = w.status
      /\ q.next = CurrentVersion(w.page) + 1
  <2>1. q = [pc |-> "insert", page |-> w.page, sent |-> w.sent, text |-> w.text, parent |-> w.parent, status |-> w.status,
             next |-> CurrentVersion(w.page) + 1]
    BY <1>1, <1>2, <1>3 DEF At, Edits
  <2> QED BY <2>1, <1>2, <1>4 DEF Edits
<1>6. Carries(q) /\ OnTheWay(q)
  BY <1>2, <1>4, <1>5 DEF Carries, OnTheWay
<1>7. Go(e, q) /\ UNCHANGED <<page, versions>>
  BY <1>1, <1>3 DEF Number
<1>8. Moved(e, q)
  BY <1>1, <1>2, <1>7, GoMoves DEF WikiInv
<1> QED BY <1>1, <1>2, <1>5, <1>6, <1>7, <1>8, ReadKeeps

\* The reads with which requests begin.
LEMMA OpensRead ==
  ASSUME WikiInv, NEW e \in Editors, NEW q \in Edits, Carries(q), Open(e, q), UNCHANGED <<page, versions>>,
         q.pc \in {"update", "insert", "save", "publish", "revive"}, page[q.page].state # "none",
         q.pc = "insert" => q.status = "restore" /\ q.next = CurrentVersion(q.page) + 1,
         q.pc = "save" => q.status = page[q.page].status,
         q.pc = "update" => q.text = Fill(q.sent, page[q.page].text)
  PROVE  WikiInv'
<1>1. Moved(e, q) /\ edit[e].pc = "rest"
  BY OpenMoves DEF WikiInv
<1> QED BY <1>1, ReadKeeps

LEMMA PatchKeeps == ASSUME WikiInv, NEW e \in Editors, Patch(e) PROVE WikiInv'
<1>1. PICK p \in Pages, x \in SentTexts, s \in {"keep", "draft", "published"},
           up \in {q \in Pages : Exists(q)} \cup {Root, Keep} :
        /\ Exists(p)
        /\ Open(e, [NoEdit EXCEPT !.pc = "update", !.page = p, !.sent = x, !.text = Fill(x, page[p].text),
                                  !.status = s, !.parent = up])
        /\ UNCHANGED <<page, versions>>
  BY DEF Patch
<1>2. PICK t : t = Fill(x, page[p].text)
  OBVIOUS
<1>3. t \in FullTexts
  BY <1>1, <1>2, TextsFilled DEF Exists, WikiInv, WikiShape, Written
<1>4. PICK q : q = [NoEdit EXCEPT !.pc = "update", !.page = p, !.sent = x, !.text = t, !.status = s, !.parent = up]
  OBVIOUS
<1>5. q = [pc |-> "update", page |-> p, sent |-> x, text |-> t, parent |-> up, status |-> s, next |-> 0]
  BY <1>4 DEF NoEdit
<1>6. q \in Edits /\ Carries(q) /\ q.pc = "update" /\ q.page = p /\ q.text = Fill(q.sent, page[q.page].text)
  BY <1>2, <1>3, <1>5, TextsFilled DEF Edits, Carries
<1>7. Open(e, q) /\ UNCHANGED <<page, versions>>
  BY <1>1, <1>2, <1>4
<1> QED BY <1>1, <1>6, <1>7, OpensRead DEF Exists

LEMMA RestoreVersionKeeps == ASSUME WikiInv, NEW e \in Editors, RestoreVersion(e) PROVE WikiInv'
<1>0. PICK p \in Pages : \E i \in DOMAIN versions[p] :
        /\ Live(p)
        /\ Open(e, [NoEdit EXCEPT !.pc = "insert", !.page = p, !.text = versions[p][i].text,
                            !.status = "restore", !.next = CurrentVersion(p) + 1])
        /\ UNCHANGED <<page, versions>>
  BY DEF RestoreVersion
<1>1. PICK i \in DOMAIN versions[p] :
        /\ Live(p)
        /\ Open(e, [NoEdit EXCEPT !.pc = "insert", !.page = p, !.text = versions[p][i].text,
                            !.status = "restore", !.next = CurrentVersion(p) + 1])
        /\ UNCHANGED <<page, versions>>
  BY <1>0
<1>2. PICK q : q = [NoEdit EXCEPT !.pc = "insert", !.page = p, !.text = versions[p][i].text,
                            !.status = "restore", !.next = CurrentVersion(p) + 1]
  OBVIOUS
<1>3. PICK x : x = versions[p][i].text
  OBVIOUS
<1>4. x \in FullTexts
  <2>1. versions[p] \in Seq(Versions)
    BY DEF WikiInv, WikiShape
  <2>2. versions[p][i] \in Versions
    BY <2>1
  <2> QED BY <1>3, <2>2 DEF Versions
<1>5. CurrentVersion(p) \in Nat
  BY DEF WikiInv, WikiHistory, Gapless, CurrentVersion, TopOf
<1>6. q = [pc |-> "insert", page |-> p, sent |-> Blank, text |-> x, parent |-> Keep, status |-> "restore",
           next |-> CurrentVersion(p) + 1]
  BY <1>2, <1>3 DEF NoEdit
<1>7. /\ q \in Edits /\ Carries(q) /\ q.pc = "insert" /\ q.page = p /\ q.status = "restore"
      /\ q.next = CurrentVersion(p) + 1
  BY <1>4, <1>5, <1>6, TextsFilled DEF Edits, Carries
<1> QED BY <1>1, <1>2, <1>7, OpensRead DEF Live

LEMMA AutosaveKeeps == ASSUME WikiInv, NEW e \in Editors, Autosave(e) PROVE WikiInv'
<1>1. PICK p \in Pages, x \in SentTexts :
        /\ Live(p)
        /\ Open(e, [NoEdit EXCEPT !.pc = "save", !.page = p, !.sent = x, !.status = page[p].status])
        /\ UNCHANGED <<page, versions>>
  BY DEF Autosave
<1>2. PICK q : q = [NoEdit EXCEPT !.pc = "save", !.page = p, !.sent = x, !.status = page[p].status]
  OBVIOUS
<1>3. PICK s : s = page[p].status
  OBVIOUS
<1>4. s \in {"draft", "published"}
  BY <1>3 DEF WikiInv, WikiShape, PageRows
<1>5. q = [pc |-> "save", page |-> p, sent |-> x, text |-> Blank, parent |-> Keep, status |-> s, next |-> 0]
  BY <1>2, <1>3 DEF NoEdit
<1>6. q \in Edits /\ Carries(q) /\ q.pc = "save" /\ q.page = p /\ q.status = page[p].status
  BY <1>3, <1>4, <1>5, TextsFilled DEF Edits, Carries
<1> QED BY <1>1, <1>2, <1>6, OpensRead DEF Live

LEMMA PublishKeeps == ASSUME WikiInv, NEW e \in Editors, Publish(e) PROVE WikiInv'
<1>1. PICK p \in Pages, x \in SentTexts, up \in Pages \cup {Root} :
        /\ Live(p)
        /\ Open(e, [NoEdit EXCEPT !.pc = "publish", !.page = p, !.parent = up,
                                  !.text = Fill(x, Fill(page[p].pending, page[p].text))])
        /\ UNCHANGED <<page, versions>>
  BY Zenon DEF Publish
<1>2. PICK y : y = Fill(x, Fill(page[p].pending, page[p].text))
  OBVIOUS
<1>3. y \in FullTexts
  <2>1. page[p].pending \in SentTexts /\ page[p].text \in FullTexts
    BY <1>1 DEF WikiInv, WikiShape, PageRows, Written, Live
  <2> QED BY <1>2, <2>1, TextsFilled
<1>4. PICK q : q = [NoEdit EXCEPT !.pc = "publish", !.page = p, !.parent = up, !.text = y]
  OBVIOUS
<1>5. q = [pc |-> "publish", page |-> p, sent |-> Blank, text |-> y, parent |-> up, status |-> "keep", next |-> 0]
  BY <1>4 DEF NoEdit
<1>6. q \in Edits /\ Carries(q) /\ q.pc = "publish" /\ q.page = p
  BY <1>3, <1>5, TextsFilled DEF Edits, Carries
<1> QED BY <1>1, <1>2, <1>4, <1>6, OpensRead DEF Live

LEMMA RestoreKeeps == ASSUME WikiInv, NEW e \in Editors, Restore(e) PROVE WikiInv'
<1>1. PICK p \in Pages :
        /\ page[p].state = "trash"
        /\ Open(e, [NoEdit EXCEPT !.pc = "revive", !.page = p,
                !.parent = IF page[p].parent # Root /\ Live(page[p].parent) THEN page[p].parent ELSE Root])
        /\ UNCHANGED <<page, versions>>
  BY DEF Restore
<1>2. PICK up : up = IF page[p].parent # Root /\ Live(page[p].parent) THEN page[p].parent ELSE Root
  OBVIOUS
<1>3. up \in Pages \cup {Root}
  BY <1>2 DEF WikiInv, WikiShape, PageRows
<1>4. PICK q : q = [NoEdit EXCEPT !.pc = "revive", !.page = p, !.parent = up]
  OBVIOUS
<1>5. q = [pc |-> "revive", page |-> p, sent |-> Blank, text |-> Blank, parent |-> up, status |-> "keep", next |-> 0]
  BY <1>4 DEF NoEdit
<1>6. q \in Edits /\ Carries(q) /\ q.pc = "revive" /\ q.page = p
  BY <1>3, <1>5, TextsFilled DEF Edits, Carries
<1> QED BY <1>1, <1>2, <1>4, <1>6, OpensRead

\* The statements that write a page, and no version.
LEMMA WriteKeeps ==
  ASSUME WikiInv, NEW e \in Editors, NEW q \in Edits, Carries(q), Go(e, q),
         edit[e].pc \in {"update", "rewrite", "save", "trash", "revive"},
         NEW z \in PageRows, Written(z), page' = [page EXCEPT ![edit[e].page] = z], versions' = versions,
         q.pc \in {"rest", "number"},
         q.pc = "number" => q.page = edit[e].page /\ (inTurn => q.text = z.text),
         edit[e].pc = "rewrite" => z.text = edit[e].text,
         \A k \in Parts : z.kept[k] =>
           \/ page[edit[e].page].kept[k] /\ z.text[k] = page[edit[e].page].text[k]
           \/ q.pc = "number" /\ q.text[k] = z.text[k]
           \/ edit[e].pc = "rewrite"
  PROVE  WikiInv'
<1>1. PICK p : p = edit[e].page
  OBVIOUS
<1>2. p \in Pages /\ WikiShape
  BY <1>1 DEF WikiInv, WikiShape, Carries
<1>3. Moved(e, q)
  BY <1>2, GoMoves
<1>4. versions' \in [Pages -> Seq(Versions)] /\ \A o \in Pages \ {p} : versions'[o] = versions[o]
  BY <1>2 DEF WikiShape
<1>5. WikiShape' /\ page'[p] = z /\ \A o \in Pages \ {p} : page'[o] = page[o]
  <2>1. page' = [page EXCEPT ![p] = z] /\ (q.pc # "rest" => q.page = p)
    BY <1>1
  <2> QED BY <1>2, <1>3, <1>4, <2>1, RowWritten, ZenonT(40)
<1>6. ASSUME NEW o \in Pages, NEW k \in Parts, page'[o].kept[k]
      PROVE  \/ page[o].kept[k] /\ page'[o].text[k] = page[o].text[k]
             \/ q.page = o /\ OnTheWay(q) /\ q.text[k] = page'[o].text[k]
             \/ edit[e].pc = "rewrite" /\ edit[e].page = o /\ page'[o].text = edit[e].text
  <2>1. CASE o = p
    BY <1>1, <1>5, <1>6, <2>1 DEF OnTheWay
  <2>2. CASE o # p
    BY <1>5, <1>6, <2>2
  <2> QED BY <2>1, <2>2
<1>7. edit[e].pc = "rewrite" => page'[edit[e].page].text = edit[e].text
  BY <1>1, <1>5
<1>8. inTurn' => /\ q.pc = "insert" => q.next = Len(versions[q.page]) + 1
                 /\ q.pc = "save" => q.status = page'[q.page].status
                 /\ q.pc = "update" => q.text = Fill(q.sent, page'[q.page].text)
                 /\ OnTheWay(q) => q.text = page'[q.page].text
  BY <1>1, <1>3, <1>5 DEF OnTheWay, Moved
<1>9. WikiHistory'
  BY <1>3, <1>5, <1>6, <1>7, <1>8, QuietHistory
<1> QED BY <1>5, <1>9 DEF WikiInv

LEMMA WorkTyped ==
  ASSUME WikiInv, NEW e \in Editors, edit[e].pc # "rest"
  PROVE  /\ edit[e] \in Edits /\ Carries(edit[e]) /\ edit[e].page \in Pages
         /\ page[edit[e].page] \in PageRows /\ Written(page[edit[e].page])
BY DEF WikiInv, WikiShape, Carries

LEMMA UpdateKeeps == ASSUME WikiInv, NEW e \in Editors, Update(e) PROVE WikiInv'
<1>1. PICK w : w = edit[e]
  OBVIOUS
<1>2. w.pc = "update" /\ w \in Edits /\ Carries(w) /\ w.page \in Pages
  BY <1>1, WorkTyped DEF Update
<1>3. PICK y : y = page[w.page]
  OBVIOUS
<1>4. y \in PageRows /\ Written(y)
  BY <1>1, <1>2, <1>3, WorkTyped
<1>5. PICK z : z = page'[w.page]
  OBVIOUS
<1>n. PICK n : n = Fill(w.sent, y.text)
  OBVIOUS
<1>6. versions' = versions /\ IF w.sent = Blank THEN Done(e) ELSE Go(e, [At(e, "number") EXCEPT !.sent = Blank])
  BY <1>1, Zenon DEF Update
<1>t. /\ n \in FullTexts /\ w.text \in FullTexts /\ w.sent \in SentTexts /\ y.text \in FullTexts
      /\ \A k \in Parts : n[k] = (IF w.sent[k] = NoText THEN y.text[k] ELSE w.sent[k])
      /\ w.sent = Blank => n = y.text
  <2>1. w.text \in FullTexts /\ w.sent \in SentTexts /\ y.text \in FullTexts
    BY <1>2, <1>4 DEF Edits, Carries, Written
  <2> QED BY <1>n, <2>1, TextsFilled
<1>7. /\ page' = [page EXCEPT ![w.page] = z]
      /\ z.text = n
      /\ z.kept = [k \in Parts |-> y.kept[k] \/ (w.sent # Blank /\ w.text[k] = n[k])]
      /\ z = [state |-> y.state, status |-> IF w.status = "keep" THEN y.status ELSE w.status,
              parent |-> IF w.parent = Keep THEN y.parent ELSE w.parent, text |-> z.text,
              pending |-> y.pending, author |-> y.author, kept |-> z.kept]
  <2>0. PICK m : m = [k \in Parts |-> y.kept[k] \/ (w.sent # Blank /\ w.text[k] = n[k])]
    OBVIOUS
  <2>1. PICK r : r = [y EXCEPT !.text = n, !.kept = m,
                               !.status = IF w.status = "keep" THEN y.status ELSE w.status,
                               !.parent = IF w.parent = Keep THEN y.parent ELSE w.parent]
    OBVIOUS
  <2>2. page' = [page EXCEPT ![w.page] = r]
    BY <1>1, <1>3, <1>n, <2>0, <2>1 DEF Update
  <2>3. r = z
    BY <1>2, <1>5, <2>2 DEF WikiInv, WikiShape
  <2>4. /\ r.text = n /\ r.kept = m
        /\ r = [state |-> y.state, status |-> IF w.status = "keep" THEN y.status ELSE w.status,
                parent |-> IF w.parent = Keep THEN y.parent ELSE w.parent, text |-> r.text,
                pending |-> y.pending, author |-> y.author, kept |-> r.kept]
    BY <1>4, <2>1 DEF PageRows
  <2> QED BY <2>0, <2>2, <2>3, <2>4
<1>8. z \in PageRows /\ Written(z)
  <2>1. /\ y.status \in {"draft", "published"} /\ y.parent \in Pages \cup {Root} /\ y.kept \in [Parts -> BOOLEAN]
        /\ w.status \in {"keep", "draft", "published"} /\ w.parent \in Pages \cup {Root, Keep}
    BY <1>2, <1>4 DEF Edits, Carries, PageRows, Written
  <2>3. z.status = (IF w.status = "keep" THEN y.status ELSE w.status) /\ z.parent = (IF w.parent = Keep THEN y.parent ELSE w.parent)
    BY <1>7
  <2>4. z.text \in FullTexts /\ z.text \in SentTexts
    BY <1>7, <1>t, TextsFilled
  <2>5. z.kept \in [Parts -> BOOLEAN]
    BY <1>7, <2>1
  <2>2. z.state = y.state /\ z.author = y.author /\ z.pending = y.pending
    BY <1>7
  <2> QED BY <1>4, <1>7, <2>1, <2>2, <2>3, <2>4, <2>5 DEF PageRows, Written
<1>k. \A k \in Parts : z.kept[k] => \/ y.kept[k] /\ w.text[k] # n[k]
                                    \/ y.kept[k] /\ w.sent = Blank
                                    \/ w.sent # Blank /\ w.text[k] = n[k]
  BY <1>7
<1>9. CASE w.sent = Blank
  <2>1. Go(e, NoEdit)
    BY <1>6, <1>9 DEF Done
  <2>2. \A k \in Parts : z.kept[k] => y.kept[k] /\ z.text[k] = y.text[k]
    BY <1>7, <1>9, <1>t, <1>k
  <2>3. \A k \in Parts : z.kept[k] => page[edit[e].page].kept[k] /\ z.text[k] = page[edit[e].page].text[k]
    BY <1>1, <1>3, <2>2
  <2>4. edit[e].pc = "update" /\ page' = [page EXCEPT ![edit[e].page] = z]
    BY <1>1, <1>2, <1>7
  <2>5. NoEdit \in Edits /\ Carries(NoEdit) /\ NoEdit.pc = "rest"
    BY RestTyped
  <2>6. PICK q : q = NoEdit
    OBVIOUS
  <2>7. q \in Edits /\ Carries(q) /\ q.pc = "rest" /\ Go(e, q)
    BY <2>1, <2>5, <2>6
  <2>8. \A k \in Parts : z.kept[k] =>
          \/ page[edit[e].page].kept[k] /\ z.text[k] = page[edit[e].page].text[k]
          \/ q.pc = "number" /\ q.text[k] = z.text[k]
          \/ edit[e].pc = "rewrite"
    BY <2>3
  <2> QED BY <1>6, <1>8, <2>4, <2>7, <2>8, WriteKeeps
<1>10. CASE w.sent # Blank
  <2>1. PICK q : q = [At(e, "number") EXCEPT !.sent = Blank]
    OBVIOUS
  <2>2. q = [pc |-> "number", page |-> w.page, sent |-> Blank, text |-> w.text, parent |-> w.parent,
             status |-> w.status, next |-> w.next]
    BY <1>1, <1>2, <2>1 DEF At, Edits
  <2>3. q \in Edits /\ Carries(q) /\ q.pc = "number" /\ q.page = w.page /\ q.text = w.text
    BY <1>2, <2>2, TextsFilled DEF Edits, Carries
  <2>4. Go(e, q)
    BY <1>6, <1>10, <2>1
  <2>5. inTurn => q.text = z.text
    BY <1>1, <1>2, <1>3, <1>n, <1>7, <2>3 DEF WikiInv, WikiHistory, ReadHolds
  <2>6. \A k \in Parts : z.kept[k] => (y.kept[k] /\ z.text[k] = y.text[k]) \/ q.text[k] = z.text[k]
    <3> SUFFICES ASSUME NEW k \in Parts, z.kept[k], q.text[k] # z.text[k] PROVE y.kept[k] /\ z.text[k] = y.text[k]
      OBVIOUS
    <3>1. y.kept[k]
      BY <1>7, <1>k, <2>3
    <3>2. w.sent[k] # NoText => w.text[k] = w.sent[k]
      BY <1>2 DEF Carries
    <3>3. z.text[k] = y.text[k]
      BY <1>7, <1>t, <2>3, <3>2
    <3> QED BY <3>1, <3>3
  <2>7. \A k \in Parts : z.kept[k] =>
          \/ page[edit[e].page].kept[k] /\ z.text[k] = page[edit[e].page].text[k]
          \/ q.pc = "number" /\ q.text[k] = z.text[k]
    BY <1>1, <1>3, <2>3, <2>6
  <2>8. edit[e].pc = "update" /\ page' = [page EXCEPT ![edit[e].page] = z] /\ q.page = edit[e].page
    BY <1>1, <1>2, <1>7, <2>3
  <2> QED BY <1>6, <1>8, <2>3, <2>4, <2>5, <2>7, <2>8, WriteKeeps
<1> QED BY <1>9, <1>10

LEMMA RewriteKeeps == ASSUME WikiInv, NEW e \in Editors, Rewrite(e) PROVE WikiInv'
<1>1. PICK w : w = edit[e]
  OBVIOUS
<1>2. w.pc = "rewrite" /\ w \in Edits /\ Carries(w) /\ w.page \in Pages /\ w.text \in FullTexts
  BY <1>1, WorkTyped DEF Rewrite, Carries
<1>3. PICK y : y = page[w.page]
  OBVIOUS
<1>4. y \in PageRows /\ Written(y)
  BY <1>1, <1>2, <1>3, WorkTyped
<1>k. PICK m : m = [k \in Parts |-> TRUE]
  OBVIOUS
<1>5. PICK z : z = [y EXCEPT !.text = w.text, !.kept = m]
  OBVIOUS
<1>6. page' = [page EXCEPT ![w.page] = z] /\ versions' = versions /\ Go(e, NoEdit)
  BY <1>1, <1>2, <1>3, <1>k, <1>5 DEF Rewrite, Done, WikiInv, WikiShape
<1>7. z \in PageRows /\ Written(z) /\ z.text = w.text
  <2>1. m \in [Parts -> BOOLEAN] /\ w.text \in SentTexts
    BY <1>2, <1>k, TextsFilled
  <2> QED BY <1>2, <1>4, <1>5, <2>1 DEF PageRows, Written
<1> QED BY <1>1, <1>2, <1>6, <1>7, RestTyped, WriteKeeps

LEMMA SaveKeeps == ASSUME WikiInv, NEW e \in Editors, Save(e) PROVE WikiInv'
<1>1. PICK w : w = edit[e]
  OBVIOUS
<1>2. w.pc = "save" /\ w \in Edits /\ Carries(w) /\ w.page \in Pages /\ w.sent \in SentTexts
  BY <1>1, WorkTyped DEF Save, Edits
<1>3. PICK y : y = page[w.page]
  OBVIOUS
<1>4. y \in PageRows /\ Written(y)
  BY <1>1, <1>2, <1>3, WorkTyped
<1>k. PICK m : m = [k \in Parts |-> y.kept[k] /\ w.sent[k] = NoText]
  OBVIOUS
<1>n. PICK n : n = Fill(w.sent, y.text)
  OBVIOUS
<1>d. PICK d : d = Fill(w.sent, Fill(y.pending, y.text))
  OBVIOUS
<1>t. /\ m \in [Parts -> BOOLEAN] /\ n \in FullTexts /\ n \in SentTexts /\ d \in SentTexts
      /\ \A k \in Parts : m[k] => y.kept[k] /\ n[k] = y.text[k]
  <2>1. y.text \in FullTexts /\ y.pending \in SentTexts
    BY <1>4 DEF PageRows, Written
  <2>2. m \in [Parts -> BOOLEAN] /\ \A k \in Parts : m[k] = (y.kept[k] /\ w.sent[k] = NoText)
    BY <1>4, <1>k DEF PageRows
  <2>3. \A k \in Parts : n[k] = (IF w.sent[k] = NoText THEN y.text[k] ELSE w.sent[k])
    BY <1>2, <1>n, TextsFilled
  <2>4. n \in FullTexts /\ Fill(y.pending, y.text) \in FullTexts
    BY <1>2, <1>n, <2>1, TextsFilled
  <2>5. n \in SentTexts /\ d \in SentTexts
    BY <1>2, <1>d, <2>4, TextsFilled
  <2> QED BY <2>2, <2>3, <2>4, <2>5
<1>5. PICK z : z = IF w.status = "draft" THEN [y EXCEPT !.text = n, !.kept = m] ELSE [y EXCEPT !.pending = d]
  OBVIOUS
<1>6. page' = [page EXCEPT ![w.page] = z] /\ versions' = versions /\ Go(e, NoEdit)
  <2>1. versions' = versions /\ Go(e, NoEdit)
    BY DEF Save, Done
  <2>2. CASE w.status = "draft"
    BY <1>1, <1>2, <1>3, <1>k, <1>n, <1>5, <2>1, <2>2 DEF Save, WikiInv, WikiShape
  <2>3. CASE w.status # "draft"
    BY <1>1, <1>2, <1>3, <1>d, <1>5, <2>1, <2>3 DEF Save, WikiInv, WikiShape
  <2> QED BY <2>1, <2>2, <2>3
<1>7. z \in PageRows /\ Written(z) /\ \A k \in Parts : z.kept[k] => y.kept[k] /\ z.text[k] = y.text[k]
  <2>1. CASE w.status = "draft"
    BY <1>t, <1>4, <1>5, <2>1 DEF PageRows, Written
  <2>2. CASE w.status # "draft"
    BY <1>t, <1>4, <1>5, <2>2 DEF PageRows, Written
  <2> QED BY <2>1, <2>2
<1>8. \A k \in Parts : z.kept[k] => page[edit[e].page].kept[k] /\ z.text[k] = page[edit[e].page].text[k]
  BY <1>1, <1>3, <1>7
<1>9. edit[e].pc = "save" /\ page' = [page EXCEPT ![edit[e].page] = z]
  BY <1>1, <1>2, <1>6
<1>10. NoEdit \in Edits /\ Carries(NoEdit) /\ NoEdit.pc = "rest"
  BY RestTyped
<1>11. PICK q : q = NoEdit
  OBVIOUS
<1>12. q \in Edits /\ Carries(q) /\ q.pc = "rest" /\ Go(e, q)
  BY <1>6, <1>10, <1>11
<1>13. \A k \in Parts : z.kept[k] =>
          \/ page[edit[e].page].kept[k] /\ z.text[k] = page[edit[e].page].text[k]
          \/ q.pc = "number" /\ q.text[k] = z.text[k]
          \/ edit[e].pc = "rewrite"
  BY <1>8
<1>14. z \in PageRows /\ Written(z) /\ versions' = versions
  BY <1>6, <1>7
<1> QED BY <1>9, <1>12, <1>13, <1>14, WriteKeeps

LEMMA TrashKeeps == ASSUME WikiInv, NEW e \in Editors, Trash(e) PROVE WikiInv'
<1>1. PICK w : w = edit[e]
  OBVIOUS
<1>2. w.pc = "trash" /\ w.page \in Pages
  BY <1>1, WorkTyped DEF Trash
<1>3. PICK y : y = page[w.page]
  OBVIOUS
<1>4. y \in PageRows /\ Written(y)
  BY <1>1, <1>2, <1>3, WorkTyped
<1>5. PICK z : z = [y EXCEPT !.state = "trash"]
  OBVIOUS
<1>6. page' = [page EXCEPT ![w.page] = z] /\ versions' = versions /\ Go(e, NoEdit)
  BY <1>1, <1>3, <1>5 DEF Trash, Done
<1>7. z \in PageRows /\ Written(z) /\ z.kept = y.kept /\ z.text = y.text
  BY <1>4, <1>5 DEF PageRows, Written
<1> QED BY <1>1, <1>2, <1>3, <1>6, <1>7, RestTyped, WriteKeeps

LEMMA ReviveKeeps == ASSUME WikiInv, NEW e \in Editors, Revive(e) PROVE WikiInv'
<1>1. PICK w : w = edit[e]
  OBVIOUS
<1>2. w.pc = "revive" /\ w.page \in Pages /\ w.parent \in Pages \cup {Root}
  BY <1>1, WorkTyped DEF Revive, Carries
<1>3. PICK y : y = page[w.page]
  OBVIOUS
<1>4. y \in PageRows /\ Written(y)
  BY <1>1, <1>2, <1>3, WorkTyped
<1>5. PICK z : z = [y EXCEPT !.state = "live", !.parent = w.parent]
  OBVIOUS
<1>6. page' = [page EXCEPT ![w.page] = z] /\ versions' = versions /\ Go(e, NoEdit)
  BY <1>1, <1>2, <1>3, <1>5 DEF Revive, Done, WikiInv, WikiShape
<1>7. z \in PageRows /\ Written(z) /\ z.kept = y.kept /\ z.text = y.text
  BY <1>2, <1>4, <1>5 DEF PageRows, Written
<1> QED BY <1>1, <1>2, <1>3, <1>6, <1>7, RestTyped, WriteKeeps

LEMMA DeleteKeeps == ASSUME WikiInv, NEW e \in Editors, Delete(e) PROVE WikiInv'
<1>1. PICK p \in Pages :
        /\ Live(p) /\ Open(e, [NoEdit EXCEPT !.pc = "trash", !.page = p])
        /\ page' = [c \in Pages |-> IF page[c].parent = p THEN [page[c] EXCEPT !.parent = Root] ELSE page[c]]
        /\ versions' = versions
  BY DEF Delete
<1>2. PICK q : q = [NoEdit EXCEPT !.pc = "trash", !.page = p]
  OBVIOUS
<1>3. q = [pc |-> "trash", page |-> p, sent |-> Blank, text |-> Blank, parent |-> Keep, status |-> "keep", next |-> 0]
  BY <1>2 DEF NoEdit
<1>4. q \in Edits /\ Carries(q) /\ q.pc = "trash" /\ q.page = p /\ ~OnTheWay(q)
  BY <1>3, TextsFilled DEF Edits, Carries, OnTheWay
<1>5. Moved(e, q) /\ edit[e].pc = "rest"
  BY <1>1, <1>2, OpenMoves DEF WikiInv
<1>6. ASSUME NEW c \in Pages
      PROVE  /\ page'[c] \in PageRows /\ page'[c].text = page[c].text /\ page'[c].kept = page[c].kept
             /\ page'[c].state = page[c].state /\ page'[c].author = page[c].author
  <2>1. page[c] \in PageRows
    BY DEF WikiInv, WikiShape
  <2>2. CASE page[c].parent = p
    <3>1. page'[c] = [page[c] EXCEPT !.parent = Root]
      BY <1>1, <2>2
    <3> QED BY <2>1, <3>1 DEF PageRows
  <2>3. CASE page[c].parent # p
    BY <1>1, <2>1, <2>3
  <2> QED BY <2>2, <2>3
<1>7. page' \in [Pages -> PageRows] /\ versions' \in [Pages -> Seq(Versions)]
  <2>1. page' = [c \in Pages |-> page'[c]]
    BY <1>1
  <2> QED BY <1>1, <1>6, <2>1 DEF WikiInv, WikiShape
<1>8. ASSUME NEW c \in Pages
      PROVE  \/ page'[c] = page[c] /\ (page[c].state = "none" => versions'[c] = versions[c])
             \/ Written(page'[c])
  <2>1. CASE page[c].state = "none"
    <3>1. page[c].parent = Root
      BY <2>1 DEF WikiInv, WikiShape, Unwritten
    <3>2. p # Root
      BY WikiAssumption DEF Root
    <3> QED BY <1>1, <3>1, <3>2
  <2>2. CASE page[c].state # "none"
    <3>1. Written(page[c])
      BY <2>2 DEF WikiInv, WikiShape
    <3> QED BY <1>6, <3>1 DEF Written
  <2> QED BY <2>1, <2>2
<1>9. page'[p].state # "none"
  BY <1>1, <1>6 DEF Live
<1>10. WikiShape'
  BY <1>4, <1>5, <1>7, <1>8, <1>9, ShapeKept DEF WikiInv
<1>11. WikiHistory'
  <2>1. \A c \in Pages : \A k \in Parts : page'[c].kept[k] => page[c].kept[k] /\ page'[c].text[k] = page[c].text[k]
    BY <1>6
  <2> QED BY <1>1, <1>4, <1>5, <1>10, <2>1, QuietHistory
<1> QED BY <1>10, <1>11 DEF WikiInv

LEMMA InsertVersionKeeps == ASSUME WikiInv, NEW e \in Editors, InsertVersion(e) PROVE WikiInv'
<1>1. PICK w : w = edit[e]
  OBVIOUS
<1>2. /\ w.pc = "insert" /\ w \in Edits /\ Carries(w) /\ w.page \in Pages /\ w.text \in FullTexts
      /\ w.next \in Nat \ {0} /\ page[w.page].state # "none"
  BY <1>1, WorkTyped DEF InsertVersion, Carries, Written
<1>3. PICK q : q = IF w.status = "restore" THEN At(e, "rewrite") ELSE NoEdit
  OBVIOUS
<1>4. PICK v : v = [num |-> w.next, text |-> w.text]
  OBVIOUS
<1>5. v \in Versions /\ v.num = w.next /\ v.text = w.text
  BY <1>2, <1>4 DEF Versions
<1>6. /\ q \in Edits /\ Carries(q) /\ q.pc \in {"rest", "rewrite"}
      /\ q.pc = "rewrite" => q.page = w.page /\ q.text = w.text
      /\ q.pc = "rest" => OnTheWay(w)
  <2>1. CASE w.status = "restore"
    <3>1. q = [pc |-> "rewrite", page |-> w.page, sent |-> w.sent, text |-> w.text, parent |-> w.parent,
               status |-> w.status, next |-> w.next]
      BY <1>1, <1>2, <1>3, <2>1 DEF At, Edits
    <3> QED BY <1>2, <3>1 DEF Edits, Carries
  <2>2. CASE w.status # "restore"
    BY <1>2, <1>3, <2>2, RestTyped DEF OnTheWay
  <2> QED BY <2>1, <2>2
<1>7. Go(e, q) /\ page' = page /\ versions' = [versions EXCEPT ![w.page] = Append(@, v)]
  BY <1>1, <1>3, <1>4 DEF InsertVersion, NewVersion, Done
<1>8. Moved(e, q)
  BY <1>1, <1>2, <1>7, GoMoves DEF WikiInv
<1>9. versions' \in [Pages -> Seq(Versions)] /\ \A o \in Pages \ {w.page} : versions'[o] = versions[o]
  BY <1>2, <1>5, <1>7 DEF WikiInv, WikiShape
<1>10. WikiShape'
  <2>1. \A p \in Pages : \/ page'[p] = page[p] /\ (page[p].state = "none" => versions'[p] = versions[p])
                         \/ Written(page'[p])
    BY <1>2, <1>7, <1>9 DEF WikiInv, WikiShape
  <2>2. page' \in [Pages -> PageRows] /\ (q.pc # "rest" => page'[q.page].state # "none")
    BY <1>2, <1>6, <1>7 DEF WikiInv, WikiShape
  <2> QED BY <1>6, <1>8, <1>9, <2>1, <2>2, ShapeKept DEF WikiInv
<1>11. v.num <= TopOf(versions[w.page]) + 1 /\ (inTurn => v.num = Len(versions[w.page]) + 1)
  BY <1>1, <1>2, <1>5 DEF WikiInv, WikiHistory, NextFits, Exact
<1>13. versions'[w.page] = Append(versions[w.page], v)
  BY <1>2, <1>7 DEF WikiInv, WikiShape
<1>12. WikiHistory'
  BY <1>1, <1>2, <1>9, <1>13, <1>5, <1>6, <1>7, <1>8, <1>10, <1>11, GrownHistory
<1> QED BY <1>10, <1>12 DEF WikiInv

LEMMA PublishTxKeeps == ASSUME WikiInv, NEW e \in Editors, PublishTx(e) PROVE WikiInv'
<1>1. PICK w : w = edit[e]
  OBVIOUS
<1>2. /\ w.pc = "publish" /\ w \in Edits /\ Carries(w) /\ w.page \in Pages /\ w.text \in FullTexts
      /\ w.parent \in Pages \cup {Root}
  BY <1>1, WorkTyped DEF PublishTx, Carries
<1>3. PICK y : y = page[w.page]
  OBVIOUS
<1>4. y \in PageRows /\ Written(y)
  BY <1>1, <1>2, <1>3, WorkTyped
<1>k. PICK m : m = [k \in Parts |-> TRUE]
  OBVIOUS
<1>5. PICK z : z = [y EXCEPT !.text = w.text, !.kept = m, !.parent = w.parent,
                             !.status = "published", !.pending = Blank]
  OBVIOUS
<1>6. z \in PageRows /\ Written(z) /\ z.text = w.text
  <2>1. m \in [Parts -> BOOLEAN] /\ w.text \in SentTexts /\ Blank \in SentTexts
    BY <1>2, <1>k, TextsFilled
  <2> QED BY <1>2, <1>4, <1>5, <2>1 DEF PageRows, Written
<1>7. PICK v : v = [num |-> CurrentVersion(w.page) + 1, text |-> w.text]
  OBVIOUS
<1>8. /\ versions[w.page] \in Seq(Versions) /\ TopOf(versions[w.page]) \in Nat
      /\ CurrentVersion(w.page) = TopOf(versions[w.page])
  <2>1. CurrentVersion(w.page) = TopOf(versions[w.page])
    BY Zenon DEF CurrentVersion, TopOf
  <2> QED BY <1>2, <2>1 DEF WikiInv, WikiShape, WikiHistory, Gapless
<1>9. v \in Versions /\ v.num = TopOf(versions[w.page]) + 1 /\ v.text = w.text
  BY <1>2, <1>7, <1>8 DEF Versions
<1>10. /\ Go(e, NoEdit) /\ page' = [page EXCEPT ![w.page] = z]
       /\ versions' = [versions EXCEPT ![w.page] = Append(@, v)]
  BY <1>1, <1>3, <1>k, <1>5, <1>7 DEF PublishTx, NewVersion, Done
<1>11. Moved(e, NoEdit)
  BY <1>1, <1>2, <1>10, GoMoves DEF WikiInv
<1>12. versions' \in [Pages -> Seq(Versions)] /\ \A o \in Pages \ {w.page} : versions'[o] = versions[o]
  BY <1>2, <1>9, <1>10 DEF WikiInv, WikiShape
<1>13. WikiShape' /\ page'[w.page] = z /\ \A o \in Pages \ {w.page} : page'[o] = page[o]
  <2>1. WikiShape /\ NoEdit \in Edits /\ Carries(NoEdit) /\ (NoEdit.pc # "rest" => NoEdit.page = w.page)
    BY RestTyped DEF WikiInv
  <2>2. page' = [page EXCEPT ![w.page] = z]
    BY <1>10
  <2> QED BY <1>2, <1>6, <1>11, <1>12, <2>1, <2>2, RowWritten, ZenonT(40)
<1>14. inTurn => v.num = Len(versions[w.page]) + 1
  <2> SUFFICES ASSUME inTurn PROVE TopOf(versions[w.page]) = Len(versions[w.page])
    BY <1>9
  <2> QED BY <1>2, <1>8, ExactTop DEF WikiInv, WikiHistory, Exact
<1>15. v.num <= TopOf(versions[w.page]) + 1
  BY <1>8, <1>9
<1>16. \A o \in Pages : \A k \in Parts :
         page'[o].kept[k] => \/ page[o].kept[k] /\ page'[o].text[k] = page[o].text[k]
                             \/ o = w.page /\ page'[o].text = v.text
  BY <1>6, <1>9, <1>13
<1>18. versions'[w.page] = Append(versions[w.page], v)
  BY <1>2, <1>10 DEF WikiInv, WikiShape
<1>17. WikiHistory'
  <2>1. NoEdit \in Edits /\ NoEdit.pc \in {"rest", "rewrite"} /\ NoEdit.pc # "rewrite"
    BY RestTyped
  <2>2. edit[e].pc \in {"insert", "publish"} /\ edit[e].pc # "insert" /\ edit[e].page = w.page
    BY <1>1, <1>2
  <2>3. page'[w.page].text = v.text /\ w.page \in Pages /\ v \in Versions
    BY <1>2, <1>6, <1>9, <1>13
  <2> QED BY <1>11, <1>12, <1>13, <1>14, <1>15, <1>16, <1>18, <2>1, <2>2, <2>3, GrownHistory
<1> QED BY <1>13, <1>17 DEF WikiInv

LEMMA WikiCrashKeeps == ASSUME WikiInv, WikiCrash PROVE WikiInv'
<1>1. /\ edit' = [e \in Editors |-> NoEdit] /\ whole' = FALSE /\ page' = page /\ versions' = versions
      /\ saves' = saves /\ inTurn' = inTurn
  BY DEF WikiCrash
<1>2. \A e \in Editors : edit'[e] = NoEdit /\ edit'[e].pc = "rest"
  BY <1>1, RestTyped
<1>3. WikiShape'
  <2>1. edit' \in [Editors -> Edits]
    BY <1>1, RestTyped
  <2>2. \A e \in Editors : Carries(edit'[e])
    BY <1>2, RestTyped
  <2> QED BY <1>1, <1>2, <2>1, <2>2 DEF WikiInv, WikiShape
<1>4. WikiHistory'
  <2>1. Gapless' /\ (inTurn' => Exact')
    BY <1>1, <1>2 DEF WikiInv, WikiHistory, Gapless, Exact
  <2>2. NextFits' /\ RewritesTold' /\ Lone' /\ ReadHolds'
    BY <1>2 DEF NextFits, RewritesTold, Lone, ReadHolds
  <2>3. Carried'
    BY <1>2 DEF Carried, OnTheWay
  <2>4. Recorded' /\ ~whole'
    BY <1>1, Zenon DEF Recorded
  <2> QED BY <2>1, <2>2, <2>3, <2>4 DEF WikiHistory
<1> QED BY <1>3, <1>4 DEF WikiInv

LEMMA WikiStands == ASSUME WikiInv, UNCHANGED wikiVars PROVE WikiInv'
<1>1. /\ page' = page /\ versions' = versions /\ edit' = edit /\ saves' = saves
      /\ inTurn' = inTurn /\ whole' = whole
  BY DEF wikiVars
<1>2. WikiShape'
  BY <1>1 DEF WikiInv, WikiShape
<1>3. Gapless' /\ NextFits' /\ RewritesTold'
  BY <1>1 DEF WikiInv, WikiHistory, Gapless, NextFits, RewritesTold, Told
<1>4. Recorded'
  BY <1>1 DEF WikiInv, WikiHistory, Recorded
<1>5. inTurn' => Lone' /\ Exact' /\ ReadHolds'
  BY <1>1 DEF WikiInv, WikiHistory, Lone, Exact, ReadHolds
<1>6. inTurn' => Carried'
  BY <1>1 DEF WikiInv, WikiHistory, Carried, OnTheWay, LastTold
<1>7. inTurn' /\ whole' => Shown'
  BY <1>1, Zenon DEF WikiInv, WikiHistory, Shown, OnTheWay, LastPart
<1> QED BY <1>2, <1>3, <1>4, <1>5, <1>6, <1>7 DEF WikiInv, WikiHistory

\* The invariant of the wiki: a page's history is numbered without a gap, every
\* title and every body a save with a version wrote is in it or in the request
\* that is about to insert it, and while requests come one at a time what the one
\* at work has read still holds (wiki.js:199-545, 626-740).
THEOREM WikiInvariant == WikiSpec => []WikiInv
<1>1. WikiInit => WikiInv
  BY WikiStarts, WikiHistoryStarts DEF WikiInv
<1>2. WikiInv /\ [WikiNext]_wikiVars => WikiInv'
  <2> SUFFICES ASSUME WikiInv, [WikiNext]_wikiVars PROVE WikiInv'
    OBVIOUS
  <2>1. CASE \E e \in Editors :
               \/ Create(e) \/ InsertVersion(e) \/ Patch(e) \/ Update(e) \/ Number(e)
               \/ RestoreVersion(e) \/ Rewrite(e) \/ Autosave(e)
    BY <2>1, CreateKeeps, InsertVersionKeeps, PatchKeeps, UpdateKeeps, NumberKeeps, RestoreVersionKeeps,
       RewriteKeeps, AutosaveKeeps, Zenon
  <2>2. CASE \E e \in Editors :
               \/ Save(e) \/ Publish(e) \/ PublishTx(e) \/ Delete(e) \/ Trash(e) \/ Restore(e) \/ Revive(e)
    BY <2>2, SaveKeeps, PublishKeeps, PublishTxKeeps, DeleteKeeps, TrashKeeps, RestoreKeeps, ReviveKeeps, Zenon
  <2>3. CASE WikiCrash
    BY <2>3, WikiCrashKeeps
  <2>4. CASE UNCHANGED wikiVars
    BY <2>4, WikiStands
  <2> QED BY <2>1, <2>2, <2>3, <2>4, Zenon DEF WikiNext
<1> QED BY <1>1, <1>2, PTL DEF WikiSpec

\* Rows and requests have their types, and a page that exists has a text.
THEOREM WikiTypes == WikiSpec => []WikiTypeOK
<1>1. WikiInv => WikiTypeOK
  <2> SUFFICES ASSUME WikiInv PROVE WikiTypeOK
    OBVIOUS
  <2>1. ASSUME NEW p \in Pages
        PROVE  /\ page[p] \in PageRows /\ versions[p] \in Seq(Versions)
               /\ Exists(p) => page[p].text \in FullTexts /\ page[p].author \in Authors
    BY DEF WikiInv, WikiShape, Exists, Written
  <2>2. \A e \in Editors : edit[e].page \in Pages \cup {0}
    BY DEF WikiInv, WikiShape, Edits
  <2> QED BY <2>1, <2>2 DEF WikiTypeOK, WikiInv, WikiShape, PageRows, Versions
<1> QED BY <1>1, WikiInvariant, PTL

\* A page's history can be trusted however requests overlap or are cut off:
\* numbered from 1 without a gap and holding every title and every body a save
\* with a version put on the page, or the request about to insert it is there; and
\* while requests come one at a time no number comes twice, and the last version
\* of a page is what its readers see (wiki.js:199-545, 626-740).
THEOREM HistoriesSound == WikiSpec => []HistorySound
<1>1. WikiInv => HistorySound
  <2> SUFFICES ASSUME WikiInv PROVE HistorySound
    OBVIOUS
  <2>1. ASSUME NEW p \in Pages
        PROVE  /\ NumsOf(versions[p]) = 1..CurrentVersion(p)
               /\ inTurn => Cardinality(NumsOf(versions[p])) = Len(versions[p])
    <3>1. CurrentVersion(p) = TopOf(versions[p])
      BY Zenon DEF CurrentVersion, TopOf
    <3>2. NumsOf(versions[p]) = 1..TopOf(versions[p]) /\ versions[p] \in Seq(Versions)
      BY DEF WikiInv, WikiHistory, Gapless, WikiShape
    <3>3. ASSUME inTurn PROVE Cardinality(NumsOf(versions[p])) = Len(versions[p])
      <4>1. NumsOf(versions[p]) = 1..Len(versions[p])
        BY <3>2, <3>3, ExactTop DEF WikiInv, WikiHistory, Exact
      <4>2. Len(versions[p]) \in Nat
        BY <3>2
      <4>3. Cardinality(1..Len(versions[p])) = Len(versions[p])
        BY <4>2, FS_Interval
      <4> QED BY <4>1, <4>3
    <3> QED BY <3>1, <3>2, <3>3
  <2>2. Numbered
    BY <2>1, Zenon DEF Numbered, NumsOf
  <2>3. LatestShown
    <3> SUFFICES ASSUME inTurn, whole, ~Busy, NEW p \in Pages, NEW k \in Parts, page[p].kept[k]
                 PROVE  versions[p] # <<>> /\ versions[p][Len(versions[p])].text[k] = page[p].text[k]
      BY Zenon DEF LatestShown
    <3>1. \A e \in Editors : edit[e].pc = "rest"
      BY RestTyped DEF Busy
    <3>2. LastPart(p, k, page[p].text[k])
      BY <3>1 DEF WikiInv, WikiHistory, Shown, OnTheWay
    <3> QED BY <3>2 DEF LastPart
  <2> QED BY <2>2, <2>3, Zenon DEF HistorySound, WikiInv, WikiHistory
<1> QED BY <1>1, WikiInvariant, PTL

\* Autosave never changes what readers see: while requests come one at a time,
\* the title and the body of a published page change only along with its history
\* (wiki.js:560-607, WikiPageEditor.jsx:57-58).
THEOREM ReadersStayUndisturbed == WikiSpec => ReadersUndisturbed
<1>1. ASSUME WikiInv, WikiNext
      PROVE  inTurn' => \A p \in Pages, k \in Parts :
               page[p].status = "published" /\ page'[p].text[k] # page[p].text[k] => page'[p].kept[k]
  <2> SUFFICES ASSUME inTurn', NEW p \in Pages, NEW k \in Parts, page[p].status = "published",
                      page'[p].text[k] # page[p].text[k]
               PROVE  page'[p].kept[k]
    OBVIOUS
  <2>0. page \in [Pages -> PageRows] /\ page[p] \in PageRows
    BY <1>1 DEF WikiInv, WikiShape
  <2>1. ASSUME NEW e \in Editors, Create(e) PROVE FALSE
    <3>1. PICK c \in Pages : page[c].state = "none" /\ \E z : page' = [page EXCEPT ![c] = z]
      BY <2>1 DEF Create, Exists
    <3>2. c = p
      BY <2>0, <3>1
    <3> QED BY <1>1, <3>1, <3>2, UnwrittenTyped DEF WikiInv, WikiShape
  <2>2. ASSUME NEW e \in Editors, Update(e) PROVE page'[p].kept[k]
    <3>1. PICK w : w = edit[e]
      OBVIOUS
    <3>2. PICK y : y = page[w.page]
      OBVIOUS
    <3>n. PICK n : n = Fill(w.sent, y.text)
      OBVIOUS
    <3>m. PICK m : m = [j \in Parts |-> y.kept[j] \/ (w.sent # Blank /\ w.text[j] = n[j])]
      OBVIOUS
    <3>3. PICK r : r = [y EXCEPT !.text = n, !.kept = m,
                               !.status = IF w.status = "keep" THEN y.status ELSE w.status,
                               !.parent = IF w.parent = Keep THEN y.parent ELSE w.parent]
      OBVIOUS
    <3>4. page' = [page EXCEPT ![w.page] = r] /\ w.pc = "update" /\ w.page \in Pages /\ y \in PageRows /\ Written(y)
      BY <1>1, <2>2, <3>1, <3>2, <3>n, <3>m, <3>3, WorkTyped DEF Update
    <3>5. p = w.page /\ page'[p] = r /\ inTurn
      BY <2>0, <2>2, <3>2, <3>4 DEF Update, Done, Go
    <3>6. r.text = n /\ r.kept = m
      BY <3>3, <3>4 DEF PageRows
    <3>7. w.text = n
      BY <1>1, <3>1, <3>2, <3>n, <3>4, <3>5 DEF WikiInv, WikiHistory, ReadHolds
    <3>8. w.sent # Blank
      BY <3>2, <3>n, <3>4, <3>5, <3>6, TextsFilled DEF Written
    <3> QED BY <3>5, <3>6, <3>7, <3>8, <3>m
  <2>3. ASSUME NEW e \in Editors, Rewrite(e) PROVE page'[p].kept[k]
    <3>1. PICK c : c = edit[e].page
      OBVIOUS
    <3>m. PICK m : m = [j \in Parts |-> TRUE]
      OBVIOUS
    <3>2. page' = [page EXCEPT ![c].text = edit[e].text, ![c].kept = m]
      BY <2>3, <3>1, <3>m DEF Rewrite
    <3>3. p = c
      BY <2>0, <3>2
    <3>4. page'[p].kept = m
      BY <2>0, <3>2, <3>3 DEF PageRows
    <3> QED BY <3>4, <3>m
  <2>4. ASSUME NEW e \in Editors, Save(e) PROVE FALSE
    <3>1. PICK w : w = edit[e]
      OBVIOUS
    <3>2. PICK y : y = page[w.page]
      OBVIOUS
    <3>n. PICK n : n = Fill(w.sent, Fill(y.pending, y.text))
      OBVIOUS
    <3>4. w.pc = "save" /\ inTurn /\ \E r : page' = [page EXCEPT ![w.page] = r]
      BY <2>4, <3>1 DEF Save, Done, Go
    <3>5. p = w.page /\ y = page[p] /\ y \in PageRows
      BY <2>0, <3>2, <3>4
    <3>6. w.status = page[p].status
      BY <1>1, <2>4, <3>1, <3>4, <3>5 DEF WikiInv, WikiHistory, ReadHolds
    <3>7. page' = [page EXCEPT ![w.page] = [y EXCEPT !.pending = n]]
      BY <2>0, <2>4, <3>1, <3>2, <3>n, <3>5, <3>6 DEF Save
    <3>8. page'[p].text = y.text
      BY <2>0, <3>5, <3>7 DEF PageRows
    <3> QED BY <3>5, <3>8
  <2>5. ASSUME NEW e \in Editors, PublishTx(e) PROVE page'[p].kept[k]
    <3>1. PICK w : w = edit[e]
      OBVIOUS
    <3>2. PICK y : y = page[w.page]
      OBVIOUS
    <3>m. PICK m : m = [j \in Parts |-> TRUE]
      OBVIOUS
    <3>3. PICK z : z = [y EXCEPT !.text = w.text, !.kept = m, !.parent = w.parent,
                             !.status = "published", !.pending = Blank]
      OBVIOUS
    <3>4. page' = [page EXCEPT ![w.page] = z]
      BY <2>5, <3>1, <3>2, <3>m, <3>3 DEF PublishTx
    <3>5. p = w.page /\ page'[p] = z /\ y \in PageRows
      BY <2>0, <3>2, <3>4
    <3>6. z.kept = m
      BY <3>3, <3>5 DEF PageRows
    <3> QED BY <3>5, <3>6, <3>m
  <2>6. ASSUME NEW e \in Editors, Delete(e) PROVE FALSE
    <3>1. page'[p] = page[p] \/ page'[p] = [page[p] EXCEPT !.parent = Root]
      BY <2>6 DEF Delete
    <3> QED BY <2>0, <3>1 DEF PageRows
  <2>7. ASSUME NEW e \in Editors, Trash(e) \/ Revive(e) PROVE FALSE
    <3>1. PICK c : c = edit[e].page
      OBVIOUS
    <3>2. \/ page' = [page EXCEPT ![c].state = "trash"]
          \/ page' = [page EXCEPT ![c].state = "live", ![c].parent = edit[e].parent]
      BY <2>7, <3>1 DEF Trash, Revive
    <3> QED BY <2>0, <3>2 DEF PageRows
  <2>8. ASSUME NEW e \in Editors,
               InsertVersion(e) \/ Patch(e) \/ Number(e) \/ RestoreVersion(e) \/ Autosave(e) \/ Publish(e) \/ Restore(e)
        PROVE  FALSE
    BY <2>8, Zenon DEF InsertVersion, Patch, Number, RestoreVersion, Autosave, Publish, Restore
  <2>9. CASE WikiCrash
    BY <2>9 DEF WikiCrash
  <2> QED BY <1>1, <2>1, <2>2, <2>3, <2>4, <2>5, <2>6, <2>7, <2>8, <2>9, Zenon DEF WikiNext
<1> QED BY <1>1, WikiInvariant, PTL DEF WikiSpec, ReadersUndisturbed

(***************************************************************************)
(* Documents.  A request knows a document that was filed, and the version  *)
(* it is about to write is at most one past the document's.                *)
(***************************************************************************)
Papers == [pc : {"rest", "insertFolder", "updateFolder", "dropFolder", "put", "insertDoc", "insertVersion",
                 "updateDoc", "moveDoc"},
           id : Docs \cup Folders \cup {0}, place : Folders \cup {Top, Stay}, name : FileNames \cup {"none"},
           size : Sizes \cup {0}, key : Nat, num : Nat \ {0}]
FolderRows == [state : {"none", "live", "gone"}, up : Folders \cup {Top}, name : FileNames \cup {"none"}]
DocRows == [state : {"none", "live", "deleted", "gone"}, folder : Folders \cup {Top},
            name : FileNames \cup {"none"}, key : Nat, num : Nat \ {0}]
Revisions == [doc : Docs, num : Nat \ {0}, key : Nat \ {0}, name : FileNames \cup {"none"}]

Filed(d) == d \in Docs /\ doc[d].state # "none"
PaperSound(q) ==
  /\ q \in Papers /\ q.key <= Len(object)
  /\ q.pc = "rest" => q = NoPaper
  /\ q.pc \in {"insertFolder", "insertDoc"} => q.place # Stay
  /\ q.pc \in {"updateFolder", "dropFolder"} => q.id \in Folders
  /\ q.pc = "put" => q.size \in Sizes /\ (IF q.id = 0 THEN q.num = 1 /\ q.place # Stay ELSE q.num > 1)
  /\ q.pc = "insertDoc" => q.num = 1
  /\ q.pc \in {"insertDoc", "insertVersion", "updateDoc"} => q.key > 0
  /\ q.pc \in {"insertVersion", "updateDoc", "moveDoc"} \/ (q.pc = "put" /\ q.id # 0) => Filed(q.id)
PapersTyped == paper \in [Uploaders -> Papers] /\ \A u \in Uploaders : PaperSound(paper[u])
TablesTyped ==
  /\ space \in {"open", "archived", "gone"}
  /\ folder \in [Folders -> FolderRows]
  /\ doc \in [Docs -> DocRows] /\ \A d \in Docs : doc[d].key <= Len(object)
  /\ revision \subseteq Revisions /\ \A v \in revision : v.key <= Len(object)
  /\ object \in Seq(Sizes)
  /\ current \subseteq Docs \X (1..Len(object))
DocumentRowsTyped ==
  /\ TablesTyped /\ PapersTyped
  /\ filed \in Nat /\ halts \in 0..MaxHalts /\ oneByOne \in BOOLEAN

\* A new document whose first version is not written yet, and a version whose
\* document does not show it yet.
Fresh(q, d) == q.pc = "insertVersion" /\ q.id = d /\ q.num = 1
Ahead(q, d) == q.pc = "updateDoc" /\ q.id = d
AnyFresh(d) == \E u \in Uploaders : Fresh(paper[u], d)
AnyAhead(d) == \E u \in Uploaders : Ahead(paper[u], d)
OnRecord(d, n) == \E v \in revision : v.doc = d /\ v.num = n
NextOnly(d) == \A u \in Uploaders :
  paper[u].pc \in {"put", "insertVersion"} /\ paper[u].id = d => paper[u].num <= doc[d].num + 1
OneEach(d) ==
  /\ \A u, w \in Uploaders : Fresh(paper[u], d) /\ Fresh(paper[w], d) => u = w
  /\ \A u, w \in Uploaders : Ahead(paper[u], d) /\ Ahead(paper[w], d) => u = w
AheadTold(d) == \A u \in Uploaders : Ahead(paper[u], d) =>
  /\ paper[u].num = doc[d].num + 1
  /\ \A v \in revision : v.doc = d /\ v.num = paper[u].num => v.key = paper[u].key
NoGap(d) == \A n \in Nat :
  OnRecord(d, n) <=> /\ n # 0 /\ (n <= doc[d].num \/ (n = doc[d].num + 1 /\ AnyAhead(d)))
                     /\ ~(n = 1 /\ AnyFresh(d))
LastIsShown(d) ==
  /\ \A v \in revision : v.doc = d /\ v.num = doc[d].num => v.key = doc[d].key
  /\ \A u \in Uploaders : Fresh(paper[u], d) /\ doc[d].num = 1 => paper[u].key = doc[d].key
NothingLost(d) == \A k \in Nat : <<d, k>> \in current =>
  \/ \E v \in revision : v.doc = d /\ v.key = k
  \/ \E u \in Uploaders : Fresh(paper[u], d) /\ paper[u].key = k
Chronicle(d) == NextOnly(d) /\ OneEach(d) /\ AheadTold(d) /\ NoGap(d) /\ LastIsShown(d) /\ NothingLost(d)
Unrecorded(d) == (\A v \in revision : v.doc # d) /\ \A k \in Nat : <<d, k>> \notin current
Chronicles == \A d \in Docs : (Kept(d) => Chronicle(d)) /\ (doc[d].state = "none" => Unrecorded(d))

\* While requests come one at a time, the folder that is about to go is empty.
LonePaper == \A u, w \in Uploaders : paper[u].pc # "rest" /\ paper[w].pc # "rest" => u = w
DropsEmpty == \A u \in Uploaders : paper[u].pc = "dropFolder" =>
  /\ \A d \in LiveDocs : doc[d].folder # paper[u].id
  /\ \A g \in Folders : folder[g].state = "live" => folder[g].up # paper[u].id

DocumentInv ==
  /\ DocumentRowsTyped
  /\ halts = 0 => Chronicles
  /\ oneByOne => LonePaper /\ DropsEmpty

\* A step of one request: it holds q from now on, and while requests come one at a
\* time it is the only one.
Turn(u, q) ==
  /\ paper' = [paper EXCEPT ![u] = q] /\ halts' = halts /\ filed' \in Nat /\ oneByOne' \in BOOLEAN
  /\ oneByOne' => oneByOne /\ \A w \in Uploaders : w # u => paper[w].pc = "rest"

\* Bytes are never taken back, and a document that was filed stays so.
Grows == /\ Len(object) <= Len(object')
         /\ \A d \in Docs : doc[d].state # "none" => doc'[d].state # "none"

LEMMA LengthIsNumber == ASSUME TablesTyped PROVE Len(object) \in Nat
BY DEF TablesTyped

LEMMA TakesUp ==
  ASSUME DocumentInv, NEW u \in Uploaders, NEW q, TakeUp(u, q)
  PROVE  Turn(u, q) /\ paper[u] = NoPaper
<1>1. /\ paper[u] = NoPaper /\ oneByOne' = (oneByOne /\ ~Working)
      /\ filed' = filed + 1 /\ paper' = [paper EXCEPT ![u] = q] /\ halts' = halts
  BY DEF TakeUp
<1>2. filed \in Nat /\ oneByOne \in BOOLEAN
  BY DEF DocumentInv, DocumentRowsTyped
<1>3. PICK w \in BOOLEAN : w <=> Working
  OBVIOUS
<1>4. w = Working
  BY <1>3 DEF Working
<1>5. oneByOne' = (oneByOne /\ ~w)
  BY <1>1, <1>4
<1>6. oneByOne' \in BOOLEAN /\ (oneByOne' => oneByOne /\ ~Working)
  BY <1>2, <1>3, <1>5
<1>7. ~Working => \A v \in Uploaders : paper[v].pc = "rest"
  BY DEF Working, NoPaper
<1> QED BY <1>1, <1>2, <1>6, <1>7 DEF Turn

LEMMA Continues ==
  ASSUME DocumentInv, NEW u \in Uploaders, NEW q, Continue(u, q), paper[u].pc # "rest"
  PROVE  Turn(u, q)
<1>1. paper' = [paper EXCEPT ![u] = q] /\ UNCHANGED <<filed, halts, oneByOne>>
  BY DEF Continue
<1>2. filed \in Nat /\ oneByOne \in BOOLEAN
  BY DEF DocumentInv, DocumentRowsTyped
<1>3. oneByOne => \A w \in Uploaders : w # u => paper[w].pc = "rest"
  BY DEF DocumentInv, LonePaper
<1> QED BY <1>1, <1>2, <1>3 DEF Turn

LEMMA PaperKept ==
  ASSUME TablesTyped, TablesTyped', Grows, NEW q, PaperSound(q)
  PROVE  PaperSound(q)'
<1>1. Len(object) \in Nat /\ Len(object)' \in Nat /\ q.key \in Nat /\ Len(object) <= Len(object)'
  BY LengthIsNumber DEF TablesTyped, PaperSound, Papers, Grows
<1>2. q.key <= Len(object)'
  BY <1>1 DEF PaperSound
<1>3. Filed(q.id) => Filed(q.id)'
  BY DEF Filed, Grows
<1> QED BY <1>2, <1>3 DEF PaperSound

LEMMA TurnPapers ==
  ASSUME PapersTyped, TablesTyped, TablesTyped', Grows, NEW u \in Uploaders, NEW q, Turn(u, q), PaperSound(q)'
  PROVE  PapersTyped' /\ paper'[u] = q /\ \A w \in Uploaders : w # u => paper'[w] = paper[w]
<1>1. paper \in [Uploaders -> Papers] /\ q \in Papers /\ paper' = [paper EXCEPT ![u] = q]
  BY DEF PapersTyped, PaperSound, Turn
<1>2. paper' \in [Uploaders -> Papers] /\ paper'[u] = q /\ \A w \in Uploaders : w # u => paper'[w] = paper[w]
  BY <1>1
<1>3. ASSUME NEW w \in Uploaders PROVE PaperSound(paper[w])'
  <2>1. CASE w = u
    BY <1>2, <2>1
  <2>2. CASE w # u
    <3>1. PICK p : p = paper[w]
      OBVIOUS
    <3>2. PaperSound(p)'
      BY <3>1, PaperKept DEF PapersTyped
    <3> QED BY <1>2, <2>2, <3>1, <3>2
  <2> QED BY <2>1, <2>2
<1> QED BY <1>2, <1>3 DEF PapersTyped

\* What a step has to show besides.
LEMMA TurnKeeps ==
  ASSUME DocumentInv, NEW u \in Uploaders, NEW q, Turn(u, q), TablesTyped', Grows, PaperSound(q)',
         q.pc # "dropFolder", halts = 0 => Chronicles'
  PROVE  DocumentInv'
<1>1. PapersTyped' /\ paper'[u] = q /\ \A w \in Uploaders : w # u => paper'[w] = paper[w]
  BY TurnPapers DEF DocumentInv, DocumentRowsTyped
<1>2. DocumentRowsTyped'
  BY <1>1 DEF DocumentInv, DocumentRowsTyped, Turn
<1>3. oneByOne' => LonePaper' /\ DropsEmpty'
  <2> SUFFICES ASSUME oneByOne' PROVE LonePaper' /\ DropsEmpty'
    OBVIOUS
  <2>1. \A w \in Uploaders : w # u => paper'[w].pc = "rest"
    BY <1>1 DEF Turn
  <2>2. LonePaper'
    BY <2>1 DEF LonePaper
  <2>3. \A w \in Uploaders : paper'[w].pc # "dropFolder"
    BY <1>1, <2>1
  <2> QED BY <2>2, <2>3 DEF DropsEmpty
<1> QED BY <1>2, <1>3 DEF DocumentInv, Turn

\* A request neither files nor shows a version, before and after the step.
CalmPaper(q, d) == ~Fresh(q, d) /\ ~Ahead(q, d)
Ordered(q, d) == q.pc \in {"put", "insertVersion"} /\ q.id = d => q.num <= doc[d].num + 1

LEMMA ChronicleKept ==
  ASSUME NEW d \in Docs, Chronicle(d), NEW u \in Uploaders, NEW q,
         paper'[u] = q, \A w \in Uploaders : w # u => paper'[w] = paper[w],
         CalmPaper(paper[u], d), CalmPaper(q, d), Ordered(q, d),
         revision \subseteq revision', \A v \in revision' \ revision : v.doc # d,
         \A k \in Nat : <<d, k>> \in current' => <<d, k>> \in current,
         doc'[d].num = doc[d].num, doc'[d].key = doc[d].key
  PROVE  Chronicle(d)'
<1>1. \A w \in Uploaders : Fresh(paper[w], d)' <=> Fresh(paper[w], d)
  BY DEF CalmPaper, Fresh
<1>2. \A w \in Uploaders : Ahead(paper[w], d)' <=> Ahead(paper[w], d)
  BY DEF CalmPaper, Ahead
<1>3. \A w \in Uploaders : Fresh(paper[w], d) \/ Ahead(paper[w], d) => paper'[w] = paper[w]
  BY DEF CalmPaper
<1>4. NextOnly(d)'
  BY DEF Chronicle, NextOnly, Ordered
<1>5. OneEach(d)'
  BY <1>1, <1>2 DEF Chronicle, OneEach
<1>6. AheadTold(d)'
  BY <1>2, <1>3 DEF Chronicle, AheadTold
<1>7. NoGap(d)'
  BY <1>1, <1>2 DEF Chronicle, NoGap, AnyFresh, AnyAhead, OnRecord
<1>8. LastIsShown(d)'
  BY <1>1, <1>3 DEF Chronicle, LastIsShown
<1>9. NothingLost(d)'
  BY <1>1, <1>3 DEF Chronicle, NothingLost
<1> QED BY <1>4, <1>5, <1>6, <1>7, <1>8, <1>9 DEF Chronicle

LEMMA ChroniclesKept ==
  ASSUME DocumentInv, halts = 0, NEW u \in Uploaders, NEW q, Turn(u, q), q \in Papers,
         revision' = revision, current' = current,
         \A d \in Docs : Kept(d) => CalmPaper(paper[u], d),
         \A d \in Docs : CalmPaper(q, d) /\ Ordered(q, d),
         \A d \in Docs : /\ Kept(d)' => Kept(d) /\ doc'[d].num = doc[d].num /\ doc'[d].key = doc[d].key
                         /\ doc'[d].state = "none" => doc[d].state = "none"
  PROVE  Chronicles'
<1>1. Chronicles /\ paper \in [Uploaders -> Papers] /\ paper' = [paper EXCEPT ![u] = q]
  BY DEF DocumentInv, DocumentRowsTyped, PapersTyped, Turn
<1>2. paper'[u] = q /\ \A w \in Uploaders : w # u => paper'[w] = paper[w]
  BY <1>1
<1>3. ASSUME NEW d \in Docs, Kept(d)' PROVE Chronicle(d)'
  <2>1. Chronicle(d) /\ Kept(d)
    BY <1>1, <1>3 DEF Chronicles
  <2> QED BY <1>2, <1>3, <2>1, ChronicleKept
<1>4. ASSUME NEW d \in Docs, doc'[d].state = "none" PROVE Unrecorded(d)'
  <2>1. Unrecorded(d)
    BY <1>1, <1>4 DEF Chronicles
  <2> QED BY <2>1 DEF Unrecorded
<1> QED BY <1>3, <1>4 DEF Chronicles

LEMMA BlankPaper ==
  /\ NoPaper \in Papers /\ NoPaper.pc = "rest" /\ NoPaper.id = 0 /\ NoPaper.place = Stay
  /\ NoPaper.size = 0 /\ NoPaper.key = 0 /\ NoPaper.num = 1
BY DEF NoPaper, Papers

LEMMA RestSound == ASSUME TablesTyped PROVE PaperSound(NoPaper) /\ \A d : CalmPaper(NoPaper, d) /\ Ordered(NoPaper, d)
<1>1. Len(object) \in Nat
  BY LengthIsNumber
<1>2. PaperSound(NoPaper)
  BY <1>1, BlankPaper DEF PaperSound
<1> QED BY <1>2, BlankPaper DEF CalmPaper, Fresh, Ahead, Ordered

\* A request that is taken up and writes nothing yet.
LEMMA AskKeeps ==
  ASSUME DocumentInv, NEW u \in Uploaders, NEW q, TakeUp(u, q), RowsStay, PaperSound(q), q.pc # "dropFolder",
         \A d \in Docs : CalmPaper(q, d) /\ Ordered(q, d)
  PROVE  DocumentInv'
<1>1. Turn(u, q) /\ paper[u] = NoPaper
  BY TakesUp
<1>2. TablesTyped /\ TablesTyped' /\ Grows
  BY DEF DocumentInv, DocumentRowsTyped, TablesTyped, RowsStay, Grows
<1>3. PaperSound(q)'
  BY <1>2, PaperKept
<1>4. q \in Papers /\ \A d \in Docs : CalmPaper(paper[u], d)
  BY <1>1, <1>2, RestSound DEF PaperSound
<1>5. halts = 0 => Chronicles'
  BY <1>1, <1>4, ChroniclesKept DEF RowsStay, Kept
<1> QED BY <1>1, <1>2, <1>3, <1>5, TurnKeeps

\* What is asked about a folder or a place: no version is in question.
LEMMA PlainSound ==
  ASSUME TablesTyped, NEW q \in Papers, q.key = 0, q.pc \in {"insertFolder", "updateFolder", "moveDoc", "dropFolder"},
         q.pc = "insertFolder" => q.place # Stay, q.pc \in {"updateFolder", "dropFolder"} => q.id \in Folders,
         q.pc = "moveDoc" => Filed(q.id)
  PROVE  PaperSound(q) /\ \A d : CalmPaper(q, d) /\ Ordered(q, d)
<1>1. Len(object) \in Nat
  BY LengthIsNumber
<1> QED BY <1>1 DEF PaperSound, CalmPaper, Fresh, Ahead, Ordered

LEMMA PlacesApart == Top \notin Folders /\ Stay \notin Folders /\ Stay # Top /\ 0 \notin Docs
BY DocumentsAssumption DEF Top, Stay

LEMMA PostFolderKeeps == ASSUME DocumentInv, NEW u \in Uploaders, PostFolder(u) PROVE DocumentInv'
<1>1. PICK up \in Folders \cup {Top}, n \in FileNames :
        /\ TakeUp(u, [NoPaper EXCEPT !.pc = "insertFolder", !.place = up, !.name = n])
        /\ RowsStay
  BY DEF PostFolder
<1>2. PICK z : z = NoPaper
  OBVIOUS
<1>3. PICK q : q = [z EXCEPT !.pc = "insertFolder", !.place = up, !.name = n]
  OBVIOUS
<1>4. q \in Papers /\ q.pc = "insertFolder" /\ q.place # Stay /\ q.key = 0
  BY <1>2, <1>3, BlankPaper, PlacesApart DEF Papers
<1>5. TakeUp(u, q) /\ RowsStay
  BY <1>1, <1>2, <1>3
<1>6. PaperSound(q) /\ \A d : CalmPaper(q, d) /\ Ordered(q, d)
  BY <1>4, PlainSound DEF DocumentInv, DocumentRowsTyped
<1> QED BY <1>4, <1>5, <1>6, AskKeeps

LEMMA PutFolderKeeps == ASSUME DocumentInv, NEW u \in Uploaders, PutFolder(u) PROVE DocumentInv'
<1>1. PICK f \in Folders, up \in Folders \cup {Top, Stay}, n \in FileNames \cup {"none"} :
        /\ TakeUp(u, [NoPaper EXCEPT !.pc = "updateFolder", !.id = f, !.place = up, !.name = n])
        /\ RowsStay
  BY DEF PutFolder
<1>2. PICK z : z = NoPaper
  OBVIOUS
<1>3. PICK q : q = [z EXCEPT !.pc = "updateFolder", !.id = f, !.place = up, !.name = n]
  OBVIOUS
<1>4. q \in Papers /\ q.pc = "updateFolder" /\ q.id \in Folders /\ q.key = 0
  BY <1>2, <1>3, BlankPaper DEF Papers
<1>5. TakeUp(u, q) /\ RowsStay
  BY <1>1, <1>2, <1>3
<1>6. PaperSound(q) /\ \A d : CalmPaper(q, d) /\ Ordered(q, d)
  BY <1>4, PlainSound DEF DocumentInv, DocumentRowsTyped
<1> QED BY <1>4, <1>5, <1>6, AskKeeps

LEMMA PutDocKeeps == ASSUME DocumentInv, NEW u \in Uploaders, PutDoc(u) PROVE DocumentInv'
<1>1. PICK d \in LiveDocs, f \in Folders \cup {Top, Stay}, n \in FileNames \cup {"none"} :
        /\ TakeUp(u, [NoPaper EXCEPT !.pc = "moveDoc", !.id = d, !.place = f, !.name = n])
        /\ RowsStay
  BY DEF PutDoc
<1>2. PICK z : z = NoPaper
  OBVIOUS
<1>3. PICK q : q = [z EXCEPT !.pc = "moveDoc", !.id = d, !.place = f, !.name = n]
  OBVIOUS
<1>4. q \in Papers /\ q.pc = "moveDoc" /\ Filed(q.id) /\ q.key = 0
  BY <1>2, <1>3, BlankPaper DEF Papers, LiveDocs, Filed
<1>5. TakeUp(u, q) /\ RowsStay
  BY <1>1, <1>2, <1>3
<1>6. PaperSound(q) /\ \A e : CalmPaper(q, e) /\ Ordered(q, e)
  BY <1>4, PlainSound DEF DocumentInv, DocumentRowsTyped
<1> QED BY <1>4, <1>5, <1>6, AskKeeps

LEMMA UploadKeeps == ASSUME DocumentInv, NEW u \in Uploaders, Upload(u) PROVE DocumentInv'
<1>1. PICK f \in Folders \cup {Top}, n \in FileNames, s \in Sizes :
        /\ TakeUp(u, [NoPaper EXCEPT !.pc = "put", !.place = f, !.name = n, !.size = s])
        /\ RowsStay
  BY DEF Upload
<1>2. PICK z : z = NoPaper
  OBVIOUS
<1>3. PICK q : q = [z EXCEPT !.pc = "put", !.place = f, !.name = n, !.size = s]
  OBVIOUS
<1>4. q \in Papers /\ q.pc = "put" /\ q.place # Stay /\ q.id = 0 /\ q.num = 1 /\ q.key = 0 /\ q.size \in Sizes
  BY <1>2, <1>3, BlankPaper, PlacesApart DEF Papers
<1>5. TakeUp(u, q) /\ RowsStay
  BY <1>1, <1>2, <1>3
<1>6. Len(object) \in Nat
  BY LengthIsNumber DEF DocumentInv, DocumentRowsTyped
<1>7. PaperSound(q)
  BY <1>4, <1>6 DEF PaperSound
<1>8. \A d \in Docs : CalmPaper(q, d) /\ Ordered(q, d)
  BY <1>4, PlacesApart DEF CalmPaper, Fresh, Ahead, Ordered
<1> QED BY <1>4, <1>5, <1>7, <1>8, AskKeeps

LEMMA ReplaceKeeps == ASSUME DocumentInv, NEW u \in Uploaders, Replace(u) PROVE DocumentInv'
<1>1. PICK d \in LiveDocs, n \in FileNames, s \in Sizes :
        /\ TakeUp(u, [NoPaper EXCEPT !.pc = "put", !.id = d, !.name = n, !.size = s, !.num = doc[d].num + 1])
        /\ RowsStay
  BY DEF Replace
<1>2. TablesTyped /\ Filed(d) /\ d \in Docs /\ doc[d].num \in Nat \ {0} /\ Len(object) \in Nat
  BY LengthIsNumber DEF DocumentInv, DocumentRowsTyped, TablesTyped, DocRows, LiveDocs, Filed
<1>3. PICK z : z = NoPaper
  OBVIOUS
<1>4. PICK m \in Nat \ {0} : m = doc[d].num + 1
  BY <1>2
<1>5. PICK q : q = [z EXCEPT !.pc = "put", !.id = d, !.name = n, !.size = s, !.num = m]
  OBVIOUS
<1>6. q \in Papers /\ q.pc = "put" /\ q.id = d /\ q.num = m /\ q.key = 0 /\ q.size \in Sizes
  BY <1>2, <1>3, <1>5, BlankPaper DEF Papers
<1>7. TakeUp(u, q) /\ RowsStay
  BY <1>1, <1>3, <1>4, <1>5
<1>8. PaperSound(q)
  BY <1>2, <1>4, <1>6, PlacesApart DEF PaperSound
<1>9. \A e \in Docs : CalmPaper(q, e) /\ Ordered(q, e)
  BY <1>2, <1>4, <1>6 DEF CalmPaper, Fresh, Ahead, Ordered
<1> QED BY <1>6, <1>7, <1>8, <1>9, AskKeeps

LEMMA RestoreRevisionKeeps == ASSUME DocumentInv, NEW u \in Uploaders, RestoreRevision(u) PROVE DocumentInv'
<1>1. PICK v \in revision :
        /\ v.doc \in LiveDocs
        /\ TakeUp(u, [NoPaper EXCEPT !.pc = "insertVersion", !.id = v.doc, !.name = v.name, !.key = v.key,
                             !.num = doc[v.doc].num + 1])
        /\ RowsStay
  BY DEF RestoreRevision
<1>2. /\ TablesTyped /\ Filed(v.doc) /\ v.doc \in Docs /\ doc[v.doc].num \in Nat \ {0}
      /\ v.key \in Nat \ {0} /\ v.key <= Len(object) /\ v.name \in FileNames \cup {"none"}
  BY <1>1 DEF DocumentInv, DocumentRowsTyped, TablesTyped, DocRows, LiveDocs, Filed, Revisions
<1>3. PICK z : z = NoPaper
  OBVIOUS
<1>4. PICK m \in Nat \ {0} : m = doc[v.doc].num + 1
  BY <1>2
<1>5. PICK q : q = [z EXCEPT !.pc = "insertVersion", !.id = v.doc, !.name = v.name, !.key = v.key, !.num = m]
  OBVIOUS
<1>6. q \in Papers /\ q.pc = "insertVersion" /\ q.id = v.doc /\ q.num = m /\ q.key = v.key
  BY <1>2, <1>3, <1>5, BlankPaper DEF Papers
<1>7. TakeUp(u, q) /\ RowsStay
  BY <1>1, <1>3, <1>4, <1>5
<1>8. PaperSound(q)
  BY <1>2, <1>4, <1>6 DEF PaperSound
<1>9. \A e \in Docs : CalmPaper(q, e) /\ Ordered(q, e)
  BY <1>2, <1>4, <1>6 DEF CalmPaper, Fresh, Ahead, Ordered
<1> QED BY <1>6, <1>7, <1>8, <1>9, AskKeeps

LEMMA DeleteFolderKeeps == ASSUME DocumentInv, NEW u \in Uploaders, DeleteFolder(u) PROVE DocumentInv'
<1>1. PICK f \in Folders :
        /\ folder[f].state = "live"
        /\ ~\E d \in LiveDocs : doc[d].folder = f
        /\ ~\E g \in Folders : folder[g].state = "live" /\ folder[g].up = f
        /\ TakeUp(u, [NoPaper EXCEPT !.pc = "dropFolder", !.id = f])
        /\ RowsStay
  BY DEF DeleteFolder
<1>2. PICK z : z = NoPaper
  OBVIOUS
<1>3. PICK q : q = [z EXCEPT !.pc = "dropFolder", !.id = f]
  OBVIOUS
<1>4. q \in Papers /\ q.pc = "dropFolder" /\ q.id = f /\ q.key = 0
  BY <1>2, <1>3, BlankPaper DEF Papers
<1>5. TakeUp(u, q) /\ RowsStay
  BY <1>1, <1>2, <1>3
<1>6. TablesTyped /\ TablesTyped' /\ Grows /\ PapersTyped
  BY <1>5 DEF DocumentInv, DocumentRowsTyped, TablesTyped, RowsStay, Grows
<1>7. PaperSound(q) /\ \A d : CalmPaper(q, d) /\ Ordered(q, d)
  BY <1>4, <1>6, PlainSound
<1>8. Turn(u, q) /\ paper[u] = NoPaper
  BY <1>5, TakesUp
<1>9. PaperSound(q)'
  BY <1>6, <1>7, PaperKept
<1>10. PapersTyped' /\ paper'[u] = q /\ \A w \in Uploaders : w # u => paper'[w] = paper[w]
  BY <1>6, <1>8, <1>9, TurnPapers
<1>11. DocumentRowsTyped'
  BY <1>6, <1>8, <1>10 DEF DocumentInv, DocumentRowsTyped, Turn
<1>12. \A d \in Docs : CalmPaper(paper[u], d)
  BY <1>6, <1>8, RestSound
<1>13. halts = 0 => Chronicles'
  BY <1>4, <1>5, <1>7, <1>8, <1>12, ChroniclesKept DEF RowsStay, Kept
<1>14. ASSUME oneByOne' PROVE LonePaper' /\ DropsEmpty'
  <2>1. \A w \in Uploaders : w # u => paper'[w].pc = "rest"
    BY <1>8, <1>10, <1>14 DEF Turn
  <2>2. LonePaper'
    BY <2>1 DEF LonePaper
  <2>3. DropsEmpty'
    BY <1>1, <1>4, <1>5, <1>10, <2>1 DEF DropsEmpty, RowsStay, LiveDocs
  <2> QED BY <2>2, <2>3
<1> QED BY <1>8, <1>11, <1>13, <1>14 DEF DocumentInv, Turn

\* The last step of a request that touched no version.
LEMMA PlainFinish ==
  ASSUME DocumentInv, NEW u \in Uploaders, Finished(u),
         paper[u].pc \in {"insertFolder", "updateFolder", "dropFolder", "insertDoc", "moveDoc"},
         TablesTyped', object' = object, revision' = revision, current' = current,
         \A d \in Docs : doc'[d].state = doc[d].state /\ doc'[d].num = doc[d].num /\ doc'[d].key = doc[d].key
  PROVE  DocumentInv'
<1>1. Turn(u, NoPaper)
  BY Continues DEF Finished
<1>2. PaperSound(NoPaper)' /\ \A d \in Docs : CalmPaper(NoPaper, d) /\ Ordered(NoPaper, d)
  <2>1. PaperSound(NoPaper) /\ \A d \in Docs : CalmPaper(NoPaper, d) /\ Ordered(NoPaper, d)
    BY RestSound DEF DocumentInv, DocumentRowsTyped
  <2>2. Grows
    BY LengthIsNumber DEF DocumentInv, DocumentRowsTyped, Grows
  <2> QED BY <2>1, <2>2, PaperKept DEF DocumentInv, DocumentRowsTyped
<1>3. Grows
  BY LengthIsNumber DEF DocumentInv, DocumentRowsTyped, Grows
<1>4. \A d \in Docs : CalmPaper(paper[u], d)
  BY DEF CalmPaper, Fresh, Ahead
<1>5. \A d \in Docs : Kept(d)' <=> Kept(d)
  BY DEF Kept
<1>6. halts = 0 => Chronicles'
  BY <1>1, <1>2, <1>4, <1>5, BlankPaper, ChroniclesKept
<1> QED BY <1>1, <1>2, <1>3, <1>6, BlankPaper, TurnKeeps

LEMMA InsertFolderKeeps == ASSUME DocumentInv, NEW u \in Uploaders, InsertFolder(u) PROVE DocumentInv'
<1> DEFINE free == {f \in Folders : folder[f].state = "none"}
           q == paper[u]
<1>1. /\ q.pc = "insertFolder" /\ Finished(u)
      /\ \/ folder' = folder
         \/ free # {} /\ folder' = [folder EXCEPT ![Min(free)] = [state |-> "live", up |-> q.place, name |-> q.name]]
      /\ UNCHANGED <<space, doc, revision, object, current>>
  BY DEF InsertFolder, Waits
<1>2. TablesTyped /\ q.place \in Folders \cup {Top} /\ q.name \in FileNames \cup {"none"}
  BY <1>1 DEF DocumentInv, DocumentRowsTyped, PapersTyped, PaperSound, Papers
<1>3. folder' \in [Folders -> FolderRows]
  <2>1. PICK entry : entry = [state |-> "live", up |-> q.place, name |-> q.name]
    OBVIOUS
  <2>2. entry \in FolderRows
    BY <1>2, <2>1 DEF FolderRows
  <2> QED BY <1>1, <1>2, <2>1, <2>2 DEF TablesTyped
<1>4. TablesTyped'
  BY <1>1, <1>2, <1>3 DEF TablesTyped
<1> QED BY <1>1, <1>4, PlainFinish

LEMMA UpdateFolderKeeps == ASSUME DocumentInv, NEW u \in Uploaders, UpdateFolder(u) PROVE DocumentInv'
<1> DEFINE q == paper[u]
           entry == [folder[q.id] EXCEPT !.up = IF q.place = Stay THEN @ ELSE q.place,
                                       !.name = IF q.name = "none" THEN @ ELSE q.name]
<1>1. /\ q.pc = "updateFolder" /\ Finished(u)
      /\ folder' = folder \/ folder' = [folder EXCEPT ![q.id] = entry]
      /\ UNCHANGED <<space, doc, revision, object, current>>
  BY DEF UpdateFolder, Waits
<1>2. TablesTyped /\ q.id \in Folders /\ q.place \in Folders \cup {Top, Stay} /\ q.name \in FileNames \cup {"none"}
  BY <1>1 DEF DocumentInv, DocumentRowsTyped, PapersTyped, PaperSound, Papers
<1>3. entry \in FolderRows
  <2>1. PICK f : f = folder[q.id]
    OBVIOUS
  <2>2. f \in FolderRows
    BY <1>2, <2>1 DEF TablesTyped
  <2>3. [f EXCEPT !.up = IF q.place = Stay THEN @ ELSE q.place,
                  !.name = IF q.name = "none" THEN @ ELSE q.name] \in FolderRows
    BY <1>2, <2>2 DEF FolderRows
  <2> QED BY <2>1, <2>3
<1>4. folder' \in [Folders -> FolderRows]
  BY <1>1, <1>2, <1>3 DEF TablesTyped
<1>5. TablesTyped'
  BY <1>1, <1>2, <1>4 DEF TablesTyped
<1> QED BY <1>1, <1>5, PlainFinish

LEMMA DropFolderKeeps == ASSUME DocumentInv, NEW u \in Uploaders, DropFolder(u) PROVE DocumentInv'
<1> DEFINE gone == Subtree(paper[u].id)
<1>1. /\ paper[u].pc = "dropFolder" /\ Finished(u)
      /\ folder' = [f \in Folders |-> IF f \in gone /\ folder[f].state = "live"
                                      THEN [NoFolder EXCEPT !.state = "gone"] ELSE folder[f]]
      /\ doc' = [d \in Docs |-> IF doc[d].folder \in gone THEN [doc[d] EXCEPT !.folder = Top] ELSE doc[d]]
      /\ UNCHANGED <<space, revision, object, current>>
  BY DEF DropFolder, Waits
<1> HIDE DEF gone
<1>2. TablesTyped
  BY DEF DocumentInv, DocumentRowsTyped
<1>3. [NoFolder EXCEPT !.state = "gone"] \in FolderRows
  <2>1. PICK n : n = NoFolder
    OBVIOUS
  <2>2. n \in FolderRows
    BY <2>1 DEF NoFolder, FolderRows
  <2>3. [n EXCEPT !.state = "gone"] \in FolderRows
    BY <2>2 DEF FolderRows
  <2> QED BY <2>1, <2>3
<1>4. folder' \in [Folders -> FolderRows]
  BY <1>1, <1>2, <1>3 DEF TablesTyped
<1>5. ASSUME NEW d \in Docs
      PROVE  /\ doc'[d] \in DocRows /\ doc'[d].state = doc[d].state /\ doc'[d].num = doc[d].num
             /\ doc'[d].key = doc[d].key
  <2>1. doc[d] \in DocRows /\ (doc'[d] = doc[d] \/ doc'[d] = [doc[d] EXCEPT !.folder = Top])
    BY <1>1, <1>2 DEF TablesTyped
  <2> QED BY <2>1 DEF DocRows
<1>6. doc' \in [Docs -> DocRows]
  BY <1>1, <1>5
<1>7. TablesTyped'
  BY <1>1, <1>2, <1>4, <1>5, <1>6 DEF TablesTyped
<1> QED BY <1>1, <1>5, <1>7, PlainFinish

LEMMA MoveDocKeeps == ASSUME DocumentInv, NEW u \in Uploaders, MoveDoc(u) PROVE DocumentInv'
<1> DEFINE q == paper[u]
<1>1. /\ q.pc = "moveDoc" /\ Finished(u)
      /\ \/ doc' = doc
         \/ doc' = [doc EXCEPT ![q.id].folder = IF q.place = Stay THEN @ ELSE q.place,
                               ![q.id].name = IF q.name = "none" THEN @ ELSE q.name]
      /\ UNCHANGED <<space, folder, revision, object, current>>
  BY DEF MoveDoc, Waits
<1>2. /\ TablesTyped /\ q.id \in Docs /\ q.place \in Folders \cup {Top, Stay} /\ q.name \in FileNames \cup {"none"}
  BY <1>1 DEF DocumentInv, DocumentRowsTyped, PapersTyped, PaperSound, Papers, Filed
<1>3. ASSUME NEW d \in Docs
      PROVE  /\ doc'[d] \in DocRows /\ doc'[d].state = doc[d].state /\ doc'[d].num = doc[d].num
             /\ doc'[d].key = doc[d].key
  <2>1. doc \in [Docs -> DocRows] /\ doc[d] \in DocRows
    BY <1>2 DEF TablesTyped
  <2>2. \/ doc'[d] = doc[d]
        \/ doc'[d] = [doc[d] EXCEPT !.folder = IF q.place = Stay THEN @ ELSE q.place,
                                    !.name = IF q.name = "none" THEN @ ELSE q.name]
    BY <1>1, <1>2, <2>1
  <2> QED BY <1>2, <2>1, <2>2 DEF DocRows
<1>4. doc' \in [Docs -> DocRows]
  BY <1>1, <1>2, <1>3 DEF TablesTyped
<1>5. TablesTyped'
  BY <1>1, <1>2, <1>3, <1>4 DEF TablesTyped
<1> QED BY <1>1, <1>3, <1>5, PlainFinish

\* What is done at once: a document or the Space is marked.
LEMMA MarkKeeps ==
  ASSUME DocumentInv, NEW u \in Uploaders, TakeUp(u, NoPaper), TablesTyped', Grows, halts = 0 => Chronicles'
  PROVE  DocumentInv'
<1>1. Turn(u, NoPaper)
  BY TakesUp
<1>2. PaperSound(NoPaper)'
  <2>1. PaperSound(NoPaper)
    BY RestSound DEF DocumentInv, DocumentRowsTyped
  <2> QED BY <2>1, PaperKept DEF DocumentInv, DocumentRowsTyped
<1> QED BY <1>1, <1>2, BlankPaper, TurnKeeps

LEMMA MarkChronicles ==
  ASSUME DocumentInv, halts = 0, NEW u \in Uploaders, TakeUp(u, NoPaper),
         revision' = revision, current' = current,
         \A d \in Docs : /\ Kept(d)' => Kept(d) /\ doc'[d].num = doc[d].num /\ doc'[d].key = doc[d].key
                         /\ doc'[d].state = "none" => doc[d].state = "none"
  PROVE  Chronicles'
<1>1. Turn(u, NoPaper) /\ paper[u] = NoPaper
  BY TakesUp
<1>2. \A d \in Docs : CalmPaper(NoPaper, d) /\ Ordered(NoPaper, d)
  BY RestSound DEF DocumentInv, DocumentRowsTyped
<1> QED BY <1>1, <1>2, BlankPaper, ChroniclesKept

LEMMA DeleteDocKeeps == ASSUME DocumentInv, NEW u \in Uploaders, DeleteDoc(u) PROVE DocumentInv'
<1>1. PICK d \in LiveDocs :
        /\ TakeUp(u, NoPaper)
        /\ doc' = [doc EXCEPT ![d].state = "deleted"]
        /\ UNCHANGED <<space, folder, revision, object, current>>
  BY DEF DeleteDoc
<1>2. TablesTyped /\ d \in Docs /\ doc[d].state = "live" /\ doc \in [Docs -> DocRows]
  BY DEF DocumentInv, DocumentRowsTyped, TablesTyped, LiveDocs
<1>3. \A e \in Docs : /\ doc'[e] \in DocRows /\ doc'[e].num = doc[e].num /\ doc'[e].key = doc[e].key
                      /\ doc'[e].state = IF e = d THEN "deleted" ELSE doc[e].state
  BY <1>1, <1>2 DEF DocRows
<1>4. doc' \in [Docs -> DocRows]
  BY <1>1, <1>2, <1>3
<1>5. TablesTyped' /\ Grows
  BY <1>1, <1>2, <1>3, <1>4, LengthIsNumber DEF TablesTyped, Grows
<1>6. \A e \in Docs : (Kept(e)' => Kept(e)) /\ (doc'[e].state = "none" => doc[e].state = "none")
  BY <1>2, <1>3 DEF Kept
<1>7. halts = 0 => Chronicles'
  BY <1>1, <1>3, <1>6, MarkChronicles
<1> QED BY <1>1, <1>5, <1>7, MarkKeeps

LEMMA ArchiveSpaceKeeps == ASSUME DocumentInv, NEW u \in Uploaders, ArchiveSpace(u) PROVE DocumentInv'
<1>1. /\ TakeUp(u, NoPaper)
      /\ space' = IF space = "open" THEN "archived" ELSE "open"
      /\ UNCHANGED <<folder, doc, revision, object, current>>
  BY DEF ArchiveSpace
<1>2. TablesTyped
  BY DEF DocumentInv, DocumentRowsTyped
<1>3. TablesTyped' /\ Grows
  BY <1>1, <1>2, LengthIsNumber DEF TablesTyped, Grows
<1>4. halts = 0 => Chronicles'
  BY <1>1, MarkChronicles DEF Kept
<1> QED BY <1>1, <1>3, <1>4, MarkKeeps

LEMMA DeleteSpaceKeeps == ASSUME DocumentInv, NEW u \in Uploaders, DeleteSpace(u) PROVE DocumentInv'
<1>1. /\ TakeUp(u, NoPaper) /\ space' = "gone"
      /\ folder' = [f \in Folders |-> IF folder[f].state = "live" THEN [NoFolder EXCEPT !.state = "gone"]
                                      ELSE folder[f]]
      /\ doc' = [d \in Docs |-> IF Kept(d) THEN [doc[d] EXCEPT !.state = "gone", !.folder = Top] ELSE doc[d]]
      /\ revision' = {}
      /\ UNCHANGED <<object, current>>
  BY DEF DeleteSpace
<1>2. TablesTyped
  BY DEF DocumentInv, DocumentRowsTyped
<1>3. [NoFolder EXCEPT !.state = "gone"] \in FolderRows
  <2>1. PICK n : n = NoFolder
    OBVIOUS
  <2>2. n \in FolderRows
    BY <2>1 DEF NoFolder, FolderRows
  <2>3. [n EXCEPT !.state = "gone"] \in FolderRows
    BY <2>2 DEF FolderRows
  <2> QED BY <2>1, <2>3
<1>4. folder' \in [Folders -> FolderRows]
  BY <1>1, <1>2, <1>3 DEF TablesTyped
<1>5. ASSUME NEW d \in Docs
      PROVE  doc'[d] \in DocRows /\ doc'[d].key = doc[d].key
             /\ doc'[d].state = IF Kept(d) THEN "gone" ELSE doc[d].state
  <2>1. doc[d] \in DocRows /\ doc'[d] = IF Kept(d) THEN [doc[d] EXCEPT !.state = "gone", !.folder = Top] ELSE doc[d]
    BY <1>1, <1>2 DEF TablesTyped
  <2>2. [doc[d] EXCEPT !.state = "gone", !.folder = Top] \in DocRows
    BY <2>1 DEF DocRows
  <2> QED BY <2>1, <2>2 DEF DocRows
<1>6. doc' \in [Docs -> DocRows]
  BY <1>1, <1>5
<1>7. TablesTyped'
  BY <1>1, <1>2, <1>4, <1>5, <1>6 DEF TablesTyped
<1>8. Grows
  <2>1. \A d \in Docs : doc[d].state # "none" => doc'[d].state # "none"
    BY <1>5
  <2>2. object' = object /\ Len(object) \in Nat
    BY <1>1, <1>2, LengthIsNumber
  <2> QED BY <2>1, <2>2 DEF Grows
<1>9. \A d \in Docs : ~Kept(d)' /\ (doc'[d].state = "none" => doc[d].state = "none")
  BY <1>5 DEF Kept
<1>10. ASSUME halts = 0 PROVE Chronicles'
  <2>1. Chronicles
    BY <1>10 DEF DocumentInv
  <2> QED BY <1>1, <1>9, <2>1 DEF Chronicles, Unrecorded
<1> QED BY <1>1, <1>7, <1>8, <1>10, MarkKeeps

LEMMA HaltKeeps == ASSUME DocumentInv, Halt PROVE DocumentInv'
<1>1. /\ halts < MaxHalts /\ halts' = halts + 1
      /\ paper' = [u \in Uploaders |-> NoPaper]
      /\ UNCHANGED <<filed, oneByOne>> /\ RowsStay
  BY DEF Halt
<1>2. TablesTyped /\ TablesTyped' /\ Grows
  BY <1>1, LengthIsNumber DEF DocumentInv, DocumentRowsTyped, TablesTyped, RowsStay, Grows
<1>3. PaperSound(NoPaper)'
  BY <1>2, RestSound, PaperKept
<1>4. PapersTyped'
  BY <1>1, <1>3, BlankPaper DEF PapersTyped
<1>5. halts' \in 0..MaxHalts /\ halts' # 0
  BY <1>1, DocumentsAssumption DEF DocumentInv, DocumentRowsTyped
<1>6. DocumentRowsTyped'
  BY <1>1, <1>2, <1>4, <1>5 DEF DocumentInv, DocumentRowsTyped
<1>7. LonePaper' /\ DropsEmpty'
  BY <1>1, BlankPaper DEF LonePaper, DropsEmpty
<1> QED BY <1>5, <1>6, <1>7 DEF DocumentInv

LEMMA PutObjectKeeps == ASSUME DocumentInv, NEW u \in Uploaders, PutObject(u) PROVE DocumentInv'
<1>1. /\ paper[u].pc = "put"
      /\ object' = Append(object, paper[u].size)
      /\ Continue(u, [paper[u] EXCEPT !.key = Len(object) + 1,
                              !.pc = IF paper[u].id = 0 THEN "insertDoc" ELSE "insertVersion"])
      /\ UNCHANGED <<space, folder, doc, revision, current>>
  BY DEF PutObject, Waits
<1>2. TablesTyped /\ PapersTyped /\ object \in Seq(Sizes)
  BY DEF DocumentInv, DocumentRowsTyped, TablesTyped
<1>3. PICK p : p = paper[u]
  OBVIOUS
<1>4. PICK n \in Nat : n = Len(object)
  BY <1>2, LengthIsNumber
<1>5. PICK q : q = [p EXCEPT !.key = n + 1, !.pc = IF p.id = 0 THEN "insertDoc" ELSE "insertVersion"]
  OBVIOUS
<1> DEFINE next == IF p.id = 0 THEN "insertDoc" ELSE "insertVersion"
<1>6. /\ PaperSound(p) /\ p \in Papers /\ p.pc = "put" /\ p.size \in Sizes
      /\ p.id # 0 => p.num > 1 /\ Filed(p.id)
      /\ p.id = 0 => p.num = 1 /\ p.place # Stay
  BY <1>1, <1>2, <1>3 DEF PapersTyped, PaperSound
<1>7. /\ q \in Papers /\ q.pc = IF p.id = 0 THEN "insertDoc" ELSE "insertVersion"
      /\ q.key = n + 1 /\ q.id = p.id /\ q.num = p.num /\ q.place = p.place
  <2>1. PICK s \in {"insertDoc", "insertVersion"}, k \in Nat : s = next /\ k = n + 1
    BY <1>4
  <2>2. q = [p EXCEPT !.key = k, !.pc = s]
    BY <1>5, <2>1
  <2>3. q \in Papers /\ q.pc = s /\ q.key = k /\ q.id = p.id /\ q.num = p.num /\ q.place = p.place
    BY <1>6, <2>2 DEF Papers
  <2> QED BY <2>1, <2>3
<1>8. object' \in Seq(Sizes) /\ Len(object') = n + 1
  BY <1>1, <1>2, <1>3, <1>4, <1>6
<1>9. Grows
  BY <1>1, <1>4, <1>8 DEF Grows
<1>10. TablesTyped'
  <2>1. \A k \in Nat : k <= Len(object) => k <= Len(object')
    BY <1>4, <1>8
  <2>2. doc' \in [Docs -> DocRows] /\ \A d \in Docs : doc'[d].key <= Len(object')
    BY <1>1, <1>2, <2>1 DEF TablesTyped, DocRows
  <2>3. \A v \in revision' : v.key <= Len(object')
    BY <1>1, <1>2, <2>1 DEF TablesTyped, Revisions
  <2>4. current' \subseteq Docs \X (1..Len(object'))
    BY <1>1, <1>2, <1>4, <1>8 DEF TablesTyped
  <2> QED BY <1>1, <1>2, <1>8, <2>2, <2>3, <2>4 DEF TablesTyped
<1>11. Continue(u, q) /\ paper[u].pc # "rest"
  BY <1>1, <1>3, <1>4, <1>5
<1>12. Turn(u, q)
  BY <1>11, Continues
<1>13. PaperSound(q)'
  <2>1. Filed(p.id) => Filed(p.id)'
    BY <1>1 DEF Filed
  <2> QED BY <1>4, <1>6, <1>7, <1>8, <2>1 DEF PaperSound
<1>14. ASSUME halts = 0 PROVE Chronicles'
  <2>1. Chronicles
    BY <1>14 DEF DocumentInv
  <2>2. \A d \in Docs : Kept(d) => CalmPaper(paper[u], d)
    BY <1>1 DEF CalmPaper, Fresh, Ahead
  <2>3. Turn(u, q) /\ q \in Papers /\ revision' = revision /\ current' = current
    BY <1>1, <1>7, <1>12
  <2>4. PICK w : w = paper'[u] /\ \A e \in Uploaders : e # u => paper'[e] = paper[e]
    BY <1>2, <1>12 DEF PapersTyped, Turn
  <2>5. w = q
    BY <1>2, <1>7, <1>12, <2>4 DEF PapersTyped, Turn
  <2>6. ASSUME NEW d \in Docs, Kept(d)' PROVE Chronicle(d)'
    <3>1. Chronicle(d)
      BY <1>1, <2>1, <2>6 DEF Chronicles, Kept
    <3>2. Ordered(q, d) /\ CalmPaper(q, d) /\ CalmPaper(paper[u], d)
      BY <1>1, <1>3, <1>6, <1>7, <3>1 DEF Chronicle, NextOnly, Ordered, CalmPaper, Fresh, Ahead
    <3> QED BY <1>1, <2>4, <2>5, <3>1, <3>2, ChronicleKept
  <2>7. ASSUME NEW d \in Docs, doc'[d].state = "none" PROVE Unrecorded(d)'
    BY <1>1, <2>1, <2>7 DEF Chronicles, Unrecorded
  <2> QED BY <2>6, <2>7 DEF Chronicles
<1> QED BY <1>7, <1>9, <1>10, <1>12, <1>13, <1>14, TurnKeeps

LEMMA InsertDocKeeps == ASSUME DocumentInv, NEW u \in Uploaders, InsertDoc(u) PROVE DocumentInv'
<1> DEFINE free == {d \in Docs : doc[d].state = "none"}
<1>1. /\ paper[u].pc = "insertDoc"
      /\ IF space # "gone" /\ Standing(paper[u].place) /\ free # {}
         THEN /\ doc' = [doc EXCEPT ![Min(free)] = [state |-> "live", folder |-> paper[u].place,
                                                   name |-> paper[u].name, key |-> paper[u].key, num |-> 1]]
              /\ current' = current \cup {<<Min(free), paper[u].key>>}
              /\ Continue(u, [paper[u] EXCEPT !.pc = "insertVersion", !.id = Min(free)])
         ELSE Finished(u) /\ UNCHANGED <<doc, current>>
      /\ UNCHANGED <<space, folder, revision, object>>
  BY DEF InsertDoc, Waits
<1>2. TablesTyped /\ PapersTyped
  BY DEF DocumentInv, DocumentRowsTyped
<1>3. CASE ~(space # "gone" /\ Standing(paper[u].place) /\ free # {})
  <2>1. Finished(u) /\ UNCHANGED <<doc, current, space, folder, revision, object>>
    BY <1>1, <1>3
  <2>2. TablesTyped'
    BY <1>2, <2>1 DEF TablesTyped
  <2> QED BY <1>1, <2>1, <2>2, PlainFinish
<1>4. CASE space # "gone" /\ Standing(paper[u].place) /\ free # {}
  <2>1. PICK m \in free : m = Min(free)
    <3>1. free \subseteq Nat
      BY DocumentsAssumption
    <3>2. \E m \in free : \A n \in free : m <= n
      BY <1>4, <3>1, LeastOf
    <3> QED BY <3>2 DEF Min
  <2>2. m \in Docs /\ doc[m].state = "none"
    BY <2>1
  <2>3. PICK p : p = paper[u]
    OBVIOUS
  <2>4. /\ PaperSound(p) /\ p \in Papers /\ p.pc = "insertDoc" /\ p.num = 1 /\ p.key \in Nat \ {0}
        /\ p.place \in Folders \cup {Top} /\ p.name \in FileNames \cup {"none"} /\ p.key <= Len(object)
    BY <1>1, <1>2, <2>3 DEF PapersTyped, PaperSound, Papers
  <2>5. PICK entry : entry = [state |-> "live", folder |-> p.place, name |-> p.name, key |-> p.key, num |-> 1]
    OBVIOUS
  <2>6. entry \in DocRows /\ entry.state = "live" /\ entry.key = p.key /\ entry.num = 1
    BY <2>4, <2>5 DEF DocRows
  <2>7. PICK q : q = [p EXCEPT !.pc = "insertVersion", !.id = m]
    OBVIOUS
  <2>8. q \in Papers /\ q.pc = "insertVersion" /\ q.id = m /\ q.num = 1 /\ q.key = p.key
    BY <2>2, <2>4, <2>7 DEF Papers
  <2>9. /\ doc' = [doc EXCEPT ![m] = entry] /\ current' = current \cup {<<m, p.key>>}
        /\ Continue(u, q) /\ UNCHANGED <<space, folder, revision, object>>
    BY <1>1, <1>4, <2>1, <2>3, <2>5, <2>7
  <2> HIDE DEF free
  <2>10. doc' \in [Docs -> DocRows] /\ doc'[m] = entry /\ \A d \in Docs : d # m => doc'[d] = doc[d]
    BY <1>2, <2>2, <2>6, <2>9 DEF TablesTyped
  <2>11. Len(object) \in Nat /\ object' = object
    BY <1>2, <2>9, LengthIsNumber
  <2>12. TablesTyped'
    <3>1. current' \subseteq Docs \X (1..Len(object))
      BY <1>2, <2>2, <2>4, <2>9, <2>11 DEF TablesTyped
    <3>2. \A d \in Docs : doc'[d].key <= Len(object)
      BY <1>2, <2>4, <2>6, <2>10 DEF TablesTyped
    <3> QED BY <1>2, <2>9, <2>10, <2>11, <3>1, <3>2 DEF TablesTyped
  <2>13. Grows
    BY <2>6, <2>10, <2>11 DEF Grows
  <2>14. Turn(u, q)
    BY <1>1, <2>9, Continues
  <2>15. PaperSound(q)'
    <3>1. Filed(m)'
      BY <2>2, <2>6, <2>10 DEF Filed
    <3> QED BY <2>4, <2>8, <2>11, <3>1 DEF PaperSound
  <2>16. paper'[u] = q /\ \A w \in Uploaders : w # u => paper'[w] = paper[w]
    BY <1>2, <2>12, <2>13, <2>14, <2>15, TurnPapers
  <2>17. ASSUME halts = 0 PROVE Chronicles'
    <3>1. Chronicles
      BY <2>17 DEF DocumentInv
    <3>2. ASSUME NEW d \in Docs, d # m, Kept(d)' PROVE Chronicle(d)'
      <4>1. Kept(d) /\ doc'[d].num = doc[d].num /\ doc'[d].key = doc[d].key
        BY <2>10, <3>2 DEF Kept
      <4>2. Chronicle(d)
        BY <3>1, <4>1 DEF Chronicles
      <4>3. CalmPaper(paper[u], d) /\ CalmPaper(q, d) /\ Ordered(q, d)
        BY <1>1, <2>8, <3>2 DEF CalmPaper, Fresh, Ahead, Ordered
      <4>4. \A k \in Nat : <<d, k>> \in current' => <<d, k>> \in current
        BY <2>9, <3>2
      <4>5. revision' = revision
        BY <2>9
      <4> QED BY <2>16, <4>1, <4>2, <4>3, <4>4, <4>5, ChronicleKept
    <3>3. Chronicle(m)'
      <4>1. Unrecorded(m)
        BY <2>2, <3>1 DEF Chronicles
      <4>2. \A w \in Uploaders : w # u => ~(paper'[w].pc \in {"insertVersion", "updateDoc"} /\ paper'[w].id = m)
                                           /\ ~(paper'[w].pc = "put" /\ paper'[w].id = m)
        <5>1. ~Filed(m) /\ m # 0
          BY <2>2, PlacesApart DEF Filed
        <5> QED BY <1>2, <2>16, <5>1 DEF PapersTyped, PaperSound
      <4>3. Fresh(paper[u], m)'
        BY <2>8, <2>16 DEF Fresh
      <4>4. \A w \in Uploaders : w # u => ~Fresh(paper[w], m)'
        BY <4>2 DEF Fresh
      <4>5. \A w \in Uploaders : ~Ahead(paper[w], m)'
        BY <2>8, <2>16, <4>2 DEF Ahead
      <4>6. NextOnly(m)'
        BY <2>6, <2>8, <2>10, <2>16, <4>2 DEF NextOnly
      <4>7. OneEach(m)' /\ AheadTold(m)'
        BY <4>4, <4>5 DEF OneEach, AheadTold
      <4>8. NoGap(m)'
        <5>1. \A n \in Nat : ~OnRecord(m, n)'
          BY <2>9, <4>1 DEF OnRecord, Unrecorded
        <5>2. AnyFresh(m)' /\ ~AnyAhead(m)' /\ doc'[m].num = 1
          BY <2>6, <2>10, <4>3, <4>5 DEF AnyFresh, AnyAhead
        <5> QED BY <5>1, <5>2 DEF NoGap
      <4>9. LastIsShown(m)'
        BY <2>6, <2>8, <2>9, <2>10, <2>16, <4>1, <4>4 DEF LastIsShown, Unrecorded
      <4>10. NothingLost(m)'
        BY <2>8, <2>9, <2>16, <4>1, <4>3 DEF NothingLost, Unrecorded
      <4> QED BY <4>6, <4>7, <4>8, <4>9, <4>10 DEF Chronicle
    <3>4. ASSUME NEW d \in Docs, doc'[d].state = "none" PROVE Unrecorded(d)'
      <4>1. d # m /\ doc[d].state = "none"
        BY <2>6, <2>10, <3>4
      <4>2. Unrecorded(d)
        BY <3>1, <4>1 DEF Chronicles
      <4> QED BY <2>9, <4>1, <4>2 DEF Unrecorded
    <3> QED BY <3>2, <3>3, <3>4 DEF Chronicles
  <2> QED BY <2>8, <2>12, <2>13, <2>14, <2>15, <2>17, TurnKeeps
<1> QED BY <1>3, <1>4

\* A request that could not write its version, or show it, ends.
LEMMA Rejected ==
  ASSUME DocumentInv, NEW u \in Uploaders, Finished(u), paper[u].pc # "rest",
         UNCHANGED <<space, folder, doc, revision, object, current>>,
         halts = 0 => \A d \in Docs : Kept(d) => CalmPaper(paper[u], d)
  PROVE  DocumentInv'
<1>1. Turn(u, NoPaper)
  BY Continues DEF Finished
<1>2. TablesTyped /\ TablesTyped' /\ Grows
  BY LengthIsNumber DEF DocumentInv, DocumentRowsTyped, TablesTyped, Grows
<1>3. PaperSound(NoPaper)' /\ \A d \in Docs : CalmPaper(NoPaper, d) /\ Ordered(NoPaper, d)
  BY <1>2, RestSound, PaperKept
<1>4. halts = 0 => Chronicles'
  BY <1>1, <1>3, BlankPaper, ChroniclesKept DEF Kept
<1> QED BY <1>1, <1>2, <1>3, <1>4, BlankPaper, TurnKeeps

\* A version is written: the first one of a new document, or the next one of a
\* document that does not show it yet.
LEMMA VersionWritten ==
  ASSUME NEW d \in Docs, Chronicle(d), doc \in [Docs -> DocRows], doc' = doc, revision \subseteq Revisions,
         NEW u \in Uploaders, NEW p, p = paper[u], PaperSound(p), p.pc = "insertVersion", p.id = d,
         ~OnRecord(d, p.num), current' = current,
         NEW v, v.doc = d, v.num = p.num, v.key = p.key, revision' = revision \cup {v},
         NEW q, paper'[u] = q, \A w \in Uploaders : w # u => paper'[w] = paper[w],
         IF p.num = 1 THEN q.pc = "rest" ELSE q.pc = "updateDoc" /\ q.id = d /\ q.num = p.num /\ q.key = p.key
  PROVE  Chronicle(d)'
<1>1. doc[d].num \in Nat \ {0} /\ p.num \in Nat \ {0} /\ p.num <= doc[d].num + 1
  BY DEF DocRows, PaperSound, Papers, Chronicle, NextOnly
<1>2. \A n \in Nat : OnRecord(d, n)' <=> OnRecord(d, n) \/ n = p.num
  BY DEF OnRecord
<1>3. p.num # 1 => p.num = doc[d].num + 1 /\ ~AnyAhead(d)
  BY <1>1 DEF Chronicle, NoGap
<1>4. NextOnly(d)'
  BY DEF Chronicle, NextOnly
<1>5. CASE p.num = 1
  <2>1. Fresh(p, d) /\ \A w \in Uploaders : w # u => ~Fresh(paper[w], d)
    BY <1>5 DEF Fresh, Chronicle, OneEach
  <2>2. \A w \in Uploaders : ~Fresh(paper[w], d)'
    BY <1>5, <2>1 DEF Fresh
  <2>3. \A w \in Uploaders : /\ Ahead(paper[w], d)' <=> Ahead(paper[w], d)
                             /\ Ahead(paper[w], d) => paper'[w] = paper[w]
    BY <1>5 DEF Ahead
  <2>4. OneEach(d)'
    BY <2>2, <2>3 DEF OneEach, Chronicle
  <2>5. AheadTold(d)'
    BY <1>1, <1>5, <2>3 DEF AheadTold, Chronicle
  <2>6. NoGap(d)'
    <3>1. (AnyAhead(d)' <=> AnyAhead(d)) /\ ~AnyFresh(d)' /\ AnyFresh(d)
      BY <2>1, <2>2, <2>3 DEF AnyAhead, AnyFresh
    <3>2. \A n \in Nat : OnRecord(d, n) <=> /\ n # 0 /\ (n <= doc[d].num \/ (n = doc[d].num + 1 /\ AnyAhead(d)))
                                            /\ ~(n = 1 /\ AnyFresh(d))
      BY DEF Chronicle, NoGap
    <3> QED BY <1>1, <1>2, <1>5, <3>1, <3>2 DEF NoGap
  <2>7. LastIsShown(d)'
    BY <1>5, <2>1, <2>2 DEF LastIsShown, Chronicle
  <2>8. NothingLost(d)'
    BY <2>1 DEF NothingLost, Chronicle
  <2> QED BY <1>4, <2>4, <2>5, <2>6, <2>7, <2>8 DEF Chronicle
<1>6. CASE p.num # 1
  <2>1. Ahead(paper[u], d)' /\ ~Fresh(paper[u], d)' /\ ~Fresh(paper[u], d)
    BY <1>6 DEF Ahead, Fresh
  <2>2. \A w \in Uploaders : w # u => ~Ahead(paper[w], d)'
    BY <1>3, <1>6 DEF AnyAhead, Ahead
  <2>3. \A w \in Uploaders : /\ Fresh(paper[w], d)' <=> Fresh(paper[w], d)
                             /\ Fresh(paper[w], d) => paper'[w] = paper[w]
    BY <2>1 DEF Fresh
  <2>4. OneEach(d)'
    BY <2>2, <2>3 DEF OneEach, Chronicle
  <2>5. AheadTold(d)'
    <3>1. \A x \in revision : ~(x.doc = d /\ x.num = p.num)
      BY DEF OnRecord
    <3> QED BY <1>3, <1>6, <2>2, <3>1 DEF AheadTold
  <2>6. NoGap(d)'
    <3>1. AnyAhead(d)' /\ ~AnyAhead(d) /\ (AnyFresh(d)' <=> AnyFresh(d))
      BY <1>3, <1>6, <2>1, <2>3 DEF AnyAhead, AnyFresh
    <3>2. \A n \in Nat : OnRecord(d, n) <=> /\ n # 0 /\ (n <= doc[d].num \/ (n = doc[d].num + 1 /\ AnyAhead(d)))
                                            /\ ~(n = 1 /\ AnyFresh(d))
      BY DEF Chronicle, NoGap
    <3> QED BY <1>1, <1>2, <1>3, <1>6, <3>1, <3>2 DEF NoGap
  <2>7. LastIsShown(d)'
    BY <1>1, <1>3, <1>6, <2>3 DEF LastIsShown, Chronicle
  <2>8. NothingLost(d)'
    BY <2>3 DEF NothingLost, Chronicle
  <2> QED BY <1>4, <2>4, <2>5, <2>6, <2>7, <2>8 DEF Chronicle
<1> QED BY <1>5, <1>6

LEMMA InsertRevisionKeeps == ASSUME DocumentInv, NEW u \in Uploaders, InsertRevision(u) PROVE DocumentInv'
<1>1. PICK p : p = paper[u]
  OBVIOUS
<1>2. /\ p.pc = "insertVersion"
      /\ IF Kept(p.id) /\ ~OnRecord(p.id, p.num)
         THEN /\ revision' = revision \cup {[doc |-> p.id, num |-> p.num, key |-> p.key, name |-> p.name]}
              /\ IF p.num = 1 THEN Finished(u) ELSE Continue(u, [p EXCEPT !.pc = "updateDoc"])
         ELSE UNCHANGED revision /\ Finished(u)
      /\ UNCHANGED <<space, folder, doc, object, current>>
  BY <1>1 DEF InsertRevision, Waits, OnRecord, AtStep
<1>3. TablesTyped /\ PapersTyped
  BY DEF DocumentInv, DocumentRowsTyped
<1>4. PaperSound(p) /\ p \in Papers /\ p.id \in Docs /\ p.num \in Nat \ {0} /\ p.key \in Nat \ {0} /\ p.key <= Len(object)
      /\ p.name \in FileNames \cup {"none"} /\ Filed(p.id)
  BY <1>1, <1>2, <1>3 DEF PapersTyped, PaperSound, Papers, Filed
<1>5. CASE ~(Kept(p.id) /\ ~OnRecord(p.id, p.num))
  <2>1. ASSUME halts = 0, NEW d \in Docs, Kept(d) PROVE CalmPaper(p, d)
    <3>1. CASE p.id = d
      <4>1. Chronicle(d) /\ OnRecord(d, p.num)
        BY <1>5, <2>1, <3>1 DEF DocumentInv, Chronicles
      <4>2. ~(p.num = 1 /\ AnyFresh(d))
        BY <1>4, <4>1 DEF Chronicle, NoGap
      <4>3. Fresh(p, d) => p.num = 1 /\ AnyFresh(d)
        BY <1>1 DEF Fresh, AnyFresh
      <4> QED BY <1>2, <4>2, <4>3 DEF CalmPaper, Ahead
    <3>2. CASE p.id # d
      BY <3>2 DEF CalmPaper, Fresh, Ahead
    <3> QED BY <3>1, <3>2
  <2> QED BY <1>1, <1>2, <1>5, <2>1, Rejected
<1>6. CASE Kept(p.id) /\ ~OnRecord(p.id, p.num)
  <2>1. PICK v : v = [doc |-> p.id, num |-> p.num, key |-> p.key, name |-> p.name]
    OBVIOUS
  <2>2. v \in Revisions /\ v.doc = p.id /\ v.num = p.num /\ v.key = p.key
    BY <1>4, <2>1 DEF Revisions
  <2>3. revision' = revision \cup {v} /\ UNCHANGED <<space, folder, doc, object, current>>
    BY <1>2, <1>6, <2>1
  <2>4. TablesTyped' /\ Grows
    BY <1>3, <1>4, <2>2, <2>3, LengthIsNumber DEF TablesTyped, Grows
  <2>5. PICK q : /\ Turn(u, q) /\ PaperSound(q) /\ q \in Papers /\ q.pc \in {"rest", "updateDoc"}
                 /\ IF p.num = 1 THEN q.pc = "rest"
                    ELSE q.pc = "updateDoc" /\ q.id = p.id /\ q.num = p.num /\ q.key = p.key
    <3>1. CASE p.num = 1
      <4>1. Turn(u, NoPaper)
        BY <1>1, <1>2, <1>6, <3>1, Continues DEF Finished
      <4> QED BY <1>3, <3>1, <4>1, BlankPaper, RestSound
    <3>2. CASE p.num # 1
      <4>1. PICK q : q = [p EXCEPT !.pc = "updateDoc"]
        OBVIOUS
      <4>2. q \in Papers /\ q.pc = "updateDoc" /\ q.id = p.id /\ q.num = p.num /\ q.key = p.key
        BY <1>4, <4>1 DEF Papers
      <4>3. Turn(u, q)
        BY <1>1, <1>2, <1>6, <3>2, <4>1, Continues
      <4>4. PaperSound(q)
        BY <1>4, <4>2 DEF PaperSound
      <4> QED BY <3>2, <4>2, <4>3, <4>4
    <3> QED BY <3>1, <3>2
  <2>6. PaperSound(q)'
    BY <1>3, <2>4, <2>5, PaperKept
  <2>7. paper'[u] = q /\ \A w \in Uploaders : w # u => paper'[w] = paper[w]
    BY <1>3, <2>4, <2>5, <2>6, TurnPapers
  <2>8. ASSUME halts = 0 PROVE Chronicles'
    <3>1. Chronicles
      BY <2>8 DEF DocumentInv
    <3>2. ASSUME NEW d \in Docs, Kept(d)' PROVE Chronicle(d)'
      <4>1. Kept(d) /\ Chronicle(d)
        BY <2>3, <3>1, <3>2 DEF Kept, Chronicles
      <4>2. CASE d = p.id
        BY <1>1, <1>2, <1>3, <1>4, <1>6, <2>2, <2>3, <2>5, <2>7, <4>1, <4>2, VersionWritten DEF TablesTyped
      <4>3. CASE d # p.id
        <5>1. CalmPaper(paper[u], d) /\ CalmPaper(q, d) /\ Ordered(q, d)
          BY <1>1, <2>5, <4>3 DEF CalmPaper, Fresh, Ahead, Ordered
        <5> QED BY <2>2, <2>3, <2>7, <4>1, <4>3, <5>1, ChronicleKept
      <4> QED BY <4>2, <4>3
    <3>3. ASSUME NEW d \in Docs, doc'[d].state = "none" PROVE Unrecorded(d)'
      <4>1. Unrecorded(d) /\ d # p.id
        BY <1>4, <2>3, <3>1, <3>3 DEF Chronicles, Filed
      <4> QED BY <2>2, <2>3, <4>1 DEF Unrecorded
    <3> QED BY <3>2, <3>3 DEF Chronicles
  <2> QED BY <2>4, <2>5, <2>6, <2>8, TurnKeeps
<1> QED BY <1>5, <1>6

LEMMA UpdateDocKeeps == ASSUME DocumentInv, NEW u \in Uploaders, UpdateDoc(u) PROVE DocumentInv'
<1>1. PICK p : p = paper[u]
  OBVIOUS
<1>2. /\ p.pc = "updateDoc"
      /\ doc' = IF Kept(p.id) THEN [doc EXCEPT ![p.id].name = p.name, ![p.id].key = p.key, ![p.id].num = p.num]
                ELSE doc
      /\ current' = IF Kept(p.id) THEN current \cup {<<p.id, p.key>>} ELSE current
      /\ Finished(u)
      /\ UNCHANGED <<space, folder, revision, object>>
  BY <1>1 DEF UpdateDoc, Waits
<1>3. TablesTyped /\ PapersTyped
  BY DEF DocumentInv, DocumentRowsTyped
<1>4. PaperSound(p) /\ p \in Papers /\ p.id \in Docs /\ p.num \in Nat \ {0} /\ p.key \in Nat \ {0} /\ p.key <= Len(object)
      /\ p.name \in FileNames \cup {"none"} /\ Filed(p.id)
  BY <1>1, <1>2, <1>3 DEF PapersTyped, PaperSound, Papers, Filed
<1>5. CASE ~Kept(p.id)
  <2>1. \A d \in Docs : Kept(d) => CalmPaper(p, d)
    BY <1>5 DEF CalmPaper, Fresh, Ahead
  <2> QED BY <1>1, <1>2, <1>5, <2>1, Rejected
<1>6. CASE Kept(p.id)
  <2>1. /\ doc' = [doc EXCEPT ![p.id].name = p.name, ![p.id].key = p.key, ![p.id].num = p.num]
        /\ current' = current \cup {<<p.id, p.key>>} /\ UNCHANGED <<space, folder, revision, object>>
    BY <1>2, <1>6
  <2>2. /\ doc'[p.id] \in DocRows /\ doc'[p.id].key = p.key /\ doc'[p.id].num = p.num
        /\ doc'[p.id].state = doc[p.id].state /\ \A d \in Docs : d # p.id => doc'[d] = doc[d]
    <3>1. PICK r : r = doc[p.id]
      OBVIOUS
    <3>2. r \in DocRows /\ doc \in [Docs -> DocRows]
      BY <1>3, <1>4, <3>1 DEF TablesTyped
    <3>3. /\ doc'[p.id] = [[[r EXCEPT !.name = p.name] EXCEPT !.key = p.key] EXCEPT !.num = p.num]
          /\ \A d \in Docs : d # p.id => doc'[d] = doc[d]
      BY <1>4, <2>1, <3>1, <3>2
    <3>4. PICK entry : entry = [[[r EXCEPT !.name = p.name] EXCEPT !.key = p.key] EXCEPT !.num = p.num]
      OBVIOUS
    <3>5. entry \in DocRows /\ entry.key = p.key /\ entry.num = p.num /\ entry.state = r.state
      BY <1>4, <3>2, <3>4 DEF DocRows
    <3> QED BY <3>1, <3>3, <3>4, <3>5
  <2>3. doc' \in [Docs -> DocRows]
    BY <1>3, <2>1, <2>2 DEF TablesTyped
  <2>4. Len(object) \in Nat /\ object' = object
    BY <1>3, <2>1, LengthIsNumber
  <2>5. TablesTyped'
    <3>1. current' \subseteq Docs \X (1..Len(object))
      BY <1>3, <1>4, <2>1, <2>4 DEF TablesTyped
    <3>2. \A d \in Docs : doc'[d].key <= Len(object)
      BY <1>3, <1>4, <2>2 DEF TablesTyped
    <3> QED BY <1>3, <2>1, <2>3, <2>4, <3>1, <3>2 DEF TablesTyped
  <2>6. Grows
    BY <2>2, <2>4 DEF Grows
  <2>7. Turn(u, NoPaper)
    BY <1>1, <1>2, Continues DEF Finished
  <2>8. PaperSound(NoPaper)'
    BY <1>3, <2>5, <2>6, RestSound, PaperKept
  <2>9. paper'[u] = NoPaper /\ \A w \in Uploaders : w # u => paper'[w] = paper[w]
    BY <1>3, <2>5, <2>6, <2>7, <2>8, TurnPapers
  <2>10. ASSUME halts = 0 PROVE Chronicles'
    <3>1. Chronicles
      BY <2>10 DEF DocumentInv
    <3>2. ASSUME NEW d \in Docs, d # p.id, Kept(d)' PROVE Chronicle(d)'
      <4>1. Kept(d) /\ Chronicle(d) /\ doc'[d] = doc[d]
        BY <2>2, <3>1, <3>2 DEF Kept, Chronicles
      <4>2. CalmPaper(paper[u], d) /\ CalmPaper(NoPaper, d) /\ Ordered(NoPaper, d)
        BY <1>1, <1>3, <3>2, RestSound DEF CalmPaper, Fresh, Ahead
      <4>3. \A k \in Nat : <<d, k>> \in current' => <<d, k>> \in current
        BY <2>1, <3>2
      <4> QED BY <2>1, <2>9, <4>1, <4>2, <4>3, ChronicleKept
    <3>3. Chronicle(p.id)'
      <4> DEFINE d == p.id
      <4>1. Chronicle(d) /\ d \in Docs /\ doc[d].num \in Nat \ {0}
        BY <1>3, <1>4, <1>6, <3>1 DEF Chronicles, TablesTyped, DocRows
      <4>2. Ahead(paper[u], d) /\ p.num = doc[d].num + 1
        BY <1>1, <1>2, <4>1 DEF Ahead, Chronicle, AheadTold
      <4>3. \A w \in Uploaders : ~Ahead(paper[w], d)'
        BY <2>9, <4>1, <4>2, BlankPaper DEF Chronicle, OneEach, Ahead
      <4>4. \A w \in Uploaders : /\ Fresh(paper[w], d)' <=> Fresh(paper[w], d)
                                 /\ Fresh(paper[w], d) => paper'[w] = paper[w]
        BY <1>1, <1>2, <2>9, BlankPaper DEF Fresh
      <4>5. NextOnly(d)'
        <5>1. ASSUME NEW w \in Uploaders, paper'[w].pc \in {"put", "insertVersion"}, paper'[w].id = d
              PROVE  paper'[w].num <= doc'[d].num + 1
          <6>1. w # u /\ paper'[w] = paper[w]
            BY <2>9, <5>1, BlankPaper
          <6>2. paper[w].num <= doc[d].num + 1
            BY <4>1, <5>1, <6>1 DEF NextOnly, Chronicle
          <6>3. paper[w].num \in Nat
            BY <1>3 DEF PapersTyped, Papers
          <6> QED BY <2>2, <4>1, <4>2, <6>1, <6>2, <6>3
        <5> QED BY <5>1 DEF NextOnly
      <4>6. OneEach(d)' /\ AheadTold(d)'
        BY <4>1, <4>3, <4>4 DEF OneEach, AheadTold, Chronicle
      <4>7. NoGap(d)'
        <5>1. AnyAhead(d) /\ ~AnyAhead(d)' /\ (AnyFresh(d)' <=> AnyFresh(d))
          BY <4>2, <4>3, <4>4 DEF AnyAhead, AnyFresh
        <5>2. \A n \in Nat : OnRecord(d, n) <=> /\ n # 0 /\ (n <= doc[d].num \/ (n = doc[d].num + 1 /\ AnyAhead(d)))
                                                /\ ~(n = 1 /\ AnyFresh(d))
          BY <4>1 DEF Chronicle, NoGap
        <5>3. \A n \in Nat : OnRecord(d, n)' <=> OnRecord(d, n)
          BY <2>1 DEF OnRecord
        <5> QED BY <2>2, <4>1, <4>2, <5>1, <5>2, <5>3 DEF NoGap
      <4>8. LastIsShown(d)'
        <5>1. \A v \in revision' : v.doc = d /\ v.num = doc'[d].num => v.key = doc'[d].key
          <6>1. \A v \in revision : v.doc = d /\ v.num = p.num => v.key = p.key
            BY <1>1, <4>1, <4>2 DEF Chronicle, AheadTold
          <6> QED BY <2>1, <2>2, <6>1
        <5>2. doc'[d].num # 1
          BY <2>2, <4>1, <4>2
        <5> QED BY <5>1, <5>2 DEF LastIsShown
      <4>9. NothingLost(d)'
        <5>1. \E v \in revision : v.doc = d /\ v.key = p.key
          <6>1. OnRecord(d, p.num)
            BY <4>1, <4>2 DEF Chronicle, NoGap, AnyAhead
          <6>2. PICK v \in revision : v.doc = d /\ v.num = p.num
            BY <6>1 DEF OnRecord
          <6>3. v.key = p.key
            BY <1>1, <4>1, <4>2, <6>2 DEF Chronicle, AheadTold
          <6> QED BY <6>2, <6>3
        <5> QED BY <2>1, <4>1, <4>4, <5>1 DEF NothingLost, Chronicle
      <4> QED BY <4>5, <4>6, <4>7, <4>8, <4>9 DEF Chronicle
    <3>4. ASSUME NEW d \in Docs, doc'[d].state = "none" PROVE Unrecorded(d)'
      <4>1. Unrecorded(d) /\ d # p.id
        BY <1>4, <2>2, <3>1, <3>4 DEF Chronicles, Filed
      <4> QED BY <2>1, <4>1 DEF Unrecorded
    <3> QED BY <3>2, <3>3, <3>4 DEF Chronicles
  <2> QED BY <2>5, <2>6, <2>7, <2>8, <2>10, BlankPaper, TurnKeeps
<1> QED BY <1>5, <1>6

LEMMA DocumentStart == DocumentInit => DocumentInv
<1> SUFFICES ASSUME DocumentInit PROVE DocumentInv
  OBVIOUS
<1>1. NoFolder \in FolderRows /\ NoDoc \in DocRows /\ NoDoc.key = 0 /\ NoDoc.state = "none"
  BY DEF NoFolder, NoDoc, FolderRows, DocRows
<1>2. TablesTyped
  <2>1. object \in Seq(Sizes) /\ Len(object) = 0
    BY DEF DocumentInit
  <2> QED BY <1>1, <2>1 DEF DocumentInit, TablesTyped
<1>3. \A u \in Uploaders : paper[u] = NoPaper
  BY DEF DocumentInit
<1>4. PapersTyped
  BY <1>2, <1>3, BlankPaper, RestSound DEF DocumentInit, PapersTyped
<1>5. halts \in 0..MaxHalts
  BY DocumentsAssumption DEF DocumentInit
<1>6. Chronicles
  BY <1>1 DEF DocumentInit, Chronicles, Kept, Unrecorded
<1>7. LonePaper /\ DropsEmpty
  BY <1>3, BlankPaper DEF LonePaper, DropsEmpty
<1> QED BY <1>2, <1>4, <1>5, <1>6, <1>7 DEF DocumentInit, DocumentInv, DocumentRowsTyped

LEMMA DocumentStays == ASSUME DocumentInv, UNCHANGED documentVars PROVE DocumentInv'
<1>1. TablesTyped' /\ Grows
  BY LengthIsNumber DEF DocumentInv, DocumentRowsTyped, TablesTyped, documentVars, Grows
<1>2. ASSUME NEW u \in Uploaders PROVE PaperSound(paper[u])'
  <2>1. PICK p : p = paper[u]
    OBVIOUS
  <2>2. PaperSound(p)'
    BY <1>1, <2>1, PaperKept DEF DocumentInv, DocumentRowsTyped, PapersTyped
  <2> QED BY <2>1, <2>2 DEF documentVars
<1>3. DocumentRowsTyped'
  BY <1>1, <1>2 DEF DocumentInv, DocumentRowsTyped, PapersTyped, documentVars
<1>4. ASSUME halts' = 0 PROVE Chronicles'
  <2>1. Chronicles
    BY <1>4 DEF DocumentInv, documentVars
  <2>2. \A d \in Docs : /\ Kept(d)' <=> Kept(d)
                        /\ Unrecorded(d) => Unrecorded(d)'
                        /\ Chronicle(d) => Chronicle(d)'
    BY DEF documentVars, Kept, Unrecorded, Chronicle, NextOnly, OneEach, AheadTold, NoGap, LastIsShown, NothingLost,
           Fresh, Ahead, AnyFresh, AnyAhead, OnRecord
  <2> QED BY <2>1, <2>2 DEF Chronicles, documentVars
<1>5. oneByOne' => LonePaper' /\ DropsEmpty'
  BY DEF DocumentInv, LonePaper, DropsEmpty, LiveDocs, documentVars
<1> QED BY <1>3, <1>4, <1>5 DEF DocumentInv

LEMMA DocumentStep == DocumentInv /\ [DocumentNext]_documentVars => DocumentInv'
<1> SUFFICES ASSUME DocumentInv, [DocumentNext]_documentVars PROVE DocumentInv'
  OBVIOUS
<1>1. CASE UNCHANGED documentVars
  BY <1>1, DocumentStays
<1>2. CASE Halt
  BY <1>2, HaltKeeps
<1>3. ASSUME NEW u \in Uploaders,
             PostFolder(u) \/ InsertFolder(u) \/ PutFolder(u) \/ UpdateFolder(u) \/ DeleteFolder(u) \/ DropFolder(u)
      PROVE  DocumentInv'
  BY <1>3, PostFolderKeeps, InsertFolderKeeps, PutFolderKeeps, UpdateFolderKeeps, DeleteFolderKeeps, DropFolderKeeps
<1>4. ASSUME NEW u \in Uploaders,
             \/ Upload(u) \/ Replace(u) \/ PutObject(u) \/ InsertDoc(u)
             \/ RestoreRevision(u) \/ InsertRevision(u) \/ UpdateDoc(u)
      PROVE  DocumentInv'
  BY <1>4, UploadKeeps, ReplaceKeeps, PutObjectKeeps, InsertDocKeeps, RestoreRevisionKeeps, InsertRevisionKeeps,
     UpdateDocKeeps
<1>5. ASSUME NEW u \in Uploaders, PutDoc(u) \/ MoveDoc(u) \/ DeleteDoc(u) \/ ArchiveSpace(u) \/ DeleteSpace(u)
      PROVE  DocumentInv'
  BY <1>5, PutDocKeeps, MoveDocKeeps, DeleteDocKeeps, ArchiveSpaceKeeps, DeleteSpaceKeeps
<1> QED BY <1>1, <1>2, <1>3, <1>4, <1>5 DEF DocumentNext

\* For every set of documents, folders and requests: what a request is about to write
\* fits the document it writes it for, and every version up to the one a document
\* shows is on record, but for the version a request of that document still holds.
THEOREM DocumentInvariant == DocumentSpec => []DocumentInv
<1>1. DocumentInit => DocumentInv
  BY DocumentStart
<1>2. DocumentInv /\ [DocumentNext]_documentVars => DocumentInv'
  BY DocumentStep
<1> QED BY <1>1, <1>2, PTL DEF DocumentSpec

\* Every row of the tables of documents has its type in every state.
THEOREM DocumentTypes == DocumentSpec => []DocumentTypeOK
<1>1. DocumentInv => DocumentTypeOK
  <2> SUFFICES ASSUME DocumentInv PROVE DocumentTypeOK
    OBVIOUS
  <2>1. TablesTyped /\ filed \in Nat /\ halts \in 0..MaxHalts /\ oneByOne \in BOOLEAN
    BY DEF DocumentInv, DocumentRowsTyped
  <2>2. object \in Seq(Sizes) /\ Len(object) \in Nat /\ DOMAIN object = 1..Len(object)
    BY <2>1 DEF TablesTyped
  <2>3. ASSUME NEW d \in Docs
        PROVE  doc[d] \in [state : {"none", "live", "deleted", "gone"}, folder : Folders \cup {Top},
                           name : FileNames \cup {"none"}, key : 0..Len(object), num : Nat]
    <3>1. doc[d] \in DocRows /\ doc[d].key <= Len(object)
      BY <2>1 DEF TablesTyped
    <3> QED BY <2>2, <3>1 DEF DocRows
  <2>4. \A v \in revision : v.doc \in Docs /\ v.num \in Nat /\ v.key \in DOMAIN object
    BY <2>1, <2>2 DEF TablesTyped, Revisions
  <2>5. current \subseteq (Docs \X DOMAIN object)
    BY <2>1, <2>2 DEF TablesTyped
  <2> QED BY <2>1, <2>2, <2>3, <2>4, <2>5 DEF TablesTyped, FolderRows, DocumentTypeOK
<1> QED BY <1>1, DocumentInvariant, PTL

\* Replacing and restoring never overwrite: while the process does not end between two
\* statements, a document at rest is the last of its versions, they are numbered
\* without a gap, and every content it ever showed is one of them (documents.js).
THEOREM VersionsStand == DocumentSpec => []VersionsTell
<1>1. DocumentInv => VersionsTell
  <2> SUFFICES ASSUME DocumentInv, NEW d \in Docs, Kept(d), halts = 0, \A u \in Uploaders : paper[u].id # d
               PROVE  LET mine == {v \in revision : v.doc = d} IN
                      /\ {v.num : v \in mine} = 1..doc[d].num
                      /\ \E v \in mine : v.num = doc[d].num /\ v.key = doc[d].key
                      /\ \A k \in DOMAIN object : <<d, k>> \in current => \E v \in mine : v.key = k
    BY DEF VersionsTell
  <2>1. Chronicle(d) /\ TablesTyped
    BY DEF DocumentInv, Chronicles, DocumentRowsTyped
  <2>2. doc[d].num \in Nat \ {0} /\ DOMAIN object \subseteq Nat /\ revision \subseteq Revisions
    BY <2>1 DEF TablesTyped, DocRows
  <2>3. ~AnyFresh(d) /\ ~AnyAhead(d) /\ \A u \in Uploaders : ~Fresh(paper[u], d)
    BY DEF AnyFresh, AnyAhead, Fresh, Ahead
  <2>4. \A n \in Nat : OnRecord(d, n) <=> n # 0 /\ n <= doc[d].num
    BY <2>1, <2>3 DEF Chronicle, NoGap
  <2>5. \A v \in revision : v.doc = d => v.num \in 1..doc[d].num
    <3> SUFFICES ASSUME NEW v \in revision, v.doc = d PROVE v.num \in 1..doc[d].num
      OBVIOUS
    <3>1. v.num \in Nat /\ OnRecord(d, v.num)
      BY <2>2 DEF Revisions, OnRecord
    <3> QED BY <2>2, <2>4, <3>1
  <2>6. \A n \in 1..doc[d].num : \E v \in revision : v.doc = d /\ v.num = n
    BY <2>2, <2>4 DEF OnRecord
  <2>7. {v.num : v \in {w \in revision : w.doc = d}} = 1..doc[d].num
    BY <2>5, <2>6
  <2>8. \E v \in revision : v.doc = d /\ v.num = doc[d].num /\ v.key = doc[d].key
    BY <2>1, <2>2, <2>6 DEF Chronicle, LastIsShown
  <2>9. \A k \in DOMAIN object : <<d, k>> \in current => \E v \in revision : v.doc = d /\ v.key = k
    BY <2>1, <2>2, <2>3 DEF Chronicle, NothingLost
  <2> QED BY <2>7, <2>8, <2>9
<1> QED BY <1>1, DocumentInvariant, PTL

\* A step that takes a live document out of its folder is the move of that document.
Tips(d) == doc[d].state = "live" /\ doc'[d].state = "live" /\ doc'[d].folder # doc[d].folder
MovedBy(d) == \E u \in Uploaders : paper[u].pc = "moveDoc" /\ paper[u].id = d

LEMMA DropTipsNothing ==
  ASSUME DocumentInv, oneByOne', NEW u \in Uploaders, DropFolder(u), NEW d \in Docs, doc[d].state = "live"
  PROVE  doc'[d] = doc[d]
<1>1. PICK f : f = paper[u].id
  OBVIOUS
<1>2. /\ paper[u].pc = "dropFolder" /\ oneByOne' = oneByOne
      /\ doc' = [e \in Docs |-> IF doc[e].folder \in Subtree(f) THEN [doc[e] EXCEPT !.folder = Top] ELSE doc[e]]
  BY <1>1 DEF DropFolder, Waits, Finished, Continue
<1>3. f \in Folders
  BY <1>1, <1>2 DEF DocumentInv, DocumentRowsTyped, PapersTyped, PaperSound
<1>4. doc[d].folder # f /\ \A g \in Folders : folder[g].state = "live" => folder[g].up # f
  BY <1>1, <1>2 DEF DocumentInv, DropsEmpty, LiveDocs
<1>5. Downward({f})
  BY <1>4 DEF Downward
<1>6. Subtree(f) \subseteq {f}
  BY <1>3, <1>5 DEF Subtree
<1> QED BY <1>2, <1>4, <1>6

LEMMA WritesTipNothing ==
  ASSUME DocumentInv, NEW u \in Uploaders, InsertDoc(u) \/ UpdateDoc(u) \/ DeleteDoc(u) \/ DeleteSpace(u),
         NEW d \in Docs
  PROVE  ~Tips(d)
<1> SUFFICES ASSUME doc[d].state = "live" PROVE doc'[d].state # "live" \/ doc'[d].folder = doc[d].folder
  BY DEF Tips
<1>1. TablesTyped /\ doc \in [Docs -> DocRows]
  BY DEF DocumentInv, DocumentRowsTyped, TablesTyped
<1>2. CASE InsertDoc(u)
  <2> DEFINE free == {e \in Docs : doc[e].state = "none"}
  <2>1. CASE doc' = doc
    BY <2>1
  <2>2. CASE doc' # doc
    <3>1. PICK entry : doc' = [doc EXCEPT ![Min(free)] = entry]
      BY <1>2, <2>2 DEF InsertDoc
    <3>2. free # {}
      BY <1>2, <2>2 DEF InsertDoc
    <3>3. Min(free) \in free
      <4>1. free \subseteq Nat
        BY DocumentsAssumption
      <4>2. \E m \in free : \A n \in free : m <= n
        BY <3>2, <4>1, LeastOf
      <4> QED BY <4>2 DEF Min
    <3> QED BY <1>1, <3>1, <3>3
  <2> QED BY <2>1, <2>2
<1>3. CASE UpdateDoc(u)
  <2>1. CASE doc' = doc
    BY <2>1
  <2>2. CASE doc' # doc
    <3>1. PICK p : p = paper[u]
      OBVIOUS
    <3>2. doc' = [doc EXCEPT ![p.id].name = p.name, ![p.id].key = p.key, ![p.id].num = p.num]
      BY <1>3, <2>2, <3>1 DEF UpdateDoc
    <3>3. PICK r : r = doc[d]
      OBVIOUS
    <3>4. r \in DocRows
      BY <1>1, <3>3
    <3>5. doc'[d] = IF d = p.id THEN [[[r EXCEPT !.name = p.name] EXCEPT !.key = p.key] EXCEPT !.num = p.num] ELSE r
      BY <1>1, <3>2, <3>3
    <3>6. PICK entry : entry = [[[r EXCEPT !.name = p.name] EXCEPT !.key = p.key] EXCEPT !.num = p.num]
      OBVIOUS
    <3>7. entry.folder = r.folder
      BY <3>4, <3>6 DEF DocRows
    <3> QED BY <3>3, <3>5, <3>6, <3>7
  <2> QED BY <2>1, <2>2
<1>4. CASE DeleteDoc(u)
  <2>1. PICK e \in LiveDocs : doc' = [doc EXCEPT ![e].state = "deleted"]
    BY <1>4 DEF DeleteDoc
  <2>2. PICK r : r = doc[d]
    OBVIOUS
  <2>3. r \in DocRows /\ doc'[d] = IF d = e THEN [r EXCEPT !.state = "deleted"] ELSE r
    BY <1>1, <2>1, <2>2
  <2>4. [r EXCEPT !.state = "deleted"].state = "deleted"
    BY <2>3 DEF DocRows
  <2> QED BY <2>2, <2>3, <2>4
<1>5. CASE DeleteSpace(u)
  <2>1. doc'[d] = [doc[d] EXCEPT !.state = "gone", !.folder = Top]
    BY <1>5 DEF DeleteSpace, Kept
  <2>2. PICK r : r = doc[d]
    OBVIOUS
  <2>3. r \in DocRows /\ doc'[d] = [r EXCEPT !.state = "gone", !.folder = Top]
    BY <1>1, <2>1, <2>2
  <2>4. [r EXCEPT !.state = "gone", !.folder = Top].state = "gone"
    BY <2>3 DEF DocRows
  <2> QED BY <2>3, <2>4
<1> QED BY <1>2, <1>3, <1>4, <1>5

LEMMA MoveMovesOne ==
  ASSUME DocumentInv, NEW u \in Uploaders, MoveDoc(u), NEW d \in Docs, doc'[d] # doc[d]
  PROVE  MovedBy(d)
<1>1. doc \in [Docs -> DocRows]
  BY DEF DocumentInv, DocumentRowsTyped, TablesTyped
<1>2. paper[u].pc = "moveDoc"
  BY DEF MoveDoc, Waits
<1>3. PICK p : p = paper[u].id
  OBVIOUS
<1>4. \A e \in Docs : e # p => doc'[e] = doc[e]
  BY <1>1, <1>3 DEF MoveDoc
<1> QED BY <1>2, <1>3, <1>4 DEF MovedBy

\* While requests come one at a time, deleting a folder leaves every document where it
\* is: a live document changes folders only when its own move is carried out.
THEOREM FoldersTipNothing == DocumentSpec => NeverTipped
<1> DEFINE A == oneByOne' => \A d \in LiveDocs :
                  doc'[d].state = "live" /\ doc'[d].folder # doc[d].folder
                  => \E u \in Uploaders : paper[u].pc = "moveDoc" /\ paper[u].id = d
<1>1. DocumentInv /\ [DocumentNext]_documentVars => [A]_documentVars
  <2> SUFFICES ASSUME DocumentInv, DocumentNext, oneByOne', NEW d \in Docs, Tips(d)
               PROVE  MovedBy(d)
    BY DEF LiveDocs, Tips, MovedBy
  <2>1. CASE Halt
    BY <2>1 DEF Halt, RowsStay, Tips
  <2>2. ASSUME NEW u \in Uploaders,
               \/ PostFolder(u) \/ InsertFolder(u) \/ PutFolder(u) \/ UpdateFolder(u) \/ DeleteFolder(u)
               \/ Upload(u) \/ Replace(u) \/ PutObject(u)
               \/ RestoreRevision(u) \/ InsertRevision(u) \/ PutDoc(u) \/ ArchiveSpace(u)
        PROVE  MovedBy(d)
    <3>1. doc' = doc
      BY <2>2 DEF PostFolder, InsertFolder, PutFolder, UpdateFolder, DeleteFolder, Upload, Replace, PutObject,
                  RestoreRevision, InsertRevision, PutDoc, ArchiveSpace, RowsStay
    <3> QED BY <3>1 DEF Tips
  <2>3. ASSUME NEW u \in Uploaders, DropFolder(u) PROVE MovedBy(d)
    BY <2>3, DropTipsNothing DEF Tips
  <2>4. ASSUME NEW u \in Uploaders, InsertDoc(u) \/ UpdateDoc(u) \/ DeleteDoc(u) \/ DeleteSpace(u) PROVE MovedBy(d)
    BY <2>4, WritesTipNothing
  <2>5. ASSUME NEW u \in Uploaders, MoveDoc(u) PROVE MovedBy(d)
    BY <2>5, MoveMovesOne DEF Tips
  <2> QED BY <2>1, <2>2, <2>3, <2>4, <2>5 DEF DocumentNext
<1> QED BY <1>1, DocumentInvariant, PTL DEF DocumentSpec, NeverTipped

\* No folder and no document lies in a folder that is gone, and a document without a
\* row lies nowhere.
InPlace ==
  /\ \A f \in Folders : folder[f].state = "live" => Standing(folder[f].up)
  /\ \A d \in Docs : Standing(doc[d].folder) /\ (~Kept(d) => doc[d].folder = Top)

LEMMA PlacedStart == DocumentInit => InPlace
<1>1. NoFolder.state = "none" /\ NoDoc.folder = Top
  BY DEF NoFolder, NoDoc
<1> QED BY <1>1 DEF DocumentInit, InPlace, Standing, Kept

\* Documents may move to a folder that stands.
LEMMA PlacesKept ==
  ASSUME InPlace, folder' = folder,
         \A d \in Docs : \/ doc'[d].folder = doc[d].folder /\ (Kept(d) => Kept(d)')
                         \/ Kept(d)' /\ Standing(doc'[d].folder)
  PROVE  InPlace'
BY DEF InPlace, Standing

\* A folder may be created in, or moved to, one that stands.
LEMMA OneFolderPlaced ==
  ASSUME InPlace, TablesTyped, NEW m \in Folders, NEW entry, folder' = [folder EXCEPT ![m] = entry], doc' = doc,
         entry.state = "live", entry.up \in Folders \cup {Top}, Standing(entry.up)
  PROVE  InPlace'
<1>1. folder \in [Folders -> FolderRows] /\ doc \in [Docs -> DocRows]
  BY DEF TablesTyped
<1>2. folder'[m] = entry /\ \A f \in Folders : f # m => folder'[f] = folder[f]
  BY <1>1
<1>3. \A f \in Folders \cup {Top} : Standing(f) => Standing(f)'
  BY <1>2 DEF Standing
<1>4. ASSUME NEW f \in Folders, folder'[f].state = "live" PROVE Standing(folder[f].up)'
  <2>1. PICK up : up = folder'[f].up
    OBVIOUS
  <2>2. up \in Folders \cup {Top} /\ Standing(up)
    <3>1. CASE f = m
      BY <1>2, <2>1, <3>1
    <3>2. CASE f # m
      BY <1>1, <1>2, <1>4, <2>1, <3>2 DEF InPlace, FolderRows
    <3> QED BY <3>1, <3>2
  <2>3. Standing(up)'
    BY <1>3, <2>2
  <2> QED BY <2>1, <2>3
<1>5. ASSUME NEW d \in Docs PROVE Standing(doc[d].folder)'
  <2>1. PICK place : place = doc[d].folder
    OBVIOUS
  <2>2. place \in Folders \cup {Top} /\ Standing(place)
    BY <1>1, <2>1 DEF InPlace, DocRows
  <2>3. Standing(place)'
    BY <1>3, <2>2
  <2> QED BY <2>1, <2>3
<1>6. \A d \in Docs : Kept(d)' <=> Kept(d)
  BY DEF Kept
<1> QED BY <1>4, <1>5, <1>6 DEF InPlace

LEMMA InsertFolderPlaces == ASSUME DocumentInv, InPlace, NEW u \in Uploaders, InsertFolder(u) PROVE InPlace'
<1> DEFINE free == {f \in Folders : folder[f].state = "none"}
<1>1. PICK q : q = paper[u]
  OBVIOUS
<1>2. /\ q.pc = "insertFolder" /\ doc' = doc
      /\ \/ folder' = folder
         \/ /\ Standing(q.place) /\ free # {}
            /\ folder' = [folder EXCEPT ![Min(free)] = [state |-> "live", up |-> q.place, name |-> q.name]]
  BY <1>1 DEF InsertFolder, Waits
<1>3. TablesTyped /\ q.place \in Folders \cup {Top}
  BY <1>1, <1>2 DEF DocumentInv, DocumentRowsTyped, PapersTyped, PaperSound, Papers
<1>4. CASE folder' = folder
  BY <1>2, <1>4, PlacesKept DEF Kept
<1>5. CASE folder' # folder
  <2>1. PICK m \in free : m = Min(free)
    <3>1. free \subseteq Nat /\ free # {}
      BY <1>2, <1>5, DocumentsAssumption
    <3>2. \E m \in free : \A n \in free : m <= n
      BY <3>1, LeastOf
    <3> QED BY <3>2 DEF Min
  <2>2. PICK entry : entry = [state |-> "live", up |-> q.place, name |-> q.name]
    OBVIOUS
  <2>3. folder' = [folder EXCEPT ![m] = entry] /\ Standing(q.place)
    BY <1>2, <1>5, <2>1, <2>2
  <2>4. entry.state = "live" /\ entry.up = q.place
    BY <2>2
  <2> QED BY <1>2, <1>3, <2>1, <2>3, <2>4, OneFolderPlaced
<1> QED BY <1>4, <1>5

LEMMA UpdateFolderPlaces == ASSUME DocumentInv, InPlace, NEW u \in Uploaders, UpdateFolder(u) PROVE InPlace'
<1>1. PICK q : q = paper[u]
  OBVIOUS
<1>2. q.pc = "updateFolder"
  BY <1>1 DEF UpdateFolder, Waits
<1>3. TablesTyped /\ q.id \in Folders /\ q.place \in Folders \cup {Top, Stay} /\ q.name \in FileNames \cup {"none"}
  BY <1>1, <1>2 DEF DocumentInv, DocumentRowsTyped, PapersTyped, PaperSound, Papers
<1>4. PICK f : f = folder[q.id]
  OBVIOUS
<1>5. PICK entry : entry = [f EXCEPT !.up = IF q.place = Stay THEN @ ELSE q.place,
                                     !.name = IF q.name = "none" THEN @ ELSE q.name]
  OBVIOUS
<1>6. f \in FolderRows
  BY <1>3, <1>4 DEF TablesTyped
<1>7. entry \in FolderRows
  BY <1>3, <1>5, <1>6 DEF FolderRows
<1>8. /\ doc' = doc
      /\ \/ folder' = folder
         \/ entry.state = "live" /\ Standing(entry.up) /\ folder' = [folder EXCEPT ![q.id] = entry]
  BY <1>1, <1>4, <1>5 DEF UpdateFolder
<1>9. CASE folder' = folder
  BY <1>8, <1>9, PlacesKept DEF Kept
<1>10. CASE folder' # folder
  <2>1. entry.up \in Folders \cup {Top}
    BY <1>7 DEF FolderRows
  <2> QED BY <1>3, <1>8, <1>10, <2>1, OneFolderPlaced
<1> QED BY <1>9, <1>10

\* The folders below one that goes go along, and documents fall back to the root.
LEMMA DropFolderPlaces == ASSUME DocumentInv, InPlace, NEW u \in Uploaders, DropFolder(u) PROVE InPlace'
<1> DEFINE gone == Subtree(paper[u].id)
<1>1. /\ folder' = [f \in Folders |-> IF f \in gone /\ folder[f].state = "live"
                                      THEN [NoFolder EXCEPT !.state = "gone"] ELSE folder[f]]
      /\ doc' = [d \in Docs |-> IF doc[d].folder \in gone THEN [doc[d] EXCEPT !.folder = Top] ELSE doc[d]]
  BY DEF DropFolder
<1>2. folder \in [Folders -> FolderRows] /\ doc \in [Docs -> DocRows]
  BY DEF DocumentInv, DocumentRowsTyped, TablesTyped
<1>3. \A f \in Folders : folder[f].state = "live" /\ folder[f].up \in gone => f \in gone
  <2> SUFFICES ASSUME NEW f \in Folders, folder[f].state = "live", folder[f].up \in gone,
                      NEW S \in SUBSET Folders, paper[u].id \in S, Downward(S)
               PROVE  f \in S
    BY DEF Subtree
  <2>1. folder[f].up \in S
    BY DEF Subtree
  <2> QED BY <2>1 DEF Downward
<1> HIDE DEF gone
<1>4. [NoFolder EXCEPT !.state = "gone"].state = "gone"
  BY DEF NoFolder
<1>5. \A f \in (Folders \cup {Top}) \ gone : Standing(f) => Standing(f)'
  BY <1>1 DEF Standing
<1>6. ASSUME NEW f \in Folders, folder'[f].state = "live" PROVE Standing(folder[f].up)'
  <2>1. folder'[f] = folder[f] /\ f \notin gone
    BY <1>1, <1>4, <1>6
  <2>2. PICK up : up = folder[f].up
    OBVIOUS
  <2>3. up \in Folders \cup {Top} /\ up \notin gone /\ Standing(up)
    BY <1>2, <1>3, <1>6, <2>1, <2>2 DEF InPlace, FolderRows
  <2>4. Standing(up)'
    BY <1>5, <2>3
  <2> QED BY <2>1, <2>2, <2>4
<1>7. ASSUME NEW d \in Docs PROVE Standing(doc[d].folder)' /\ (~Kept(d)' => doc'[d].folder = Top)
  <2>1. PICK r : r = doc[d]
    OBVIOUS
  <2>2. r \in DocRows /\ Standing(r.folder) /\ (~Kept(d) => r.folder = Top)
    BY <1>2, <2>1 DEF InPlace
  <2>3. CASE r.folder \in gone
    <3>1. doc'[d] = [r EXCEPT !.folder = Top]
      BY <1>1, <2>1, <2>3
    <3>2. [r EXCEPT !.folder = Top].folder = Top
      BY <2>2 DEF DocRows
    <3> QED BY <3>1, <3>2 DEF Standing
  <2>4. CASE r.folder \notin gone
    <3>1. doc'[d] = r
      BY <1>1, <2>1, <2>4
    <3>2. Standing(r.folder)'
      BY <1>5, <2>2, <2>4 DEF DocRows
    <3> QED BY <2>1, <2>2, <3>1, <3>2 DEF Kept
  <2> QED BY <2>3, <2>4
<1> QED BY <1>6, <1>7 DEF InPlace

LEMMA DeleteSpacePlaces == ASSUME DocumentInv, InPlace, NEW u \in Uploaders, DeleteSpace(u) PROVE InPlace'
<1>1. doc \in [Docs -> DocRows]
  BY DEF DocumentInv, DocumentRowsTyped, TablesTyped
<1>2. [NoFolder EXCEPT !.state = "gone"].state = "gone"
  BY DEF NoFolder
<1>3. \A f \in Folders : folder'[f].state # "live"
  BY <1>2 DEF DeleteSpace
<1>4. ASSUME NEW d \in Docs PROVE doc'[d].folder = Top
  <2>1. PICK r : r = doc[d]
    OBVIOUS
  <2>2. r \in DocRows /\ doc'[d] = IF Kept(d) THEN [r EXCEPT !.state = "gone", !.folder = Top] ELSE r
    BY <1>1, <2>1 DEF DeleteSpace
  <2>3. [r EXCEPT !.state = "gone", !.folder = Top].folder = Top
    BY <2>2 DEF DocRows
  <2> QED BY <2>1, <2>2, <2>3 DEF InPlace
<1> QED BY <1>3, <1>4 DEF InPlace, Standing

\* A document is filed in a folder that stands.
LEMMA InsertDocPlaces == ASSUME DocumentInv, InPlace, NEW u \in Uploaders, InsertDoc(u) PROVE InPlace'
<1> DEFINE free == {d \in Docs : doc[d].state = "none"}
<1>1. PICK q : q = paper[u]
  OBVIOUS
<1>2. PICK entry : entry = [state |-> "live", folder |-> q.place, name |-> q.name, key |-> q.key, num |-> 1]
  OBVIOUS
<1>3. entry.state = "live" /\ entry.folder = q.place
  BY <1>2
<1>4. /\ folder' = folder
      /\ doc' = doc \/ (Standing(q.place) /\ doc' = [doc EXCEPT ![Min(free)] = entry])
  BY <1>1, <1>2 DEF InsertDoc
<1>5. doc \in [Docs -> DocRows]
  BY DEF DocumentInv, DocumentRowsTyped, TablesTyped
<1>6. ASSUME NEW d \in Docs
      PROVE  doc'[d] = doc[d] \/ (Standing(q.place) /\ doc'[d] = entry)
  BY <1>4, <1>5
<1> QED BY <1>3, <1>4, <1>6, PlacesKept DEF Kept

LEMMA UpdateDocPlaces == ASSUME DocumentInv, InPlace, NEW u \in Uploaders, UpdateDoc(u) \/ DeleteDoc(u) PROVE InPlace'
<1>1. doc \in [Docs -> DocRows]
  BY DEF DocumentInv, DocumentRowsTyped, TablesTyped
<1>2. ASSUME NEW d \in Docs PROVE doc'[d].folder = doc[d].folder /\ (Kept(d) => Kept(d)')
  <2>1. PICK r : r = doc[d]
    OBVIOUS
  <2>2. r \in DocRows
    BY <1>1, <2>1
  <2>3. PICK p : p = paper[u]
    OBVIOUS
  <2>4. PICK s, t : /\ s = [[[r EXCEPT !.name = p.name] EXCEPT !.key = p.key] EXCEPT !.num = p.num]
                    /\ t = [r EXCEPT !.state = "deleted"]
    OBVIOUS
  <2>5. s.folder = r.folder /\ s.state = r.state /\ t.folder = r.folder /\ t.state = "deleted"
    BY <2>2, <2>4 DEF DocRows
  <2>6. doc'[d] = r \/ doc'[d] = s \/ doc'[d] = t
    <3>1. CASE UpdateDoc(u)
      <4>1. doc' = doc \/ doc' = [doc EXCEPT ![p.id].name = p.name, ![p.id].key = p.key, ![p.id].num = p.num]
        BY <2>3, <3>1 DEF UpdateDoc
      <4> QED BY <1>1, <2>1, <2>4, <4>1
    <3>2. CASE DeleteDoc(u)
      <4>1. PICK e \in LiveDocs : doc' = [doc EXCEPT ![e].state = "deleted"]
        BY <3>2 DEF DeleteDoc
      <4> QED BY <1>1, <2>1, <2>4, <4>1
    <3> QED BY <3>1, <3>2
  <2> QED BY <2>1, <2>5, <2>6 DEF Kept
<1>3. folder' = folder
  BY DEF UpdateDoc, DeleteDoc
<1> QED BY <1>2, <1>3, PlacesKept

LEMMA MoveDocPlaces == ASSUME DocumentInv, InPlace, NEW u \in Uploaders, MoveDoc(u) PROVE InPlace'
<1>1. doc \in [Docs -> DocRows]
  BY DEF DocumentInv, DocumentRowsTyped, TablesTyped
<1>2. PICK q : q = paper[u]
  OBVIOUS
<1>3. PICK place, name : place = q.place /\ name = q.name
  OBVIOUS
<1>4. /\ folder' = folder
      /\ \/ doc' = doc
         \/ /\ place = Stay \/ Standing(place)
            /\ doc' = [doc EXCEPT ![q.id].folder = IF place = Stay THEN @ ELSE place,
                                  ![q.id].name = IF name = "none" THEN @ ELSE name]
  BY <1>2, <1>3 DEF MoveDoc
<1>5. ASSUME NEW d \in Docs, doc'[d] # doc[d]
      PROVE  doc'[d].state = doc[d].state /\ (doc'[d].folder = doc[d].folder \/ (Kept(d) /\ Standing(doc'[d].folder)))
  <2>1. PICK r : r = doc[d]
    OBVIOUS
  <2>2. r \in DocRows
    BY <1>1, <2>1
  <2>3. PICK s : s = [r EXCEPT !.folder = IF place = Stay THEN @ ELSE place,
                               !.name = IF name = "none" THEN @ ELSE name]
    OBVIOUS
  <2>4. s.state = r.state /\ s.folder = IF place = Stay THEN r.folder ELSE place
    BY <2>2, <2>3 DEF DocRows
  <2>5. doc'[d] = s /\ (place = Stay \/ Standing(place)) /\ d = q.id
    <3>1. doc' = [doc EXCEPT ![q.id].folder = IF place = Stay THEN @ ELSE place,
                             ![q.id].name = IF name = "none" THEN @ ELSE name]
      BY <1>4, <1>5
    <3>2. doc'[d] = s /\ d = q.id
      BY <1>1, <1>5, <2>1, <2>3, <3>1
    <3> QED BY <1>4, <1>5, <3>2
  <2>6. Kept(d)
    BY <1>2, <1>5, <2>5 DEF MoveDoc
  <2> QED BY <2>1, <2>4, <2>5, <2>6
<1>6. ASSUME NEW d \in Docs
      PROVE  \/ doc'[d].folder = doc[d].folder /\ (Kept(d) => Kept(d)')
             \/ Kept(d)' /\ Standing(doc'[d].folder)
  BY <1>5 DEF Kept
<1> QED BY <1>4, <1>6, PlacesKept

LEMMA PlacedStep == ASSUME DocumentInv, InPlace, [DocumentNext]_documentVars PROVE InPlace'
<1>1. CASE UNCHANGED documentVars
  BY <1>1, PlacesKept DEF documentVars, Kept
<1>2. CASE Halt
  BY <1>2, PlacesKept DEF Halt, RowsStay, Kept
<1>3. ASSUME NEW u \in Uploaders,
             \/ PostFolder(u) \/ PutFolder(u) \/ DeleteFolder(u)
             \/ Upload(u) \/ Replace(u) \/ PutObject(u)
             \/ RestoreRevision(u) \/ InsertRevision(u) \/ PutDoc(u) \/ ArchiveSpace(u)
      PROVE  InPlace'
  <2>1. doc' = doc /\ folder' = folder
    BY <1>3 DEF PostFolder, PutFolder, DeleteFolder, Upload, Replace, PutObject,
                RestoreRevision, InsertRevision, PutDoc, ArchiveSpace, RowsStay
  <2> QED BY <2>1, PlacesKept DEF Kept
<1>4. ASSUME NEW u \in Uploaders,
             \/ InsertFolder(u) \/ UpdateFolder(u) \/ DropFolder(u) \/ InsertDoc(u)
             \/ UpdateDoc(u) \/ MoveDoc(u) \/ DeleteDoc(u) \/ DeleteSpace(u)
      PROVE  InPlace'
  BY <1>4, InsertFolderPlaces, UpdateFolderPlaces, DropFolderPlaces, InsertDocPlaces, UpdateDocPlaces, MoveDocPlaces,
     DeleteSpacePlaces
<1> QED BY <1>1, <1>2, <1>3, <1>4 DEF DocumentNext

\* However requests overlap and wherever the process ends, no folder and no document
\* is left in a folder that is gone: what a request looked up before its write is asked
\* again by the write, and the folders below go with the one that is dropped.
THEOREM PlacesStand == DocumentSpec => []InPlace
<1>1. DocumentInit => InPlace
  BY PlacedStart
<1>2. DocumentInv /\ InPlace /\ [DocumentNext]_documentVars => InPlace'
  BY PlacedStep
<1> QED BY <1>1, <1>2, DocumentInvariant, PTL DEF DocumentSpec

(***************************************************************************)
(* Trees of pages and of folders.  What points up is rooted when nothing   *)
(* in it points round in a ring: every set of its nodes has one that       *)
(* points out of the set.                                                  *)
(***************************************************************************)
Rooted(T, up) == \A S \in SUBSET T : S # {} => \E q \in S : up[q] \notin S
WaysUp(T, up, q, k) == {w \in [0..k -> T] : w[0] = q /\ \A j \in 0..(k-1) : w[j+1] = up[w[j]]}
\* No way up passes m + 1 different nodes.
Shallow(T, up, m) == \A q \in T : \A w \in WaysUp(T, up, q, m) :
  \E i, j \in 0..m : i < j /\ w[i] = w[j]

\* A node is hung under one of a set that it is not in and that nothing leads out of.
LEMMA HungBelow ==
  ASSUME NEW T, NEW up, Rooted(T, up), NEW p \in T, NEW n \in T,
         NEW R \in SUBSET T, n \in R, p \notin R, \A q \in R : up[q] \in T => up[q] \in R,
         NEW low, low[p] = n, \A q \in T \ {p} : low[q] = up[q]
  PROVE  Rooted(T, low)
<1> SUFFICES ASSUME NEW S \in SUBSET T, S # {}, \A q \in S : low[q] \in S PROVE FALSE
  BY DEF Rooted
<1>1. CASE p \notin S
  <2>1. \A q \in S : up[q] \in S
    BY <1>1
  <2> QED BY <2>1 DEF Rooted
<1>2. CASE p \in S
  <2>1. n \in S \cap R /\ S \cap R \in SUBSET T
    BY <1>2
  <2>2. \A q \in S \cap R : up[q] \in S \cap R
    BY <1>2
  <2> QED BY <2>1, <2>2 DEF Rooted
<1> QED BY <1>1, <1>2

\* Nodes are taken out of the tree, or to its root, and others stay where they are.
LEMMA Loosened ==
  ASSUME NEW T, NEW up, Rooted(T, up), NEW low, \A q \in T : low[q] = up[q] \/ low[q] \notin T
  PROVE  Rooted(T, low)
<1> SUFFICES ASSUME NEW S \in SUBSET T, S # {}, \A q \in S : low[q] \in S PROVE FALSE
  BY DEF Rooted
<1>1. \A q \in S : up[q] \in S
  OBVIOUS
<1> QED BY <1>1 DEF Rooted

\* A way up that meets a node twice goes round in a ring.
LEMMA NoWayTwice ==
  ASSUME NEW T, NEW up, Rooted(T, up), NEW q, NEW k \in Nat, NEW w \in WaysUp(T, up, q, k),
         NEW i \in 0..k, NEW j \in 0..k, i < j
  PROVE  w[i] # w[j]
<1> SUFFICES ASSUME w[i] = w[j] PROVE FALSE
  OBVIOUS
<1>1. w \in [0..k -> T] /\ \A m \in 0..(k-1) : w[m+1] = up[w[m]]
  BY DEF WaysUp
<1>2. PICK S : S = {w[m] : m \in i..(j-1)}
  OBVIOUS
<1>3. S \in SUBSET T /\ S # {}
  BY <1>1, <1>2
<1>4. ASSUME NEW r \in S PROVE up[r] \in S
  <2>1. PICK m \in i..(j-1) : r = w[m]
    BY <1>2
  <2>2. up[r] = w[m+1]
    BY <1>1, <2>1
  <2>3. CASE m + 1 = j
    <3>1. i \in i..(j-1)
      OBVIOUS
    <3> QED BY <1>2, <2>2, <2>3, <3>1
  <2>4. CASE m + 1 # j
    <3>1. m + 1 \in i..(j-1)
      BY <2>4
    <3> QED BY <1>2, <2>2, <3>1
  <2> QED BY <2>3, <2>4
<1> QED BY <1>3, <1>4 DEF Rooted

\* wouldCycle and isDescendant: where the way up from n does not meet p, p may hang under n.
LEMMA HungWhereChecked ==
  ASSUME NEW T, NEW up, NEW m \in Nat, Rooted(T, up), Shallow(T, up, m),
         NEW p \in T, NEW n \in T,
         \A k \in 0..m : \A w \in WaysUp(T, up, n, k) : w[k] # p,
         NEW low, low[p] = n, \A q \in T \ {p} : low[q] = up[q]
  PROVE  Rooted(T, low)
<1>1. PICK R : R = {q \in T : \E k \in 0..m : \E w \in WaysUp(T, up, n, k) : w[k] = q}
  OBVIOUS
<1>2. p \notin R
  BY <1>1
<1>3. n \in R
  <2>1. PICK w : w = [i \in 0..0 |-> n]
    OBVIOUS
  <2>2. w \in WaysUp(T, up, n, 0) /\ w[0] = n
    BY <2>1 DEF WaysUp
  <2> QED BY <1>1, <2>2
<1>4. ASSUME NEW q \in R, up[q] \in T PROVE up[q] \in R
  <2>1. PICK k \in 0..m : \E w \in WaysUp(T, up, n, k) : w[k] = q
    BY <1>1
  <2>2. PICK w \in WaysUp(T, up, n, k) : w[k] = q
    BY <2>1
  <2>3. w \in [0..k -> T] /\ w[0] = n /\ \A j \in 0..(k-1) : w[j+1] = up[w[j]]
    BY <2>2 DEF WaysUp
  <2>4. k < m
    <3> SUFFICES ASSUME k = m PROVE FALSE
      OBVIOUS
    <3>1. PICK i, j \in 0..m : i < j /\ w[i] = w[j]
      BY <2>2 DEF Shallow
    <3> QED BY <2>2, <3>1, NoWayTwice
  <2>5. PICK v : v = [i \in 0..(k+1) |-> IF i = k + 1 THEN up[q] ELSE w[i]]
    OBVIOUS
  <2>6. v \in [0..(k+1) -> T] /\ v[0] = n /\ v[k+1] = up[q]
    BY <1>4, <2>3, <2>5
  <2>7. ASSUME NEW j \in 0..((k+1)-1) PROVE v[j+1] = up[v[j]]
    <3>1. CASE j = k
      BY <2>2, <2>5, <3>1
    <3>2. CASE j # k
      BY <2>3, <2>5, <3>2
    <3> QED BY <3>1, <3>2
  <2>8. v \in WaysUp(T, up, n, k + 1) /\ k + 1 \in 0..m
    BY <2>4, <2>6, <2>7 DEF WaysUp
  <2> QED BY <1>1, <1>4, <2>6, <2>8
<1>5. R \in SUBSET T
  BY <1>1
<1> QED BY <1>2, <1>3, <1>4, <1>5, HungBelow

\* So few nodes cannot stand deeper than the walk goes.
LEMMA FewShallow ==
  ASSUME NEW T, IsFiniteSet(T), NEW m \in Nat, Cardinality(T) <= m, NEW up
  PROVE  Shallow(T, up, m)
<1>0. IsFiniteSet(0..m) /\ Cardinality(0..m) = m + 1
  BY FS_Interval
<1> SUFFICES ASSUME NEW q \in T, NEW w \in WaysUp(T, up, q, m),
                    \A i, j \in 0..m : i < j => w[i] # w[j]
             PROVE  FALSE
  BY Zenon DEF Shallow
<1>1. w \in [0..m -> T]
  BY DEF WaysUp
<1>2. \A i, j \in 0..m : w[i] = w[j] => i = j
  OBVIOUS
<1>3. w \in Injection(0..m, T)
  BY <1>1, <1>2 DEF Injection, IsInjective
<1>4. Cardinality(0..m) <= Cardinality(T)
  BY <1>0, <1>3, FS_Injection
<1>5. Cardinality(T) \in Nat
  BY FS_CardinalityType
<1> QED BY <1>0, <1>4, <1>5

(***************************************************************************)
(* What a request knows of the tree: the pages it names are there, and     *)
(* while requests come one at a time the place it will give a page is one  *)
(* the page may have.                                                      *)
(***************************************************************************)
Above == [p \in Pages |-> page[p].parent]
Found(x) == x \in Pages => page[x].state # "none"
Fitting(q) ==
  /\ q.pc \in {"update", "publish"} /\ q.parent \in Pages => ~WouldCycle(q.page, q.parent)
  /\ q.pc = "revive" => q.parent \in {page[q.page].parent, Root}
WikiTree ==
  /\ \A p \in Pages : Found(page[p].parent)
  /\ \A e \in Editors : Found(edit[e].parent)
  /\ inTurn => Rooted(Pages, Above) /\ \A e \in Editors : Fitting(edit[e])

LEMMA RestFits == Fitting(NoEdit) /\ NoEdit.parent \notin Pages
BY RestTyped, WikiAssumption DEF Fitting, Keep

LEMMA AboveTyped ==
  ASSUME WikiShape
  PROVE  Above \in [Pages -> Pages \cup {Root}] /\ \A p \in Pages : Above[p] = page[p].parent
BY DEF WikiShape, PageRows, Above

LEMMA TreeKept ==
  ASSUME WikiInv, WikiInv', WikiTree, NEW e \in Editors, NEW q, Moved(e, q),
         \A p \in Pages : page[p].state # "none" => page'[p].state # "none",
         \A p \in Pages : page'[p].parent \in Pages => page[page'[p].parent].state # "none",
         q.parent \in Pages => page[q.parent].state # "none",
         inTurn' => Rooted(Pages, Above)' /\ Fitting(q)'
  PROVE  WikiTree'
<1>1. edit'[e] = q /\ \A f \in Editors \ {e} : edit'[f] = edit[f]
  BY DEF Moved, WikiInv, WikiShape
<1>2. ASSUME NEW p \in Pages PROVE Found(page[p].parent)'
  BY DEF Found
<1>3. ASSUME NEW f \in Editors PROVE Found(edit[f].parent)'
  <2>1. CASE f = e
    BY <1>1, <2>1 DEF Found
  <2>2. CASE f # e
    <3>1. edit'[f] = edit[f] /\ Found(edit[f].parent)
      BY <1>1, <2>2 DEF WikiTree
    <3> QED BY <3>1 DEF Found
  <2> QED BY <2>1, <2>2
<1>4. ASSUME inTurn', NEW f \in Editors PROVE Fitting(edit[f])'
  <2>1. CASE f = e
    BY <1>1, <1>4, <2>1 DEF Fitting
  <2>2. CASE f # e
    <3>1. edit'[f] = edit[f] /\ inTurn
      BY <1>1, <1>4, <2>2 DEF Moved
    <3>2. edit[f].pc = "rest"
      BY <1>4, <2>2, <3>1, RestTyped DEF Moved, WikiInv, WikiHistory, Lone
    <3> QED BY <3>1, <3>2 DEF Fitting
  <2> QED BY <2>1, <2>2
<1> QED BY <1>2, <1>3, <1>4 DEF WikiTree

\* A request reads, and no page changes its place.
LEMMA ReadTree ==
  ASSUME WikiInv, WikiInv', WikiTree, NEW e \in Editors, NEW q, Moved(e, q), page' = page,
         q.parent \in Pages => page[q.parent].state # "none", inTurn => Fitting(q)
  PROVE  WikiTree'
<1>1. inTurn' => inTurn
  BY DEF Moved
<1>2. Fitting(q) => Fitting(q)'
  BY Zenon DEF Fitting, WouldCycle, Ways
<1>3. Above' = Above
  BY DEF Above
<1>4. inTurn' => Rooted(Pages, Above)' /\ Fitting(q)'
  BY <1>1, <1>2, <1>3 DEF WikiTree
<1>5. \A p \in Pages : page'[p].parent \in Pages => page[page'[p].parent].state # "none"
  BY DEF WikiTree, Found
<1> QED BY <1>4, <1>5, TreeKept

\* Pages stay in their places or go to the root.
LEMMA LooseTree ==
  ASSUME WikiInv, WikiInv', WikiTree, NEW e \in Editors, NEW q, Moved(e, q),
         \A p \in Pages : page[p].state # "none" => page'[p].state # "none",
         \A p \in Pages : page'[p].parent \in {page[p].parent, Root},
         q.parent \in Pages => page[q.parent].state # "none",
         q.pc \in {"rest", "number", "trash"}
  PROVE  WikiTree'
<1>1. inTurn' => inTurn
  BY DEF Moved
<1>2. Fitting(q)'
  BY DEF Fitting
<1>3. \A p \in Pages : Above'[p] = Above[p] \/ Above'[p] = Root
  BY DEF Above
<1>5. Root \notin Pages
  BY WikiAssumption DEF Root
<1>4. Rooted(Pages, Above) => Rooted(Pages, Above')
  <2>1. \A p \in Pages : Above'[p] = Above[p] \/ Above'[p] \notin Pages
    BY <1>3, <1>5
  <2> QED BY <2>1, Loosened
<1>6. inTurn' => Rooted(Pages, Above)' /\ Fitting(q)'
  BY <1>1, <1>2, <1>4 DEF WikiTree
<1>7. \A p \in Pages : page'[p].parent \in Pages => page[page'[p].parent].state # "none"
  BY <1>5 DEF WikiTree, Found
<1> QED BY <1>6, <1>7, TreeKept

\* A page is hung under one that is there and not below it.
LEMMA HungTree ==
  ASSUME WikiInv, WikiInv', WikiTree, inTurn => Shallow(Pages, Above, MaxHops), NEW e \in Editors, NEW q, Moved(e, q),
         q.pc \in {"rest", "number"}, q.parent \in Pages => page[q.parent].state # "none",
         \A p \in Pages : page[p].state # "none" => page'[p].state # "none",
         NEW p \in Pages, NEW n \in Pages, page[n].state # "none", page'[p].parent = n,
         \A o \in Pages \ {p} : page'[o].parent = page[o].parent,
         inTurn => ~WouldCycle(p, n)
  PROVE  WikiTree'
<1>1. inTurn' => inTurn
  BY DEF Moved
<1>2. Fitting(q)'
  BY DEF Fitting
<1>3. /\ Above \in [Pages -> Pages \cup {Root}] /\ \A o \in Pages : Above[o] = page[o].parent
      /\ \A o \in Pages : Above'[o] = page'[o].parent
  BY AboveTyped DEF WikiInv, Above
<1>4. ASSUME inTurn' PROVE Rooted(Pages, Above)'
  <2>1. \A k \in 0..MaxHops : WaysUp(Pages, Above, n, k) = Ways(n, k)
    <3> SUFFICES ASSUME NEW k \in 0..MaxHops PROVE WaysUp(Pages, Above, n, k) = Ways(n, k)
      OBVIOUS
    <3>1. ASSUME NEW w \in [0..k -> Pages], NEW j \in 0..(k-1) PROVE Above[w[j]] = page[w[j]].parent
      <4>1. j \in 0..k
        BY WikiAssumption
      <4> QED BY <1>3, <4>1
    <3> QED BY <3>1 DEF WaysUp, Ways
  <2>2. \A k \in 0..MaxHops : \A w \in WaysUp(Pages, Above, n, k) : w[k] # p
    BY <1>1, <1>4, <2>1 DEF WouldCycle
  <2>3. Rooted(Pages, Above) /\ Shallow(Pages, Above, MaxHops)
    BY <1>1, <1>4 DEF WikiTree
  <2>4. Above'[p] = n /\ \A o \in Pages \ {p} : Above'[o] = Above[o]
    BY <1>3
  <2>5. PICK up, low, m : up = Above /\ low = Above' /\ m = MaxHops
    OBVIOUS
  <2>6. /\ m \in Nat /\ Rooted(Pages, up) /\ Shallow(Pages, up, m)
        /\ \A k \in 0..m : \A w \in WaysUp(Pages, up, n, k) : w[k] # p
        /\ low[p] = n /\ \A o \in Pages \ {p} : low[o] = up[o]
    BY <2>2, <2>3, <2>4, <2>5, WikiAssumption
  <2>7. Rooted(Pages, low)
    BY <2>6, HungWhereChecked
  <2> QED BY <2>5, <2>7
<1>5. ASSUME NEW o \in Pages, page'[o].parent \in Pages PROVE page[page'[o].parent].state # "none"
  <2>1. CASE o = p
    BY <2>1
  <2>2. CASE o # p
    BY <1>5, <2>2 DEF WikiTree, Found
  <2> QED BY <2>1, <2>2
<1> QED BY <1>2, <1>4, <1>5, TreeKept

\* A request that rests, or reads, changes no page; what it names was found.
LEMMA ReadsKeepTree ==
  ASSUME WikiInv, WikiInv', WikiTree, NEW e \in Editors,
         RestoreVersion(e) \/ Autosave(e) \/ InsertVersion(e) \/ Number(e)
  PROVE  WikiTree'
<1>1. ASSUME NEW q, Open(e, q), page' = page, q.parent = Keep, q.pc = "insert" \/ q.pc = "save" PROVE WikiTree'
  <2>1. Moved(e, q)
    BY <1>1, OpenMoves DEF WikiInv
  <2>2. Fitting(q) /\ q.parent \notin Pages
    BY <1>1, WikiAssumption DEF Fitting, Keep
  <2> QED BY <1>1, <2>1, <2>2, ReadTree
<1>3. CASE RestoreVersion(e)
  <2>1. PICK p \in Pages : \E i \in DOMAIN versions[p] :
          /\ Open(e, [NoEdit EXCEPT !.pc = "insert", !.page = p, !.text = versions[p][i].text,
                            !.status = "restore", !.next = CurrentVersion(p) + 1])
          /\ page' = page
    BY <1>3, Zenon DEF RestoreVersion
  <2>2. PICK x, n : Open(e, [NoEdit EXCEPT !.pc = "insert", !.page = p, !.text = x,
                            !.status = "restore", !.next = n]) /\ page' = page
    BY <2>1, Zenon
  <2>3. PICK q : q = [NoEdit EXCEPT !.pc = "insert", !.page = p, !.text = x, !.status = "restore", !.next = n]
    OBVIOUS
  <2>4. q.parent = Keep /\ q.pc = "insert"
    BY <2>3 DEF NoEdit
  <2> QED BY <1>1, <2>2, <2>3, <2>4
<1>4. CASE Autosave(e)
  <2>1. PICK p \in Pages, x \in SentTexts :
          /\ Open(e, [NoEdit EXCEPT !.pc = "save", !.page = p, !.sent = x, !.status = page[p].status])
          /\ page' = page
    BY <1>4, Zenon DEF Autosave
  <2>2. PICK n : Open(e, [NoEdit EXCEPT !.pc = "save", !.page = p, !.sent = x, !.status = n]) /\ page' = page
    BY <2>1, Zenon
  <2>3. PICK q : q = [NoEdit EXCEPT !.pc = "save", !.page = p, !.sent = x, !.status = n]
    OBVIOUS
  <2>4. q.parent = Keep /\ q.pc = "save"
    BY <2>3 DEF NoEdit
  <2> QED BY <1>1, <2>2, <2>3, <2>4
<1>5. ASSUME NEW q, Go(e, q), page' = page, edit[e].pc # "rest", q.parent \in {edit[e].parent, Keep},
             q.pc \in {"rest", "insert", "rewrite"}
      PROVE  WikiTree'
  <2>1. Moved(e, q)
    BY <1>5, GoMoves DEF WikiInv
  <2>2. Fitting(q)
    BY <1>5 DEF Fitting
  <2>3. q.parent \in Pages => page[q.parent].state # "none"
    BY <1>5, WikiAssumption DEF WikiTree, Found, Keep
  <2> QED BY <1>5, <2>1, <2>2, <2>3, ReadTree
<1>6. PICK w : w = edit[e] /\ w \in Edits
  BY DEF WikiInv, WikiShape
<1>7. CASE InsertVersion(e)
  <2>1. PICK q : q = IF w.status = "restore" THEN At(e, "rewrite") ELSE NoEdit
    OBVIOUS
  <2>2. Go(e, q) /\ page' = page /\ w.pc = "insert"
    BY <1>6, <1>7, <2>1 DEF InsertVersion, Done
  <2>3. q.parent \in {w.parent, Keep} /\ q.pc \in {"rest", "rewrite"}
    BY <1>6, <2>1, RestTyped DEF At, Edits
  <2> QED BY <1>5, <1>6, <2>2, <2>3
<1>8. CASE Number(e)
  <2>1. PICK n : n = CurrentVersion(edit[e].page) + 1
    OBVIOUS
  <2>2. PICK q : q = [At(e, "insert") EXCEPT !.next = n]
    OBVIOUS
  <2>3. Go(e, q) /\ page' = page /\ w.pc = "number"
    BY <1>6, <1>8, <2>1, <2>2 DEF Number
  <2>4. q.parent = w.parent /\ q.pc = "insert"
    BY <1>6, <2>2 DEF At, Edits
  <2> QED BY <1>5, <1>6, <2>3, <2>4
<1> QED BY <1>3, <1>4, <1>7, <1>8

\* A move is asked for where it makes no ring.
LEMMA AskedKeepsTree ==
  ASSUME WikiInv, WikiInv', WikiTree, NEW e \in Editors, Patch(e) \/ Publish(e) \/ Restore(e)
  PROVE  WikiTree'
<1>1. ASSUME NEW q, Open(e, q), page' = page, q.parent \in Pages => page[q.parent].state # "none", Fitting(q)
      PROVE  WikiTree'
  <2>1. Moved(e, q)
    BY <1>1, OpenMoves DEF WikiInv
  <2> QED BY <1>1, <2>1, ReadTree
<1>2. Root \notin Pages /\ Keep \notin Pages
  BY WikiAssumption DEF Root, Keep
<1>3. CASE Patch(e)
  <2>1. PICK p \in Pages, x \in SentTexts, s \in {"keep", "draft", "published"},
             up \in {q \in Pages : Exists(q)} \cup {Root, Keep} :
          /\ up \in Pages => ~WouldCycle(p, up)
          /\ Open(e, [NoEdit EXCEPT !.pc = "update", !.page = p, !.sent = x, !.text = Fill(x, page[p].text),
                                    !.status = s, !.parent = up])
          /\ page' = page
    BY <1>3, ZenonT(40) DEF Patch
  <2>t. PICK t : t = Fill(x, page[p].text)
    OBVIOUS
  <2>2. PICK q : q = [NoEdit EXCEPT !.pc = "update", !.page = p, !.sent = x, !.text = t, !.status = s, !.parent = up]
    OBVIOUS
  <2>3. q.pc = "update" /\ q.page = p /\ q.parent = up
    BY <2>2 DEF NoEdit
  <2>4. Fitting(q)
    BY <2>1, <2>3 DEF Fitting
  <2>5. q.parent \in Pages => page[q.parent].state # "none"
    BY <1>2, <2>1, <2>3 DEF Exists
  <2> QED BY <1>1, <2>1, <2>t, <2>2, <2>4, <2>5
<1>4. CASE Publish(e)
  <2>1. PICK p \in Pages, u \in Authors, x \in SentTexts :
        \E up \in {q \in Pages : Live(q) /\ CanSee(u, q) /\ ~WouldCycle(p, q)} \cup {Root} :
          Open(e, [NoEdit EXCEPT !.pc = "publish", !.page = p, !.parent = up,
                  !.text = Fill(x, Fill(page[p].pending, page[p].text))])
          /\ page' = page
    BY <1>4, ZenonT(40) DEF Publish
  <2>2. PICK t : t = Fill(x, Fill(page[p].pending, page[p].text))
    OBVIOUS
  <2>3. PICK up \in {q \in Pages : Live(q) /\ CanSee(u, q) /\ ~WouldCycle(p, q)} \cup {Root} :
          Open(e, [NoEdit EXCEPT !.pc = "publish", !.page = p, !.parent = up, !.text = t]) /\ page' = page
    BY <2>1, <2>2, Zenon
  <2>4. PICK q : q = [NoEdit EXCEPT !.pc = "publish", !.page = p, !.parent = up, !.text = t]
    OBVIOUS
  <2>5. q.pc = "publish" /\ q.page = p /\ q.parent = up
    BY <2>4 DEF NoEdit
  <2>6. up \in Pages => Live(up) /\ ~WouldCycle(p, up)
    BY <1>2, <2>3
  <2>7. Fitting(q)
    BY <2>5, <2>6 DEF Fitting
  <2>8. q.parent \in Pages => page[q.parent].state # "none"
    BY <2>5, <2>6 DEF Live
  <2> QED BY <1>1, <2>3, <2>4, <2>7, <2>8
<1>5. CASE Restore(e)
  <2>1. PICK p \in Pages :
          /\ page[p].state = "trash"
          /\ Open(e, [NoEdit EXCEPT !.pc = "revive", !.page = p,
                        !.parent = IF page[p].parent # Root /\ Live(page[p].parent) THEN page[p].parent ELSE Root])
          /\ page' = page
    BY <1>5, Zenon DEF Restore
  <2>2. PICK n : n = IF page[p].parent # Root /\ Live(page[p].parent) THEN page[p].parent ELSE Root
    OBVIOUS
  <2>3. PICK q : q = [NoEdit EXCEPT !.pc = "revive", !.page = p, !.parent = n]
    OBVIOUS
  <2>4. q.pc = "revive" /\ q.page = p /\ q.parent = n /\ n \in {page[p].parent, Root}
    BY <2>2, <2>3 DEF NoEdit
  <2>5. Fitting(q)
    BY <2>4 DEF Fitting
  <2>6. q.parent \in Pages => page[q.parent].state # "none"
    BY <1>2, <2>4 DEF WikiTree, Found
  <2> QED BY <1>1, <2>1, <2>2, <2>3, <2>5, <2>6
<1> QED BY <1>3, <1>4, <1>5

\* A request writes a page where it is, takes it to the root, or takes the pages
\* below it there.
LEMMA PlacesKeepTree ==
  ASSUME WikiInv, WikiInv', WikiTree, NEW e \in Editors,
         Rewrite(e) \/ Save(e) \/ Trash(e) \/ Revive(e) \/ Delete(e)
  PROVE  WikiTree'
<1>1. page \in [Pages -> PageRows] /\ \A p \in Pages : page[p] \in PageRows
  BY DEF WikiInv, WikiShape
<1>2. Root \notin Pages /\ Keep \notin Pages
  BY WikiAssumption DEF Root, Keep
<1>3. ASSUME NEW p \in Pages, NEW z \in PageRows, page' = [page EXCEPT ![p] = z], z.parent = page[p].parent,
             page[p].state # "none" => z.state # "none", Go(e, NoEdit), edit[e].pc # "rest"
      PROVE  WikiTree'
  <2>1. Moved(e, NoEdit)
    BY <1>3, GoMoves DEF WikiInv
  <2>2. \A o \in Pages : /\ page[o].state # "none" => page'[o].state # "none"
                         /\ page'[o].parent \in {page[o].parent, Root}
    BY <1>1, <1>3
  <2>3. NoEdit.pc = "rest" /\ NoEdit.parent \notin Pages
    BY RestFits, RestTyped
  <2> QED BY <2>1, <2>2, <2>3, LooseTree
<1>4. PICK w : w = edit[e]
  OBVIOUS
<1>5. PICK y : y = page[w.page]
  OBVIOUS
<1>6. CASE Rewrite(e)
  <2>1. w.pc = "rewrite" /\ w.page \in Pages /\ y \in PageRows /\ Written(y)
    BY <1>4, <1>5, <1>6, WorkTyped DEF Rewrite, Carries
  <2>m. PICK m : m = [k \in Parts |-> TRUE]
    OBVIOUS
  <2>2. PICK z : z = [y EXCEPT !.text = w.text, !.kept = m]
    OBVIOUS
  <2>3. page' = [page EXCEPT ![w.page] = z] /\ Go(e, NoEdit)
    BY <1>1, <1>4, <1>5, <1>6, <2>1, <2>m, <2>2 DEF Rewrite, Done
  <2>4. z.parent = y.parent /\ z.state = y.state
    BY <2>1, <2>2 DEF PageRows
  <2>5. z = page'[w.page] /\ z \in PageRows
    BY <1>1, <2>1, <2>3 DEF WikiInv, WikiShape
  <2> QED BY <1>3, <1>4, <1>5, <2>1, <2>3, <2>4, <2>5
<1>7. CASE Save(e)
  <2>1. w.pc = "save" /\ w.page \in Pages /\ y \in PageRows /\ Written(y)
    BY <1>4, <1>5, <1>7, WorkTyped DEF Save, Carries
  <2>m. PICK m : m = [k \in Parts |-> y.kept[k] /\ w.sent[k] = NoText]
    OBVIOUS
  <2>t. PICK t : t = Fill(w.sent, y.text)
    OBVIOUS
  <2>d. PICK d : d = Fill(w.sent, Fill(y.pending, y.text))
    OBVIOUS
  <2>2. PICK z : z = IF w.status = "draft" THEN [y EXCEPT !.text = t, !.kept = m] ELSE [y EXCEPT !.pending = d]
    OBVIOUS
  <2>3. page' = [page EXCEPT ![w.page] = z] /\ Go(e, NoEdit)
    <3>1. Go(e, NoEdit)
      BY <1>7 DEF Save, Done
    <3>2. CASE w.status = "draft"
      BY <1>4, <1>5, <1>7, <2>1, <2>m, <2>t, <2>2, <3>1, <3>2 DEF Save, WikiInv, WikiShape
    <3>3. CASE w.status # "draft"
      BY <1>4, <1>5, <1>7, <2>1, <2>d, <2>2, <3>1, <3>3 DEF Save, WikiInv, WikiShape
    <3> QED BY <3>1, <3>2, <3>3
  <2>4. z.parent = y.parent /\ z.state = y.state
    BY <2>1, <2>2 DEF PageRows
  <2>5. z = page'[w.page] /\ z \in PageRows
    BY <1>1, <2>1, <2>3 DEF WikiInv, WikiShape
  <2> QED BY <1>3, <1>4, <1>5, <2>1, <2>3, <2>4, <2>5
<1>8. CASE Trash(e)
  <2>1. w.pc = "trash" /\ w.page \in Pages /\ y \in PageRows
    BY <1>4, <1>5, <1>8, WorkTyped DEF Trash
  <2>2. PICK z : z = [y EXCEPT !.state = "trash"]
    OBVIOUS
  <2>3. page' = [page EXCEPT ![w.page] = z] /\ Go(e, NoEdit)
    BY <1>1, <1>4, <1>5, <1>8, <2>1, <2>2 DEF Trash, Done
  <2>4. z \in PageRows /\ z.parent = y.parent /\ z.state = "trash"
    BY <2>1, <2>2 DEF PageRows
  <2> QED BY <1>3, <1>4, <1>5, <2>1, <2>3, <2>4
<1>9. CASE Revive(e)
  <2>1. w.pc = "revive" /\ w.page \in Pages /\ y \in PageRows /\ w.parent \in Pages \cup {Root}
    BY <1>4, <1>5, <1>9, WorkTyped DEF Revive, Carries
  <2>2. PICK z : z = [y EXCEPT !.state = "live", !.parent = w.parent]
    OBVIOUS
  <2>3. page' = [page EXCEPT ![w.page] = z] /\ Go(e, NoEdit)
    BY <1>1, <1>4, <1>5, <1>9, <2>1, <2>2 DEF Revive, Done
  <2>4. z \in PageRows /\ z.parent = w.parent /\ z.state = "live"
    BY <2>1, <2>2 DEF PageRows
  <2>5. Moved(e, NoEdit)
    BY <1>4, <2>1, <2>3, GoMoves DEF WikiInv
  <2>6. /\ page'[w.page] = z /\ \A o \in Pages \ {w.page} : page'[o] = page[o]
    BY <1>1, <2>1, <2>3
  <2>7. \A o \in Pages : page[o].state # "none" => page'[o].state # "none"
    BY <2>4, <2>6
  <2>8. Found(w.parent)
    BY <1>4 DEF WikiTree
  <2>9. ASSUME NEW o \in Pages, page'[o].parent \in Pages PROVE page[page'[o].parent].state # "none"
    <3>1. CASE o = w.page
      BY <2>4, <2>6, <2>8, <2>9, <3>1 DEF Found
    <3>2. CASE o # w.page
      BY <2>6, <2>9, <3>2 DEF WikiTree, Found
    <3> QED BY <3>1, <3>2
  <2>10. ASSUME inTurn' PROVE Rooted(Pages, Above)'
    <3>1. inTurn /\ Rooted(Pages, Above) /\ w.parent \in {y.parent, Root}
      BY <1>4, <1>5, <2>1, <2>5, <2>10 DEF Moved, WikiTree, Fitting
    <3>2. \A o \in Pages : Above'[o] = Above[o] \/ Above'[o] \notin Pages
      BY <1>2, <1>5, <2>4, <2>6, <3>1 DEF Above
    <3>3. Rooted(Pages, Above')
      BY <3>1, <3>2, Loosened
    <3> QED BY <3>3
  <2>11. Fitting(NoEdit)'
    BY RestTyped DEF Fitting
  <2> QED BY <2>5, <2>7, <2>9, <2>10, <2>11, RestFits, TreeKept
<1>10. CASE Delete(e)
  <2>1. PICK p \in Pages :
        /\ Open(e, [NoEdit EXCEPT !.pc = "trash", !.page = p])
        /\ page' = [c \in Pages |-> IF page[c].parent = p THEN [page[c] EXCEPT !.parent = Root] ELSE page[c]]
    BY <1>10 DEF Delete
  <2>2. PICK q : q = [NoEdit EXCEPT !.pc = "trash", !.page = p]
    OBVIOUS
  <2>3. q.pc = "trash" /\ q.parent \notin Pages
    BY <1>2, <2>2 DEF NoEdit
  <2>4. Moved(e, q)
    BY <2>1, <2>2, OpenMoves DEF WikiInv
  <2>5. ASSUME NEW c \in Pages PROVE page'[c].state = page[c].state /\ page'[c].parent \in {page[c].parent, Root}
    <3>1. CASE page[c].parent = p
      <4>1. page'[c] = [page[c] EXCEPT !.parent = Root]
        BY <2>1, <3>1
      <4> QED BY <1>1, <4>1 DEF PageRows
    <3>2. CASE page[c].parent # p
      BY <2>1, <3>2
    <3> QED BY <3>1, <3>2
  <2> QED BY <2>3, <2>4, <2>5, LooseTree
<1> QED BY <1>6, <1>7, <1>8, <1>9, <1>10

\* A new page hangs under one that is there; nothing hangs under it yet.
LEMMA CreateKeepsTree ==
  ASSUME WikiInv, WikiInv', WikiTree, NEW e \in Editors, Create(e) PROVE WikiTree'
<1>1. PICK p \in Pages, u \in Authors, x \in FullTexts, s \in {"draft", "published"},
           up \in {q \in Pages : Exists(q)} \cup {Root} :
        /\ ~Exists(p)
        /\ page' = [page EXCEPT ![p] = [Unwritten EXCEPT !.state = "live", !.status = s, !.parent = up,
                                      !.text = x, !.author = u, !.kept = [k \in Parts |-> s = "published"]]]
        /\ Open(e, IF s = "draft" THEN NoEdit ELSE [NoEdit EXCEPT !.pc = "insert", !.page = p,
                                                            !.text = x, !.next = 1])
        /\ versions' = versions
  BY ZenonT(40) DEF Create
<1>2. PICK z : z = [Unwritten EXCEPT !.state = "live", !.status = s, !.parent = up,
                                      !.text = x, !.author = u, !.kept = [k \in Parts |-> s = "published"]]
  OBVIOUS
<1>3. z.state = "live" /\ z.parent = up
  BY <1>2 DEF Unwritten
<1>4. PICK q : q = IF s = "draft" THEN NoEdit ELSE [NoEdit EXCEPT !.pc = "insert", !.page = p, !.text = x, !.next = 1]
  OBVIOUS
<1>5. q.parent \notin Pages /\ q.pc \in {"rest", "insert"}
  BY <1>4, WikiAssumption, RestTyped DEF NoEdit, Keep
<1>6. Moved(e, q)
  BY <1>1, <1>4, OpenMoves DEF WikiInv
<1>7. page'[p] = z /\ \A o \in Pages \ {p} : page'[o] = page[o]
  BY <1>1, <1>2 DEF WikiInv, WikiShape
<1>8. page[p].state = "none" /\ (up \in Pages => page[up].state # "none" /\ up # p)
  BY <1>1, WikiAssumption DEF Exists, Root
<1>9. ASSUME NEW o \in Pages, page'[o].parent \in Pages PROVE page[page'[o].parent].state # "none"
  <2>1. CASE o = p
    BY <1>3, <1>7, <1>8, <1>9, <2>1
  <2>2. CASE o # p
    BY <1>7, <1>9, <2>2 DEF WikiTree, Found
  <2> QED BY <2>1, <2>2
<1>10. ASSUME inTurn' PROVE Rooted(Pages, Above)'
  <2>1. Rooted(Pages, Above)
    BY <1>6, <1>10 DEF Moved, WikiTree
  <2>2. Above \in [Pages -> Pages \cup {Root}] /\ \A o \in Pages : Above[o] = page[o].parent
    BY AboveTyped DEF WikiInv
  <2>3. Above'[p] = up /\ \A o \in Pages \ {p} : Above'[o] = Above[o]
    BY <1>3, <1>7 DEF Above
  <2>4. CASE up \in Pages
    <3>1. up \in Pages \ {p} /\ p \notin Pages \ {p} /\ Pages \ {p} \in SUBSET Pages
      BY <1>8, <2>4
    <3>2. \A o \in Pages \ {p} : Above[o] \in Pages => Above[o] \in Pages \ {p}
      BY <1>8, <2>2 DEF WikiTree, Found
    <3>4. PICK R : R = Pages \ {p}
      OBVIOUS
    <3>3. Rooted(Pages, Above')
      BY <2>1, <2>3, <2>4, <3>1, <3>2, <3>4, HungBelow
    <3> QED BY <3>3
  <2>5. CASE up = Root
    <3>2. \A o \in Pages : Above'[o] = Above[o] \/ Above'[o] \notin Pages
      BY <2>3, <2>5, WikiAssumption DEF Root
    <3>1. Rooted(Pages, Above')
      BY <2>1, <3>2, Loosened
    <3> QED BY <3>1
  <2> QED BY <1>1, <2>4, <2>5
<1>11. Fitting(q)'
  BY <1>5 DEF Fitting
<1>12. \A o \in Pages : page[o].state # "none" => page'[o].state # "none"
  BY <1>7, <1>8
<1> QED BY <1>5, <1>6, <1>9, <1>10, <1>11, <1>12, TreeKept

\* A move is carried out where it makes no ring.
LEMMA MovesKeepTree ==
  ASSUME WikiInv, WikiInv', WikiTree, inTurn => Shallow(Pages, Above, MaxHops), NEW e \in Editors, Update(e) \/ PublishTx(e)
  PROVE  WikiTree'
<1>1. page \in [Pages -> PageRows] /\ \A p \in Pages : page[p] \in PageRows
  BY DEF WikiInv, WikiShape
<1>2. Root \notin Pages /\ Keep \notin Pages
  BY WikiAssumption DEF Root, Keep
<1>3. PICK w : w = edit[e]
  OBVIOUS
<1>4. PICK y : y = page[w.page]
  OBVIOUS
<1>5. Found(w.parent)
  BY <1>3 DEF WikiTree
<1>6. ASSUME w.pc \in {"update", "publish"}, w.page \in Pages, NEW z, page' = [page EXCEPT ![w.page] = z],
             z.state = y.state, z.parent = (IF w.parent = Keep THEN y.parent ELSE w.parent),
             w.parent \in Pages \cup {Root, Keep}, NEW q, Go(e, q), q.pc \in {"rest", "number"},
             q.parent \in {w.parent, Keep}
      PROVE  WikiTree'
  <2>1. Moved(e, q)
    BY <1>3, <1>6, GoMoves DEF WikiInv
  <2>2. page'[w.page] = z /\ \A o \in Pages \ {w.page} : page'[o] = page[o]
    BY <1>1, <1>6
  <2>3. \A o \in Pages : page[o].state # "none" => page'[o].state # "none"
    BY <1>4, <1>6, <2>2
  <2>4. q.parent \in Pages => page[q.parent].state # "none"
    BY <1>2, <1>5, <1>6 DEF Found
  <2>5. CASE w.parent \in Pages
    <3>1. inTurn => ~WouldCycle(w.page, w.parent)
      BY <1>3, <1>6, <2>5 DEF WikiTree, Fitting
    <3>2. page'[w.page].parent = w.parent /\ page[w.parent].state # "none"
      BY <1>2, <1>5, <1>6, <2>2, <2>5 DEF Found
    <3>3. \A o \in Pages \ {w.page} : page'[o].parent = page[o].parent
      BY <2>2
    <3> QED BY <1>6, <2>1, <2>3, <2>4, <2>5, <3>1, <3>2, <3>3, HungTree
  <2>6. CASE w.parent \notin Pages
    <3>1. \A o \in Pages : page'[o].parent \in {page[o].parent, Root}
      BY <1>4, <1>6, <2>2, <2>6
    <3>2. q.pc \in {"rest", "number", "trash"}
      BY <1>6
    <3> QED BY <2>1, <2>3, <2>4, <3>1, <3>2, LooseTree
  <2> QED BY <2>5, <2>6
<1>7. CASE Update(e)
  <2>1. /\ w.pc = "update" /\ w.page \in Pages /\ y \in PageRows /\ w \in Edits
        /\ w.parent \in Pages \cup {Root, Keep}
    BY <1>3, <1>4, <1>7, WorkTyped DEF Update, Edits
  <2>m. PICK t, m :
          /\ t = Fill(w.sent, y.text)
          /\ m = [k \in Parts |-> y.kept[k] \/ (w.sent # Blank /\ w.text[k] = t[k])]
    OBVIOUS
  <2>2. PICK z : z = [y EXCEPT !.text = t, !.kept = m,
                               !.status = IF w.status = "keep" THEN y.status ELSE w.status,
                               !.parent = IF w.parent = Keep THEN y.parent ELSE w.parent]
    OBVIOUS
  <2>3. page' = [page EXCEPT ![w.page] = z]
    BY <1>3, <1>4, <1>7, <2>m, <2>2 DEF Update
  <2>4. z.state = y.state /\ z.parent = (IF w.parent = Keep THEN y.parent ELSE w.parent)
    BY <2>1, <2>2 DEF PageRows
  <2>5. PICK q : q = IF w.sent = Blank THEN NoEdit ELSE [At(e, "number") EXCEPT !.sent = Blank]
    OBVIOUS
  <2>6. Go(e, q)
    BY <1>3, <1>7, <2>5, Zenon DEF Update, Done
  <2>7. q.pc \in {"rest", "number"} /\ q.parent \in {w.parent, Keep}
    BY <1>3, <2>1, <2>5, RestTyped DEF At, Edits
  <2> QED BY <1>6, <2>1, <2>3, <2>4, <2>6, <2>7
<1>8. CASE PublishTx(e)
  <2>1. /\ w.pc = "publish" /\ w.page \in Pages /\ y \in PageRows /\ w.parent \in Pages \cup {Root}
    BY <1>3, <1>4, <1>8, WorkTyped DEF PublishTx, Carries
  <2>m. PICK m : m = [k \in Parts |-> TRUE]
    OBVIOUS
  <2>2. PICK z : z = [y EXCEPT !.text = w.text, !.kept = m, !.parent = w.parent,
                               !.status = "published", !.pending = Blank]
    OBVIOUS
  <2>3. page' = [page EXCEPT ![w.page] = z] /\ Go(e, NoEdit)
    BY <1>3, <1>4, <1>8, <2>m, <2>2 DEF PublishTx, Done
  <2>4. z.state = y.state /\ z.parent = w.parent /\ w.parent # Keep
    BY <1>2, <2>1, <2>2, WikiAssumption DEF PageRows, Root, Keep
  <2>5. NoEdit.pc = "rest" /\ NoEdit.parent = Keep
    BY RestTyped
  <2> QED BY <1>6, <2>1, <2>3, <2>4, <2>5
<1> QED BY <1>7, <1>8

LEMMA WikiTreeStarts == ASSUME WikiInit PROVE WikiTree
<1>1. \A p \in Pages : page[p].parent = Root
  BY DEF WikiInit, Unwritten
<1>2. \A e \in Editors : edit[e] = NoEdit
  BY DEF WikiInit
<1>3. Root \notin Pages
  BY WikiAssumption DEF Root
<1>4. Rooted(Pages, Above)
  <2> SUFFICES ASSUME NEW S \in SUBSET Pages, S # {}, \A q \in S : Above[q] \in S PROVE FALSE
    BY DEF Rooted
  <2> QED BY <1>1, <1>3 DEF Above
<1>5. \A e \in Editors : Fitting(edit[e]) /\ Found(edit[e].parent)
  BY <1>2, RestFits DEF Found
<1> QED BY <1>1, <1>3, <1>4, <1>5 DEF WikiTree, Found

LEMMA WikiTreeStep ==
  ASSUME WikiInv, WikiInv', WikiTree, inTurn => Shallow(Pages, Above, MaxHops), [WikiNext]_wikiVars
  PROVE  WikiTree'
<1>1. ASSUME NEW e \in Editors,
               \/ Create(e) \/ InsertVersion(e) \/ Patch(e) \/ Update(e) \/ Number(e)
               \/ RestoreVersion(e) \/ Rewrite(e) \/ Autosave(e)
               \/ Save(e) \/ Publish(e) \/ PublishTx(e) \/ Delete(e) \/ Trash(e) \/ Restore(e) \/ Revive(e)
      PROVE  WikiTree'
  BY <1>1, CreateKeepsTree, ReadsKeepTree, AskedKeepsTree, PlacesKeepTree, MovesKeepTree, Zenon
<1>2. CASE WikiCrash
  <2>1. page' = page /\ inTurn' = inTurn /\ \A e \in Editors : edit'[e] = NoEdit
    BY <1>2 DEF WikiCrash
  <2>2. Above' = Above
    BY <2>1 DEF Above
  <2>3. \A e \in Editors : Fitting(edit[e])' /\ Found(edit[e].parent)'
    BY <2>1, RestTyped, RestFits DEF Fitting, Found
  <2>4. \A p \in Pages : Found(page[p].parent)'
    BY <2>1 DEF WikiTree, Found
  <2> QED BY <2>1, <2>2, <2>3, <2>4 DEF WikiTree
<1>3. CASE UNCHANGED wikiVars
  <2>1. page' = page /\ inTurn' = inTurn /\ edit' = edit
    BY <1>3 DEF wikiVars
  <2>2. Above' = Above
    BY <2>1 DEF Above
  <2>3. ASSUME NEW e \in Editors PROVE (Fitting(edit[e]) => Fitting(edit[e])') /\ Found(edit[e].parent)'
    <3>1. Fitting(edit[e]) => Fitting(edit[e])'
      BY <2>1, Zenon DEF Fitting, WouldCycle, Ways
    <3> QED BY <2>1, <3>1 DEF WikiTree, Found
  <2>4. \A p \in Pages : Found(page[p].parent)'
    BY <2>1 DEF WikiTree, Found
  <2> QED BY <2>1, <2>2, <2>3, <2>4 DEF WikiTree
<1> QED BY <1>1, <1>2, <1>3, Zenon DEF WikiNext

\* In a rooted tree every page a user may see hangs from the root.
LEMMA RootedShows == ASSUME WikiTree PROVE TreeShowsAll
<1> SUFFICES ASSUME inTurn, NEW u \in Authors, NEW p \in Visible(u), NEW S \in SUBSET Visible(u),
                    Hangs(u, S), p \notin S
             PROVE  FALSE
  BY Zenon DEF TreeShowsAll, Tree
<1>1. Rooted(Pages, Above) /\ Visible(u) \in SUBSET Pages
  BY DEF WikiTree, Visible
<1>2. PICK q \in Visible(u) \ S : Above[q] \notin Visible(u) \ S
  BY <1>1 DEF Rooted
<1>3. page[q].parent \notin Visible(u) \ S
  BY <1>1, <1>2 DEF Above
<1> QED BY <1>2, <1>3 DEF Hangs

\* No page disappears from the tree of a user who may see it: as long as no way
\* up is longer than wouldCycle walks, pages that move one at a time never hang
\* in a ring (wiki.js:106-118, 222-240).
THEOREM NoPageLost == WikiSpec /\ [](inTurn => Shallow(Pages, Above, MaxHops)) => []TreeShowsAll
<1>1. WikiInit => WikiTree
  BY WikiTreeStarts
<1>2. WikiInv /\ WikiInv' /\ WikiTree /\ (inTurn => Shallow(Pages, Above, MaxHops)) /\ [WikiNext]_wikiVars => WikiTree'
  BY WikiTreeStep
<1>3. WikiTree => TreeShowsAll
  BY RootedShows
<1> QED BY <1>1, <1>2, <1>3, WikiInvariant, PTL DEF WikiSpec

\* What is shown of the pages and of their past is what was written, where there
\* are no more pages than wouldCycle walks up: histories are sound however
\* requests overlap or are cut off, and no page that may be seen is missing from
\* the tree while requests come one at a time (wiki.js:96-118, 199-545).
THEOREM WikiStaysSound ==
  ASSUME IsFiniteSet(Pages), Cardinality(Pages) <= MaxHops
  PROVE  WikiSpec => []WikiSound
<1>1. inTurn => Shallow(Pages, Above, MaxHops)
  BY FewShallow, WikiAssumption
<1>2. TreeShowsAll /\ HistorySound => WikiSound
  BY DEF WikiSound
<1> QED BY <1>1, <1>2, NoPageLost, HistoriesSound, PTL

(***************************************************************************)
(* Folders.  While requests come one at a time, the place a request will   *)
(* give a folder is not below it.                                          *)
(***************************************************************************)
Lift == [f \in Folders |-> IF folder[f].state = "live" THEN folder[f].up ELSE Top]
PlaceFits(q) == q.pc = "updateFolder" /\ q.place \in Folders => ~Within(q.place, q.id)
FolderTree == oneByOne => Rooted(Folders, Lift) /\ \A u \in Uploaders : PlaceFits(paper[u])

LEMMA FolderTreeKept ==
  ASSUME DocumentInv, NEW u \in Uploaders, NEW q, Turn(u, q),
         oneByOne' => Rooted(Folders, Lift)' /\ PlaceFits(q)'
  PROVE  FolderTree'
<1>1. paper'[u] = q /\ \A w \in Uploaders : w # u => paper'[w] = paper[w]
  BY DEF Turn, DocumentInv, DocumentRowsTyped, PapersTyped
<1>2. ASSUME oneByOne', NEW w \in Uploaders PROVE PlaceFits(paper[w])'
  <2>1. CASE w = u
    BY <1>1, <1>2, <2>1 DEF PlaceFits
  <2>2. CASE w # u
    BY <1>1, <1>2, <2>2 DEF Turn, PlaceFits
  <2> QED BY <2>1, <2>2
<1> QED BY <1>2 DEF FolderTree

\* Folders stay where they are or go.
LEMMA FoldersLoosened ==
  ASSUME DocumentInv, FolderTree, NEW u \in Uploaders, NEW q, Turn(u, q), q.pc # "updateFolder",
         \A f \in Folders : folder'[f] = folder[f] \/ folder'[f].state # "live"
  PROVE  FolderTree'
<1>1. PICK up, low : up = Lift /\ low = Lift'
  OBVIOUS
<1>2. \A f \in Folders : low[f] = up[f] \/ low[f] \notin Folders
  BY <1>1, PlacesApart DEF Lift
<1>3. oneByOne' => Rooted(Folders, up)
  BY <1>1 DEF FolderTree, Turn
<1>4. oneByOne' => Rooted(Folders, low)
  BY <1>2, <1>3, Loosened
<1>5. PlaceFits(q)'
  BY DEF PlaceFits
<1> QED BY <1>1, <1>4, <1>5, FolderTreeKept

\* What a request becomes that is taken up, or goes on, with something else than a
\* folder to change.
LEMMA OtherAsks ==
  ASSUME DocumentInv, NEW u \in Uploaders,
         \/ PostFolder(u) \/ DeleteFolder(u) \/ Upload(u) \/ Replace(u) \/ RestoreRevision(u) \/ PutDoc(u)
         \/ DeleteDoc(u) \/ ArchiveSpace(u)
  PROVE  folder' = folder /\ \E q : Turn(u, q) /\ q.pc # "updateFolder"
<1>0. PICK z : z = NoPaper
  OBVIOUS
<1>1. z \in Papers /\ z.pc = "rest"
  BY <1>0, BlankPaper
<1>2. folder' = folder
  BY DEF PostFolder, DeleteFolder, Upload, Replace, RestoreRevision, PutDoc, DeleteDoc, ArchiveSpace, RowsStay
<1>3. ASSUME NEW q, TakeUp(u, q), q.pc # "updateFolder" PROVE \E t : Turn(u, t) /\ t.pc # "updateFolder"
  BY <1>3, TakesUp
<1>4. CASE PostFolder(u)
  <2>1. PICK up, n : TakeUp(u, [NoPaper EXCEPT !.pc = "insertFolder", !.place = up, !.name = n])
    BY <1>4 DEF PostFolder
  <2>2. PICK q : q = [z EXCEPT !.pc = "insertFolder", !.place = up, !.name = n]
    OBVIOUS
  <2> QED BY <1>0, <1>1, <1>2, <1>3, <2>1, <2>2 DEF Papers
<1>5. CASE DeleteFolder(u)
  <2>1. PICK f : TakeUp(u, [NoPaper EXCEPT !.pc = "dropFolder", !.id = f])
    BY <1>5 DEF DeleteFolder
  <2>2. PICK q : q = [z EXCEPT !.pc = "dropFolder", !.id = f]
    OBVIOUS
  <2> QED BY <1>0, <1>1, <1>2, <1>3, <2>1, <2>2 DEF Papers
<1>6. CASE Upload(u)
  <2>1. PICK f, n, s : TakeUp(u, [NoPaper EXCEPT !.pc = "put", !.place = f, !.name = n, !.size = s])
    BY <1>6 DEF Upload
  <2>2. PICK q : q = [z EXCEPT !.pc = "put", !.place = f, !.name = n, !.size = s]
    OBVIOUS
  <2> QED BY <1>0, <1>1, <1>2, <1>3, <2>1, <2>2 DEF Papers
<1>7. CASE Replace(u)
  <2>1. PICK d \in LiveDocs, n \in FileNames, s \in Sizes :
          TakeUp(u, [NoPaper EXCEPT !.pc = "put", !.id = d, !.name = n, !.size = s, !.num = doc[d].num + 1])
    BY <1>7 DEF Replace
  <2>2. PICK q : q = [z EXCEPT !.pc = "put", !.id = d, !.name = n, !.size = s, !.num = doc[d].num + 1]
    OBVIOUS
  <2> QED BY <1>0, <1>1, <1>2, <1>3, <2>1, <2>2 DEF Papers
<1>8. CASE RestoreRevision(u)
  <2>1. PICK v \in revision :
          TakeUp(u, [NoPaper EXCEPT !.pc = "insertVersion", !.id = v.doc, !.name = v.name, !.key = v.key,
                             !.num = doc[v.doc].num + 1])
    BY <1>8 DEF RestoreRevision
  <2>2. PICK q : q = [z EXCEPT !.pc = "insertVersion", !.id = v.doc, !.name = v.name, !.key = v.key,
                             !.num = doc[v.doc].num + 1]
    OBVIOUS
  <2> QED BY <1>0, <1>1, <1>2, <1>3, <2>1, <2>2 DEF Papers
<1>9. CASE PutDoc(u)
  <2>1. PICK d, f, n : TakeUp(u, [NoPaper EXCEPT !.pc = "moveDoc", !.id = d, !.place = f, !.name = n])
    BY <1>9 DEF PutDoc
  <2>2. PICK q : q = [z EXCEPT !.pc = "moveDoc", !.id = d, !.place = f, !.name = n]
    OBVIOUS
  <2> QED BY <1>0, <1>1, <1>2, <1>3, <2>1, <2>2 DEF Papers
<1>10. CASE DeleteDoc(u) \/ ArchiveSpace(u)
  <2>1. TakeUp(u, z)
    BY <1>0, <1>10 DEF DeleteDoc, ArchiveSpace
  <2> QED BY <1>1, <1>2, <1>3, <2>1
<1> QED BY <1>4, <1>5, <1>6, <1>7, <1>8, <1>9, <1>10

LEMMA OtherSteps ==
  ASSUME DocumentInv, NEW u \in Uploaders,
         PutObject(u) \/ InsertDoc(u) \/ InsertRevision(u) \/ UpdateDoc(u) \/ MoveDoc(u)
  PROVE  folder' = folder /\ \E q : Turn(u, q) /\ q.pc # "updateFolder"
<1>0. PICK r : r = paper[u]
  OBVIOUS
<1>1. r \in Papers /\ NoPaper.pc = "rest"
  BY <1>0, BlankPaper DEF DocumentInv, DocumentRowsTyped, PapersTyped
<1>2. folder' = folder
  BY DEF PutObject, InsertDoc, InsertRevision, UpdateDoc, MoveDoc
<1>3. ASSUME NEW q, Continue(u, q), r.pc # "rest", q.pc # "updateFolder"
      PROVE  \E t : Turn(u, t) /\ t.pc # "updateFolder"
  BY <1>0, <1>3, Continues
<1>4. CASE PutObject(u)
  <2>1. PICK q : q = [r EXCEPT !.key = Len(object) + 1, !.pc = IF r.id = 0 THEN "insertDoc" ELSE "insertVersion"]
    OBVIOUS
  <2>2. Continue(u, q) /\ r.pc = "put"
    BY <1>0, <1>4, <2>1 DEF PutObject, Waits
  <2>3. q.pc # "updateFolder"
    BY <1>1, <2>1 DEF Papers
  <2> QED BY <1>2, <1>3, <2>2, <2>3
<1>5. CASE InsertDoc(u)
  <2>1. r.pc = "insertDoc"
    BY <1>0, <1>5 DEF InsertDoc, Waits
  <2>2. PICK m : m = Min({d \in Docs : doc[d].state = "none"})
    OBVIOUS
  <2>3. PICK q : q = [r EXCEPT !.pc = "insertVersion", !.id = m]
    OBVIOUS
  <2>4. Continue(u, q) \/ Continue(u, NoPaper)
    BY <1>0, <1>5, <2>2, <2>3 DEF InsertDoc, Finished
  <2>5. q.pc # "updateFolder"
    BY <1>1, <2>3 DEF Papers
  <2> QED BY <1>1, <1>2, <1>3, <2>1, <2>4, <2>5
<1>6. CASE InsertRevision(u)
  <2>1. PICK q : q = [r EXCEPT !.pc = "updateDoc"]
    OBVIOUS
  <2>2. r.pc = "insertVersion" /\ (Continue(u, q) \/ Continue(u, NoPaper))
    BY <1>0, <1>6, <2>1 DEF InsertRevision, Waits, Finished, AtStep
  <2>3. q.pc # "updateFolder"
    BY <1>1, <2>1 DEF Papers
  <2> QED BY <1>1, <1>2, <1>3, <2>2, <2>3
<1>7. CASE UpdateDoc(u) \/ MoveDoc(u)
  <2>1. r.pc # "rest" /\ Continue(u, NoPaper)
    BY <1>0, <1>7 DEF UpdateDoc, MoveDoc, Waits, Finished
  <2> QED BY <1>1, <1>2, <1>3, <2>1
<1> QED BY <1>4, <1>5, <1>6, <1>7

\* PUT /folders looks at the place it moves a folder to.
LEMMA PutFolderTree == ASSUME DocumentInv, FolderTree, NEW u \in Uploaders, PutFolder(u) PROVE FolderTree'
<1>1. PICK f \in Folders, up \in Folders \cup {Top, Stay}, n \in FileNames \cup {"none"} :
        /\ up \in Folders => ~Within(up, f)
        /\ TakeUp(u, [NoPaper EXCEPT !.pc = "updateFolder", !.id = f, !.place = up, !.name = n])
        /\ RowsStay
  BY DEF PutFolder
<1>2. PICK z : z = NoPaper
  OBVIOUS
<1>3. PICK q : q = [z EXCEPT !.pc = "updateFolder", !.id = f, !.place = up, !.name = n]
  OBVIOUS
<1>4. q.pc = "updateFolder" /\ q.id = f /\ q.place = up
  BY <1>2, <1>3, BlankPaper DEF Papers
<1>5. Turn(u, q) /\ folder' = folder
  BY <1>1, <1>2, <1>3, TakesUp DEF RowsStay
<1>6. PlaceFits(q)
  BY <1>1, <1>4 DEF PlaceFits
<1>7. PlaceFits(q)'
  BY <1>5, <1>6, Zenon DEF PlaceFits, Within, Lifts
<1>8. Lift' = Lift
  BY <1>5 DEF Lift
<1>9. oneByOne' => Rooted(Folders, Lift)'
  BY <1>5, <1>8 DEF Turn, FolderTree
<1> QED BY <1>5, <1>7, <1>9, FolderTreeKept

\* One folder is put in a place.
LEMMA OneLift ==
  ASSUME TablesTyped, NEW m \in Folders, NEW entry, folder' = [folder EXCEPT ![m] = entry], entry.state = "live"
  PROVE  Lift'[m] = entry.up /\ \A f \in Folders \ {m} : Lift'[f] = Lift[f]
<1>1. folder'[m] = entry /\ \A f \in Folders \ {m} : folder'[f] = folder[f]
  BY DEF TablesTyped
<1> QED BY <1>1 DEF Lift

LEMMA InsertFolderTree ==
  ASSUME DocumentInv, InPlace, FolderTree, NEW u \in Uploaders, InsertFolder(u) PROVE FolderTree'
<1> DEFINE free == {f \in Folders : folder[f].state = "none"}
<1>1. PICK q : q = paper[u]
  OBVIOUS
<1>2. /\ q.pc = "insertFolder" /\ Continue(u, NoPaper)
      /\ \/ folder' = folder
         \/ /\ Standing(q.place) /\ free # {}
            /\ folder' = [folder EXCEPT ![Min(free)] = [state |-> "live", up |-> q.place, name |-> q.name]]
  BY <1>1 DEF InsertFolder, Waits, Finished
<1>3. TablesTyped /\ q.place \in Folders \cup {Top}
  BY <1>1, <1>2 DEF DocumentInv, DocumentRowsTyped, PapersTyped, PaperSound, Papers
<1>4. Turn(u, NoPaper) /\ NoPaper.pc = "rest"
  BY <1>1, <1>2, Continues, BlankPaper
<1>5. CASE folder' = folder
  BY <1>4, <1>5, FoldersLoosened
<1>6. CASE folder' # folder
  <2>1. PICK m \in free : m = Min(free)
    <3>1. free \subseteq Nat /\ free # {}
      BY <1>2, <1>6, DocumentsAssumption
    <3>2. \E m \in free : \A n \in free : m <= n
      BY <3>1, LeastOf
    <3> QED BY <3>2 DEF Min
  <2>2. m \in Folders /\ folder[m].state = "none"
    BY <2>1
  <2>3. PICK entry : entry = [state |-> "live", up |-> q.place, name |-> q.name]
    OBVIOUS
  <2>4. folder' = [folder EXCEPT ![m] = entry] /\ Standing(q.place) /\ entry.state = "live" /\ entry.up = q.place
    BY <1>2, <1>6, <2>1, <2>3
  <2> HIDE DEF free
  <2>5. PICK up, low, R : up = Lift /\ low = Lift' /\ R = Folders \ {m}
    OBVIOUS
  <2>6. low[m] = q.place /\ \A f \in Folders \ {m} : low[f] = up[f]
    BY <1>3, <2>2, <2>4, <2>5, OneLift
  <2>7. ASSUME Rooted(Folders, up) PROVE Rooted(Folders, low)
    <3>1. CASE q.place = Top
      <4>1. \A f \in Folders : low[f] = up[f] \/ low[f] \notin Folders
        BY <2>6, <3>1, PlacesApart
      <4> QED BY <2>7, <4>1, Loosened
    <3>2. CASE q.place \in Folders
      <4>1. q.place \in R /\ m \notin R /\ R \in SUBSET Folders
        BY <2>2, <2>4, <2>5, <3>2, PlacesApart DEF Standing
      <4>2. ASSUME NEW f \in R, up[f] \in Folders PROVE up[f] \in R
        <5>1. folder[f].state = "live" /\ up[f] = folder[f].up
          BY <2>5, <4>2, PlacesApart DEF Lift
        <5>2. folder[up[f]].state = "live"
          BY <2>5, <4>2, <5>1, PlacesApart DEF InPlace, Standing
        <5> QED BY <2>2, <2>5, <4>2, <5>2
      <4> QED BY <2>2, <2>6, <2>7, <3>2, <4>1, <4>2, HungBelow
    <3> QED BY <1>3, <3>1, <3>2
  <2>8. oneByOne' => Rooted(Folders, Lift')
    BY <1>4, <2>5, <2>7 DEF Turn, FolderTree
  <2>9. PlaceFits(NoPaper)'
    BY <1>4 DEF PlaceFits
  <2> QED BY <1>4, <2>8, <2>9, FolderTreeKept
<1> QED BY <1>5, <1>6

LEMMA UpdateFolderTree ==
  ASSUME DocumentInv, FolderTree, oneByOne => Shallow(Folders, Lift, MaxLift - 1),
         NEW u \in Uploaders, UpdateFolder(u)
  PROVE  FolderTree'
<1>1. PICK q : q = paper[u]
  OBVIOUS
<1>2. q.pc = "updateFolder" /\ Continue(u, NoPaper)
  BY <1>1 DEF UpdateFolder, Waits, Finished
<1>3. TablesTyped /\ q.id \in Folders /\ q.place \in Folders \cup {Top, Stay} /\ q.name \in FileNames \cup {"none"}
  BY <1>1, <1>2 DEF DocumentInv, DocumentRowsTyped, PapersTyped, PaperSound, Papers
<1>4. PICK f : f = folder[q.id]
  OBVIOUS
<1>5. PICK entry : entry = [f EXCEPT !.up = IF q.place = Stay THEN @ ELSE q.place,
                                     !.name = IF q.name = "none" THEN @ ELSE q.name]
  OBVIOUS
<1>6. f \in FolderRows
  BY <1>3, <1>4 DEF TablesTyped
<1>7. entry.state = f.state /\ entry.up = (IF q.place = Stay THEN f.up ELSE q.place)
  BY <1>5, <1>6 DEF FolderRows
<1>8. \/ folder' = folder
      \/ entry.state = "live" /\ folder' = [folder EXCEPT ![q.id] = entry]
  BY <1>1, <1>4, <1>5 DEF UpdateFolder
<1>9. Turn(u, NoPaper) /\ NoPaper.pc = "rest"
  BY <1>1, <1>2, Continues, BlankPaper
<1>10. CASE folder' = folder
  BY <1>9, <1>10, FoldersLoosened
<1>11. CASE folder' # folder
  <2>1. entry.state = "live" /\ folder' = [folder EXCEPT ![q.id] = entry]
    BY <1>8, <1>11
  <2>2. PICK up, low, m : up = Lift /\ low = Lift' /\ m = MaxLift - 1
    OBVIOUS
  <2>3. low[q.id] = entry.up /\ \A g \in Folders \ {q.id} : low[g] = up[g]
    BY <1>3, <2>1, <2>2, OneLift
  <2>4. ASSUME oneByOne' PROVE Rooted(Folders, low)
    <3>1. Rooted(Folders, up) /\ Shallow(Folders, up, m) /\ PlaceFits(q) /\ m \in Nat
      BY <1>1, <1>9, <2>2, <2>4, DocumentsAssumption DEF Turn, FolderTree
    <3>2. CASE q.place \notin Folders
      <4>1. low[q.id] = up[q.id] \/ low[q.id] \notin Folders
        BY <1>3, <1>4, <1>7, <2>1, <2>2, <2>3, <3>2, PlacesApart DEF Lift
      <4> QED BY <2>3, <3>1, <4>1, Loosened
    <3>3. CASE q.place \in Folders
      <4>1. ASSUME NEW k \in 0..m, NEW w \in WaysUp(Folders, up, q.place, k) PROVE w[k] # q.id
        <5>1. w \in [0..k -> Folders] /\ w[0] = q.place /\ \A j \in 0..(k-1) : w[j+1] = up[w[j]]
          BY DEF WaysUp
        <5>2. ASSUME NEW j \in 0..(k-1) PROVE w[j+1] = folder[w[j]].up
          <6>1. w[j] \in Folders /\ w[j+1] \in Folders
            BY <3>1, <5>1
          <6>2. up[w[j]] = IF folder[w[j]].state = "live" THEN folder[w[j]].up ELSE Top
            BY <2>2, <6>1 DEF Lift
          <6> QED BY <5>1, <6>1, <6>2, PlacesApart
        <5>3. w \in Lifts(q.place, k)
          BY <5>1, <5>2 DEF Lifts
        <5>4. k \in 0..(MaxLift-1)
          BY <2>2
        <5>5. ~Within(q.place, q.id)
          BY <1>2, <3>1, <3>3 DEF PlaceFits
        <5> QED BY <5>3, <5>4, <5>5 DEF Within
      <4>2. low[q.id] = q.place
        BY <1>7, <2>3, <3>3, PlacesApart
      <4> QED BY <1>3, <2>3, <3>1, <3>3, <4>1, <4>2, HungWhereChecked
    <3> QED BY <3>2, <3>3
  <2>5. oneByOne' => Rooted(Folders, Lift)'
    BY <2>2, <2>4
  <2>6. PlaceFits(NoPaper)'
    BY <1>9 DEF PlaceFits
  <2> QED BY <1>9, <2>5, <2>6, FolderTreeKept
<1> QED BY <1>10, <1>11

LEMMA FoldersGo ==
  ASSUME DocumentInv, FolderTree, NEW u \in Uploaders, DropFolder(u) \/ DeleteSpace(u) PROVE FolderTree'
<1>1. [NoFolder EXCEPT !.state = "gone"].state # "live"
  BY DEF NoFolder
<1>2. \A f \in Folders : folder'[f] = folder[f] \/ folder'[f].state # "live"
  BY <1>1 DEF DropFolder, DeleteSpace
<1>3. Turn(u, NoPaper) /\ NoPaper.pc = "rest"
  <2>1. NoPaper.pc = "rest"
    BY BlankPaper
  <2>2. CASE DropFolder(u)
    BY <2>1, <2>2, Continues DEF DropFolder, Waits, Finished
  <2>3. CASE DeleteSpace(u)
    BY <2>1, <2>3, TakesUp DEF DeleteSpace
  <2> QED BY <2>1, <2>2, <2>3
<1> QED BY <1>2, <1>3, FoldersLoosened

LEMMA FolderTreeStarts == ASSUME DocumentInit PROVE FolderTree
<1>1. \A f \in Folders : Lift[f] = Top
  BY DEF DocumentInit, NoFolder, Lift
<1>2. Rooted(Folders, Lift)
  <2> SUFFICES ASSUME NEW S \in SUBSET Folders, S # {}, \A f \in S : Lift[f] \in S PROVE FALSE
    BY DEF Rooted
  <2> QED BY <1>1, PlacesApart
<1>3. \A u \in Uploaders : PlaceFits(paper[u])
  BY BlankPaper DEF DocumentInit, PlaceFits
<1> QED BY <1>2, <1>3 DEF FolderTree

LEMMA FolderTreeStep ==
  ASSUME DocumentInv, InPlace, FolderTree, oneByOne => Shallow(Folders, Lift, MaxLift - 1),
         [DocumentNext]_documentVars
  PROVE  FolderTree'
<1>1. ASSUME NEW u \in Uploaders, InsertFolder(u) \/ PutFolder(u) \/ UpdateFolder(u) \/ DropFolder(u) \/ DeleteSpace(u)
      PROVE  FolderTree'
  BY <1>1, InsertFolderTree, PutFolderTree, UpdateFolderTree, FoldersGo
<1>2. ASSUME NEW u \in Uploaders,
             \/ PostFolder(u) \/ DeleteFolder(u) \/ Upload(u) \/ Replace(u) \/ RestoreRevision(u) \/ PutDoc(u)
             \/ DeleteDoc(u) \/ ArchiveSpace(u)
             \/ PutObject(u) \/ InsertDoc(u) \/ InsertRevision(u) \/ UpdateDoc(u) \/ MoveDoc(u)
      PROVE  FolderTree'
  <2>1. folder' = folder /\ \E q : Turn(u, q) /\ q.pc # "updateFolder"
    BY <1>2, OtherAsks, OtherSteps
  <2>2. PICK q : Turn(u, q) /\ q.pc # "updateFolder"
    BY <2>1
  <2> QED BY <2>1, <2>2, FoldersLoosened
<1>3. CASE Halt
  <2>1. folder' = folder /\ oneByOne' = oneByOne /\ \A u \in Uploaders : paper'[u] = NoPaper
    BY <1>3 DEF Halt, RowsStay
  <2>2. Lift' = Lift
    BY <2>1 DEF Lift
  <2>3. \A u \in Uploaders : PlaceFits(paper[u])'
    BY <2>1, BlankPaper DEF PlaceFits
  <2> QED BY <2>1, <2>2, <2>3 DEF FolderTree
<1>4. CASE UNCHANGED documentVars
  <2>1. folder' = folder /\ oneByOne' = oneByOne /\ paper' = paper
    BY <1>4 DEF documentVars
  <2>2. Lift' = Lift
    BY <2>1 DEF Lift
  <2>3. \A u \in Uploaders : PlaceFits(paper[u]) => PlaceFits(paper[u])'
    BY <2>1, Zenon DEF PlaceFits, Within, Lifts
  <2> QED BY <2>1, <2>2, <2>3 DEF FolderTree
<1> QED BY <1>1, <1>2, <1>3, <1>4 DEF DocumentNext

\* In a rooted tree every set of folders that takes in what lies below it, the root
\* among it, holds all that are there.
LEMMA RootedReaches == ASSUME DocumentInv, InPlace, FolderTree PROVE FoldersReached
<1> SUFFICES ASSUME oneByOne, NEW f \in Folders, folder[f].state = "live" PROVE
               /\ Standing(folder[f].up)
               /\ \A S \in SUBSET Folders : Downward({Top} \cup S) => f \in S
  BY DEF FoldersReached
<1>1. Standing(folder[f].up)
  BY DEF InPlace
<1>2. ASSUME NEW S \in SUBSET Folders, Downward({Top} \cup S), f \notin S PROVE FALSE
  <2>1. PICK left : left = {g \in Folders \ S : folder[g].state = "live"}
    OBVIOUS
  <2>2. left \in SUBSET Folders /\ left # {}
    BY <1>2, <2>1
  <2>3. PICK g \in left : Lift[g] \notin left
    BY <2>2 DEF FolderTree, Rooted
  <2>4. g \in Folders \ S /\ folder[g].state = "live" /\ Lift[g] = folder[g].up
    BY <2>1, <2>3 DEF Lift
  <2>5. folder[g].up \in Folders \cup {Top}
    BY <2>4 DEF DocumentInv, DocumentRowsTyped, TablesTyped, FolderRows
  <2>6. folder[g].up \notin {Top} \cup S
    BY <1>2, <2>4, PlacesApart DEF Downward
  <2>7. folder[folder[g].up].state = "live"
    BY <2>4, <2>6 DEF InPlace, Standing
  <2> QED BY <2>1, <2>3, <2>4, <2>5, <2>6, <2>7
<1> QED BY <1>1, <1>2

\* No folder is lost: as long as no way up is longer than isDescendant walks, folders
\* that move one at a time never lie in a ring, and each is reached from the root of
\* its Space (documents.js:344-367, 388-399).
THEOREM NoFolderLost == DocumentSpec /\ [](oneByOne => Shallow(Folders, Lift, MaxLift - 1)) => []FoldersReached
<1>1. DocumentInit => FolderTree
  BY FolderTreeStarts
<1>2. /\ DocumentInv /\ InPlace /\ FolderTree /\ (oneByOne => Shallow(Folders, Lift, MaxLift - 1))
      /\ [DocumentNext]_documentVars
      => FolderTree'
  BY FolderTreeStep
<1>3. DocumentInv /\ InPlace /\ FolderTree => FoldersReached
  BY RootedReaches
<1> QED BY <1>1, <1>2, <1>3, DocumentInvariant, PlacesStand, PTL DEF DocumentSpec

\* Where there are fewer folders than isDescendant walks up, no folder is lost.
THEOREM FoldersStand ==
  ASSUME IsFiniteSet(Folders), Cardinality(Folders) < MaxLift
  PROVE  DocumentSpec => []FoldersReached
<1>1. MaxLift - 1 \in Nat /\ Cardinality(Folders) <= MaxLift - 1
  BY DocumentsAssumption, FS_CardinalityType
<1>2. oneByOne => Shallow(Folders, Lift, MaxLift - 1)
  BY <1>1, FewShallow
<1> QED BY <1>2, NoFolderLost, PTL

(***************************************************************************)
(* What is kept under a set of keys, by the sizes of what was put there.   *)
(***************************************************************************)
Weight(obj, S) == MapThenSumSet(LAMBDA k : obj[k], S)
RowsWeight(obj, rows, S) == MapThenSumSet(LAMBDA d : obj[rows[d].key], S)
EntriesWeight(obj, S) == MapThenSumSet(LAMBDA v : obj[v.key], S)

LEMMA WeightIsSum ==
  ASSUME NEW obj, NEW S, IsFiniteSet(S)
  PROVE  \E g : Adds(obj, S, g) /\ Weight(obj, S) = g[S]
<1> DEFINE R(g) == g = [s \in SUBSET S |-> IF s = {} THEN 0 ELSE obj[AnyOf(s)] + g[s \ {AnyOf(s)}]]
           iter == CHOOSE g : R(g)
<1>1. Weight(obj, S) = iter[S]
  BY Zenon DEF Weight, MapThenSumSet, MapThenFoldSet, AnyOf
<1>2. \A g : R(g) <=> Adds(obj, S, g)
  BY DEF Adds, SumOver
<1> HIDE DEF R
<1>3. R(iter)
  <2>1. PICK g : Adds(obj, S, g)
    BY SumExists
  <2> QED BY <1>2, <2>1
<1> QED BY <1>1, <1>2, <1>3

LEMMA RowsWeightIsSum ==
  ASSUME NEW obj, NEW rows, NEW S, IsFiniteSet(S), NEW h, \A x \in S : h[x] = obj[rows[x].key]
  PROVE  \E g : Adds(h, S, g) /\ RowsWeight(obj, rows, S) = g[S]
<1> DEFINE R(g) == g = [s \in SUBSET S |-> IF s = {} THEN 0 ELSE obj[rows[AnyOf(s)].key] + g[s \ {AnyOf(s)}]]
           iter == CHOOSE g : R(g)
<1>1. RowsWeight(obj, rows, S) = iter[S]
  BY Zenon DEF RowsWeight, MapThenSumSet, MapThenFoldSet, AnyOf
<1>2. ASSUME NEW g PROVE R(g) <=> Adds(h, S, g)
  <2>1. \A s \in SUBSET S : s # {} => h[AnyOf(s)] = obj[rows[AnyOf(s)].key]
    BY DEF AnyOf
  <2>2. [s \in SUBSET S |-> IF s = {} THEN 0 ELSE obj[rows[AnyOf(s)].key] + g[s \ {AnyOf(s)}]]
        = [s \in SUBSET S |-> IF s = {} THEN 0 ELSE h[AnyOf(s)] + g[s \ {AnyOf(s)}]]
    BY <2>1
  <2> QED BY <2>2 DEF Adds, SumOver
<1> HIDE DEF R
<1>3. R(iter)
  <2>1. PICK g : Adds(h, S, g)
    BY SumExists
  <2> QED BY <1>2, <2>1
<1> QED BY <1>1, <1>2, <1>3

LEMMA EntriesWeightIsSum ==
  ASSUME NEW obj, NEW S, IsFiniteSet(S), NEW h, \A x \in S : h[x] = obj[x.key]
  PROVE  \E g : Adds(h, S, g) /\ EntriesWeight(obj, S) = g[S]
<1> DEFINE R(g) == g = [s \in SUBSET S |-> IF s = {} THEN 0 ELSE obj[AnyOf(s).key] + g[s \ {AnyOf(s)}]]
           iter == CHOOSE g : R(g)
<1>1. EntriesWeight(obj, S) = iter[S]
  BY Zenon DEF EntriesWeight, MapThenSumSet, MapThenFoldSet, AnyOf
<1>2. ASSUME NEW g PROVE R(g) <=> Adds(h, S, g)
  <2>1. \A s \in SUBSET S : s # {} => h[AnyOf(s)] = obj[AnyOf(s).key]
    BY DEF AnyOf
  <2>2. [s \in SUBSET S |-> IF s = {} THEN 0 ELSE obj[AnyOf(s).key] + g[s \ {AnyOf(s)}]]
        = [s \in SUBSET S |-> IF s = {} THEN 0 ELSE h[AnyOf(s)] + g[s \ {AnyOf(s)}]]
    BY <2>1
  <2> QED BY <2>2 DEF Adds, SumOver
<1> HIDE DEF R
<1>3. R(iter)
  <2>1. PICK g : Adds(h, S, g)
    BY SumExists
  <2> QED BY <1>2, <2>1
<1> QED BY <1>1, <1>2, <1>3

\* A sum over some of the keys is taken as over all of them.
LEMMA WeightWithin ==
  ASSUME NEW obj, NEW T, IsFiniteSet(T), NEW S \in SUBSET T, NEW g, Adds(obj, T, g)
  PROVE  Weight(obj, S) = g[S]
<1>1. IsFiniteSet(S)
  BY FS_Subset
<1>2. PICK f : Adds(obj, S, f) /\ Weight(obj, S) = f[S]
  BY <1>1, WeightIsSum
<1>3. f[S] = g[S]
  BY <1>1, <1>2, SumSame
<1> QED BY <1>2, <1>3

LEMMA WeightGrows ==
  ASSUME NEW obj, NEW T, IsFiniteSet(T), \A k \in T : obj[k] \in Nat, NEW S \in SUBSET T
  PROVE  Weight(obj, S) \in Nat /\ Weight(obj, T) \in Nat /\ Weight(obj, S) <= Weight(obj, T)
<1>1. PICK g : Adds(obj, T, g)
  BY SumExists
<1>2. Weight(obj, S) = g[S] /\ Weight(obj, T) = g[T]
  BY <1>1, WeightWithin
<1>3. g[S] \in Nat /\ g[T] \in Nat
  BY <1>1, SumTyped
<1>4. g[S] <= g[T]
  BY <1>1, SumGrows
<1> QED BY <1>2, <1>3, <1>4

Numbers(h, S) == \A k \in S : h[k] \in Nat
Agree(f, h, S) == \A k \in S : f[k] = h[k]

\* Something is put under another key.
LEMMA WeightOfMore ==
  ASSUME NEW T, NEW S, NEW u, NEW n, NEW obj, NEW more, IsFiniteSet(T),
         u \in SUBSET T, n \in u, u \ {n} = S,
         Numbers(more, T), Agree(obj, more, S)
  PROVE  Weight(more, u) = Weight(obj, S) + more[n]
<1>1. (\A k \in T : more[k] \in Nat) /\ \A k \in S : obj[k] = more[k]
  BY DEF Numbers, Agree
<1>2. S \in SUBSET T
  OBVIOUS
<1>3. IsFiniteSet(S)
  BY <1>2, FS_Subset
<1>4. PICK g : Adds(more, T, g)
  BY SumExists
<1>5. PICK f : Adds(obj, S, f) /\ Weight(obj, S) = f[S]
  BY <1>3, WeightIsSum
<1>6. f[S] = g[S]
  BY <1>1, <1>3, <1>4, <1>5, SumSame
<1>7. Weight(more, u) = g[u]
  BY <1>4, <1>2, WeightWithin
<1>8. g[u] = more[n] + g[u \ {n}]
  BY <1>1, <1>4, <1>2, SumWithout
<1>9. PICK a, b, c : a = g[u] /\ b = g[S] /\ c = more[n]
  OBVIOUS
<1>10. a = c + b /\ b \in Nat /\ c \in Nat
  <2>1. g[S] \in Nat
    BY <1>1, <1>4, <1>2, SumTyped
  <2> QED BY <1>1, <1>2, <1>8, <1>9, <2>1
<1>11. a = b + c
  BY <1>10
<1> QED BY <1>5, <1>6, <1>7, <1>9, <1>11

\* Something new is put under the next key.
LEMMA NextKey ==
  ASSUME NEW obj \in Seq(Nat), NEW size \in Nat, NEW S \in SUBSET (1..Len(obj))
  PROVE  \E T, u, n, more :
           /\ n = Len(obj) + 1 /\ u = S \cup {n} /\ more = Append(obj, size) /\ more[n] = size
           /\ IsFiniteSet(T) /\ u \in SUBSET T /\ n \in u /\ u \ {n} = S
           /\ Numbers(more, T) /\ Agree(obj, more, S)
<1>1. PICK n, T, more, u : n = Len(obj) + 1 /\ T = 1..n /\ more = Append(obj, size) /\ u = S \cup {n}
  OBVIOUS
<1>2. Len(obj) \in Nat
  OBVIOUS
<1>3. IsFiniteSet(T)
  BY <1>1, <1>2, FS_Interval
<1>4. S \in SUBSET T /\ n \notin S /\ n \in T
  BY <1>1, <1>2
<1>5. u \in SUBSET T /\ n \in u /\ u \ {n} = S
  BY <1>1, <1>4
<1>6. more[n] = size /\ Agree(obj, more, S) /\ Numbers(more, T)
  BY <1>1 DEF Agree, Numbers
<1> QED BY <1>1, <1>3, <1>5, <1>6

LEMMA RowsWeightCovers ==
  ASSUME NEW obj, NEW T, IsFiniteSet(T), \A k \in T : obj[k] \in Nat,
         NEW rows, NEW S, IsFiniteSet(S), \A d \in S : rows[d].key \in T
  PROVE  RowsWeight(obj, rows, S) \in Nat /\ Weight(obj, {rows[d].key : d \in S}) <= RowsWeight(obj, rows, S)
<1>1. PICK h, e : h = [d \in S |-> obj[rows[d].key]] /\ e = [d \in S |-> rows[d].key]
  OBVIOUS
<1>2. e \in [S -> T] /\ \A d \in S : h[d] = obj[rows[d].key] /\ h[d] = obj[e[d]] /\ h[d] \in Nat
  BY <1>1
<1>3. PICK f : Adds(h, S, f) /\ RowsWeight(obj, rows, S) = f[S]
  BY <1>2, RowsWeightIsSum
<1>4. PICK g : Adds(obj, T, g)
  BY SumExists
<1>5. PICK u : u = {rows[d].key : d \in S}
  OBVIOUS
<1>6. u \in SUBSET T /\ u = {e[d] : d \in S}
  BY <1>1, <1>2, <1>5
<1>7. g[u] <= f[S]
  <2>1. e \in [S -> T] /\ \A x \in S : h[x] = obj[e[x]]
    BY <1>2
  <2>2. Adds(h, S, f) /\ Adds(obj, T, g)
    BY <1>3, <1>4
  <2>3. g[{e[x] : x \in S}] <= f[S]
    BY <2>1, <2>2, SumImage
  <2> QED BY <1>6, <2>3
<1>8. Weight(obj, u) = g[u]
  BY <1>4, <1>6, WeightWithin
<1>9. f[S] \in Nat
  BY <1>2, <1>3, SumTyped
<1> QED BY <1>3, <1>5, <1>7, <1>8, <1>9

LEMMA EntriesWeightCovers ==
  ASSUME NEW obj, NEW T, IsFiniteSet(T), \A k \in T : obj[k] \in Nat,
         NEW S, IsFiniteSet(S), \A v \in S : v.key \in T
  PROVE  EntriesWeight(obj, S) \in Nat /\ Weight(obj, {v.key : v \in S}) <= EntriesWeight(obj, S)
<1>1. PICK h, e : h = [v \in S |-> obj[v.key]] /\ e = [v \in S |-> v.key]
  OBVIOUS
<1>2. e \in [S -> T] /\ \A v \in S : h[v] = obj[v.key] /\ h[v] = obj[e[v]] /\ h[v] \in Nat
  BY <1>1
<1>3. PICK f : Adds(h, S, f) /\ EntriesWeight(obj, S) = f[S]
  BY <1>2, EntriesWeightIsSum
<1>4. PICK g : Adds(obj, T, g)
  BY SumExists
<1>5. PICK u : u = {v.key : v \in S}
  OBVIOUS
<1>6. u \in SUBSET T /\ u = {e[v] : v \in S}
  BY <1>1, <1>2, <1>5
<1>7. g[u] <= f[S]
  <2>1. e \in [S -> T] /\ \A x \in S : h[x] = obj[e[x]]
    BY <1>2
  <2>2. Adds(h, S, f) /\ Adds(obj, T, g)
    BY <1>3, <1>4
  <2>3. g[{e[x] : x \in S}] <= f[S]
    BY <2>1, <2>2, SumImage
  <2> QED BY <1>6, <2>3
<1>8. Weight(obj, u) = g[u]
  BY <1>4, <1>6, WeightWithin
<1>9. f[S] \in Nat
  BY <1>2, <1>3, SumTyped
<1> QED BY <1>3, <1>5, <1>7, <1>8, <1>9

LEMMA WeightOfBoth ==
  ASSUME NEW obj, NEW T, IsFiniteSet(T), \A k \in T : obj[k] \in Nat, NEW R \in SUBSET T, NEW S \in SUBSET T
  PROVE  Weight(obj, R \cup S) <= Weight(obj, R) + Weight(obj, S)
<1>1. PICK g : Adds(obj, T, g)
  BY SumExists
<1>2. Weight(obj, R) = g[R] /\ Weight(obj, S) = g[S]
  BY <1>1, WeightWithin
<1>3. PICK u : u = R \cup S
  OBVIOUS
<1>4. Weight(obj, u) = g[u]
  BY <1>1, <1>3, WeightWithin
<1>5. g[R \cup S] <= g[R] + g[S]
  BY <1>1, SumUnion
<1> QED BY <1>2, <1>3, <1>4, <1>5

(***************************************************************************)
(* The quota.  What a Space holds is what its live documents and their     *)
(* versions name, and what a request is about to name for them.  While     *)
(* requests come one at a time it only grows where the quota was asked,    *)
(* and what was asked about covers it: a version that has the number its   *)
(* document shows has its bytes too, and counts once.                      *)
(***************************************************************************)
Keys == {doc[d].key : d \in LiveDocs} \cup {v.key : v \in {w \in revision : w.doc \in LiveDocs}}
Brings(q) == q.pc \in {"insertDoc", "insertVersion", "updateDoc"}
Held == Keys \cup {paper[u].key : u \in {w \in Uploaders : Brings(paper[w])}}
Kilos == Weight(object, Held)
KeysNamed ==
  /\ \A d \in Docs : doc[d].state # "none" => doc[d].key > 0
  /\ \A v \in revision : doc[v.doc].state # "none"
  /\ IsFiniteSet(LiveDocs) /\ IsFiniteSet(revision)
SameShown == \A v \in revision : v.num = doc[v.doc].num => v.key = doc[v.doc].key
Aims(q) ==
  /\ q.pc = "put" /\ q.id # 0 => q.num = doc[q.id].num + 1
  /\ q.pc = "insertVersion" => \/ q.num = doc[q.id].num + 1
                               \/ q.num = doc[q.id].num /\ q.key = doc[q.id].key
  /\ q.pc = "updateDoc" => \A v \in revision : v.doc = q.id /\ v.num = q.num => v.key = q.key
RoomFor(q) == q.pc = "put" => Kilos + q.size <= Quota
QuotaKept ==
  /\ KeysNamed
  /\ oneByOne => SameShown /\ Kilos <= Quota /\ \A u \in Uploaders : Aims(paper[u]) /\ RoomFor(paper[u])

LEMMA HeldKeys ==
  ASSUME TablesTyped, PapersTyped, KeysNamed
  PROVE  Held \in SUBSET (1..Len(object)) /\ Keys \in SUBSET Held
<1>1. Len(object) \in Nat
  BY LengthIsNumber
<1>2. ASSUME NEW k \in Keys PROVE k \in 1..Len(object)
  <2>1. CASE \E d \in LiveDocs : k = doc[d].key
    <3>1. PICK d \in LiveDocs : k = doc[d].key
      BY <2>1
    <3>2. d \in Docs /\ doc[d].state # "none"
      BY DEF LiveDocs
    <3>3. doc[d] \in DocRows /\ k <= Len(object) /\ k > 0
      BY <3>1, <3>2 DEF TablesTyped, KeysNamed
    <3> QED BY <1>1, <3>1, <3>3 DEF DocRows
  <2>2. CASE \E v \in revision : k = v.key
    BY <1>1, <2>2 DEF TablesTyped, Revisions
  <2> QED BY <1>2, <2>1, <2>2 DEF Keys
<1>3. ASSUME NEW u \in Uploaders, Brings(paper[u]) PROVE paper[u].key \in 1..Len(object)
  <2>1. PICK q : q = paper[u]
    OBVIOUS
  <2>2. PaperSound(q) /\ q.pc \in {"insertDoc", "insertVersion", "updateDoc"}
    BY <1>3, <2>1 DEF PapersTyped, Brings
  <2>3. q.key \in Nat /\ q.key > 0 /\ q.key <= Len(object)
    BY <2>2 DEF PaperSound, Papers
  <2> QED BY <1>1, <2>1, <2>3
<1> QED BY <1>2, <1>3 DEF Held

LEMMA SizesAdd ==
  ASSUME TablesTyped
  PROVE  IsFiniteSet(1..Len(object)) /\ \A k \in 1..Len(object) : object[k] \in Nat
<1>1. Len(object) \in Nat
  BY LengthIsNumber
<1>2. \A k \in 1..Len(object) : object[k] \in Sizes
  BY DEF TablesTyped
<1>3. Sizes \subseteq Nat
  BY DocumentsAssumption
<1>4. IsFiniteSet(1..Len(object))
  BY <1>1, FS_Interval
<1> QED BY <1>2, <1>3, <1>4

\* What is held weighs no more than more of it.
LEMMA Lighter ==
  ASSUME TablesTyped, NEW R \in SUBSET (1..Len(object)), NEW S \in SUBSET R
  PROVE  Weight(object, S) \in Nat /\ Weight(object, R) \in Nat /\ Weight(object, S) <= Weight(object, R)
<1>1. PICK T : T = 1..Len(object)
  OBVIOUS
<1>2. IsFiniteSet(R) /\ \A k \in R : object[k] \in Nat
  BY SizesAdd, FS_Subset
<1> QED BY <1>2, WeightGrows

\* What the quota is asked about covers what is kept.
LEMMA AskedCovers ==
  ASSUME TablesTyped, PapersTyped, KeysNamed, SameShown
  PROVE  UsedBytes \in Nat /\ Weight(object, Keys) <= UsedBytes
<1>1. PICK T, obj, rows, live, old :
        /\ T = 1..Len(object) /\ obj = object /\ rows = doc /\ live = LiveDocs
        /\ old = {v \in revision : v.doc \in LiveDocs /\ v.num # doc[v.doc].num}
  OBVIOUS
<1>2. IsFiniteSet(T) /\ (\A k \in T : obj[k] \in Nat) /\ IsFiniteSet(live) /\ IsFiniteSet(old)
  <2>1. IsFiniteSet(old)
    <3>1. old \subseteq revision
      BY <1>1
    <3> QED BY <3>1, FS_Subset DEF KeysNamed
  <2> QED BY <1>1, <2>1, SizesAdd DEF KeysNamed
<1>3. UsedBytes = RowsWeight(obj, rows, live) + EntriesWeight(obj, old)
  BY <1>1 DEF UsedBytes, SizeOf, RowsWeight, EntriesWeight
<1>4. Keys \in SUBSET T
  BY <1>1, HeldKeys
<1>5. PICK A, B : A = {rows[d].key : d \in live} /\ B = {v.key : v \in old}
  OBVIOUS
<1>6. \A k : k \in Keys <=> k \in A \cup B
  <2>1. ASSUME NEW k \in Keys PROVE k \in A \cup B
    <3>1. CASE \E d \in LiveDocs : k = doc[d].key
      BY <1>1, <1>5, <3>1
    <3>2. CASE \E v \in revision : v.doc \in LiveDocs /\ k = v.key
      <4>1. PICK v \in revision : v.doc \in LiveDocs /\ k = v.key
        BY <3>2
      <4>2. CASE v.num = doc[v.doc].num
        BY <1>1, <1>5, <4>1, <4>2 DEF SameShown
      <4>3. CASE v.num # doc[v.doc].num
        BY <1>1, <1>5, <4>1, <4>3
      <4> QED BY <4>2, <4>3
    <3> QED BY <2>1, <3>1, <3>2 DEF Keys
  <2>2. A \subseteq Keys /\ B \subseteq Keys
    BY <1>1, <1>5 DEF Keys
  <2> QED BY <2>1, <2>2
<1>7. Keys = A \cup B /\ A \in SUBSET T /\ B \in SUBSET T
  BY <1>4, <1>6
<1>8. RowsWeight(obj, rows, live) \in Nat /\ Weight(obj, A) <= RowsWeight(obj, rows, live)
  <2>1. \A d \in live : rows[d].key \in T
    BY <1>5, <1>7
  <2> QED BY <1>2, <1>5, <2>1, RowsWeightCovers
<1>9. EntriesWeight(obj, old) \in Nat /\ Weight(obj, B) <= EntriesWeight(obj, old)
  <2>1. \A v \in old : v.key \in T
    BY <1>5, <1>7
  <2> QED BY <1>2, <1>5, <2>1, EntriesWeightCovers
<1>10. Weight(obj, A \cup B) <= Weight(obj, A) + Weight(obj, B)
  BY <1>2, <1>7, WeightOfBoth
<1>11. Weight(obj, A) \in Nat /\ Weight(obj, B) \in Nat /\ Weight(obj, A \cup B) \in Nat
  <2>1. A \in SUBSET T /\ B \in SUBSET T /\ A \cup B \in SUBSET T
    BY <1>7
  <2> QED BY <1>2, <2>1, WeightGrows
<1>12. PICK a, b, c, x, y :
         /\ a = Weight(obj, A) /\ b = Weight(obj, B) /\ c = Weight(obj, A \cup B)
         /\ x = RowsWeight(obj, rows, live) /\ y = EntriesWeight(obj, old)
  OBVIOUS
<1>13. x + y \in Nat /\ c <= x + y
  <2>1. a \in Nat /\ b \in Nat /\ c \in Nat /\ x \in Nat /\ y \in Nat /\ a <= x /\ b <= y /\ c <= a + b
    BY <1>8, <1>9, <1>10, <1>11, <1>12
  <2> QED BY <2>1
<1> QED BY <1>1, <1>3, <1>7, <1>12, <1>13

\* After a step of one request, while requests come one at a time, no other one
\* brings anything.
LEMMA HeldThen ==
  ASSUME PapersTyped, NEW u \in Uploaders, NEW q, Turn(u, q), oneByOne'
  PROVE  /\ Held' \subseteq Keys' \cup {k \in {q.key} : Brings(q)}
         /\ \A w \in Uploaders : paper'[w] = q \/ paper'[w].pc = "rest"
<1>1. paper'[u] = q /\ \A w \in Uploaders : w # u => paper'[w] = paper[w] /\ paper[w].pc = "rest"
  BY DEF Turn, PapersTyped
<1>2. \A w \in Uploaders : paper'[w] = q \/ paper'[w].pc = "rest"
  BY <1>1
<1>3. ASSUME NEW w \in Uploaders, Brings(paper'[w]) PROVE Brings(q) /\ paper'[w].key = q.key
  <2>1. paper'[w].pc # "rest"
    BY <1>3 DEF Brings
  <2> QED BY <1>2, <1>3, <2>1
<1>4. Held' \subseteq Keys' \cup {k \in {q.key} : Brings(q)}
  BY <1>3 DEF Held, Brings
<1> QED BY <1>2, <1>4

\* What a step of one request has to show.
LEMMA QuotaStep ==
  ASSUME PapersTyped, NEW u \in Uploaders, NEW q, Turn(u, q), KeysNamed',
         oneByOne' => SameShown' /\ Kilos' <= Quota /\ Aims(q)' /\ RoomFor(q)'
  PROVE  QuotaKept'
<1>1. ASSUME oneByOne', NEW w \in Uploaders PROVE Aims(paper[w])' /\ RoomFor(paper[w])'
  <2>1. paper'[w] = q \/ paper'[w].pc = "rest"
    BY <1>1, HeldThen
  <2>2. CASE paper'[w] = q
    BY <1>1, <2>2 DEF Aims, RoomFor
  <2>3. CASE paper'[w].pc = "rest"
    BY <2>3 DEF Aims, RoomFor
  <2> QED BY <2>1, <2>2, <2>3
<1> QED BY <1>1 DEF QuotaKept

\* Nothing is put into storage, and nothing is named but what was held.
LEMMA NothingPut ==
  ASSUME DocumentInv, DocumentInv', QuotaKept, object' = object, oneByOne, Held' \subseteq Held
  PROVE  Kilos' <= Quota /\ Kilos' <= Kilos /\ Kilos' \in Nat /\ Kilos \in Nat
<1>1. PICK S, R : S = Held' /\ R = Held
  OBVIOUS
<1>2. R \in SUBSET (1..Len(object)) /\ S \in SUBSET R
  BY <1>1, HeldKeys DEF DocumentInv, DocumentRowsTyped, QuotaKept
<1>3. Weight(object, S) \in Nat /\ Weight(object, R) \in Nat /\ Weight(object, S) <= Weight(object, R)
  BY <1>2, Lighter DEF DocumentInv, DocumentRowsTyped
<1>4. Kilos' = Weight(object, S) /\ Kilos = Weight(object, R)
  BY <1>1 DEF Kilos
<1>5. Kilos <= Quota /\ Quota \in Nat
  BY DocumentsAssumption DEF QuotaKept
<1> QED BY <1>3, <1>4, <1>5

\* Documents keep what they show; some go, and versions may go.
LEMMA SameRows ==
  ASSUME QuotaKept, revision' \subseteq revision, \A v \in revision : v.doc \in Docs,
         \A d \in Docs : /\ doc'[d].key = doc[d].key /\ doc'[d].num = doc[d].num
                         /\ doc'[d].state = "live" => doc[d].state = "live"
                         /\ doc'[d].state = "none" <=> doc[d].state = "none"
  PROVE  KeysNamed' /\ (SameShown => SameShown') /\ Keys' \subseteq Keys
<1>1. LiveDocs' \subseteq LiveDocs
  BY DEF LiveDocs
<1>2. IsFiniteSet(LiveDocs') /\ IsFiniteSet(revision')
  BY <1>1, FS_Subset DEF QuotaKept, KeysNamed
<1>3. KeysNamed'
  BY <1>2 DEF QuotaKept, KeysNamed
<1>4. SameShown => SameShown'
  BY DEF SameShown
<1>5. \A d \in LiveDocs' : d \in LiveDocs /\ doc'[d].key = doc[d].key
  BY <1>1 DEF LiveDocs
<1>6. Keys' \subseteq Keys
  <2>1. \A d \in LiveDocs' : doc'[d].key \in {doc[e].key : e \in LiveDocs}
    BY <1>5
  <2>2. \A v \in revision' : v.doc \in LiveDocs' => v \in revision /\ v.doc \in LiveDocs
    BY <1>1
  <2> QED BY <2>1, <2>2 DEF Keys
<1> QED BY <1>3, <1>4, <1>6

\* A step that leaves the bytes alone and brings none.
LEMMA QuietStep ==
  ASSUME DocumentInv, DocumentInv', QuotaKept, NEW u \in Uploaders, NEW q, Turn(u, q), ~Brings(q), q.pc # "put",
         object' = object, revision' \subseteq revision,
         \A d \in Docs : /\ doc'[d].key = doc[d].key /\ doc'[d].num = doc[d].num
                         /\ doc'[d].state = "live" => doc[d].state = "live"
                         /\ doc'[d].state = "none" <=> doc[d].state = "none"
  PROVE  QuotaKept'
<1>1. TablesTyped /\ PapersTyped /\ \A v \in revision : v.doc \in Docs
  BY DEF DocumentInv, DocumentRowsTyped, TablesTyped, Revisions
<1>2. KeysNamed' /\ (SameShown => SameShown') /\ Keys' \subseteq Keys
  BY <1>1, SameRows
<1>3. Aims(q)' /\ RoomFor(q)'
  BY DEF Aims, RoomFor, Brings
<1>4. ASSUME oneByOne' PROVE SameShown' /\ Kilos' <= Quota
  <2>1. oneByOne /\ SameShown
    BY <1>4 DEF Turn, QuotaKept
  <2>2. Held' \subseteq Keys'
    BY <1>1, <1>4, HeldThen
  <2>3. Held' \subseteq Held
    BY <1>2, <2>2 DEF Held
  <2> QED BY <1>2, <2>1, <2>3, NothingPut
<1> QED BY <1>1, <1>2, <1>3, <1>4, QuotaStep

\* Nothing a document shows is written by a request for a folder or a place, or by one
\* that marks a document or the Space.
LEMMA AsksKeepQuota ==
  ASSUME DocumentInv, DocumentInv', QuotaKept, NEW u \in Uploaders,
         PostFolder(u) \/ PutFolder(u) \/ DeleteFolder(u) \/ PutDoc(u)
  PROVE  QuotaKept'
<1>1. PICK z : z = NoPaper
  OBVIOUS
<1>2. z \in Papers
  BY <1>1, BlankPaper
<1>3. RowsStay
  BY DEF PostFolder, PutFolder, DeleteFolder, PutDoc
<1>4. PICK q : TakeUp(u, q) /\ q.pc \in {"insertFolder", "updateFolder", "dropFolder", "moveDoc"}
  <2>1. CASE PostFolder(u)
    <3>1. PICK up, n : TakeUp(u, [z EXCEPT !.pc = "insertFolder", !.place = up, !.name = n])
      BY <1>1, <2>1 DEF PostFolder
    <3>2. PICK q : q = [z EXCEPT !.pc = "insertFolder", !.place = up, !.name = n]
      OBVIOUS
    <3>3. q.pc = "insertFolder"
      BY <1>2, <3>2 DEF Papers
    <3> QED BY <3>1, <3>2, <3>3
  <2>2. CASE PutFolder(u)
    <3>1. PICK f, up, n : TakeUp(u, [z EXCEPT !.pc = "updateFolder", !.id = f, !.place = up, !.name = n])
      BY <1>1, <2>2 DEF PutFolder
    <3>2. PICK q : q = [z EXCEPT !.pc = "updateFolder", !.id = f, !.place = up, !.name = n]
      OBVIOUS
    <3>3. q.pc = "updateFolder"
      BY <1>2, <3>2 DEF Papers
    <3> QED BY <3>1, <3>2, <3>3
  <2>3. CASE DeleteFolder(u)
    <3>1. PICK f : TakeUp(u, [z EXCEPT !.pc = "dropFolder", !.id = f])
      BY <1>1, <2>3 DEF DeleteFolder
    <3>2. PICK q : q = [z EXCEPT !.pc = "dropFolder", !.id = f]
      OBVIOUS
    <3>3. q.pc = "dropFolder"
      BY <1>2, <3>2 DEF Papers
    <3> QED BY <3>1, <3>2, <3>3
  <2>4. CASE PutDoc(u)
    <3>1. PICK d, f, n : TakeUp(u, [z EXCEPT !.pc = "moveDoc", !.id = d, !.place = f, !.name = n])
      BY <1>1, <2>4 DEF PutDoc
    <3>2. PICK q : q = [z EXCEPT !.pc = "moveDoc", !.id = d, !.place = f, !.name = n]
      OBVIOUS
    <3>3. q.pc = "moveDoc"
      BY <1>2, <3>2 DEF Papers
    <3> QED BY <3>1, <3>2, <3>3
  <2> QED BY <2>1, <2>2, <2>3, <2>4
<1>5. Turn(u, q) /\ ~Brings(q) /\ q.pc # "put"
  BY <1>4, TakesUp DEF Brings
<1>6. object' = object /\ revision' = revision /\ doc' = doc
  BY <1>3 DEF RowsStay
<1> QED BY <1>5, <1>6, QuietStep

LEMMA MarksKeepQuota ==
  ASSUME DocumentInv, DocumentInv', QuotaKept, NEW u \in Uploaders,
         DeleteDoc(u) \/ ArchiveSpace(u) \/ DeleteSpace(u)
  PROVE  QuotaKept'
<1>1. Turn(u, NoPaper) /\ ~Brings(NoPaper) /\ NoPaper.pc # "put"
  BY TakesUp, BlankPaper DEF DeleteDoc, ArchiveSpace, DeleteSpace, Brings
<1>2. object' = object /\ revision' \subseteq revision
  BY DEF DeleteDoc, ArchiveSpace, DeleteSpace
<1>3. ASSUME NEW e \in Docs
      PROVE  /\ doc'[e].key = doc[e].key /\ doc'[e].num = doc[e].num
             /\ doc'[e].state = "live" => doc[e].state = "live"
             /\ doc'[e].state = "none" <=> doc[e].state = "none"
  <2>1. PICK r \in DocRows : r = doc[e] /\ doc \in [Docs -> DocRows]
    BY DEF DocumentInv, DocumentRowsTyped, TablesTyped
  <2>2. CASE DeleteDoc(u)
    <3>1. PICK d \in LiveDocs : doc' = [doc EXCEPT ![d].state = "deleted"]
      BY <2>2 DEF DeleteDoc
    <3>2. doc'[e] = IF e = d THEN [r EXCEPT !.state = "deleted"] ELSE r
      BY <2>1, <3>1
    <3>3. e = d => r.state = "live"
      BY <2>1 DEF LiveDocs
    <3> QED BY <2>1, <3>2, <3>3 DEF DocRows
  <2>3. CASE ArchiveSpace(u)
    BY <2>3 DEF ArchiveSpace
  <2>4. CASE DeleteSpace(u)
    <3>1. doc'[e] = IF Kept(e) THEN [r EXCEPT !.state = "gone", !.folder = Top] ELSE r
      BY <2>1, <2>4 DEF DeleteSpace
    <3>2. Kept(e) <=> r.state \in {"live", "deleted"}
      BY <2>1 DEF Kept
    <3> QED BY <2>1, <3>1, <3>2 DEF DocRows
  <2> QED BY <2>2, <2>3, <2>4
<1> QED BY <1>1, <1>2, <1>3, QuietStep

\* A request that ends, and had no bytes to name or could not name them.
LEMMA EndsKeepQuota ==
  ASSUME DocumentInv, DocumentInv', QuotaKept, NEW u \in Uploaders, paper[u].pc # "rest", Finished(u),
         object' = object, revision' = revision,
         \A d \in Docs : doc'[d].key = doc[d].key /\ doc'[d].num = doc[d].num /\ doc'[d].state = doc[d].state
  PROVE  QuotaKept'
<1>1. Turn(u, NoPaper) /\ ~Brings(NoPaper) /\ NoPaper.pc # "put"
  BY Continues, BlankPaper DEF Finished, Brings
<1> QED BY <1>1, QuietStep

LEMMA PlacesKeepQuota ==
  ASSUME DocumentInv, DocumentInv', QuotaKept, NEW u \in Uploaders,
         InsertFolder(u) \/ UpdateFolder(u) \/ DropFolder(u) \/ MoveDoc(u)
  PROVE  QuotaKept'
<1>1. paper[u].pc # "rest" /\ Finished(u) /\ object' = object /\ revision' = revision
  BY DEF InsertFolder, UpdateFolder, DropFolder, MoveDoc, Waits
<1>2. ASSUME NEW d \in Docs
      PROVE  doc'[d].key = doc[d].key /\ doc'[d].num = doc[d].num /\ doc'[d].state = doc[d].state
  <2>1. PICK r \in DocRows : r = doc[d] /\ doc \in [Docs -> DocRows]
    BY DEF DocumentInv, DocumentRowsTyped, TablesTyped
  <2>2. CASE InsertFolder(u) \/ UpdateFolder(u)
    BY <2>2 DEF InsertFolder, UpdateFolder
  <2>3. CASE DropFolder(u)
    <3>1. doc'[d] = r \/ doc'[d] = [r EXCEPT !.folder = Top]
      BY <2>1, <2>3 DEF DropFolder
    <3> QED BY <2>1, <3>1 DEF DocRows
  <2>4. CASE MoveDoc(u)
    <3>1. PICK q : q = paper[u]
      OBVIOUS
    <3>2. PICK place, name : /\ place = IF q.place = Stay THEN doc[q.id].folder ELSE q.place
                             /\ name = IF q.name = "none" THEN doc[q.id].name ELSE q.name
      OBVIOUS
    <3>3. doc' = doc \/ doc' = [doc EXCEPT ![q.id].folder = place, ![q.id].name = name]
      BY <2>4, <3>1, <3>2 DEF MoveDoc
    <3>4. doc'[d] = r \/ doc'[d] = [[r EXCEPT !.folder = place] EXCEPT !.name = name]
      BY <2>1, <3>3
    <3> QED BY <2>1, <3>4 DEF DocRows
  <2> QED BY <2>2, <2>3, <2>4
<1> QED BY <1>1, <1>2, EndsKeepQuota

\* A request that asked for its bytes has room for them: what is kept is among what
\* the quota was asked about.
LEMMA AskedHasRoom ==
  ASSUME DocumentInv, DocumentInv', QuotaKept, NEW u \in Uploaders, NEW q, Turn(u, q), RowsStay, FitsQuota(q.size),
         q.pc = "put", q.size \in Nat, q.id # 0 => q.num = doc[q.id].num + 1
  PROVE  QuotaKept'
<1>1. TablesTyped /\ PapersTyped /\ object' = object /\ doc' = doc /\ revision' = revision
  BY DEF DocumentInv, DocumentRowsTyped, RowsStay
<1>2. KeysNamed' /\ (SameShown => SameShown') /\ Keys' \subseteq Keys
  <2>1. \A v \in revision : v.doc \in Docs
    BY <1>1 DEF TablesTyped, Revisions
  <2> QED BY <1>1, <2>1, SameRows
<1>3. ~Brings(q) /\ Aims(q)'
  BY <1>1 DEF Brings, Aims
<1>4. ASSUME oneByOne' PROVE SameShown' /\ Kilos' <= Quota /\ RoomFor(q)'
  <2>1. oneByOne /\ SameShown
    BY <1>4 DEF Turn, QuotaKept
  <2>2. Held' \subseteq Keys
    BY <1>1, <1>2, <1>3, <1>4, HeldThen
  <2>3. Held' \subseteq Held
    BY <2>2 DEF Held
  <2>4. Kilos' <= Quota /\ Kilos' \in Nat
    BY <1>1, <2>1, <2>3, NothingPut
  <2>5. PICK S, R : S = Held' /\ R = Keys
    OBVIOUS
  <2>6. R \in SUBSET (1..Len(object)) /\ S \in SUBSET R
    BY <1>1, <2>2, <2>5, HeldKeys DEF QuotaKept
  <2>7. Weight(object, S) <= Weight(object, R) /\ Weight(object, R) \in Nat
    BY <1>1, <2>6, Lighter
  <2>8. UsedBytes \in Nat /\ Weight(object, R) <= UsedBytes
    BY <1>1, <2>1, <2>5, AskedCovers DEF QuotaKept
  <2>9. UsedBytes + q.size <= Quota /\ Quota \in Nat
    BY DocumentsAssumption DEF FitsQuota
  <2>10. Kilos' = Weight(object, S)
    BY <1>1, <2>5 DEF Kilos
  <2>11. PICK k, w, x, s : k = Kilos' /\ w = Weight(object, R) /\ x = UsedBytes /\ s = q.size
    OBVIOUS
  <2>12. k <= w /\ w <= x /\ x + s <= Quota /\ k \in Nat /\ w \in Nat /\ x \in Nat /\ s \in Nat
    BY <2>4, <2>7, <2>8, <2>9, <2>10, <2>11
  <2>13. k + s <= Quota
    BY <2>12, DocumentsAssumption
  <2> QED BY <1>2, <2>1, <2>4, <2>11, <2>13 DEF RoomFor
<1> QED BY <1>1, <1>2, <1>3, <1>4, QuotaStep

LEMMA UploadHasRoom ==
  ASSUME DocumentInv, DocumentInv', QuotaKept, NEW u \in Uploaders, Upload(u) \/ Replace(u) PROVE QuotaKept'
<1>1. PICK z \in Papers : z = NoPaper
  BY BlankPaper
<1>2. z.id = 0
  BY <1>1, BlankPaper
<1>3. Sizes \subseteq Nat
  BY DocumentsAssumption
<1>4. CASE Upload(u)
  <2>1. PICK f \in Folders \cup {Top}, n \in FileNames, s \in Sizes :
          /\ FitsQuota(s) /\ RowsStay
          /\ TakeUp(u, [NoPaper EXCEPT !.pc = "put", !.place = f, !.name = n, !.size = s])
    BY <1>4 DEF Upload
  <2>2. PICK q : q = [z EXCEPT !.pc = "put", !.place = f, !.name = n, !.size = s]
    OBVIOUS
  <2>3. q.pc = "put" /\ q.id = 0 /\ q.size = s
    BY <1>2, <2>2 DEF Papers
  <2>4. TakeUp(u, q)
    BY <1>1, <2>1, <2>2
  <2> QED BY <1>3, <2>1, <2>3, <2>4, TakesUp, AskedHasRoom
<1>5. CASE Replace(u)
  <2>1. PICK d \in LiveDocs, n \in FileNames, s \in Sizes :
          /\ FitsQuota(s) /\ RowsStay
          /\ TakeUp(u, [NoPaper EXCEPT !.pc = "put", !.id = d, !.name = n, !.size = s, !.num = doc[d].num + 1])
    BY <1>5 DEF Replace
  <2>2. PICK m : m = doc[d].num + 1
    OBVIOUS
  <2>3. PICK q : q = [z EXCEPT !.pc = "put", !.id = d, !.name = n, !.size = s, !.num = m]
    OBVIOUS
  <2>4. q.pc = "put" /\ q.id = d /\ q.size = s /\ q.num = m
    BY <2>3 DEF Papers
  <2>5. TakeUp(u, q)
    BY <1>1, <2>1, <2>2, <2>3
  <2> QED BY <1>3, <2>1, <2>2, <2>4, <2>5, TakesUp, AskedHasRoom
<1> QED BY <1>4, <1>5

\* A version that is restored names bytes that are kept already.
LEMMA RestoreKeepsQuota ==
  ASSUME DocumentInv, DocumentInv', QuotaKept, NEW u \in Uploaders, RestoreRevision(u) PROVE QuotaKept'
<1>1. PICK v \in revision :
        /\ v.doc \in LiveDocs /\ RowsStay
        /\ TakeUp(u, [NoPaper EXCEPT !.pc = "insertVersion", !.id = v.doc, !.name = v.name, !.key = v.key,
                             !.num = doc[v.doc].num + 1])
  BY DEF RestoreRevision
<1>2. PICK z \in Papers : z = NoPaper
  BY BlankPaper
<1>3. PICK e, n, k, m : e = v.doc /\ n = v.name /\ k = v.key /\ m = doc[v.doc].num + 1
  OBVIOUS
<1>4. PICK q : q = [z EXCEPT !.pc = "insertVersion", !.id = e, !.name = n, !.key = k, !.num = m]
  OBVIOUS
<1>5. q.pc = "insertVersion" /\ q.id = e /\ q.key = k /\ q.num = m
  BY <1>4 DEF Papers
<1>6. TakeUp(u, q)
  BY <1>1, <1>2, <1>3, <1>4
<1>7. Turn(u, q)
  BY <1>6, TakesUp
<1>8. TablesTyped /\ PapersTyped /\ object' = object /\ doc' = doc /\ revision' = revision
  BY <1>1 DEF DocumentInv, DocumentRowsTyped, RowsStay
<1>9. KeysNamed' /\ (SameShown => SameShown') /\ Keys' \subseteq Keys
  <2>1. \A w \in revision : w.doc \in Docs
    BY <1>8 DEF TablesTyped, Revisions
  <2> QED BY <1>8, <2>1, SameRows
<1>10. Aims(q)' /\ RoomFor(q)'
  BY <1>3, <1>5, <1>8 DEF Aims, RoomFor
<1>11. k \in Keys
  BY <1>1, <1>3 DEF Keys
<1>12. ASSUME oneByOne' PROVE SameShown' /\ Kilos' <= Quota
  <2>1. oneByOne /\ SameShown
    BY <1>7, <1>12 DEF Turn, QuotaKept
  <2>2. Held' \subseteq Keys' \cup {k}
    BY <1>5, <1>7, <1>8, <1>12, HeldThen
  <2>3. Held' \subseteq Held
    BY <1>9, <1>11, <2>2 DEF Held
  <2> QED BY <1>8, <1>9, <2>1, <2>3, NothingPut
<1> QED BY <1>7, <1>8, <1>9, <1>10, <1>12, QuotaStep

Appends(obj, size, S, R) ==
  obj \in Seq(Nat) /\ size \in Nat /\ S \in SUBSET (1..Len(obj)) /\ R \in SUBSET (S \cup {Len(obj) + 1})

\* What is named of it weighs at most what was held and the new bytes.
LEMMA AppendWeighs ==
  ASSUME NEW obj, NEW size, NEW S, NEW R, Appends(obj, size, S, R)
  PROVE  Weight(Append(obj, size), R) \in Nat /\ Weight(Append(obj, size), R) <= Weight(obj, S) + size
<1>1. PICK T, w, m, more :
         /\ m = Len(obj) + 1 /\ w = S \cup {m} /\ more = Append(obj, size) /\ more[m] = size
         /\ IsFiniteSet(T) /\ w \in SUBSET T /\ m \in w /\ w \ {m} = S
         /\ Numbers(more, T) /\ Agree(obj, more, S)
  BY NextKey DEF Appends
<1>2. Weight(more, w) = Weight(obj, S) + more[m]
  <2>1. IsFiniteSet(T) /\ w \in SUBSET T /\ m \in w /\ w \ {m} = S /\ Numbers(more, T) /\ Agree(obj, more, S)
    BY <1>1
  <2> QED BY <2>1, WeightOfMore
<1>3. R \in SUBSET w
  BY <1>1 DEF Appends
<1>4. Weight(more, R) <= Weight(more, w) /\ Weight(more, R) \in Nat
  <2>1. IsFiniteSet(w) /\ \A k \in w : more[k] \in Nat
    BY <1>1, FS_Subset DEF Numbers
  <2> QED BY <1>3, <2>1, WeightGrows
<1> QED BY <1>1, <1>2, <1>4

\* A request's bytes are put, in the room the quota left them.
LEMMA PutStaysWithin ==
  ASSUME DocumentInv, DocumentInv', QuotaKept, NEW u \in Uploaders, PutObject(u) PROVE QuotaKept'
<1>1. PICK p : p = paper[u]
  OBVIOUS
<1>2. TablesTyped /\ TablesTyped' /\ PapersTyped /\ PapersTyped'
  BY DEF DocumentInv, DocumentRowsTyped
<1>3. /\ PaperSound(p) /\ p \in Papers /\ p.pc = "put" /\ p.size \in Sizes
      /\ p.id = 0 => p.num = 1
  BY <1>1, <1>2 DEF PutObject, Waits, PapersTyped, PaperSound
<1>4. PICK n : n = Len(object) + 1
  OBVIOUS
<1>5. PICK next \in {"insertDoc", "insertVersion"} : next = IF p.id = 0 THEN "insertDoc" ELSE "insertVersion"
  OBVIOUS
<1>6. PICK q : q = [p EXCEPT !.key = n, !.pc = next]
  OBVIOUS
<1>7. q.pc = next /\ q.key = n /\ q.id = p.id /\ q.num = p.num
  BY <1>3, <1>6 DEF Papers
<1>8. /\ object' = Append(object, p.size) /\ Continue(u, q)
      /\ doc' = doc /\ revision' = revision
  BY <1>1, <1>4, <1>5, <1>6 DEF PutObject
<1>9. Turn(u, q)
  BY <1>1, <1>3, <1>8, Continues
<1>10. KeysNamed' /\ (SameShown => SameShown') /\ Keys' \subseteq Keys
  <2>1. \A v \in revision : v.doc \in Docs
    BY <1>2 DEF TablesTyped, Revisions
  <2> QED BY <1>8, <2>1, SameRows
<1>11. ASSUME oneByOne' PROVE SameShown' /\ Aims(q)' /\ RoomFor(q)' /\ Kilos' <= Quota
  <2>1. oneByOne /\ SameShown /\ Aims(p) /\ RoomFor(p)
    BY <1>1, <1>9, <1>11 DEF Turn, QuotaKept
  <2>2. Aims(q)' /\ RoomFor(q)'
    BY <1>3, <1>5, <1>7, <1>8, <2>1 DEF Aims, RoomFor
  <2>3. Held' \subseteq Keys \cup {n}
    BY <1>2, <1>7, <1>9, <1>10, <1>11, HeldThen
  <2>4. PICK obj, size, S, R : obj = object /\ size = p.size /\ S = Held /\ R = Held'
    OBVIOUS
  <2>5. Appends(obj, size, S, R)
    <3>1. \A k \in 1..Len(object) : object[k] \in Nat
      BY <1>2, SizesAdd
    <3>2. object \in Seq(Nat)
      BY <1>2, <3>1 DEF TablesTyped
    <3>3. Held \in SUBSET (1..Len(object)) /\ Keys \in SUBSET Held
      BY <1>2, HeldKeys DEF QuotaKept
    <3>4. p.size \in Nat
      BY <1>3, DocumentsAssumption
    <3> QED BY <1>4, <2>3, <2>4, <3>2, <3>3, <3>4 DEF Appends
  <2>6. Weight(Append(obj, size), R) \in Nat /\ Weight(Append(obj, size), R) <= Weight(obj, S) + size
    BY <2>5, AppendWeighs
  <2>7. Kilos' = Weight(Append(obj, size), R) /\ Kilos = Weight(obj, S)
    BY <1>8, <2>4 DEF Kilos
  <2>8. Kilos + size <= Quota
    BY <1>3, <2>1, <2>4 DEF RoomFor
  <2>9. PICK a, b : a = Kilos' /\ b = Kilos + size
    OBVIOUS
  <2>10. a \in Nat /\ a <= b /\ b <= Quota /\ b \in Nat
    <3>1. Weight(obj, S) \in Nat
      BY <2>4, <1>2, HeldKeys, Lighter DEF QuotaKept
    <3> QED BY <1>3, <2>4, <2>6, <2>7, <2>8, <2>9, <3>1, DocumentsAssumption
  <2>11. a <= Quota
    BY <2>10, DocumentsAssumption
  <2> QED BY <1>10, <2>1, <2>2, <2>9, <2>11
<1> QED BY <1>2, <1>9, <1>10, <1>11, QuotaStep

\* A document is written, or shown anew, with bytes that are held.
LEMMA NamesHeld ==
  ASSUME DocumentInv, DocumentInv', QuotaKept, NEW u \in Uploaders, NEW q, Turn(u, q), oneByOne', SameShown',
         object' = object, NEW k \in Held, Keys' \subseteq Keys \cup {k}, Brings(q) => q.key = k
  PROVE  Kilos' <= Quota
<1>1. oneByOne /\ PapersTyped /\ TablesTyped
  BY DEF Turn, DocumentInv, DocumentRowsTyped
<1>2. Held' \subseteq Keys' \cup {k}
  BY <1>1, HeldThen
<1>3. Keys \subseteq Held
  BY DEF Held
<1>4. Held' \subseteq Held
  BY <1>2, <1>3
<1> QED BY <1>1, <1>4, NothingPut

LEMMA InsertDocWithin ==
  ASSUME DocumentInv, DocumentInv', QuotaKept, NEW u \in Uploaders, InsertDoc(u) PROVE QuotaKept'
<1> DEFINE free == {d \in Docs : doc[d].state = "none"}
<1>1. PICK p : p = paper[u]
  OBVIOUS
<1>2. /\ p.pc = "insertDoc"
      /\ IF space # "gone" /\ Standing(p.place) /\ free # {}
         THEN /\ doc' = [doc EXCEPT ![Min(free)] = [state |-> "live", folder |-> p.place,
                                                   name |-> p.name, key |-> p.key, num |-> 1]]
              /\ Continue(u, [p EXCEPT !.pc = "insertVersion", !.id = Min(free)])
         ELSE Finished(u) /\ UNCHANGED doc
      /\ UNCHANGED <<revision, object>>
  BY <1>1 DEF InsertDoc, Waits
<1>3. TablesTyped /\ PapersTyped
  BY DEF DocumentInv, DocumentRowsTyped
<1>4. CASE ~(space # "gone" /\ Standing(p.place) /\ free # {})
  <2>1. paper[u].pc # "rest" /\ Finished(u) /\ object' = object /\ revision' = revision /\ doc' = doc
    BY <1>1, <1>2, <1>4
  <2> QED BY <2>1, EndsKeepQuota
<1>5. CASE space # "gone" /\ Standing(p.place) /\ free # {}
  <2>1. PICK m \in free : m = Min(free)
    <3>1. free \subseteq Nat
      BY DocumentsAssumption
    <3>2. \E m \in free : \A n \in free : m <= n
      BY <1>5, <3>1, LeastOf
    <3> QED BY <3>2 DEF Min
  <2>2. m \in Docs /\ doc[m].state = "none"
    BY <2>1
  <2>3. PaperSound(p) /\ p \in Papers /\ p.num = 1 /\ p.key \in Nat \ {0}
    BY <1>1, <1>2, <1>3 DEF PapersTyped, PaperSound, Papers
  <2>4. PICK k, f, n : k = p.key /\ f = p.place /\ n = p.name
    OBVIOUS
  <2>5. PICK entry : entry = [state |-> "live", folder |-> f, name |-> n, key |-> k, num |-> 1]
    OBVIOUS
  <2>6. entry.state = "live" /\ entry.key = k /\ entry.num = 1
    BY <2>5
  <2>7. PICK q : q = [p EXCEPT !.pc = "insertVersion", !.id = m]
    OBVIOUS
  <2>8. q.pc = "insertVersion" /\ q.id = m /\ q.num = 1 /\ q.key = k
    BY <2>3, <2>4, <2>7 DEF Papers
  <2>9. /\ doc' = [doc EXCEPT ![m] = entry] /\ Continue(u, q)
        /\ revision' = revision /\ object' = object
    BY <1>2, <1>5, <2>1, <2>4, <2>5, <2>7
  <2> HIDE DEF free
  <2>10. doc'[m] = entry /\ \A d \in Docs : d # m => doc'[d] = doc[d]
    BY <1>3, <2>2, <2>9 DEF TablesTyped
  <2>11. Turn(u, q)
    BY <1>1, <1>2, <2>9, Continues
  <2>12. \A v \in revision : v.doc \in Docs /\ v.doc # m
    BY <1>3, <2>2 DEF TablesTyped, Revisions, QuotaKept, KeysNamed
  <2>13. KeysNamed'
    <3>1. LiveDocs' \subseteq LiveDocs \cup {m}
      BY <2>10 DEF LiveDocs
    <3>2. IsFiniteSet(LiveDocs')
      <4>1. IsFiniteSet(LiveDocs \cup {m})
        BY FS_AddElement DEF QuotaKept, KeysNamed
      <4> QED BY <3>1, <4>1, FS_Subset
    <3>3. \A d \in Docs : doc'[d].state # "none" => doc'[d].key > 0
      BY <2>3, <2>4, <2>6, <2>10 DEF QuotaKept, KeysNamed
    <3>4. \A v \in revision' : doc'[v.doc].state # "none"
      BY <2>9, <2>10, <2>12 DEF QuotaKept, KeysNamed
    <3> QED BY <2>9, <3>2, <3>3, <3>4 DEF QuotaKept, KeysNamed
  <2>14. SameShown => SameShown'
    BY <2>9, <2>10, <2>12 DEF SameShown
  <2>15. Aims(q)' /\ RoomFor(q)'
    <3>1. q.num = doc'[q.id].num /\ q.key = doc'[q.id].key
      BY <2>6, <2>8, <2>10
    <3> QED BY <2>8, <3>1 DEF Aims, RoomFor
  <2>16. k \in Held
    BY <1>1, <1>2, <2>4 DEF Held, Brings
  <2>17. Keys' \subseteq Keys \cup {k}
    <3>1. ASSUME NEW d \in LiveDocs' PROVE doc'[d].key \in Keys \cup {k}
      <4>1. CASE d = m
        BY <2>6, <2>10, <4>1
      <4>2. CASE d # m
        <5>1. d \in LiveDocs /\ doc'[d].key = doc[d].key
          BY <2>10, <3>1, <4>2 DEF LiveDocs
        <5> QED BY <5>1 DEF Keys
      <4> QED BY <4>1, <4>2
    <3>2. ASSUME NEW v \in revision', v.doc \in LiveDocs' PROVE v.key \in Keys
      <4>1. v \in revision /\ v.doc \in LiveDocs
        BY <2>9, <2>10, <2>12, <3>2 DEF LiveDocs
      <4> QED BY <4>1 DEF Keys
    <3> QED BY <3>1, <3>2 DEF Keys
  <2>18. ASSUME oneByOne' PROVE SameShown' /\ Kilos' <= Quota
    <3>1. SameShown'
      BY <2>11, <2>14, <2>18 DEF Turn, QuotaKept
    <3> QED BY <2>8, <2>9, <2>11, <2>16, <2>17, <2>18, <3>1, NamesHeld
  <2> QED BY <1>3, <2>11, <2>13, <2>15, <2>18, QuotaStep
<1> QED BY <1>4, <1>5

LEMMA InsertRevisionWithin ==
  ASSUME DocumentInv, DocumentInv', QuotaKept, NEW u \in Uploaders, InsertRevision(u) PROVE QuotaKept'
<1>1. PICK p : p = paper[u]
  OBVIOUS
<1>2. /\ p.pc = "insertVersion"
      /\ IF Kept(p.id) /\ ~OnRecord(p.id, p.num)
         THEN /\ revision' = revision \cup {[doc |-> p.id, num |-> p.num, key |-> p.key, name |-> p.name]}
              /\ IF p.num = 1 THEN Finished(u) ELSE Continue(u, [p EXCEPT !.pc = "updateDoc"])
         ELSE UNCHANGED revision /\ Finished(u)
      /\ UNCHANGED <<space, folder, doc, object, current>>
  BY <1>1 DEF InsertRevision, Waits, OnRecord, AtStep
<1>3. TablesTyped /\ PapersTyped
  BY DEF DocumentInv, DocumentRowsTyped
<1>4. PaperSound(p) /\ p \in Papers /\ p.id \in Docs /\ p.num \in Nat \ {0} /\ doc[p.id].state # "none"
  BY <1>1, <1>2, <1>3 DEF PapersTyped, PaperSound, Papers, Filed
<1>5. CASE ~(Kept(p.id) /\ ~OnRecord(p.id, p.num))
  <2>1. paper[u].pc # "rest" /\ Finished(u) /\ object' = object /\ revision' = revision /\ doc' = doc
    BY <1>1, <1>2, <1>5
  <2> QED BY <2>1, EndsKeepQuota
<1>6. CASE Kept(p.id) /\ ~OnRecord(p.id, p.num)
  <2>1. PICK v : v = [doc |-> p.id, num |-> p.num, key |-> p.key, name |-> p.name]
    OBVIOUS
  <2>2. v.doc = p.id /\ v.num = p.num /\ v.key = p.key
    BY <2>1
  <2>3. revision' = revision \cup {v} /\ doc' = doc /\ object' = object
    BY <1>2, <1>6, <2>1
  <2>4. PICK q : /\ Turn(u, q)
                 /\ \/ q.pc = "rest" /\ p.num = 1
                    \/ q.pc = "updateDoc" /\ q.id = p.id /\ q.num = p.num /\ q.key = p.key
    <3>1. CASE p.num = 1
      <4>1. Turn(u, NoPaper)
        BY <1>1, <1>2, <1>6, <3>1, Continues DEF Finished
      <4> QED BY <3>1, <4>1, BlankPaper
    <3>2. CASE p.num # 1
      <4>1. PICK q : q = [p EXCEPT !.pc = "updateDoc"]
        OBVIOUS
      <4>2. q.pc = "updateDoc" /\ q.id = p.id /\ q.num = p.num /\ q.key = p.key
        BY <1>4, <4>1 DEF Papers
      <4>3. Turn(u, q)
        BY <1>1, <1>2, <1>6, <3>2, <4>1, Continues
      <4> QED BY <4>2, <4>3
    <3> QED BY <3>1, <3>2
  <2>5. KeysNamed'
    <3>1. IsFiniteSet(revision')
      BY <2>3, FS_AddElement DEF QuotaKept, KeysNamed
    <3>2. LiveDocs' = LiveDocs
      BY <2>3 DEF LiveDocs
    <3> QED BY <1>4, <2>2, <2>3, <3>1, <3>2 DEF QuotaKept, KeysNamed
  <2>6. oneByOne => Aims(p) /\ SameShown
    BY <1>1 DEF QuotaKept
  <2>7. oneByOne => SameShown'
    <3> SUFFICES ASSUME oneByOne, NEW w \in revision', w.num = doc'[w.doc].num PROVE w.key = doc'[w.doc].key
      BY DEF SameShown
    <3>1. CASE w \in revision
      BY <2>3, <2>6, <3>1 DEF SameShown
    <3>2. CASE w = v
      <4>1. p.num = doc[p.id].num
        BY <2>2, <2>3, <3>2
      <4>2. doc[p.id].num \in Nat
        BY <1>3, <1>4 DEF TablesTyped, DocRows
      <4>3. p.key = doc[p.id].key
        BY <1>2, <2>6, <4>1, <4>2 DEF Aims
      <4> QED BY <2>2, <2>3, <3>2, <4>3
    <3> QED BY <2>3, <3>1, <3>2
  <2>8. Aims(q)' /\ RoomFor(q)'
    <3>1. q.pc = "updateDoc" => \A w \in revision' : w.doc = q.id /\ w.num = q.num => w.key = q.key
      <4>1. \A w \in revision : ~(w.doc = p.id /\ w.num = p.num)
        BY <1>6 DEF OnRecord
      <4> QED BY <2>2, <2>3, <2>4, <4>1
    <3> QED BY <2>4, <3>1 DEF Aims, RoomFor
  <2>9. PICK k : k = p.key
    OBVIOUS
  <2>10. k \in Held
    BY <1>1, <1>2, <2>9 DEF Held, Brings
  <2>11. Keys' \subseteq Keys \cup {k}
    <3>1. LiveDocs' = LiveDocs
      BY <2>3 DEF LiveDocs
    <3> QED BY <2>2, <2>3, <2>9, <3>1 DEF Keys
  <2>12. Brings(q) => q.key = k
    BY <2>4, <2>9 DEF Brings
  <2>13. ASSUME oneByOne' PROVE SameShown' /\ Kilos' <= Quota
    <3>1. SameShown'
      BY <2>4, <2>7, <2>13 DEF Turn
    <3> QED BY <2>3, <2>4, <2>10, <2>11, <2>12, <2>13, <3>1, NamesHeld
  <2> QED BY <1>3, <2>4, <2>5, <2>8, <2>13, QuotaStep
<1> QED BY <1>5, <1>6

LEMMA UpdateDocWithin ==
  ASSUME DocumentInv, DocumentInv', QuotaKept, NEW u \in Uploaders, UpdateDoc(u) PROVE QuotaKept'
<1>1. PICK p : p = paper[u]
  OBVIOUS
<1>2. /\ p.pc = "updateDoc"
      /\ doc' = IF Kept(p.id) THEN [doc EXCEPT ![p.id].name = p.name, ![p.id].key = p.key, ![p.id].num = p.num]
                ELSE doc
      /\ Finished(u)
      /\ revision' = revision /\ object' = object
  BY <1>1 DEF UpdateDoc, Waits
<1>3. TablesTyped /\ PapersTyped
  BY DEF DocumentInv, DocumentRowsTyped
<1>4. PaperSound(p) /\ p \in Papers /\ p.id \in Docs /\ p.key \in Nat \ {0} /\ doc[p.id].state # "none"
  BY <1>1, <1>2, <1>3 DEF PapersTyped, PaperSound, Papers, Filed
<1>5. CASE ~Kept(p.id)
  <2>1. paper[u].pc # "rest" /\ Finished(u) /\ object' = object /\ revision' = revision /\ doc' = doc
    BY <1>1, <1>2, <1>5
  <2> QED BY <2>1, EndsKeepQuota
<1>6. CASE Kept(p.id)
  <2>1. /\ doc'[p.id].key = p.key /\ doc'[p.id].num = p.num /\ doc'[p.id].state = doc[p.id].state
        /\ \A d \in Docs : d # p.id => doc'[d] = doc[d]
    <3>1. PICK r : r = doc[p.id]
      OBVIOUS
    <3>2. r \in DocRows /\ doc \in [Docs -> DocRows]
      BY <1>3, <1>4, <3>1 DEF TablesTyped
    <3>3. PICK n, k, m : n = p.name /\ k = p.key /\ m = p.num
      OBVIOUS
    <3>4. doc' = [doc EXCEPT ![p.id].name = n, ![p.id].key = k, ![p.id].num = m]
      BY <1>2, <1>6, <3>3
    <3>5. /\ doc'[p.id] = [[[r EXCEPT !.name = n] EXCEPT !.key = k] EXCEPT !.num = m]
          /\ \A d \in Docs : d # p.id => doc'[d] = doc[d]
      BY <1>4, <3>1, <3>2, <3>4
    <3>6. PICK entry : entry = [[[r EXCEPT !.name = n] EXCEPT !.key = k] EXCEPT !.num = m]
      OBVIOUS
    <3>7. entry.key = k /\ entry.num = m /\ entry.state = r.state
      BY <3>2, <3>6 DEF DocRows
    <3> QED BY <3>1, <3>3, <3>5, <3>6, <3>7
  <2>2. Turn(u, NoPaper) /\ ~Brings(NoPaper) /\ NoPaper.pc # "put"
    BY <1>1, <1>2, Continues, BlankPaper DEF Finished, Brings
  <2>3. LiveDocs' = LiveDocs
    <3>1. \A d \in Docs : doc'[d].state = doc[d].state
      BY <2>1
    <3> QED BY <3>1 DEF LiveDocs
  <2>4. \A v \in revision : v.doc \in Docs
    BY <1>3 DEF TablesTyped, Revisions
  <2>5. KeysNamed'
    <3>1. \A d \in Docs : doc'[d].state # "none" => doc'[d].key > 0
      BY <1>4, <2>1 DEF QuotaKept, KeysNamed
    <3>2. \A v \in revision : doc'[v.doc].state # "none"
      BY <2>1, <2>4 DEF QuotaKept, KeysNamed
    <3> QED BY <1>2, <2>3, <3>1, <3>2 DEF QuotaKept, KeysNamed
  <2>6. oneByOne => Aims(p) /\ SameShown
    BY <1>1 DEF QuotaKept
  <2>7. oneByOne => SameShown'
    <3> SUFFICES ASSUME oneByOne, NEW w \in revision, w.num = doc'[w.doc].num PROVE w.key = doc'[w.doc].key
      BY <1>2 DEF SameShown
    <3>1. CASE w.doc = p.id
      BY <1>2, <2>1, <2>6, <3>1 DEF Aims
    <3>2. CASE w.doc # p.id
      BY <2>1, <2>4, <2>6, <3>2 DEF SameShown
    <3> QED BY <3>1, <3>2
  <2>8. Aims(NoPaper)' /\ RoomFor(NoPaper)'
    BY BlankPaper DEF Aims, RoomFor
  <2>9. PICK k : k = p.key
    OBVIOUS
  <2>10. k \in Held
    BY <1>1, <1>2, <2>9 DEF Held, Brings
  <2>11. Keys' \subseteq Keys \cup {k}
    <3>1. \A d \in LiveDocs : doc'[d].key = k \/ doc'[d].key = doc[d].key
      BY <2>1, <2>9 DEF LiveDocs
    <3> QED BY <1>2, <2>3, <3>1 DEF Keys
  <2>12. ASSUME oneByOne' PROVE SameShown' /\ Kilos' <= Quota
    <3>1. SameShown'
      BY <2>2, <2>7, <2>12 DEF Turn
    <3>2. PICK q : q = NoPaper
      OBVIOUS
    <3>3. Turn(u, q) /\ (Brings(q) => q.key = k)
      BY <2>2, <3>2
    <3> QED BY <1>2, <2>10, <2>11, <2>12, <3>1, <3>3, NamesHeld
  <2> QED BY <1>3, <2>2, <2>5, <2>8, <2>12, QuotaStep
<1> QED BY <1>5, <1>6

\* The requests of a process that ends bring nothing any more.
LEMMA HaltWithin == ASSUME DocumentInv, DocumentInv', QuotaKept, Halt PROVE QuotaKept'
<1>1. \A u \in Uploaders : paper'[u] = NoPaper
  BY DEF Halt
<1>2. oneByOne' = oneByOne /\ object' = object /\ doc' = doc /\ revision' = revision
  BY DEF Halt, RowsStay
<1>3. KeysNamed' /\ (SameShown => SameShown') /\ Keys' \subseteq Keys
  <2>1. \A v \in revision : v.doc \in Docs
    BY DEF DocumentInv, DocumentRowsTyped, TablesTyped, Revisions
  <2> QED BY <1>2, <2>1, SameRows
<1>4. \A u \in Uploaders : Aims(paper[u])' /\ RoomFor(paper[u])' /\ ~Brings(paper'[u])
  BY <1>1, BlankPaper DEF Aims, RoomFor, Brings
<1>5. Held' \subseteq Held
  BY <1>3, <1>4 DEF Held, Brings
<1>6. oneByOne' => SameShown' /\ Kilos' <= Quota
  BY <1>2, <1>3, <1>5, NothingPut DEF QuotaKept
<1> QED BY <1>3, <1>4, <1>6 DEF QuotaKept

LEMMA StayWithin == ASSUME QuotaKept, UNCHANGED documentVars PROVE QuotaKept'
<1>1. oneByOne' = oneByOne /\ object' = object /\ doc' = doc /\ revision' = revision /\ paper' = paper
  BY DEF documentVars
<1>2. LiveDocs' = LiveDocs
  BY <1>1 DEF LiveDocs
<1>3. Keys' = Keys
  BY <1>1, <1>2 DEF Keys
<1>4. Held' = Held
  BY <1>1, <1>3 DEF Held
<1>5. Kilos' = Kilos
  BY <1>1, <1>4 DEF Kilos
<1>6. KeysNamed' /\ (SameShown => SameShown')
  BY <1>1, <1>2 DEF QuotaKept, KeysNamed, SameShown
<1>7. \A u \in Uploaders : (Aims(paper[u]) => Aims(paper[u])') /\ (RoomFor(paper[u]) => RoomFor(paper[u])')
  BY <1>1, <1>5 DEF Aims, RoomFor
<1> QED BY <1>1, <1>5, <1>6, <1>7 DEF QuotaKept

LEMMA QuotaStarts == ASSUME DocumentInit PROVE QuotaKept
<1>1. LiveDocs = {} /\ revision = {} /\ \A u \in Uploaders : paper[u] = NoPaper
  BY DEF DocumentInit, LiveDocs, NoDoc
<1>2. \A u \in Uploaders : Aims(paper[u]) /\ ~Brings(paper[u]) /\ paper[u].pc # "put"
  BY <1>1, BlankPaper DEF Aims, Brings
<1>3. KeysNamed
  <2>1. \A d \in Docs : doc[d].state = "none"
    BY DEF DocumentInit, NoDoc
  <2> QED BY <1>1, <2>1, FS_EmptySet DEF KeysNamed
<1>4. Held = {}
  BY <1>1, <1>2 DEF Held, Keys
<1>5. PICK S, obj : S = {} /\ obj = object
  OBVIOUS
<1>6. PICK g : Adds(obj, S, g) /\ Weight(obj, S) = g[S]
  BY <1>5, FS_EmptySet, WeightIsSum
<1>7. g[S] = 0
  BY <1>5, <1>6 DEF Adds, SumOver
<1>8. Kilos <= Quota
  BY <1>4, <1>5, <1>6, <1>7, DocumentsAssumption DEF Kilos
<1> QED BY <1>1, <1>2, <1>3, <1>8 DEF QuotaKept, SameShown, RoomFor

LEMMA WithinStep == ASSUME DocumentInv, DocumentInv', QuotaKept, [DocumentNext]_documentVars PROVE QuotaKept'
<1>1. ASSUME NEW u \in Uploaders,
             \/ PostFolder(u) \/ InsertFolder(u) \/ PutFolder(u) \/ UpdateFolder(u) \/ DeleteFolder(u) \/ DropFolder(u)
             \/ PutDoc(u) \/ MoveDoc(u) \/ DeleteDoc(u) \/ ArchiveSpace(u) \/ DeleteSpace(u)
      PROVE  QuotaKept'
  BY <1>1, AsksKeepQuota, PlacesKeepQuota, MarksKeepQuota
<1>2. ASSUME NEW u \in Uploaders,
             \/ Upload(u) \/ Replace(u) \/ PutObject(u) \/ InsertDoc(u)
             \/ RestoreRevision(u) \/ InsertRevision(u) \/ UpdateDoc(u)
      PROVE  QuotaKept'
  BY <1>2, UploadHasRoom, PutStaysWithin, InsertDocWithin, RestoreKeepsQuota, InsertRevisionWithin, UpdateDocWithin
<1>3. CASE Halt
  BY <1>3, HaltWithin
<1>4. CASE UNCHANGED documentVars
  BY <1>4, StayWithin
<1> QED BY <1>1, <1>2, <1>3, <1>4 DEF DocumentNext

\* The quota holds for every number of documents, versions and bytes: as long as
\* requests come one at a time, what a Space keeps for its live documents never weighs
\* more than usedBytes may allow, however often a version is replaced or restored and
\* wherever a process ended in between (documents.js: usedBytes, acceptUpload).
THEOREM QuotaStays == DocumentSpec => []WithinQuota
<1>1. DocumentInit => QuotaKept
  BY QuotaStarts
<1>2. DocumentInv /\ DocumentInv' /\ QuotaKept /\ [DocumentNext]_documentVars => QuotaKept'
  BY WithinStep
<1>3. DocumentInv /\ QuotaKept => WithinQuota
  <2> SUFFICES ASSUME DocumentInv, QuotaKept, oneByOne PROVE Weight(object, Keys) <= Quota
    BY DEF WithinQuota, Weight, Keys, SizeOf
  <2>1. TablesTyped /\ Held \in SUBSET (1..Len(object)) /\ Keys \in SUBSET Held
    BY HeldKeys DEF DocumentInv, DocumentRowsTyped, QuotaKept
  <2>2. PICK S, R : S = Keys /\ R = Held
    OBVIOUS
  <2>3. Weight(object, S) <= Weight(object, R) /\ Weight(object, R) \in Nat /\ Weight(object, S) \in Nat
    BY <2>1, <2>2, Lighter
  <2>4. Weight(object, R) <= Quota /\ Quota \in Nat
    BY <2>2, DocumentsAssumption DEF QuotaKept, Kilos
  <2>5. PICK a, b : a = Weight(object, S) /\ b = Weight(object, R)
    OBVIOUS
  <2>6. a <= Quota
    BY <2>3, <2>4, <2>5
  <2> QED BY <2>2, <2>5, <2>6
<1> QED BY <1>1, <1>2, <1>3, DocumentInvariant, PTL DEF DocumentSpec

\* All of what the documents promise holds: the quota, the history and the places.
THEOREM DocumentsStaySound ==
  ASSUME IsFiniteSet(Folders), Cardinality(Folders) < MaxLift
  PROVE  DocumentSpec => DocumentsSound
<1>1. DocumentSpec => []WithinQuota
  BY QuotaStays
<1>2. DocumentSpec => []VersionsTell
  BY VersionsStand
<1>3. DocumentSpec => []FoldersReached
  BY FoldersStand
<1>4. DocumentSpec => NeverTipped
  BY FoldersTipNothing
<1> QED BY <1>1, <1>2, <1>3, <1>4, PTL DEF DocumentsSound
=============================================================================
