--------------------------- MODULE PasswordReset ----------------------------
(***************************************************************************)
(* The tokens that reset a forgotten password: POST /forgot-password and   *)
(* POST /reset-password of routes/auth.js, for one account.  Both take     *)
(* several statements, and several requests may be at them.                *)
(***************************************************************************)
EXTENDS Integers, FiniteSets

CONSTANTS
  Resets,       \* password_reset_tokens.id, from 1 on
  Forgetful     \* requests in progress

ASSUME PasswordResetAssumption == Resets \subseteq Nat \ {0}

VARIABLES
  reset,        \* a reset token: "none", "live", "expired" or "used"
  asks,         \* the requests: what is next, and the token it has checked
  password,     \* history: the token that set the present password, 0 if none did
  spent,        \* history: passwords set with a token, up to 2
  single        \* history: no two requests overlapped and none was cut off

resetVars == <<reset, asks, password, spent, single>>

Away == [pc |-> "away", token |-> 0]

ResetInit ==
  /\ reset = [t \in Resets |-> "none"]
  /\ asks = [c \in Forgetful |-> Away]
  /\ password = 0
  /\ spent = [t \in Resets |-> 0] /\ single = TRUE

Ask(c, q) ==
  /\ asks[c] = Away
  /\ asks' = [asks EXCEPT ![c] = q]
  /\ single' = (single /\ \A d \in Forgetful : asks[d] = Away)
Answer(c) == asks' = [asks EXCEPT ![c] = Away] /\ UNCHANGED single

\* POST /forgot-password: the tokens not yet used are marked used (an expired
\* one too), then a new one is inserted.
Forgot(c) ==
  /\ Ask(c, [Away EXCEPT !.pc = "insert"])
  /\ reset' = [t \in Resets |-> IF reset[t] = "none" THEN "none" ELSE "used"]
  /\ UNCHANGED <<password, spent>>
NewReset(c) == \E t \in Resets :
  /\ asks[c].pc = "insert"
  /\ reset[t] = "none" /\ \A s \in Resets : s < t => reset[s] # "none"
  /\ reset' = [reset EXCEPT ![t] = "live"]
  /\ Answer(c)
  /\ UNCHANGED <<password, spent>>

\* A token lasts 15 minutes.
Lapsed == \E t \in Resets :
  /\ reset[t] = "live"
  /\ reset' = [reset EXCEPT ![t] = "expired"]
  /\ UNCHANGED <<asks, password, spent, single>>

CheckReset(c) == \E t \in Resets :
  /\ reset[t] = "live"
  /\ Ask(c, [pc |-> "set", token |-> t])
  /\ UNCHANGED <<reset, password, spent>>
SetPassword(c) ==
  /\ asks[c].pc = "set"
  /\ password' = asks[c].token
  /\ spent' = [spent EXCEPT ![asks[c].token] = IF @ < 2 THEN @ + 1 ELSE @]
  /\ asks' = [asks EXCEPT ![c].pc = "use"]
  /\ UNCHANGED <<reset, single>>
\* mutated: the token is not marked as used
UseNothing(c) ==
  /\ asks[c].pc = "use"
  /\ Answer(c)
  /\ UNCHANGED <<reset, password, spent>>
UseReset(c) ==
  /\ asks[c].pc = "use"
  /\ reset' = [reset EXCEPT ![asks[c].token] = "used"]
  /\ Answer(c)
  /\ UNCHANGED <<password, spent>>

\* The process stops: the requests end where they are.
CutOff ==
  /\ \E c \in Forgetful : asks[c] # Away
  /\ asks' = [c \in Forgetful |-> Away] /\ single' = FALSE
  /\ UNCHANGED <<reset, password, spent>>

ResetNext ==
  \/ \E c \in Forgetful :
       Forgot(c) \/ NewReset(c) \/ CheckReset(c) \/ SetPassword(c) \/ UseReset(c)
  \/ Lapsed \/ CutOff

ResetSpec == ResetInit /\ [][ResetNext]_resetVars

-----------------------------------------------------------------------------
\* The type invariant; what sets a password is a token that was handed out.
ResetTypeOK ==
  /\ reset \in [Resets -> {"none", "live", "expired", "used"}]
  /\ asks \in [Forgetful -> [pc : {"away", "insert", "set", "use"}, token : Resets \cup {0}]]
  /\ password \in Resets \cup {0} /\ spent \in [Resets -> 0..2] /\ single \in BOOLEAN
  /\ \A t \in Resets : spent[t] > 0 => reset[t] # "none"

\* A reset token sets one password, only the newest one works, and a password
\* that an older token set never replaces one that a newer token set, while the
\* requests come one at a time (auth.js:407-417, 471-494): neither statement of
\* either request looks again at what the first one found.
OneReset ==
  single => /\ \A t \in Resets : spent[t] <= 1
            /\ Cardinality({t \in Resets : reset[t] = "live"}) <= 1
            /\ \A t \in Resets : spent[t] > 0 => t <= password
=============================================================================
