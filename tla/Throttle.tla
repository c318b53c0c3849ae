------------------------------ MODULE Throttle ------------------------------
(***************************************************************************)
(* What POST /auth/login goes through before and after it looks at the     *)
(* password: the fixed-window limiter of /api/auth and the lockout of one  *)
(* address and client (middleware/rateLimit.js, middleware/loginLockout.js,*)
(* routes/auth.js).  Both live in the memory of the process.               *)
(*                                                                         *)
(* Time goes by in ticks, several of them to a window; a moment of the     *)
(* past is kept as its age, up to the length of the window, with a number  *)
(* that tells it from others of the same tick.                             *)
(***************************************************************************)
EXTENDS Integers, FiniteSets

CONSTANTS
  Attempts,     \* logins between the gate and their verdict
  MaxAttempts,  \* maxAttempts
  Window,       \* windowMs of the lockout, and of the limiter
  Lockout,      \* lockoutMs
  Allowance           \* max of the limiter

ASSUME ThrottleAssumption ==
  /\ MaxAttempts \in Nat \ {0} /\ Allowance \in Nat \ {0}
  /\ Window \in Nat \ {0} /\ Lockout \in Nat \ {0} /\ IsFiniteSet(Attempts)

VARIABLES
  failures,     \* entry.failures
  lock,         \* ticks to entry.lockedUntil; 0 once it is past, Free if never set
  bucket,       \* the limiter's bucket: requests counted, ticks to resetAt
  attempt,      \* attempts past the gate
  guesses,      \* history: wrong passwords of the last window since the right one
  passes,       \* history: requests of the last window the limiter let through
  late          \* history: an attempt was still without a verdict when a tick passed

throttleVars == <<failures, lock, bucket, attempt, guesses, passes, late>>

Free == -1
Locked == lock > 0
Within(s) == {t \in s : t[1] < Window}
Now(s) == {t \in s : t[1] = 0}
AddNow(s) == s \cup {<<0, Cardinality(Now(s)) + 1>>}

ThrottleInit ==
  /\ failures = {} /\ lock = Free
  /\ bucket = [count |-> 0, reset |-> 0]
  /\ attempt = [a \in Attempts |-> FALSE]
  /\ guesses = {} /\ passes = {} /\ late = FALSE

\* The limiter opens a bucket when there is none or its time is up, and counts
\* the requests it refuses as well (the count is kept up to Allowance + 1).
Counted == LET b == IF bucket.reset = 0 THEN [count |-> 0, reset |-> Window] ELSE bucket
           IN [b EXCEPT !.count = IF @ > Allowance THEN @ ELSE @ + 1]

Refused ==
  /\ Counted.count > Allowance
  /\ bucket' = Counted
  /\ UNCHANGED <<failures, lock, attempt, guesses, passes, late>>

\* mutated: the lock is not looked at
GateUnlocked(a) ==
  /\ ~attempt[a] /\ Counted.count <= Allowance
  /\ bucket' = Counted /\ passes' = AddNow(passes)
  /\ attempt' = [attempt EXCEPT ![a] = TRUE]
  /\ IF lock = 0 THEN failures' = {} /\ lock' = Free ELSE UNCHANGED <<failures, lock>>
  /\ UNCHANGED <<guesses, late>>
\* isLocked deletes an entry whose lock is past, its failures included; the
\* verdict is reached after the user row has been read.
Gate(a) ==
  /\ ~attempt[a] /\ Counted.count <= Allowance
  /\ bucket' = Counted /\ passes' = AddNow(passes)
  /\ attempt' = [attempt EXCEPT ![a] = ~Locked]
  /\ IF lock = 0 THEN failures' = {} /\ lock' = Free ELSE UNCHANGED <<failures, lock>>
  /\ UNCHANGED <<guesses, late>>

\* mutated: the lock falls one failure late
WrongOnce(a) == LET kept == AddNow(Within(failures)) IN
  /\ attempt[a]
  /\ attempt' = [attempt EXCEPT ![a] = FALSE]
  /\ failures' = kept
  /\ lock' = IF Cardinality(kept) > MaxAttempts THEN Lockout ELSE lock
  /\ guesses' = AddNow(guesses)
  /\ UNCHANGED <<bucket, passes, late>>
\* recordFailure: a wrong password, or a wrong code of the second factor.
Wrong(a) == LET kept == AddNow(Within(failures)) IN
  /\ attempt[a]
  /\ attempt' = [attempt EXCEPT ![a] = FALSE]
  /\ failures' = kept
  /\ lock' = IF Cardinality(kept) >= MaxAttempts THEN Lockout ELSE lock
  /\ guesses' = AddNow(guesses)
  /\ UNCHANGED <<bucket, passes, late>>

\* reset.
Right(a) ==
  /\ attempt[a]
  /\ attempt' = [attempt EXCEPT ![a] = FALSE]
  /\ failures' = {} /\ lock' = Free /\ guesses' = {}
  /\ UNCHANGED <<bucket, passes, late>>

\* A deactivated account, or a code that is still owed: neither is counted.
Undecided(a) ==
  /\ attempt[a]
  /\ attempt' = [attempt EXCEPT ![a] = FALSE]
  /\ UNCHANGED <<failures, lock, bucket, guesses, passes, late>>

\* recordFailure would leave out what is older than the window: it is dropped.
Aged(s) == {<<t[1] + 1, t[2]>> : t \in Within(s)}
Elapse ==
  /\ failures' = Aged(failures)
  /\ guesses' = Within(Aged(guesses)) /\ passes' = Within(Aged(passes))
  /\ lock' = IF Locked THEN lock - 1 ELSE lock
  /\ bucket' = IF bucket.reset <= 1 THEN [count |-> 0, reset |-> 0] ELSE [bucket EXCEPT !.reset = @ - 1]
  /\ late' = (late \/ \E a \in Attempts : attempt[a])
  /\ UNCHANGED attempt

\* The process restarts: counters, locks and attempts are gone.
Forget ==
  /\ failures' = {} /\ lock' = Free /\ bucket' = [count |-> 0, reset |-> 0]
  /\ attempt' = [a \in Attempts |-> FALSE]
  /\ guesses' = {} /\ passes' = {} /\ late' = FALSE

ThrottleNext ==
  \/ \E a \in Attempts : Gate(a) \/ Wrong(a) \/ Right(a) \/ Undecided(a)
  \/ Refused \/ Elapse \/ Forget

ThrottleFair == WF_throttleVars(Elapse)

ThrottleSpec == ThrottleInit /\ [][ThrottleNext]_throttleVars /\ ThrottleFair

-----------------------------------------------------------------------------
\* The type invariant; an entry that is full has a lock.
ThrottleTypeOK ==
  /\ failures \cup guesses \cup passes \subseteq (0..Window) \X (Nat \ {0})
  /\ IsFiniteSet(failures) /\ IsFiniteSet(guesses) /\ IsFiniteSet(passes)
  /\ lock \in Free..Lockout
  /\ bucket \in [count : 0..Allowance + 1, reset : 0..Window]
  /\ attempt \in [Attempts -> BOOLEAN] /\ late \in BOOLEAN
  /\ Cardinality(failures) >= MaxAttempts => lock # Free

\* However attempts overlap, a window holds at most MaxAttempts wrong passwords
\* and one more for each further attempt that was past the gate when the lock
\* fell (auth.js:262-284 awaits the user row in between); and once there are
\* MaxAttempts the lock is on.  For a lockout no shorter than the window, and
\* attempts shorter than a tick: one recorded after the lock ran out is forgotten
\* when isLocked deletes the entry.
GuessesBounded ==
  Lockout >= Window /\ ~late =>
    /\ Cardinality(guesses) <= MaxAttempts + Cardinality(Attempts) - 1
    /\ Cardinality(guesses) >= MaxAttempts => Locked

\* The limiter lets at most twice Allowance requests through in any stretch of time as
\* long as its window, and no more than Allowance of one bucket (rateLimit.js:61-81).
Burst == Cardinality(passes) <= 2 * Allowance

\* Both counters bound what one window can hold.
Throttled == GuessesBounded /\ Burst
=============================================================================
