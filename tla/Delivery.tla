------------------------------ MODULE Delivery ------------------------------
(***************************************************************************)
(* What an event promises the hooks it fires, whatever becomes of them: it *)
(* serves them one at a time, in the order it found them, with at most     *)
(* MaxTries requests each; it never comes back to a hook it has left; and  *)
(* it ends.                                                                *)
(***************************************************************************)
EXTENDS Naturals, Sequences

CONSTANTS Hooks, Fires, MaxTries

VARIABLES
  queue,   \* the hooks a fire has still to serve, "none" before it starts
  tries    \* the requests sent to the first of them

dvars == <<queue, tries>>

Unborn == << "none" >>
Open(f) == queue[f] \notin {Unborn, <<>>}

DInit == queue = [f \in Fires |-> Unborn] /\ tries = [f \in Fires |-> 0]

Start(f) ==
  /\ queue[f] = Unborn
  /\ LET s == queue'[f]
     IN  /\ s \in Seq(Hooks) /\ \A i, j \in DOMAIN s : s[i] = s[j] => i = j
         /\ queue' = [queue EXCEPT ![f] = s]
  /\ UNCHANGED tries

Try(f) ==
  /\ Open(f) /\ tries[f] < MaxTries
  /\ tries' = [tries EXCEPT ![f] = @ + 1]
  /\ UNCHANGED queue

Leave(f) ==
  /\ Open(f) /\ tries[f] > 0
  /\ queue' = [queue EXCEPT ![f] = Tail(@)]
  /\ tries' = [tries EXCEPT ![f] = 0]

\* The log of the deliveries is out of reach.
GiveUp(f) ==
  /\ Open(f)
  /\ queue' = [queue EXCEPT ![f] = <<>>]
  /\ tries' = [tries EXCEPT ![f] = 0]

\* The process stopped: no fire that was open goes on.
Stop ==
  /\ \E f \in Fires : Open(f)
  /\ queue' = [f \in Fires |-> IF Open(f) THEN <<>> ELSE queue[f]]
  /\ tries' = [f \in Fires |-> IF Open(f) THEN 0 ELSE tries[f]]

Serve(f) == Try(f) \/ Leave(f) \/ GiveUp(f)
DNext == Stop \/ \E f \in Fires : Start(f) \/ Serve(f)

\* What it may do, and that it does it.
DSafe == DInit /\ [][DNext]_dvars
DSpec == DSafe /\ \A f \in Fires : WF_dvars(Serve(f))
=============================================================================
