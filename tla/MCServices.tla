----------------------------- MODULE MCServices -----------------------------
(***************************************************************************)
(* What goes on by itself once begun: webhooks, digests, scheduled rules,  *)
(* the throttling of logins, the autosave of the page editor and the live  *)
(* updates of issue pages.  They share no state, so a behaviour is one of  *)
(* theirs, chosen by `part`, with the others at rest: the instances are    *)
(* explored one after the other, not multiplied.                           *)
(***************************************************************************)
EXTENDS Webhooks, Digests, ScheduledRules, Throttle, PageEditor, Realtime, TLC

VARIABLE part
serviceVars == <<part, hookVars, digestVars, ruleVars, throttleVars, editorVars, realtimeVars>>

Init ==
  /\ part \in {"webhooks", "digests", "rules", "throttle", "editor", "realtime"}
  /\ HookInit /\ DigestInit /\ RuleInit /\ ThrottleInit /\ EditorInit /\ RealtimeInit
  /\ part # "webhooks" => \A h \in Hooks : hook[h] = "silent"
  /\ part # "digests" => \A u \in Users : mode[u] = "daily"
  /\ \A r \in Rules, h \in Intervals : IF part = "rules" THEN rule[r].interval >= Stored(h)
                                         ELSE rule[r].interval <= Stored(h)
  /\ part # "editor" => known
  /\ part # "realtime" => listed = Issues

\* No tab or issue is preferred to another: it is enough that one of them comes first.
FirstVisit == turns = 0 /\ url' # url => url'[CHOOSE t \in Tabs : TRUE] = CHOOSE i \in Issues : TRUE

Next ==
  \/ /\ part = "webhooks" /\ HookNext
     /\ UNCHANGED <<part, digestVars, ruleVars, throttleVars, editorVars, realtimeVars>>
  \/ /\ part = "digests" /\ DigestNext
     /\ UNCHANGED <<part, hookVars, ruleVars, throttleVars, editorVars, realtimeVars>>
  \/ /\ part = "rules" /\ RuleNext
     /\ UNCHANGED <<part, hookVars, digestVars, throttleVars, editorVars, realtimeVars>>
  \/ /\ part = "throttle" /\ ThrottleNext
     /\ UNCHANGED <<part, hookVars, digestVars, ruleVars, editorVars, realtimeVars>>
  \/ /\ part = "editor" /\ EditorNext
     /\ UNCHANGED <<part, hookVars, digestVars, ruleVars, throttleVars, realtimeVars>>
  \/ /\ part = "realtime" /\ RealtimeNext /\ FirstVisit
     /\ UNCHANGED <<part, hookVars, digestVars, ruleVars, throttleVars, editorVars>>

\* The fairness of the part that moves.
Fair ==
  /\ \A f \in Fires : WF_hookVars(part = "webhooks" /\ FireStep(f))
  /\ WF_digestVars(part = "digests" /\ Day)
  /\ WF_digestVars(part = "digests" /\ \E t \in Ticks : FireDigest(t))
  /\ \A t \in Ticks : WF_digestVars(part = "digests" /\ RunDigest(t))
  /\ WF_ruleVars(part = "rules" /\ Minute)
  /\ WF_ruleVars(part = "rules" /\ \E k \in Runs : FireRules(k))
  /\ \A k \in Runs : WF_ruleVars(part = "rules" /\ RunRules(k))
  /\ WF_editorVars(part = "editor" /\ Timeout) /\ WF_editorVars(part = "editor" /\ StartJob)
  /\ WF_editorVars(part = "editor" /\ Created) /\ WF_editorVars(part = "editor" /\ Saved)
  /\ WF_editorVars(part = "editor" /\ Proceed)
  /\ WF_realtimeVars(part = "realtime" /\ Carry)

\* Every part keeps its types, at rest and at work.
ServicesTypeOK == HookTypeOK /\ DigestTypeOK /\ RuleTypeOK /\ ThrottleTypeOK /\ EditorTypeOK /\ RealtimeTypeOK

Spec == Init /\ [][Next]_serviceVars /\ Fair
=============================================================================
