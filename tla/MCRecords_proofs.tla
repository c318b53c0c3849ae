-------------------------- MODULE MCRecords_proofs --------------------------
(***************************************************************************)
(* The records put together (MCRecords): a step of the whole is a step of  *)
(* one part while the others rest, so that a behaviour of the whole is one *)
(* of each part, and what is proved of a part holds of the whole.          *)
(***************************************************************************)
EXTENDS MCRecords, Administration_proofs, Records_proofs

\* A step of the whole is a step of every part, or leaves it alone.
LEMMA RecordsStep ==
  ASSUME [Next]_recordVars
  PROVE  /\ [MemberNext]_memberVars /\ [SessionNext]_sessionVars /\ [ResetNext]_resetVars
         /\ [WikiNext]_wikiVars /\ [TreeNext]_treeVars /\ [ConfigNext]_configVars
         /\ [DocumentNext]_documentVars /\ [DependencyNext]_linkVars /\ [ReportNext]_reportVars
<1>1. CASE UNCHANGED recordVars
  BY <1>1 DEF recordVars
<1>2. CASE Next
  BY <1>2, Zenon DEF Next
<1> QED BY <1>1, <1>2

\* A behaviour of the records put together is one of members, of sessions, of password
\* resets, of wiki pages, of issues, of workflows, of documents, of links and of reports.
THEOREM RecordsAreParts ==
  Spec => /\ MemberSpec /\ SessionSpec /\ ResetSpec /\ WikiSpec /\ TreeSpec /\ ConfigSpec
          /\ DocumentSpec /\ DependencySpec /\ ReportSpec
<1>1. Init => /\ MemberInit /\ SessionInit /\ ResetInit /\ WikiInit /\ TreeInit /\ ConfigInit
              /\ DocumentInit /\ DependencyInit /\ ReportInit
  BY DEF Init
<1>2. [Next]_recordVars =>
         /\ [MemberNext]_memberVars /\ [SessionNext]_sessionVars /\ [ResetNext]_resetVars
         /\ [WikiNext]_wikiVars /\ [TreeNext]_treeVars /\ [ConfigNext]_configVars
         /\ [DocumentNext]_documentVars /\ [DependencyNext]_linkVars /\ [ReportNext]_reportVars
  BY RecordsStep
<1> QED BY <1>1, <1>2, PTL DEF Spec, MemberSpec, SessionSpec, ResetSpec, WikiSpec, TreeSpec, ConfigSpec,
                               DocumentSpec, DependencySpec, ReportSpec

\* Every part of the records keeps its types, at rest and at work.
THEOREM RecordsTypes == Spec => []RecordsTypeOK
<1>1. SessionInv => SessionTypeOK
  BY DEF SessionInv
<1> QED BY <1>1, RecordsAreParts, MemberTypes, SessionInvariant, ResetTypes, WikiTypes, TreeTypes, ConfigTypes,
           DocumentTypes, DependencyTypes, ReportTypes, PTL DEF RecordsTypeOK

\* What the records promise, put together: passwords, issues, workflows, links and
\* reports in every state, members, sessions and the readers of the wiki in every step,
\* and the wiki's history and tree and the documents' quota, versions and folders where
\* there are no more pages than wouldCycle walks up and fewer folders than it lifts.
THEOREM RecordsStaySound ==
  ASSUME IsFiniteSet(Pages), Cardinality(Pages) <= MaxHops,
         IsFiniteSet(Folders), Cardinality(Folders) < MaxLift
  PROVE  Spec => /\ [](OneReset /\ WikiSound /\ IssuesSound /\ ConfigSound /\ ReportsSound)
                 /\ [](GraphTellsLinks /\ NoMirrors)
                 /\ MembershipSound /\ SessionsSound /\ ReadersUndisturbed /\ DocumentsSound
<1>1. WikiSpec => []WikiSound
  BY WikiStaysSound
<1>2. DocumentSpec => DocumentsSound
  BY DocumentsStaySound
<1> QED BY <1>1, <1>2, RecordsAreParts, ResetsOnce, IssuesStaySound, ConfigStaysSound, ReportsStaySound,
           LinksStaySound, MembershipStaysSound, EntriesSound, ReadersStayUndisturbed, PTL
=============================================================================
