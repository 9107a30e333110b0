----------------------------- MODULE MCDatasets -----------------------------
(***************************************************************************)
(* Small instances of ImportWorkflow and AnalysisRun for TLC under their   *)
(* fairness, of PublicRelease, and of the calculations FifoCost and        *)
(* ProfitBridge over all inputs: one of them in a behaviour.  An analysis  *)
(* and a release read committed versions, of which nothing changes         *)
(* (ImplementsHistory), and so does what is calculated.                    *)
(***************************************************************************)
EXTENDS ImportWorkflow, AnalysisRun, PublicRelease, FifoCost, ProfitBridge

CONSTANTS v1, v2

VARIABLE part

calculationVars == <<fifoVars, bridgeVars>>
DatasetsVars == <<vars, analysisVars, releaseVars, calculationVars, part>>

DatasetsInit ==
  /\ Init /\ AnalysisInit /\ ReleaseInit /\ FifoInit /\ BridgeInit
  /\ part \in {"import", "analysis", "release", "calculation"}

\* Costs and bridges are calculated by themselves.
Calculation ==
  \/ bridge = NoBridge /\ FifoNext /\ UNCHANGED bridgeVars
  \/ answer = Untold /\ BridgeNext /\ UNCHANGED fifoVars

DatasetsNext ==
  /\ UNCHANGED part
  /\ \/ part = "import" /\ Next /\ UNCHANGED <<analysisVars, releaseVars, calculationVars>>
     \/ part = "analysis" /\ AnalysisNext /\ UNCHANGED <<vars, releaseVars, calculationVars>>
     \/ part = "release" /\ ReleaseNext /\ UNCHANGED <<vars, analysisVars, calculationVars>>
     \/ part = "calculation" /\ Calculation /\ UNCHANGED <<vars, analysisVars, releaseVars>>

ImportPart(action) ==
  part = "import" /\ action /\ UNCHANGED <<analysisVars, releaseVars, calculationVars, part>>
AnalysisPart(action) ==
  part = "analysis" /\ action /\ UNCHANGED <<vars, releaseVars, calculationVars, part>>

\* The fairness of FairSpec and FairAnalysis, each in its own part.
DatasetsSpec ==
  /\ DatasetsInit
  /\ [][DatasetsNext]_DatasetsVars
  /\ WF_DatasetsVars(ImportPart(Maintenance))
  /\ \A x \in Objects : WF_DatasetsVars(ImportPart(Expire(x)))
  /\ \A r \in Runners : WF_DatasetsVars(AnalysisPart(Attempt(r)))
  /\ WF_DatasetsVars(AnalysisPart(LeaseExpires))
  /\ WF_DatasetsVars(AnalysisPart(\E r \in Runners : BeginAttempt(r)))

\* No failure leaves an analysis that can never be completed: neither a lease that
\* nobody holds, nor a row or a blob that an earlier attempt left (AnalysisCompletes).
AnalysesComplete == part = "analysis" => AnalysisCompletes

\* Version 2 is published, version 1 once more, and version 2 by another request; one
\* of the keys is used for two requests, the other of which publishes what is public.
ToPublish(k, v, expected) == [key |-> k, version |-> v, expected |-> expected]
MCRequests ==
  {ToPublish("first", v2, v1), ToPublish("second", v1, v2),
   ToPublish("second", v2, v2), ToPublish("third", v2, v1)}

\* The second lot is dearer than the first.
MCUnitCost == [l \in Lots |-> 2 * l - 1]

\* Lines with what can be unknown: units that sold nothing or were not shipped, cost
\* that is not covered.
Line(units, revenue, cogs, shipped) ==
  [units |-> units, revenue |-> revenue, cogs |-> cogs, shipped |-> shipped]
MCLines ==
  {Line(units, revenue, 0, units) : units \in 1..2, revenue \in 0..2}
    \cup {Line(2, 1, 1, 2), Line(1, 1, Unknown, 1), Line(2, 2, 1, 1), Line(0, 0, 0, 0)}
=============================================================================
