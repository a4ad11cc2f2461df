------------------------- MODULE FraudService_proofs --------------------------
(***************************************************************************)
(* Proofs of what module MCFraud checks of several components at once, for *)
(* every value of their constants, from the theorems about each of them.   *)
(***************************************************************************)
EXTENDS FraudService, Fraud_proofs, Scores_proofs, Policy_proofs, TLAPS

-----------------------------------------------------------------------------
\* A step of a behaviour is, to each component, one of its own or none.
LEMMA ServiceStep ==
    [ServiceNext]_serviceVars =>
        /\ [PolicyNext]_policyVars /\ [StepUpNext]_stepUpVars /\ [AuditNext]_auditVars
        /\ [LinesNext]_linesVars /\ [WindowNext]_windowVars /\ [GraphNext]_graphVars
        /\ [MonitorNext]_monitorVars /\ [IntelNext]_intelVars /\ [RateNext]_rateVars
        /\ [CacheNext]_cacheVars /\ [SignalNext]_signalVars /\ [SettingsNext]_settingsVars
        /\ [AccessNext]_accessVars /\ [ZeroTrustNext \/ BeaconNext]_protocolVars /\ [EdgeNext]_edgeVars
        /\ [FedNext]_fedVars
<1> SUFFICES ASSUME [ServiceNext]_serviceVars
             PROVE  /\ [PolicyNext]_policyVars /\ [StepUpNext]_stepUpVars /\ [AuditNext]_auditVars
                    /\ [LinesNext]_linesVars /\ [WindowNext]_windowVars /\ [GraphNext]_graphVars
                    /\ [MonitorNext]_monitorVars /\ [IntelNext]_intelVars /\ [RateNext]_rateVars
                    /\ [CacheNext]_cacheVars /\ [SignalNext]_signalVars /\ [SettingsNext]_settingsVars
                    /\ [AccessNext]_accessVars /\ [ZeroTrustNext \/ BeaconNext]_protocolVars /\ [EdgeNext]_edgeVars
                    /\ [FedNext]_fedVars
  OBVIOUS
<1>1. CASE UNCHANGED serviceVars
  BY <1>1 DEF serviceVars
<1>2. CASE ServiceNext
  <2>1. Elsewhere
    BY <1>2 DEF ServiceNext
  <2>2. /\ focus = "policy" \/ UNCHANGED policyVars
        /\ focus = "stepup" \/ UNCHANGED stepUpVars
        /\ focus = "audit" \/ UNCHANGED auditVars
        /\ focus = "lines" \/ UNCHANGED linesVars
        /\ focus = "windows" \/ UNCHANGED windowVars
        /\ focus = "graph" \/ UNCHANGED graphVars
        /\ focus = "monitoring" \/ UNCHANGED monitorVars
        /\ focus = "intelligence" \/ UNCHANGED intelVars
        /\ focus = "rate" \/ UNCHANGED rateVars
        /\ focus = "cache" \/ UNCHANGED cacheVars
        /\ focus = "signals" \/ UNCHANGED signalVars
        /\ focus = "switches" \/ focus = "weights" \/ UNCHANGED settingsVars
        /\ focus = "access" \/ UNCHANGED accessVars
        /\ focus = "trust" \/ focus = "beacon" \/ UNCHANGED protocolVars
        /\ focus = "edge" \/ UNCHANGED edgeVars
        /\ focus = "federated" \/ UNCHANGED fedVars
    BY <2>1 DEF Elsewhere, Still
  <2>3. /\ focus = "policy" => PolicyNext
        /\ focus = "stepup" => StepUpNext
        /\ focus = "audit" => AuditNext
        /\ focus = "lines" => LinesNext
        /\ focus = "windows" => WindowNext
        /\ focus = "graph" => GraphNext
        /\ focus = "monitoring" => MonitorNext
        /\ focus = "intelligence" => IntelNext
        /\ focus = "rate" => RateNext
        /\ focus = "cache" => CacheNext
        /\ focus = "signals" => SignalNext
        /\ focus = "switches" => SwitchNext \/ RestartSettings
        /\ focus = "weights" => WeightNext \/ RestartSettings
        /\ focus = "access" => AccessNext
        /\ focus = "trust" => ZeroTrustNext
        /\ focus = "beacon" => BeaconNext
        /\ focus = "edge" => EdgeNext
        /\ focus = "federated" => FedNext
    BY <1>2 DEF ServiceNext
  <2>4. (SwitchNext \/ RestartSettings) \/ (WeightNext \/ RestartSettings) => SettingsNext
    BY DEF SettingsNext
  <2> QED BY <2>2, <2>3, <2>4
<1> QED BY <1>1, <1>2

\* What holds of each by itself holds of all.
LEMMA ServiceParts ==
    ServiceSpec =>
        /\ PolicySpec /\ StepUpSpec /\ AuditInit /\ [][AuditNext]_auditVars /\ LinesSpec /\ WindowSpec /\ GraphSpec
        /\ MonitorSpec /\ IntelSpec /\ RateSpec /\ CacheSpec /\ SignalSpec /\ SettingsSpec
        /\ AccessSpec /\ ProtocolSpec /\ EdgeSpec /\ FedSpec
<1>1. ServiceInit =>
        /\ PolicyInit /\ StepUpInit /\ AuditInit /\ LinesInit /\ WindowInit /\ GraphInit
        /\ MonitorInit /\ IntelInit /\ RateInit /\ CacheInit /\ SignalInit /\ SettingsInit
        /\ AccessInit /\ ProtocolInit /\ EdgeInit /\ FedInit
  BY DEF ServiceInit
<1> QED BY <1>1, ServiceStep, PTL
        DEF ServiceSpec, PolicySpec, StepUpSpec, LinesSpec, WindowSpec, GraphSpec,
            MonitorSpec, IntelSpec, RateSpec, CacheSpec, SignalSpec, SettingsSpec, AccessSpec,
            ProtocolSpec, EdgeSpec, FedSpec

\* Each component of the service keeps its types, for every value of the
\* constants and whatever the others do.
THEOREM TypesAreKept == ServiceSpec => []TypeOK
<1> DEFINE All == /\ PolicyTypeOK /\ StepUpTypeOK /\ AuditTypeOK /\ LinesTypeOK /\ WindowTypeOK
                  /\ GraphTypeOK /\ MonitorTypeOK /\ IntelTypeOK /\ RateTypeOK /\ CacheTypeOK
                  /\ SignalTypeOK /\ SettingsTypeOK /\ AccessTypeOK /\ ProtocolTypeOK
                  /\ EdgeTypeOK /\ FedTypeOK
<1>1. ServiceInit => focus \in Focus
  BY DEF ServiceInit
<1>2. focus \in Focus /\ [ServiceNext]_serviceVars => (focus \in Focus)'
  <2> SUFFICES ASSUME focus \in Focus, [ServiceNext]_serviceVars PROVE focus' = focus
    OBVIOUS
  <2>1. CASE UNCHANGED serviceVars
    BY <2>1 DEF serviceVars
  <2>2. CASE ServiceNext
    <3>1. Elsewhere
      BY <2>2 DEF ServiceNext
    <3> QED BY <3>1 DEF Elsewhere
  <2> QED BY <2>1, <2>2
<1>3. IInv => AuditTypeOK
  BY DEF IInv
<1>4. ServiceSpec => []All
  BY <1>3, ServiceParts, PolicyTypeCorrect, StepUpTypeCorrect, InitIInv, NextIInv, LineTypes, WindowTypes,
     GraphTypeCorrect, MonitorTypes, IntelTypeCorrect, RateTypes, CacheTypeCorrect, SignalTypes,
     SettingsTypeCorrect, AccessTypeCorrect, ProtocolTypeCorrect, EdgeTypes, FederationTypes, PTL
<1>5. focus \in Focus /\ All => TypeOK
  BY DEF TypeOK, Is
<1> QED BY <1>1, <1>2, <1>4, <1>5, PTL DEF ServiceSpec

\* Whatever the service does, nothing is read that has been replaced.
THEOREM ReadsAreTrue == ServiceSpec => []ReadsAreFresh
BY ServiceParts, TailIsLatest, ScoresAreOfTheFile, PTL DEF ReadsAreFresh

\* The studies measure what they say, whatever they are given
\* (run_simulation, run_full_simulation).
THEOREM StudiesAreSound == ServiceSpec => []StudiesHold
BY ServiceParts, EdgeIsSound, FederationIsSound, PTL DEF StudiesHold

=============================================================================
