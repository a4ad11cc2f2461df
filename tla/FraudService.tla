---------------------------- MODULE FraudService ----------------------------
(***************************************************************************)
(* What fraud-service keeps beside the evaluation's stores, and the        *)
(* studies of the edge and of the federation, one component at a time: a   *)
(* behaviour is about one of them, and the others stay as they are.  They  *)
(* share no state; the evaluation calls each in turn.                      *)
(***************************************************************************)
EXTENDS MCPolicy, StepUp, AuditChain, AuditLines, ProfileWindows, TransferGraph, Monitoring,
        Intelligence, RateLimit, ModelCache, Signals, RuntimeSettings, Access, Protocols, Studies

CONSTANT Focus  \* the components that a behaviour may be about

VARIABLE focus

serviceVars ==
    <<focus, policyVars, stepUpVars, auditVars, linesVars, windowVars, graphVars, monitorVars,
      intelVars, rateVars, cacheVars, signalVars, settingsVars, accessVars, protocolVars, edgeVars, fedVars>>

Ordinary == tx.amount = 10 /\ tx.score = 950 /\ tx.hour = "none"
                /\ ~tx.foreign /\ ~tx.merchant /\ ~tx.drains

ServiceInit ==
    /\ focus \in Focus
    /\ PolicyInit /\ (focus = "policy" \/ Ordinary)
    /\ StepUpInit /\ AuditInit /\ (focus = "audit" \/ ~legacy)
    /\ LinesInit /\ WindowInit /\ GraphInit /\ MonitorInit
    /\ IntelInit /\ RateInit /\ SignalInit /\ SettingsInit /\ AccessInit
    /\ EdgeInit /\ FedInit /\ ProtocolInit
    /\ CacheInit /\ (focus = "cache" \/ strict)

Still(components, state) == IF focus \in components THEN TRUE ELSE UNCHANGED state

Elsewhere ==
    /\ UNCHANGED focus
    /\ Still({"policy"}, policyVars) /\ Still({"stepup"}, stepUpVars) /\ Still({"audit"}, auditVars)
    /\ Still({"lines"}, linesVars) /\ Still({"windows"}, windowVars) /\ Still({"graph"}, graphVars)
    /\ Still({"monitoring"}, monitorVars) /\ Still({"intelligence"}, intelVars)
    /\ Still({"rate"}, rateVars) /\ Still({"cache"}, cacheVars) /\ Still({"signals"}, signalVars)
    /\ Still({"switches", "weights"}, settingsVars) /\ Still({"access"}, accessVars)
    /\ Still({"trust", "beacon"}, protocolVars)
    /\ Still({"edge"}, edgeVars) /\ Still({"federated"}, fedVars)

ServiceNext ==
    \/ focus = "policy" /\ PolicyNext /\ Elsewhere
    \/ focus = "stepup" /\ StepUpNext /\ Elsewhere
    \/ focus = "audit" /\ AuditNext /\ Elsewhere
    \/ focus = "lines" /\ LinesNext /\ Elsewhere
    \/ focus = "windows" /\ WindowNext /\ Elsewhere
    \/ focus = "graph" /\ GraphNext /\ Elsewhere
    \/ focus = "monitoring" /\ MonitorNext /\ Elsewhere
    \/ focus = "intelligence" /\ IntelNext /\ Elsewhere
    \/ focus = "rate" /\ RateNext /\ Elsewhere
    \/ focus = "cache" /\ CacheNext /\ Elsewhere
    \/ focus = "signals" /\ SignalNext /\ Elsewhere
    \/ focus = "switches" /\ (SwitchNext \/ RestartSettings) /\ Elsewhere
    \/ focus = "weights" /\ (WeightNext \/ RestartSettings) /\ Elsewhere
    \/ focus = "access" /\ AccessNext /\ Elsewhere
    \/ focus = "trust" /\ ZeroTrustNext /\ Elsewhere
    \/ focus = "beacon" /\ BeaconNext /\ Elsewhere
    \/ focus = "edge" /\ EdgeNext /\ Elsewhere
    \/ focus = "federated" /\ FedNext /\ Elsewhere

ServiceSpec == ServiceInit /\ [][ServiceNext]_serviceVars
-----------------------------------------------------------------------------
\* The others are as their Init has left them, which some behaviour is about.
Is(component, invariant) == focus = component => invariant

TypeOK ==
    /\ focus \in Focus
    /\ Is("policy", PolicyTypeOK) /\ Is("stepup", StepUpTypeOK) /\ Is("audit", AuditTypeOK)
    /\ Is("lines", LinesTypeOK) /\ Is("windows", WindowTypeOK) /\ Is("graph", GraphTypeOK)
    /\ Is("monitoring", MonitorTypeOK) /\ Is("intelligence", IntelTypeOK)
    /\ Is("rate", RateTypeOK) /\ Is("cache", CacheTypeOK) /\ Is("signals", SignalTypeOK)
    /\ Is("switches", SettingsTypeOK) /\ Is("weights", SettingsTypeOK)
    /\ Is("access", AccessTypeOK) /\ Is("trust", ProtocolTypeOK) /\ Is("beacon", ProtocolTypeOK)
    /\ Is("edge", EdgeTypeOK) /\ Is("federated", FedTypeOK)

\* Nothing is read that has been replaced: the last lines of the audit file that
\* are served are the latest ones, and a score is of the model that is on disk
\* whenever the cache can know of it (audit_logger.read_recent, _load_model).
ReadsAreFresh == LinesAreTheLatest /\ ScoresAreFresh
=============================================================================
