------------------------------ MODULE Helpers -------------------------------
(***************************************************************************)
(* Four programs of the repository that share no state, checked side by    *)
(* side: the metrics exporter of the backup stack, the endpoint sidecar of *)
(* the relay, the rules of the mail forwarder and the validation of        *)
(* stacks.  Each behaviour is one of one of them.                          *)
(***************************************************************************)
EXTENDS Exporter, Endpoint, Rules, Validate

CONSTANT Programs

VARIABLE running  \* the program this behaviour is of

helpersVars == <<running, exporterVars, endpointVars, rulesVars, validateVars>>

HelpersInit ==
  /\ running \in Programs
  /\ ExporterInit /\ EndpointInit /\ RulesInit /\ ValidateInit

HelpersNext ==
  /\ UNCHANGED running
  /\ \/ /\ running = "exporter" /\ ExporterNext
        /\ UNCHANGED <<endpointVars, rulesVars, validateVars>>
     \/ /\ running = "endpoint" /\ EndpointNext
        /\ UNCHANGED <<exporterVars, rulesVars, validateVars>>
     \/ /\ running = "rules" /\ RulesNext
        /\ UNCHANGED <<exporterVars, endpointVars, validateVars>>
     \/ /\ running = "validate" /\ ValidateNext
        /\ UNCHANGED <<exporterVars, endpointVars, rulesVars>>

HelpersSpec == HelpersInit /\ [][HelpersNext]_helpersVars /\ EndpointFairness

HelpersTypeOK ==
  running \in Programs /\ ExporterTypeOK /\ EndpointTypeOK /\ RulesTypeOK /\ ValidateTypeOK
=============================================================================
