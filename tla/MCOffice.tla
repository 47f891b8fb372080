------------------------------ MODULE MCOffice ------------------------------
(***************************************************************************)
(* The registers of the office and what the system keeps of itself, on     *)
(* small instances for TLC: corrective actions, membership, billing,       *)
(* migrations, documents, forms, a project's closure, clients and          *)
(* methodology plans.  They share no rows, so each behaviour follows one   *)
(* of them.                                                                *)
(***************************************************************************)
EXTENDS CorrectiveChain, Membership, Billing, Migration, Documents, Forms,
        ProjectControl, Clients, PlanNetwork, PlanScenario

VARIABLE part   \* the register this behaviour follows

officeVars == <<part, chainVars, membershipVars, billingVars, migrationVars,
                documentVars, formVars, projectVars, clientVars, networkVars,
                scenarioVars>>

OfficeInit ==
  /\ part \in {"chain", "membership", "billing", "migration", "documents", "forms",
              "project", "clients", "network", "scenario"}
  /\ ChainInit /\ (part # "chain" => source.kind = "ncr")
  /\ MembershipInit
  /\ BillingInit
  /\ MigrationInit /\ (part # "migration" => foreign = {})
  /\ DocumentInit
  /\ FormInit /\ (part # "forms" => formVersions[1].schema \notin Valid)
  /\ ProjectInit /\ (part # "project" => baselines = 0)
  /\ ClientInit
  /\ NetworkInit
  /\ ScenarioInit

OfficeNext ==
  /\ UNCHANGED part
  /\ \/ /\ part = "chain" /\ ChainNext
        /\ UNCHANGED <<membershipVars, billingVars, migrationVars,
                       documentVars, formVars, projectVars, clientVars,
                       networkVars, scenarioVars>>
     \/ /\ part = "membership" /\ MembershipNext
        /\ UNCHANGED <<chainVars, billingVars, migrationVars, documentVars,
                       formVars, projectVars, clientVars, networkVars,
                       scenarioVars>>
     \/ /\ part = "billing" /\ BillingNext
        /\ UNCHANGED <<chainVars, membershipVars, migrationVars, documentVars,
                       formVars, projectVars, clientVars, networkVars,
                       scenarioVars>>
     \/ /\ part = "migration" /\ MigrationNext
        /\ UNCHANGED <<chainVars, membershipVars, billingVars, documentVars,
                       formVars, projectVars, clientVars, networkVars,
                       scenarioVars>>
     \/ /\ part = "documents" /\ DocumentNext
        /\ UNCHANGED <<chainVars, membershipVars, billingVars, migrationVars,
                       formVars, projectVars, clientVars, networkVars,
                       scenarioVars>>
     \/ /\ part = "forms" /\ FormNext
        /\ UNCHANGED <<chainVars, membershipVars, billingVars, migrationVars,
                       documentVars, projectVars, clientVars, networkVars,
                       scenarioVars>>
     \/ /\ part = "project" /\ ProjectNext
        /\ UNCHANGED <<chainVars, membershipVars, billingVars, migrationVars,
                       documentVars, formVars, clientVars, networkVars,
                       scenarioVars>>
     \/ /\ part = "clients" /\ ClientNext
        /\ UNCHANGED <<chainVars, membershipVars, billingVars, migrationVars,
                       documentVars, formVars, projectVars, networkVars,
                       scenarioVars>>
     \/ /\ part = "network" /\ NetworkNext
        /\ UNCHANGED <<chainVars, membershipVars, billingVars, migrationVars,
                       documentVars, formVars, projectVars, clientVars,
                       scenarioVars>>
     \/ /\ part = "scenario" /\ ScenarioNext
        /\ UNCHANGED <<chainVars, membershipVars, billingVars, migrationVars,
                       documentVars, formVars, projectVars, clientVars,
                       networkVars>>

OfficeSpec == OfficeInit /\ [][OfficeNext]_officeVars

MCScripts == << <<"created", "repeatable", "opaque">>, <<"created", "created">> >>

\* One subscription with the module on trial, paid and failing; another one with it
\* that is cancelled.
MCFeatures == {"commercial"}
Event(subscription, type, status, features, trialEnd) ==
  [subscription |-> subscription, type |-> type, status |-> status, features |-> features,
   trialEnd |-> trialEnd]
MCEvents == {Event("b1", "subscription.updated", "trialing", MCFeatures, 0),
             Event("b1", "payment.failed", Unset, Unset, Unset),
             Event("b1", "payment.succeeded", "active", Unset, Unset),
             Event("b2", "subscription.created", Unset, MCFeatures, Unset),
             Event("b2", "subscription.cancelled", Unset, Unset, Unset)}
=============================================================================
