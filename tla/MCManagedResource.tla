------------------------- MODULE MCManagedResource -------------------------
(***************************************************************************)
(* Instances of ManagedResource for TLC.                                   *)
(***************************************************************************)
EXTENDS ManagedResource

\* The kinds of both API groups, and those that Setup registers with the tags
\* initializer also as they behave under --skip-default-metadata.
MCAllKinds == AllKinds

\* Between them these two lock and do not lock, tag and do not tag, archive
\* and delete, and do and do not look at ArchivedAt.
MCContrast ==
    {Kind(AgentClient, AgentFields, FALSE), Kind(ExternalKeyClient, ExternalKeyFields, FALSE)}

MCSession == {Kind(SessionClient, SessionFields, FALSE)}

MCDeployment == {Kind(DeploymentClient, DeploymentFields, FALSE)}

\* "Set to true to pause the schedule ...; set to false (or omit) to keep it
\* active (the reconciler calls Unpause when needed)" (deployment_types.go:237):
\* a deployment whose manifest does not set the switch ends up active.
OmittedIsActive ==
    <>[](obj.here /\ ~obj.deleting /\ Live(obj.name) /\ obj.spec["switch"] = Unset
            => ext[obj.name].val["switch"] = Active)
============================================================================
