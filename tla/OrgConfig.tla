----------------------------- MODULE OrgConfig -----------------------------
(***************************************************************************)
(* The organization config groups of a channel config                      *)
(* (fabric1/common/config: organization.go, applicationorg.go,            *)
(* application.go, consortium.go).                                         *)
(*                                                                         *)
(* Two parent groups hold organizations: the Application group of a        *)
(* channel (its subgroups are ApplicationOrgGroups) and a Consortium of    *)
(* the system channel (its subgroups are plain OrganizationGroups).  A     *)
(* config transaction proposes a set of organizations for one parent;      *)
(* every group allocates a fresh config value (Allocate), validates it     *)
(* (Validate), and, when every Validate of the transaction succeeded,      *)
(* commits it (Commit); otherwise the proposal is rolled back and nothing  *)
(* changes.  The Proposer that drives these calls lives outside this       *)
(* package: it reuses the group object of an organization that stays in    *)
(* the config and creates a fresh one (NewGroup) for a new organization,   *)
(* and it handles one transaction at a time.                               *)
(*                                                                         *)
(* A config value is a record carrying the transaction that allocated it,  *)
(* so that two records are equal exactly when they are the same Go value.  *)
(***************************************************************************)
EXTENDS Naturals, FiniteSets

CONSTANTS
    Orgs,       \* organization names
    MSPIDs,     \* MSP identifiers an MSP config can carry
    EMPTY,      \* the empty MSP identifier ""
    BADMSP,     \* an MSP config that mspConfigHandler.ProposeMSP rejects
    Anchors,    \* anchor peer lists of an application org
    NONE,       \* nil
    MaxTx       \* bound on the number of config transactions explored

Trees == {"application", "consortium"}

(* what a transaction proposes for one organization *)
OrgProposals == [msp : MSPIDs \cup {EMPTY, BADMSP}, anchors : Anchors]

VARIABLES
    present,    \* present[t]: the organizations the parent group t holds
    orgCfg,     \* orgCfg[t][o]: OrganizationGroup.OrganizationConfig
    appOrgCfg,  \* appOrgCfg[o]: ApplicationOrgGroup.ApplicationOrgConfig
    groupCfg,   \* groupCfg[t]: ApplicationGroup.ApplicationConfig /
                \*              ConsortiumGroup.ConsortiumConfig
    outcome,    \* the result of the last config transaction
    txCount     \* the number of config transactions so far

vars == <<present, orgCfg, appOrgCfg, groupCfg, outcome, txCount>>

-----------------------------------------------------------------------------
(* The committed OrganizationConfig of the group the Proposer will use for *)
(* o: that of the existing group, or nil for a group NewGroup creates.     *)
CommittedOrg(t, o) == IF o \in present[t] THEN orgCfg[t][o] ELSE NONE

(* NewOrganizationConfig, NewApplicationOrgConfig after their values were  *)
(* deserialized; the MSP ID is set by validateMSP from the proposed MSP.   *)
NewOrgConfig(p, n) == [mspID |-> p.msp, tx |-> n]
NewAppOrgConfig(p, n) == [org |-> NewOrgConfig(p, n), anchors |-> p.anchors, tx |-> n]

(* validateMSP without the check that the MSP ID is not empty *)
ValidateMSPNoEmptyCheck(t, o, p) ==
    CASE p.msp = BADMSP -> "proposeMSP"
      [] CommittedOrg(t, o) # NONE /\ CommittedOrg(t, o).mspID # p.msp
                        -> "changedMSPID"
      [] OTHER          -> "ok"

(* validateMSP without the check that the MSP ID did not change *)
ValidateMSPNoChangeCheck(t, o, p) ==
    CASE p.msp = BADMSP -> "proposeMSP"
      [] p.msp = EMPTY  -> "emptyMSPID"
      [] OTHER          -> "ok"

(* OrganizationConfig.Validate = validateMSP: ProposeMSP may reject the    *)
(* MSP config; the MSP ID must not be empty, and must equal the committed  *)
(* one when the group already has a committed config.                      *)
ValidateMSP(t, o, p) ==
    CASE p.msp = BADMSP -> "proposeMSP"
      [] p.msp = EMPTY  -> "emptyMSPID"
      [] CommittedOrg(t, o) # NONE /\ CommittedOrg(t, o).mspID # p.msp
                        -> "changedMSPID"
      [] OTHER          -> "ok"

(* Commit of an application transaction: ApplicationConfig.Commit stores  *)
(* the config whose Validate collected the org groups; every               *)
(* ApplicationOrgConfig.Commit stores itself in its ApplicationOrgGroup    *)
(* and calls OrganizationConfig.Commit, which stores the embedded          *)
(* organization config in the OrganizationGroup.                           *)
CommitApplication(prop, n) ==
    LET S == DOMAIN prop IN
    /\ appOrgCfg' = [o \in Orgs |-> IF o \in S THEN NewAppOrgConfig(prop[o], n) ELSE NONE]
    /\ orgCfg' = [orgCfg EXCEPT !["application"] =
                    [o \in Orgs |-> IF o \in S THEN NewAppOrgConfig(prop[o], n).org ELSE NONE]]
    /\ groupCfg' = [groupCfg EXCEPT !["application"] = [orgs |-> S, tx |-> n]]

(* Commit of a consortium transaction: ConsortiumConfig.Commit and the     *)
(* OrganizationConfig.Commit of every member.                              *)
CommitConsortium(prop, n) ==
    LET S == DOMAIN prop IN
    /\ orgCfg' = [orgCfg EXCEPT !["consortium"] =
                    [o \in Orgs |-> IF o \in S THEN NewOrgConfig(prop[o], n) ELSE NONE]]
    /\ groupCfg' = [groupCfg EXCEPT !["consortium"] = [orgs |-> S, tx |-> n]]
    /\ UNCHANGED appOrgCfg

(* A config transaction for the parent group t proposing the organizations *)
(* DOMAIN prop.  The parent's Validate (ApplicationConfig.Validate,        *)
(* ConsortiumConfig.Validate) only checks the type of the subgroups, which *)
(* NewGroup makes right; each organization's Validate runs validateMSP.    *)
(* All of them must succeed for the Proposer to commit; otherwise it rolls *)
(* back and nothing is stored.                                             *)
ConfigTx(t, prop) ==
    LET n == txCount + 1
        errs == {ValidateMSP(t, o, prop[o]) : o \in DOMAIN prop} \ {"ok"}
    IN /\ txCount < MaxTx
       /\ txCount' = n
       /\ IF errs = {}
          THEN /\ outcome' = "ok"
               /\ present' = [present EXCEPT ![t] = DOMAIN prop]
               /\ IF t = "application" THEN CommitApplication(prop, n)
                                       ELSE CommitConsortium(prop, n)
          ELSE /\ outcome' = "rolledBack"
               /\ UNCHANGED <<present, orgCfg, appOrgCfg, groupCfg>>

Init ==
    /\ present = [t \in Trees |-> {}]
    /\ orgCfg = [t \in Trees |-> [o \in Orgs |-> NONE]]
    /\ appOrgCfg = [o \in Orgs |-> NONE]
    /\ groupCfg = [t \in Trees |-> NONE]
    /\ outcome = "none"
    /\ txCount = 0

(* the proposals of a transaction: any set of organizations, each with a   *)
(* proposed MSP and anchor peers                                           *)
Proposals == UNION {[S -> OrgProposals] : S \in SUBSET Orgs}

Next == \E t \in Trees, prop \in Proposals : ConfigTx(t, prop)

(* the explored transactions are exhausted *)
Done == txCount = MaxTx /\ UNCHANGED vars

Spec == Init /\ [][Next \/ Done]_vars

-----------------------------------------------------------------------------
(* Properties *)

(* a committed organization config always carries a real MSP ID *)
OrgConfigs == [mspID : MSPIDs, tx : 1 .. MaxTx]

TypeOK ==
    /\ present \in [Trees -> SUBSET Orgs]
    /\ orgCfg \in [Trees -> [Orgs -> OrgConfigs \cup {NONE}]]
    /\ \A o \in Orgs : appOrgCfg[o] = NONE \/ appOrgCfg[o].org \in OrgConfigs
    /\ outcome \in {"none", "ok", "rolledBack"}
    /\ txCount \in 0 .. MaxTx

(* validateMSP's promise: an organization that stays in a parent group     *)
(* never changes its MSP ID, through any sequence of config transactions   *)
(* of either parent.                                                       *)
MSPIDImmutable ==
    [][\A t \in Trees, o \in Orgs :
         (o \in present[t] /\ o \in present'[t] /\ orgCfg[t][o] # NONE)
            => orgCfg'[t][o] # NONE /\ orgCfg'[t][o].mspID = orgCfg[t][o].mspID]_vars
=============================================================================
