----------------------------- MODULE MCServices -----------------------------
(***************************************************************************)
(* The small services around the analyses, checked in one run.  They share *)
(* no state, so a behaviour is a behaviour of one of them while the others *)
(* stay where they start.                                                  *)
(***************************************************************************)
EXTENDS MCAccounts, MCLicense, MCSessions, MCAgent

VARIABLE part

servicesVars == <<part, vars, licenseVars, sessionVars, agentVars>>

ServicesInit ==
    /\ part \in {"accounts", "license", "sessions", "agent"}
    /\ Init
    /\ LicenseInit
    /\ SessionsInit
    /\ AgentInit
    /\ part # "accounts" => groups
    /\ part # "agent" => settings = [provider |-> "groq", withKey |-> {}] /\ dpaOnly

ServicesNext ==
    \/ part = "accounts" /\ Next /\ UNCHANGED <<part, licenseVars, sessionVars, agentVars>>
    \/ part = "license" /\ LicenseNext /\ UNCHANGED <<part, vars, sessionVars, agentVars>>
    \/ part = "sessions" /\ SessionsNext /\ UNCHANGED <<part, vars, licenseVars, agentVars>>
    \/ part = "agent" /\ AgentNext /\ UNCHANGED <<part, vars, licenseVars, sessionVars>>

ServicesSpec == ServicesInit /\ [][ServicesNext]_servicesVars
==============================================================================
