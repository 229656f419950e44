----------------------------- MODULE MCAgentRun -----------------------------
(* An instance of AgentRun for TLC.                                        *)
EXTENDS AgentRun

CONSTANTS ecm, k46, q

\* One fault, written as the user may write it and as the parser writes it; one ECU.
TwoCodes == {"DTC 523", "DTC523"}
InUpper  == [x \in TwoCodes \cup {ecm} |-> x]
AsParsed == [c \in TwoCodes |-> "DTC523"]

Before(ecu, lookup, diagnosis) ==
  [ecu       |-> ecu,
   lookup    |-> [k \in Recordings |-> lookup],
   diagnosis |-> [k \in Recordings |-> [e \in {ecm} |-> diagnosis]]]

\* Nothing; several ECUs, of which the user has chosen none or one; a diagnosis.
FourContexts ==
  {Before({}, "none", "none"), Before({}, "many", "none"),
   Before({ecm}, "many", "none"), Before({ecm}, "one", "failed")}
=============================================================================
