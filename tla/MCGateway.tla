------------------------------ MODULE MCGateway ------------------------------
(* Instance of the two ends of the gateway for TLC, one part per behaviour:   *)
(* the sessions of its frontends, or one connection to an agent.              *)
EXTENDS GatewaySession, AgentConn

CONSTANTS s1, s2, n1, n2, c1, c2,
          Parts     \* the parts that the run explores

VARIABLE part

\* Two good hellos whose windows overlap, one later with a bad signature that
\* shares a nonce, and one with an unknown key.
MCHellos ==
    { [ts |-> 1, nonce |-> n1, known |-> TRUE,  signed |-> TRUE],
      [ts |-> 2, nonce |-> n2, known |-> TRUE,  signed |-> TRUE],
      [ts |-> 3, nonce |-> n1, known |-> TRUE,  signed |-> FALSE],
      [ts |-> 2, nonce |-> n2, known |-> FALSE, signed |-> FALSE] }

MCInit == part \in Parts /\ SessionInit /\ Init

MCNext ==
    \/ part = "session" /\ SessionNext /\ UNCHANGED <<part, vars>>
    \/ part = "conn" /\ Next /\ UNCHANGED <<part, sessionVars>>

MCSpec == MCInit /\ [][MCNext]_<<part, sessionVars, vars>> /\ Fairness
=============================================================================
