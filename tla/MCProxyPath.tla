---------------------------- MODULE MCProxyPath ----------------------------
(* Instance of the proxies for TLC, one part per behaviour: the registry of   *)
(* HTTP proxies, that of stream proxies, or one relayed connection.           *)
EXTENDS ProxyPath, ByteRelay, TLC

CONSTANTS s1, s2, a_b, a_slash_b

VARIABLE part

\* Both names are sanitised to one path.
MCPath == [n \in Names |-> "a_b.socket"]

Symmetry == Permutations(Sessions) \cup Permutations(Names)

Dialog(k, client, upstream) == [kind |-> k, say |-> [client |-> client, upstream |-> upstream]]

\* A second head behind the first, a front door with and without upgrade, and a
\* sprites service with and without acknowledgement.
MCDialogs ==
    {Dialog("tcp", <<"a", "b">>, <<"r", "s">>), Dialog("http", <<"get", "blank", "b", "get">>, <<"r", "s">>),
     Dialog("forward", <<"get", "blank", "b", "c">>, <<"r", "s">>),
     Dialog("accept", <<"get", "up", "blank", "f">>, <<"r", "s">>), Dialog("accept", <<"get", "blank", "f">>, <<>>),
     Dialog("sprites", <<"a", "b">>, <<"ack", "r", "s">>), Dialog("sprites", <<"a", "b">>, <<"r", "s">>)}

MCInit == /\ part \in {"http", "stream", "relay"} /\ Init /\ RelayInit
          /\ part # "relay" => todo = (CHOOSE d \in Dialogs : d.kind = "tcp").say /\ kind = "tcp"

MCNext == \/ part # "relay" /\ Next /\ UNCHANGED <<part, relayVars>>
          \/ part = "relay" /\ RelayNext /\ UNCHANGED <<part, vars>>

\* Requests of one kind in a behaviour; kills and detaches come in both.
OneKind ==
    /\ part = "http" => \A s \in Sessions : op[s].at # "bind"
    /\ part = "stream" => \A s \in Sessions : op[s].at \notin {"insert", "unwait", "drop"}

MCSpec == MCInit /\ [][MCNext]_<<part, vars, relayVars>>
=============================================================================
