---------------------------- MODULE MCClustering ----------------------------
(* Every domain of up to five characters with names of three and labels of *)
(* two, one dotted pair of digits for the IP literals; and every mode and  *)
(* node, accepted or not, with one domain.                                 *)
EXTENDS Clustering

Classes == {"space", "dot", "hyphen", "upper", "digit", "other"}
Domains == UNION {[1..n -> Classes] : n \in 0..5}
Cluster(node, domain) == [node |-> node, domain |-> domain]
MCModes == {<<"single">>, <<"space", "single">>, <<"cluster">>,
            <<"space", "cluster", "space">>, <<"Cluster">>, <<"space">>}
MCNodes == {<<"master">>, <<"space", "master", "space">>, <<"replica-1", "space">>,
            <<"replica-2">>, <<"Master">>, <<>>}
MCRawInputs ==
  {[mode |-> <<"cluster">>, cluster |-> Cluster(<<"replica-1">>, d)] : d \in Domains}
  \cup {[mode |-> m, cluster |-> c] :
          m \in MCModes, c \in {NoCluster} \cup {Cluster(n, <<"upper">>) : n \in MCNodes}}
MCIpLiterals == {<<"digit", "dot", "digit">>}
=============================================================================
