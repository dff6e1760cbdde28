---------------------------- MODULE MCFabricNode ----------------------------
(* An instance of FabricNode for TLC.                                      *)
EXTENDS FabricNode

Job(o, x, n) == [op |-> o, on |-> x, no |-> n]
Query(k, n) == [kind |-> k, no |-> n]

MCApps == {"web", "web-site"}
MCUnder == [a \in MCApps |-> IF a = "web" THEN MCApps ELSE {a}]
(* The view of the first app shows one instance of its daemon.             *)
MCViewOf == [a \in MCApps |-> IF a = "web" THEN [daemon |-> "nginx", one |-> TRUE]
                              ELSE [daemon |-> "none", one |-> FALSE]]

(* Two resources, the name of one extending that of the other.             *)
MCResources == {"conf", "conf-site"}
MCFiles == {"a", "s"}
MCListed == [r \in MCResources |-> IF r = "conf" THEN MCFiles ELSE {"s"}]

(* What a cleanup may find: nothing, one daemon, and one without a driver. *)
MCKeyed == {{}, {"nginx"}, {"nginx", "php"}}

(* The keys of two nodes: their own, two daemons and a resource.           *)
Key(n, i, d, f) == [node |-> n, item |-> i, id |-> d, flags |-> f]
MCContents ==
    SUBSET {Key("n1", "self", "", 0), Key("n1", "daemons", "nginx", 0),
            Key("n1", "daemons", "php", 20), Key("n2", "daemons", "nginx", 20),
            Key("n2", "resources", "conf", 20)}

(* A creation delivered twice and its start; starts that race each other   *)
(* and a stop; a cleanup; a daemon without a driver and a removal; two     *)
(* resources; and queries while a daemon comes up, alone or next to one    *)
(* that runs.                                                              *)
MCScenarios ==
    {{Job("create", "nginx", 1), Job("create", "nginx", 2), Job("start", "nginx", 1)},
     {Job("create", "nginx", 1), Job("start", "nginx", 1), Job("start", "nginx", 2),
      Job("stop", "nginx", 1)},
     {Job("create", "nginx", 1), Job("start", "nginx", 1), Job("cleanup", "nginx", 1)},
     {Job("create", "php", 1), Job("start", "php", 1), Job("create", "nginx", 1),
      Job("remove", "nginx", 1)},
     {Job("provision", "conf", 1), Job("provision", "conf-site", 1)},
     {Query("apps", 1), Job("create", "nginx", 1)},
     {Query("nodes", 1), Job("create", "nginx", 1), Job("start", "nginx", 1)},
     {Query("nodes", 1), Job("create", "nginx", 1), Runs("redis")},
     {Query("services", 1), Job("create", "nginx", 1), Job("start", "nginx", 1)},
     {Query("status", 1)}}
MCJobs == {x \in UNION MCScenarios : "op" \in DOMAIN x}
MCQueries == {x \in UNION MCScenarios : "kind" \in DOMAIN x}
=============================================================================
