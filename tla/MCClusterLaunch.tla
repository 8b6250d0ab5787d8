--------------------------- MODULE MCClusterLaunch --------------------------
(* The fabric as setup.sh configures it, and the launches on it.  A        *)
(* behaviour runs one of the two; the other stays at rest.                 *)
EXTENDS ClusterLaunch, Fabric

VARIABLES part   \* "launch" or "fabric"

-----------------------------------------------------------------------------
PortsOf(n) == (0..n-1) \X (0..NumPorts-1)
OnAll(f)   == [p \in AllPorts |-> IF p \in DOMAIN f THEN f[p] ELSE NoAddr]

(* The subnet the plan begins with, the next one, and one it never gives   *)
Nets == {20, 21, 99}

(* Hosts are numbered as the plan numbers them, or alike on both nodes.    *)
PairAddressings ==
  {OnAll(f) : f \in [PortsOf(2) -> {NoAddr} \union [net : Nets, host : {1, 2}]]}
TriangleAddressings ==
  {OnAll([p \in on |-> [net |-> net[p], host |-> p[1] + 1]]) :
     on \in {s \in SUBSET PortsOf(3) : Cardinality(s) <= 3}, net \in [PortsOf(3) -> {20, 21, 22}]}

PairCablings == SUBSET {<< <<0, 0>>, <<1, 1>> >>, << <<0, 1>>, <<1, 0>> >>}

(* The triangle of docs/networking.md, one of its cables missing, the      *)
(* other way round, and one that comes in twice at the port of the head.   *)
Triangle == {<< <<0, 0>>, <<1, 1>> >>, << <<1, 0>>, <<2, 1>> >>, << <<0, 1>>, <<2, 0>> >>}
Turned   == {<< <<0, 1>>, <<1, 0>> >>, << <<1, 1>>, <<2, 0>> >>, << <<0, 0>>, <<2, 1>> >>}
Switched == {<< <<0, 0>>, <<1, 0>> >>, << <<1, 1>>, <<2, 0>> >>, << <<0, 0>>, <<2, 1>> >>}
TriangleCablings == {Triangle, Triangle \ {<< <<1, 0>>, <<2, 1>> >>}, Turned, Switched}

MCFabrics == [nodes : {2}, cables : PairCablings, addr : PairAddressings]
             \union [nodes : {3}, cables : TriangleCablings, addr : TriangleAddressings]

ASSUME FabricAssumed == FabricAssumption

FabricAtRest == /\ nodes = 0 /\ cables = {} /\ addr = <<>> /\ step = "rest" /\ plan = <<>> /\ todo = <<>>
                /\ fails = {} /\ given = <<>> /\ trouble = FALSE

LaunchAtRest == Init /\ file = [n \in Nodes |-> [k \in Knobs |-> Default]]

(* Worker 1 has an old file; the others have one too, or do not set it.    *)
Files == {f \in [Nodes -> [Knobs -> {Default, Outdated, Unset}]] :
            \A n \in Workers, k \in Knobs : f[n][k] \in {Outdated} \cup (IF n = 1 THEN {} ELSE {Unset})}

InitCluster ==
  \/ part = "launch" /\ Init /\ file \in Files /\ FabricAtRest
  \/ part = "fabric" /\ LaunchAtRest /\ InitFabric

NextCluster ==
  \/ part = "launch" /\ Next /\ UNCHANGED <<part, fabricVars>>
  \/ part = "fabric" /\ NextFabric /\ UNCHANGED <<part, vars>>

SpecCluster == InitCluster /\ [][NextCluster]_<<part, vars, fabricVars>>
=============================================================================
