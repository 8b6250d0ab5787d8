--------------------------- MODULE ClusterLaunch ---------------------------
(***************************************************************************)
(* run.sh: the commands that start the ranks of a model on the nodes of    *)
(* cluster.env, workers first and the head last, and that stop them.  A    *)
(* worker is started over ssh, which may fail before or after the          *)
(* worker's own script has done its work; docker may fail to remove a      *)
(* container, which the scripts ignore; containers exit when they like.    *)
(* Node 0 is the head, where the commands run.                             *)
(***************************************************************************)
EXTENDS Integers, FiniteSets

CONSTANTS
  NumNodes,   \* nodes listed in NODES
  Knobs,      \* settings a rank is started with
  Forwarded,  \* FORWARD_VARS: those the head passes on to the workers
  MaxRuns     \* bound: commands given

ASSUME LaunchAssumption ==
  /\ NumNodes \in Nat \ {0}
  /\ Forwarded \subseteq Knobs
  /\ MaxRuns \in Nat

Nodes   == 0..NumNodes-1
Workers == Nodes \ {0}
Default  == "file"       \* the head's cluster.env, or common.sh's own default
Outdated == "outdated"   \* a worker's copy of it, where that differs
Unset    == "unset"      \* neither sets it: a rank takes its recipe's default
Override == "env"        \* the environment the command was given
Config   == [Knobs -> {Default, Outdated, Unset, Override}]

VARIABLES
  file,       \* what each node's cluster.env and common.sh set
  reachable,  \* workers ssh gets through to
  container,  \* what runs under NAME on each node
  pc,         \* "idle", or what the running command is at
  run,        \* number of the command: tells launches apart
  tp,         \* ranks the launch starts
  env,        \* knobs set in the command's environment
  next,       \* the node the command is at
  missed,     \* nodes where the ssh or the docker of the last stop failed
  result      \* how the last command ended

command == <<pc, run, tp, env, next, missed, result>>
vars == <<file, reachable, container, command>>

None == [state |-> "none"]
Up(n)      == container[n].state = "up"
Present(n) == container[n].state # "none"

(* Node n holds its rank of the command now running, or last run.          *)
Belongs(n) == Present(n) /\ container[n].run = run

Init ==
  /\ file \in {f \in [Nodes -> [Knobs -> {Default, Outdated, Unset}]] : \A k \in Knobs : f[0][k] # Outdated}
  /\ reachable = Workers
  /\ container = [n \in Nodes |-> None]
  /\ pc = "idle" /\ run = 0 /\ tp = 0 /\ env = {} /\ next = 0
  /\ missed = {} /\ result = "none"

-----------------------------------------------------------------------------
(* The settings of the rank on node n: an environment variable wins over   *)
(* the file; a worker's environment is what the head forwards, and that is *)
(* every forwarded variable set at the head, in the environment, in its    *)
(* file or by common.sh.  Of the others the worker's own file decides.     *)
HeadConfig == [k \in Knobs |-> IF k \in env THEN Override ELSE file[0][k]]

(* Seeded fault: only what was set in the environment is forwarded.        *)
RankConfigOfEnv(n) ==
  IF n = 0 THEN HeadConfig
  ELSE [k \in Knobs |-> IF k \in env \cap Forwarded THEN Override ELSE file[n][k]]

RankConfig(n) ==
  IF n = 0 THEN HeadConfig
  ELSE [k \in Knobs |-> IF k \in Forwarded /\ HeadConfig[k] # Unset THEN HeadConfig[k] ELSE file[n][k]]

Rank(n, state) ==
  [state |-> state, run |-> run, rank |-> n, tp |-> tp, config |-> RankConfig(n)]

(* run.sh tp1, tp2, tp3: refused when NODES lists too few.                 *)
Begin(ranks, knobs) ==
  /\ pc = "idle" /\ run < MaxRuns /\ ranks <= NumNodes
  /\ run' = run + 1 /\ tp' = ranks /\ env' = knobs
  /\ IF ranks = 1 THEN pc' = "head" /\ next' = 0 ELSE pc' = "workers" /\ next' = 1
  /\ missed' = {} /\ result' = "none"
  /\ UNCHANGED <<file, reachable, container>>

(* Seeded fault: a worker that failed to start does not end the command.   *)
FailAndGoOn ==
  /\ IF next + 1 < tp /\ pc = "workers" THEN pc' = pc /\ next' = next + 1
     ELSE IF pc = "workers" THEN pc' = "head" /\ next' = 0
     ELSE pc' = "idle" /\ next' = next
  /\ result' = IF pc = "head" THEN "launched" ELSE "none"
  /\ UNCHANGED <<run, tp, env, missed>>

(* Under set -e, exit 1 or a failing docker command ends the command there.*)
Fail ==
  /\ pc' = "idle" /\ result' = "failed"
  /\ UNCHANGED <<run, tp, env, next, missed>>

(* On to the next worker, then the head, then done.                        *)
Go ==
  /\ IF pc = "head" THEN pc' = "idle" /\ next' = next /\ result' = "launched"
     ELSE IF next + 1 < tp THEN pc' = pc /\ next' = next + 1 /\ result' = result
     ELSE pc' = "head" /\ next' = 0 /\ result' = result
  /\ UNCHANGED <<run, tp, env, missed>>

Starting == pc \in {"workers", "head"}
Connected == pc = "head" \/ next \in reachable

(* start_remote_rank cannot reach the worker.                              *)
Unreached ==
  /\ Starting /\ ~Connected
  /\ Fail
  /\ UNCHANGED <<file, reachable, container>>

(* The recipe gives up before it touches the container: no cluster.env, no *)
(* model, a setting it does not know; or docker does not remove the old    *)
(* container, which is ignored, and then runs none of the same name.       *)
Refused ==
  /\ Starting /\ Connected
  /\ Fail
  /\ UNCHANGED <<file, reachable, container>>

(* run_container: the old container is removed, but docker starts none.    *)
NotRun ==
  /\ Starting /\ Connected
  /\ container' = [container EXCEPT ![next] = None]
  /\ Fail
  /\ UNCHANGED <<file, reachable>>

(* The container has exited by the time run_container looks for it, or     *)
(* ssh is lost while it runs: either way the head sees a failure.          *)
StartedNotSeen(state) ==
  /\ Starting /\ Connected
  /\ state = "up" => pc = "workers"
  /\ container' = [container EXCEPT ![next] = Rank(next, state)]
  /\ Fail
  /\ UNCHANGED <<file, reachable>>

(* run_container: old container removed, new one started and seen running. *)
Started ==
  /\ Starting /\ Connected
  /\ container' = [container EXCEPT ![next] = Rank(next, "up")]
  /\ Go
  /\ UNCHANGED <<file, reachable>>

-----------------------------------------------------------------------------
(* run.sh stop: every worker in turn, whether ssh and docker work or not,  *)
(* then the head's own container.                                          *)
BeginStop ==
  /\ pc = "idle" /\ run < MaxRuns
  /\ run' = run + 1 /\ tp' = 0 /\ env' = {} /\ next' = 1 % NumNodes
  /\ pc' = "stopping" /\ missed' = {} /\ result' = "none"
  /\ UNCHANGED <<file, reachable, container>>

Reached(n) == n = 0 \/ n \in reachable

(* docker rm -f: || true hides that ssh or docker failed.                  *)
Removed == Reached(next) /\ container' = [container EXCEPT ![next] = None] /\ missed' = missed
NotRemoved == container' = container /\ missed' = missed \cup {next}

(* Seeded fault: a node that could not be cleared ends the loop.           *)
StopNodeOrEnd ==
  /\ pc = "stopping"
  /\ \/ Removed /\ next' = (next + 1) % NumNodes
     \/ NotRemoved /\ next' = 0
  /\ IF next = 0 THEN pc' = "idle" /\ result' = "stopped" ELSE UNCHANGED <<pc, result>>
  /\ UNCHANGED <<file, reachable, run, tp, env>>

StopNode ==
  /\ pc = "stopping"
  /\ Removed \/ NotRemoved
  /\ next' = (next + 1) % NumNodes
  /\ IF next = 0 THEN pc' = "idle" /\ result' = "stopped" ELSE UNCHANGED <<pc, result>>
  /\ UNCHANGED <<file, reachable, run, tp, env>>

-----------------------------------------------------------------------------
(* Around the commands: containers exit (--restart no), nodes come and go. *)
Exit(n) ==
  /\ Up(n)
  /\ container' = [container EXCEPT ![n].state = "exited"]
  /\ UNCHANGED <<file, reachable, command>>

Lose(n) ==
  /\ n \in reachable /\ reachable' = reachable \ {n}
  /\ UNCHANGED <<file, container, command>>

Return(n) ==
  /\ n \in Workers \ reachable /\ reachable' = reachable \cup {n}
  /\ UNCHANGED <<file, container, command>>

Next ==
  \/ \E ranks \in 1..3, knobs \in SUBSET Knobs : Begin(ranks, knobs)
  \/ Unreached \/ Refused \/ NotRun \/ Started
  \/ \E state \in {"up", "exited"} : StartedNotSeen(state)
  \/ BeginStop \/ StopNode
  \/ \E n \in Nodes : Exit(n)
  \/ \E n \in Workers : Lose(n) \/ Return(n)

Spec == Init /\ [][Next]_vars

-----------------------------------------------------------------------------
RankRecord == [state : {"up", "exited"}, run : 1..MaxRuns, rank : Nodes, tp : 1..3, config : Config]

(* Every variable has its type; a node only ever holds its own rank, of a  *)
(* launch that has one.                                                    *)
TypeOK ==
  /\ file \in [Nodes -> [Knobs -> {Default, Outdated, Unset}]]
  /\ reachable \subseteq Workers
  /\ container \in [Nodes -> RankRecord \cup {None}]
  /\ \A n \in Nodes : Present(n) => container[n].rank = n /\ n < container[n].tp
  /\ pc \in {"idle", "workers", "head", "stopping"}
  /\ missed \subseteq Nodes
  /\ run \in 0..MaxRuns /\ tp \in 0..3 /\ env \subseteq Knobs /\ next \in Nodes
  /\ result \in {"none", "launched", "failed", "stopped"}

(* A command that reports success started every rank of its launch: no     *)
(* node is left with the rank of an earlier launch or with none, however   *)
(* commands failed before (start_remote_rank, run.sh tp2/tp3).             *)
LaunchIsWhole ==
  result = "launched" => \A n \in 0..tp-1 : Belongs(n)

(* The head is replaced only once all its workers are: as long as the old  *)
(* head stands, a command that fails at a worker has left it alone.        *)
HeadComesLast ==
  [][container'[0].state = "up" /\ container'[0] # container[0]
       => \A n \in 1..tp-1 : Belongs(n)]_vars

(* The ranks of a launch agree on every forwarded setting that is set at   *)
(* the head, even if a worker's cluster.env is out of date (forward_env).  *)
(* One that nothing sets at the head is each worker's own affair.          *)
ForwardedAgree ==
  \A m, n \in Nodes :
    Present(m) /\ Present(n) /\ container[m].run = container[n].run
      => \A k \in Forwarded :
           \/ container[m].config[k] = container[n].config[k]
           \/ file[0][k] = Unset /\ Override \notin {container[m].config[k], container[n].config[k]}

(* A stop leaves a container only on a node where ssh or docker failed:    *)
(* one such node does not spare those after it, nor the head, from being   *)
(* stopped (stop_on).                                                      *)
StopMissesOnlyFailed ==
  result = "stopped" => \A n \in Nodes : ~Present(n) \/ n \in missed

-----------------------------------------------------------------------------
(* What the repository says and the code does not do.                      *)

(* run.sh:8, "stop the container on every node in NODES"; it also reports  *)
(* "stopped ... on" all of them.                                           *)
StoppedEverywhere ==
  result = "stopped" => \A n \in Nodes : ~Present(n)

(* cluster_env.sh:6-7, a variable set in the environment wins, "so a       *)
(* one-off override works for every key": here, on every rank.             *)
OverridesReachAllRanks ==
  \A n \in Nodes : Present(0) /\ Present(n) /\ container[n].run = container[0].run
    => \A k \in Knobs : container[0].config[k] = Override => container[n].config[k] = Override

=============================================================================
