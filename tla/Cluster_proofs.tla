--------------------------- MODULE Cluster_proofs ---------------------------
(***************************************************************************)
(* The fabric as setup.sh configures it and the launches on it.            *)
(*                                                                         *)
(* For any number of nodes and commands: a launch that reports success is  *)
(* whole, and the head is replaced last.                                   *)
(*                                                                         *)
(* On two or three nodes with any ports, cabling and addresses: step 4 of  *)
(* setup.sh gives no subnet to two cables or to one whose number is in     *)
(* use, and reports no link it did not see, whatever is lost or refused;   *)
(* where nothing is, it ends with every needed link addressed.             *)
(***************************************************************************)
EXTENDS ClusterLaunch, Fabric, FiniteSetTheorems, WellFoundedInduction, TLAPS

(* What a node holds.                                                      *)
Kept == [state : {"up", "exited"}, run : Nat, rank : Nodes, tp : Nat, config : Config]

Sound ==
  /\ container \in [Nodes -> Kept \cup {None}]
  /\ run \in Nat
  /\ tp \in 0..NumNodes
  /\ next \in Nodes
  /\ file \in [Nodes -> [Knobs -> {Default, Outdated, Unset}]]
  /\ pc \in {"idle", "workers", "head", "stopping"}

(* At a worker, those before it belong to the command; at the head, all;   *)
(* after a success, the head as well.                                      *)
Progress ==
  /\ pc = "workers" => next \in 1..tp-1 /\ \A n \in 1..next-1 : Belongs(n)
  /\ pc = "head" => next = 0 /\ tp >= 1 /\ \A n \in 1..tp-1 : Belongs(n)
  /\ result = "launched" => pc = "idle" /\ \A n \in 0..tp-1 : Belongs(n)

IInv == Sound /\ Progress

LEMMA ZeroIsNode == 0 \in Nodes /\ Workers = 1..NumNodes-1 /\ NumNodes \in Nat \ {0}
BY LaunchAssumption DEF Nodes, Workers

LEMMA RankIsKept ==
  ASSUME Sound, NEW n \in Nodes, NEW state \in {"up", "exited"}
  PROVE  Rank(n, state) \in Kept /\ Rank(n, state).run = run /\ Rank(n, state).state = state
<1>1. HeadConfig \in Config
  BY ZeroIsNode DEF Sound, HeadConfig, Config
<1>2. RankConfig(n) \in Config
  BY <1>1 DEF Sound, RankConfig, Config
<1>3. tp \in Nat
  BY ZeroIsNode DEF Sound
<1> QED
  BY <1>2, <1>3 DEF Sound, Rank, Kept

THEOREM InitIInv == Init => IInv
<1> SUFFICES ASSUME Init PROVE IInv
  OBVIOUS
<1>1. file \in [Nodes -> [Knobs -> {Default, Outdated, Unset}]]
  BY DEF Init
<1>2. Sound
  BY <1>1, ZeroIsNode DEF Init, Sound
<1>3. Progress
  BY DEF Init, Progress
<1> QED
  BY <1>2, <1>3 DEF IInv

-----------------------------------------------------------------------------
(* Replacing the container of the command's node, then going on.           *)

LEMMA StartedStep ==
  ASSUME IInv, Started
  PROVE  IInv'
<1> DEFINE new == Rank(next, "up")
<1>1. next \in Nodes /\ new \in Kept /\ new.run = run /\ new.state = "up"
  BY RankIsKept DEF IInv, Sound
<1>2. container' = [container EXCEPT ![next] = new] /\ file' = file /\ run' = run /\ tp' = tp
  BY DEF Started, Go
<1>0. PICK m : m = next
  OBVIOUS
<1>3. container'[m] = new /\ \A n \in Nodes : n # m => container'[n] = container[n]
  BY <1>0, <1>1, <1>2 DEF IInv, Sound
<1>4. Belongs(m)' /\ \A n \in Nodes : Belongs(n) => Belongs(n)'
  <2>1. Belongs(m)'
    BY <1>1, <1>2, <1>3 DEF Belongs, Present
  <2>2. ASSUME NEW n \in Nodes, n # m, Belongs(n) PROVE Belongs(n)'
    BY <1>2, <1>3, <2>2 DEF Belongs, Present
  <2> QED
    BY <2>1, <2>2
<1>c. container' \in [Nodes -> Kept \cup {None}] /\ tp \in 0..NumNodes /\ tp \in Int
  BY <1>1, <1>2, ZeroIsNode DEF IInv, Sound
<1>d. NumNodes \in Nat /\ Nodes = 0..NumNodes-1 /\ next \in Int
  BY <1>1, ZeroIsNode DEF Nodes
<1>5. CASE pc = "workers" /\ next + 1 < tp
  <2>1. pc' = pc /\ next' = next + 1 /\ result' = result /\ next \in 1..tp-1 /\ tp \in 1..NumNodes
    BY <1>5, ZeroIsNode DEF IInv, Sound, Progress, Started, Go
  <2>2. next' \in Nodes
    BY <2>1, <1>5, <1>d
  <2>3. Sound'
    BY <2>1, <2>2, <1>c, <1>2 DEF IInv, Sound
  <2>4. \A n \in 1..next'-1 : Belongs(n)'
    <3> SUFFICES ASSUME NEW n \in 1..next'-1 PROVE Belongs(n)'
      OBVIOUS
    <3>1. n \in Nodes /\ (n = m \/ n \in 1..next-1)
      BY <2>1, <2>2, <1>d, <1>0
    <3> QED
      BY <3>1, <1>4, <1>5 DEF IInv, Progress
  <2>5. result' # "launched" /\ next' \in 1..tp'-1
    BY <2>1, <1>5, <1>c, <1>d, <1>2 DEF IInv, Progress
  <2>6. Progress'
    BY <2>1, <2>4, <2>5, <1>5 DEF Progress
  <2> QED
    BY <2>3, <2>6 DEF IInv
<1>6. CASE pc = "workers" /\ ~(next + 1 < tp)
  <2>1. pc' = "head" /\ next' = 0 /\ result' = result /\ next = tp - 1 /\ tp \in 2..NumNodes
    BY <1>6, ZeroIsNode DEF IInv, Sound, Progress, Started, Go
  <2>2. Sound'
    BY <2>1, <1>c, <1>2, ZeroIsNode DEF IInv, Sound
  <2>3. \A n \in 1..tp'-1 : Belongs(n)'
    <3> SUFFICES ASSUME NEW n \in 1..tp'-1 PROVE Belongs(n)'
      OBVIOUS
    <3>1. n \in Nodes /\ (n = m \/ n \in 1..next-1)
      BY <2>1, <1>2, <1>d, <1>0
    <3> QED
      BY <3>1, <1>4, <1>6 DEF IInv, Progress
  <2>4. result' # "launched" /\ tp' >= 1
    BY <2>1, <1>6, <1>2 DEF IInv, Progress
  <2>5. Progress'
    BY <2>1, <2>3, <2>4 DEF Progress
  <2> QED
    BY <2>2, <2>5 DEF IInv
<1>7. CASE pc = "head"
  <2>1. pc' = "idle" /\ next' = next /\ result' = "launched" /\ next = 0
    BY <1>7 DEF IInv, Progress, Started, Go
  <2>2. Sound'
    BY <2>1, <1>1, <1>2 DEF IInv, Sound
  <2>3. \A n \in 0..tp-1 : Belongs(n)'
    <3> SUFFICES ASSUME NEW n \in 0..tp-1 PROVE Belongs(n)'
      OBVIOUS
    <3>1. n \in Nodes /\ (n = m \/ n \in 1..tp-1)
      BY <2>1, <1>c, <1>d, <1>0
    <3> QED
      BY <3>1, <1>4, <1>7 DEF IInv, Progress
  <2> QED
    BY <2>1, <2>2, <2>3, <1>2 DEF IInv, Progress
<1> QED
  BY <1>5, <1>6, <1>7 DEF Started, Starting

(* The four ways a start fails: the node may have changed, the command is  *)
(* over.                                                                   *)
LEMMA FailedStep ==
  ASSUME IInv, Starting, Fail, UNCHANGED file,
         container' = container \/ \E c \in Kept \cup {None} : container' = [container EXCEPT ![next] = c]
  PROVE  IInv'
<1>1. Sound'
  BY DEF IInv, Sound, Fail
<1>2. pc' = "idle" /\ result' = "failed"
  BY DEF Fail
<1> QED
  BY <1>1, <1>2 DEF IInv, Progress

LEMMA StopStep ==
  ASSUME IInv, BeginStop \/ StopNode
  PROVE  IInv'
<1>1. CASE BeginStop
  <2>1. 1 % NumNodes \in Nodes
    BY ZeroIsNode DEF Nodes
  <2>2. Sound'
    BY <1>1, <2>1, ZeroIsNode DEF IInv, Sound, BeginStop
  <2> QED
    BY <1>1, <2>2 DEF IInv, Progress, BeginStop
<1>2. CASE StopNode
  <2>1. (next + 1) % NumNodes \in Nodes
    BY ZeroIsNode DEF IInv, Sound, Nodes
  <2>2. container' \in [Nodes -> Kept \cup {None}]
    BY <1>2 DEF IInv, Sound, StopNode, Removed, NotRemoved
  <2>3. Sound'
    BY <1>2, <2>1, <2>2 DEF IInv, Sound, StopNode
  <2>4. result' # "launched" /\ pc' \notin {"workers", "head"}
    BY <1>2 DEF IInv, Progress, StopNode
  <2> QED
    BY <2>3, <2>4 DEF IInv, Progress
<1> QED
  BY <1>1, <1>2

LEMMA BeginStep ==
  ASSUME IInv, NEW ranks \in 1..3, NEW knobs \in SUBSET Knobs, Begin(ranks, knobs)
  PROVE  IInv'
<1>1. Sound'
  BY ZeroIsNode DEF IInv, Sound, Begin, Nodes
<1>2. Progress'
  BY DEF IInv, Sound, Progress, Begin
<1> QED
  BY <1>1, <1>2 DEF IInv

LEMMA ExitStep ==
  ASSUME IInv, NEW n \in Nodes, Exit(n)
  PROVE  IInv'
<1>1. container[n] \in Kept
  BY DEF IInv, Sound, Exit, Up, None
<1>2. container' = [container EXCEPT ![n] = [container[n] EXCEPT !.state = "exited"]]
  BY DEF Exit
<1>3. [container[n] EXCEPT !.state = "exited"] \in Kept
  BY <1>1 DEF Kept
<1>4. Sound'
  BY <1>2, <1>3 DEF IInv, Sound, Exit, command
<1>5. \A m \in Nodes : Belongs(m) => Belongs(m)'
  <2> SUFFICES ASSUME NEW m \in Nodes, Belongs(m) PROVE Belongs(m)'
    OBVIOUS
  <2>1. run' = run
    BY DEF Exit, command
  <2>2. CASE m = n
    BY <2>1, <2>2, <1>1, <1>2 DEF Belongs, Present, Kept, IInv, Sound
  <2>3. CASE m # n
    BY <2>1, <2>3, <1>2 DEF Belongs, Present, IInv, Sound
  <2> QED
    BY <2>2, <2>3
<1>6. UNCHANGED command /\ 0..tp-1 \subseteq Nodes /\ 1..tp-1 \subseteq Nodes
      /\ (pc = "workers" => 1..next-1 \subseteq Nodes)
  BY ZeroIsNode DEF IInv, Sound, Exit, Nodes
<1>7. Progress'
  BY <1>5, <1>6 DEF IInv, Progress, command
<1> QED
  BY <1>4, <1>7 DEF IInv

THEOREM NextIInv == IInv /\ [Next]_vars => IInv'
<1> SUFFICES ASSUME IInv, [Next]_vars PROVE IInv'
  OBVIOUS
<1>1. ASSUME NEW ranks \in 1..3, NEW knobs \in SUBSET Knobs, Begin(ranks, knobs) PROVE IInv'
  BY <1>1, BeginStep
<1>2. CASE Unreached
  BY <1>2, FailedStep DEF Unreached
<1>3. CASE Refused
  BY <1>3, FailedStep DEF Refused
<1>4. CASE NotRun
  BY <1>4, FailedStep DEF NotRun
<1>5. CASE Started
  BY <1>5, StartedStep
<1>6. ASSUME NEW state \in {"up", "exited"}, StartedNotSeen(state) PROVE IInv'
  <2>1. Rank(next, state) \in Kept
    BY RankIsKept DEF IInv, Sound
  <2> QED
    BY <1>6, <2>1, FailedStep DEF StartedNotSeen
<1>7. CASE BeginStop \/ StopNode
  BY <1>7, StopStep
<1>8. ASSUME NEW n \in Nodes, Exit(n) PROVE IInv'
  BY <1>8, ExitStep
<1>9. ASSUME NEW n \in Workers, Lose(n) \/ Return(n) PROVE IInv'
  BY <1>9 DEF Lose, Return, command, IInv, Sound, Progress, Belongs, Present
<1>10. CASE UNCHANGED vars
  BY <1>10 DEF vars, command, IInv, Sound, Progress, Belongs, Present
<1> QED
  BY <1>1, <1>2, <1>3, <1>4, <1>5, <1>6, <1>7, <1>8, <1>9, <1>10 DEF Next

THEOREM Invariance == Spec => []IInv
<1> QED
  BY InitIInv, NextIInv, PTL DEF Spec

-----------------------------------------------------------------------------
(* A launch that reports success has started all its ranks itself.         *)
THEOREM LaunchedIsWhole == Spec => []LaunchIsWhole
<1>1. IInv => LaunchIsWhole
  BY DEF IInv, Progress, LaunchIsWhole
<1> QED
  BY <1>1, Invariance, PTL

(* The head's container is replaced only after every worker's.             *)
THEOREM HeadIsLast == Spec => HeadComesLast
<1> DEFINE Replaced == container'[0].state = "up" /\ container'[0] # container[0]
                         => \A n \in 1..tp-1 : Belongs(n)
<1>1. IInv /\ [Next]_vars => [Replaced]_vars
  <2> SUFFICES ASSUME IInv, Next, container'[0].state = "up", container'[0] # container[0],
                      NEW n \in 1..tp-1
               PROVE  Belongs(n)
    BY DEF vars
  <2>0. 0 \in Nodes /\ container \in [Nodes -> Kept \cup {None}]
    BY ZeroIsNode DEF IInv, Sound
  <2>1. CASE Started
    BY <2>0, <2>1 DEF Started, Starting, IInv, Progress
  <2>2. ASSUME NEW state \in {"up", "exited"}, StartedNotSeen(state) PROVE Belongs(n)
    <3>1. CASE state = "up"
      BY <2>0, <2>2, <3>1 DEF StartedNotSeen, IInv, Progress
    <3>2. CASE state = "exited" /\ next = 0
      <4>1. container'[0] = Rank(next, state)
        BY <2>0, <2>2, <3>2 DEF StartedNotSeen
      <4> QED
        BY <4>1, <3>2 DEF Rank
    <3>3. CASE next # 0
      BY <2>0, <2>2, <3>3 DEF StartedNotSeen
    <3> QED
      BY <3>1, <3>2, <3>3
  <2>3. CASE NotRun
    BY <2>0, <2>3 DEF NotRun, None
  <2>4. CASE StopNode
    BY <2>0, <2>4 DEF StopNode, Removed, NotRemoved, None
  <2>5. ASSUME NEW m \in Nodes, Exit(m) PROVE Belongs(n)
    <3>1. container[m] \in Kept
      BY <2>0, <2>5 DEF Exit, Up, None
    <3> QED
      BY <2>0, <2>5, <3>1 DEF Exit, Kept
  <2> QED
    BY <2>1, <2>2, <2>3, <2>4, <2>5
    DEF Next, Begin, Unreached, Refused, BeginStop, Lose, Return
<1> QED
  BY <1>1, Invariance, PTL DEF Spec, HeadComesLast

-----------------------------------------------------------------------------
(* The settings of a launch: every container of the command was started    *)
(* with the forwarded settings the head has, and none is of a later one.   *)
AsHead(config, k) == IF HeadConfig[k] = Unset THEN config[k] # Override ELSE config[k] = HeadConfig[k]

AgreeInv ==
  /\ \A n \in Nodes : Present(n) => container[n].run <= run
  /\ \A n \in Nodes : Belongs(n) => \A k \in Forwarded : AsHead(container[n].config, k)
  /\ ForwardedAgree

(* A step that starts no command and changes no container but by starting  *)
(* the command's rank on it, removing it or letting it exit.               *)
LEMMA AgreeStep ==
  ASSUME IInv, AgreeInv, UNCHANGED <<file, run, env, tp>>, NEW m \in Nodes, NEW c,
         container' = [container EXCEPT ![m] = c],
         \/ c = None
         \/ c \in {Rank(m, "up"), Rank(m, "exited")}
         \/ Present(m) /\ c.run = container[m].run /\ c.config = container[m].config
  PROVE  AgreeInv'
<1>1. container'[m] = c /\ \A n \in Nodes : n # m => container'[n] = container[n]
  BY DEF IInv, Sound
<1>2. HeadConfig' = HeadConfig
  BY DEF HeadConfig
<1>3. \A k \in Forwarded : AsHead(RankConfig(m), k)
  <2> SUFFICES ASSUME NEW k \in Forwarded PROVE AsHead(RankConfig(m), k)
    OBVIOUS
  <2>1. k \in Knobs /\ file[m][k] # Override
    BY LaunchAssumption DEF IInv, Sound, Default, Outdated, Unset, Override
  <2>2. RankConfig(m)[k] = IF m # 0 /\ HeadConfig[k] = Unset THEN file[m][k] ELSE HeadConfig[k]
    BY <2>1 DEF RankConfig
  <2>3. Unset # Override
    BY DEF Unset, Override
  <2> QED
    BY <2>1, <2>2, <2>3 DEF AsHead
<1>4. \A n \in Nodes : Present(n)' =>
        \/ container'[n].run = run /\ \A k \in Forwarded : AsHead(container'[n].config, k)
        \/ /\ Present(n) /\ container'[n].run = container[n].run
           /\ container'[n].config = container[n].config
  <2> SUFFICES ASSUME NEW n \in Nodes, Present(n)'
               PROVE  \/ container'[n].run = run /\ \A k \in Forwarded : AsHead(container'[n].config, k)
                      \/ /\ Present(n) /\ container'[n].run = container[n].run
                         /\ container'[n].config = container[n].config
    OBVIOUS
  <2>1. CASE n # m
    BY <1>1, <2>1 DEF Present
  <2>2. CASE n = m /\ c = None
    BY <1>1, <2>2 DEF Present, None
  <2>3. CASE n = m /\ c \in {Rank(m, "up"), Rank(m, "exited")}
    BY <1>1, <1>3, <2>3 DEF Rank
  <2>4. CASE n = m /\ Present(m) /\ c.run = container[m].run /\ c.config = container[m].config
    BY <1>1, <2>4
  <2> QED
    BY <2>1, <2>2, <2>3, <2>4
<1>5. run \in Nat /\ run' = run
  BY DEF IInv, Sound
<1>6. \A n \in Nodes : Present(n)' => container'[n].run <= run'
  BY <1>4, <1>5 DEF AgreeInv
<1>7. \A n \in Nodes : Belongs(n)' => \A k \in Forwarded : AsHead(container'[n].config, k)
  BY <1>4, <1>5 DEF AgreeInv, Belongs
<1>8. ForwardedAgree'
  <2> SUFFICES ASSUME NEW i \in Nodes, NEW j \in Nodes, Present(i)', Present(j)',
                      container'[i].run = container'[j].run, NEW k \in Forwarded
               PROVE  \/ container'[i].config[k] = container'[j].config[k]
                      \/ file'[0][k] = Unset /\ Override \notin {container'[i].config[k], container'[j].config[k]}
    BY DEF ForwardedAgree
  <2>1. CASE container'[i].run = run
    <3>1. AsHead(container'[i].config, k) /\ AsHead(container'[j].config, k)
      BY <1>5, <1>7, <2>1 DEF Belongs
    <3>2. HeadConfig[k] = Unset => file'[0][k] = Unset
      BY LaunchAssumption DEF HeadConfig, Unset, Override
    <3> QED
      BY <3>1, <3>2 DEF AsHead
  <2>2. CASE container'[i].run # run
    BY <1>4, <2>2 DEF AgreeInv, ForwardedAgree
  <2> QED
    BY <2>1, <2>2
<1> QED
  BY <1>2, <1>6, <1>7, <1>8 DEF AgreeInv, AsHead

THEOREM NextAgreeInv == IInv /\ AgreeInv /\ [Next]_vars => AgreeInv'
<1> SUFFICES ASSUME IInv, AgreeInv, [Next]_vars PROVE AgreeInv'
  OBVIOUS
<1>0. next \in Nodes /\ container \in [Nodes -> Kept \cup {None}] /\ run \in Nat
  BY DEF IInv, Sound
<1>1. ASSUME run' = run + 1, UNCHANGED <<container, file>> PROVE AgreeInv'
  <2>1. \A n \in Nodes : Present(n) => container[n].run \in Nat
    BY <1>0 DEF Present, Kept, None
  <2>2. \A n \in Nodes : Present(n)' => container'[n].run <= run' /\ ~Belongs(n)'
    BY <1>0, <1>1, <2>1 DEF AgreeInv, Present, Belongs
  <2>3. ForwardedAgree'
    BY <1>1 DEF AgreeInv, ForwardedAgree, Present
  <2> QED
    BY <2>2, <2>3 DEF AgreeInv, Belongs
<1>2. ASSUME UNCHANGED <<container, file, run, env>> PROVE AgreeInv'
  BY <1>2 DEF AgreeInv, ForwardedAgree, Belongs, Present, AsHead, HeadConfig
<1>3. CASE NotRun
  BY <1>0, <1>3, AgreeStep DEF NotRun, Fail
<1>4. CASE Started
  BY <1>0, <1>4, AgreeStep DEF Started, Go
<1>5. ASSUME NEW state \in {"up", "exited"}, StartedNotSeen(state) PROVE AgreeInv'
  BY <1>0, <1>5, AgreeStep DEF StartedNotSeen, Fail
<1>6. CASE StopNode
  <2>1. CASE Removed
    BY <1>0, <1>6, <2>1, AgreeStep DEF StopNode, Removed
  <2>2. CASE NotRemoved
    BY <1>2, <1>6, <2>2 DEF StopNode, NotRemoved
  <2> QED
    BY <1>6, <2>1, <2>2 DEF StopNode
<1>7. ASSUME NEW n \in Nodes, Exit(n) PROVE AgreeInv'
  <2> DEFINE c == [container[n] EXCEPT !.state = "exited"]
  <2>1. container[n] \in Kept /\ Present(n)
    BY <1>0, <1>7 DEF Exit, Up, None, Present
  <2>2. container' = [container EXCEPT ![n] = c] /\ c.run = container[n].run /\ c.config = container[n].config
    BY <1>7, <2>1 DEF Exit, Kept
  <2>3. UNCHANGED <<file, run, env, tp>>
    BY <1>7 DEF Exit, command
  <2> HIDE DEF c
  <2> QED
    BY <2>1, <2>2, <2>3, AgreeStep
<1> QED
  BY <1>1, <1>2, <1>3, <1>4, <1>5, <1>6, <1>7
  DEF Next, Begin, BeginStop, Unreached, Refused, Fail, Lose, Return, command, vars

(* The ranks of one launch always agree on the forwarded settings that are *)
(* set at the head.                                                        *)
THEOREM RanksAgree == Spec => []ForwardedAgree
<1>1. Init => AgreeInv
  BY DEF Init, AgreeInv, ForwardedAgree, Belongs, Present, None
<1>2. AgreeInv => ForwardedAgree
  BY DEF AgreeInv
<1> QED
  BY <1>1, <1>2, NextAgreeInv, Invariance, PTL DEF Spec

-----------------------------------------------------------------------------
(* A stop, at a worker, has removed or missed all before it; at the head,  *)
(* all workers.                                                            *)
Passed == IF next = 0 THEN Workers ELSE 1..next-1

StopInv ==
  /\ pc # "idle" => result = "none"
  /\ pc = "stopping" => \A n \in Passed : ~Present(n) \/ n \in missed
  /\ StopMissesOnlyFailed

THEOREM NextStopInv == IInv /\ StopInv /\ [Next]_vars => StopInv'
<1> SUFFICES ASSUME IInv, StopInv, [Next]_vars PROVE StopInv'
  OBVIOUS
<1>0. /\ next \in Nodes /\ container \in [Nodes -> Kept \cup {None}]
      /\ Nodes = 0..NumNodes-1 /\ Workers = 1..NumNodes-1 /\ NumNodes \in Nat \ {0}
  BY ZeroIsNode DEF IInv, Sound, Nodes
<1>1. ASSUME Starting, Fail \/ Go PROVE StopInv'
  <2>1. result' # "stopped" /\ pc' # "stopping" /\ (pc' # "idle" => result' = "none")
    BY <1>1 DEF Starting, Fail, Go, StopInv
  <2> QED
    BY <2>1 DEF StopInv, StopMissesOnlyFailed
<1>2. ASSUME NEW ranks \in 1..3, NEW knobs \in SUBSET Knobs, Begin(ranks, knobs) PROVE StopInv'
  BY <1>2 DEF Begin, StopInv, StopMissesOnlyFailed
<1>3. CASE BeginStop
  <2>1. next' = 1 % NumNodes /\ result' = "none" /\ pc' = "stopping"
    BY <1>3 DEF BeginStop
  <2>2. Passed' = {}
    <3>1. CASE NumNodes = 1
      BY <2>1, <1>0, <3>1 DEF Passed
    <3>2. CASE NumNodes # 1
      BY <2>1, <1>0, <3>2 DEF Passed
    <3> QED
      BY <3>1, <3>2
  <2> QED
    BY <2>1, <2>2 DEF StopInv, StopMissesOnlyFailed
<1>4. CASE StopNode
  <2>0. PICK m : m = next
    OBVIOUS
  <2>1. ~Present(m)' \/ m \in missed'
    BY <1>0, <1>4, <2>0 DEF StopNode, Removed, NotRemoved, Present, None
  <2>2. missed \subseteq missed' /\ \A n \in Nodes : ~Present(n) => ~Present(n)'
    BY <1>0, <1>4 DEF StopNode, Removed, NotRemoved, Present, None
  <2>3. \A n \in Passed : ~Present(n)' \/ n \in missed'
    BY <1>0, <1>4, <2>2 DEF StopNode, StopInv, Passed
  <2>4. CASE next = 0
    <3>1. pc' = "idle" /\ \A n \in Nodes : n = m \/ n \in Passed
      BY <1>0, <1>4, <2>0, <2>4 DEF StopNode, Passed
    <3> QED
      BY <3>1, <2>1, <2>3 DEF StopInv, StopMissesOnlyFailed
  <2>5. CASE next # 0
    <3>1. pc' = pc /\ pc = "stopping" /\ result' = result /\ next' = (next + 1) % NumNodes
      BY <1>4, <2>5 DEF StopNode
    <3>2. \A n \in Passed' : n = m \/ n \in Passed
      <4>1. CASE next = NumNodes - 1
        BY <1>0, <2>0, <2>5, <3>1, <4>1 DEF Passed
      <4>2. CASE next # NumNodes - 1
        BY <1>0, <2>0, <2>5, <3>1, <4>2 DEF Passed
      <4> QED
        BY <4>1, <4>2
    <3> QED
      BY <3>1, <3>2, <2>1, <2>3 DEF StopInv, StopMissesOnlyFailed
  <2> QED
    BY <2>4, <2>5
<1>5. ASSUME NEW n \in Nodes, Exit(n) PROVE StopInv'
  <2>1. \A i \in Nodes : ~Present(i) => ~Present(i)'
    BY <1>0, <1>5 DEF Exit, Up, Present
  <2>2. UNCHANGED command /\ Passed \subseteq Nodes
    BY <1>0, <1>5 DEF Exit, Passed
  <2> QED
    BY <2>1, <2>2 DEF StopInv, StopMissesOnlyFailed, Passed, command
<1>6. ASSUME UNCHANGED <<container, command>> PROVE StopInv'
  BY <1>6 DEF StopInv, StopMissesOnlyFailed, Passed, Present, command
<1> QED
  BY <1>1, <1>2, <1>3, <1>4, <1>5, <1>6
  DEF Next, Unreached, Refused, NotRun, Started, StartedNotSeen, Lose, Return, vars, command

(* A stop leaves a container only on a node where ssh or docker failed.    *)
THEOREM StopReachesTheRest == Spec => []StopMissesOnlyFailed
<1>1. Init => StopInv
  BY DEF Init, StopInv, StopMissesOnlyFailed
<1>2. StopInv => StopMissesOnlyFailed
  BY DEF StopInv
<1> QED
  BY <1>1, <1>2, NextStopInv, Invariance, PTL DEF Spec


-----------------------------------------------------------------------------
(* The fabric.  What topology.py plans is SoundLinks: its new addresses    *)
(* are in subnets no port has, two by two; a port that later has a subnet  *)
(* that was given has the very address it was given (GiftsKept).  It is    *)
(* Planned: a link for each chosen cable, and an address for either end    *)
(* where they share no subnet; until all are set, each chosen cable is     *)
(* joined or will be (OnCourse).                                           *)

-----------------------------------------------------------------------------
(* A set of naturals has a least member.                                   *)
LEMMA LeastExists ==
  ASSUME NEW T \in SUBSET Nat, T # {}
  PROVE  \E x \in T : \A y \in T : x <= y
<1> DEFINE R == {ss \in Nat \X Nat : ss[1] < ss[2]}
<1>1. IsWellFoundedOn(R, Nat)
  BY NatLessThanWellFounded DEF OpToRel
<1>2. \A a, b \in Nat : a < b => <<a, b>> \in R
  OBVIOUS
<1> HIDE DEF R
<1>3. PICK x \in T : \A y \in T : <<y, x>> \notin R
  BY <1>1, WFMin
<1>4. \A y \in T : ~(y < x)
  BY <1>2, <1>3
<1> QED
  BY <1>4

(* The number topology.py goes up to is in no use.                         *)
LEMMA ThirdIsFree ==
  ASSUME NEW k \in 1..3, NEW taken \in SUBSET Nat, IsFiniteSet(taken)
  PROVE  Third(k, taken) \in Nat \ taken /\ Third(k, taken) >= 20
<1> DEFINE from == 20 + 2 * (k - 1)
           upto == from + Cardinality(taken)
           free == (from..upto) \ taken
<1>1. from \in Nat /\ from >= 20 OBVIOUS
<1>2. Cardinality(taken) \in Nat BY FS_CardinalityType
<1>3. free # {}
  <2>1. SUFFICES ASSUME from..upto \subseteq taken PROVE FALSE OBVIOUS
  <2>2. Cardinality(from..upto) <= Cardinality(taken)
    BY <2>1, FS_Subset
  <2>3. Cardinality(from..upto) = Cardinality(taken) + 1
    BY <1>1, <1>2, FS_Interval
  <2> QED BY <2>2, <2>3, <1>2
<1>4. PICK n \in free : \A m \in free : n <= m
  <2>1. free \in SUBSET Nat BY <1>1, <1>2
  <2> QED BY <2>1, <1>3, LeastExists
<1>5. /\ n \in from..upto /\ n \notin taken
      /\ \A m \in from..n-1 : m \in taken
  BY <1>1, <1>2, <1>4
<1>6. Third(k, taken) \in from..upto /\ Third(k, taken) \notin taken
  BY <1>5 DEF Third
<1> QED BY <1>1, <1>2, <1>6
-----------------------------------------------------------------------------
Gift == AllPorts \X Address

(* Only the two ends of a cable are given one subnet.                      *)
Apart(gifts) ==
  \A i, j \in DOMAIN gifts :
    gifts[i][2].net = gifts[j][2].net => (i + 1) \div 2 = (j + 1) \div 2

(* A link is as its ends are, or the far end has not got its address.      *)
TrueOrUnset(l) == (addr[l.a] = l.ipa /\ addr[l.b] = l.ipb) \/ addr[l.b] # l.ipb

SoundLinks(made) ==
  /\ made = [links |-> made.links, assign |-> made.assign, taken |-> made.taken]
  /\ made.taken \in SUBSET Nat /\ IsFiniteSet(made.taken) /\ NetsInUse \subseteq made.taken
  /\ made.assign \in Seq(Gift) /\ (\E h \in Nat : Len(made.assign) = 2 * h)
  /\ \A i \in DOMAIN made.assign :
       /\ made.assign[i][2].net \in made.taken \ NetsInUse
       /\ made.assign[i][2].net >= 20
  /\ Apart(made.assign)
  /\ \A l \in made.links : TrueOrUnset(l)

(* The subnets in use are finitely many numbers.                           *)
LEMMA NetsFinite ==
  ASSUME FabricAssumption, addr \in [AllPorts -> Address]
  PROVE  NetsInUse \in SUBSET Nat /\ IsFiniteSet(NetsInUse)
<1> DEFINE used == {p \in AllPorts : addr[p] # NoAddr}
           net  == [p \in used |-> addr[p].net]
<1>1. IsFiniteSet(0..2) /\ IsFiniteSet(0..NumPorts-1)
  <2>1. NumPorts - 1 \in Int
    BY DEF FabricAssumption
  <2>2. 0 \in Int /\ 2 \in Int
    OBVIOUS
  <2> QED BY <2>1, <2>2, FS_Interval
<1>2. IsFiniteSet(AllPorts)
  BY <1>1, FS_Product DEF AllPorts
<1>3. IsFiniteSet(used)
  BY <1>2, FS_Subset
<1>4. net \in Surjection(used, NetsInUse)
  BY DEF Surjection, NetsInUse
<1>5. IsFiniteSet(NetsInUse)
  BY <1>3, <1>4, FS_Surjection
<1> QED
  BY <1>5 DEF NetsInUse, Address

(* A sequence with two more members.                                       *)
LEMMA TwoMore ==
  ASSUME NEW S, NEW s \in Seq(S), NEW x \in S, NEW y \in S, NEW t, t = s \o <<x, y>>
  PROVE  /\ t \in Seq(S) /\ Len(s) \in Nat /\ Len(t) = Len(s) + 2
         /\ \A i \in 1..Len(s) : t[i] = s[i]
         /\ t[Len(s)+1] = x /\ t[Len(s)+2] = y
         /\ DOMAIN t = 1..Len(s)+2 /\ DOMAIN s = 1..Len(s)
  OBVIOUS

(* One more link leaves the plan sound.                                    *)
LEMMA WithLinkSound ==
  ASSUME addr \in [AllPorts -> Address], NEW before, SoundLinks(before),
         NEW k \in 1..3, NEW c \in AllPorts \X AllPorts
  PROVE  SoundLinks(WithLink(before, k, c))
<1> DEFINE a    == c[1]
           b    == c[2]
           net  == Third(k, before.taken)
           ipa  == [net |-> net, host |-> a[1] + 1]
           ipb  == [net |-> net, host |-> b[1] + 1]
           made == WithLink(before, k, c)
<1>1. a \in AllPorts /\ b \in AllPorts
  OBVIOUS
<1>2. CASE SameSubnet(addr[a], addr[b])
  <2>1. made = [before EXCEPT !.links = @ \union {Link(k, a, b, addr[a], addr[b])}]
    BY <1>2 DEF WithLink
  <2>2. /\ made.taken = before.taken /\ made.assign = before.assign
        /\ made.links = before.links \union {Link(k, a, b, addr[a], addr[b])}
        /\ made = [links |-> made.links, assign |-> made.assign, taken |-> made.taken]
    BY <2>1 DEF SoundLinks
  <2>3. TrueOrUnset(Link(k, a, b, addr[a], addr[b]))
    BY DEF TrueOrUnset, Link
  <2> HIDE DEF made
  <2>4. SoundLinks(made)
    BY <2>2, <2>3 DEF SoundLinks
  <2> QED
    BY <2>4 DEF made
<1>3. CASE ~SameSubnet(addr[a], addr[b])
  <2>1. made = [links  |-> before.links \union {Link(k, a, b, ipa, ipb)},
                assign |-> before.assign \o << <<a, ipa>>, <<b, ipb>> >>,
                taken  |-> Taken(before.taken, net)]
    BY <1>3 DEF WithLink
  <2>2. /\ made.taken = before.taken \union {net}
        /\ made.assign = before.assign \o << <<a, ipa>>, <<b, ipb>> >>
        /\ made.links = before.links \union {Link(k, a, b, ipa, ipb)}
        /\ made = [links |-> made.links, assign |-> made.assign, taken |-> made.taken]
    BY <2>1 DEF Taken
  <2>3. net \in Nat /\ net \notin before.taken /\ net >= 20
    BY ThirdIsFree DEF SoundLinks
  <2> HIDE DEF made, net
  <2>4. /\ made.taken \in SUBSET Nat /\ IsFiniteSet(made.taken) /\ NetsInUse \subseteq made.taken
    BY <2>2, <2>3, FS_AddElement DEF SoundLinks
  <2>5. <<a, ipa>> \in Gift /\ <<b, ipb>> \in Gift
    BY <1>1, <2>3 DEF Gift, Address, AllPorts
  <2> DEFINE n == Len(before.assign)
  <2>6. /\ made.assign \in Seq(Gift) /\ n \in Nat /\ Len(made.assign) = n + 2
        /\ \A i \in 1..n : made.assign[i] = before.assign[i]
        /\ made.assign[n+1] = <<a, ipa>> /\ made.assign[n+2] = <<b, ipb>>
        /\ DOMAIN made.assign = 1..n+2 /\ DOMAIN before.assign = 1..n
    <3>1. before.assign \in Seq(Gift)
      BY DEF SoundLinks
    <3> DEFINE x == <<a, ipa>>
               y == <<b, ipb>>
    <3>2. x \in Gift /\ y \in Gift /\ made.assign = before.assign \o <<x, y>>
      BY <2>2, <2>5
    <3> HIDE DEF x, y
    <3>3. /\ made.assign \in Seq(Gift) /\ n \in Nat /\ Len(made.assign) = n + 2
          /\ \A i \in 1..n : made.assign[i] = before.assign[i]
          /\ made.assign[n+1] = x /\ made.assign[n+2] = y
          /\ DOMAIN made.assign = 1..n+2 /\ DOMAIN before.assign = 1..n
      BY <3>1, <3>2, TwoMore
    <3> QED BY <3>3 DEF x, y
  <2>7. \A i \in 1..n : before.assign[i][2].net \in before.taken \ NetsInUse /\ before.assign[i][2].net >= 20
    BY <2>6 DEF SoundLinks
  <2>8. /\ made.assign[n+1][2].net = net /\ made.assign[n+2][2].net = net
    BY <2>6
  <2>9. net \notin NetsInUse
    BY <2>3 DEF SoundLinks
  <2>10. \A i \in DOMAIN made.assign :
           /\ made.assign[i][2].net \in made.taken \ NetsInUse
           /\ made.assign[i][2].net >= 20
    <3> SUFFICES ASSUME NEW i \in 1..n+2
                 PROVE  /\ made.assign[i][2].net \in made.taken \ NetsInUse
                        /\ made.assign[i][2].net >= 20
      BY <2>6
    <3>1. CASE i \in 1..n
      BY <3>1, <2>2, <2>6, <2>7
    <3>2. CASE i \in {n+1, n+2}
      BY <3>2, <2>2, <2>3, <2>8, <2>9
    <3> QED BY <3>1, <3>2, <2>6
  <2>11. Apart(made.assign)
    <3>1. PICK h \in Nat : n = 2 * h
      BY DEF SoundLinks
    <3>2. (n + 1 + 1) \div 2 = h + 1 /\ (n + 2 + 1) \div 2 = h + 1
      BY <3>1
    <3>3. Apart(before.assign)
      BY DEF SoundLinks
    <3>4. \A i, j \in 1..n : made.assign[i][2].net = made.assign[j][2].net
                              => (i + 1) \div 2 = (j + 1) \div 2
      BY <3>3, <2>6, Zenon DEF Apart
    <3>5. \A i \in 1..n : made.assign[i][2].net # net
      BY <2>3, <2>6, <2>7, ZenonT(60)
    <3> SUFFICES ASSUME NEW i \in 1..n+2, NEW j \in 1..n+2,
                        made.assign[i][2].net = made.assign[j][2].net
                 PROVE  (i + 1) \div 2 = (j + 1) \div 2
      BY <2>6, Zenon DEF Apart
    <3>6. /\ i \in 1..n \/ i = n + 1 \/ i = n + 2
          /\ j \in 1..n \/ j = n + 1 \/ j = n + 2
      <4>1. n \in Nat
        BY <2>6
      <4> HIDE DEF n
      <4> QED BY <4>1
    <3>7. CASE i \in 1..n /\ j \in 1..n
      BY <3>4, <3>7, Zenon
    <3>8. CASE i \notin 1..n /\ j \notin 1..n
      BY <3>2, <3>6, <3>8, Zenon
    <3>9. CASE i \in 1..n /\ j \notin 1..n
      BY <3>5, <3>6, <3>9, <2>8, Zenon
    <3>10. CASE i \notin 1..n /\ j \in 1..n
      BY <3>5, <3>6, <3>10, <2>8, Zenon
    <3> QED BY <3>7, <3>8, <3>9, <3>10, Zenon
  <2>12. TrueOrUnset(Link(k, a, b, ipa, ipb))
    <3>1. addr[b] # ipb
      <4>1. SUFFICES ASSUME addr[b] = ipb PROVE FALSE OBVIOUS
      <4>2. addr[b] # NoAddr /\ addr[b].net = net
        BY <4>1, <2>3 DEF NoAddr
      <4> QED BY <4>2, <1>1, <2>9 DEF NetsInUse
    <3> QED BY <3>1 DEF TrueOrUnset, Link
  <2>13. \A l \in made.links : TrueOrUnset(l)
    BY <2>2, <2>12 DEF SoundLinks
  <2>14. \E h \in Nat : Len(made.assign) = 2 * h
    <3>1. PICK h \in Nat : n = 2 * h
      BY DEF SoundLinks
    <3>2. n + 2 = 2 * (h + 1) /\ h + 1 \in Nat
      BY <3>1
    <3> QED BY <3>2, <2>6
  <2>15. SoundLinks(made)
    BY <2>2, <2>4, <2>6, <2>10, <2>11, <2>13, <2>14, Zenon DEF SoundLinks
  <2> QED
    BY <2>15 DEF made
<1> QED BY <1>2, <1>3

-----------------------------------------------------------------------------
(* A set of cables that has one has a first.                               *)
LEMMA FirstIsOne ==
  ASSUME NumPorts \in Nat, NEW cands \in SUBSET (AllPorts \X AllPorts), cands # {}
  PROVE  First(cands) \in cands
<1> DEFINE lows  == {c[1][2] : c \in cands}
<1>1. lows \in SUBSET Nat /\ lows # {}
  BY DEF AllPorts
<1>2. PICK low \in lows : \A n \in lows : low <= n
  BY <1>1, LeastExists
<1> DEFINE highs == {c[2][2] : c \in {d \in cands : d[1][2] = low}}
<1>3. highs \in SUBSET Nat /\ highs # {}
  BY <1>2 DEF AllPorts
<1>4. PICK high \in highs : \A n \in highs : high <= n
  BY <1>3, LeastExists
<1>5. PICK c \in cands : c[1][2] = low /\ c[2][2] = high
  BY <1>4
<1>6. \A d \in cands : c[1][2] < d[1][2] \/ (c[1][2] = d[1][2] /\ c[2][2] <= d[2][2])
  <2> SUFFICES ASSUME NEW d \in cands
               PROVE  c[1][2] < d[1][2] \/ (c[1][2] = d[1][2] /\ c[2][2] <= d[2][2])
    OBVIOUS
  <2>1. d[1][2] \in lows /\ low <= d[1][2] /\ low \in Nat /\ d[1][2] \in Nat
    BY <1>1, <1>2
  <2>2. d[1][2] = low => high <= d[2][2]
    BY <1>4
  <2> QED BY <2>1, <2>2, <1>5
<1> QED
  BY <1>6 DEF First

Typed ==
  /\ nodes \in {2, 3}
  /\ cables \in SUBSET (AllPorts \X AllPorts)
  /\ addr \in [AllPorts -> Address]

(* What topology.py makes of the probes: its gifts are apart, in subnets   *)
(* no port has, and its links are true or not yet made.                    *)
SoundPlan(p) ==
  /\ p.assign \in Seq(Gift) /\ Apart(p.assign)
  /\ \A i \in DOMAIN p.assign : p.assign[i][2].net \notin NetsInUse /\ p.assign[i][2].net >= 20
  /\ \A l \in p.links : TrueOrUnset(l)

LEMMA PlanSound ==
  ASSUME FabricAssumption, Typed, NEW heard \in SUBSET cables
  PROVE  SoundPlan(Plan(heard))
<1> DEFINE found  == Found(heard)
           chosen == Chosen(found)
           none   == [links |-> {}, assign |-> <<>>, taken |-> NetsInUse]
           one    == Extended(none, 1, chosen)
           two    == Extended(one, 2, chosen)
           three  == Extended(two, 3, chosen)
<1>1. NumPorts \in Nat
  BY DEF FabricAssumption
<1>2. found \in SUBSET (AllPorts \X AllPorts)
  BY DEF Found, Typed
<1> HIDE DEF found
<1>3. \A k \in DOMAIN chosen : chosen[k] \in AllPorts \X AllPorts
  <2> SUFFICES ASSUME NEW k \in DOMAIN chosen
               PROVE  chosen[k] \in AllPorts \X AllPorts
    OBVIOUS
  <2>1. chosen[k] = First(Cands(found, k)) /\ Cands(found, k) # {}
    BY DEF Chosen
  <2>2. Cands(found, k) \in SUBSET (AllPorts \X AllPorts)
    BY <1>2 DEF Cands
  <2>3. First(Cands(found, k)) \in Cands(found, k)
    BY <1>1, <2>1, <2>2, FirstIsOne
  <2> QED BY <2>1, <2>2, <2>3
<1> HIDE DEF chosen
<1>4. \A made : \A k \in 1..3 : SoundLinks(made) => SoundLinks(Extended(made, k, chosen))
  BY <1>1, <1>3, WithLinkSound DEF Extended, Typed
<1>5. SoundLinks(none)
  <2>1. NetsInUse \in SUBSET Nat /\ IsFiniteSet(NetsInUse)
    BY NetsFinite DEF Typed
  <2>2. none.links = {} /\ none.assign = <<>> /\ none.taken = NetsInUse
    OBVIOUS
  <2>3. none.assign \in Seq(Gift) /\ DOMAIN none.assign = {} /\ Len(none.assign) = 2 * 0
    OBVIOUS
  <2>4. none = [links |-> none.links, assign |-> none.assign, taken |-> none.taken]
    OBVIOUS
  <2> HIDE DEF none
  <2> QED BY <2>1, <2>2, <2>3, <2>4 DEF SoundLinks, Apart
<1>6. SoundLinks(three)
  <2> HIDE DEF none
  <2>1. SoundLinks(one) BY <1>4, <1>5
  <2> HIDE DEF one
  <2>2. SoundLinks(two) BY <1>4, <2>1
  <2> HIDE DEF two
  <2> QED BY <1>4, <2>2
<1>7. Plan(heard).links = three.links /\ Plan(heard).assign = three.assign
  BY DEF Plan, Links, chosen, found
<1> HIDE DEF three
<1> QED
  BY <1>6, <1>7 DEF SoundLinks, SoundPlan

-----------------------------------------------------------------------------
(* A port in a subnet that was given has the very address it was given.    *)
GiftsKept ==
  \A q \in AllPorts : (\E i \in DOMAIN given : given[i][2].net = addr[q].net)
                        => \E j \in DOMAIN given : given[j] = <<q, addr[q]>>

FabricInv ==
  /\ Typed
  /\ given \in Seq(Gift) /\ Apart(given)
  /\ \A i \in DOMAIN given : given[i][2].net >= 20
  /\ GiftsKept
  /\ todo \in Seq(Gift)
  /\ \A i \in DOMAIN todo : \E j \in DOMAIN given : given[j] = todo[i]
  /\ step \in {"detect", "ask", "configure", "ping", "done"}
  /\ step = "ask" => SoundPlan(plan)
  /\ step = "ping" /\ fails = {} => \A l \in plan.links : TrueOrUnset(l)
  /\ LinksAreReal

LEMMA InitFabricInv ==
  ASSUME FabricAssumption, InitFabric
  PROVE  FabricInv
<1>1. Typed
  BY DEF InitFabric, FabricAssumption, Typed
<1>2. given = <<>> /\ todo = <<>> /\ DOMAIN given = {} /\ DOMAIN todo = {}
  BY DEF InitFabric
<1>3. given \in Seq(Gift) /\ todo \in Seq(Gift)
  BY <1>2
<1>4. step = "detect"
  BY DEF InitFabric
<1> QED
  BY <1>1, <1>2, <1>3, <1>4 DEF FabricInv, Apart, GiftsKept, LinksAreReal

LEMMA NextFabricInv ==
  ASSUME FabricAssumption, FabricInv, [NextFabric]_fabricVars
  PROVE  FabricInv'
<1> USE DEF FabricInv
<1>1. CASE Detect
  <2>1. PICK heard \in SUBSET cables : plan' = Plan(heard)
    BY <1>1 DEF Detect
  <2>2. SoundPlan(plan')
    BY <2>1, PlanSound
  <2>3. /\ UNCHANGED <<nodes, cables, addr, todo, given>> /\ step' \in {"ask", "ping"}
    BY <1>1 DEF Detect
  <2>4. Typed' /\ GiftsKept' /\ Apart(given)'
    BY <2>3 DEF Typed, GiftsKept, Apart
  <2>5. SoundPlan(plan)'
    BY <2>2, <2>3 DEF SoundPlan, Apart, NetsInUse, TrueOrUnset
  <2>6. LinksAreReal'
    BY <2>3 DEF LinksAreReal
  <2>7. \A l \in plan'.links : TrueOrUnset(l)'
    BY <2>5 DEF SoundPlan
  <2> QED BY <2>3, <2>4, <2>5, <2>6, <2>7
<1>2. CASE Decline
  <2>1. /\ UNCHANGED <<nodes, cables, addr, plan, todo, fails, given>> /\ step = "ask" /\ step' = "ping"
    BY <1>2 DEF Decline
  <2>2. Typed' /\ GiftsKept' /\ Apart(given)'
    BY <2>1 DEF Typed, GiftsKept, Apart
  <2>3. \A l \in plan'.links : TrueOrUnset(l)'
    BY <2>1 DEF SoundPlan, TrueOrUnset
  <2>4. LinksAreReal'
    BY <2>1 DEF LinksAreReal
  <2> QED BY <2>1, <2>2, <2>3, <2>4
<1>3. CASE Accept
  <2>1. /\ UNCHANGED <<nodes, cables, addr, plan, fails>> /\ step = "ask" /\ step' = "configure"
        /\ given' = plan.assign /\ todo' = plan.assign
    BY <1>3 DEF Accept
  <2>2. SoundPlan(plan)
    BY <2>1
  <2>3. Typed' /\ Apart(given)'
    BY <2>1, <2>2 DEF Typed, Apart, SoundPlan
  <2>4. /\ given' \in Seq(Gift) /\ todo' \in Seq(Gift)
        /\ \A i \in DOMAIN given' : given'[i][2].net \notin NetsInUse /\ given'[i][2].net >= 20
    BY <2>1, <2>2 DEF SoundPlan
  <2>5. \A q \in AllPorts : \A i \in DOMAIN given' : given'[i][2].net # addr[q].net
    <3> SUFFICES ASSUME NEW q \in AllPorts, NEW i \in DOMAIN given', given'[i][2].net = addr[q].net
                 PROVE  FALSE
      OBVIOUS
    <3>1. addr[q] # NoAddr
      BY <2>4 DEF NoAddr
    <3> QED BY <3>1, <2>4 DEF NetsInUse
  <2>6. GiftsKept'
    BY <2>1, <2>5 DEF GiftsKept
  <2>7. \A i \in DOMAIN todo' : \E j \in DOMAIN given' : given'[j] = todo'[i]
    BY <2>1
  <2>8. LinksAreReal'
    BY <2>1 DEF LinksAreReal
  <2> QED BY <2>1, <2>3, <2>4, <2>6, <2>7, <2>8
<1>4. CASE Configure
  <2>1. /\ UNCHANGED <<nodes, cables, step, plan, given>> /\ step = "configure" /\ todo # <<>> /\ todo' = Tail(todo)
        /\ addr' = [addr EXCEPT ![Head(todo)[1]] = Head(todo)[2]] \/ UNCHANGED addr
    BY <1>4 DEF Configure
  <2>2. /\ todo' \in Seq(Gift) /\ Head(todo) \in Gift
        /\ \E j \in DOMAIN given : given[j] = Head(todo)
        /\ \A i \in DOMAIN todo' : \E j \in DOMAIN todo : todo[j] = todo'[i]
    <3>1. /\ Len(todo) \in Nat \ {0} /\ DOMAIN todo = 1..Len(todo) /\ Head(todo) = todo[1]
          /\ todo' \in Seq(Gift) /\ Len(todo') = Len(todo) - 1
          /\ DOMAIN todo' = 1..Len(todo)-1 /\ \A i \in DOMAIN todo' : todo'[i] = todo[i+1]
      BY <2>1
    <3>2. \A i \in DOMAIN todo' : i + 1 \in DOMAIN todo
      BY <3>1
    <3>3. 1 \in DOMAIN todo
      BY <3>1
    <3> QED BY <3>1, <3>2, <3>3
  <2>3. \A i \in DOMAIN todo' : \E j \in DOMAIN given' : given'[j] = todo'[i]
    <3>1. \A i \in DOMAIN todo : \E j \in DOMAIN given : given[j] = todo[i]
      OBVIOUS
    <3>2. SUFFICES ASSUME NEW i \in DOMAIN todo' PROVE \E j \in DOMAIN given' : given'[j] = todo'[i]
      OBVIOUS
    <3>3. PICK k \in DOMAIN todo : todo[k] = todo'[i]
      BY <2>2, Zenon
    <3>4. PICK j \in DOMAIN given : given[j] = todo[k]
      BY <3>1, Zenon
    <3>5. given' = given
      BY <2>1
    <3> QED BY <3>3, <3>4, <3>5, Zenon
  <2>4. Typed'
    BY <2>1, <2>2 DEF Typed, Gift
  <2>5. GiftsKept'
    <3>1. CASE UNCHANGED addr
      BY <2>1, <3>1 DEF GiftsKept
    <3>2. CASE addr' = [addr EXCEPT ![Head(todo)[1]] = Head(todo)[2]]
      <4> DEFINE p == Head(todo)[1]
      <4>1. p \in AllPorts /\ Head(todo) = <<p, Head(todo)[2]>>
        BY <2>2 DEF Gift
      <4>2. addr'[p] = Head(todo)[2] /\ \A q \in AllPorts \ {p} : addr'[q] = addr[q]
        BY <3>2, <4>1 DEF Typed
      <4>3. \E j \in DOMAIN given : given[j] = <<p, addr'[p]>>
        BY <2>2, <4>1, <4>2
      <4> HIDE DEF p
      <4>4. \A q \in AllPorts : q = p \/ addr'[q] = addr[q]
        BY <4>2
      <4> QED BY <2>1, <4>3, <4>4, SMTT(60) DEF GiftsKept
    <3> QED BY <2>1, <3>1, <3>2
  <2>6. LinksAreReal'
    BY <2>1 DEF LinksAreReal
  <2>7. Apart(given)'
    BY <2>1 DEF Apart
  <2> QED BY <2>1, <2>2, <2>3, <2>4, <2>5, <2>6, <2>7
<1>5. CASE Redetect
  <2>1. /\ UNCHANGED <<nodes, cables, addr, todo, given>> /\ step' = "ping"
    BY <1>5 DEF Redetect
  <2>2. fails' # {} \/ \E heard \in SUBSET cables : plan' = Plan(heard)
    BY <1>5 DEF Redetect
  <2>3. fails' = {} => \A l \in plan'.links : TrueOrUnset(l)
    BY <2>2, PlanSound DEF SoundPlan
  <2>4. fails' = {} => \A l \in plan'.links : TrueOrUnset(l)'
    BY <2>1, <2>3 DEF TrueOrUnset
  <2>5. Typed' /\ GiftsKept' /\ Apart(given)' /\ LinksAreReal'
    BY <2>1 DEF Typed, GiftsKept, Apart, LinksAreReal
  <2> QED BY <2>1, <2>4, <2>5
<1>6. CASE Ping
  <2>1. /\ UNCHANGED <<nodes, cables, addr, plan, todo, given>> /\ step = "ping" /\ step' = "done"
        /\ fails' = fails \union {<<"ping", l.k>> : l \in {l \in plan.links : ~Answers(l)}}
    BY <1>6 DEF Ping
  <2>2. fails' = {} => fails = {} /\ \A l \in plan.links : Answers(l)
    BY <2>1
  <2>3. LinksAreReal'
    BY <2>1, <2>2 DEF LinksAreReal, Answers, TrueOrUnset
  <2>4. Typed' /\ GiftsKept' /\ Apart(given)'
    BY <2>1 DEF Typed, GiftsKept, Apart
  <2> QED BY <2>1, <2>3, <2>4
<1>7. CASE UNCHANGED fabricVars
  <2>1. UNCHANGED <<nodes, cables, addr, step, plan, todo, fails, given>>
    BY <1>7 DEF fabricVars
  <2>2. Typed' /\ GiftsKept' /\ Apart(given)' /\ LinksAreReal'
    BY <2>1 DEF Typed, GiftsKept, Apart, LinksAreReal
  <2>3. /\ SoundPlan(plan) => SoundPlan(plan)'
        /\ \A l \in plan.links : TrueOrUnset(l) => TrueOrUnset(l)'
    BY <2>1 DEF SoundPlan, Apart, NetsInUse, TrueOrUnset
  <2> QED BY <2>1, <2>2, <2>3
<1> QED
  BY <1>1, <1>2, <1>3, <1>4, <1>5, <1>6, <1>7 DEF NextFabric

LEMMA FabricInvGivenAreFree ==
  ASSUME FabricInv
  PROVE  GivenAreFree
<1> SUFFICES ASSUME NEW i \in DOMAIN given, NEW q \in AllPorts, addr[q].net = given[i][2].net
             PROVE  \E j \in DOMAIN given : given[j][1] = q /\ (i + 1) \div 2 = (j + 1) \div 2
  BY DEF GivenAreFree
<1>1. PICK j \in DOMAIN given : given[j] = <<q, addr[q]>>
  BY DEF FabricInv, GiftsKept
<1>2. given[j][1] = q /\ given[j][2].net = given[i][2].net
  BY <1>1
<1>3. (i + 1) \div 2 = (j + 1) \div 2
  BY <1>2, Zenon DEF FabricInv, Apart
<1> QED BY <1>2, <1>3

(* A subnet setup.sh gives to a cable is on no port but those at the       *)
(* cable's ends, for any number of ports and whatever addresses are there. *)
THEOREM GivenStayFree ==
  ASSUME FabricAssumption
  PROVE  SpecFabric => []GivenAreFree
<1>1. InitFabric => FabricInv
  BY InitFabricInv
<1>2. FabricInv /\ [NextFabric]_fabricVars => FabricInv'
  BY NextFabricInv
<1>3. FabricInv => GivenAreFree
  BY FabricInvGivenAreFree
<1> QED BY <1>1, <1>2, <1>3, PTL DEF SpecFabric

(* Where setup.sh ends step 4 without a FAIL, every link it writes to      *)
(* cluster.env is a cable whose ends have the addresses it writes.         *)
THEOREM ReportedLinksAreReal ==
  ASSUME FabricAssumption
  PROVE  SpecFabric => []LinksAreReal
<1>1. InitFabric => FabricInv
  BY InitFabricInv
<1>2. FabricInv /\ [NextFabric]_fabricVars => FabricInv'
  BY NextFabricInv
<1>3. FabricInv => LinksAreReal
  BY DEF FabricInv
<1> QED BY <1>1, <1>2, <1>3, PTL DEF SpecFabric

-----------------------------------------------------------------------------
(* What step 4 comes to where nothing goes wrong                           *)

Ends(c)   == {c[1], c[2]}
Joined(c) == SameSubnet(addr[c[1]], addr[c[2]])

Gift1(c, net) == <<c[1], [net |-> net, host |-> c[1][1] + 1]>>
Gift2(c, net) == <<c[2], [net |-> net, host |-> c[2][1] + 1]>>

(* Both ends of a cable are given addresses, or neither; no port two.      *)
Gifted(gifts, c) == \E net \in Nat : \E i, j \in DOMAIN gifts : gifts[i] = Gift1(c, net) /\ gifts[j] = Gift2(c, net)
Untouched(gifts, c) == \A i \in DOMAIN gifts : gifts[i][1] \notin Ends(c)
OnePerPort(gifts) == \A i, j \in DOMAIN gifts : gifts[i][1] = gifts[j][1] => i = j

(* Cables between nodes that no two of them meet in one port               *)
Disjoint(chosen) ==
  /\ DOMAIN chosen \subseteq 1..3
  /\ \A k \in DOMAIN chosen : chosen[k] \in AllPorts \X AllPorts /\ chosen[k][1] # chosen[k][2]
  /\ \A k, m \in DOMAIN chosen : k # m => Ends(chosen[k]) \cap Ends(chosen[m]) = {}

(* A plan that has come to the links in done                               *)
Planned(made, done, chosen) ==
  /\ {l.k : l \in made.links} = done
  /\ \A l \in made.links : <<l.a, l.b>> = chosen[l.k] /\ (Joined(chosen[l.k]) => l.ipb = addr[l.b])
  /\ \A k \in done : /\ Joined(chosen[k]) => Untouched(made.assign, chosen[k])
                     /\ ~Joined(chosen[k]) => Gifted(made.assign, chosen[k])
  /\ \A i \in DOMAIN made.assign : \E k \in done : made.assign[i][1] \in Ends(chosen[k]) /\ ~Joined(chosen[k])
  /\ OnePerPort(made.assign)

(* t gives what s gives, and x and y.                                      *)
GivenMore(s, t, x, y) ==
  /\ OnePerPort(t)
  /\ \A c : Gifted(s, c) => Gifted(t, c)
  /\ \A c : Untouched(s, c) /\ x[1] \notin Ends(c) /\ y[1] \notin Ends(c) => Untouched(t, c)
  /\ \E i \in DOMAIN t : t[i] = x
  /\ \E i \in DOMAIN t : t[i] = y
  /\ \A i \in DOMAIN t : t[i] = x \/ t[i] = y \/ \E j \in DOMAIN s : t[i] = s[j]

(* Addresses given later leave those given before.                         *)
LEMMA MoreGifts ==
  ASSUME NEW s \in Seq(Gift), NEW x \in Gift, NEW y \in Gift, NEW t, t = s \o <<x, y>>, OnePerPort(s),
         x[1] # y[1], \A i \in DOMAIN s : s[i][1] # x[1] /\ s[i][1] # y[1]
  PROVE  GivenMore(s, t, x, y)
<1> DEFINE n == Len(s)
<1>1. /\ n \in Nat /\ DOMAIN s = 1..n /\ DOMAIN t = 1..n+2
      /\ \A i \in 1..n : t[i] = s[i]
      /\ t[n+1] = x /\ t[n+2] = y
  BY TwoMore
<1> HIDE DEF n
<1>2. \A i \in DOMAIN t : i \in DOMAIN s \/ i = n + 1 \/ i = n + 2
  BY <1>1
<1>3. DOMAIN s \subseteq DOMAIN t /\ n + 1 \in DOMAIN t /\ n + 2 \in DOMAIN t /\ \A i \in DOMAIN s : t[i] = s[i]
  BY <1>1
<1>4. OnePerPort(t)
  <2>1. SUFFICES ASSUME NEW i \in DOMAIN t, NEW j \in DOMAIN t, t[i][1] = t[j][1] PROVE i = j
    BY DEF OnePerPort
  <2>2. CASE i \in DOMAIN s /\ j \in DOMAIN s
    BY <1>3, <2>1, <2>2, Zenon DEF OnePerPort
  <2>3. CASE i \in DOMAIN s /\ j \notin DOMAIN s
    <3>1. t[j] = x \/ t[j] = y
      BY <1>1, <1>2, <2>3, Zenon
    <3>2. t[i][1] # x[1] /\ t[i][1] # y[1]
      BY <1>3, <2>3, Zenon
    <3> QED BY <2>1, <3>1, <3>2, Zenon
  <2>4. CASE i \notin DOMAIN s /\ j \in DOMAIN s
    <3>1. t[i] = x \/ t[i] = y
      BY <1>1, <1>2, <2>4, Zenon
    <3>2. t[j][1] # x[1] /\ t[j][1] # y[1]
      BY <1>3, <2>4, Zenon
    <3> QED BY <2>1, <3>1, <3>2, Zenon
  <2>5. CASE i \notin DOMAIN s /\ j \notin DOMAIN s
    <3>1. t[n+1][1] # t[n+2][1]
      BY <1>1, Zenon
    <3> QED BY <1>2, <2>1, <2>5, <3>1, Zenon
  <2> QED BY <2>2, <2>3, <2>4, <2>5, Zenon
<1>5. ASSUME NEW c, Gifted(s, c) PROVE Gifted(t, c)
  BY <1>3, <1>5, ZenonT(60) DEF Gifted
<1>6. ASSUME NEW c, Untouched(s, c), x[1] \notin Ends(c), y[1] \notin Ends(c) PROVE Untouched(t, c)
  BY <1>1, <1>2, <1>3, <1>6, Zenon DEF Untouched
<1>7. \A i \in DOMAIN t : t[i] = x \/ t[i] = y \/ \E j \in DOMAIN s : t[i] = s[j]
  BY <1>1, <1>2, <1>3, Zenon
<1> QED BY <1>1, <1>3, <1>4, <1>5, <1>6, <1>7, Zenon DEF GivenMore

(* One more link of the plan                                               *)
LEMMA WithLinkPlanned ==
  ASSUME addr \in [AllPorts -> Address], NEW before, SoundLinks(before), NEW chosen, Disjoint(chosen),
         NEW done \in SUBSET DOMAIN chosen, Planned(before, done, chosen), NEW k \in DOMAIN chosen, k \notin done
  PROVE  Planned(WithLink(before, k, chosen[k]), done \union {k}, chosen)
<1> DEFINE c    == chosen[k]
           net  == Third(k, before.taken)
           ipa  == [net |-> net, host |-> c[1][1] + 1]
           ipb  == [net |-> net, host |-> c[2][1] + 1]
           made == WithLink(before, k, c)
<1>1. k \in 1..3 /\ c \in AllPorts \X AllPorts /\ c[1] # c[2] /\ c[1] \in AllPorts /\ c[2] \in AllPorts /\ c = <<c[1], c[2]>>
  BY DEF Disjoint
<1>2. \A m \in done : Ends(chosen[m]) \cap Ends(c) = {}
  BY DEF Disjoint
<1>3. CASE Joined(c)
  <2> DEFINE l0 == Link(k, c[1], c[2], addr[c[1]], addr[c[2]])
  <2>1. made.assign = before.assign /\ made.links = before.links \union {l0}
    <3>1. made = [before EXCEPT !.links = @ \union {l0}]
      BY <1>3 DEF WithLink, Joined
    <3> QED BY <3>1 DEF SoundLinks
  <2>2. l0.k = k /\ l0.a = c[1] /\ l0.b = c[2] /\ l0.ipb = addr[c[2]]
    BY DEF Link
  <2> HIDE DEF made, l0
  <2>3. {l.k : l \in made.links} = done \union {k}
    BY <2>1, <2>2 DEF Planned
  <2>4. \A l \in made.links : <<l.a, l.b>> = chosen[l.k] /\ (Joined(chosen[l.k]) => l.ipb = addr[l.b])
    BY <1>1, <2>1, <2>2 DEF Planned
  <2>5. Untouched(made.assign, c)
    <3>1. \A i \in DOMAIN before.assign : \E m \in done : before.assign[i][1] \in Ends(chosen[m])
      BY DEF Planned
    <3> QED BY <1>2, <2>1, <3>1 DEF Untouched
  <2>6. \A m \in done \union {k} : /\ Joined(chosen[m]) => Untouched(made.assign, chosen[m])
                                   /\ ~Joined(chosen[m]) => Gifted(made.assign, chosen[m])
    BY <1>3, <2>1, <2>5, Zenon DEF Planned
  <2>7. \A i \in DOMAIN made.assign : \E m \in done \union {k} : made.assign[i][1] \in Ends(chosen[m]) /\ ~Joined(chosen[m])
    BY <2>1, Zenon DEF Planned
  <2>8. OnePerPort(made.assign)
    BY <2>1 DEF Planned
  <2>9. Planned(made, done \union {k}, chosen)
    BY <2>3, <2>4, <2>6, <2>7, <2>8, Zenon DEF Planned
  <2> QED BY <2>9 DEF made
<1>4. CASE ~Joined(c)
  <2> DEFINE l0 == Link(k, c[1], c[2], ipa, ipb)
             x == Gift1(c, net)
             y == Gift2(c, net)
  <2>1. made.assign = before.assign \o <<x, y>> /\ made.links = before.links \union {l0}
    <3>1. made = [links  |-> before.links \union {l0},
                  assign |-> before.assign \o << <<c[1], ipa>>, <<c[2], ipb>> >>,
                  taken  |-> Taken(before.taken, net)]
      BY <1>4 DEF WithLink, Joined
    <3> QED BY <3>1 DEF Gift1, Gift2
  <2>2. l0.k = k /\ l0.a = c[1] /\ l0.b = c[2]
    BY DEF Link
  <2>3. net \in Nat
    BY <1>1, ThirdIsFree DEF SoundLinks
  <2> HIDE DEF net
  <2>4. x \in Gift /\ y \in Gift /\ x[1] = c[1] /\ y[1] = c[2]
    BY <1>1, <2>3 DEF Gift, Gift1, Gift2, Address, AllPorts
  <2> HIDE DEF made, l0, x, y, c
  <2>5. {l.k : l \in made.links} = done \union {k}
    BY <2>1, <2>2 DEF Planned
  <2>6. \A l \in made.links : <<l.a, l.b>> = chosen[l.k] /\ (Joined(chosen[l.k]) => l.ipb = addr[l.b])
    <3>1. c = chosen[k]
      BY DEF c
    <3> QED BY <1>1, <1>4, <2>1, <2>2, <3>1 DEF Planned
  <2>7. \A i \in DOMAIN before.assign : before.assign[i][1] # x[1] /\ before.assign[i][1] # y[1]
    <3>1. \A i \in DOMAIN before.assign : \E m \in done : before.assign[i][1] \in Ends(chosen[m])
      BY DEF Planned
    <3>2. x[1] \in Ends(c) /\ y[1] \in Ends(c)
      BY <2>4 DEF Ends
    <3> QED BY <1>2, <3>1, <3>2
  <2> DEFINE s == before.assign
             t == made.assign
  <2>8. s \in Seq(Gift) /\ OnePerPort(s) /\ x[1] # y[1] /\ t = s \o <<x, y>>
    BY <1>1, <2>1, <2>4 DEF SoundLinks, Planned
  <2> HIDE DEF s, t
  <2>9. /\ OnePerPort(t)
        /\ \A d : Gifted(s, d) => Gifted(t, d)
        /\ \A d : Untouched(s, d) /\ x[1] \notin Ends(d) /\ y[1] \notin Ends(d) => Untouched(t, d)
        /\ \E i \in DOMAIN t : t[i] = x
        /\ \E i \in DOMAIN t : t[i] = y
        /\ \A i \in DOMAIN t : t[i] = x \/ t[i] = y \/ \E j \in DOMAIN s : t[i] = s[j]
    <3>1. \A i \in DOMAIN s : s[i][1] # x[1] /\ s[i][1] # y[1]
      BY <2>7 DEF s
    <3>2. GivenMore(s, t, x, y)
      BY <2>4, <2>8, <3>1, MoreGifts
    <3> QED BY <3>2, Zenon DEF GivenMore
  <2>10. Gifted(t, c)
    BY <2>3, <2>9, Zenon DEF Gifted, x, y
  <2>11. ASSUME NEW m \in done
         PROVE  /\ Joined(chosen[m]) => Untouched(t, chosen[m])
                /\ ~Joined(chosen[m]) => Gifted(t, chosen[m])
    <3>1. /\ Joined(chosen[m]) => Untouched(s, chosen[m])
          /\ ~Joined(chosen[m]) => Gifted(s, chosen[m])
      BY <2>11, Zenon DEF Planned, s
    <3>2. x[1] \notin Ends(chosen[m]) /\ y[1] \notin Ends(chosen[m])
      <4>1. x[1] \in Ends(c) /\ y[1] \in Ends(c)
        BY <2>4 DEF Ends
      <4> QED BY <1>2, <2>11, <4>1
    <3> QED BY <2>9, <3>1, <3>2, Zenon
  <2>12. \A m \in done \union {k} : /\ Joined(chosen[m]) => Untouched(t, chosen[m])
                                    /\ ~Joined(chosen[m]) => Gifted(t, chosen[m])
    <3>1. c = chosen[k]
      BY DEF c
    <3> QED BY <1>4, <2>10, <2>11, <3>1, Zenon
  <2>13. \A i \in DOMAIN t : \E m \in done \union {k} : t[i][1] \in Ends(chosen[m]) /\ ~Joined(chosen[m])
    <3>1. \A j \in DOMAIN s : \E m \in done : s[j][1] \in Ends(chosen[m]) /\ ~Joined(chosen[m])
      BY Zenon DEF Planned, s
    <3>2. c = chosen[k] /\ x[1] \in Ends(c) /\ y[1] \in Ends(c)
      BY <2>4 DEF Ends, c
    <3> QED BY <1>4, <2>9, <3>1, <3>2, Zenon
  <2>14. Planned(made, done \union {k}, chosen)
    BY <2>5, <2>6, <2>9, <2>12, <2>13, Zenon DEF Planned, t
  <2> QED BY <2>14 DEF made, c
<1> QED BY <1>3, <1>4 DEF c

(* All of the plan                                                         *)
LEMMA PlanPlanned ==
  ASSUME FabricAssumption, Typed, NEW heard \in SUBSET cables, NEW chosen, chosen = Chosen(Found(heard)),
         Disjoint(chosen)
  PROVE  Planned(Plan(heard), DOMAIN chosen, chosen)
<1> DEFINE none   == [links |-> {}, assign |-> <<>>, taken |-> NetsInUse]
           one    == Extended(none, 1, chosen)
           two    == Extended(one, 2, chosen)
           three  == Extended(two, 3, chosen)
           d1     == {1} \cap DOMAIN chosen
           d2     == {1, 2} \cap DOMAIN chosen
<1>1. \A made : \A k \in 1..3 : \A done \in SUBSET DOMAIN chosen :
        SoundLinks(made) /\ Planned(made, done, chosen) /\ k \notin done =>
          /\ SoundLinks(Extended(made, k, chosen))
          /\ Planned(Extended(made, k, chosen), done \union ({k} \cap DOMAIN chosen), chosen)
  <2>1. SUFFICES ASSUME NEW made, NEW k \in 1..3, NEW done \in SUBSET DOMAIN chosen,
                        SoundLinks(made), Planned(made, done, chosen), k \notin done
                 PROVE  /\ SoundLinks(Extended(made, k, chosen))
                        /\ Planned(Extended(made, k, chosen), done \union ({k} \cap DOMAIN chosen), chosen)
    OBVIOUS
  <2>2. CASE k \in DOMAIN chosen
    <3>1. Extended(made, k, chosen) = WithLink(made, k, chosen[k])
      BY <2>2 DEF Extended
    <3>2. {k} \cap DOMAIN chosen = {k} /\ addr \in [AllPorts -> Address] /\ chosen[k] \in AllPorts \X AllPorts
      BY <2>2 DEF Typed, Disjoint
    <3>3. SoundLinks(WithLink(made, k, chosen[k]))
      BY <2>1, <3>2, WithLinkSound
    <3>4. Planned(WithLink(made, k, chosen[k]), done \union {k}, chosen)
      BY <2>1, <2>2, <3>2, WithLinkPlanned
    <3> QED BY <3>1, <3>2, <3>3, <3>4
  <2>3. CASE k \notin DOMAIN chosen
    <3>1. Extended(made, k, chosen) = made /\ done \union ({k} \cap DOMAIN chosen) = done
      BY <2>3 DEF Extended
    <3> QED BY <2>1, <3>1
  <2> QED BY <2>2, <2>3
<1>2. SoundLinks(none) /\ Planned(none, {}, chosen)
  <2>1. NetsInUse \in SUBSET Nat /\ IsFiniteSet(NetsInUse)
    BY NetsFinite DEF Typed
  <2>2. none.links = {} /\ none.assign = <<>> /\ none.taken = NetsInUse
    OBVIOUS
  <2>3. none.assign \in Seq(Gift) /\ DOMAIN none.assign = {} /\ Len(none.assign) = 2 * 0
    OBVIOUS
  <2>4. none = [links |-> none.links, assign |-> none.assign, taken |-> none.taken]
    OBVIOUS
  <2> HIDE DEF none
  <2>5. SoundLinks(none)
    BY <2>1, <2>2, <2>3, <2>4 DEF SoundLinks, Apart
  <2>6. Planned(none, {}, chosen)
    BY <2>2, <2>3 DEF Planned, OnePerPort
  <2> QED BY <2>5, <2>6
<1>3. /\ {} \union ({1} \cap DOMAIN chosen) = d1 /\ d1 \union ({2} \cap DOMAIN chosen) = d2
      /\ d2 \union ({3} \cap DOMAIN chosen) = DOMAIN chosen
      /\ {} \in SUBSET DOMAIN chosen /\ d1 \in SUBSET DOMAIN chosen /\ d2 \in SUBSET DOMAIN chosen
      /\ 1 \notin {} /\ 2 \notin d1 /\ 3 \notin d2
  BY DEF Disjoint
<1>4. Planned(three, DOMAIN chosen, chosen)
  <2> HIDE DEF none, d1, d2
  <2>1. SoundLinks(one) /\ Planned(one, d1, chosen)
    BY <1>1, <1>2, <1>3, SMTT(60)
  <2> HIDE DEF one
  <2>2. SoundLinks(two) /\ Planned(two, d2, chosen)
    BY <1>1, <1>3, <2>1
  <2> HIDE DEF two
  <2> QED BY <1>1, <1>3, <2>2
<1>5. Plan(heard).links = three.links /\ Plan(heard).assign = three.assign
  BY DEF Plan, Links
<1> HIDE DEF three
<1> QED BY <1>4, <1>5 DEF Planned

(* Cables are chosen one for each pair of nodes, and meet in no port.      *)
LEMMA CablingChosen ==
  ASSUME FabricAssumption, Typed, CablingIsRight, NEW chosen, chosen = Chosen(cables)
  PROVE  /\ Found(cables) = cables /\ Errors(chosen) = {} /\ DOMAIN chosen = Need
         /\ Disjoint(chosen)
         /\ \A k \in Need : chosen[k] \in cables /\ chosen[k][1][1] # chosen[k][2][1]
<1>1. Errors(chosen) = {}
  BY DEF CablingIsRight
<1>2. DOMAIN chosen = Need /\ \A k \in Need : Cands(cables, k) # {}
  <2>1. DOMAIN chosen \subseteq Need /\ \A k \in DOMAIN chosen : Cands(cables, k) # {}
    BY DEF Chosen
  <2>2. Need \ DOMAIN chosen = {}
    BY <1>1 DEF Errors
  <2> QED BY <2>1, <2>2
<1>3. \A k \in Need : chosen[k] \in Cands(cables, k)
  <2>1. SUFFICES ASSUME NEW k \in Need PROVE chosen[k] \in Cands(cables, k)
    OBVIOUS
  <2>2. chosen[k] = First(Cands(cables, k))
    BY <1>2 DEF Chosen
  <2>3. Cands(cables, k) \in SUBSET (AllPorts \X AllPorts) /\ NumPorts \in Nat
    BY DEF Cands, Typed, FabricAssumption
  <2> QED BY <1>2, <2>2, <2>3, FirstIsOne
<1>4. 1 \in Need /\ Need \subseteq 1..3 /\ (nodes = 2 => Need = {1})
  BY DEF Need
<1>5. \A k \in Need : /\ chosen[k] \in cables /\ chosen[k] \in AllPorts \X AllPorts
                      /\ <<chosen[k][1][1], chosen[k][2][1]>> = PairOrder[k]
  BY <1>3 DEF Cands, Typed
<1>6. Found(cables) = cables
  <2>1. cables # {}
    BY <1>4, <1>5
  <2> QED BY <2>1 DEF Found
<1>7. \A k \in Need : /\ k = 1 => chosen[k][1][1] = 0 /\ chosen[k][2][1] = 1
                      /\ k = 2 => chosen[k][1][1] = 1 /\ chosen[k][2][1] = 2
                      /\ k = 3 => chosen[k][1][1] = 0 /\ chosen[k][2][1] = 2
  <2>1. PairOrder[1] = <<0, 1>> /\ PairOrder[2] = <<1, 2>> /\ PairOrder[3] = <<0, 2>>
    BY DEF PairOrder
  <2> SUFFICES ASSUME NEW k \in Need
               PROVE  /\ k = 1 => chosen[k][1][1] = 0 /\ chosen[k][2][1] = 1
                      /\ k = 2 => chosen[k][1][1] = 1 /\ chosen[k][2][1] = 2
                      /\ k = 3 => chosen[k][1][1] = 0 /\ chosen[k][2][1] = 2
    OBVIOUS
  <2> DEFINE u == chosen[k][1][1]
             v == chosen[k][2][1]
  <2>2. <<u, v>> = PairOrder[k]
    BY <1>5
  <2> HIDE DEF u, v
  <2>3. u = PairOrder[k][1] /\ v = PairOrder[k][2]
    BY <2>2
  <2>4. /\ k = 1 => u = 0 /\ v = 1
        /\ k = 2 => u = 1 /\ v = 2
        /\ k = 3 => u = 0 /\ v = 2
    BY <2>1, <2>3
  <2> QED BY <2>4 DEF u, v
<1>8. \A k \in Need : chosen[k][1] # chosen[k][2] /\ chosen[k][1][1] # chosen[k][2][1]
  <2> SUFFICES ASSUME NEW k \in Need PROVE chosen[k][1] # chosen[k][2] /\ chosen[k][1][1] # chosen[k][2][1]
    OBVIOUS
  <2>1. k \in {1, 2, 3}
    BY <1>4
  <2>2. chosen[k][1][1] # chosen[k][2][1]
    BY <1>7, <2>1
  <2> QED BY <2>2
<1>9. ASSUME NEW k \in Need, NEW m \in Need, k # m, NEW p, p \in Ends(chosen[k]), p \in Ends(chosen[m])
      PROVE  FALSE
  <2> DEFINE at == {j \in DOMAIN chosen : p \in {chosen[j][1], chosen[j][2]}}
  <2>1. k \in {1, 2, 3} /\ m \in {1, 2, 3} /\ k \in at /\ m \in at
    BY <1>2, <1>4, <1>9 DEF Ends
  <2>2. \A j \in at : j \in Need /\ (p = chosen[j][1] \/ p = chosen[j][2])
    BY <1>2
  <2>3. \A j \in at : /\ j \in {1, 2, 3} /\ (j = 1 => p[1] \in {0, 1})
                      /\ (j = 2 => p[1] \in {1, 2}) /\ (j = 3 => p[1] \in {0, 2})
    <3> SUFFICES ASSUME NEW j \in at
                 PROVE  /\ j \in {1, 2, 3} /\ (j = 1 => p[1] \in {0, 1})
                        /\ (j = 2 => p[1] \in {1, 2}) /\ (j = 3 => p[1] \in {0, 2})
      OBVIOUS
    <3>1. j \in Need /\ (p = chosen[j][1] \/ p = chosen[j][2])
      BY <2>2
    <3>2. j \in {1, 2, 3}
      BY <1>4, <3>1
    <3>3. /\ j = 1 => chosen[j][1][1] = 0 /\ chosen[j][2][1] = 1
          /\ j = 2 => chosen[j][1][1] = 1 /\ chosen[j][2][1] = 2
          /\ j = 3 => chosen[j][1][1] = 0 /\ chosen[j][2][1] = 2
      BY <1>7, <3>1
    <3>4. p[1] = chosen[j][1][1] \/ p[1] = chosen[j][2][1]
      BY <3>1
    <3> HIDE DEF at
    <3> QED BY <3>2, <3>3, <3>4
  <2> HIDE DEF at
  <2>4. ~(1 \in at /\ 2 \in at /\ 3 \in at)
    BY <2>3
  <2>5. at = {k, m}
    <3>1. ASSUME NEW j \in at PROVE j = k \/ j = m
      <4>1. j \in {1, 2, 3}
        BY <2>3
      <4> QED BY <1>9, <2>1, <2>4, <3>1, <4>1
    <3> QED BY <2>1, <3>1
  <2>6. Cardinality(at) = 2
    <3>1. IsFiniteSet({k}) /\ Cardinality({k}) = 1
      BY FS_Singleton
    <3>2. m \notin {k}
      BY <1>9
    <3> HIDE DEF at
    <3>3. Cardinality({k} \union {m}) = Cardinality({k}) + 1
      BY ONLY <3>1, <3>2, FS_AddElement
    <3>4. at = {k} \union {m}
      BY <2>5
    <3> QED BY <3>1, <3>3, <3>4
  <2>7. nodes = 3
    BY <1>4, <1>9 DEF Typed
  <2>8. p \in AllPorts
    BY <1>5, <1>9 DEF Ends
  <2>9. <<"same port", p[1]>> \in Errors(chosen)
    BY <2>6, <2>7, <2>8 DEF Errors, at
  <2> QED BY <1>1, <2>9
<1> QED
  <2>1. Disjoint(chosen)
    BY <1>2, <1>4, <1>5, <1>8, <1>9 DEF Disjoint
  <2> QED BY <1>1, <1>2, <1>5, <1>6, <1>8, <2>1

(* Nothing is left to give exactly where all chosen cables are joined.     *)
LEMMA AllJoined ==
  ASSUME NEW p, p.assign \in Seq(Gift), NEW chosen, NEW ks, Planned(p, ks, chosen)
  PROVE  p.assign = <<>> <=> \A k \in ks : Joined(chosen[k])
<1>1. ASSUME p.assign = <<>>, NEW k \in ks PROVE Joined(chosen[k])
  <2>1. DOMAIN p.assign = {}
    BY <1>1
  <2>2. ~Gifted(p.assign, chosen[k])
    BY <2>1 DEF Gifted
  <2> QED BY <1>1, <2>2, Zenon DEF Planned
<1>2. ASSUME \A k \in ks : Joined(chosen[k]) PROVE p.assign = <<>>
  <2>1. DOMAIN p.assign = {}
    BY <1>2, Zenon DEF Planned
  <2> DEFINE a == p.assign
  <2>2. a \in Seq(Gift) /\ DOMAIN a = {}
    BY <2>1
  <2> HIDE DEF a
  <2>3. Len(a) = 0
    BY <2>2
  <2>4. a = <<>>
    BY <2>2, <2>3
  <2> QED BY <2>4 DEF a
<1> QED BY <1>1, <1>2

(* Over joined cables every ping is answered.                              *)
LEMMA JoinedAnswer ==
  ASSUME FabricAssumption, Typed, CablingIsRight, NEW p, Planned(p, Need, Chosen(cables)),
         \A k \in Need : Joined(Chosen(cables)[k])
  PROVE  \A l \in p.links : Answers(l)
<1> DEFINE chosen == Chosen(cables)
<1>1. \A k \in Need : chosen[k] \in cables /\ chosen[k] \in AllPorts \X AllPorts
  BY CablingChosen DEF Disjoint
<1> SUFFICES ASSUME NEW l \in p.links PROVE Answers(l)
  OBVIOUS
<1> HIDE DEF chosen
<1>2. l.k \in Need /\ <<l.a, l.b>> = chosen[l.k] /\ Joined(chosen[l.k]) /\ l.ipb = addr[l.b]
  <2>1. l.k \in Need /\ <<l.a, l.b>> = chosen[l.k] /\ (Joined(chosen[l.k]) => l.ipb = addr[l.b])
    BY DEF Planned, chosen
  <2> QED BY <2>1 DEF chosen
<1>3. chosen[l.k][1] = l.a /\ chosen[l.k][2] = l.b
  BY <1>2
<1> QED BY <1>1, <1>2, <1>3 DEF Answers, Joined

(* A cable whose ends have what they were given is joined.                 *)
LEMMA GiftedJoined ==
  ASSUME Typed, NEW gifts, NEW c \in AllPorts \X AllPorts, c[1][1] # c[2][1], Gifted(gifts, c),
         \A i \in DOMAIN gifts : addr[gifts[i][1]] = gifts[i][2]
  PROVE  Joined(c)
<1>1. PICK net \in Nat : \E i, j \in DOMAIN gifts : gifts[i] = Gift1(c, net) /\ gifts[j] = Gift2(c, net)
  BY DEF Gifted
<1>2. addr[c[1]] = [net |-> net, host |-> c[1][1] + 1] /\ addr[c[2]] = [net |-> net, host |-> c[2][1] + 1]
  BY <1>1 DEF Gift1, Gift2
<1>3. c[1][1] \in Nat /\ c[2][1] \in Nat
  BY DEF AllPorts
<1>4. /\ addr[c[1]].host = c[1][1] + 1 /\ addr[c[2]].host = c[2][1] + 1
      /\ addr[c[1]].net = net /\ addr[c[2]].net = net
  BY <1>2
<1>5. addr[c[1]] # NoAddr /\ addr[c[2]] # NoAddr
  BY <1>3, <1>4 DEF NoAddr
<1> QED BY <1>3, <1>4, <1>5 DEF Joined, SameSubnet

(* Every chosen cable is joined or will be when all is given.              *)
OnCourse ==
  /\ \A k \in Need : \/ Joined(Chosen(cables)[k]) /\ Untouched(given, Chosen(cables)[k])
                     \/ Gifted(given, Chosen(cables)[k])
  /\ OnePerPort(given)
  /\ \A i \in DOMAIN given : addr[given[i][1]] = given[i][2] \/ \E j \in DOMAIN todo : todo[j] = given[i]

Linked == {l.k : l \in plan.links} = Need

SettleInv ==
  ~trouble /\ CablingIsRight =>
    /\ step = "ask" => fails = {} /\ Planned(plan, Need, Chosen(cables))
    /\ step = "configure" => fails = {} /\ OnCourse
    /\ step = "ping" => fails = {} /\ Linked /\ \A l \in plan.links : Answers(l)
    /\ step = "done" => fails = {} /\ Linked

LEMMA DetectSettles ==
  ASSUME FabricAssumption, FabricInv, Detect
  PROVE  SettleInv'
<1> DEFINE chosen == Chosen(cables)
<1>1. UNCHANGED <<nodes, cables, addr, todo, given>> /\ fails' = plan'.errors
      /\ step' = (IF plan'.assign = <<>> THEN "ping" ELSE "ask")
  BY DEF Detect
<1>2. CablingIsRight' = CablingIsRight /\ Chosen(cables)' = chosen /\ Need' = Need
  BY <1>1 DEF CablingIsRight, Errors, Chosen, Cands, Need
<1>3. SUFFICES ASSUME ~trouble', CablingIsRight
               PROVE  /\ step' = "ask" => fails' = {} /\ Planned(plan, Need, Chosen(cables))'
                      /\ step' = "ping" => fails' = {} /\ Linked' /\ \A l \in plan'.links : Answers(l)'
  BY <1>1, <1>2 DEF SettleInv
<1>4. plan' = Plan(cables)
  BY <1>3 DEF Detect
<1>5. Typed
  BY DEF FabricInv
<1>6. Found(cables) = cables /\ Errors(chosen) = {} /\ DOMAIN chosen = Need /\ Disjoint(chosen)
  BY <1>3, <1>5, CablingChosen
<1>7. plan'.errors = {}
  BY <1>4, <1>6 DEF Plan
<1>8. Planned(plan', Need, chosen) /\ plan'.assign \in Seq(Gift)
  <2>1. chosen = Chosen(Found(cables)) /\ cables \in SUBSET cables
    BY <1>6
  <2> HIDE DEF chosen
  <2>2. Planned(Plan(cables), DOMAIN chosen, chosen)
    BY <1>5, <1>6, <2>1, PlanPlanned
  <2> QED BY <1>4, <1>5, <1>6, <2>2, PlanSound DEF SoundPlan
<1>9. Planned(plan, Need, Chosen(cables))'
  <2> HIDE DEF chosen
  <2> QED BY <1>1, <1>2, <1>8 DEF Planned, Joined
<1>10. step' = "ping" => Linked' /\ \A l \in plan'.links : Answers(l)'
  <2>1. SUFFICES ASSUME plan'.assign = <<>> PROVE Linked' /\ \A l \in plan'.links : Answers(l)'
    BY <1>1
  <2>2. \A k \in Need : Joined(chosen[k])
    BY <1>8, <2>1, AllJoined
  <2>3. \A l \in plan'.links : Answers(l)
    BY <1>3, <1>5, <1>8, <2>2, JoinedAnswer
  <2>4. \A l \in plan'.links : Answers(l)'
    BY <1>1, <2>3 DEF Answers
  <2> QED BY <1>2, <1>8, <2>4 DEF Linked, Planned
<1> QED BY <1>1, <1>7, <1>9, <1>10

LEMMA AcceptSettles ==
  ASSUME FabricInv, SettleInv, Accept
  PROVE  SettleInv'
<1> DEFINE chosen == Chosen(cables)
<1>1. /\ UNCHANGED <<nodes, cables, addr, plan, fails, trouble>> /\ step = "ask" /\ step' = "configure"
      /\ given' = plan.assign /\ todo' = plan.assign
  BY DEF Accept
<1>2. CablingIsRight' = CablingIsRight /\ Chosen(cables)' = chosen /\ Need' = Need
  BY <1>1 DEF CablingIsRight, Errors, Chosen, Cands, Need
<1>3. SUFFICES ASSUME ~trouble, CablingIsRight PROVE fails' = {} /\ OnCourse'
  BY <1>1, <1>2 DEF SettleInv
<1>4. fails = {} /\ Planned(plan, Need, chosen)
  BY <1>1, <1>3 DEF SettleInv
<1> HIDE DEF chosen
<1>5. \A k \in Need : \/ Joined(chosen[k]) /\ Untouched(plan.assign, chosen[k])
                      \/ Gifted(plan.assign, chosen[k])
  BY <1>4, Zenon DEF Planned
<1>6. \A k : Joined(k)' = Joined(k)
  BY <1>1 DEF Joined
<1>7. \A k \in Need' : \/ Joined(Chosen(cables)[k])' /\ Untouched(given, Chosen(cables)[k])'
                       \/ Gifted(given, Chosen(cables)[k])'
  <2> SUFFICES ASSUME NEW k \in Need
               PROVE  \/ Joined(Chosen(cables)[k])' /\ Untouched(given, Chosen(cables)[k])'
                      \/ Gifted(given, Chosen(cables)[k])'
    BY <1>2
  <2>1. Chosen(cables)'[k] = chosen[k]
    BY <1>2
  <2> QED BY <1>1, <1>5, <2>1 DEF Joined, Untouched, Gifted
<1>8. OnePerPort(given)' /\ \A i \in DOMAIN given' : \E j \in DOMAIN todo' : todo'[j] = given'[i]
  BY <1>1, <1>4 DEF Planned, OnePerPort
<1> QED BY <1>1, <1>4, <1>7, <1>8 DEF OnCourse

LEMMA ConfigureSettles ==
  ASSUME FabricInv, SettleInv, Configure
  PROVE  SettleInv'
<1> DEFINE chosen == Chosen(cables)
           h == Head(todo)
<1>1. /\ UNCHANGED <<nodes, cables, step, plan, given>> /\ step = "configure" /\ todo # <<>> /\ todo' = Tail(todo)
      /\ (~trouble' => ~trouble /\ fails' = fails /\ addr' = [addr EXCEPT ![h[1]] = h[2]])
  <2>1. /\ UNCHANGED <<nodes, cables, step, plan, given>> /\ step = "configure" /\ todo # <<>> /\ todo' = Tail(todo)
    BY DEF Configure
  <2>2. ASSUME ~trouble' PROVE ~trouble /\ fails' = fails /\ addr' = [addr EXCEPT ![h[1]] = h[2]]
    <3>1. UNCHANGED <<fails, trouble>> /\ addr' = [addr EXCEPT ![Head(todo)[1]] = Head(todo)[2]]
      BY <2>2, Zenon DEF Configure
    <3> QED BY <2>2, <3>1
  <2> QED BY <2>1, <2>2
<1>2. CablingIsRight' = CablingIsRight /\ Chosen(cables)' = chosen /\ Need' = Need
  BY <1>1 DEF CablingIsRight, Errors, Chosen, Cands, Need
<1>3. SUFFICES ASSUME ~trouble', CablingIsRight PROVE fails' = {} /\ OnCourse'
  BY <1>1, <1>2 DEF SettleInv
<1>4. /\ ~trouble /\ fails' = fails /\ addr' = [addr EXCEPT ![h[1]] = h[2]]
      /\ fails = {} /\ OnCourse
  BY <1>1, <1>3 DEF SettleInv
<1>5. /\ h \in Gift /\ (\E j \in DOMAIN given : given[j] = h)
      /\ \A j \in DOMAIN todo : todo[j] = h \/ \E i \in DOMAIN todo' : todo'[i] = todo[j]
  <2>1. /\ todo \in Seq(Gift) /\ Len(todo) \in Nat \ {0} /\ DOMAIN todo = 1..Len(todo) /\ h = todo[1]
        /\ DOMAIN todo' = 1..Len(todo)-1 /\ \A i \in DOMAIN todo' : todo'[i] = todo[i+1]
    BY <1>1 DEF FabricInv
  <2> HIDE DEF h
  <2>2. 1 \in DOMAIN todo /\ h \in Gift
    BY <2>1
  <2>3. \E j \in DOMAIN given : given[j] = h
    BY <2>1, <2>2 DEF FabricInv
  <2>4. ASSUME NEW j \in DOMAIN todo, j # 1 PROVE \E i \in DOMAIN todo' : todo'[i] = todo[j]
    <3>1. j - 1 \in DOMAIN todo' /\ (j - 1) + 1 = j
      BY <2>1, <2>4
    <3> QED BY <2>1, <3>1
  <2> QED BY <2>1, <2>2, <2>3, <2>4
<1> HIDE DEF chosen, h
<1>6. /\ addr'[h[1]] = h[2] /\ \A q \in AllPorts : q # h[1] => addr'[q] = addr[q]
  <2>1. addr \in [AllPorts -> Address] /\ h[1] \in AllPorts
    BY <1>5 DEF FabricInv, Typed, Gift
  <2> QED BY <1>4, <2>1
<1>7. \A i \in DOMAIN given : addr'[given[i][1]] = given[i][2] \/ \E j \in DOMAIN todo' : todo'[j] = given[i]
  <2> SUFFICES ASSUME NEW i \in DOMAIN given
               PROVE  addr'[given[i][1]] = given[i][2] \/ \E j \in DOMAIN todo' : todo'[j] = given[i]
    OBVIOUS
  <2>1. CASE given[i] = h
    BY <1>6, <2>1
  <2>2. CASE given[i] # h
    <3>1. given[i][1] # h[1]
      BY <1>4, <1>5, <2>2 DEF OnCourse, OnePerPort
    <3>2. given[i][1] \in AllPorts
      <4>1. given[i] \in Gift
        BY DEF FabricInv
      <4> QED BY <4>1 DEF Gift
    <3>3. addr'[given[i][1]] = addr[given[i][1]]
      BY <1>6, <3>1, <3>2
    <3> QED BY <1>4, <1>5, <2>2, <3>3 DEF OnCourse
  <2> QED BY <2>1, <2>2
<1>8. \A k \in Need : \/ Joined(chosen[k])' /\ Untouched(given, chosen[k])
                      \/ Gifted(given, chosen[k])
  <2> SUFFICES ASSUME NEW k \in Need, ~Gifted(given, chosen[k])
               PROVE  Joined(chosen[k])' /\ Untouched(given, chosen[k])
    OBVIOUS
  <2>1. Joined(chosen[k]) /\ Untouched(given, chosen[k])
    BY <1>4 DEF OnCourse, chosen
  <2>2. h[1] \notin Ends(chosen[k])
    BY <1>5, <2>1 DEF Untouched
  <2>3. /\ addr'[chosen[k][1]] = addr[chosen[k][1]]
        /\ addr'[chosen[k][2]] = addr[chosen[k][2]]
    <3>1. addr \in [AllPorts -> Address] /\ h[1] \in AllPorts
      BY <1>5 DEF FabricInv, Typed, Gift
    <3>2. addr' = [q \in AllPorts |-> IF q = h[1] THEN h[2] ELSE addr[q]]
      BY <1>4, <3>1
    <3>3. chosen[k][1] # h[1] /\ chosen[k][2] # h[1]
      BY <2>2 DEF Ends
    <3> QED BY <1>4, <3>1, <3>3
  <2>4. chosen'[k] = chosen[k]
    BY <1>2 DEF chosen
  <2> QED BY <2>1, <2>3, <2>4 DEF Joined
<1>9. \A k \in Need' : \/ Joined(Chosen(cables)[k])' /\ Untouched(given, Chosen(cables)[k])'
                       \/ Gifted(given, Chosen(cables)[k])'
  <2>1. \A k : Chosen(cables)'[k] = chosen[k]
    BY <1>2 DEF chosen
  <2> QED BY <1>1, <1>2, <1>8, <2>1 DEF Untouched, Gifted, chosen
<1>10. OnePerPort(given)'
  BY <1>1, <1>4 DEF OnCourse, OnePerPort
<1> QED BY <1>1, <1>4, <1>7, <1>9, <1>10 DEF OnCourse

LEMMA RedetectSettles ==
  ASSUME FabricAssumption, FabricInv, SettleInv, Redetect
  PROVE  SettleInv'
<1> DEFINE chosen == Chosen(cables)
<1>1. UNCHANGED <<nodes, cables, addr, todo, given>> /\ step = "configure" /\ todo = <<>> /\ step' = "ping"
  BY DEF Redetect
<1>2. CablingIsRight' = CablingIsRight /\ Chosen(cables)' = chosen /\ Need' = Need
  BY <1>1 DEF CablingIsRight, Errors, Chosen, Cands, Need
<1>3. SUFFICES ASSUME ~trouble', CablingIsRight
               PROVE  fails' = {} /\ Linked' /\ \A l \in plan'.links : Answers(l)'
  BY <1>1, <1>2 DEF SettleInv
<1>4. /\ ~trouble /\ plan' = Plan(cables)
      /\ fails' = fails \union (IF plan'.assign = <<>> THEN {} ELSE {<<"still no IPv4">>})
  BY <1>3 DEF Redetect
<1>5. fails = {} /\ OnCourse
  BY <1>1, <1>3, <1>4 DEF SettleInv
<1>6. Typed
  BY DEF FabricInv
<1>7. /\ Found(cables) = cables /\ DOMAIN chosen = Need /\ Disjoint(chosen)
      /\ \A k \in Need : chosen[k] \in AllPorts \X AllPorts /\ chosen[k][1][1] # chosen[k][2][1]
  <2>1. /\ Found(cables) = cables /\ DOMAIN chosen = Need /\ Disjoint(chosen)
        /\ \A k \in Need : chosen[k] \in cables /\ chosen[k][1][1] # chosen[k][2][1]
    BY <1>3, <1>6, CablingChosen
  <2> QED BY <1>6, <2>1 DEF Typed
<1>8. ASSUME NEW k \in Need PROVE Joined(chosen[k])
  <2>1. CASE Joined(chosen[k])
    BY <2>1
  <2>2. CASE Gifted(given, chosen[k])
    <3>1. DOMAIN todo = {}
      BY <1>1
    <3>2. \A i \in DOMAIN given : addr[given[i][1]] = given[i][2]
      BY <1>5, <3>1 DEF OnCourse
    <3> HIDE DEF chosen
    <3> QED BY <1>6, <1>7, <2>2, <3>2, GiftedJoined
  <2> QED BY <1>5, <2>1, <2>2 DEF OnCourse
<1>9. Planned(plan', Need, chosen) /\ plan'.assign \in Seq(Gift)
  <2>1. chosen = Chosen(Found(cables)) /\ cables \in SUBSET cables
    BY <1>7
  <2> HIDE DEF chosen
  <2>2. Planned(Plan(cables), DOMAIN chosen, chosen)
    BY <1>6, <1>7, <2>1, PlanPlanned
  <2> QED BY <1>4, <1>6, <1>7, <2>2, PlanSound DEF SoundPlan
<1>10. plan'.assign = <<>>
  BY <1>8, <1>9, AllJoined
<1>11. \A l \in plan'.links : Answers(l)'
  <2>1. \A l \in plan'.links : Answers(l)
    BY <1>3, <1>6, <1>8, <1>9, JoinedAnswer
  <2> QED BY <1>1, <2>1 DEF Answers
<1>12. Linked'
  BY <1>2, <1>9 DEF Linked, Planned
<1> QED BY <1>4, <1>5, <1>10, <1>11, <1>12

LEMMA PingSettles ==
  ASSUME SettleInv, Ping
  PROVE  SettleInv'
<1>1. /\ UNCHANGED <<nodes, cables, addr, plan, trouble>> /\ step = "ping" /\ step' = "done"
      /\ fails' = fails \union {<<"ping", l.k>> : l \in {l \in plan.links : ~Answers(l)}}
  BY DEF Ping
<1>2. CablingIsRight' = CablingIsRight /\ Linked' = Linked
  BY <1>1 DEF CablingIsRight, Errors, Chosen, Cands, Need, Linked
<1>3. SUFFICES ASSUME ~trouble, CablingIsRight PROVE fails' = {} /\ Linked
  BY <1>1, <1>2 DEF SettleInv
<1>4. fails = {} /\ Linked /\ \A l \in plan.links : Answers(l)
  BY <1>1, <1>3 DEF SettleInv
<1> QED BY <1>1, <1>4

LEMMA NextSettles ==
  ASSUME FabricAssumption, FabricInv, SettleInv, [NextFabric]_fabricVars
  PROVE  SettleInv'
<1>1. CASE Detect
  BY <1>1, DetectSettles
<1>2. CASE Decline
  BY <1>2 DEF Decline, SettleInv
<1>3. CASE Accept
  BY <1>3, AcceptSettles
<1>4. CASE Configure
  BY <1>4, ConfigureSettles
<1>5. CASE Redetect
  BY <1>5, RedetectSettles
<1>6. CASE Ping
  BY <1>6, PingSettles
<1>7. CASE UNCHANGED fabricVars
  <2>1. UNCHANGED <<nodes, cables, addr, step, plan, todo, fails, given, trouble>>
    BY <1>7 DEF fabricVars
  <2>2. /\ CablingIsRight' = CablingIsRight /\ Chosen(cables)' = Chosen(cables) /\ Need' = Need
        /\ Linked' = Linked
    BY <2>1 DEF CablingIsRight, Errors, Chosen, Cands, Need, Linked
  <2>3. Planned(plan, Need, Chosen(cables))' = Planned(plan, Need, Chosen(cables))
    BY <2>1, <2>2 DEF Planned, Joined
  <2>4. OnCourse' = OnCourse
    BY <2>1, <2>2 DEF OnCourse, Joined, Untouched, Gifted, OnePerPort
  <2>5. (\A l \in plan'.links : Answers(l)') = (\A l \in plan.links : Answers(l))
    BY <2>1 DEF Answers
  <2> QED BY <2>1, <2>2, <2>3, <2>4, <2>5 DEF SettleInv
<1> QED
  BY <1>1, <1>2, <1>3, <1>4, <1>5, <1>6, <1>7 DEF NextFabric

(* setup.sh gives no subnet twice, reports no link it did not see and,     *)
(* where the cabling is right and nothing is declined, refused or lost,    *)
(* ends step 4 with every needed link addressed and no FAIL.               *)
THEOREM FabricIsWholeHolds ==
  ASSUME FabricAssumption
  PROVE  SpecFabric => []FabricIsWhole
<1>1. InitFabric => FabricInv /\ SettleInv
  <2>1. InitFabric => SettleInv
    BY DEF InitFabric, SettleInv
  <2> QED BY <2>1, InitFabricInv
<1>2. FabricInv /\ SettleInv /\ [NextFabric]_fabricVars => (FabricInv /\ SettleInv)'
  BY NextFabricInv, NextSettles
<1>3. FabricInv /\ SettleInv => FabricIsWhole
  <2>1. SettleInv => Settles
    BY DEF SettleInv, Settles, Linked
  <2> QED BY <2>1, FabricInvGivenAreFree DEF FabricInv, FabricIsWhole
<1> QED BY <1>1, <1>2, <1>3, PTL DEF SpecFabric
=============================================================================
