------------------------------- MODULE Fabric -------------------------------
(***************************************************************************)
(* Step 4 of setup.sh.  Every node is probed, topology.py makes of the     *)
(* probes the cables, the links and the addresses to give, setup.sh asks,  *)
(* configures port after port, looks again, and pings over every link.     *)
(*                                                                         *)
(* A neighbour's answer may be lost in either probe, a port may refuse its *)
(* address, the second probe may fail.                                     *)
(***************************************************************************)
EXTENDS Integers, Sequences, FiniteSets

CONSTANTS
  NumPorts,      \* ports of a node, in the order of their bdf
  Fabrics        \* fabrics to look at; one is a record:
                 \*   nodes   how many, two or three; the head is 0
                 \*   cables  <<port, port>>, that of the lower node first
                 \*   addr    from ports to the addresses they have

(* With two nodes the ports of a third are not plugged in.                 *)
AllPorts == (0..2) \X (0..NumPorts-1)
Address  == [net : Nat, host : Nat]
NoAddr   == [net |-> 0, host |-> 0]

FabricAssumption ==
  /\ NumPorts \in Nat \ {0}
  /\ \A f \in Fabrics :
       /\ f.nodes \in {2, 3} /\ f.addr \in [AllPorts -> Address]
       /\ \A c \in f.cables : c \in AllPorts \X AllPorts /\ c[1][1] < c[2][1] /\ c[2][1] < f.nodes
       /\ \A p \in AllPorts : p[1] >= f.nodes => f.addr[p] = NoAddr

VARIABLES
  nodes,      \* how many there are
  cables,     \* what is plugged in
  addr,       \* the IPv4 address of every port
  step,       \* "detect", "ask", "configure", "ping", "done"
  plan,       \* topology.json: links, assign, errors
  todo,       \* addresses still to be given
  fails,      \* FAILS
  given,      \* the addresses setup.sh was told to give, cable by cable
  trouble     \* something was declined, failed or lost

fabricVars == <<nodes, cables, addr, step, plan, todo, fails, given, trouble>>

-----------------------------------------------------------------------------
(* topology.py                                                             *)

SameSubnet(a, b) == a # NoAddr /\ b # NoAddr /\ a.net = b.net /\ a.host # b.host

Carrier(p) == \E c \in cables : p \in {c[1], c[2]}

(* The cables an answer came over; with no answer at all, ports that are   *)
(* plugged in and share a subnet.                                          *)
Found(heard) ==
  IF heard # {} THEN heard
  ELSE {c \in AllPorts \X AllPorts :
          /\ c[1][1] < c[2][1] /\ Carrier(c[1]) /\ Carrier(c[2])
          /\ SameSubnet(addr[c[1]], addr[c[2]])}

PairOrder == << <<0, 1>>, <<1, 2>>, <<0, 2>> >>
Need == IF nodes = 2 THEN {1} ELSE {1, 2, 3}

Cands(found, k) == {c \in found : <<c[1][1], c[2][1]>> = PairOrder[k]}

(* cands[0]: ports are compared by their bdf, the lower node's first.      *)
First(cands) ==
  CHOOSE c \in cands : \A d \in cands :
    c[1][2] < d[1][2] \/ (c[1][2] = d[1][2] /\ c[2][2] <= d[2][2])

Chosen(found) == [k \in {k \in Need : Cands(found, k) # {}} |-> First(Cands(found, k))]

(* A needed pair without a cable, and a triangle that meets in one port    *)
Errors(chosen) ==
  {<<"no cable", k>> : k \in Need \ DOMAIN chosen}
  \union {<<"same port", p[1]>> : p \in {p \in AllPorts :
            nodes = 3 /\ Cardinality({k \in DOMAIN chosen : p \in {chosen[k][1], chosen[k][2]}}) = 2}}

(* Link k begins at its own number and goes up past the subnets in use.    *)
Third(k, taken) ==
  LET from == 20 + 2 * (k - 1)
  IN  CHOOSE n \in from..from+Cardinality(taken) :
        n \notin taken /\ \A m \in from..n-1 : m \in taken

(* Seeded fault: a subnet that was just given counts as free.              *)
TakenAsProbed(taken, net) == taken

Taken(taken, net) == taken \union {net}

Link(k, a, b, ipa, ipb) == [k |-> k, a |-> a, b |-> b, ipa |-> ipa, ipb |-> ipb]

(* Link k over cable c: with the addresses its ends have, or new ones      *)
WithLink(before, k, c) ==
  LET net == Third(k, before.taken)
      ipa == [net |-> net, host |-> c[1][1] + 1]
      ipb == [net |-> net, host |-> c[2][1] + 1]
  IN  IF SameSubnet(addr[c[1]], addr[c[2]])
      THEN [before EXCEPT !.links = @ \union {Link(k, c[1], c[2], addr[c[1]], addr[c[2]])}]
      ELSE [links  |-> before.links \union {Link(k, c[1], c[2], ipa, ipb)},
            assign |-> before.assign \o << <<c[1], ipa>>, <<c[2], ipb>> >>,
            taken  |-> Taken(before.taken, net)]

Extended(before, k, chosen) == IF k \in DOMAIN chosen THEN WithLink(before, k, chosen[k]) ELSE before

NetsInUse == {addr[p].net : p \in {p \in AllPorts : addr[p] # NoAddr}}

(* The links one after the other, with the subnets in use before each      *)
Links(chosen) ==
  LET none == [links |-> {}, assign |-> <<>>, taken |-> NetsInUse]
  IN  Extended(Extended(Extended(none, 1, chosen), 2, chosen), 3, chosen)

Plan(heard) ==
  LET chosen == Chosen(Found(heard))
      made   == Links(chosen)
  IN  [links |-> made.links, assign |-> made.assign, errors |-> Errors(chosen)]

-----------------------------------------------------------------------------
(* setup.sh                                                                *)

NoPlan == [links |-> {}, assign |-> <<>>, errors |-> {}]

InitFabric ==
  /\ \E f \in Fabrics : nodes = f.nodes /\ cables = f.cables /\ addr = f.addr
  /\ step = "detect" /\ plan = NoPlan /\ todo = <<>>
  /\ fails = {} /\ given = <<>> /\ trouble = FALSE

(* probe_all, topo; the errors of this plan are the only ones reported.    *)
Detect ==
  /\ step = "detect"
  /\ \E heard \in SUBSET cables :
       /\ plan' = Plan(heard)
       /\ trouble' = (heard # cables)
  /\ fails' = plan'.errors
  /\ step' = IF plan'.assign = <<>> THEN "ping" ELSE "ask"
  /\ UNCHANGED <<nodes, cables, addr, todo, given>>

(* ask_yn; --check declines.                                               *)
Decline ==
  /\ step = "ask"
  /\ step' = "ping" /\ trouble' = TRUE
  /\ UNCHANGED <<nodes, cables, addr, plan, todo, fails, given>>

Accept ==
  /\ step = "ask"
  /\ step' = "configure" /\ todo' = plan.assign
  /\ given' = plan.assign
  /\ UNCHANGED <<nodes, cables, addr, plan, fails, trouble>>

(* netconfig.sh on the port's node gives it the address in place of the    *)
(* one it had, or fails.                                                   *)
Configure ==
  /\ step = "configure" /\ todo # <<>>
  /\ \/ /\ addr' = [addr EXCEPT ![Head(todo)[1]] = Head(todo)[2]]
        /\ UNCHANGED <<fails, trouble>>
     \/ /\ fails' = fails \union {<<"not set", Head(todo)[1]>>}
        /\ trouble' = TRUE /\ UNCHANGED addr
  /\ todo' = Tail(todo)
  /\ UNCHANGED <<nodes, cables, step, plan, given>>

(* probe_all && topo, and a look at what there is to assign now: in the    *)
(* plan before when a probe fails.                                         *)
Redetect ==
  /\ step = "configure" /\ todo = <<>>
  /\ \/ /\ fails' = fails \union {<<"probe">>, <<"still no IPv4">>}
        /\ trouble' = TRUE /\ UNCHANGED plan
     \/ \E heard \in SUBSET cables :
          /\ plan' = Plan(heard)
          /\ fails' = fails \union (IF plan'.assign = <<>> THEN {} ELSE {<<"still no IPv4">>})
          /\ trouble' = (trouble \/ heard # cables)
  /\ step' = "ping"
  /\ UNCHANGED <<nodes, cables, addr, todo, given>>

(* A ping from one end to the address the plan has for the other           *)
Answers(l) == /\ <<l.a, l.b>> \in cables /\ addr[l.b] = l.ipb
              /\ SameSubnet(addr[l.a], addr[l.b])

Ping ==
  /\ step = "ping"
  /\ fails' = fails \union {<<"ping", l.k>> : l \in {l \in plan.links : ~Answers(l)}}
  /\ step' = "done"
  /\ UNCHANGED <<nodes, cables, addr, plan, todo, given, trouble>>

NextFabric == Detect \/ Decline \/ Accept \/ Configure \/ Redetect \/ Ping

SpecFabric == InitFabric /\ [][NextFabric]_fabricVars

-----------------------------------------------------------------------------
(* Where the cabling is as it should be and nothing is declined, refused   *)
(* or lost, step 4 ends with every needed link addressed and no FAIL: what *)
(* it gave is what it finds when it looks again.                           *)
CablingIsRight == Errors(Chosen(cables)) = {}

Settles ==
  step = "done" /\ ~trouble /\ CablingIsRight =>
    fails = {} /\ {l.k : l \in plan.links} = Need

(* However it went, a subnet it gave to a cable is on no port but those at *)
(* the cable's ends.                                                       *)
GivenAreFree ==
  \A i \in DOMAIN given : addr[given[i][1]] = given[i][2] =>
    \A q \in AllPorts : addr[q].net = given[i][2].net =>
      \E j \in DOMAIN given : given[j][1] = q /\ (i + 1) \div 2 = (j + 1) \div 2

(* Without a FAIL each link it reports is a cable whose ends have the      *)
(* addresses it reports.                                                   *)
LinksAreReal ==
  step = "done" /\ fails = {} =>
    \A l \in plan.links : <<l.a, l.b>> \in cables /\ addr[l.a] = l.ipa /\ addr[l.b] = l.ipb

(* setup.sh finds what it configured when it looks again, gives no subnet  *)
(* twice, and reports no link it did not see: the three above, of step 4   *)
(* and topology.py together.                                               *)
FabricIsWhole == Settles /\ GivenAreFree /\ LinksAreReal
=============================================================================
