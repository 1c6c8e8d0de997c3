------------------------- MODULE FabricRecipeProofs --------------------------
(***************************************************************************)
(* Lemmas about the sequences of calls in FabricRecipes, for recipes of    *)
(* any size: what a recipe has done before each of its calls, how many     *)
(* ports it asks a device for, what it gives names and addresses to, and   *)
(* the order of its calls, by induction over the sequences it is made of.  *)
(* Which recipes fit is defined in TopologyGenerator.                      *)
(***************************************************************************)
EXTENDS TopologyGenerator, ListLemmas

------------------------------------------------------------------------------
\* The calls that recipes make.

DeviceKinds == {"superspine", "spine", "leaf", "ipu"}
Devices == [kind : DeviceKinds, index : Nat]

\* The ports each device of the recipe is created with.
PortCount(r, d) ==
    IF d.kind = "ipu" THEN 3 + (IF r.kind = "fixed" THEN 0 ELSE r.vms)
    ELSE IF r.kind = "fixed" THEN 32
    ELSE IF r.kind = "tier" THEN r.superspinePorts
    ELSE IF d.kind = "leaf" THEN r.leafPorts ELSE r.spinePorts

\* The devices of the simulation that is generated: the spines that a tier is
\* linked with lie in the pods.
Own(r, d) == d \in Devices /\ ~ (r.kind = "tier" /\ d.kind # "superspine")

Hosts == ({"host"} \X Nat \X Nat) \cup ({"vm"} \X Nat \X Nat \X Nat)

\* The calls the recipe may make.
Switches(r) == {c \in [call : {"createSwitch"}, device : Devices, portCount : Nat] :
                    Own(r, c.device) /\ c.portCount = PortCount(r, c.device)}
LocalLinks(r) == {c \in [call : {"createLink"}, src : Devices, tgt : Devices] :
                    Own(r, c.src) /\ Own(r, c.tgt) /\ c.src # c.tgt}
FarLinks(r) == {c \in [call : {"createExternalLink"}, d1 : Devices, d2 : Devices, pod : Nat] :
                    Own(r, c.d1) /\ ~ Own(r, c.d2)}
Nics(r) == {c \in [call : {"createNIC"}, host : Hosts, rack : Nat, leaf : Nat, hostID : Nat,
                   device : Devices] : Own(r, c.device)}
Latches(r) == {c \in [call : {"latch"}, device : Devices] : Own(r, c.device)}
Starts(r) == {c \in [call : {"startAt"}, device : Devices, port : Nat] :
                    c.port \in 1..PortCount(r, c.device)}
EndAts(r) == {c \in [call : {"endAt"}, device : Devices, port : Nat] : ~ Own(r, c.device)}
Saves == [call : {"savePod"}, pod : Nat]
Allowed(r) == Switches(r) \cup LocalLinks(r) \cup FarLinks(r) \cup Nics(r)
              \cup Latches(r) \cup Starts(r) \cup EndAts(r) \cup Saves

\* What a call relies on, and what it does for the later ones: devices are there, and
\* have handed out a port.
There(d) == <<"there", d>>
Linked(d) == <<"linked", d>>
Needs(c) ==
    CASE c.call = "createLink" -> {There(c.src), There(c.tgt)}
      [] c.call = "createExternalLink" -> {There(c.d1)}
      [] c.call = "createNIC" -> {There(c.device)}
      [] c.call = "latch" -> {There(c.device), Linked(c.device)}
      [] OTHER -> {}
Gives(c) ==
    CASE c.call = "createSwitch" -> {There(c.device)}
      [] c.call = "createLink" -> {Linked(c.src), Linked(c.tgt)}
      [] OTHER -> {}

Given(cs) == UNION {Gives(cs[k]) : k \in 1..Len(cs)}
GivenBefore(cs, k) == UNION {Gives(cs[j]) : j \in 1..(k - 1)}

\* Calls that can be made where H has been done, and that do G.
Plan(r, H, G) ==
    {cs \in Seq(Allowed(r)) :
        /\ \A k \in 1..Len(cs) : Needs(cs[k]) \subseteq H \cup GivenBefore(cs, k)
        /\ G \subseteq Given(cs)}

------------------------------------------------------------------------------
\* What a sequence of calls relies on and does.

\* A plan works where more has been done, and does less.
LEMMA PlanWeaken ==
    ASSUME NEW r, NEW H, NEW H2, H \subseteq H2, NEW G, NEW G2, G2 \subseteq G,
           NEW cs \in Plan(r, H, G)
    PROVE  cs \in Plan(r, H2, G2)
  BY DEF Plan

\* One plan after the other.
LEMMA PlanConcat ==
    ASSUME NEW r, NEW H, NEW G1, NEW G2, NEW a \in Plan(r, H, G1), NEW b \in Plan(r, H \cup G1, G2)
    PROVE  a \o b \in Plan(r, H, G1 \cup G2)
  <1>1. a \in Seq(Allowed(r)) /\ b \in Seq(Allowed(r))
    BY DEF Plan
  <1> DEFINE c == a \o b
  <1>2. /\ c \in Seq(Allowed(r)) /\ Len(c) = Len(a) + Len(b)
        /\ \A k \in 1..Len(a) : c[k] = a[k]
        /\ \A k \in 1..Len(b) : c[Len(a) + k] = b[k]
    <2> HIDE DEF Allowed
    <2> QED
      BY <1>1
  <1>3. Len(a) \in Nat /\ Len(b) \in Nat
    BY <1>1
  <1> HIDE DEF c
  <1>4. Given(a) \cup Given(b) \subseteq Given(c)
    <2>1. ASSUME NEW k \in 1..Len(a)
          PROVE  Gives(a[k]) \subseteq Given(c)
      <3>1. k \in 1..Len(c) /\ c[k] = a[k]
        BY <1>2, <1>3
      <3> QED
        BY <3>1 DEF Given
    <2>2. ASSUME NEW k \in 1..Len(b)
          PROVE  Gives(b[k]) \subseteq Given(c)
      <3>1. Len(a) + k \in 1..Len(c) /\ c[Len(a) + k] = b[k]
        BY <1>2, <1>3
      <3> QED
        BY <3>1 DEF Given
    <2> QED
      BY <2>1, <2>2 DEF Given
  <1>5. ASSUME NEW k \in 1..Len(c)
        PROVE  Needs(c[k]) \subseteq H \cup GivenBefore(c, k)
    <2>1. CASE k \in 1..Len(a)
      <3>1. Needs(a[k]) \subseteq H \cup GivenBefore(a, k)
        BY <2>1 DEF Plan
      <3>2. \A j \in 1..(k - 1) : c[j] = a[j]
        BY <1>2, <1>3, <2>1
      <3>3. GivenBefore(a, k) = GivenBefore(c, k)
        BY <3>2 DEF GivenBefore
      <3> QED
        BY <1>2, <2>1, <3>1, <3>3
    <2>2. CASE k \notin 1..Len(a)
      <3>1. PICK m : m = k - Len(a)
        OBVIOUS
      <3>2. m \in 1..Len(b) /\ k = Len(a) + m /\ c[k] = b[m]
        BY <1>2, <1>3, <2>2, <3>1
      <3>3. Needs(b[m]) \subseteq (H \cup G1) \cup GivenBefore(b, m)
        BY <3>2 DEF Plan
      <3>4. G1 \subseteq GivenBefore(c, k)
        <4>1. G1 \subseteq Given(a)
          BY DEF Plan
        <4>2. \A j \in 1..Len(a) : j \in 1..(k - 1) /\ c[j] = a[j]
          BY <1>2, <1>3, <3>2
        <4> QED
          BY <4>1, <4>2 DEF Given, GivenBefore
      <3>5. GivenBefore(b, m) \subseteq GivenBefore(c, k)
        <4>1. \A j \in 1..(m - 1) : Len(a) + j \in 1..(k - 1) /\ c[Len(a) + j] = b[j]
          BY <1>2, <1>3, <3>2
        <4> QED
          BY <4>1 DEF GivenBefore
      <3> QED
        BY <3>2, <3>3, <3>4, <3>5
    <2> QED
      BY <2>1, <2>2
  <1>6. G1 \subseteq Given(a) /\ G2 \subseteq Given(b)
    BY DEF Plan
  <1>7. c \in Plan(r, H, G1 \cup G2)
    BY <1>2, <1>4, <1>5, <1>6 DEF Plan
  <1> QED
    BY <1>7 DEF c

\* No calls do nothing.
LEMMA PlanNothing ==
    ASSUME NEW r, NEW H
    PROVE  <<>> \in Plan(r, H, {})
  <1>1. <<>> \in Seq(Allowed(r)) /\ Len(<<>>) = 0
    OBVIOUS
  <1> QED
    BY <1>1 DEF Plan

\* Plans that can be made in any order, one after the other.
LEMMA PlanFlatten ==
    ASSUME NEW r, NEW H, NEW n \in Nat, NEW seqs, NEW G, NEW All,
           seqs = [i \in 1..n |-> seqs[i]],
           \A i \in 1..n : seqs[i] \in Plan(r, H, G[i]),
           \A x \in All : \E i \in 1..n : x \in G[i]
    PROVE  FlattenSeq(seqs) \in Plan(r, H, All)
  <1> DEFINE Until(m) == UNION {G[i] : i \in 1..m}
             P == [m \in 0..n |-> Plan(r, H, Until(m))]
             S == Allowed(r)
  <1>1. seqs \in Seq(Seq(S)) /\ Len(seqs) = n
    <2>1. \A i \in 1..n : seqs[i] \in Seq(S)
      BY DEF Plan
    <2>2. seqs \in [1..n -> Seq(S)]
      BY <2>1
    <2> HIDE DEF S
    <2> QED
      BY <2>2
  <1>2. <<>> \in P[0]
    <2>1. Until(0) = {}
      OBVIOUS
    <2>2. P[0] = Plan(r, H, Until(0))
      OBVIOUS
    <2> HIDE DEF Until, P
    <2> QED
      BY <2>1, <2>2, PlanNothing
  <1>3. ASSUME NEW i \in 1..Len(seqs), NEW a \in P[i - 1] \cap Seq(S)
        PROVE  a \o seqs[i] \in P[i]
    <2>1. i \in 1..n /\ i \in 0..n /\ i - 1 \in 0..n
      BY <1>1
    <2>2. P[i - 1] = Plan(r, H, Until(i - 1)) /\ P[i] = Plan(r, H, Until(i))
      BY <2>1
    <2>3. Until(i) = Until(i - 1) \cup G[i]
      <3>1. 1..i = 1..(i - 1) \cup {i}
        BY <2>1
      <3> QED
        BY <3>1
    <2> HIDE DEF Until, P
    <2>4. seqs[i] \in Plan(r, H \cup Until(i - 1), G[i])
      <3>1. seqs[i] \in Plan(r, H, G[i])
        BY <2>1
      <3> QED
        BY <3>1, PlanWeaken
    <2> QED
      BY <2>2, <2>3, <2>4, PlanConcat
  <1>4. FlattenSeq(seqs) \in P[Len(seqs)]
    <2> HIDE DEF P, S
    <2> QED
      BY <1>1, <1>2, <1>3, FlattenInduction
  <1>5. FlattenSeq(seqs) \in Plan(r, H, Until(n)) /\ All \subseteq Until(n)
    BY <1>1, <1>4
  <1> HIDE DEF Until
  <1> QED
    BY <1>5, PlanWeaken

\* One call, or the same call several times.
LEMMA PlanCalls ==
    ASSUME NEW r, NEW H, NEW c \in Allowed(r), Needs(c) \subseteq H, NEW n \in Nat
    PROVE  /\ <<c>> \in Plan(r, H, Gives(c))
           /\ [i \in 1..n |-> c] \in Plan(r, H, IF n = 0 THEN {} ELSE Gives(c))
  <1>1. <<c>> \in Plan(r, H, Gives(c))
    <2>1. <<c>> \in Seq(Allowed(r)) /\ Len(<<c>>) = 1 /\ <<c>>[1] = c
      OBVIOUS
    <2>2. 1 \in 1..1 /\ \A k \in 1..1 : k = 1
      OBVIOUS
    <2>3. Gives(c) \subseteq Given(<<c>>)
      BY <2>1, <2>2 DEF Given
    <2> QED
      BY <2>1, <2>2, <2>3 DEF Plan
  <1> DEFINE s == [i \in 1..n |-> c]
  <1>2. s \in Seq(Allowed(r)) /\ Len(s) = n /\ \A i \in 1..n : s[i] = c
    <2> HIDE DEF Allowed
    <2> QED
      OBVIOUS
  <1> HIDE DEF s
  <1>3. n # 0 => Gives(c) \subseteq Given(s)
    <2>1. n # 0 => 1 \in 1..Len(s) /\ s[1] = c
      BY <1>2
    <2> QED
      BY <2>1 DEF Given
  <1>4. s \in Plan(r, H, IF n = 0 THEN {} ELSE Gives(c))
    BY <1>2, <1>3 DEF Plan
  <1> QED
    BY <1>1, <1>4 DEF s

------------------------------------------------------------------------------
\* What the pieces of the recipes rely on and do.

\* The devices that the recipes name, and those of this simulation.
LEMMA NamedDevices ==
    ASSUME NEW i \in Nat, NEW j \in Nat
    PROVE  /\ Superspine(i) \in Devices /\ Superspine(i).kind = "superspine"
           /\ Spine(i) \in Devices /\ Spine(i).kind = "spine" /\ Spine(i).index = i
           /\ Leaf(i) \in Devices /\ Leaf(i).kind = "leaf" /\ Leaf(i).index = i
           /\ IPU(i, j) \in Devices /\ IPU(i, j).kind = "ipu"
           /\ NoLeaf.kind = "none"
  BY DEF Superspine, Spine, Leaf, IPU, NoLeaf, Device, Devices, DeviceKinds

\* A buildable recipe gives each device of its own at least one port.
LEMMA PortCounts ==
    ASSUME NEW r, Buildable(r), NEW d \in Devices, Own(r, d)
    PROVE  PortCount(r, d) \in Nat \ {0}
  BY DEF Buildable, PortCount, Own, Devices, DeviceKinds

\* Creating a switch.
LEMMA SwitchPlan ==
    ASSUME NEW r, NEW H, Buildable(r), NEW d \in Devices, Own(r, d)
    PROVE  Switch(d, PortCount(r, d)) \in Plan(r, H, {There(d)})
  <1> DEFINE c == [call |-> "createSwitch", device |-> d, portCount |-> PortCount(r, d)]
  <1>1. c \in Switches(r)
    <2>1. c.device = d /\ c.portCount = PortCount(r, d)
      OBVIOUS
    <2>2. c \in [call : {"createSwitch"}, device : Devices, portCount : Nat]
      BY PortCounts
    <2> QED
      BY <2>1, <2>2 DEF Switches
  <1>2. c.call = "createSwitch" /\ c.device = d
    OBVIOUS
  <1>3. Switch(d, PortCount(r, d)) = <<c>>
    BY DEF Switch
  <1> HIDE DEF c
  <1>4. Needs(c) = {} /\ Gives(c) = {There(d)}
    BY <1>2 DEF Needs, Gives
  <1>5. c \in Allowed(r)
    BY <1>1 DEF Allowed
  <1>6. <<c>> \in Plan(r, H, Gives(c))
    BY <1>4, <1>5, PlanCalls
  <1> QED
    BY <1>3, <1>4, <1>6

\* A trunk between two switches that were created.
LEMMA TrunkPlan ==
    ASSUME NEW r, NEW H, NEW a \in Devices, NEW b \in Devices, Own(r, a), Own(r, b), a # b,
           {There(a), There(b)} \subseteq H, NEW n \in Nat
    PROVE  Trunk(a, b, n) \in Plan(r, H, IF n = 0 THEN {} ELSE {Linked(a), Linked(b)})
  <1> DEFINE c == [call |-> "createLink", src |-> a, tgt |-> b]
  <1>1. c \in LocalLinks(r)
    BY DEF LocalLinks
  <1>2. c.call = "createLink" /\ c.src = a /\ c.tgt = b
    OBVIOUS
  <1>3. Trunk(a, b, n) = [i \in 1..n |-> c]
    BY DEF Trunk
  <1> HIDE DEF c
  <1>4. Needs(c) = {There(a), There(b)} /\ Gives(c) = {Linked(a), Linked(b)}
    BY <1>2 DEF Needs, Gives
  <1>5. c \in Allowed(r)
    BY <1>1 DEF Allowed
  <1>6. [i \in 1..n |-> c] \in Plan(r, H, IF n = 0 THEN {} ELSE Gives(c))
    BY <1>4, <1>5, PlanCalls
  <1> QED
    BY <1>3, <1>4, <1>6

\* A trunk to a switch of another simulation.
LEMMA ExternalTrunkPlan ==
    ASSUME NEW r, NEW H, NEW a \in Devices, NEW b \in Devices, Own(r, a), ~ Own(r, b),
           There(a) \in H, NEW pod \in Nat, NEW n \in Nat
    PROVE  ExternalTrunk(a, b, pod, n) \in Plan(r, H, {})
  <1> DEFINE c == [call |-> "createExternalLink", d1 |-> a, d2 |-> b, pod |-> pod]
  <1>1. c \in FarLinks(r)
    BY DEF FarLinks
  <1>2. c.call = "createExternalLink" /\ c.d1 = a
    OBVIOUS
  <1>3. ExternalTrunk(a, b, pod, n) = [i \in 1..n |-> c]
    BY DEF ExternalTrunk
  <1> HIDE DEF c
  <1>4. Needs(c) = {There(a)}
    BY <1>2 DEF Needs
  <1>5. c \in Allowed(r)
    BY <1>1 DEF Allowed
  <1>6. [i \in 1..n |-> c] \in Plan(r, H, IF n = 0 THEN {} ELSE Gives(c))
    BY <1>4, <1>5, PlanCalls
  <1> QED
    BY <1>3, <1>6, PlanWeaken

\* Latching the port of a switch that has links.
LEMMA LatchPlan ==
    ASSUME NEW r, NEW H, NEW d \in Devices, Own(r, d), {There(d), Linked(d)} \subseteq H
    PROVE  Latch(d) \in Plan(r, H, {})
  <1> DEFINE c == [call |-> "latch", device |-> d]
  <1>1. c \in Latches(r)
    BY DEF Latches
  <1>2. c.call = "latch" /\ c.device = d
    OBVIOUS
  <1>3. Latch(d) = <<c>>
    BY DEF Latch
  <1> HIDE DEF c
  <1>4. Needs(c) = {There(d), Linked(d)}
    BY <1>2 DEF Needs
  <1>5. c \in Allowed(r)
    BY <1>1 DEF Allowed
  <1>6. <<c>> \in Plan(r, H, Gives(c))
    BY <1>4, <1>5, PlanCalls
  <1> QED
    BY <1>3, <1>6, PlanWeaken

\* An interface on a port of a switch that was created.
LEMMA NicPlan ==
    ASSUME NEW r, NEW H, NEW d \in Devices, Own(r, d), There(d) \in H,
           NEW host \in Hosts, NEW rack \in Nat, NEW hostID \in Nat, NEW leaf \in Nat
    PROVE  Nic(host, rack, hostID, leaf, d) \in Plan(r, H, {})
  <1> DEFINE c == [call |-> "createNIC", host |-> host, rack |-> rack, leaf |-> leaf,
                   hostID |-> hostID, device |-> d]
  <1>1. c \in Nics(r)
    <2>1. c.device = d
      OBVIOUS
    <2>2. c \in [call : {"createNIC"}, host : Hosts, rack : Nat, leaf : Nat, hostID : Nat,
                 device : Devices]
      <3> HIDE DEF Hosts, Devices
      <3> QED
        OBVIOUS
    <2> QED
      BY <2>1, <2>2 DEF Nics
  <1>2. c.call = "createNIC" /\ c.device = d
    OBVIOUS
  <1>3. Nic(host, rack, hostID, leaf, d) = <<c>>
    BY DEF Nic
  <1> HIDE DEF c
  <1>4. Needs(c) = {There(d)}
    BY <1>2 DEF Needs
  <1>5. c \in Allowed(r)
    BY <1>1 DEF Allowed
  <1>6. <<c>> \in Plan(r, H, Gives(c))
    BY <1>4, <1>5, PlanCalls
  <1> QED
    BY <1>3, <1>6, PlanWeaken

\* The ports of a switch begin at another one, or end there; an addendum is saved.
LEMMA OtherPlans ==
    ASSUME NEW r, NEW H, NEW d \in Devices, NEW n \in Nat
    PROVE  /\ n \in 1..PortCount(r, d) => StartAt(d, n) \in Plan(r, H, {})
           /\ ~ Own(r, d) => EndAt(d, n) \in Plan(r, H, {})
           /\ SavePod(n) \in Plan(r, H, {})
  <1> DEFINE start == [call |-> "startAt", device |-> d, port |-> n]
             end == [call |-> "endAt", device |-> d, port |-> n]
             save == [call |-> "savePod", pod |-> n]
  <1>1. /\ n \in 1..PortCount(r, d) => start \in Starts(r)
        /\ ~ Own(r, d) => end \in EndAts(r)
        /\ save \in Saves
    BY DEF Starts, EndAts, Saves
  <1>2. start.call = "startAt" /\ end.call = "endAt" /\ save.call = "savePod"
    OBVIOUS
  <1>3. StartAt(d, n) = <<start>> /\ EndAt(d, n) = <<end>> /\ SavePod(n) = <<save>>
    BY DEF StartAt, EndAt, SavePod
  <1> HIDE DEF start, end, save
  <1>4. ASSUME NEW c \in {start, end, save}, c \in Allowed(r)
        PROVE  <<c>> \in Plan(r, H, {})
    <2>1. Needs(c) = {}
      BY <1>2 DEF Needs
    <2>2. <<c>> \in Plan(r, H, Gives(c))
      BY <1>4, <2>1, PlanCalls
    <2> QED
      BY <2>2, PlanWeaken
  <1> QED
    BY <1>1, <1>3, <1>4 DEF Allowed

\* A plan followed by one that does no more.
LEMMA PlanThen ==
    ASSUME NEW r, NEW H, NEW G, NEW a \in Plan(r, H, G), NEW b \in Plan(r, H \cup G, {})
    PROVE  a \o b \in Plan(r, H, G)
  <1>1. a \o b \in Plan(r, H, G \cup {})
    BY PlanConcat
  <1>2. G \cup {} = G
    OBVIOUS
  <1> QED
    BY <1>1, <1>2

\* The same for each number.
LEMMA PlanEach ==
    ASSUME NEW r, NEW H, NEW n \in Nat, NEW seqs, seqs = [i \in 1..n |-> seqs[i]],
           \A i \in 1..n : seqs[i] \in Plan(r, H, {})
    PROVE  FlattenSeq(seqs) \in Plan(r, H, {})
  <1> DEFINE G == [i \in 1..n |-> {}]
  <1>1. \A i \in 1..n : seqs[i] \in Plan(r, H, G[i])
    OBVIOUS
  <1> HIDE DEF G
  <1> QED
    BY <1>1, PlanFlatten

\* Switches, one for each number.
LEMMA SwitchesPlan ==
    ASSUME NEW r, NEW H, Buildable(r), NEW n \in Nat, NEW d, NEW f, NEW All,
           \A i \in 1..n : d[i] \in Devices /\ Own(r, d[i]),
           f = [i \in 1..n |-> Switch(d[i], PortCount(r, d[i]))],
           \A x \in All : \E i \in 1..n : x = There(d[i])
    PROVE  FlattenSeq(f) \in Plan(r, H, All)
  <1> DEFINE G == [i \in 1..n |-> {There(d[i])}]
  <1>1. \A i \in 1..n : f[i] \in Plan(r, H, G[i])
    BY SwitchPlan
  <1>2. f = [i \in 1..n |-> f[i]]
    OBVIOUS
  <1>3. \A x \in All : \E i \in 1..n : x \in G[i]
    OBVIOUS
  <1> HIDE DEF G
  <1> QED
    BY <1>1, <1>2, <1>3, PlanFlatten

\* An IPU with its links to the leaves, and the interfaces of a server and of its
\* virtual machines.
LEMMA ServerPlan ==
    ASSUME NEW r, NEW H, Buildable(r), NEW rack \in Nat, NEW host \in Nat, NEW vms \in Nat,
           NEW leaf1 \in Devices, Own(r, leaf1), leaf1.kind = "leaf", There(leaf1) \in H,
           NEW leaf2,
           leaf2 # NoLeaf => leaf2 \in Devices /\ Own(r, leaf2) /\ leaf2.kind = "leaf"
                             /\ There(leaf2) \in H,
           Own(r, IPU(rack, host)), PortCount(r, IPU(rack, host)) = 2 + 1 + vms
    PROVE  ServerIPUAndVMs(rack, host, leaf1, leaf2, vms) \in Plan(r, H, {})
  <1>1. PICK ipu : ipu = IPU(rack, host)
    OBVIOUS
  <1>2. ipu \in Devices /\ ipu.kind = "ipu" /\ Own(r, ipu) /\ PortCount(r, ipu) = 2 + 1 + vms
    BY <1>1, NamedDevices
  <1>3. PICK second : second = IF leaf2 = NoLeaf THEN leaf1 ELSE leaf2
    OBVIOUS
  <1>4. second \in Devices /\ Own(r, second) /\ second.kind = "leaf" /\ There(second) \in H
    BY <1>3
  <1> DEFINE G == {There(ipu)}
             switch == Switch(ipu, 2 + 1 + vms)
             up1 == Trunk(leaf1, ipu, 1)
             up2 == Trunk(second, ipu, 1)
             nic == Nic(<<"host", rack, host>>, rack, host, 1, ipu)
             vm == [i \in 1..vms |-> Nic(<<"vm", rack, host, i>>, rack, host, 10 + i, ipu)]
  <1>5. switch \in Plan(r, H, G)
    BY <1>2, SwitchPlan
  <1>6. ASSUME NEW leaf \in Devices, Own(r, leaf), leaf.kind = "leaf", There(leaf) \in H
        PROVE  Trunk(leaf, ipu, 1) \in Plan(r, H \cup G, {})
    <2>1. leaf # ipu /\ {There(leaf), There(ipu)} \subseteq H \cup G /\ 1 \in Nat
      BY <1>2, <1>6
    <2>2. Trunk(leaf, ipu, 1) \in Plan(r, H \cup G, IF 1 = 0 THEN {} ELSE {Linked(leaf), Linked(ipu)})
      <3> HIDE DEF G
      <3> QED
        BY <1>2, <1>6, <2>1, TrunkPlan
    <2> QED
      BY <2>2, PlanWeaken
  <1>7. up1 \in Plan(r, H \cup G, {}) /\ up2 \in Plan(r, H \cup G, {})
    BY <1>4, <1>6
  <1>8. nic \in Plan(r, H \cup G, {})
    <2>1. <<"host", rack, host>> \in Hosts /\ There(ipu) \in H \cup G /\ 1 \in Nat
      BY DEF Hosts
    <2> HIDE DEF G
    <2> QED
      BY <1>2, <2>1, NicPlan
  <1>9. FlattenSeq(vm) \in Plan(r, H \cup G, {})
    <2>1. ASSUME NEW i \in 1..vms
          PROVE  vm[i] \in Plan(r, H \cup G, {})
      <3>1. <<"vm", rack, host, i>> \in Hosts /\ There(ipu) \in H \cup G /\ 10 + i \in Nat
        BY DEF Hosts
      <3>2. vm[i] = Nic(<<"vm", rack, host, i>>, rack, host, 10 + i, ipu)
        OBVIOUS
      <3> HIDE DEF G, vm
      <3>3. Nic(<<"vm", rack, host, i>>, rack, host, 10 + i, ipu) \in Plan(r, H \cup G, {})
        BY <1>2, <3>1, NicPlan
      <3> QED
        BY <3>2, <3>3
    <2>2. vm = [i \in 1..vms |-> vm[i]]
      OBVIOUS
    <2> HIDE DEF vm, G
    <2> QED
      BY <2>1, <2>2, PlanEach
  <1>10. ServerIPUAndVMs(rack, host, leaf1, leaf2, vms)
             = switch \o up1 \o up2 \o nic \o FlattenSeq(vm)
    BY <1>1, <1>3 DEF ServerIPUAndVMs, ForEach
  <1> HIDE DEF G, switch, up1, up2, nic, vm
  <1>11. switch \o up1 \in Plan(r, H, G)
    BY <1>5, <1>7, PlanThen
  <1>12. switch \o up1 \o up2 \in Plan(r, H, G)
    BY <1>7, <1>11, PlanThen
  <1>13. switch \o up1 \o up2 \o nic \in Plan(r, H, G)
    BY <1>8, <1>12, PlanThen
  <1>14. switch \o up1 \o up2 \o nic \o FlattenSeq(vm) \in Plan(r, H, G)
    BY <1>9, <1>13, PlanThen
  <1> QED
    BY <1>10, <1>14, PlanWeaken

\* The hosts of a rack, when its leaves are there.
LEMMA RackPlan ==
    ASSUME NEW r, NEW H, Buildable(r), NEW rack \in Nat, NEW count \in Nat, NEW vms \in Nat,
           NEW haveIPU \in BOOLEAN,
           NEW leaf1 \in Devices, Own(r, leaf1), leaf1.kind = "leaf", There(leaf1) \in H,
           NEW leaf2,
           leaf2 # NoLeaf => leaf2 \in Devices /\ Own(r, leaf2) /\ leaf2.kind = "leaf"
                             /\ There(leaf2) \in H,
           haveIPU => r.kind \in {"access", "plain"} /\ vms = r.vms
    PROVE  RackHosts(rack, leaf1, leaf2, count, haveIPU, vms) \in Plan(r, H, {})
  <1> DEFINE f == [h \in 1..count |-> RackHost(rack, h, leaf1, leaf2, haveIPU, vms)]
  <1>1. ASSUME NEW h \in 1..count
        PROVE  RackHost(rack, h, leaf1, leaf2, haveIPU, vms) \in Plan(r, H, {})
    <2>1. h \in Nat
      OBVIOUS
    <2>2. CASE haveIPU
      <3>1. IPU(rack, h) \in Devices /\ IPU(rack, h).kind = "ipu"
        BY <2>1, NamedDevices
      <3>2. Own(r, IPU(rack, h)) /\ PortCount(r, IPU(rack, h)) = 2 + 1 + vms
        BY <2>2, <3>1 DEF Own, PortCount
      <3>3. ServerIPUAndVMs(rack, h, leaf1, leaf2, vms) \in Plan(r, H, {})
        BY <2>1, <3>2, ServerPlan
      <3> QED
        BY <2>2, <3>3 DEF RackHost
    <2>3. CASE ~ haveIPU
      <3> DEFINE host == <<"host", rack, h>>
      <3>1. host \in Hosts /\ 1 \in Nat /\ 2 \in Nat
        BY <2>1 DEF Hosts
      <3>2. RackHost(rack, h, leaf1, leaf2, haveIPU, vms) =
                Nic(host, rack, h, 1, leaf1)
                \o (IF leaf2 = NoLeaf THEN <<>> ELSE Nic(host, rack, h, 2, leaf2))
        BY <2>3 DEF RackHost
      <3> HIDE DEF host
      <3>3. Nic(host, rack, h, 1, leaf1) \in Plan(r, H, {})
        BY <2>1, <3>1, NicPlan
      <3>4. leaf2 # NoLeaf => Nic(host, rack, h, 2, leaf2) \in Plan(r, H, {})
        BY <2>1, <3>1, NicPlan
      <3>5. <<>> \in Plan(r, H, {})
        BY PlanNothing
      <3>6. PICK b : b = IF leaf2 = NoLeaf THEN <<>> ELSE Nic(host, rack, h, 2, leaf2)
        OBVIOUS
      <3>7. b \in Plan(r, H \cup {}, {})
        <4>1. H \cup {} = H
          OBVIOUS
        <4> QED
          BY <3>4, <3>5, <3>6, <4>1
      <3>8. Nic(host, rack, h, 1, leaf1) \o b \in Plan(r, H, {})
        BY <3>3, <3>7, PlanThen
      <3> QED
        BY <3>2, <3>6, <3>8
    <2> QED
      BY <2>2, <2>3
  <1>2. f = [h \in 1..count |-> f[h]] /\ \A h \in 1..count : f[h] \in Plan(r, H, {})
    BY <1>1
  <1>3. FlattenSeq(f) \in Plan(r, H, {})
    <2> HIDE DEF f
    <2> QED
      BY <1>2, PlanEach
  <1> QED
    BY <1>3 DEF RackHosts, ForEach

------------------------------------------------------------------------------
\* What the recipes do.

\* The uplinks of a leaf to every spine.
LEMMA UplinksPlan ==
    ASSUME NEW r, NEW H, NEW n \in Nat, NEW count \in Nat, NEW leaf \in Devices, Own(r, leaf),
           leaf.kind = "leaf", There(leaf) \in H,
           \A s \in 1..n : Own(r, Spine(s)) /\ There(Spine(s)) \in H
    PROVE  FlattenSeq([s \in 1..n |-> Trunk(Spine(s), leaf, count)])
               \in Plan(r, H, IF n = 0 \/ count = 0 THEN {} ELSE {Linked(leaf)})
  <1> DEFINE f == [s \in 1..n |-> Trunk(Spine(s), leaf, count)]
             G == [s \in 1..n |-> IF count = 0 THEN {} ELSE {Linked(leaf)}]
             All == IF n = 0 \/ count = 0 THEN {} ELSE {Linked(leaf)}
  <1>1. ASSUME NEW s \in 1..n
        PROVE  f[s] \in Plan(r, H, G[s])
    <2>1. Spine(s) \in Devices /\ Spine(s).kind = "spine" /\ Spine(s) # leaf
      BY NamedDevices
    <2>2. {There(Spine(s)), There(leaf)} \subseteq H
      OBVIOUS
    <2>3. Trunk(Spine(s), leaf, count)
              \in Plan(r, H, IF count = 0 THEN {} ELSE {Linked(Spine(s)), Linked(leaf)})
      BY <2>1, <2>2, TrunkPlan
    <2>4. G[s] \subseteq IF count = 0 THEN {} ELSE {Linked(Spine(s)), Linked(leaf)}
      OBVIOUS
    <2>5. f[s] = Trunk(Spine(s), leaf, count)
      OBVIOUS
    <2> HIDE DEF f, G
    <2> QED
      BY <2>3, <2>4, <2>5, PlanWeaken
  <1>2. f = [s \in 1..n |-> f[s]]
    OBVIOUS
  <1>3. \A x \in All : \E s \in 1..n : x \in G[s]
    <2>1. n # 0 => 1 \in 1..n
      OBVIOUS
    <2> QED
      BY <2>1
  <1> HIDE DEF f, G, All
  <1>4. FlattenSeq(f) \in Plan(r, H, All)
    BY <1>1, <1>2, <1>3, PlanFlatten
  <1> QED
    BY <1>4 DEF f, All

\* A plain fabric.
LEMMA PlainFabricPlan ==
    ASSUME NEW r, Buildable(r), r.kind = "plain"
    PROVE  PlainFabric(r) \in Plan(r, {}, {})
  <1> DEFINE H == {There(Spine(s)) : s \in 1..r.spines}
  <1>1. /\ r.spines \in Nat \ {0} /\ r.leaves \in Nat /\ r.hosts \in Nat /\ r.vms \in Nat
        /\ r.spinePorts \in Nat \ {0} /\ r.leafPorts \in Nat \ {0}
        /\ r.spineTrunk \in Nat \ {0} /\ r.reserved \in Nat /\ r.reserved < r.spinePorts
        /\ r.haveIPU \in BOOLEAN
    BY DEF Buildable
  <1>2. ASSUME NEW i \in Nat
        PROVE  /\ Spine(i) \in Devices /\ Own(r, Spine(i)) /\ PortCount(r, Spine(i)) = r.spinePorts
               /\ Leaf(i) \in Devices /\ Own(r, Leaf(i)) /\ PortCount(r, Leaf(i)) = r.leafPorts
               /\ Leaf(i).kind = "leaf"
    BY NamedDevices DEF Own, PortCount
  <1>3. PlainSpines(r) \in Plan(r, {}, H)
    <2> DEFINE f == [s \in 1..r.spines |->
                        StartAt(Spine(s), r.reserved + 1) \o Switch(Spine(s), r.spinePorts)]
               G == [s \in 1..r.spines |-> {There(Spine(s))}]
    <2>1. ASSUME NEW s \in 1..r.spines
          PROVE  f[s] \in Plan(r, {}, G[s])
      <3>1. s \in Nat /\ r.reserved + 1 \in Nat /\ r.reserved + 1 \in 1..r.spinePorts
        BY <1>1
      <3>2. StartAt(Spine(s), r.reserved + 1) \in Plan(r, {}, {})
        BY <1>2, <3>1, OtherPlans
      <3>3. Switch(Spine(s), r.spinePorts) \in Plan(r, {} \cup {}, {There(Spine(s))})
        BY <1>2, <3>1, SwitchPlan
      <3>4. StartAt(Spine(s), r.reserved + 1) \o Switch(Spine(s), r.spinePorts)
                \in Plan(r, {}, {} \cup {There(Spine(s))})
        BY <3>2, <3>3, PlanConcat
      <3> QED
        BY <3>4
    <2>2. f = [s \in 1..r.spines |-> f[s]] /\ \A x \in H : \E s \in 1..r.spines : x \in G[s]
      OBVIOUS
    <2>3. PlainSpines(r) = FlattenSeq(f)
      BY DEF PlainSpines, ForEach
    <2>4. r.spines \in Nat
      BY <1>1
    <2> HIDE DEF f, G, H
    <2>5. FlattenSeq(f) \in Plan(r, {}, H)
      BY <2>1, <2>2, <2>4, PlanFlatten
    <2> QED
      BY <2>3, <2>5
  <1>4. ASSUME NEW i \in 1..r.leaves
        PROVE  PlainLeaf(r, i) \in Plan(r, H, {})
    <2>1. PICK leaf : leaf = Leaf(i)
      OBVIOUS
    <2>2. leaf \in Devices /\ leaf.kind = "leaf" /\ Own(r, leaf) /\ PortCount(r, leaf) = r.leafPorts
      BY <1>1, <1>2, <2>1
    <2> DEFINE switch == Switch(leaf, r.leafPorts)
               uplinks == FlattenSeq([s \in 1..r.spines |-> Trunk(Spine(s), leaf, r.spineTrunk)])
               latch == Latch(leaf)
               rack == RackHosts(i, leaf, NoLeaf, r.hosts, r.haveIPU, r.vms)
               A == {There(leaf)}
               B == {Linked(leaf)}
    <2>3. PlainLeaf(r, i) = switch \o uplinks \o latch \o rack
      BY <2>1 DEF PlainLeaf, ForEach
    <2>4. switch \in Plan(r, H, A)
      BY <2>2, SwitchPlan
    <2>5. uplinks \in Plan(r, H \cup A, B)
      <3>1. \A s \in 1..r.spines : Own(r, Spine(s)) /\ There(Spine(s)) \in H \cup A
        BY <1>1, <1>2
      <3>2. There(leaf) \in H \cup A
        OBVIOUS
      <3>3. uplinks \in Plan(r, H \cup A, IF r.spines = 0 \/ r.spineTrunk = 0 THEN {} ELSE {Linked(leaf)})
        <4> HIDE DEF H, A
        <4> QED
          BY <1>1, <2>2, <3>1, <3>2, UplinksPlan
      <3>4. r.spines # 0 /\ r.spineTrunk # 0
        BY <1>1
      <3> QED
        BY <3>3, <3>4
    <2>6. switch \o uplinks \in Plan(r, H, A \cup B)
      <3> HIDE DEF A, B, H, switch, uplinks
      <3> QED
        BY <2>4, <2>5, PlanConcat
    <2> DEFINE K == H \cup (A \cup B)
    <2>7. There(leaf) \in K /\ Linked(leaf) \in K
      OBVIOUS
    <2> HIDE DEF K
    <2>8. latch \in Plan(r, K, {})
      BY <2>2, <2>7, LatchPlan
    <2>9. rack \in Plan(r, K, {})
      BY <1>1, <2>2, <2>7, RackPlan
    <2> HIDE DEF switch, uplinks, latch, rack, A, B, H
    <2>10. switch \o uplinks \o latch \in Plan(r, H, A \cup B)
      BY <2>6, <2>8, PlanThen DEF K
    <2>11. switch \o uplinks \o latch \o rack \in Plan(r, H, A \cup B)
      BY <2>9, <2>10, PlanThen DEF K
    <2> QED
      BY <2>3, <2>11, PlanWeaken
  <1>5. FlattenSeq([i \in 1..r.leaves |-> PlainLeaf(r, i)]) \in Plan(r, {} \cup H, {})
    <2> DEFINE f == [i \in 1..r.leaves |-> PlainLeaf(r, i)]
    <2>1. f = [i \in 1..r.leaves |-> f[i]] /\ \A i \in 1..r.leaves : f[i] \in Plan(r, H, {})
      BY <1>4
    <2>2. {} \cup H = H
      OBVIOUS
    <2>3. FlattenSeq(f) \in Plan(r, H, {})
      <3> HIDE DEF f, H
      <3> QED
        BY <1>1, <2>1, PlanEach
    <2> HIDE DEF H
    <2> QED
      BY <2>2, <2>3
  <1>6. PlainFabric(r) = PlainSpines(r) \o FlattenSeq([i \in 1..r.leaves |-> PlainLeaf(r, i)])
    BY DEF PlainFabric, ForEach
  <1> HIDE DEF H
  <1>7. PlainFabric(r) \in Plan(r, {}, H)
    BY <1>3, <1>5, <1>6, PlanThen
  <1> QED
    BY <1>7, PlanWeaken

\* A pair of leaves of an access fabric, when the spines are there.
LEMMA AccessPairPlan ==
    ASSUME NEW r, Buildable(r), r.kind = "access", NEW H, NEW p \in Nat,
           NEW leaf1, leaf1 = Leaf(10 * p + 1), NEW leaf2, leaf2 = Leaf(10 * p + 2),
           \A s \in 1..r.spines : There(Spine(s)) \in H
    PROVE  Switch(leaf1, r.leafPorts) \o Switch(leaf2, r.leafPorts)
           \o FlattenSeq([s \in 1..r.spines |->
                  Trunk(Spine(s), leaf1, r.spineTrunk) \o Trunk(Spine(s), leaf2, r.spineTrunk)])
           \o Trunk(leaf1, leaf2, r.pairTrunk)
           \o Latch(leaf1) \o Latch(leaf2)
           \o RackHosts(p, leaf1, leaf2, r.hosts, r.haveIPU, r.vms)
               \in Plan(r, H, {})
  <1>1. /\ r.spines \in Nat /\ r.pairs \in Nat /\ r.hosts \in Nat /\ r.vms \in Nat
        /\ r.spinePorts \in Nat \ {0} /\ r.leafPorts \in Nat \ {0}
        /\ r.spineTrunk \in Nat /\ r.pairTrunk \in Nat \ {0}
        /\ r.haveIPU \in BOOLEAN
    BY DEF Buildable
  <1>2. ASSUME NEW i \in Nat
        PROVE  /\ Spine(i) \in Devices /\ Own(r, Spine(i)) /\ Spine(i).kind = "spine"
               /\ Leaf(i) \in Devices /\ Own(r, Leaf(i)) /\ PortCount(r, Leaf(i)) = r.leafPorts
               /\ Leaf(i).kind = "leaf" /\ Leaf(i).index = i
    BY NamedDevices DEF Own, PortCount
  <1>3. 10 * p + 1 \in Nat /\ 10 * p + 2 \in Nat /\ 10 * p + 1 # 10 * p + 2
    OBVIOUS
  <1>4. /\ leaf1 \in Devices /\ leaf1.kind = "leaf" /\ Own(r, leaf1) /\ PortCount(r, leaf1) = r.leafPorts
        /\ leaf2 \in Devices /\ leaf2.kind = "leaf" /\ Own(r, leaf2) /\ PortCount(r, leaf2) = r.leafPorts
        /\ leaf1 # leaf2
    BY <1>2, <1>3
  <1> DEFINE s1 == Switch(leaf1, r.leafPorts)
             s2 == Switch(leaf2, r.leafPorts)
             f == [s \in 1..r.spines |->
                  Trunk(Spine(s), leaf1, r.spineTrunk) \o Trunk(Spine(s), leaf2, r.spineTrunk)]
             pair == Trunk(leaf1, leaf2, r.pairTrunk)
             l1 == Latch(leaf1)
             l2 == Latch(leaf2)
             rack == RackHosts(p, leaf1, leaf2, r.hosts, r.haveIPU, r.vms)
             A == {There(leaf1)} \cup {There(leaf2)}
             B == {Linked(leaf1), Linked(leaf2)}
  <1>5. s1 \o s2 \in Plan(r, H, A)
    <2>1. s1 \in Plan(r, H, {There(leaf1)})
      BY <1>4, SwitchPlan
    <2>2. s2 \in Plan(r, H \cup {There(leaf1)}, {There(leaf2)})
      BY <1>4, SwitchPlan
    <2> HIDE DEF s1, s2
    <2> QED
      BY <2>1, <2>2, PlanConcat
  <1>6. FlattenSeq(f) \in Plan(r, H \cup A, {})
    <2>1. ASSUME NEW s \in 1..r.spines
          PROVE  f[s] \in Plan(r, H \cup A, {})
      <3>1. s \in Nat /\ {There(Spine(s)), There(leaf1), There(leaf2)} \subseteq H \cup A
        OBVIOUS
      <3> HIDE DEF A
      <3>2. ASSUME NEW leaf \in {leaf1, leaf2}
            PROVE  Trunk(Spine(s), leaf, r.spineTrunk) \in Plan(r, H \cup A, {})
        <4>1. /\ Spine(s) # leaf /\ leaf \in Devices /\ Own(r, leaf)
              /\ Spine(s) \in Devices /\ Own(r, Spine(s))
              /\ {There(Spine(s)), There(leaf)} \subseteq H \cup A
              /\ r.spineTrunk \in Nat
          BY <1>1, <1>2, <1>4, <3>1
        <4>2. Trunk(Spine(s), leaf, r.spineTrunk) \in
                  Plan(r, H \cup A, IF r.spineTrunk = 0 THEN {} ELSE {Linked(Spine(s)), Linked(leaf)})
          BY <4>1, TrunkPlan
        <4> QED
          BY <4>2, PlanWeaken
      <3>3. (H \cup A) \cup {} = H \cup A
        OBVIOUS
      <3>4. Trunk(Spine(s), leaf1, r.spineTrunk) \o Trunk(Spine(s), leaf2, r.spineTrunk)
                \in Plan(r, H \cup A, {})
        BY <3>2, <3>3, PlanThen
      <3> QED
        BY <3>4
    <2>2. f = [s \in 1..r.spines |-> f[s]]
      OBVIOUS
    <2> HIDE DEF f, A
    <2> QED
      BY <1>1, <2>1, <2>2, PlanEach
  <1>7. pair \in Plan(r, H \cup A, B)
    <2>1. {There(leaf1), There(leaf2)} \subseteq H \cup A
      OBVIOUS
    <2> HIDE DEF A
    <2>2. pair \in Plan(r, H \cup A, IF r.pairTrunk = 0 THEN {} ELSE {Linked(leaf1), Linked(leaf2)})
      BY <1>1, <1>4, <2>1, TrunkPlan
    <2> QED
      BY <1>1, <2>2
  <1> DEFINE K == H \cup (A \cup B)
  <1>8. {There(leaf1), There(leaf2), Linked(leaf1), Linked(leaf2)} \subseteq K
    OBVIOUS
  <1> HIDE DEF K
  <1>9. l1 \in Plan(r, K, {}) /\ l2 \in Plan(r, K, {})
    BY <1>4, <1>8, LatchPlan
  <1>10. rack \in Plan(r, K, {})
    <2>1. There(leaf1) \in K /\ There(leaf2) \in K
      BY <1>8
    <2> QED
      BY <1>1, <1>4, <2>1, RackPlan
  <1> HIDE DEF s1, s2, f, pair, l1, l2, rack, A, B
  <1>11. s1 \o s2 \o FlattenSeq(f) \in Plan(r, H, A)
    BY <1>5, <1>6, PlanThen
  <1>12. s1 \o s2 \o FlattenSeq(f) \o pair \in Plan(r, H, A \cup B)
    BY <1>7, <1>11, PlanConcat
  <1>13. s1 \o s2 \o FlattenSeq(f) \o pair \o l1 \in Plan(r, H, A \cup B)
    BY <1>9, <1>12, PlanThen DEF K
  <1>14. s1 \o s2 \o FlattenSeq(f) \o pair \o l1 \o l2 \in Plan(r, H, A \cup B)
    BY <1>9, <1>13, PlanThen DEF K
  <1>15. s1 \o s2 \o FlattenSeq(f) \o pair \o l1 \o l2 \o rack \in Plan(r, H, A \cup B)
    BY <1>10, <1>14, PlanThen DEF K
  <1>16. s1 \o s2 \o FlattenSeq(f) \o pair \o l1 \o l2 \o rack \in Plan(r, H, {})
    BY <1>15, PlanWeaken
  <1> QED
    BY <1>16 DEF s1, s2, f, pair, l1, l2, rack

\* An access fabric.
LEMMA AccessFabricPlan ==
    ASSUME NEW r, Buildable(r), r.kind = "access"
    PROVE  AccessFabric(r) \in Plan(r, {}, {})
  <1> DEFINE spine == [s \in 1..r.spines |-> Spine(s)]
             H == {There(spine[s]) : s \in 1..r.spines}
             spines == [s \in 1..r.spines |-> Switch(Spine(s), r.spinePorts)]
             pair(p) == LET leaf1 == Leaf(10 * p + 1)
                            leaf2 == Leaf(10 * p + 2)
                        IN  Switch(leaf1, r.leafPorts) \o Switch(leaf2, r.leafPorts)
                            \o FlattenSeq([s \in 1..r.spines |->
                                 Trunk(Spine(s), leaf1, r.spineTrunk)
                                 \o Trunk(Spine(s), leaf2, r.spineTrunk)])
                            \o Trunk(leaf1, leaf2, r.pairTrunk)
                            \o Latch(leaf1) \o Latch(leaf2)
                            \o RackHosts(p, leaf1, leaf2, r.hosts, r.haveIPU, r.vms)
             f == [p \in 1..r.pairs |-> pair(p)]
  <1>1. r.spines \in Nat /\ r.pairs \in Nat
    BY DEF Buildable
  <1>2. FlattenSeq(spines) \in Plan(r, {}, H)
    <2>1. ASSUME NEW s \in 1..r.spines
          PROVE  /\ spine[s] \in Devices /\ Own(r, spine[s]) /\ spine[s] = Spine(s)
                 /\ PortCount(r, spine[s]) = r.spinePorts
      BY <1>1, NamedDevices DEF Own, PortCount
    <2>2. spines = [s \in 1..r.spines |-> Switch(spine[s], PortCount(r, spine[s]))]
      <3> HIDE DEF spine
      <3> QED
        BY <2>1
    <2>3. \A x \in H : \E s \in 1..r.spines : x = There(spine[s])
      OBVIOUS
    <2> HIDE DEF spine, spines, H
    <2> QED
      BY <1>1, <2>1, <2>2, <2>3, SwitchesPlan
  <1>3. FlattenSeq(f) \in Plan(r, {} \cup H, {})
    <2>1. ASSUME NEW p \in 1..r.pairs
          PROVE  f[p] \in Plan(r, H, {})
      <3>1. p \in Nat /\ f[p] = pair(p)
        <4>1. p \in Nat
          BY <1>1
        <4> HIDE DEF pair
        <4> QED
          BY <4>1
      <3>2. \A s \in 1..r.spines : There(Spine(s)) \in H
        OBVIOUS
      <3>3. pair(p) \in Plan(r, H, {})
        <4> HIDE DEF H
        <4> QED
          BY <3>1, <3>2, AccessPairPlan
      <3> QED
        BY <3>1, <3>3
    <2>2. f = [p \in 1..r.pairs |-> f[p]] /\ {} \cup H = H
      OBVIOUS
    <2> HIDE DEF f, H
    <2> QED
      BY <1>1, <2>1, <2>2, PlanEach
  <1>4. AccessFabric(r) = FlattenSeq(spines) \o FlattenSeq(f)
    BY DEF AccessFabric, ForEach
  <1> HIDE DEF spines, f, H
  <1>5. AccessFabric(r) \in Plan(r, {}, H)
    BY <1>2, <1>3, <1>4, PlanThen
  <1> QED
    BY <1>5, PlanWeaken

\* The tier of superspines.
LEMMA TierPlan ==
    ASSUME NEW r, Buildable(r), r.kind = "tier"
    PROVE  SuperSpineTier(r) \in Plan(r, {}, {})
  <1> DEFINE top == [t \in 1..r.superspines |-> Superspine(t)]
             H == {There(top[t]) : t \in 1..r.superspines}
             tops == [t \in 1..r.superspines |-> Switch(Superspine(t), r.superspinePorts)]
             f == [pod \in 1..r.pods |-> Pod(r, pod)]
  <1>1. r.superspines \in Nat /\ r.pods \in Nat /\ r.podSpines \in Nat /\ r.superspinePorts \in Nat \ {0}
    BY DEF Buildable
  <1>2. ASSUME NEW i \in Nat
        PROVE  /\ Superspine(i) \in Devices /\ Own(r, Superspine(i))
               /\ PortCount(r, Superspine(i)) = r.superspinePorts
               /\ Spine(i) \in Devices /\ ~ Own(r, Spine(i)) /\ PortCount(r, Spine(i)) = r.superspinePorts
    BY NamedDevices DEF Own, PortCount
  <1>3. FlattenSeq(tops) \in Plan(r, {}, H)
    <2>1. ASSUME NEW t \in 1..r.superspines
          PROVE  /\ top[t] \in Devices /\ Own(r, top[t]) /\ top[t] = Superspine(t)
                 /\ PortCount(r, top[t]) = r.superspinePorts
      BY <1>1, <1>2
    <2>2. tops = [t \in 1..r.superspines |-> Switch(top[t], PortCount(r, top[t]))]
      <3> HIDE DEF top
      <3> QED
        BY <2>1
    <2>3. \A x \in H : \E t \in 1..r.superspines : x = There(top[t])
      OBVIOUS
    <2> HIDE DEF top, tops, H
    <2> QED
      BY <1>1, <2>1, <2>2, <2>3, SwitchesPlan
  <1>4. ASSUME NEW pod \in 1..r.pods, NEW s \in 1..r.podSpines
        PROVE  StartAt(Spine(s), 1) \o EndAt(Spine(s), r.superspinePorts)
               \o FlattenSeq([t \in 1..r.superspines |-> ExternalTrunk(Superspine(t), Spine(s), pod, 2)])
                   \in Plan(r, H, {})
    <2> DEFINE g == [t \in 1..r.superspines |-> ExternalTrunk(Superspine(t), Spine(s), pod, 2)]
               start == StartAt(Spine(s), 1)
               end == EndAt(Spine(s), r.superspinePorts)
    <2>1. pod \in Nat /\ s \in Nat /\ 1 \in 1..r.superspinePorts /\ 1 \in Nat /\ 2 \in Nat
          /\ r.superspinePorts \in Nat /\ H \cup {} = H
      BY <1>1
    <2>2. start \in Plan(r, H, {}) /\ end \in Plan(r, H, {})
      <3> HIDE DEF H
      <3> QED
        BY <1>2, <2>1, OtherPlans
    <2>3. ASSUME NEW t \in 1..r.superspines
          PROVE  g[t] \in Plan(r, H, {})
      <3>1. t \in Nat /\ There(Superspine(t)) \in H /\ g[t] = ExternalTrunk(Superspine(t), Spine(s), pod, 2)
        BY <1>1
      <3> HIDE DEF H, g
      <3> QED
        BY <1>2, <2>1, <3>1, ExternalTrunkPlan
    <2>4. g = [t \in 1..r.superspines |-> g[t]]
      OBVIOUS
    <2> HIDE DEF g, H, start, end
    <2>5. FlattenSeq(g) \in Plan(r, H, {})
      BY <1>1, <2>3, <2>4, PlanEach
    <2>6. start \o end \in Plan(r, H, {})
      BY <2>1, <2>2, PlanThen
    <2>7. start \o end \o FlattenSeq(g) \in Plan(r, H, {})
      BY <2>1, <2>5, <2>6, PlanThen
    <2> QED
      BY <2>7 DEF start, end, g
  <1>5. ASSUME NEW pod \in 1..r.pods
        PROVE  Pod(r, pod) \in Plan(r, H, {})
    <2> DEFINE g == [s \in 1..r.podSpines |->
                        StartAt(Spine(s), 1) \o EndAt(Spine(s), r.superspinePorts)
                        \o FlattenSeq([t \in 1..r.superspines |->
                               ExternalTrunk(Superspine(t), Spine(s), pod, 2)])]
    <2>1. g = [s \in 1..r.podSpines |-> g[s]] /\ \A s \in 1..r.podSpines : g[s] \in Plan(r, H, {})
      <3> HIDE DEF H
      <3> QED
        BY <1>4
    <2>2. Pod(r, pod) = FlattenSeq(g) \o SavePod(pod)
      BY DEF Pod, ForEach
    <2>3. pod \in Nat /\ H \cup {} = H
      BY <1>1
    <2>4. Superspine(0) \in Devices /\ SavePod(pod) \in Plan(r, H, {})
      <3> HIDE DEF H
      <3> QED
        BY <1>2, <2>3, OtherPlans
    <2> HIDE DEF g, H
    <2>5. FlattenSeq(g) \in Plan(r, H, {})
      BY <1>1, <2>1, PlanEach
    <2> QED
      BY <2>2, <2>3, <2>4, <2>5, PlanThen
  <1>6. FlattenSeq(f) \in Plan(r, {} \cup H, {})
    <2>1. f = [pod \in 1..r.pods |-> f[pod]] /\ \A pod \in 1..r.pods : f[pod] \in Plan(r, H, {})
      <3> HIDE DEF H
      <3> QED
        BY <1>5
    <2>2. {} \cup H = H
      OBVIOUS
    <2> HIDE DEF f, H
    <2> QED
      BY <1>1, <2>1, <2>2, PlanEach
  <1>7. SuperSpineTier(r) = FlattenSeq(tops) \o FlattenSeq(f)
    BY DEF SuperSpineTier, ForEach
  <1> HIDE DEF tops, f, H
  <1>8. SuperSpineTier(r) \in Plan(r, {}, H)
    BY <1>3, <1>6, <1>7, PlanThen
  <1> QED
    BY <1>8, PlanWeaken

\* Two racks of the fixed fabric, when its superspines are there.
LEMMA RackPairPlan ==
    ASSUME NEW r, r.kind = "fixed", NEW rack \in Nat, NEW H,
           There(Superspine(1)) \in H, There(Superspine(2)) \in H
    PROVE  RackPair(rack) \in Plan(r, H, {})
  <1> DEFINE leaf(i, k) == Leaf(10 * (rack + i) + k)
  <1>0. PICK Leaves : Leaves = <<leaf(0, 1), leaf(0, 2), leaf(1, 1), leaf(1, 2)>>
    OBVIOUS
  <1>1. PICK Both : Both = <<Spine(rack), Spine(rack + 1)>>
    OBVIOUS
  <1>2. Buildable(r) /\ 2 \in Nat /\ 4 \in Nat /\ 8 \in Nat /\ 10 \in Nat /\ 32 \in Nat /\ 0 \in Nat
    BY DEF Buildable
  <1>3. ASSUME NEW s \in 1..2
        PROVE  /\ Both[s] \in Devices /\ Own(r, Both[s]) /\ PortCount(r, Both[s]) = 32
               /\ Both[s].kind = "spine"
    <2>1. s = 1 \/ s = 2
      OBVIOUS
    <2>2. PICK i \in Nat : Both[s] = Spine(i)
      BY <1>1, <2>1
    <2> QED
      BY <2>2, NamedDevices DEF Own, PortCount
  <1>4. ASSUME NEW l \in 1..4
        PROVE  /\ Leaves[l] \in Devices /\ Own(r, Leaves[l]) /\ PortCount(r, Leaves[l]) = 32
               /\ Leaves[l].kind = "leaf"
    <2>1. l = 1 \/ l = 2 \/ l = 3 \/ l = 4
      OBVIOUS
    <2>2. PICK i \in Nat : Leaves[l] = Leaf(i)
      <3>1. /\ 10 * (rack + 0) + 1 \in Nat /\ 10 * (rack + 0) + 2 \in Nat
            /\ 10 * (rack + 1) + 1 \in Nat /\ 10 * (rack + 1) + 2 \in Nat
        OBVIOUS
      <3> QED
        BY <1>0, <2>1, <3>1
    <2> QED
      BY <2>2, NamedDevices DEF Own, PortCount
  <1>5. Leaves[1] # Leaves[2] /\ Leaves[3] # Leaves[4]
    <2>1. /\ Leaves[1].index = 10 * (rack + 0) + 1 /\ Leaves[2].index = 10 * (rack + 0) + 2
          /\ Leaves[3].index = 10 * (rack + 1) + 1 /\ Leaves[4].index = 10 * (rack + 1) + 2
      BY <1>0 DEF Leaf, Device
    <2> QED
      BY <2>1
  <1> DEFINE a1 == [s \in 1..2 |-> Switch(Both[s], 32)]
             a2 == [s \in 1..2 |-> FlattenSeq([t \in 1..2 |-> Trunk(Both[s], Superspine(t), 8)])]
             a3 == [l \in 1..4 |-> Switch(Leaves[l], 32)]
             a4 == [l \in 1..4 |-> FlattenSeq([s \in 1..2 |-> Trunk(Leaves[l], Both[s], 4)])]
             a5 == Trunk(Leaves[1], Leaves[2], 2)
             a6 == Trunk(Leaves[3], Leaves[4], 2)
             a7 == [l \in 1..4 |-> Latch(Leaves[l])]
             a8 == RackHosts(rack, Leaves[1], Leaves[2], 10, FALSE, 0)
             a9 == RackHosts(rack + 1, Leaves[3], Leaves[4], 10, FALSE, 0)
             A == {There(Both[s]) : s \in 1..2}
             B == {There(Leaves[l]) : l \in 1..4}
             C == {Linked(Leaves[l]) : l \in 1..4}
             K == H \cup (A \cup B)
             L == H \cup (A \cup B \cup C)
  <1>6. RackPair(rack) = FlattenSeq(a1) \o FlattenSeq(a2) \o FlattenSeq(a3) \o FlattenSeq(a4)
                         \o a5 \o a6 \o FlattenSeq(a7) \o a8 \o a9
    BY <1>0, <1>1 DEF RackPair, ForEach
  <1>7. /\ \A s \in 1..2 : There(Both[s]) \in H \cup A /\ There(Both[s]) \in K
        /\ \A l \in 1..4 : /\ There(Leaves[l]) \in K /\ There(Leaves[l]) \in L
                           /\ Linked(Leaves[l]) \in L
        /\ K \subseteq L
    OBVIOUS
  <1>8. FlattenSeq(a1) \in Plan(r, H, A)
    <2>1. a1 = [s \in 1..2 |-> Switch(Both[s], PortCount(r, Both[s]))]
      <3> HIDE DEF leaf, a2, a3, a4, a5, a6, a7, a8, a9, A, B, C, K, L
      <3> QED
        BY <1>3
    <2>2. \A x \in A : \E s \in 1..2 : x = There(Both[s])
      OBVIOUS
    <2> HIDE DEF leaf, a1, a2, a3, a4, a5, a6, a7, a8, a9, A, B, C, K, L
    <2> QED
      BY <1>2, <1>3, <2>1, <2>2, SwitchesPlan
  <1>9. FlattenSeq(a3) \in Plan(r, H \cup A, B)
    <2>1. a3 = [l \in 1..4 |-> Switch(Leaves[l], PortCount(r, Leaves[l]))]
      <3> HIDE DEF leaf, a1, a2, a4, a5, a6, a7, a8, a9, A, B, C, K, L
      <3> QED
        BY <1>4
    <2>2. \A x \in B : \E l \in 1..4 : x = There(Leaves[l])
      OBVIOUS
    <2> HIDE DEF leaf, a1, a2, a3, a4, a5, a6, a7, a8, a9, A, B, C, K, L
    <2> QED
      BY <1>2, <1>4, <2>1, <2>2, SwitchesPlan
  <1>10. FlattenSeq(a2) \in Plan(r, H \cup A, {})
    <2>1. ASSUME NEW s \in 1..2
          PROVE  a2[s] \in Plan(r, H \cup A, {})
      <3> DEFINE g == [t \in 1..2 |-> Trunk(Both[s], Superspine(t), 8)]
      <3>1. ASSUME NEW t \in 1..2
            PROVE  g[t] \in Plan(r, H \cup A, {})
        <4>1. t \in Nat /\ (t = 1 \/ t = 2)
          OBVIOUS
        <4>2. /\ Superspine(t) \in Devices /\ Own(r, Superspine(t))
              /\ Both[s] \in Devices /\ Own(r, Both[s]) /\ Both[s] # Superspine(t)
              /\ {There(Both[s]), There(Superspine(t))} \subseteq H \cup A /\ 8 \in Nat
          BY <1>3, <1>7, <4>1, NamedDevices DEF Own
        <4>3. g[t] = Trunk(Both[s], Superspine(t), 8)
          OBVIOUS
        <4> HIDE DEF g, A
        <4>4. g[t] \in Plan(r, H \cup A, IF 8 = 0 THEN {} ELSE {Linked(Both[s]), Linked(Superspine(t))})
          BY <4>2, <4>3, TrunkPlan
        <4> QED
          BY <4>4, PlanWeaken
      <3>2. g = [t \in 1..2 |-> g[t]] /\ a2[s] = FlattenSeq(g)
        OBVIOUS
      <3> HIDE DEF g, A, a2
      <3> QED
        BY <1>2, <3>1, <3>2, PlanEach
    <2>2. a2 = [s \in 1..2 |-> a2[s]]
      OBVIOUS
    <2> HIDE DEF a2, A
    <2> QED
      BY <1>2, <2>1, <2>2, PlanEach
  <1>11. FlattenSeq(a4) \in Plan(r, K, C)
    <2> DEFINE G == [l \in 1..4 |-> {Linked(Leaves[l])}]
    <2>1. ASSUME NEW l \in 1..4
          PROVE  a4[l] \in Plan(r, K, {Linked(Leaves[l])})
      <3> DEFINE g == [s \in 1..2 |-> Trunk(Leaves[l], Both[s], 4)]
                 D == [s \in 1..2 |-> {Linked(Leaves[l])}]
      <3>1. ASSUME NEW s \in 1..2
            PROVE  g[s] \in Plan(r, K, D[s])
        <4>1. /\ Leaves[l] \in Devices /\ Own(r, Leaves[l]) /\ Both[s] \in Devices /\ Own(r, Both[s])
              /\ Leaves[l] # Both[s]
              /\ {There(Leaves[l]), There(Both[s])} \subseteq K
          BY <1>3, <1>4, <1>7
        <4>2. g[s] = Trunk(Leaves[l], Both[s], 4) /\ D[s] = {Linked(Leaves[l])}
          OBVIOUS
        <4> HIDE DEF g, K, D
        <4>3. g[s] \in Plan(r, K, IF 4 = 0 THEN {} ELSE {Linked(Leaves[l]), Linked(Both[s])})
          BY <1>2, <4>1, <4>2, TrunkPlan
        <4> QED
          BY <4>2, <4>3, PlanWeaken
      <3>2. g = [s \in 1..2 |-> g[s]] /\ a4[l] = FlattenSeq(g)
        OBVIOUS
      <3>3. \A x \in {Linked(Leaves[l])} : \E s \in 1..2 : x \in D[s]
        <4>1. 1 \in 1..2
          OBVIOUS
        <4> QED
          BY <4>1
      <3>4. 2 \in Nat
        OBVIOUS
      <3> HIDE DEF g, K, D, a4
      <3>5. FlattenSeq(g) \in Plan(r, K, {Linked(Leaves[l])})
        BY <3>1, <3>2, <3>3, <3>4, PlanFlatten
      <3> QED
        BY <3>2, <3>5
    <2>2. a4 = [l \in 1..4 |-> a4[l]] /\ \A l \in 1..4 : G[l] = {Linked(Leaves[l])}
      OBVIOUS
    <2>3. \A x \in C : \E l \in 1..4 : x \in G[l]
      OBVIOUS
    <2>4. \A l \in 1..4 : a4[l] \in Plan(r, K, G[l])
      <3> HIDE DEF a4, K, C, G
      <3> QED
        BY <2>1, <2>2
    <2> HIDE DEF a4, K, C, G
    <2> QED
      BY <1>2, <2>2, <2>3, <2>4, PlanFlatten
  <1>12. ASSUME NEW M, K \subseteq M
         PROVE  a5 \in Plan(r, M, {}) /\ a6 \in Plan(r, M, {})
    <2>1. 1 \in 1..4 /\ 2 \in 1..4 /\ 3 \in 1..4 /\ 4 \in 1..4
      OBVIOUS
    <2>2. {There(Leaves[1]), There(Leaves[2])} \subseteq M /\ {There(Leaves[3]), There(Leaves[4])} \subseteq M
      BY <1>7, <1>12, <2>1
    <2>3. /\ a5 \in Plan(r, M, IF 2 = 0 THEN {} ELSE {Linked(Leaves[1]), Linked(Leaves[2])})
          /\ a6 \in Plan(r, M, IF 2 = 0 THEN {} ELSE {Linked(Leaves[3]), Linked(Leaves[4])})
      BY <1>2, <1>4, <1>5, <2>1, <2>2, TrunkPlan
    <2> HIDE DEF a5, a6
    <2> QED
      BY <2>3, PlanWeaken
  <1>13. FlattenSeq(a7) \in Plan(r, L, {})
    <2>1. ASSUME NEW l \in 1..4
          PROVE  a7[l] \in Plan(r, L, {})
      <3>1. {There(Leaves[l]), Linked(Leaves[l])} \subseteq L /\ a7[l] = Latch(Leaves[l])
        BY <1>7
      <3> HIDE DEF L, a7
      <3> QED
        BY <1>4, <3>1, LatchPlan
    <2>2. a7 = [l \in 1..4 |-> a7[l]]
      OBVIOUS
    <2> HIDE DEF a7, L
    <2> QED
      BY <1>2, <2>1, <2>2, PlanEach
  <1>14. a8 \in Plan(r, L, {}) /\ a9 \in Plan(r, L, {})
    <2>1. 1 \in 1..4 /\ 2 \in 1..4 /\ 3 \in 1..4 /\ 4 \in 1..4 /\ rack + 1 \in Nat
      OBVIOUS
    <2>2. /\ There(Leaves[1]) \in L /\ There(Leaves[2]) \in L
          /\ There(Leaves[3]) \in L /\ There(Leaves[4]) \in L
      BY <1>7, <2>1
    <2> HIDE DEF L
    <2> QED
      BY <1>2, <1>4, <2>1, <2>2, RackPlan
  <1>15. /\ (H \cup (A \cup B)) \cup {} = K /\ (H \cup A) \cup B = K
         /\ K \cup C = L /\ (A \cup B) \cup C = A \cup B \cup C
    OBVIOUS
  <1> HIDE DEF a1, a2, a3, a4, a5, a6, a7, a8, a9, A, B, C
  <1>16. FlattenSeq(a1) \o FlattenSeq(a2) \in Plan(r, H, A)
    BY <1>8, <1>10, PlanThen
  <1>17. FlattenSeq(a1) \o FlattenSeq(a2) \o FlattenSeq(a3) \in Plan(r, H, A \cup B)
    BY <1>9, <1>16, PlanConcat
  <1>18. FlattenSeq(a1) \o FlattenSeq(a2) \o FlattenSeq(a3) \o FlattenSeq(a4)
             \in Plan(r, H, A \cup B \cup C)
    BY <1>11, <1>17, PlanConcat
  <1>19. FlattenSeq(a1) \o FlattenSeq(a2) \o FlattenSeq(a3) \o FlattenSeq(a4) \o a5
             \in Plan(r, H, A \cup B \cup C)
    BY <1>7, <1>12, <1>18, PlanThen
  <1>20. FlattenSeq(a1) \o FlattenSeq(a2) \o FlattenSeq(a3) \o FlattenSeq(a4) \o a5 \o a6
             \in Plan(r, H, A \cup B \cup C)
    BY <1>7, <1>12, <1>19, PlanThen
  <1>21. FlattenSeq(a1) \o FlattenSeq(a2) \o FlattenSeq(a3) \o FlattenSeq(a4) \o a5 \o a6
         \o FlattenSeq(a7)
             \in Plan(r, H, A \cup B \cup C)
    BY <1>13, <1>20, PlanThen
  <1>22. FlattenSeq(a1) \o FlattenSeq(a2) \o FlattenSeq(a3) \o FlattenSeq(a4) \o a5 \o a6
         \o FlattenSeq(a7) \o a8
             \in Plan(r, H, A \cup B \cup C)
    BY <1>14, <1>21, PlanThen
  <1>23. FlattenSeq(a1) \o FlattenSeq(a2) \o FlattenSeq(a3) \o FlattenSeq(a4) \o a5 \o a6
         \o FlattenSeq(a7) \o a8 \o a9
             \in Plan(r, H, A \cup B \cup C)
    BY <1>14, <1>22, PlanThen
  <1> QED
    BY <1>6, <1>23, PlanWeaken

\* The fixed fabric.
LEMMA FixedFabricPlan ==
    ASSUME NEW r, r.kind = "fixed"
    PROVE  FixedFabric \in Plan(r, {}, {})
  <1> DEFINE top == [t \in 1..2 |-> Superspine(t)]
             tops == [t \in 1..2 |-> Switch(Superspine(t), 32)]
             H == {There(top[t]) : t \in 1..2}
  <1>1. FlattenSeq(tops) \in Plan(r, {}, H)
    <2>1. ASSUME NEW t \in 1..2
          PROVE  /\ top[t] \in Devices /\ Own(r, top[t]) /\ top[t] = Superspine(t)
                 /\ PortCount(r, top[t]) = 32
      BY NamedDevices DEF Own, PortCount
    <2>2. tops = [t \in 1..2 |-> Switch(top[t], PortCount(r, top[t]))]
      <3> HIDE DEF top
      <3> QED
        BY <2>1
    <2>3. \A x \in H : \E t \in 1..2 : x = There(top[t])
      OBVIOUS
    <2>4. Buildable(r) /\ 2 \in Nat
      BY DEF Buildable
    <2>5. PICK n \in Nat : n = 2
      OBVIOUS
    <2> HIDE DEF top, tops, H
    <2>6. /\ \A t \in 1..n : top[t] \in Devices /\ Own(r, top[t])
          /\ tops = [t \in 1..n |-> Switch(top[t], PortCount(r, top[t]))]
          /\ \A x \in H : \E t \in 1..n : x = There(top[t])
      BY <2>1, <2>2, <2>3, <2>5
    <2>7. \A none : FlattenSeq(tops) \in Plan(r, none, H)
      BY <2>4, <2>6, SwitchesPlan
    <2> QED
      BY <2>7
  <1>2. RackPair(1) \in Plan(r, H, {}) /\ RackPair(3) \in Plan(r, H, {})
    <2>1. There(Superspine(1)) \in H /\ There(Superspine(2)) \in H
      <3>1. 1 \in 1..2 /\ 2 \in 1..2
        OBVIOUS
      <3>2. top[1] = Superspine(1) /\ top[2] = Superspine(2)
        BY <3>1
      <3> HIDE DEF top
      <3> QED
        BY <3>1, <3>2
    <2> HIDE DEF H
    <2> QED
      BY <2>1, RackPairPlan
  <1>3. FixedFabric = FlattenSeq(tops) \o RackPair(1) \o RackPair(3)
    BY DEF FixedFabric, ForEach
  <1>4. {} \cup H = H
    OBVIOUS
  <1> HIDE DEF top, tops, H
  <1>5. FlattenSeq(tops) \o RackPair(1) \in Plan(r, {}, H)
    BY <1>1, <1>2, <1>4, PlanThen
  <1>6. FlattenSeq(tops) \o RackPair(1) \o RackPair(3) \in Plan(r, {}, H)
    BY <1>2, <1>4, <1>5, PlanThen
  <1> QED
    BY <1>3, <1>6, PlanWeaken

\* Whatever a recipe asks for, each of its calls finds done what it relies on.
LEMMA CallsArePlanned ==
    ASSUME NEW r, Buildable(r)
    PROVE  GeneratorCalls(r) \in Plan(r, {}, {})
  <1>1. CASE r.kind = "fixed"
    BY <1>1, FixedFabricPlan DEF GeneratorCalls
  <1>2. CASE r.kind = "tier"
    BY <1>2, TierPlan DEF GeneratorCalls
  <1>3. CASE r.kind = "access"
    BY <1>3, AccessFabricPlan DEF GeneratorCalls
  <1>4. CASE r.kind = "plain"
    BY <1>4, PlainFabricPlan DEF GeneratorCalls
  <1> QED
    BY <1>1, <1>2, <1>3, <1>4 DEF Buildable

------------------------------------------------------------------------------
\* How many ports of a device a recipe asks for.

\* The calls, whatever they are about, but for those that start a device of this
\* simulation at another port.
Calls == [call : {"createSwitch"}, device : Devices, portCount : Nat]
         \cup [call : {"createLink"}, src : Devices, tgt : Devices]
         \cup [call : {"createExternalLink"}, d1 : Devices, d2 : Devices, pod : Nat]
         \cup [call : {"createNIC"}, host : Hosts, rack : Nat, leaf : Nat, hostID : Nat,
               device : Devices]
         \cup [call : {"latch"}, device : Devices]
         \cup [call : {"startAt", "endAt"}, device : Devices, port : Nat]
         \cup [call : {"savePod"}, pod : Nat]
OwnStart(r, c) == c.call = "startAt" /\ Own(r, c.device)
Later(r) == {c \in Calls : ~ OwnStart(r, c)}

\* The calls that take a port of a device.
Takes(c, d) ==
    \/ c.call = "createLink" /\ d \in {c.src, c.tgt}
    \/ c.call = "createExternalLink" /\ d \in {c.d1, c.d2}
    \/ c.call = "createNIC" /\ d = c.device
Taking(d) == {c \in Calls : Takes(c, d)}
Uses(cs, d) == Cardinality(Places(cs, Taking(d)))

\* Sequences that take no more than m ports of a device.
Within(r, d, m) == {cs \in Seq(Later(r)) : Uses(cs, d) <= m}

LEMMA WithinConcat ==
    ASSUME NEW r, NEW d, NEW m \in Nat, NEW n \in Nat,
           NEW a \in Within(r, d, m), NEW b \in Within(r, d, n)
    PROVE  a \o b \in Within(r, d, m + n)
  <1>1. a \in Seq(Later(r)) /\ b \in Seq(Later(r)) /\ a \o b \in Seq(Later(r))
    <2> HIDE DEF Later
    <2> QED
      BY DEF Within
  <1>2. Uses(a, d) \in Nat /\ Uses(b, d) \in Nat
    BY <1>1, PlacesFinite DEF Uses
  <1>3. Uses(a \o b, d) = Uses(a, d) + Uses(b, d)
    BY <1>1, ConcatPlaces DEF Uses
  <1> QED
    BY <1>1, <1>2, <1>3 DEF Within

LEMMA WithinMore ==
    ASSUME NEW r, NEW d, NEW m \in Nat, NEW n \in Nat, m <= n, NEW a \in Within(r, d, m)
    PROVE  a \in Within(r, d, n)
  <1>1. Uses(a, d) \in Nat /\ Uses(a, d) <= m
    BY PlacesFinite DEF Uses, Within
  <1> QED
    BY <1>1 DEF Within

LEMMA WithinNothing ==
    ASSUME NEW r, NEW d
    PROVE  <<>> \in Within(r, d, 0)
  <1>1. <<>> \in Seq(Later(r)) /\ Places(<<>>, Taking(d)) = {}
    BY DEF Places
  <1>2. Uses(<<>>, d) = 0
    BY <1>1, FS_EmptySet DEF Uses
  <1> QED
    BY <1>1, <1>2 DEF Within

\* The same from each of n sequences.
LEMMA WithinEach ==
    ASSUME NEW r, NEW d, NEW n \in Nat, NEW m \in Nat, NEW seqs, seqs = [i \in 1..n |-> seqs[i]],
           \A i \in 1..n : seqs[i] \in Within(r, d, m)
    PROVE  FlattenSeq(seqs) \in Within(r, d, n * m)
  <1> DEFINE B == [i \in 0..n |-> i * m]
  <1>1. \A i \in 1..n : seqs[i] \in Seq(Later(r)) /\ Cardinality(Places(seqs[i], Taking(d))) <= m
    BY DEF Within, Uses
  <1>2. /\ B[0] = 0 /\ B[n] = n * m
        /\ \A i \in 0..n : B[i] \in Nat
        /\ \A i \in 1..n : B[i - 1] + m = B[i]
    <2>1. ASSUME NEW i \in 0..n
          PROVE  B[i] = i * m /\ i * m \in Nat
      OBVIOUS
    <2>2. ASSUME NEW i \in 1..n
          PROVE  B[i - 1] + m = B[i]
      <3>1. i \in 0..n /\ i - 1 \in 0..n
        OBVIOUS
      <3>2. B[i - 1] = (i - 1) * m /\ B[i] = i * m
        BY <3>1
      <3>3. (i - 1) * m + m = i * m
        OBVIOUS
      <3> QED
        BY <3>2, <3>3
    <2>3. 0 \in 0..n /\ n \in 0..n /\ 0 * m = 0
      OBVIOUS
    <2> QED
      BY <2>1, <2>2, <2>3
  <1> HIDE DEF B
  <1>3. \A i \in 1..n : Cardinality(Places(seqs[i], Taking(d))) + B[i - 1] <= B[i]
    <2>1. ASSUME NEW i \in 1..n
          PROVE  Cardinality(Places(seqs[i], Taking(d))) + B[i - 1] <= B[i]
      <3>1. Cardinality(Places(seqs[i], Taking(d))) \in Nat
        BY <1>1, PlacesFinite
      <3>2. i - 1 \in 0..n
        OBVIOUS
      <3> QED
        BY <1>1, <1>2, <3>1, <3>2
    <2> QED
      BY <2>1
  <1>4. FlattenSeq(seqs) \in Seq(Later(r)) /\ Cardinality(Places(FlattenSeq(seqs), Taking(d))) <= B[n]
    BY <1>1, <1>2, <1>3, FlattenPlaces
  <1> QED
    BY <1>2, <1>4 DEF Within, Uses

\* From no more than one of them.
LEMMA WithinAtMostOne ==
    ASSUME NEW r, NEW d, NEW n \in Nat, NEW m \in Nat, NEW seqs,
           seqs = [i \in 1..n |-> seqs[i]],
           \A i \in 1..n : seqs[i] \in Within(r, d, m),
           \A i, j \in 1..n : i # j => seqs[i] \in Within(r, d, 0) \/ seqs[j] \in Within(r, d, 0)
    PROVE  FlattenSeq(seqs) \in Within(r, d, m)
  <1>0. PICK k : \A i \in 1..n : i = k \/ seqs[i] \in Within(r, d, 0)
    <2>1. CASE \E i \in 1..n : seqs[i] \notin Within(r, d, 0)
      BY <2>1
    <2>2. CASE \A i \in 1..n : seqs[i] \in Within(r, d, 0)
      BY <2>2
    <2> QED
      BY <2>1, <2>2
  <1> DEFINE B == [i \in 0..n |-> IF k \in 1..i THEN m ELSE 0]
  <1>1. \A i \in 1..n : /\ seqs[i] \in Seq(Later(r))
                        /\ Cardinality(Places(seqs[i], Taking(d))) <= IF i = k THEN m ELSE 0
    BY <1>0 DEF Within, Uses
  <1>2. /\ B[0] = 0 /\ B[n] = IF k \in 1..n THEN m ELSE 0
        /\ \A i \in 0..n : B[i] \in Nat
        /\ \A i \in 1..n : B[i - 1] + (IF i = k THEN m ELSE 0) = B[i]
    <2>1. ASSUME NEW i \in 0..n
          PROVE  B[i] = (IF k \in 1..i THEN m ELSE 0) /\ B[i] \in Nat
      OBVIOUS
    <2>2. ASSUME NEW i \in 1..n
          PROVE  B[i - 1] + (IF i = k THEN m ELSE 0) = B[i]
      <3>1. i \in 0..n /\ i - 1 \in 0..n
        OBVIOUS
      <3>2. B[i - 1] = (IF k \in 1..(i - 1) THEN m ELSE 0) /\ B[i] = (IF k \in 1..i THEN m ELSE 0)
        BY <2>1, <3>1
      <3>3. k \in 1..i <=> (k \in 1..(i - 1) \/ k = i)
        BY <3>1
      <3>4. i = k => ~ (k \in 1..(i - 1))
        BY <3>1
      <3> HIDE DEF B
      <3> QED
        BY <3>2, <3>3, <3>4
    <2>3. 0 \in 0..n /\ n \in 0..n /\ 1..0 = {}
      OBVIOUS
    <2> HIDE DEF B
    <2> QED
      BY <2>1, <2>2, <2>3
  <1> HIDE DEF B
  <1>3. \A i \in 1..n : Cardinality(Places(seqs[i], Taking(d))) + B[i - 1] <= B[i]
    <2>1. ASSUME NEW i \in 1..n
          PROVE  Cardinality(Places(seqs[i], Taking(d))) + B[i - 1] <= B[i]
      <3>1. Cardinality(Places(seqs[i], Taking(d))) \in Nat
        BY <1>1, PlacesFinite
      <3>2. i - 1 \in 0..n
        OBVIOUS
      <3> QED
        BY <1>1, <1>2, <3>1, <3>2
    <2> QED
      BY <2>1
  <1>4. FlattenSeq(seqs) \in Seq(Later(r)) /\ Cardinality(Places(FlattenSeq(seqs), Taking(d))) <= B[n]
    BY <1>1, <1>2, <1>3, FlattenPlaces
  <1>5. Cardinality(Places(FlattenSeq(seqs), Taking(d))) \in Nat /\ B[n] \in Nat /\ B[n] <= m
    BY <1>2, <1>4, PlacesFinite
  <1> QED
    BY <1>4, <1>5 DEF Within, Uses

\* One call, or the same call several times.
LEMMA WithinCalls ==
    ASSUME NEW r, NEW d, NEW c \in Later(r), NEW n \in Nat
    PROVE  /\ <<c>> \in Within(r, d, IF Takes(c, d) THEN 1 ELSE 0)
           /\ [i \in 1..n |-> c] \in Within(r, d, IF Takes(c, d) THEN n ELSE 0)
  <1>1. c \in Taking(d) <=> Takes(c, d)
    BY DEF Taking, Later
  <1>2. ASSUME NEW k \in Nat, NEW s, s = [i \in 1..k |-> c]
        PROVE  s \in Within(r, d, IF Takes(c, d) THEN k ELSE 0)
    <2>1. s \in Seq(Later(r)) /\ s = [i \in 1..k |-> s[i]] /\ \A i \in 1..k : s[i] = c
      <3> HIDE DEF Later
      <3> QED
        BY <1>2
    <2>2. Cardinality(Places(s, Taking(d))) = IF Takes(c, d) THEN k ELSE 0
      BY <1>1, <2>1, UniformPlaces
    <2> QED
      BY <2>1, <2>2 DEF Within, Uses
  <1>3. PICK one \in Nat : one = 1
    OBVIOUS
  <1>4. <<c>> = [i \in 1..one |-> c]
    BY <1>3
  <1> QED
    BY <1>2, <1>3, <1>4

\* One sequence after the other, when there is room for both.
LEMMA WithinBoth ==
    ASSUME NEW r, NEW d, NEW m \in Nat, NEW n \in Nat, NEW k \in Nat, m + n <= k,
           NEW a \in Within(r, d, m), NEW b \in Within(r, d, n)
    PROVE  a \o b \in Within(r, d, k)
  <1>1. a \o b \in Within(r, d, m + n) /\ m + n \in Nat
    BY WithinConcat
  <1> QED
    BY <1>1, WithinMore

\* Calls that take no port of a device of this simulation.
LEMMA QuietUses ==
    ASSUME NEW r, NEW d, NEW e \in Devices, NEW n \in Nat
    PROVE  /\ Switch(e, n) \in Within(r, d, 0) /\ Latch(e) \in Within(r, d, 0)
           /\ EndAt(e, n) \in Within(r, d, 0) /\ SavePod(n) \in Within(r, d, 0)
           /\ ~ Own(r, e) => StartAt(e, n) \in Within(r, d, 0)
  <1>1. ASSUME NEW c \in Later(r), ~ Takes(c, d)
        PROVE  <<c>> \in Within(r, d, 0)
    BY <1>1, WithinCalls
  <1> DEFINE c1 == [call |-> "createSwitch", device |-> e, portCount |-> n]
             c2 == [call |-> "latch", device |-> e]
             c3 == [call |-> "endAt", device |-> e, port |-> n]
             c4 == [call |-> "savePod", pod |-> n]
             c5 == [call |-> "startAt", device |-> e, port |-> n]
  <1>2. c1 \in Later(r) /\ ~ Takes(c1, d)
    BY DEF Later, Calls, OwnStart, Takes
  <1>3. c2 \in Later(r) /\ ~ Takes(c2, d)
    BY DEF Later, Calls, OwnStart, Takes
  <1>4. c3 \in Later(r) /\ ~ Takes(c3, d)
    BY DEF Later, Calls, OwnStart, Takes
  <1>5. c4 \in Later(r) /\ ~ Takes(c4, d)
    BY DEF Later, Calls, OwnStart, Takes
  <1>6. ~ Own(r, e) => c5 \in Later(r) /\ ~ Takes(c5, d)
    BY DEF Later, Calls, OwnStart, Takes
  <1> HIDE DEF c1, c2, c3, c4, c5
  <1>7. /\ <<c1>> \in Within(r, d, 0) /\ <<c2>> \in Within(r, d, 0) /\ <<c3>> \in Within(r, d, 0)
        /\ <<c4>> \in Within(r, d, 0) /\ (~ Own(r, e) => <<c5>> \in Within(r, d, 0))
    BY <1>1, <1>2, <1>3, <1>4, <1>5, <1>6
  <1> QED
    BY <1>7 DEF c1, c2, c3, c4, c5, Switch, Latch, EndAt, SavePod, StartAt

LEMMA TrunkUses ==
    ASSUME NEW r, NEW d, NEW a \in Devices, NEW b \in Devices, NEW n \in Nat
    PROVE  /\ d = a \/ d = b => Trunk(a, b, n) \in Within(r, d, n)
           /\ d # a /\ d # b => Trunk(a, b, n) \in Within(r, d, 0)
  <1> DEFINE c == [call |-> "createLink", src |-> a, tgt |-> b]
  <1>1. c \in Later(r) /\ (Takes(c, d) <=> d = a \/ d = b)
    BY DEF Later, Calls, OwnStart, Takes
  <1>2. Trunk(a, b, n) = [i \in 1..n |-> c]
    BY DEF Trunk
  <1> HIDE DEF c
  <1>3. Trunk(a, b, n) \in Within(r, d, IF Takes(c, d) THEN n ELSE 0)
    BY <1>1, <1>2, WithinCalls
  <1> QED
    BY <1>1, <1>3

LEMMA ExternalTrunkUses ==
    ASSUME NEW r, NEW d, NEW a \in Devices, NEW b \in Devices, d # b, NEW pod \in Nat, NEW n \in Nat
    PROVE  /\ d = a => ExternalTrunk(a, b, pod, n) \in Within(r, d, n)
           /\ d # a => ExternalTrunk(a, b, pod, n) \in Within(r, d, 0)
  <1> DEFINE c == [call |-> "createExternalLink", d1 |-> a, d2 |-> b, pod |-> pod]
  <1>1. c \in Later(r) /\ (Takes(c, d) <=> d = a)
    BY DEF Later, Calls, OwnStart, Takes
  <1>2. ExternalTrunk(a, b, pod, n) = [i \in 1..n |-> c]
    BY DEF ExternalTrunk
  <1> HIDE DEF c
  <1>3. ExternalTrunk(a, b, pod, n) \in Within(r, d, IF Takes(c, d) THEN n ELSE 0)
    BY <1>1, <1>2, WithinCalls
  <1> QED
    BY <1>1, <1>3

LEMMA NicUses ==
    ASSUME NEW r, NEW d, NEW host \in Hosts, NEW rack \in Nat, NEW hostID \in Nat, NEW leaf \in Nat,
           NEW e \in Devices
    PROVE  Nic(host, rack, hostID, leaf, e) \in Within(r, d, IF d = e THEN 1 ELSE 0)
  <1> DEFINE c == [call |-> "createNIC", host |-> host, rack |-> rack, leaf |-> leaf,
                   hostID |-> hostID, device |-> e]
  <1>1. c \in Calls
    <2> HIDE DEF Hosts, Devices
    <2> QED
      BY DEF Calls
  <1>2. c \in Later(r) /\ (Takes(c, d) <=> d = e)
    BY <1>1 DEF Later, OwnStart, Takes
  <1>3. Nic(host, rack, hostID, leaf, e) = <<c>>
    BY DEF Nic
  <1> HIDE DEF c
  <1> QED
    BY <1>2, <1>3, WithinCalls

\* A server asks its leaves for a port each, or its only leaf for two, and its IPU
\* for all the ports it has.
LEMMA ServerUses ==
    ASSUME NEW r, NEW d, NEW rack \in Nat, NEW host \in Nat, NEW vms \in Nat,
           NEW leaf1 \in Devices, leaf1.kind = "leaf",
           NEW leaf2, leaf2 # NoLeaf => leaf2 \in Devices /\ leaf2.kind = "leaf"
    PROVE  /\ d = IPU(rack, host) =>
                  ServerIPUAndVMs(rack, host, leaf1, leaf2, vms) \in Within(r, d, 3 + vms)
           /\ d # IPU(rack, host) =>
                  ServerIPUAndVMs(rack, host, leaf1, leaf2, vms)
                      \in Within(r, d, (IF d = leaf1 THEN 1 ELSE 0)
                                       + (IF d = (IF leaf2 = NoLeaf THEN leaf1 ELSE leaf2) THEN 1 ELSE 0))
  <1>1. PICK ipu : ipu = IPU(rack, host)
    OBVIOUS
  <1>2. PICK second : second = IF leaf2 = NoLeaf THEN leaf1 ELSE leaf2
    OBVIOUS
  <1>3. /\ ipu \in Devices /\ ipu # leaf1 /\ second \in Devices /\ ipu # second
    BY <1>1, <1>2, NamedDevices
  <1> DEFINE nic == [i \in 1..vms |-> Nic(<<"vm", rack, host, i>>, rack, host, 10 + i, ipu)]
             a1 == Switch(ipu, 2 + 1 + vms)
             a2 == Trunk(leaf1, ipu, 1)
             a3 == Trunk(second, ipu, 1)
             a4 == Nic(<<"host", rack, host>>, rack, host, 1, ipu)
             a5 == FlattenSeq(nic)
  <1>4. ServerIPUAndVMs(rack, host, leaf1, leaf2, vms) = a1 \o a2 \o a3 \o a4 \o a5
    BY <1>1, <1>2 DEF ServerIPUAndVMs, ForEach
  <1>5. PICK one \in Nat, zero \in Nat : one = 1 /\ zero = 0
    OBVIOUS
  <1>6. PICK mine \in Nat, first \in Nat, other \in Nat :
            /\ mine = IF d = ipu THEN 1 ELSE 0
            /\ first = IF d = leaf1 \/ d = ipu THEN 1 ELSE 0
            /\ other = IF d = second \/ d = ipu THEN 1 ELSE 0
    OBVIOUS
  <1>7. a1 \in Within(r, d, zero)
    <2>1. 2 + 1 + vms \in Nat
      OBVIOUS
    <2> QED
      BY <1>3, <1>5, <2>1, QuietUses
  <1>8. a2 \in Within(r, d, first) /\ a3 \in Within(r, d, other)
    <2>1. \A e \in Devices : /\ d = e \/ d = ipu => Trunk(e, ipu, one) \in Within(r, d, one)
                             /\ d # e /\ d # ipu => Trunk(e, ipu, one) \in Within(r, d, zero)
      BY <1>3, <1>5, TrunkUses
    <2> QED
      BY <1>3, <1>5, <1>6, <2>1
  <1>9. a4 \in Within(r, d, mine)
    <2>1. <<"host", rack, host>> \in Hosts /\ 1 \in Nat
      BY DEF Hosts
    <2> QED
      BY <1>3, <1>6, <2>1, NicUses
  <1>10. a5 \in Within(r, d, vms * mine)
    <2>1. ASSUME NEW i \in 1..vms
          PROVE  nic[i] \in Within(r, d, mine)
      <3>1. PICK vm \in Hosts, id \in Nat : vm = <<"vm", rack, host, i>> /\ id = 10 + i
        <4>1. <<"vm", rack, host, i>> \in Hosts /\ 10 + i \in Nat
          BY DEF Hosts
        <4> QED
          BY <4>1
      <3>2. nic[i] = Nic(vm, rack, host, id, ipu)
        BY <3>1
      <3> HIDE DEF nic, a1, a2, a3, a4, a5
      <3>3. Nic(vm, rack, host, id, ipu) \in Within(r, d, IF d = ipu THEN 1 ELSE 0)
        BY <1>3, <3>1, NicUses
      <3> QED
        BY <1>6, <3>2, <3>3
    <2>2. nic = [i \in 1..vms |-> nic[i]]
      OBVIOUS
    <2> HIDE DEF nic
    <2> QED
      BY <2>1, <2>2, WithinEach
  <1>11. vms * mine = IF d = ipu THEN vms ELSE 0
    <2>1. mine = 0 => vms * mine = 0
      OBVIOUS
    <2>2. mine = 1 => vms * mine = vms
      OBVIOUS
    <2> QED
      BY <1>6, <2>1, <2>2
  <1>12. PICK rest \in Nat : rest = vms * mine
    BY <1>11
  <1> HIDE DEF a1, a2, a3, a4, a5
  <1>13. a1 \o a2 \o a3 \o a4 \o a5 \in Within(r, d, first + other + mine + rest)
    <2>1. a1 \o a2 \in Within(r, d, first)
      BY <1>5, <1>7, <1>8, WithinBoth
    <2>2. a1 \o a2 \o a3 \in Within(r, d, first + other) /\ first + other \in Nat
      BY <1>8, <2>1, WithinConcat
    <2>3. a1 \o a2 \o a3 \o a4 \in Within(r, d, first + other + mine) /\ first + other + mine \in Nat
      BY <1>9, <2>2, WithinConcat
    <2> QED
      BY <1>10, <1>12, <2>3, WithinConcat
  <1>14. CASE d = ipu
    <2>1. first + other + mine + rest = 3 + vms
      BY <1>6, <1>11, <1>12, <1>14
    <2> QED
      BY <1>1, <1>4, <1>13, <1>14, <2>1
  <1>15. CASE d # ipu
    <2>1. first + other + mine + rest = first + other
      BY <1>6, <1>11, <1>12, <1>15
    <2>2. first = (IF d = leaf1 THEN 1 ELSE 0) /\ other = (IF d = second THEN 1 ELSE 0)
      BY <1>6, <1>15
    <2> QED
      BY <1>1, <1>2, <1>4, <1>13, <1>15, <2>1, <2>2
  <1> QED
    BY <1>14, <1>15

\* How many ports a host of the rack takes of a leaf.
LeafAsks(d, leaf1, leaf2, haveIPU) ==
    IF d = leaf1 THEN (IF haveIPU /\ leaf2 = NoLeaf THEN 2 ELSE 1)
    ELSE IF d = leaf2 THEN 1 ELSE 0

LEMMA HostUses ==
    ASSUME NEW r, NEW d \in Devices, NEW rack \in Nat, NEW h \in Nat, NEW vms \in Nat,
           NEW haveIPU \in BOOLEAN, NEW leaf1 \in Devices, leaf1.kind = "leaf",
           NEW leaf2, leaf2 # NoLeaf => leaf2 \in Devices /\ leaf2.kind = "leaf" /\ leaf2 # leaf1
    PROVE  /\ d.kind # "ipu" =>
                  RackHost(rack, h, leaf1, leaf2, haveIPU, vms)
                      \in Within(r, d, LeafAsks(d, leaf1, leaf2, haveIPU))
           /\ d.kind = "ipu" =>
                  RackHost(rack, h, leaf1, leaf2, haveIPU, vms)
                      \in Within(r, d, IF haveIPU /\ d = IPU(rack, h) THEN 3 + vms ELSE 0)
  <1>1. PICK s : s = RackHost(rack, h, leaf1, leaf2, haveIPU, vms)
    OBVIOUS
  <1>2. NoLeaf \notin Devices /\ leaf1 # NoLeaf /\ IPU(rack, h).kind = "ipu"
    <2>1. NoLeaf.kind = "none" /\ \A e \in Devices : e.kind # "none"
      BY DEF Devices, DeviceKinds, NoLeaf, Device
    <2>2. IPU(rack, h).kind = "ipu"
      BY NamedDevices
    <2> QED
      BY <2>1, <2>2
  <1>3. CASE haveIPU
    <2>1. s = ServerIPUAndVMs(rack, h, leaf1, leaf2, vms)
      BY <1>1, <1>3 DEF RackHost
    <2>2. PICK u : u = (IF d = leaf1 THEN 1 ELSE 0)
                       + (IF d = (IF leaf2 = NoLeaf THEN leaf1 ELSE leaf2) THEN 1 ELSE 0)
      OBVIOUS
    <2>3. /\ d = IPU(rack, h) => s \in Within(r, d, 3 + vms)
          /\ d # IPU(rack, h) => s \in Within(r, d, u)
      BY <2>1, <2>2, ServerUses
    <2>4. d.kind # "ipu" => u = LeafAsks(d, leaf1, leaf2, haveIPU)
      BY <1>2, <1>3, <2>2 DEF LeafAsks
    <2>5. d.kind = "ipu" => u = 0
      BY <2>2
    <2> QED
      BY <1>1, <1>2, <1>3, <2>3, <2>4, <2>5
  <1>4. CASE ~ haveIPU
    <2>1. PICK host \in Hosts, one \in Nat, two \in Nat :
              host = <<"host", rack, h>> /\ one = 1 /\ two = 2
      BY DEF Hosts
    <2>2. PICK a, b : /\ a = Nic(host, rack, h, one, leaf1)
                      /\ b = IF leaf2 = NoLeaf THEN <<>> ELSE Nic(host, rack, h, two, leaf2)
      OBVIOUS
    <2>3. s = a \o b
      BY <1>1, <1>4, <2>1, <2>2 DEF RackHost
    <2>4. PICK m \in Nat, n \in Nat : /\ m = IF d = leaf1 THEN 1 ELSE 0
                                      /\ n = IF d = leaf2 THEN 1 ELSE 0
      OBVIOUS
    <2>5. a \in Within(r, d, m)
      BY <2>2, <2>4, NicUses
    <2>6. b \in Within(r, d, n)
      <3>1. CASE leaf2 = NoLeaf
        <4>1. n = 0 /\ b = <<>>
          BY <1>2, <2>2, <2>4, <3>1
        <4> QED
          BY <4>1, WithinNothing
      <3>2. CASE leaf2 # NoLeaf
        BY <2>2, <2>4, <3>2, NicUses
      <3> QED
        BY <3>1, <3>2
    <2>7. s \in Within(r, d, m + n)
      BY <2>3, <2>5, <2>6, WithinConcat
    <2>8. d.kind # "ipu" => m + n = LeafAsks(d, leaf1, leaf2, haveIPU)
      BY <1>2, <1>4, <2>4 DEF LeafAsks
    <2>9. d.kind = "ipu" => m + n = 0
      BY <1>2, <2>4
    <2> QED
      BY <1>1, <1>4, <2>7, <2>8, <2>9
  <1> QED
    BY <1>3, <1>4

\* And all of them together.
LEMMA RackUses ==
    ASSUME NEW r, NEW d \in Devices, NEW rack \in Nat, NEW count \in Nat, NEW vms \in Nat,
           NEW haveIPU \in BOOLEAN, NEW leaf1 \in Devices, leaf1.kind = "leaf",
           NEW leaf2, leaf2 # NoLeaf => leaf2 \in Devices /\ leaf2.kind = "leaf" /\ leaf2 # leaf1
    PROVE  /\ d.kind # "ipu" =>
                  RackHosts(rack, leaf1, leaf2, count, haveIPU, vms)
                      \in Within(r, d, count * LeafAsks(d, leaf1, leaf2, haveIPU))
           /\ d.kind = "ipu" =>
                  RackHosts(rack, leaf1, leaf2, count, haveIPU, vms) \in Within(r, d, 3 + vms)
           /\ d.kind = "ipu" /\ ~ (haveIPU /\ \E h \in 1..count : d = IPU(rack, h)) =>
                  RackHosts(rack, leaf1, leaf2, count, haveIPU, vms) \in Within(r, d, 0)
  <1> DEFINE f == [h \in 1..count |-> RackHost(rack, h, leaf1, leaf2, haveIPU, vms)]
  <1>1. f = [h \in 1..count |-> f[h]]
    OBVIOUS
  <1>2. \A h \in 1..count : h \in Nat /\ f[h] = RackHost(rack, h, leaf1, leaf2, haveIPU, vms)
    OBVIOUS
  <1>3. RackHosts(rack, leaf1, leaf2, count, haveIPU, vms) = FlattenSeq(f)
    BY DEF RackHosts, ForEach
  <1> HIDE DEF f
  <1>4. CASE d.kind # "ipu"
    <2>1. PICK m \in Nat : m = LeafAsks(d, leaf1, leaf2, haveIPU)
      BY DEF LeafAsks
    <2>2. \A h \in 1..count : f[h] \in Within(r, d, m)
      BY <1>2, <1>4, <2>1, HostUses
    <2>3. FlattenSeq(f) \in Within(r, d, count * m)
      BY <1>1, <2>2, WithinEach
    <2> QED
      BY <1>3, <1>4, <2>1, <2>3
  <1>5. CASE d.kind = "ipu"
    <2>1. PICK m \in Nat, zero \in Nat : m = 3 + vms /\ zero = 0
      OBVIOUS
    <2>2. ASSUME NEW h \in 1..count
          PROVE  /\ haveIPU /\ d = IPU(rack, h) => f[h] \in Within(r, d, m)
                 /\ ~ (haveIPU /\ d = IPU(rack, h)) => f[h] \in Within(r, d, 0)
      <3>1. /\ h \in Nat
            /\ RackHost(rack, h, leaf1, leaf2, haveIPU, vms)
                   \in Within(r, d, IF haveIPU /\ d = IPU(rack, h) THEN 3 + vms ELSE 0)
        BY <1>2, <1>5, HostUses
      <3> QED
        BY <1>2, <2>1, <3>1
    <2>3. \A h \in 1..count : f[h] \in Within(r, d, m)
      <3>1. \A h \in 1..count : f[h] \in Within(r, d, zero) => f[h] \in Within(r, d, m)
        BY <2>1, WithinMore
      <3> QED
        BY <2>1, <2>2, <3>1
    <2>4. ASSUME NEW h \in 1..count, NEW k \in 1..count, h # k
          PROVE  f[h] \in Within(r, d, 0) \/ f[k] \in Within(r, d, 0)
      <3>1. IPU(rack, h).index = 100 * rack + h /\ IPU(rack, k).index = 100 * rack + k
            /\ 100 * rack \in Nat
        BY DEF IPU, Device
      <3>2. IPU(rack, h) # IPU(rack, k)
        BY <2>4, <3>1
      <3> QED
        BY <2>2, <3>2
    <2>5. FlattenSeq(f) \in Within(r, d, m)
      BY <1>1, <2>3, <2>4, WithinAtMostOne
    <2>6. ASSUME ~ (haveIPU /\ \E h \in 1..count : d = IPU(rack, h))
          PROVE  FlattenSeq(f) \in Within(r, d, 0)
      <3>1. \A h \in 1..count : f[h] \in Within(r, d, zero)
        BY <2>1, <2>2, <2>6
      <3>2. FlattenSeq(f) \in Within(r, d, count * zero)
        BY <1>1, <3>1, WithinEach
      <3>3. count * zero = 0
        BY <2>1
      <3> QED
        BY <3>2, <3>3
    <2> QED
      BY <1>3, <1>5, <2>1, <2>5, <2>6
  <1> QED
    BY <1>4, <1>5

\* Calls of which none takes a port.
LEMMA WithinNone ==
    ASSUME NEW r, NEW d, NEW n \in Nat, NEW seqs, seqs = [i \in 1..n |-> seqs[i]],
           \A i \in 1..n : seqs[i] \in Within(r, d, 0)
    PROVE  FlattenSeq(seqs) \in Within(r, d, 0)
  <1>1. PICK zero \in Nat : zero = 0
    OBVIOUS
  <1>2. FlattenSeq(seqs) \in Within(r, d, n * zero)
    BY <1>1, WithinEach
  <1>3. n * zero = 0
    BY <1>1
  <1> QED
    BY <1>2, <1>3

\* The trunks from a number of spines to a leaf.
LEMMA UplinkUses ==
    ASSUME NEW r, NEW d \in Devices, NEW n \in Nat, NEW count \in Nat,
           NEW leaf \in Devices, leaf.kind = "leaf",
           NEW u, u = [s \in 1..n |-> u[s]], \A s \in 1..n : u[s] = Trunk(Spine(s), leaf, count)
    PROVE  /\ d.kind = "spine" => FlattenSeq(u) \in Within(r, d, count)
           /\ d = leaf => FlattenSeq(u) \in Within(r, d, n * count)
           /\ d.kind # "spine" /\ d # leaf => FlattenSeq(u) \in Within(r, d, 0)
  <1>1. ASSUME NEW s \in 1..n
        PROVE  /\ d = Spine(s) \/ d = leaf => u[s] \in Within(r, d, count)
               /\ d # Spine(s) /\ d # leaf => u[s] \in Within(r, d, 0)
               /\ Spine(s).kind = "spine" /\ Spine(s).index = s
    <2>1. s \in Nat
      OBVIOUS
    <2> QED
      BY <2>1, NamedDevices, TrunkUses
  <1>2. u = [s \in 1..n |-> u[s]]
    OBVIOUS
  <1>3. \A s \in 1..n : u[s] \in Within(r, d, 0) => u[s] \in Within(r, d, count)
    <2>1. PICK zero \in Nat : zero = 0
      OBVIOUS
    <2> QED
      BY <2>1, WithinMore
  <1>4. \A s \in 1..n : u[s] \in Within(r, d, count)
    BY <1>1, <1>3
  <1>5. CASE d.kind = "spine"
    <2>1. \A s, t \in 1..n : s # t => u[s] \in Within(r, d, 0) \/ u[t] \in Within(r, d, 0)
      BY <1>1, <1>5
    <2> QED
      BY <1>2, <1>4, <1>5, <2>1, WithinAtMostOne
  <1>6. CASE d = leaf
    BY <1>2, <1>4, <1>6, WithinEach
  <1>7. CASE d.kind # "spine" /\ d # leaf
    BY <1>1, <1>2, <1>7, WithinNone
  <1> QED
    BY <1>5, <1>6, <1>7

\* What a rack asks of devices that have nothing to do with it.
LEMMA OtherRackUses ==
    ASSUME NEW r, NEW d \in Devices, NEW rack \in Nat, NEW count \in Nat, NEW vms \in Nat,
           NEW haveIPU \in BOOLEAN, NEW leaf1 \in Devices, leaf1.kind = "leaf",
           NEW leaf2, leaf2 # NoLeaf => leaf2 \in Devices /\ leaf2.kind = "leaf" /\ leaf2 # leaf1,
           d.kind # "ipu", d # leaf1, d # leaf2
    PROVE  RackHosts(rack, leaf1, leaf2, count, haveIPU, vms) \in Within(r, d, 0)
  <1>1. PICK asks \in Nat : asks = LeafAsks(d, leaf1, leaf2, haveIPU) /\ asks = 0
    BY DEF LeafAsks
  <1>2. RackHosts(rack, leaf1, leaf2, count, haveIPU, vms)
            \in Within(r, d, count * LeafAsks(d, leaf1, leaf2, haveIPU))
    BY RackUses
  <1>3. count * asks = 0
    BY <1>1
  <1> QED
    BY <1>1, <1>2, <1>3

\* IPUs of different racks have different names, as long as two digits are enough.
LEMMA IPUsOfRacks ==
    ASSUME NEW i \in Nat, NEW j \in Nat, NEW h \in 1..99, NEW g \in 1..99, IPU(i, h) = IPU(j, g)
    PROVE  i = j /\ h = g
  <1>1. 100 * i + h = 100 * j + g
    BY DEF IPU, Device
  <1> QED
    BY <1>1

LEMMA PlainLeafUses ==
    ASSUME NEW r, Buildable(r), r.kind = "plain", NEW d \in Devices, NEW i \in Nat
    PROVE  /\ d.kind = "spine" => PlainLeaf(r, i) \in Within(r, d, r.spineTrunk)
           /\ d = Leaf(i) => PlainLeaf(r, i) \in Within(r, d,
                                r.spines * r.spineTrunk + (IF r.haveIPU THEN 2 ELSE 1) * r.hosts)
           /\ d.kind = "ipu" => PlainLeaf(r, i) \in Within(r, d, 3 + r.vms)
           /\ d.kind = "ipu" /\ ~ (r.haveIPU /\ \E h \in 1..r.hosts : d = IPU(i, h)) =>
                  PlainLeaf(r, i) \in Within(r, d, 0)
           /\ d.kind \notin {"spine", "ipu"} /\ d # Leaf(i) => PlainLeaf(r, i) \in Within(r, d, 0)
  <1>1. PICK spines \in Nat, trunk \in Nat, hosts \in Nat, vms \in Nat, have \in BOOLEAN, zero \in Nat :
            /\ spines = r.spines /\ trunk = r.spineTrunk /\ hosts = r.hosts /\ vms = r.vms
            /\ have = r.haveIPU /\ zero = 0
    BY DEF Buildable
  <1>2. PICK leaf, none : leaf = Leaf(i) /\ none = NoLeaf
    OBVIOUS
  <1>3. leaf \in Devices /\ leaf.kind = "leaf" /\ leaf # none /\ d # none
    BY <1>2, NamedDevices DEF NoLeaf, Device, Devices, DeviceKinds
  <1>4. PICK u : u = [s \in 1..spines |-> Trunk(Spine(s), leaf, trunk)]
    OBVIOUS
  <1>5. PICK a1, a2, a3, a4 :
            /\ a1 = Switch(leaf, r.leafPorts) /\ a2 = FlattenSeq(u) /\ a3 = Latch(leaf)
            /\ a4 = RackHosts(i, leaf, none, hosts, have, vms)
    OBVIOUS
  <1>6. PlainLeaf(r, i) = a1 \o a2 \o a3 \o a4
    BY <1>1, <1>2, <1>4, <1>5 DEF PlainLeaf, ForEach
  <1>7. a1 \in Within(r, d, zero) /\ a3 \in Within(r, d, zero)
    <2>1. r.leafPorts \in Nat
      BY DEF Buildable
    <2> QED
      BY <1>1, <1>3, <1>5, <2>1, QuietUses
  <1>8. ASSUME NEW m \in Nat, NEW k \in Nat, a2 \in Within(r, d, m), a4 \in Within(r, d, k)
        PROVE  PlainLeaf(r, i) \in Within(r, d, m + k)
    <2>1. a1 \o a2 \in Within(r, d, m)
      BY <1>1, <1>7, <1>8, WithinBoth
    <2>2. a1 \o a2 \o a3 \in Within(r, d, m)
      BY <1>1, <1>7, <2>1, WithinBoth
    <2> QED
      BY <1>6, <1>8, <2>2, WithinConcat
  <1>9. /\ d.kind = "spine" => a2 \in Within(r, d, trunk)
        /\ d = leaf => a2 \in Within(r, d, spines * trunk)
        /\ d.kind # "spine" /\ d # leaf => a2 \in Within(r, d, zero)
    <2>1. /\ d.kind = "spine" => FlattenSeq(u) \in Within(r, d, trunk)
          /\ d = leaf => FlattenSeq(u) \in Within(r, d, spines * trunk)
          /\ d.kind # "spine" /\ d # leaf => FlattenSeq(u) \in Within(r, d, 0)
      <3>1. leaf \in Devices /\ leaf.kind = "leaf"
        BY <1>3
      <3>2. u = [s \in 1..spines |-> u[s]] /\ \A s \in 1..spines : u[s] = Trunk(Spine(s), leaf, trunk)
        BY <1>4
      <3>3. d.kind = "spine" => FlattenSeq(u) \in Within(r, d, trunk)
        BY <3>1, <3>2, UplinkUses
      <3>4. d = leaf => FlattenSeq(u) \in Within(r, d, spines * trunk)
        BY <3>1, <3>2, UplinkUses
      <3>5. d.kind # "spine" /\ d # leaf => FlattenSeq(u) \in Within(r, d, 0)
        BY <3>1, <3>2, UplinkUses
      <3> QED
        BY <3>3, <3>4, <3>5
    <2> QED
      BY <1>1, <1>5, <2>1
  <1>10. d.kind # "ipu" /\ d # leaf => a4 \in Within(r, d, zero)
    BY <1>1, <1>2, <1>3, <1>5, OtherRackUses
  <1>11. CASE d.kind = "spine"
    <2>1. PlainLeaf(r, i) \in Within(r, d, trunk + zero)
      BY <1>3, <1>8, <1>9, <1>10, <1>11
    <2>2. trunk + zero = trunk
      BY <1>1
    <2> QED
      BY <1>1, <1>2, <1>3, <1>11, <2>1, <2>2
  <1>12. CASE d = leaf
    <2>1. PICK asks \in Nat : asks = LeafAsks(d, leaf, none, have) /\ asks = IF have THEN 2 ELSE 1
      BY <1>2, <1>12 DEF LeafAsks
    <2>2. a4 \in Within(r, d, hosts * LeafAsks(d, leaf, none, have))
      BY <1>2, <1>3, <1>5, <1>12, RackUses
    <2>3. spines * trunk \in Nat /\ hosts * asks \in Nat
      BY <1>1, <2>1
    <2>4. PlainLeaf(r, i) \in Within(r, d, spines * trunk + hosts * asks)
      BY <1>8, <1>9, <1>12, <2>1, <2>2, <2>3
    <2>5. spines * trunk + hosts * asks = r.spines * r.spineTrunk + (IF r.haveIPU THEN 2 ELSE 1) * r.hosts
      BY <1>1, <2>1
    <2> QED
      BY <1>2, <1>3, <1>12, <2>4, <2>5
  <1>13. CASE d.kind = "ipu"
    <2>1. a2 \in Within(r, d, zero)
      BY <1>3, <1>9, <1>13
    <2>2. PICK ports \in Nat : ports = 3 + vms
      BY <1>1
    <2>3. /\ a4 \in Within(r, d, ports)
          /\ ~ (have /\ \E h \in 1..hosts : d = IPU(i, h)) => a4 \in Within(r, d, zero)
      BY <1>1, <1>2, <1>3, <1>5, <1>13, <2>2, RackUses
    <2>4. zero + ports = 3 + vms /\ zero + zero = 0
      BY <1>1, <2>2
    <2>5. PlainLeaf(r, i) \in Within(r, d, zero + ports)
      BY <1>1, <1>8, <2>1, <2>3
    <2>6. ~ (have /\ \E h \in 1..hosts : d = IPU(i, h)) => PlainLeaf(r, i) \in Within(r, d, zero + zero)
      BY <1>1, <1>8, <2>1, <2>3
    <2> QED
      BY <1>1, <1>2, <1>3, <1>13, <2>4, <2>5, <2>6
  <1>14. CASE d.kind \notin {"spine", "ipu"} /\ d # leaf
    <2>1. PlainLeaf(r, i) \in Within(r, d, zero + zero)
      BY <1>1, <1>8, <1>9, <1>10, <1>14
    <2>2. zero + zero = 0
      BY <1>1
    <2> QED
      BY <1>2, <1>14, <2>1, <2>2
  <1> QED
    BY <1>11, <1>12, <1>13, <1>14

\* The first port of a device that is not reserved, and how many ports there are from
\* there on.
First(r, d) == IF r.kind = "plain" /\ d.kind = "spine" THEN r.reserved + 1 ELSE 1
Room(r, d) == PortCount(r, d) - First(r, d) + 1

\* A recipe begins with calls that make switches and say which port is the first.
Early(r) == {c \in Calls : \/ c.call = "createSwitch"
                           \/ OwnStart(r, c) /\ c.port = First(r, c.device)}
Spinal(r) == {c \in Early(r) : c.device.kind = "spine"}

LEMMA EarlySpines ==
    ASSUME NEW r, Buildable(r), r.kind = "plain"
    PROVE  PlainSpines(r) \in Seq(Spinal(r)) /\ PlainSpines(r) \in Seq(Early(r))
  <1> DEFINE f == [s \in 1..r.spines |-> StartAt(Spine(s), r.reserved + 1) \o Switch(Spine(s), r.spinePorts)]
  <1>1. r.spines \in Nat /\ r.reserved \in Nat /\ r.spinePorts \in Nat
    BY DEF Buildable
  <1>2. ASSUME NEW s \in 1..r.spines
        PROVE  f[s] \in Seq(Spinal(r))
    <2>1. s \in Nat
      OBVIOUS
    <2>2. PICK spine : spine = Spine(s) /\ spine \in Devices /\ spine.kind = "spine"
      BY <2>1, NamedDevices
    <2> DEFINE start == [call |-> "startAt", device |-> spine, port |-> r.reserved + 1]
               switch == [call |-> "createSwitch", device |-> spine, portCount |-> r.spinePorts]
    <2>3. start \in Spinal(r)
      <3>1. Own(r, spine) /\ First(r, spine) = r.reserved + 1
        BY <2>2 DEF Own, First
      <3>2. start \in Calls
        BY <1>1, <2>2 DEF Calls
      <3> QED
        BY <2>2, <3>1, <3>2 DEF Spinal, Early, OwnStart
    <2>4. switch \in Spinal(r)
      BY <1>1, <2>2 DEF Spinal, Early, Calls
    <2>5. f[s] = <<start>> \o <<switch>>
      BY <2>2 DEF StartAt, Switch
    <2> HIDE DEF start, switch, f
    <2>6. <<start>> \in Seq(Spinal(r)) /\ <<switch>> \in Seq(Spinal(r))
      <3> HIDE DEF Spinal
      <3> QED
        BY <2>3, <2>4
    <2>7. \A a, b \in Seq(Spinal(r)) : a \o b \in Seq(Spinal(r))
      <3> HIDE DEF Spinal
      <3> QED
        OBVIOUS
    <2> QED
      BY <2>5, <2>6, <2>7
  <1>3. f = [s \in 1..r.spines |-> f[s]] /\ PlainSpines(r) = FlattenSeq(f)
    BY DEF PlainSpines, ForEach
  <1> HIDE DEF f
  <1>4. PlainSpines(r) \in Seq(Spinal(r))
    BY <1>1, <1>2, <1>3, FlattenType
  <1>5. Spinal(r) \subseteq Early(r)
    BY DEF Spinal
  <1> HIDE DEF Spinal, Early
  <1> QED
    BY <1>4, <1>5

LEMMA PlainFits ==
    ASSUME NEW r, Buildable(r), r.kind = "plain", Fits(r), NEW d \in Devices
    PROVE  FlattenSeq([i \in 1..r.leaves |-> PlainLeaf(r, i)]) \in Within(r, d, Room(r, d))
  <1> DEFINE f == [i \in 1..r.leaves |-> PlainLeaf(r, i)]
  <1>1. PICK leaves \in Nat, spines \in Nat, trunk \in Nat, hosts \in Nat, vms \in Nat, have \in BOOLEAN,
             reserved \in Nat, each \in Nat, zero \in Nat :
            /\ leaves = r.leaves /\ spines = r.spines /\ trunk = r.spineTrunk /\ hosts = r.hosts
            /\ vms = r.vms /\ have = r.haveIPU /\ reserved = r.reserved
            /\ each = spines * trunk + (IF have THEN 2 ELSE 1) * hosts /\ zero = 0
    <2>1. /\ r.leaves \in Nat /\ r.spines \in Nat /\ r.spineTrunk \in Nat /\ r.hosts \in Nat
          /\ r.vms \in Nat /\ r.haveIPU \in BOOLEAN /\ r.reserved \in Nat
      BY DEF Buildable
    <2>2. r.spines * r.spineTrunk + (IF r.haveIPU THEN 2 ELSE 1) * r.hosts \in Nat
      BY <2>1
    <2> QED
      BY <2>1, <2>2
  <1>2. /\ r.spinePorts \in Nat /\ r.leafPorts \in Nat /\ reserved < r.spinePorts
        /\ reserved + leaves * trunk <= r.spinePorts /\ each <= r.leafPorts /\ (have => hosts < 100)
    BY <1>1 DEF Buildable, Fits, TwoDigits
  <1>3. f = [i \in 1..leaves |-> f[i]] /\ \A i \in 1..leaves : f[i] = PlainLeaf(r, i) /\ i \in Nat
    BY <1>1
  <1> SUFFICES FlattenSeq(f) \in Within(r, d, Room(r, d))
    OBVIOUS
  <1> HIDE DEF f
  <1>4. CASE d.kind = "spine"
    <2>1. \A i \in 1..leaves : f[i] \in Within(r, d, trunk)
      <3>1. \A i \in Nat : PlainLeaf(r, i) \in Within(r, d, r.spineTrunk)
        BY <1>4, PlainLeafUses
      <3> QED
        BY <1>1, <1>3, <3>1
    <2>2. FlattenSeq(f) \in Within(r, d, leaves * trunk)
      BY <1>3, <2>1, WithinEach
    <2>3. leaves * trunk \in Nat /\ Room(r, d) \in Nat /\ leaves * trunk <= Room(r, d)
      <3>1. leaves * trunk \in Nat
        BY <1>1
      <3>2. Room(r, d) = r.spinePorts - (reserved + 1) + 1
        BY <1>1, <1>4 DEF Room, First, PortCount
      <3> QED
        BY <1>2, <3>1, <3>2
    <2> QED
      BY <2>2, <2>3, WithinMore
  <1>5. CASE d.kind = "leaf"
    <2>1. ASSUME NEW i \in 1..leaves
          PROVE  /\ f[i] \in Within(r, d, each)
                 /\ d # Leaf(i) => f[i] \in Within(r, d, 0)
      <3>1. d = Leaf(i) => f[i] \in Within(r, d, each)
        <4>1. d = Leaf(i) => PlainLeaf(r, i) \in Within(r, d,
                                r.spines * r.spineTrunk + (IF r.haveIPU THEN 2 ELSE 1) * r.hosts)
          BY <1>3, PlainLeafUses
        <4>2. r.spines * r.spineTrunk + (IF r.haveIPU THEN 2 ELSE 1) * r.hosts = each
          BY <1>1
        <4> QED
          BY <1>3, <4>1, <4>2
      <3>2. d # Leaf(i) => f[i] \in Within(r, d, 0)
        BY <1>3, <1>5, PlainLeafUses
      <3>3. f[i] \in Within(r, d, zero) => f[i] \in Within(r, d, each)
        BY <1>1, WithinMore
      <3> QED
        BY <1>1, <3>1, <3>2, <3>3
    <2>2. \A i, j \in 1..leaves : i # j => f[i] \in Within(r, d, 0) \/ f[j] \in Within(r, d, 0)
      <3>1. \A i \in 1..leaves : d = Leaf(i) => d.index = i
        BY DEF Leaf, Device
      <3> QED
        BY <2>1, <3>1
    <2>3. FlattenSeq(f) \in Within(r, d, each)
      BY <1>3, <2>1, <2>2, WithinAtMostOne
    <2>4. Room(r, d) = r.leafPorts
      BY <1>2, <1>5 DEF Room, First, PortCount
    <2> QED
      BY <1>1, <1>2, <2>3, <2>4, WithinMore
  <1>6. CASE d.kind = "ipu"
    <2>1. PICK ports \in Nat : ports = 3 + vms
      BY <1>1
    <2>2. ASSUME NEW i \in 1..leaves
          PROVE  f[i] \in Within(r, d, ports)
      <3>1. PlainLeaf(r, i) \in Within(r, d, 3 + r.vms)
        BY <1>3, <1>6, PlainLeafUses
      <3> QED
        BY <1>1, <1>3, <2>1, <3>1
    <2>3. ASSUME NEW i \in 1..leaves, ~ (have /\ \E h \in 1..hosts : d = IPU(i, h))
          PROVE  f[i] \in Within(r, d, 0)
      BY <1>1, <1>3, <1>6, <2>3, PlainLeafUses
    <2>4. ASSUME NEW i \in 1..leaves, NEW j \in 1..leaves, i # j
          PROVE  f[i] \in Within(r, d, 0) \/ f[j] \in Within(r, d, 0)
      <3>1. SUFFICES ASSUME have, NEW h \in 1..hosts, NEW g \in 1..hosts, d = IPU(i, h), d = IPU(j, g)
                     PROVE  FALSE
        BY <2>3
      <3>2. h \in 1..99 /\ g \in 1..99 /\ i \in Nat /\ j \in Nat
        BY <1>1, <1>2, <3>1
      <3>3. IPU(i, h) = IPU(j, g)
        BY <3>1
      <3>4. i = j
        BY <3>2, <3>3, IPUsOfRacks
      <3> QED
        BY <2>4, <3>4
    <2>5. FlattenSeq(f) \in Within(r, d, ports)
      BY <1>3, <2>2, <2>4, WithinAtMostOne
    <2>6. Room(r, d) = ports
      BY <1>1, <1>6, <2>1 DEF Room, First, PortCount
    <2> QED
      BY <2>5, <2>6
  <1>7. CASE d.kind = "superspine"
    <2>1. ASSUME NEW i \in 1..leaves
          PROVE  f[i] \in Within(r, d, 0)
      <3>1. d # Leaf(i)
        BY <1>7 DEF Leaf, Device
      <3> QED
        BY <1>3, <1>7, <3>1, PlainLeafUses
    <2>2. FlattenSeq(f) \in Within(r, d, zero)
      BY <1>1, <1>3, <2>1, WithinNone
    <2>3. Room(r, d) \in Nat /\ zero <= Room(r, d)
      BY <1>1, <1>2, <1>7 DEF Room, First, PortCount
    <2> QED
      BY <1>1, <2>2, <2>3, WithinMore
  <1> QED
    BY <1>4, <1>5, <1>6, <1>7 DEF Devices, DeviceKinds

\* The trunks from a number of spines to both leaves of a pair.
PairTrunks(s, leaf1, leaf2, count) == Trunk(Spine(s), leaf1, count) \o Trunk(Spine(s), leaf2, count)
PairUplinks(n, leaf1, leaf2, count) ==
    FlattenSeq([s \in 1..n |-> PairTrunks(s, leaf1, leaf2, count)])

LEMMA PairUplinkUses ==
    ASSUME NEW r, NEW d \in Devices, NEW n \in Nat, NEW count \in Nat,
           NEW leaf1 \in Devices, leaf1.kind = "leaf", NEW leaf2 \in Devices, leaf2.kind = "leaf",
           leaf1 # leaf2,
           NEW m \in Nat, d.kind = "spine" => 2 * count <= m,
           d = leaf1 \/ d = leaf2 => n * count <= m
    PROVE  PairUplinks(n, leaf1, leaf2, count) \in Within(r, d, m)
  <1>0. PICK u : /\ u = [s \in 1..n |-> u[s]]
                 /\ \A s \in 1..n : u[s] = PairTrunks(s, leaf1, leaf2, count)
                 /\ PairUplinks(n, leaf1, leaf2, count) = FlattenSeq(u)
    <2> DEFINE f == [s \in 1..n |-> PairTrunks(s, leaf1, leaf2, count)]
    <2>1. /\ f = [s \in 1..n |-> f[s]]
          /\ \A s \in 1..n : f[s] = PairTrunks(s, leaf1, leaf2, count)
      OBVIOUS
    <2>2. PairUplinks(n, leaf1, leaf2, count) = FlattenSeq(f)
      BY DEF PairUplinks
    <2> QED
      BY <2>1, <2>2
  <1> SUFFICES FlattenSeq(u) \in Within(r, d, m)
    BY <1>0
  <1>1. PICK zero \in Nat, both \in Nat : zero = 0 /\ both = 2 * count
    <2>1. 2 * count \in Nat
      OBVIOUS
    <2> QED
      BY <2>1
  <1>2. ASSUME NEW s \in 1..n
        PROVE  /\ d = Spine(s) => u[s] \in Within(r, d, both)
               /\ d = leaf1 \/ d = leaf2 => u[s] \in Within(r, d, count)
               /\ d # Spine(s) /\ d # leaf1 /\ d # leaf2 => u[s] \in Within(r, d, zero)
               /\ Spine(s).kind = "spine" /\ Spine(s).index = s
    <2>1. PICK a, b, spine : /\ spine = Spine(s) /\ a = Trunk(spine, leaf1, count)
                             /\ b = Trunk(spine, leaf2, count)
      OBVIOUS
    <2>2. spine \in Devices /\ spine.kind = "spine" /\ spine.index = s
      <3>1. s \in Nat
        OBVIOUS
      <3> QED
        BY <2>1, <3>1, NamedDevices
    <2>3. /\ d \in {spine, leaf1} => a \in Within(r, d, count)
          /\ d \notin {spine, leaf1} => a \in Within(r, d, 0)
      <3>1. d \in {spine, leaf1} => a \in Within(r, d, count)
        BY <2>1, <2>2, TrunkUses
      <3>2. d \notin {spine, leaf1} => a \in Within(r, d, 0)
        BY <2>1, <2>2, TrunkUses
      <3> QED
        BY <3>1, <3>2
    <2>4. /\ d \in {spine, leaf2} => b \in Within(r, d, count)
          /\ d \notin {spine, leaf2} => b \in Within(r, d, 0)
      <3>1. d \in {spine, leaf2} => b \in Within(r, d, count)
        BY <2>1, <2>2, TrunkUses
      <3>2. d \notin {spine, leaf2} => b \in Within(r, d, 0)
        BY <2>1, <2>2, TrunkUses
      <3> QED
        BY <3>1, <3>2
    <2>5. \A l, k, o \in Nat : a \in Within(r, d, l) /\ b \in Within(r, d, k) /\ l + k <= o
                               => u[s] \in Within(r, d, o)
      <3>1. u[s] = a \o b
        BY <1>0, <2>1 DEF PairTrunks
      <3>2. ASSUME NEW l \in Nat, NEW k \in Nat, NEW o \in Nat,
                   a \in Within(r, d, l), b \in Within(r, d, k), l + k <= o
            PROVE  u[s] \in Within(r, d, o)
        <4>1. a \o b \in Within(r, d, o)
          BY <3>2, WithinBoth
        <4> QED
          BY <3>1, <4>1
      <3> QED
        BY <3>2
    <2>6. count + count <= both /\ count + zero <= count /\ zero + count <= count /\ zero + zero <= zero
      BY <1>1
    <2>7. d = spine => u[s] \in Within(r, d, both)
      BY <1>1, <2>3, <2>4, <2>5, <2>6
    <2>8. d = leaf1 => u[s] \in Within(r, d, count)
      BY <1>1, <2>2, <2>3, <2>4, <2>5, <2>6
    <2>9. d = leaf2 => u[s] \in Within(r, d, count)
      BY <1>1, <2>2, <2>3, <2>4, <2>5, <2>6
    <2>10. d # spine /\ d # leaf1 /\ d # leaf2 => u[s] \in Within(r, d, zero)
      BY <1>1, <2>3, <2>4, <2>5, <2>6
    <2> QED
      BY <2>1, <2>2, <2>7, <2>8, <2>9, <2>10
  <1>3. CASE d.kind = "spine"
    <2>1. \A s \in 1..n : u[s] \in Within(r, d, zero) => u[s] \in Within(r, d, both)
      <3>1. zero <= both
        BY <1>1
      <3> QED
        BY <3>1, WithinMore
    <2>2. \A s \in 1..n : /\ u[s] \in Within(r, d, both)
                          /\ s # d.index => u[s] \in Within(r, d, 0)
      BY <1>1, <1>2, <1>3, <2>1
    <2>3. FlattenSeq(u) \in Within(r, d, both)
      BY <1>0, <2>2, WithinAtMostOne
    <2> QED
      BY <1>1, <1>3, <2>3, WithinMore
  <1>4. CASE d = leaf1 \/ d = leaf2
    <2>1. \A s \in 1..n : u[s] \in Within(r, d, count)
      BY <1>2, <1>4
    <2>2. FlattenSeq(u) \in Within(r, d, n * count)
      BY <1>0, <2>1, WithinEach
    <2>3. n * count \in Nat /\ n * count <= m
      BY <1>4
    <2> QED
      BY <2>2, <2>3, WithinMore
  <1>5. CASE d.kind # "spine" /\ d # leaf1 /\ d # leaf2
    <2>1. \A s \in 1..n : u[s] \in Within(r, d, 0)
      BY <1>1, <1>2, <1>5
    <2>2. FlattenSeq(u) \in Within(r, d, zero) /\ zero <= m
      BY <1>0, <1>1, <2>1, WithinNone
    <2> QED
      BY <2>2, WithinMore
  <1> QED
    BY <1>3, <1>4, <1>5

AccessPair(r, p, leaf1, leaf2) ==
    Switch(leaf1, r.leafPorts) \o Switch(leaf2, r.leafPorts)
    \o PairUplinks(r.spines, leaf1, leaf2, r.spineTrunk)
    \o Trunk(leaf1, leaf2, r.pairTrunk)
    \o Latch(leaf1) \o Latch(leaf2)
    \o RackHosts(p, leaf1, leaf2, r.hosts, r.haveIPU, r.vms)

\* A pair of leaves and its rack.
LEMMA AccessPairUses ==
    ASSUME NEW r, Buildable(r), r.kind = "access", NEW d \in Devices, NEW p \in Nat,
           NEW leaf1, leaf1 = Leaf(10 * p + 1), NEW leaf2, leaf2 = Leaf(10 * p + 2),
           NEW m \in Nat, d.kind = "spine" => 2 * r.spineTrunk <= m,
           d = leaf1 \/ d = leaf2 => r.spines * r.spineTrunk + r.pairTrunk + r.hosts <= m,
           d.kind = "ipu" /\ r.haveIPU /\ (\E h \in 1..r.hosts : d = IPU(p, h)) => 3 + r.vms <= m
    PROVE  AccessPair(r, p, leaf1, leaf2) \in Within(r, d, m)
  <1> PICK s : s = AccessPair(r, p, leaf1, leaf2)
    OBVIOUS
  <1> SUFFICES s \in Within(r, d, m)
    OBVIOUS
  <1>1. PICK spines \in Nat, trunk \in Nat, pair \in Nat, hosts \in Nat, vms \in Nat,
             have \in BOOLEAN, zero \in Nat, both \in Nat, up \in Nat :
            /\ spines = r.spines /\ trunk = r.spineTrunk /\ pair = r.pairTrunk /\ hosts = r.hosts
            /\ vms = r.vms /\ have = r.haveIPU /\ zero = 0 /\ both = 2 * trunk /\ up = spines * trunk
    <2>1. /\ r.spines \in Nat /\ r.spineTrunk \in Nat /\ r.pairTrunk \in Nat /\ r.hosts \in Nat
          /\ r.vms \in Nat /\ r.haveIPU \in BOOLEAN
      BY DEF Buildable
    <2>2. 2 * r.spineTrunk \in Nat /\ r.spines * r.spineTrunk \in Nat
      BY <2>1
    <2> QED
      BY <2>1, <2>2
  <1>2. /\ leaf1 \in Devices /\ leaf1.kind = "leaf" /\ leaf2 \in Devices /\ leaf2.kind = "leaf"
        /\ leaf1 # leaf2 /\ leaf2 # leaf1 /\ leaf1 # NoLeaf /\ leaf2 # NoLeaf
    <2>1. 10 * p + 1 \in Nat /\ 10 * p + 2 \in Nat
      OBVIOUS
    <2>2. leaf1.index = 10 * p + 1 /\ leaf2.index = 10 * p + 2
      BY <2>1, NamedDevices
    <2>3. leaf1 # leaf2
      BY <2>1, <2>2
    <2> QED
      BY <2>1, <2>3, NamedDevices DEF NoLeaf
  <1>4. PICK a1, a2, a3, a4, a5, a6, a7 :
            /\ a1 = Switch(leaf1, r.leafPorts) /\ a2 = Switch(leaf2, r.leafPorts)
            /\ a3 = PairUplinks(spines, leaf1, leaf2, trunk) /\ a4 = Trunk(leaf1, leaf2, pair)
            /\ a5 = Latch(leaf1) /\ a6 = Latch(leaf2)
            /\ a7 = RackHosts(p, leaf1, leaf2, hosts, have, vms)
    OBVIOUS
  <1>5. s = a1 \o a2 \o a3 \o a4 \o a5 \o a6 \o a7
    BY <1>1, <1>4 DEF AccessPair
  <1>6. /\ a1 \in Within(r, d, zero) /\ a2 \in Within(r, d, zero)
        /\ a5 \in Within(r, d, zero) /\ a6 \in Within(r, d, zero)
    <2>1. r.leafPorts \in Nat
      BY DEF Buildable
    <2> QED
      BY <1>1, <1>2, <1>4, <2>1, QuietUses
  <1>7. ASSUME NEW n \in Nat, NEW k \in Nat, NEW l \in Nat, NEW o \in Nat, n + k + l <= o,
               a3 \in Within(r, d, n), a4 \in Within(r, d, k), a7 \in Within(r, d, l)
        PROVE  s \in Within(r, d, o)
    <2>1. a1 \o a2 \in Within(r, d, zero)
      BY <1>1, <1>6, WithinBoth
    <2>2. a1 \o a2 \o a3 \in Within(r, d, n)
      BY <1>1, <1>7, <2>1, WithinBoth
    <2>3. a1 \o a2 \o a3 \o a4 \in Within(r, d, n + k) /\ n + k \in Nat
      BY <1>7, <2>2, WithinConcat
    <2>4. a1 \o a2 \o a3 \o a4 \o a5 \in Within(r, d, n + k)
      BY <1>1, <1>6, <2>3, WithinBoth
    <2>5. a1 \o a2 \o a3 \o a4 \o a5 \o a6 \in Within(r, d, n + k)
      BY <1>1, <1>6, <2>3, <2>4, WithinBoth
    <2>6. PICK mk \in Nat : mk = n + k /\ mk + l <= o
      BY <1>7
    <2>7. a1 \o a2 \o a3 \o a4 \o a5 \o a6 \o a7 \in Within(r, d, o)
      BY <1>7, <2>5, <2>6, WithinBoth
    <2> QED
      BY <1>5, <2>7
  <1>8. /\ d.kind = "spine" => a3 \in Within(r, d, both)
        /\ d = leaf1 \/ d = leaf2 => a3 \in Within(r, d, up)
        /\ d.kind # "spine" /\ d # leaf1 /\ d # leaf2 => a3 \in Within(r, d, zero)
    <2>1. ASSUME NEW n \in Nat, d.kind = "spine" => 2 * trunk <= n,
                 d = leaf1 \/ d = leaf2 => spines * trunk <= n
          PROVE  a3 \in Within(r, d, n)
      BY <1>2, <1>4, <2>1, PairUplinkUses
    <2>2. d.kind = "spine" => d # leaf1 /\ d # leaf2
      BY <1>2
    <2> QED
      BY <1>1, <2>1, <2>2
  <1>9. /\ d = leaf1 \/ d = leaf2 => a4 \in Within(r, d, pair)
        /\ d # leaf1 /\ d # leaf2 => a4 \in Within(r, d, zero)
    <2>1. d = leaf1 \/ d = leaf2 => a4 \in Within(r, d, pair)
      BY <1>1, <1>2, <1>4, TrunkUses
    <2>2. d # leaf1 /\ d # leaf2 => a4 \in Within(r, d, 0)
      BY <1>1, <1>2, <1>4, TrunkUses
    <2> QED
      BY <1>1, <2>1, <2>2
  <1>10. /\ d = leaf1 \/ d = leaf2 => a7 \in Within(r, d, hosts)
         /\ d.kind # "ipu" /\ d # leaf1 /\ d # leaf2 => a7 \in Within(r, d, zero)
    <2>1. d.kind # "ipu" /\ d # leaf1 /\ d # leaf2 => a7 \in Within(r, d, 0)
      BY <1>1, <1>2, <1>4, OtherRackUses
    <2>2. CASE d = leaf1 \/ d = leaf2
      <3>1. PICK asks \in Nat : asks = LeafAsks(d, leaf1, leaf2, have) /\ asks = 1
        BY <1>2, <2>2 DEF LeafAsks
      <3>2. a7 \in Within(r, d, hosts * LeafAsks(d, leaf1, leaf2, have))
        <4>1. d.kind # "ipu"
          BY <1>2, <2>2
        <4>2. RackHosts(p, leaf1, leaf2, hosts, have, vms)
                  \in Within(r, d, hosts * LeafAsks(d, leaf1, leaf2, have))
          BY <1>2, <4>1, RackUses
        <4> QED
          BY <1>4, <4>2
      <3>3. hosts * asks = hosts
        BY <1>1, <3>1
      <3> QED
        BY <1>2, <2>2, <3>1, <3>2, <3>3
    <2> QED
      BY <1>1, <2>1, <2>2
  <1>11. CASE d.kind = "spine"
    <2>1. both + zero + zero <= both /\ d # leaf1 /\ d # leaf2
      BY <1>1, <1>2, <1>11
    <2>2. s \in Within(r, d, both)
      BY <1>1, <1>7, <1>8, <1>9, <1>10, <1>11, <2>1
    <2>3. both <= m
      BY <1>1, <1>11
    <2> QED
      BY <2>2, <2>3, WithinMore
  <1>12. CASE d = leaf1 \/ d = leaf2
    <2>1. PICK all \in Nat : all = up + pair + hosts
      BY <1>1
    <2>2. s \in Within(r, d, all)
      <3>1. a3 \in Within(r, d, up) /\ a4 \in Within(r, d, pair) /\ a7 \in Within(r, d, hosts)
        BY <1>8, <1>9, <1>10, <1>12
      <3>2. up + pair + hosts <= all
        BY <1>1, <2>1
      <3> QED
        BY <1>7, <3>1, <3>2
    <2>3. all <= m
      BY <1>1, <1>12, <2>1
    <2> QED
      BY <2>2, <2>3, WithinMore
  <1>13. CASE d.kind = "ipu"
    <2>1. d # leaf1 /\ d # leaf2 /\ a3 \in Within(r, d, zero) /\ a4 \in Within(r, d, zero)
      BY <1>2, <1>8, <1>9, <1>13
    <2>2. PICK ports \in Nat : ports = 3 + vms
      BY <1>1
    <2>3. a7 \in Within(r, d, 3 + vms)
      BY <1>1, <1>2, <1>4, <1>13, RackUses
    <2>4. ~ (have /\ \E h \in 1..hosts : d = IPU(p, h)) => a7 \in Within(r, d, 0)
      BY <1>1, <1>2, <1>4, <1>13, RackUses
    <2>5. zero + zero + ports <= ports /\ zero + zero + zero <= zero
      BY <1>1
    <2>6. CASE have /\ \E h \in 1..hosts : d = IPU(p, h)
      <3>1. s \in Within(r, d, ports)
        BY <1>1, <1>7, <2>1, <2>2, <2>3, <2>5
      <3>2. ports <= m
        BY <1>1, <1>13, <2>2, <2>6
      <3> QED
        BY <3>1, <3>2, WithinMore
    <2>7. CASE ~ (have /\ \E h \in 1..hosts : d = IPU(p, h))
      <3>1. s \in Within(r, d, zero) /\ zero <= m
        BY <1>1, <1>7, <2>1, <2>4, <2>5, <2>7
      <3> QED
        BY <3>1, WithinMore
    <2> QED
      BY <2>6, <2>7
  <1>14. CASE d.kind \notin {"spine", "ipu"} /\ d # leaf1 /\ d # leaf2
    <2>1. zero + zero + zero <= zero
      BY <1>1
    <2>2. a3 \in Within(r, d, zero) /\ a4 \in Within(r, d, zero) /\ a7 \in Within(r, d, zero)
      BY <1>8, <1>9, <1>10, <1>14
    <2>3. s \in Within(r, d, zero)
      BY <1>7, <2>1, <2>2
    <2>4. zero <= m
      BY <1>1
    <2> QED
      BY <2>3, <2>4, WithinMore
  <1> QED
    BY <1>11, <1>12, <1>13, <1>14

LEMMA AccessFits ==
    ASSUME NEW r, Buildable(r), r.kind = "access", Fits(r), NEW d \in Devices
    PROVE  AccessFabric(r) \in Within(r, d, Room(r, d))
  <1> DEFINE pair(p) == AccessPair(r, p, Leaf(10 * p + 1), Leaf(10 * p + 2))
             tops == [s \in 1..r.spines |-> Switch(Spine(s), r.spinePorts)]
             f == [p \in 1..r.pairs |-> pair(p)]
  <1>1. PICK pairs \in Nat, spines \in Nat, trunk \in Nat, pairTrunk \in Nat, hosts \in Nat, vms \in Nat,
             have \in BOOLEAN, both \in Nat, each \in Nat, zero \in Nat :
            /\ pairs = r.pairs /\ spines = r.spines /\ trunk = r.spineTrunk /\ pairTrunk = r.pairTrunk
            /\ hosts = r.hosts /\ vms = r.vms /\ have = r.haveIPU
            /\ both = 2 * trunk /\ each = spines * trunk + pairTrunk + hosts /\ zero = 0
    <2>1. /\ r.pairs \in Nat /\ r.spines \in Nat /\ r.spineTrunk \in Nat /\ r.pairTrunk \in Nat
          /\ r.hosts \in Nat /\ r.vms \in Nat /\ r.haveIPU \in BOOLEAN
      BY DEF Buildable
    <2>2. 2 * r.spineTrunk \in Nat /\ r.spines * r.spineTrunk + r.pairTrunk + r.hosts \in Nat
      BY <2>1
    <2> QED
      BY <2>1, <2>2
  <1>2. /\ r.spinePorts \in Nat /\ r.leafPorts \in Nat
        /\ pairs * both <= r.spinePorts /\ each <= r.leafPorts /\ (have => hosts < 100)
    <2>1. /\ r.spinePorts \in Nat /\ r.leafPorts \in Nat
          /\ 2 * pairs * trunk <= r.spinePorts /\ each <= r.leafPorts /\ (have => hosts < 100)
      BY <1>1 DEF Buildable, Fits, TwoDigits
    <2>2. 2 * pairs * trunk = pairs * both
      <3>1. 2 * pairs * trunk = pairs * (2 * trunk)
        OBVIOUS
      <3> QED
        BY <1>1, <3>1
    <2> QED
      BY <2>1, <2>2
  <1>3. AccessFabric(r) = FlattenSeq(tops) \o FlattenSeq(f)
    BY DEF AccessFabric, ForEach, AccessPair, PairUplinks, PairTrunks
  <1>4. f = [p \in 1..pairs |-> f[p]] /\ \A p \in 1..pairs : f[p] = pair(p) /\ p \in Nat
    <2>1. f = [p \in 1..pairs |-> pair(p)]
      BY <1>1
    <2> HIDE DEF pair, f
    <2> QED
      BY <2>1
  <1>5. /\ tops = [s \in 1..spines |-> tops[s]]
        /\ \A s \in 1..spines : tops[s] = Switch(Spine(s), r.spinePorts) /\ s \in Nat
    <2>1. tops = [s \in 1..spines |-> Switch(Spine(s), r.spinePorts)]
      BY <1>1
    <2> HIDE DEF tops
    <2> QED
      BY <2>1
  <1>6. ASSUME NEW p \in 1..pairs, NEW m \in Nat, d.kind = "spine" => both <= m,
               d = Leaf(10 * p + 1) \/ d = Leaf(10 * p + 2) => each <= m,
               d.kind = "ipu" /\ have /\ (\E h \in 1..hosts : d = IPU(p, h)) => 3 + vms <= m
        PROVE  f[p] \in Within(r, d, m)
    <2>1. PICK leaf1, leaf2 : leaf1 = Leaf(10 * p + 1) /\ leaf2 = Leaf(10 * p + 2)
      OBVIOUS
    <2>2. f[p] = AccessPair(r, p, leaf1, leaf2) /\ p \in Nat
      BY <1>4, <2>1
    <2>3. /\ d.kind = "spine" => 2 * r.spineTrunk <= m
          /\ d = leaf1 \/ d = leaf2 => r.spines * r.spineTrunk + r.pairTrunk + r.hosts <= m
          /\ d.kind = "ipu" /\ r.haveIPU /\ (\E h \in 1..r.hosts : d = IPU(p, h)) => 3 + r.vms <= m
      BY <1>1, <1>6, <2>1
    <2> HIDE DEF pair, f, tops
    <2>4. AccessPair(r, p, leaf1, leaf2) \in Within(r, d, m)
      BY <2>1, <2>2, <2>3, AccessPairUses
    <2> QED
      BY <2>2, <2>4
  <1> HIDE DEF f, tops, pair
  <1>7. FlattenSeq(tops) \in Within(r, d, zero)
    <2>1. ASSUME NEW s \in 1..spines
          PROVE  tops[s] \in Within(r, d, 0)
      <3>1. PICK spine \in Devices, ports \in Nat : spine = Spine(s) /\ ports = r.spinePorts
        BY <1>2, <1>5, NamedDevices
      <3>2. tops[s] = Switch(spine, ports)
        BY <1>5, <3>1
      <3> QED
        BY <3>2, QuietUses
    <2>2. FlattenSeq(tops) \in Within(r, d, 0)
      BY <1>5, <2>1, WithinNone
    <2> QED
      BY <1>1, <2>2
  <1>8. ASSUME NEW m \in Nat, FlattenSeq(f) \in Within(r, d, m), m <= Room(r, d), Room(r, d) \in Nat
        PROVE  AccessFabric(r) \in Within(r, d, Room(r, d))
    <2>1. PICK room \in Nat : room = Room(r, d)
      BY <1>8
    <2>2. zero + m <= room
      BY <1>1, <1>8, <2>1
    <2>3. FlattenSeq(tops) \o FlattenSeq(f) \in Within(r, d, room)
      BY <1>7, <1>8, <2>2, WithinBoth
    <2> QED
      BY <1>3, <2>1, <2>3
  <1>9. CASE d.kind = "spine"
    <2>1. FlattenSeq(f) \in Within(r, d, pairs * both)
      <3>1. \A p \in 1..pairs : d # Leaf(10 * p + 1) /\ d # Leaf(10 * p + 2)
        BY <1>9 DEF Leaf, Device
      <3>2. \A p \in 1..pairs : f[p] \in Within(r, d, both)
        BY <1>1, <1>6, <1>9, <3>1
      <3> QED
        BY <1>4, <3>2, WithinEach
    <2>2. pairs * both \in Nat /\ Room(r, d) = r.spinePorts
      BY <1>1, <1>2, <1>9 DEF Room, First, PortCount
    <2> QED
      BY <1>2, <1>8, <2>1, <2>2
  <1>10. CASE d.kind = "leaf"
    <2>1. ASSUME NEW p \in 1..pairs
          PROVE  /\ f[p] \in Within(r, d, each)
                 /\ d # Leaf(10 * p + 1) /\ d # Leaf(10 * p + 2) => f[p] \in Within(r, d, 0)
      <3>1. f[p] \in Within(r, d, each)
        BY <1>1, <1>6, <1>10
      <3>2. d # Leaf(10 * p + 1) /\ d # Leaf(10 * p + 2) => f[p] \in Within(r, d, zero)
        BY <1>1, <1>6, <1>10
      <3> QED
        BY <1>1, <3>1, <3>2
    <2>2. ASSUME NEW p \in 1..pairs, NEW q \in 1..pairs, p # q
          PROVE  f[p] \in Within(r, d, 0) \/ f[q] \in Within(r, d, 0)
      <3>1. /\ Leaf(10 * p + 1).index = 10 * p + 1 /\ Leaf(10 * p + 2).index = 10 * p + 2
            /\ Leaf(10 * q + 1).index = 10 * q + 1 /\ Leaf(10 * q + 2).index = 10 * q + 2
        BY DEF Leaf, Device
      <3>2. /\ 10 * p + 1 # 10 * q + 1 /\ 10 * p + 1 # 10 * q + 2
            /\ 10 * p + 2 # 10 * q + 1 /\ 10 * p + 2 # 10 * q + 2
        <4>1. p < q \/ q < p
          BY <2>2
        <4>2. CASE p < q
          <5>1. 10 * p + 10 <= 10 * q
            BY <4>2
          <5> QED
            BY <5>1
        <4>3. CASE q < p
          <5>1. 10 * q + 10 <= 10 * p
            BY <4>3
          <5> QED
            BY <5>1
        <4> QED
          BY <4>1, <4>2, <4>3
      <3> QED
        BY <2>1, <3>1, <3>2
    <2>3. FlattenSeq(f) \in Within(r, d, each)
      <3>1. \A p \in 1..pairs : f[p] \in Within(r, d, each)
        BY <2>1
      <3> QED
        BY <1>4, <2>2, <3>1, WithinAtMostOne
    <2>4. Room(r, d) = r.leafPorts
      BY <1>2, <1>10 DEF Room, First, PortCount
    <2> QED
      BY <1>2, <1>8, <2>3, <2>4
  <1>11. CASE d.kind = "ipu"
    <2>1. PICK ports \in Nat : ports = 3 + vms
      BY <1>1
    <2>0. \A p \in 1..pairs : d # Leaf(10 * p + 1) /\ d # Leaf(10 * p + 2)
      BY <1>11 DEF Leaf, Device
    <2>2. \A p \in 1..pairs : f[p] \in Within(r, d, ports)
      BY <1>1, <1>6, <1>11, <2>0, <2>1
    <2>6. \A p \in 1..pairs : ~ (have /\ \E h \in 1..hosts : d = IPU(p, h)) => f[p] \in Within(r, d, zero)
      BY <1>1, <1>6, <1>11, <2>0
    <2>3. ASSUME NEW p \in 1..pairs, NEW q \in 1..pairs, p # q
          PROVE  f[p] \in Within(r, d, 0) \/ f[q] \in Within(r, d, 0)
      <3>1. SUFFICES ASSUME have, NEW h \in 1..hosts, NEW g \in 1..hosts, d = IPU(p, h), d = IPU(q, g)
                     PROVE  FALSE
        BY <1>1, <2>6
      <3>2. h \in 1..99 /\ g \in 1..99
        BY <1>1, <1>2, <3>1
      <3>3. p \in Nat /\ q \in Nat
        BY <1>4
      <3> QED
        BY <2>3, <3>1, <3>2, <3>3, IPUsOfRacks
    <2>4. FlattenSeq(f) \in Within(r, d, ports)
      BY <1>4, <2>2, <2>3, WithinAtMostOne
    <2>5. Room(r, d) = ports
      BY <1>1, <1>11, <2>1 DEF Room, First, PortCount
    <2> QED
      BY <1>8, <2>1, <2>4, <2>5
  <1>12. CASE d.kind = "superspine"
    <2>1. \A p \in 1..pairs : d # Leaf(10 * p + 1) /\ d # Leaf(10 * p + 2)
      BY <1>12 DEF Leaf, Device
    <2>2. \A p \in 1..pairs : f[p] \in Within(r, d, 0)
      <3>1. \A p \in 1..pairs : f[p] \in Within(r, d, zero)
        BY <1>1, <1>6, <1>12, <2>1
      <3> QED
        BY <1>1, <3>1
    <2>3. FlattenSeq(f) \in Within(r, d, 0)
      BY <1>4, <2>2, WithinNone
    <2>4. Room(r, d) \in Nat /\ zero <= Room(r, d)
      BY <1>1, <1>2, <1>12 DEF Room, First, PortCount
    <2> QED
      BY <1>1, <1>8, <2>3, <2>4
  <1> QED
    BY <1>9, <1>10, <1>11, <1>12 DEF Devices, DeviceKinds

\* What a spine of a pod asks of a superspine.
PodSpine(r, pod, s) ==
    StartAt(Spine(s), 1) \o EndAt(Spine(s), r.superspinePorts)
    \o FlattenSeq([t \in 1..r.superspines |-> ExternalTrunk(Superspine(t), Spine(s), pod, 2)])

LEMMA PodSpineUses ==
    ASSUME NEW r, Buildable(r), r.kind = "tier", NEW d \in Devices, d.kind = "superspine",
           NEW pod \in Nat, NEW s \in Nat
    PROVE  PodSpine(r, pod, s) \in Within(r, d, 2)
  <1>1. PICK tops \in Nat, ports \in Nat, two \in Nat, zero \in Nat, one \in Nat :
            tops = r.superspines /\ ports = r.superspinePorts /\ two = 2 /\ zero = 0 /\ one = 1
    <2>1. r.superspines \in Nat /\ r.superspinePorts \in Nat
      BY DEF Buildable
    <2> QED
      BY <2>1
  <1>2. PICK spine \in Devices : spine = Spine(s) /\ spine.kind = "spine" /\ ~ Own(r, spine)
    BY NamedDevices DEF Own
  <1>3. PICK f : /\ f = [t \in 1..tops |-> f[t]]
                 /\ \A t \in 1..tops : f[t] = ExternalTrunk(Superspine(t), spine, pod, two)
                 /\ PodSpine(r, pod, s) = StartAt(spine, one) \o EndAt(spine, ports) \o FlattenSeq(f)
    <2> DEFINE g == [t \in 1..tops |-> ExternalTrunk(Superspine(t), spine, pod, two)]
    <2>1. g = [t \in 1..tops |-> g[t]] /\ \A t \in 1..tops : g[t] = ExternalTrunk(Superspine(t), spine, pod, two)
      OBVIOUS
    <2>2. PodSpine(r, pod, s) = StartAt(spine, one) \o EndAt(spine, ports) \o FlattenSeq(g)
      BY <1>1, <1>2 DEF PodSpine
    <2> QED
      BY <2>1, <2>2
  <1>4. ASSUME NEW t \in 1..tops
        PROVE  /\ d = Superspine(t) => f[t] \in Within(r, d, two)
               /\ d # Superspine(t) => f[t] \in Within(r, d, 0)
               /\ Superspine(t).index = t
    <2>1. PICK top \in Devices : top = Superspine(t)
      <3>1. t \in Nat
        OBVIOUS
      <3> QED
        BY <3>1, NamedDevices
    <2>2. f[t] = ExternalTrunk(top, spine, pod, two) /\ d # spine
      BY <1>2, <1>3, <2>1
    <2>3. d = top => ExternalTrunk(top, spine, pod, two) \in Within(r, d, two)
      BY <2>2, ExternalTrunkUses
    <2>4. d # top => ExternalTrunk(top, spine, pod, two) \in Within(r, d, 0)
      BY <2>2, ExternalTrunkUses
    <2>5. Superspine(t).index = t
      BY DEF Superspine, Device
    <2> QED
      BY <2>1, <2>2, <2>3, <2>4, <2>5
  <1>5. FlattenSeq(f) \in Within(r, d, two)
    <2>1. \A t \in 1..tops : f[t] \in Within(r, d, two)
      <3>1. \A t \in 1..tops : f[t] \in Within(r, d, zero) => f[t] \in Within(r, d, two)
        <4>1. zero <= two
          BY <1>1
        <4> QED
          BY <4>1, WithinMore
      <3> QED
        BY <1>1, <1>4, <3>1
    <2>2. \A t, v \in 1..tops : t # v => f[t] \in Within(r, d, 0) \/ f[v] \in Within(r, d, 0)
      BY <1>4
    <2> QED
      BY <1>3, <2>1, <2>2, WithinAtMostOne
  <1>6. StartAt(spine, one) \in Within(r, d, zero) /\ EndAt(spine, ports) \in Within(r, d, zero)
    BY <1>1, <1>2, QuietUses
  <1>7. StartAt(spine, one) \o EndAt(spine, ports) \in Within(r, d, zero)
    BY <1>1, <1>6, WithinBoth
  <1>8. StartAt(spine, one) \o EndAt(spine, ports) \o FlattenSeq(f) \in Within(r, d, two)
    BY <1>1, <1>5, <1>7, WithinBoth
  <1> QED
    BY <1>1, <1>3, <1>8

LEMMA TierFits ==
    ASSUME NEW r, Buildable(r), r.kind = "tier", Fits(r), NEW d \in Devices, d.kind = "superspine"
    PROVE  SuperSpineTier(r) \in Within(r, d, Room(r, d))
  <1>1. PICK tops \in Nat, ports \in Nat, pods \in Nat, spines \in Nat, two \in Nat, zero \in Nat,
             each \in Nat :
            /\ tops = r.superspines /\ ports = r.superspinePorts /\ pods = r.pods
            /\ spines = r.podSpines /\ two = 2 /\ zero = 0 /\ each = spines * two
    <2>1. r.superspines \in Nat /\ r.superspinePorts \in Nat /\ r.pods \in Nat /\ r.podSpines \in Nat
      BY DEF Buildable
    <2>2. r.podSpines * 2 \in Nat
      BY <2>1
    <2> QED
      BY <2>1, <2>2
  <1>2. pods * each \in Nat /\ pods * each <= ports
    <2>1. r.pods * r.podSpines * 2 <= r.superspinePorts
      BY DEF Fits
    <2>2. pods * spines * 2 = pods * (spines * 2)
      OBVIOUS
    <2>3. pods * each \in Nat
      BY <1>1
    <2> QED
      BY <1>1, <2>1, <2>2, <2>3
  <1>3. Room(r, d) = ports
    BY <1>1 DEF Room, First, PortCount
  <1>4. ASSUME NEW pod \in 1..pods
        PROVE  Pod(r, pod) \in Within(r, d, each)
    <2> DEFINE g == [s \in 1..spines |-> PodSpine(r, pod, s)]
    <2>1. Pod(r, pod) = FlattenSeq(g) \o SavePod(pod)
      BY <1>1 DEF Pod, ForEach, PodSpine
    <2>2. g = [s \in 1..spines |-> g[s]] /\ \A s \in 1..spines : g[s] = PodSpine(r, pod, s) /\ s \in Nat
      OBVIOUS
    <2>3. pod \in Nat
      OBVIOUS
    <2> HIDE DEF g
    <2>4. ASSUME NEW s \in 1..spines
          PROVE  g[s] \in Within(r, d, two)
      <3>1. PodSpine(r, pod, s) \in Within(r, d, 2)
        BY <2>2, <2>3, PodSpineUses
      <3> QED
        BY <1>1, <2>2, <3>1
    <2>5. FlattenSeq(g) \in Within(r, d, spines * two)
      BY <2>2, <2>4, WithinEach
    <2>6. SavePod(pod) \in Within(r, d, zero)
      <3>1. \A e \in Devices : SavePod(pod) \in Within(r, d, 0)
        BY <2>3, QuietUses
      <3> QED
        BY <1>1, <3>1
    <2>7. FlattenSeq(g) \o SavePod(pod) \in Within(r, d, each)
      <3>1. FlattenSeq(g) \in Within(r, d, each) /\ each + zero <= each
        BY <1>1, <2>5
      <3> QED
        BY <2>6, <3>1, WithinBoth
    <2> QED
      BY <2>1, <2>7
  <1> DEFINE a == [t \in 1..tops |-> Switch(Superspine(t), r.superspinePorts)]
             f == [pod \in 1..pods |-> Pod(r, pod)]
  <1>5. SuperSpineTier(r) = FlattenSeq(a) \o FlattenSeq(f)
    BY <1>1 DEF SuperSpineTier, ForEach
  <1>6. /\ a = [t \in 1..tops |-> a[t]] /\ f = [pod \in 1..pods |-> f[pod]]
        /\ \A t \in 1..tops : a[t] = Switch(Superspine(t), ports) /\ t \in Nat
        /\ \A pod \in 1..pods : f[pod] = Pod(r, pod)
    BY <1>1
  <1> HIDE DEF a, f
  <1>7. FlattenSeq(a) \in Within(r, d, zero)
    <2>1. ASSUME NEW t \in 1..tops
          PROVE  a[t] \in Within(r, d, 0)
      <3>1. PICK top \in Devices : top = Superspine(t)
        BY <1>6, NamedDevices
      <3>2. a[t] = Switch(top, ports)
        BY <1>6, <3>1
      <3> QED
        BY <3>2, QuietUses
    <2>2. FlattenSeq(a) \in Within(r, d, 0)
      BY <1>6, <2>1, WithinNone
    <2> QED
      BY <1>1, <2>2
  <1>8. FlattenSeq(f) \in Within(r, d, pods * each)
    BY <1>4, <1>6, WithinEach
  <1>9. PICK all \in Nat : all = pods * each /\ zero + all <= ports
    BY <1>1, <1>2
  <1>10. FlattenSeq(a) \o FlattenSeq(f) \in Within(r, d, ports)
    BY <1>7, <1>8, <1>9, WithinBoth
  <1> QED
    BY <1>3, <1>5, <1>10

\* Trunks from each of n devices to each of k others.
FanOut(a, b, k, count) == FlattenSeq([j \in 1..k |-> Trunk(a, b[j], count)])
Fan(a, b, n, k, count) == FlattenSeq([i \in 1..n |-> FanOut(a[i], b, k, count)])

LEMMA FanOutUses ==
    ASSUME NEW r, NEW d \in Devices, NEW k \in Nat, NEW count \in Nat, NEW a \in Devices, NEW b,
           \A j \in 1..k : b[j] \in Devices, \A i, j \in 1..k : b[i] = b[j] => i = j,
           NEW m \in Nat, d = a => k * count <= m,
           \A j \in 1..k : b[j] # a /\ (d = b[j] => count <= m)
    PROVE  FanOut(a, b, k, count) \in Within(r, d, m)
  <1> DEFINE f == [j \in 1..k |-> Trunk(a, b[j], count)]
  <1>1. f = [j \in 1..k |-> f[j]] /\ \A j \in 1..k : f[j] = Trunk(a, b[j], count)
    OBVIOUS
  <1>2. FanOut(a, b, k, count) = FlattenSeq(f)
    BY DEF FanOut
  <1>3. PICK zero \in Nat : zero = 0 /\ zero <= m
    OBVIOUS
  <1> HIDE DEF f
  <1>4. ASSUME NEW j \in 1..k
        PROVE  /\ d = a \/ d = b[j] => f[j] \in Within(r, d, count)
               /\ d # a /\ d # b[j] => f[j] \in Within(r, d, zero)
    <2>1. PICK e \in Devices : e = b[j]
      OBVIOUS
    <2>2. d = a \/ d = e => Trunk(a, e, count) \in Within(r, d, count)
      BY TrunkUses
    <2>3. d # a /\ d # e => Trunk(a, e, count) \in Within(r, d, 0)
      BY TrunkUses
    <2> QED
      BY <1>1, <1>3, <2>1, <2>2, <2>3
  <1>5. CASE d = a
    <2>1. FlattenSeq(f) \in Within(r, d, k * count) /\ k * count \in Nat
      BY <1>1, <1>4, <1>5, WithinEach
    <2>2. FlattenSeq(f) \in Within(r, d, m)
      BY <1>5, <2>1, WithinMore
    <2> QED
      BY <1>2, <2>2
  <1>6. CASE d # a
    <2>1. ASSUME NEW j \in 1..k
          PROVE  f[j] \in Within(r, d, m) /\ (d # b[j] => f[j] \in Within(r, d, 0))
      <3>1. CASE d = b[j]
        BY <1>4, <3>1, WithinMore
      <3>2. CASE d # b[j]
        <4>1. f[j] \in Within(r, d, zero)
          BY <1>4, <1>6, <3>2
        <4> QED
          BY <1>3, <4>1, WithinMore
      <3> QED
        BY <3>1, <3>2
    <2>2. \A i, j \in 1..k : i # j => f[i] \in Within(r, d, 0) \/ f[j] \in Within(r, d, 0)
      BY <2>1
    <2>3. FlattenSeq(f) \in Within(r, d, m)
      BY <1>1, <2>1, <2>2, WithinAtMostOne
    <2> QED
      BY <1>2, <2>3
  <1> QED
    BY <1>5, <1>6

LEMMA FanUses ==
    ASSUME NEW r, NEW d \in Devices, NEW n \in Nat, NEW k \in Nat, NEW count \in Nat, NEW a, NEW b,
           \A i \in 1..n : a[i] \in Devices, \A i, j \in 1..n : a[i] = a[j] => i = j,
           \A j \in 1..k : b[j] \in Devices, \A i, j \in 1..k : b[i] = b[j] => i = j,
           \A i \in 1..n, j \in 1..k : a[i] # b[j],
           NEW m \in Nat, \A i \in 1..n : d = a[i] => k * count <= m,
           \A j \in 1..k : d = b[j] => n * count <= m
    PROVE  Fan(a, b, n, k, count) \in Within(r, d, m)
  <1> DEFINE f == [i \in 1..n |-> FanOut(a[i], b, k, count)]
  <1>1. f = [i \in 1..n |-> f[i]] /\ \A i \in 1..n : f[i] = FanOut(a[i], b, k, count)
    OBVIOUS
  <1>2. Fan(a, b, n, k, count) = FlattenSeq(f)
    BY DEF Fan
  <1>3. PICK zero \in Nat : zero = 0 /\ zero <= m
    OBVIOUS
  <1> HIDE DEF f
  <1>4. ASSUME NEW i \in 1..n, NEW l \in Nat, d = a[i] => k * count <= l,
               \A j \in 1..k : d = b[j] => count <= l
        PROVE  f[i] \in Within(r, d, l)
    <2>1. PICK e \in Devices : e = a[i] /\ \A j \in 1..k : b[j] # e
      OBVIOUS
    <2>2. FanOut(e, b, k, count) \in Within(r, d, l)
      BY <1>4, <2>1, FanOutUses
    <2> QED
      BY <1>1, <2>1, <2>2
  <1>5. CASE \E j \in 1..k : d = b[j]
    <2>1. \A i \in 1..n : d # a[i]
      BY <1>5
    <2>2. \A i \in 1..n : f[i] \in Within(r, d, count)
      BY <1>4, <2>1
    <2>3. FlattenSeq(f) \in Within(r, d, n * count) /\ n * count \in Nat
      BY <1>1, <2>2, WithinEach
    <2>4. FlattenSeq(f) \in Within(r, d, m)
      BY <1>5, <2>3, WithinMore
    <2> QED
      BY <1>2, <2>4
  <1>6. CASE \A j \in 1..k : d # b[j]
    <2>1. \A i \in 1..n : f[i] \in Within(r, d, m)
      BY <1>4, <1>6
    <2>2. \A i \in 1..n : d # a[i] => f[i] \in Within(r, d, zero)
      BY <1>3, <1>4, <1>6
    <2>3. \A i, j \in 1..n : i # j => f[i] \in Within(r, d, 0) \/ f[j] \in Within(r, d, 0)
      BY <1>3, <2>2
    <2>4. FlattenSeq(f) \in Within(r, d, m)
      BY <1>1, <2>1, <2>3, WithinAtMostOne
    <2> QED
      BY <1>2, <2>4
  <1> QED
    BY <1>5, <1>6

\* The spines and the leaves of two racks of the fixed fabric.
PairSpines(rack) == <<Spine(rack), Spine(rack + 1)>>
PairLeaves(rack) == <<Leaf(10 * (rack + 0) + 1), Leaf(10 * (rack + 0) + 2),
                      Leaf(10 * (rack + 1) + 1), Leaf(10 * (rack + 1) + 2)>>

PairLeafNumber(rack, l) == 10 * rack + (IF l = 1 THEN 1 ELSE IF l = 2 THEN 2 ELSE IF l = 3 THEN 11 ELSE 12)
PairSpineAt(rack, s) == {d \in Devices : d.kind = "spine" /\ d.index = rack + s - 1}
PairLeafAt(rack, l) == {d \in Devices : d.kind = "leaf" /\ d.index = PairLeafNumber(rack, l)}

LEMMA PairSpineDevice ==
    ASSUME NEW rack \in Nat, NEW s \in 1..2
    PROVE  PairSpines(rack)[s] \in PairSpineAt(rack, s)
  <1>1. s = 1 \/ s = 2
    OBVIOUS
  <1>2. PICK i \in Nat : i = rack + s - 1 /\ PairSpines(rack)[s] = Spine(i)
    BY <1>1 DEF PairSpines
  <1> QED
    BY <1>2, NamedDevices DEF PairSpineAt

LEMMA PairLeafDevice ==
    ASSUME NEW rack \in Nat, NEW l \in 1..4
    PROVE  PairLeaves(rack)[l] \in PairLeafAt(rack, l)
  <1>1. l = 1 \/ l = 2 \/ l = 3 \/ l = 4
    OBVIOUS
  <1>2. PICK i \in Nat : i = PairLeafNumber(rack, l) /\ PairLeaves(rack)[l] = Leaf(i)
    <2>1. /\ 10 * (rack + 0) + 1 = 10 * rack + 1 /\ 10 * (rack + 0) + 2 = 10 * rack + 2
          /\ 10 * (rack + 1) + 1 = 10 * rack + 11 /\ 10 * (rack + 1) + 2 = 10 * rack + 12
          /\ 10 * rack \in Nat
      OBVIOUS
    <2> QED
      BY <1>1, <2>1 DEF PairLeaves, PairLeafNumber
  <1> QED
    BY <1>2, NamedDevices DEF PairLeafAt

LEMMA RackPairUses ==
    ASSUME NEW r, NEW d \in Devices, NEW rack \in Nat, NEW m \in Nat,
           d.kind = "superspine" => 16 <= m,
           \A s \in 1..2 : d = PairSpines(rack)[s] => 32 <= m,
           \A l \in 1..4 : d = PairLeaves(rack)[l] => 20 <= m
    PROVE  RackPair(rack) \in Within(r, d, m)
  <1>1. PICK zero \in Nat, one \in Nat, two \in Nat, three \in Nat, four \in Nat, eight \in Nat, ten \in Nat,
             ports \in Nat, have \in BOOLEAN :
            /\ zero = 0 /\ one = 1 /\ two = 2 /\ three = 3 /\ four = 4 /\ eight = 8 /\ ten = 10
            /\ ports = 32 /\ have = FALSE
    OBVIOUS
  <1>2. PICK Leaves, Both, top : /\ Leaves = PairLeaves(rack) /\ Both = PairSpines(rack)
                                 /\ top = [t \in 1..2 |-> Superspine(t)]
    OBVIOUS
  <1>3. /\ \A s \in 1..2 : Both[s] \in Devices /\ Both[s].kind = "spine"
        /\ \A l \in 1..4 : Leaves[l] \in Devices /\ Leaves[l].kind = "leaf"
        /\ \A t \in 1..2 : top[t] \in Devices /\ top[t].kind = "superspine" /\ top[t].index = t
    <2>1. \A t \in 1..2 : /\ t \in Nat /\ top[t] = Superspine(t) /\ Superspine(t).index = t
      BY <1>2 DEF Superspine, Device
    <2>2. \A s \in 1..2 : Both[s] \in Devices /\ Both[s].kind = "spine"
      BY <1>2, PairSpineDevice DEF PairSpineAt
    <2>3. \A l \in 1..4 : Leaves[l] \in Devices /\ Leaves[l].kind = "leaf"
      BY <1>2, PairLeafDevice DEF PairLeafAt
    <2> QED
      BY <1>2, <2>1, <2>2, <2>3, NamedDevices
  <1>4. /\ \A s, t \in 1..2 : Both[s] = Both[t] => s = t
        /\ \A k, l \in 1..4 : Leaves[k] = Leaves[l] => k = l
    <2>1. \A s \in 1..2 : Both[s].index = rack + s - 1
      BY <1>2, PairSpineDevice DEF PairSpineAt
    <2>2. \A l \in 1..4 : Leaves[l].index = PairLeafNumber(rack, l)
      BY <1>2, PairLeafDevice DEF PairLeafAt
    <2>3. 10 * rack \in Nat
      OBVIOUS
    <2>4. \A s, t \in 1..2 : Both[s] = Both[t] => s = t
      BY <2>1
    <2>5. \A k, l \in 1..4 : Leaves[k] = Leaves[l] => k = l
      BY <2>2, <2>3 DEF PairLeafNumber
    <2> QED
      BY <2>4, <2>5
  <1> DEFINE a1 == [s \in 1..2 |-> Switch(Both[s], 32)]
             a3 == [l \in 1..4 |-> Switch(Leaves[l], 32)]
             a7 == [l \in 1..4 |-> Latch(Leaves[l])]
  <1>5. PICK b1, b2, b3, b4, b5, b6, b7, b8, b9 :
            /\ b1 = FlattenSeq(a1) /\ b2 = Fan(Both, top, two, two, eight)
            /\ b3 = FlattenSeq(a3) /\ b4 = Fan(Leaves, Both, four, two, four)
            /\ b5 = Trunk(Leaves[one], Leaves[two], two) /\ b6 = Trunk(Leaves[three], Leaves[four], two)
            /\ b7 = FlattenSeq(a7)
            /\ b8 = RackHosts(rack, Leaves[one], Leaves[two], ten, have, zero)
            /\ b9 = RackHosts(rack + one, Leaves[three], Leaves[four], ten, have, zero)
    OBVIOUS
  <1>6. RackPair(rack) = b1 \o b2 \o b3 \o b4 \o b5 \o b6 \o b7 \o b8 \o b9
    <2>1. b2 = FlattenSeq([s \in 1..2 |-> FlattenSeq([t \in 1..2 |-> Trunk(Both[s], Superspine(t), 8)])])
      BY <1>1, <1>2, <1>5 DEF Fan, FanOut
    <2>2. b4 = FlattenSeq([l \in 1..4 |-> FlattenSeq([s \in 1..2 |-> Trunk(Leaves[l], Both[s], 4)])])
      BY <1>1, <1>5 DEF Fan, FanOut
    <2>3. /\ b1 = FlattenSeq([s \in 1..2 |-> Switch(Both[s], 32)])
          /\ b3 = FlattenSeq([l \in 1..4 |-> Switch(Leaves[l], 32)])
          /\ b7 = FlattenSeq([l \in 1..4 |-> Latch(Leaves[l])])
      BY <1>5
    <2>4. b5 = Trunk(Leaves[1], Leaves[2], 2) /\ b6 = Trunk(Leaves[3], Leaves[4], 2)
      BY <1>1, <1>5
    <2>5. /\ b8 = RackHosts(rack, Leaves[1], Leaves[2], 10, FALSE, 0)
          /\ b9 = RackHosts(rack + 1, Leaves[3], Leaves[4], 10, FALSE, 0)
      BY <1>1, <1>5
    <2> HIDE DEF a1, a3, a7
    <2> QED
      BY <1>2, <2>1, <2>2, <2>3, <2>4, <2>5 DEF RackPair, ForEach, PairLeaves, PairSpines
  <1>7. b1 \in Within(r, d, zero) /\ b3 \in Within(r, d, zero) /\ b7 \in Within(r, d, zero)
    <2>1. /\ a1 = [s \in 1..two |-> a1[s]] /\ a3 = [l \in 1..four |-> a3[l]]
          /\ a7 = [l \in 1..four |-> a7[l]]
          /\ \A s \in 1..two : a1[s] = Switch(Both[s], ports)
          /\ \A l \in 1..four : a3[l] = Switch(Leaves[l], ports) /\ a7[l] = Latch(Leaves[l])
      BY <1>1
    <2>2. /\ \A s \in 1..two : Both[s] \in Devices
          /\ \A l \in 1..four : Leaves[l] \in Devices
      BY <1>1, <1>3
    <2> HIDE DEF a1, a3, a7
    <2>3. \A e \in Devices : Switch(e, ports) \in Within(r, d, 0) /\ Latch(e) \in Within(r, d, 0)
      BY QuietUses
    <2>4. FlattenSeq(a1) \in Within(r, d, 0)
      <3>1. \A s \in 1..two : a1[s] \in Within(r, d, 0)
        BY <2>1, <2>2, <2>3
      <3> QED
        BY <2>1, <3>1, WithinNone
    <2>5. FlattenSeq(a3) \in Within(r, d, 0)
      <3>1. \A l \in 1..four : a3[l] \in Within(r, d, 0)
        BY <2>1, <2>2, <2>3
      <3> QED
        BY <2>1, <3>1, WithinNone
    <2>6. FlattenSeq(a7) \in Within(r, d, 0)
      <3>1. \A l \in 1..four : a7[l] \in Within(r, d, 0)
        BY <2>1, <2>2, <2>3
      <3> QED
        BY <2>1, <3>1, WithinNone
    <2> QED
      BY <1>1, <1>5, <2>4, <2>5, <2>6
  <1> HIDE DEF a1, a3, a7
  <1>8. ASSUME NEW n2 \in Nat, NEW n4 \in Nat, NEW n5 \in Nat, NEW n6 \in Nat, NEW n8 \in Nat, NEW n9 \in Nat,
               b2 \in Within(r, d, n2), b4 \in Within(r, d, n4), b5 \in Within(r, d, n5),
               b6 \in Within(r, d, n6), b8 \in Within(r, d, n8), b9 \in Within(r, d, n9),
               n2 + n4 + n5 + n6 + n8 + n9 <= m
        PROVE  RackPair(rack) \in Within(r, d, m)
    <2>1. b1 \o b2 \in Within(r, d, n2)
      BY <1>1, <1>7, <1>8, WithinBoth
    <2>2. b1 \o b2 \o b3 \in Within(r, d, n2)
      <3>1. n2 + zero <= n2 /\ b3 \in Within(r, d, zero)
        BY <1>1, <1>7
      <3> QED
        BY <2>1, <3>1, WithinBoth
    <2>3. PICK n24 \in Nat : n24 = n2 + n4
      OBVIOUS
    <2>4. b1 \o b2 \o b3 \o b4 \in Within(r, d, n24)
      BY <1>8, <2>2, <2>3, WithinBoth
    <2>5. PICK n25 \in Nat : n25 = n24 + n5
      OBVIOUS
    <2>6. b1 \o b2 \o b3 \o b4 \o b5 \in Within(r, d, n25)
      BY <1>8, <2>4, <2>5, WithinBoth
    <2>7. PICK n26 \in Nat : n26 = n25 + n6
      OBVIOUS
    <2>8. b1 \o b2 \o b3 \o b4 \o b5 \o b6 \in Within(r, d, n26)
      BY <1>8, <2>6, <2>7, WithinBoth
    <2>9. b1 \o b2 \o b3 \o b4 \o b5 \o b6 \o b7 \in Within(r, d, n26)
      BY <1>1, <1>7, <2>8, WithinBoth
    <2>10. PICK n28 \in Nat : n28 = n26 + n8
      OBVIOUS
    <2>11. b1 \o b2 \o b3 \o b4 \o b5 \o b6 \o b7 \o b8 \in Within(r, d, n28)
      BY <1>8, <2>9, <2>10, WithinBoth
    <2>12. n28 + n9 <= m
      BY <1>8, <2>3, <2>5, <2>7, <2>10
    <2>13. b1 \o b2 \o b3 \o b4 \o b5 \o b6 \o b7 \o b8 \o b9 \in Within(r, d, m)
      BY <1>8, <2>11, <2>12, WithinBoth
    <2> QED
      BY <1>6, <2>13
  <1>9. ASSUME NEW n \in Nat, \A s \in 1..2 : d = Both[s] => 16 <= n, \A t \in 1..2 : d = top[t] => 16 <= n
        PROVE  b2 \in Within(r, d, n)
    <2>1. /\ \A s \in 1..two : Both[s] \in Devices /\ (d = Both[s] => two * eight <= n)
          /\ \A s, t \in 1..two : Both[s] = Both[t] => s = t
          /\ \A t \in 1..two : top[t] \in Devices /\ (d = top[t] => two * eight <= n)
          /\ \A s, t \in 1..two : top[s] = top[t] => s = t
          /\ \A s, t \in 1..two : Both[s] # top[t]
      BY <1>1, <1>3, <1>4, <1>9
    <2>2. Fan(Both, top, two, two, eight) \in Within(r, d, n)
      BY <2>1, FanUses
    <2> QED
      BY <1>5, <2>2
  <1>10. ASSUME NEW n \in Nat, \A l \in 1..4 : d = Leaves[l] => 8 <= n, \A s \in 1..2 : d = Both[s] => 16 <= n
         PROVE  b4 \in Within(r, d, n)
    <2>1. /\ \A l \in 1..four : Leaves[l] \in Devices /\ (d = Leaves[l] => two * four <= n)
          /\ \A k, l \in 1..four : Leaves[k] = Leaves[l] => k = l
          /\ \A t \in 1..two : Both[t] \in Devices /\ (d = Both[t] => four * four <= n)
          /\ \A s, t \in 1..two : Both[s] = Both[t] => s = t
          /\ \A l \in 1..four, t \in 1..two : Leaves[l] # Both[t]
      BY <1>1, <1>3, <1>4, <1>10
    <2>2. Fan(Leaves, Both, four, two, four) \in Within(r, d, n)
      BY <2>1, FanUses
    <2> QED
      BY <1>5, <2>2
  <1>11. PICK l1 \in Devices, l2 \in Devices, l3 \in Devices, l4 \in Devices :
            /\ l1 = Leaves[one] /\ l2 = Leaves[two] /\ l3 = Leaves[three] /\ l4 = Leaves[four]
            /\ l1.kind = "leaf" /\ l2.kind = "leaf" /\ l3.kind = "leaf" /\ l4.kind = "leaf"
            /\ l1 # l2 /\ l2 # l1 /\ l3 # l4 /\ l4 # l3 /\ l1 # l3 /\ l1 # l4 /\ l2 # l3 /\ l2 # l4
            /\ l2 # NoLeaf /\ l4 # NoLeaf
    <2>1. one \in 1..4 /\ two \in 1..4 /\ three \in 1..4 /\ four \in 1..4
      BY <1>1
    <2>2. one # two /\ one # three /\ one # four /\ two # three /\ two # four /\ three # four
      BY <1>1
    <2>3. \A l \in 1..4 : Leaves[l] # NoLeaf
      BY <1>3, NamedDevices DEF NoLeaf, Device
    <2> QED
      BY <1>3, <1>4, <2>1, <2>2, <2>3
  <1>12. /\ d = l1 \/ d = l2 => b5 \in Within(r, d, two)
         /\ d # l1 /\ d # l2 => b5 \in Within(r, d, zero)
         /\ d = l3 \/ d = l4 => b6 \in Within(r, d, two)
         /\ d # l3 /\ d # l4 => b6 \in Within(r, d, zero)
    <2>1. d = l1 \/ d = l2 => Trunk(l1, l2, two) \in Within(r, d, two)
      BY TrunkUses
    <2>2. d # l1 /\ d # l2 => Trunk(l1, l2, two) \in Within(r, d, 0)
      BY TrunkUses
    <2>3. d = l3 \/ d = l4 => Trunk(l3, l4, two) \in Within(r, d, two)
      BY TrunkUses
    <2>4. d # l3 /\ d # l4 => Trunk(l3, l4, two) \in Within(r, d, 0)
      BY TrunkUses
    <2> QED
      BY <1>1, <1>5, <1>11, <2>1, <2>2, <2>3, <2>4
  <1>13. ASSUME NEW rk \in Nat, NEW k1 \in Devices, NEW k2 \in Devices, k1.kind = "leaf", k2.kind = "leaf",
                k2 # k1, k2 # NoLeaf
         PROVE  /\ d = k1 \/ d = k2 => RackHosts(rk, k1, k2, ten, have, zero) \in Within(r, d, ten)
                /\ d # k1 /\ d # k2 => RackHosts(rk, k1, k2, ten, have, zero) \in Within(r, d, zero)
    <2>1. CASE d = k1 \/ d = k2
      <3>1. PICK asks \in Nat : asks = LeafAsks(d, k1, k2, have) /\ asks = 1
        BY <1>1, <1>13, <2>1 DEF LeafAsks
      <3>2. RackHosts(rk, k1, k2, ten, have, zero) \in Within(r, d, ten * LeafAsks(d, k1, k2, have))
        BY <1>13, <2>1, RackUses
      <3>3. ten * asks = ten
        BY <1>1, <3>1
      <3> QED
        BY <2>1, <3>1, <3>2, <3>3
    <2>2. CASE d # k1 /\ d # k2 /\ d.kind # "ipu"
      <3>1. RackHosts(rk, k1, k2, ten, have, zero) \in Within(r, d, 0)
        BY <1>13, <2>2, OtherRackUses
      <3> QED
        BY <1>1, <2>2, <3>1
    <2>3. CASE d.kind = "ipu"
      <3>1. RackHosts(rk, k1, k2, ten, have, zero) \in Within(r, d, 0)
        BY <1>1, <1>13, <2>3, RackUses
      <3> QED
        BY <1>1, <1>13, <2>3, <3>1
    <2> QED
      BY <2>1, <2>2, <2>3
  <1>14. /\ d = l1 \/ d = l2 => b8 \in Within(r, d, ten)
         /\ d # l1 /\ d # l2 => b8 \in Within(r, d, zero)
         /\ d = l3 \/ d = l4 => b9 \in Within(r, d, ten)
         /\ d # l3 /\ d # l4 => b9 \in Within(r, d, zero)
    <2>1. PICK next \in Nat : next = rack + one
      BY <1>1
    <2>2. /\ b8 = RackHosts(rack, l1, l2, ten, have, zero)
          /\ b9 = RackHosts(next, l3, l4, ten, have, zero)
      BY <1>5, <1>11, <2>1
    <2>3. /\ d = l1 \/ d = l2 => b8 \in Within(r, d, ten)
          /\ d # l1 /\ d # l2 => b8 \in Within(r, d, zero)
      BY <1>11, <1>13, <2>2
    <2>4. /\ d = l3 \/ d = l4 => b9 \in Within(r, d, ten)
          /\ d # l3 /\ d # l4 => b9 \in Within(r, d, zero)
      BY <1>11, <1>13, <2>2
    <2> QED
      BY <2>3, <2>4
  <1>15. PICK lot \in Nat : lot = 16
    OBVIOUS
  <1>16. \A l \in 1..4 : Leaves[l] \in {l1, l2, l3, l4}
    BY <1>1, <1>11
  <1>17. CASE d.kind = "superspine"
    <2>1. b2 \in Within(r, d, lot)
      BY <1>9, <1>15
    <2>2. /\ d # l1 /\ d # l2 /\ d # l3 /\ d # l4
          /\ \A l \in 1..4 : d # Leaves[l]
          /\ \A s \in 1..2 : d # Both[s]
      BY <1>3, <1>11, <1>17
    <2>3. b4 \in Within(r, d, zero)
      BY <1>10, <2>2
    <2>4. lot + zero + zero + zero + zero + zero <= m
      BY <1>1, <1>15, <1>17
    <2> QED
      BY <1>8, <1>12, <1>14, <2>1, <2>2, <2>3, <2>4
  <1>18. CASE d.kind = "spine"
    <2>1. /\ d # l1 /\ d # l2 /\ d # l3 /\ d # l4
          /\ \A l \in 1..4 : d # Leaves[l]
          /\ \A t \in 1..2 : d # top[t]
      BY <1>3, <1>11, <1>18
    <2>2. CASE \E s \in 1..2 : d = Both[s]
      <3>1. b2 \in Within(r, d, lot)
        BY <1>9, <1>15
      <3>2. b4 \in Within(r, d, lot)
        BY <1>10, <1>15, <2>1
      <3>3. lot + lot + zero + zero + zero + zero <= m
        <4>1. 32 <= m
          BY <1>2, <2>2
        <4> QED
          BY <1>1, <1>15, <4>1
      <3> QED
        BY <1>8, <1>12, <1>14, <2>1, <3>1, <3>2, <3>3
    <2>3. CASE \A s \in 1..2 : d # Both[s]
      <3>1. b2 \in Within(r, d, zero) /\ b4 \in Within(r, d, zero)
        BY <1>9, <1>10, <2>1, <2>3
      <3>2. zero + zero + zero + zero + zero + zero <= m
        BY <1>1
      <3> QED
        BY <1>8, <1>12, <1>14, <2>1, <3>1, <3>2
    <2> QED
      BY <2>2, <2>3
  <1>19. CASE d.kind = "leaf"
    <2>1. (\A s \in 1..2 : d # Both[s]) /\ (\A t \in 1..2 : d # top[t])
      BY <1>3, <1>19
    <2>2. b2 \in Within(r, d, zero) /\ b4 \in Within(r, d, eight)
      BY <1>1, <1>9, <1>10, <2>1
    <2>3. CASE d = l1 \/ d = l2
      <3>1. d # l3 /\ d # l4
        BY <1>11, <2>3
      <3>2. zero + eight + two + zero + ten + zero <= m
        <4>1. 20 <= m
          <5>1. one \in 1..4 /\ two \in 1..4
            BY <1>1
          <5> QED
            BY <1>2, <1>11, <2>3, <5>1
        <4> QED
          BY <1>1, <4>1
      <3> QED
        BY <1>8, <1>12, <1>14, <2>2, <2>3, <3>1, <3>2
    <2>4. CASE d = l3 \/ d = l4
      <3>1. d # l1 /\ d # l2
        BY <1>11, <2>4
      <3>2. zero + eight + zero + two + zero + ten <= m
        <4>1. 20 <= m
          <5>1. three \in 1..4 /\ four \in 1..4
            BY <1>1
          <5> QED
            BY <1>2, <1>11, <2>4, <5>1
        <4> QED
          BY <1>1, <4>1
      <3> QED
        BY <1>8, <1>12, <1>14, <2>2, <2>4, <3>1, <3>2
    <2>5. CASE d # l1 /\ d # l2 /\ d # l3 /\ d # l4
      <3>1. b4 \in Within(r, d, zero)
        BY <1>10, <1>16, <2>1, <2>5
      <3>2. zero + zero + zero + zero + zero + zero <= m
        BY <1>1
      <3> QED
        BY <1>8, <1>12, <1>14, <2>2, <2>5, <3>1, <3>2
    <2> QED
      BY <2>3, <2>4, <2>5
  <1>20. CASE d.kind = "ipu"
    <2>1. /\ d # l1 /\ d # l2 /\ d # l3 /\ d # l4
          /\ \A l \in 1..4 : d # Leaves[l]
          /\ \A s \in 1..2 : d # Both[s]
          /\ \A t \in 1..2 : d # top[t]
      BY <1>3, <1>11, <1>20
    <2>2. b2 \in Within(r, d, zero) /\ b4 \in Within(r, d, zero)
      BY <1>9, <1>10, <2>1
    <2>3. zero + zero + zero + zero + zero + zero <= m
      BY <1>1
    <2> QED
      BY <1>8, <1>12, <1>14, <2>1, <2>2, <2>3
  <1> QED
    BY <1>17, <1>18, <1>19, <1>20 DEF Devices, DeviceKinds

LEMMA FixedFits ==
    ASSUME NEW r, r.kind = "fixed", NEW d \in Devices
    PROVE  FixedFabric \in Within(r, d, Room(r, d))
  <1>1. PICK zero \in Nat, one \in Nat, two \in Nat, three \in Nat, ports \in Nat, each \in Nat :
            /\ zero = 0 /\ one = 1 /\ two = 2 /\ three = 3 /\ ports = 32
            /\ each = IF d.kind = "superspine" THEN 16 ELSE IF d.kind = "spine" THEN 32 ELSE 20
    OBVIOUS
  <1>2. PICK a, b, c : a = FlattenSeq([t \in 1..2 |-> Switch(Superspine(t), 32)])
                       /\ b = RackPair(one) /\ c = RackPair(three)
    OBVIOUS
  <1>3. FixedFabric = a \o b \o c
    BY <1>1, <1>2 DEF FixedFabric, ForEach
  <1>4. a \in Within(r, d, zero)
    <2> DEFINE f == [t \in 1..2 |-> Switch(Superspine(t), 32)]
    <2>1. f = [t \in 1..two |-> f[t]] /\ \A t \in 1..two : f[t] = Switch(Superspine(t), ports) /\ t \in Nat
      BY <1>1
    <2>2. a = FlattenSeq(f)
      BY <1>2
    <2> HIDE DEF f
    <2>3. ASSUME NEW t \in 1..two
          PROVE  f[t] \in Within(r, d, 0)
      <3>1. PICK top \in Devices : top = Superspine(t)
        BY <2>1, NamedDevices
      <3>2. f[t] = Switch(top, ports)
        BY <2>1, <3>1
      <3> QED
        BY <3>2, QuietUses
    <2>4. FlattenSeq(f) \in Within(r, d, 0)
      BY <2>1, <2>3, WithinNone
    <2> QED
      BY <1>1, <2>2, <2>4
  <1>5. ASSUME NEW m \in Nat, NEW n \in Nat, b \in Within(r, d, m), c \in Within(r, d, n), m + n <= Room(r, d),
               Room(r, d) \in Nat
        PROVE  FixedFabric \in Within(r, d, Room(r, d))
    <2>1. PICK room \in Nat : room = Room(r, d)
      BY <1>5
    <2>2. a \o b \in Within(r, d, m)
      BY <1>1, <1>4, <1>5, WithinBoth
    <2>3. a \o b \o c \in Within(r, d, room)
      BY <1>5, <2>1, <2>2, WithinBoth
    <2> QED
      BY <1>3, <2>1, <2>3
  <1>6. Room(r, d) \in Nat /\ (d.kind # "ipu" => Room(r, d) = 32)
    BY DEF Room, First, PortCount
  <1>7. b \in Within(r, d, each) /\ c \in Within(r, d, each)
    <2>1. /\ d.kind = "superspine" => 16 <= each
          /\ \A rack \in Nat : \A s \in 1..2 : d = PairSpines(rack)[s] => 32 <= each
          /\ \A rack \in Nat : \A l \in 1..4 : d = PairLeaves(rack)[l] => 20 <= each
      <3>1. /\ d.kind = "superspine" => 16 <= each
            /\ d.kind = "spine" => 32 <= each
            /\ d.kind = "leaf" => 20 <= each
        BY <1>1
      <3>2. \A rack \in Nat : \A s \in 1..2 : d = PairSpines(rack)[s] => d.kind = "spine"
        BY PairSpineDevice DEF PairSpineAt
      <3>3. \A rack \in Nat : \A l \in 1..4 : d = PairLeaves(rack)[l] => d.kind = "leaf"
        BY PairLeafDevice DEF PairLeafAt
      <3> QED
        BY <3>1, <3>2, <3>3
    <2> QED
      BY <1>1, <1>2, <2>1, RackPairUses
  <1>8. CASE d.kind = "superspine"
    <2>1. each + each <= Room(r, d)
      BY <1>1, <1>6, <1>8
    <2> QED
      BY <1>5, <1>6, <1>7, <2>1
  <1>9. CASE d.kind # "superspine"
    <2>1. b \in Within(r, d, zero) \/ c \in Within(r, d, zero)
      <3>1. \/ (\A s \in 1..2 : d # PairSpines(one)[s]) /\ (\A l \in 1..4 : d # PairLeaves(one)[l])
            \/ (\A s \in 1..2 : d # PairSpines(three)[s]) /\ (\A l \in 1..4 : d # PairLeaves(three)[l])
        <4>1. /\ \A s \in 1..2 : d = PairSpines(one)[s] => d.kind = "spine" /\ d.index < 3
              /\ \A s \in 1..2 : d = PairSpines(three)[s] => d.kind = "spine" /\ d.index > 2
              /\ \A l \in 1..4 : d = PairLeaves(one)[l] => d.kind = "leaf" /\ d.index < 30
              /\ \A l \in 1..4 : d = PairLeaves(three)[l] => d.kind = "leaf" /\ d.index > 30
          <5>1. /\ \A s \in 1..2 : d = PairSpines(one)[s] => d \in PairSpineAt(one, s)
                /\ \A s \in 1..2 : d = PairSpines(three)[s] => d \in PairSpineAt(three, s)
            BY PairSpineDevice
          <5>2. /\ \A l \in 1..4 : d = PairLeaves(one)[l] => d \in PairLeafAt(one, l)
                /\ \A l \in 1..4 : d = PairLeaves(three)[l] => d \in PairLeafAt(three, l)
            BY PairLeafDevice
          <5>3. /\ \A s \in 1..2 : one + s - 1 < 3 /\ three + s - 1 > 2
                /\ \A l \in 1..4 : PairLeafNumber(one, l) < 30 /\ PairLeafNumber(three, l) > 30
            BY <1>1 DEF PairLeafNumber
          <5>4. /\ \A s \in 1..2 : d \in PairSpineAt(one, s) => d.kind = "spine" /\ d.index < 3
                /\ \A s \in 1..2 : d \in PairSpineAt(three, s) => d.kind = "spine" /\ d.index > 2
            BY <5>3 DEF PairSpineAt
          <5>5. /\ \A l \in 1..4 : d \in PairLeafAt(one, l) => d.kind = "leaf" /\ d.index < 30
                /\ \A l \in 1..4 : d \in PairLeafAt(three, l) => d.kind = "leaf" /\ d.index > 30
            BY <5>3 DEF PairLeafAt
          <5> QED
            BY <5>1, <5>2, <5>4, <5>5
        <4>2. d.index \in Nat
          BY DEF Devices
        <4> QED
          BY <4>1, <4>2
      <3>2. ASSUME NEW rack \in Nat, \A s \in 1..2 : d # PairSpines(rack)[s],
                   \A l \in 1..4 : d # PairLeaves(rack)[l]
            PROVE  RackPair(rack) \in Within(r, d, zero)
        BY <1>9, <3>2, RackPairUses
      <3> QED
        BY <1>2, <3>1, <3>2
    <2>2. CASE d.kind # "ipu"
      <3>1. zero + each <= Room(r, d) /\ each + zero <= Room(r, d)
        BY <1>1, <1>6, <1>9, <2>2
      <3> QED
        BY <1>5, <1>6, <1>7, <2>1, <3>1
    <2>3. CASE d.kind = "ipu"
      <3>1. \A rack \in Nat : /\ \A s \in 1..2 : d # PairSpines(rack)[s]
                              /\ \A l \in 1..4 : d # PairLeaves(rack)[l]
        <4>1. \A rack \in Nat : \A s \in 1..2 : d = PairSpines(rack)[s] => d.kind = "spine"
          BY PairSpineDevice DEF PairSpineAt
        <4>2. \A rack \in Nat : \A l \in 1..4 : d = PairLeaves(rack)[l] => d.kind = "leaf"
          BY PairLeafDevice DEF PairLeafAt
        <4> QED
          BY <2>3, <4>1, <4>2
      <3>2. \A rack \in Nat : RackPair(rack) \in Within(r, d, zero)
        <4>1. d.kind # "superspine"
          BY <1>9
        <4> QED
          BY <3>1, <4>1, RackPairUses
      <3>3. zero + zero <= Room(r, d)
        BY <1>1, <1>6
      <3> QED
        BY <1>2, <1>5, <1>6, <3>2, <3>3
    <2> QED
      BY <2>2, <2>3
  <1> QED
    BY <1>8, <1>9

------------------------------------------------------------------------------
\* What is asked for in all.

\* Calls that begin with early ones, and ask no device for more than its room after.
Fitting(r) ==
    {cs \in Seq(Calls) : \E early \in Seq(Early(r)), later \in Seq(Later(r)) :
        /\ cs = early \o later
        /\ \A d \in Devices : Own(r, d) => later \in Within(r, d, Room(r, d))}

LEMMA FitsFromTheStart ==
    ASSUME NEW r, NEW later,
           \A d \in Devices : Own(r, d) => later \in Within(r, d, Room(r, d))
    PROVE  later \in Seq(Later(r))
  <1>1. PICK d \in Devices : d = Superspine(1)
    BY NamedDevices
  <1>2. Own(r, d)
    BY <1>1, NamedDevices DEF Own, Superspine, Device
  <1> QED
    BY <1>2 DEF Within

LEMMA EmptyThen ==
    ASSUME NEW S, NEW s \in Seq(S)
    PROVE  <<>> \o s = s
  OBVIOUS

LEMMA SeqSubset ==
    ASSUME NEW S, NEW T, S \subseteq T, NEW s \in Seq(S)
    PROVE  s \in Seq(T)
  OBVIOUS

LEMMA CallsFit ==
    ASSUME NEW r, Buildable(r), Fits(r)
    PROVE  GeneratorCalls(r) \in Fitting(r)
  <1>1. Early(r) \subseteq Calls /\ Later(r) \subseteq Calls
    BY DEF Early, Later
  <1>2. ASSUME NEW early \in Seq(Early(r)), NEW later,
               \A d \in Devices : Own(r, d) => later \in Within(r, d, Room(r, d))
        PROVE  early \o later \in Fitting(r)
    <2>1. later \in Seq(Later(r))
      BY <1>2, FitsFromTheStart
    <2>2. early \in Seq(Calls) /\ later \in Seq(Calls)
      BY <1>1, <2>1, SeqSubset
    <2>3. early \o later \in Seq(Calls)
      <3> HIDE DEF Calls
      <3> QED
        BY <2>2
    <2> QED
      BY <1>2, <2>1, <2>3 DEF Fitting
  <1>3. ASSUME NEW later, \A d \in Devices : Own(r, d) => later \in Within(r, d, Room(r, d))
        PROVE  later \in Fitting(r)
    <2>1. <<>> \in Seq(Early(r))
      OBVIOUS
    <2>2. <<>> \o later \in Fitting(r)
      BY <1>2, <1>3, <2>1
    <2>3. <<>> \o later = later
      BY <1>3, FitsFromTheStart, EmptyThen
    <2> QED
      BY <2>2, <2>3
  <1>4. CASE r.kind = "fixed"
    BY <1>3, <1>4, FixedFits DEF GeneratorCalls
  <1>5. CASE r.kind = "tier"
    <2>1. \A d \in Devices : Own(r, d) => d.kind = "superspine"
      BY <1>5 DEF Own
    <2>2. \A d \in Devices : Own(r, d) => SuperSpineTier(r) \in Within(r, d, Room(r, d))
      BY <1>5, <2>1, TierFits
    <2> QED
      BY <1>3, <1>5, <2>2 DEF GeneratorCalls
  <1>6. CASE r.kind = "access"
    <2>1. \A d \in Devices : AccessFabric(r) \in Within(r, d, Room(r, d))
      BY <1>6, AccessFits
    <2> QED
      BY <1>3, <1>6, <2>1 DEF GeneratorCalls
  <1>7. CASE r.kind = "plain"
    <2>1. PICK later : later = FlattenSeq([i \in 1..r.leaves |-> PlainLeaf(r, i)])
      OBVIOUS
    <2>2. \A d \in Devices : later \in Within(r, d, Room(r, d))
      BY <1>7, <2>1, PlainFits
    <2>3. PlainSpines(r) \in Seq(Early(r))
      BY <1>7, EarlySpines
    <2>4. GeneratorCalls(r) = PlainSpines(r) \o later
      BY <1>7, <2>1 DEF GeneratorCalls, PlainFabric, ForEach
    <2> QED
      BY <1>2, <2>2, <2>3, <2>4
  <1> QED
    BY <1>4, <1>5, <1>6, <1>7 DEF Buildable

------------------------------------------------------------------------------
\* What recipes give a name or an address to.

\* Two calls give the same device, or interfaces with the same address; the former
\* counts where devices have names of their own.
Clash(named, c, e) ==
    \/ named /\ c.call = "createSwitch" /\ e.call = "createSwitch" /\ c.device = e.device
    \/ /\ c.call = "createNIC" /\ e.call = "createNIC"
       /\ c.rack = e.rack /\ c.leaf = e.leaf /\ c.hostID = e.hostID

\* Calls among C of which no two clash.
Clear(named, C) ==
    {cs \in Seq(C) : \A i, j \in 1..Len(cs) : Clash(named, cs[i], cs[j]) => i = j}

Quiet == {c \in Calls : c.call # "createSwitch" /\ c.call # "createNIC"}
Making(D) == {c \in Calls : c.call = "createSwitch" /\ c.device \in D}
Attaching(racks, hosts, kind) ==
    {c \in Calls : /\ c.call = "createNIC" /\ c.device.kind = kind
                   /\ c.rack \in racks /\ c.hostID \in hosts /\ 1 <= c.leaf}
About(D, racks, hosts, kind) == Quiet \cup Making(D) \cup Attaching(racks, hosts, kind)

LEMMA ClearMore ==
    ASSUME NEW named, NEW C, NEW D, C \subseteq D, NEW s \in Clear(named, C)
    PROVE  s \in Clear(named, D)
  BY SeqSubset DEF Clear

LEMMA ClearBoth ==
    ASSUME NEW named, NEW C, NEW a \in Clear(named, C), NEW b \in Clear(named, C),
           \A i \in 1..Len(a), j \in 1..Len(b) : ~ Clash(named, a[i], b[j])
    PROVE  a \o b \in Clear(named, C)
  <1>1. a \in Seq(C) /\ b \in Seq(C)
    BY DEF Clear
  <1>2. PICK s : s = a \o b
    OBVIOUS
  <1>3. PICK n \in Nat, m \in Nat : n = Len(a) /\ m = Len(b)
    BY <1>1
  <1>4. /\ s \in Seq(C) /\ Len(s) = n + m
        /\ \A i \in 1..Len(s) : (i \in 1..n /\ s[i] = a[i]) \/ (i - n \in 1..m /\ s[i] = b[i - n])
    BY <1>1, <1>2, <1>3
  <1>5. \A c, e : Clash(named, c, e) <=> Clash(named, e, c)
    BY DEF Clash
  <1>6. /\ \A i, j \in 1..n : Clash(named, a[i], a[j]) => i = j
        /\ \A i, j \in 1..m : Clash(named, b[i], b[j]) => i = j
    BY <1>3 DEF Clear
  <1>7. ASSUME NEW i \in 1..Len(s), NEW j \in 1..Len(s), Clash(named, s[i], s[j])
        PROVE  i = j
    <2>1. CASE (i \in 1..n /\ s[i] = a[i]) /\ (j \in 1..n /\ s[j] = a[j])
      BY <1>6, <1>7, <2>1
    <2>2. CASE (i \in 1..n /\ s[i] = a[i]) /\ (j - n \in 1..m /\ s[j] = b[j - n])
      BY <1>3, <1>7, <2>2
    <2>3. CASE (i - n \in 1..m /\ s[i] = b[i - n]) /\ (j \in 1..n /\ s[j] = a[j])
      BY <1>3, <1>5, <1>7, <2>3
    <2>4. CASE (i - n \in 1..m /\ s[i] = b[i - n]) /\ (j - n \in 1..m /\ s[j] = b[j - n])
      <3>1. i - n = j - n
        BY <1>6, <1>7, <2>4
      <3> QED
        BY <3>1
    <2> QED
      BY <1>4, <2>1, <2>2, <2>3, <2>4
  <1> QED
    BY <1>2, <1>4, <1>7 DEF Clear

\* The same for calls of which it is known what they are about.
LEMMA ClearThen ==
    ASSUME NEW named, NEW C, NEW D, NEW E, C \subseteq E, D \subseteq E,
           NEW a \in Clear(named, C), NEW b \in Clear(named, D),
           \A c \in C, e \in D : ~ Clash(named, c, e)
    PROVE  a \o b \in Clear(named, E)
  <1>1. a \in Clear(named, E) /\ b \in Clear(named, E)
    BY ClearMore
  <1>2. (\A i \in 1..Len(a) : a[i] \in C) /\ (\A i \in 1..Len(b) : b[i] \in D)
    BY DEF Clear
  <1> QED
    BY <1>1, <1>2, ClearBoth

LEMMA ClearEach ==
    ASSUME NEW named, NEW n \in Nat, NEW seqs, seqs = [i \in 1..n |-> seqs[i]], NEW C, NEW E,
           \A i \in 1..n : seqs[i] \in Clear(named, C[i]) /\ C[i] \subseteq E,
           \A i, j \in 1..n : \A c \in C[i], e \in C[j] : Clash(named, c, e) => i = j
    PROVE  FlattenSeq(seqs) \in Clear(named, E)
  <1> DEFINE Before(m) == UNION {C[k] : k \in 1..m}
             P == [m \in 0..n |-> Clear(named, Before(m))]
  <1>1. seqs \in Seq(Seq(E)) /\ Len(seqs) = n
    <2>1. \A i \in 1..n : seqs[i] \in Seq(E)
      BY SeqSubset DEF Clear
    <2>2. seqs \in [1..n -> Seq(E)]
      BY <2>1
    <2> QED
      BY <2>2
  <1>2. <<>> \in P[0]
    <2>1. <<>> \in Clear(named, Before(0))
      BY DEF Clear
    <2> QED
      BY <2>1
  <1>3. ASSUME NEW i \in 1..Len(seqs), NEW a \in P[i - 1] \cap Seq(E)
        PROVE  a \o seqs[i] \in P[i]
    <2>1. i \in 1..n /\ i \in 0..n /\ i - 1 \in 0..n
      BY <1>1
    <2>2. a \in Clear(named, Before(i - 1)) /\ seqs[i] \in Clear(named, C[i])
      BY <2>1
    <2>3. Before(i - 1) \subseteq Before(i) /\ C[i] \subseteq Before(i)
      <3>1. 1..(i - 1) \subseteq 1..i /\ i \in 1..i
        BY <2>1
      <3> QED
        BY <3>1
    <2>4. \A c \in Before(i - 1), e \in C[i] : ~ Clash(named, c, e)
      <3>1. \A k \in 1..(i - 1) : k \in 1..n /\ k # i
        BY <2>1
      <3> QED
        BY <2>1, <3>1
    <2> HIDE DEF Before
    <2>5. a \o seqs[i] \in Clear(named, Before(i))
      BY <2>2, <2>3, <2>4, ClearThen
    <2> QED
      BY <2>1, <2>5
  <1>4. FlattenSeq(seqs) \in P[Len(seqs)] \cap Seq(E)
    <2> HIDE DEF P
    <2> QED
      BY <1>1, <1>2, <1>3, FlattenInduction
  <1>5. Before(n) \subseteq E
    OBVIOUS
  <1>6. FlattenSeq(seqs) \in Clear(named, Before(n))
    <2>1. n \in 0..n
      OBVIOUS
    <2> QED
      BY <1>1, <1>4, <2>1
  <1> HIDE DEF Before
  <1> QED
    BY <1>5, <1>6, ClearMore

\* Calls that give neither.
LEMMA QuietClash ==
    ASSUME NEW named, NEW c, NEW e, c \in Quiet \/ e \in Quiet
    PROVE  ~ Clash(named, c, e)
  BY DEF Clash, Quiet

LEMMA ClearQuiet ==
    ASSUME NEW named, NEW s \in Seq(Quiet)
    PROVE  s \in Clear(named, Quiet)
  <1>1. \A i \in 1..Len(s) : s[i] \in Quiet
    OBVIOUS
  <1> QED
    BY <1>1, QuietClash DEF Clear

LEMMA ClearOne ==
    ASSUME NEW named, NEW C, NEW c \in C
    PROVE  <<c>> \in Clear(named, C)
  <1>1. <<c>> \in Seq(C) /\ Len(<<c>>) = 1
    OBVIOUS
  <1> QED
    BY <1>1 DEF Clear

\* Calls about other devices, and about another rack or host, do not clash.
LEMMA AboutClash ==
    ASSUME NEW named, NEW D, NEW racks, NEW hosts, NEW kind, NEW c \in About(D, racks, hosts, kind),
           NEW D2, NEW racks2, NEW hosts2, NEW kind2, NEW e \in About(D2, racks2, hosts2, kind2),
           Clash(named, c, e)
    PROVE  \/ named /\ D \cap D2 # {}
           \/ racks \cap racks2 # {} /\ hosts \cap hosts2 # {}
  BY DEF About, Making, Attaching, Quiet, Clash

LEMMA AboutMore ==
    ASSUME NEW D, NEW racks, NEW hosts, NEW kind, NEW D2, NEW racks2, NEW hosts2,
           D \subseteq D2, racks \subseteq racks2, hosts \subseteq hosts2
    PROVE  About(D, racks, hosts, kind) \subseteq About(D2, racks2, hosts2, kind)
  BY DEF About, Making, Attaching

LEMMA SwitchClear ==
    ASSUME NEW named, NEW d \in Devices, NEW n \in Nat
    PROVE  Switch(d, n) \in Clear(named, Making({d}))
  <1>1. PICK c : c = [call |-> "createSwitch", device |-> d, portCount |-> n]
    OBVIOUS
  <1>2. c \in Making({d})
    <2>1. c \in Calls /\ c.call = "createSwitch" /\ c.device = d
      BY <1>1 DEF Calls
    <2> QED
      BY <2>1 DEF Making
  <1>3. Switch(d, n) = <<c>>
    BY <1>1 DEF Switch
  <1> QED
    BY <1>2, <1>3, ClearOne

LEMMA TrunkClear ==
    ASSUME NEW named, NEW src \in Devices, NEW tgt \in Devices, NEW n \in Nat
    PROVE  Trunk(src, tgt, n) \in Clear(named, Quiet)
  <1>1. PICK c : c = [call |-> "createLink", src |-> src, tgt |-> tgt]
    OBVIOUS
  <1>2. c \in Quiet
    <2>1. c \in Calls /\ c.call = "createLink"
      BY <1>1 DEF Calls
    <2> QED
      BY <2>1 DEF Quiet
  <1>3. Trunk(src, tgt, n) \in Seq(Quiet)
    BY <1>1, <1>2 DEF Trunk
  <1> QED
    BY <1>3, ClearQuiet

LEMMA LatchClear ==
    ASSUME NEW named, NEW d \in Devices
    PROVE  Latch(d) \in Clear(named, Quiet)
  <1>1. PICK c : c = [call |-> "latch", device |-> d]
    OBVIOUS
  <1>2. c \in Quiet
    <2>1. c \in Calls /\ c.call = "latch"
      BY <1>1 DEF Calls
    <2> QED
      BY <2>1 DEF Quiet
  <1>3. Latch(d) \in Seq(Quiet)
    BY <1>1, <1>2 DEF Latch
  <1> QED
    BY <1>3, ClearQuiet

\* The call that attaches an interface.
Interface(host, rack, hostID, leaf, device) ==
    [call |-> "createNIC", host |-> host, rack |-> rack, leaf |-> leaf,
     hostID |-> hostID, device |-> device]

LEMMA NicClear ==
    ASSUME NEW named, NEW host \in Hosts, NEW rack \in Nat, NEW hostID \in Nat, NEW leaf \in Nat,
           1 <= leaf, NEW d \in Devices
    PROVE  /\ Interface(host, rack, hostID, leaf, d) \in Attaching({rack}, {hostID}, d.kind)
           /\ Nic(host, rack, hostID, leaf, d)
                 \in Clear(named, {Interface(host, rack, hostID, leaf, d)})
  <1>1. PICK c : c = Interface(host, rack, hostID, leaf, d)
    OBVIOUS
  <1>2. c \in Calls /\ c.call = "createNIC" /\ c.device = d /\ c.rack = rack /\ c.hostID = hostID /\ c.leaf = leaf
    BY <1>1 DEF Calls, Interface
  <1>3. Nic(host, rack, hostID, leaf, d) = <<c>>
    BY <1>1 DEF Nic, Interface
  <1>4. c \in Attaching({rack}, {hostID}, d.kind)
    BY <1>2 DEF Attaching
  <1>5. <<c>> \in Clear(named, {c})
    BY ClearOne
  <1> QED
    BY <1>1, <1>3, <1>4, <1>5

\* Interfaces of a host that are numbered differently.
LEMMA InterfaceClash ==
    ASSUME NEW named, NEW host, NEW rack, NEW hostID, NEW leaf, NEW d,
           NEW host2, NEW rack2, NEW hostID2, NEW leaf2, NEW d2, leaf # leaf2
    PROVE  ~ Clash(named, Interface(host, rack, hostID, leaf, d),
                          Interface(host2, rack2, hostID2, leaf2, d2))
  BY DEF Clash, Interface

\* What is quiet may come anywhere.
LEMMA ClearThenQuiet ==
    ASSUME NEW named, NEW C, Quiet \subseteq C, NEW a \in Clear(named, C),
           NEW b \in Clear(named, Quiet)
    PROVE  a \o b \in Clear(named, C) /\ b \o a \in Clear(named, C)
  <1>1. \A c \in C, e \in Quiet : ~ Clash(named, c, e) /\ ~ Clash(named, e, c)
    BY QuietClash
  <1> QED
    BY <1>1, ClearThen

\* The IPUs of a rack.
IPUs(rack, hosts, haveIPU) == {d \in Devices : haveIPU /\ \E h \in hosts : d = IPU(rack, h)}

LEMMA ServerClear ==
    ASSUME NEW named, NEW rack \in Nat, NEW host \in Nat, NEW vms \in Nat,
           NEW leaf1 \in Devices, NEW leaf2, leaf2 # NoLeaf => leaf2 \in Devices
    PROVE  ServerIPUAndVMs(rack, host, leaf1, leaf2, vms)
               \in Clear(named, About({IPU(rack, host)}, {rack}, {host}, "ipu"))
  <1>1. PICK ipu : ipu = IPU(rack, host)
    OBVIOUS
  <1>2. ipu \in Devices /\ ipu.kind = "ipu"
    BY <1>1, NamedDevices
  <1>3. PICK second : second = IF leaf2 = NoLeaf THEN leaf1 ELSE leaf2
    OBVIOUS
  <1>4. second \in Devices
    BY <1>3
  <1> DEFINE switch == Switch(ipu, 2 + 1 + vms)
             up1 == Trunk(leaf1, ipu, 1)
             up2 == Trunk(second, ipu, 1)
             nic == Nic(<<"host", rack, host>>, rack, host, 1, ipu)
             first == Interface(<<"host", rack, host>>, rack, host, 1, ipu)
             further(i) == Interface(<<"vm", rack, host, i>>, rack, host, 10 + i, ipu)
             vm == [i \in 1..vms |-> Nic(<<"vm", rack, host, i>>, rack, host, 10 + i, ipu)]
             M == Making({ipu}) \cup Quiet
             N == Attaching({rack}, {host}, "ipu")
             F == {further(i) : i \in 1..vms}
  <1>5. switch \in Clear(named, M)
    <2>1. 2 + 1 + vms \in Nat
      OBVIOUS
    <2>2. switch \in Clear(named, Making({ipu}))
      <3> HIDE DEF M
      <3> QED
        BY <1>2, <2>1, SwitchClear
    <2> QED
      BY <2>2, ClearMore
  <1>6. up1 \in Clear(named, Quiet) /\ up2 \in Clear(named, Quiet)
    BY <1>2, <1>4, TrunkClear
  <1>7. first \in N /\ nic \in Clear(named, {first})
    <2>1. <<"host", rack, host>> \in Hosts /\ 1 \in Nat /\ 1 <= 1
      BY DEF Hosts
    <2> HIDE DEF N
    <2>2. first \in Attaching({rack}, {host}, ipu.kind) /\ nic \in Clear(named, {first})
      BY <1>2, <2>1, NicClear
    <2> QED
      BY <1>2, <2>2 DEF N
  <1>8. FlattenSeq(vm) \in Clear(named, F) /\ F \subseteq N
    <2>1. ASSUME NEW i \in 1..vms
          PROVE  further(i) \in N /\ vm[i] \in Clear(named, {further(i)})
      <3>1. <<"vm", rack, host, i>> \in Hosts /\ 10 + i \in Nat /\ 1 <= 10 + i
        BY DEF Hosts
      <3>2. vm[i] = Nic(<<"vm", rack, host, i>>, rack, host, 10 + i, ipu)
        OBVIOUS
      <3> HIDE DEF vm, N
      <3>3. /\ further(i) \in Attaching({rack}, {host}, ipu.kind)
            /\ Nic(<<"vm", rack, host, i>>, rack, host, 10 + i, ipu) \in Clear(named, {further(i)})
        BY <1>2, <3>1, NicClear
      <3> QED
        BY <1>2, <3>2, <3>3 DEF N
    <2> DEFINE C == [i \in 1..vms |-> {further(i)}]
    <2>2. \A i \in 1..vms : vm[i] \in Clear(named, C[i]) /\ C[i] \subseteq F
      BY <2>1
    <2>3. \A i, j \in 1..vms : \A c \in C[i], e \in C[j] : Clash(named, c, e) => i = j
      <3>1. ASSUME NEW i \in 1..vms, NEW j \in 1..vms, i # j
            PROVE  ~ Clash(named, further(i), further(j))
        <4>1. 10 + i # 10 + j
          BY <3>1
        <4> QED
          BY <4>1, InterfaceClash
      <3> QED
        BY <3>1
    <2>4. vm = [i \in 1..vms |-> vm[i]]
      OBVIOUS
    <2> HIDE DEF vm, C, F
    <2>5. FlattenSeq(vm) \in Clear(named, F)
      BY <2>2, <2>3, <2>4, ClearEach
    <2> QED
      BY <2>1, <2>5 DEF F
  <1>9. ServerIPUAndVMs(rack, host, leaf1, leaf2, vms)
             = switch \o up1 \o up2 \o nic \o FlattenSeq(vm)
    BY <1>1, <1>3 DEF ServerIPUAndVMs, ForEach
  <1>10. \A e \in F : ~ Clash(named, first, e)
    <2>1. ASSUME NEW i \in 1..vms
          PROVE  ~ Clash(named, first, further(i))
      <3>1. 1 # 10 + i
        OBVIOUS
      <3> QED
        BY <3>1, InterfaceClash
    <2> QED
      BY <2>1
  <1>11. \A c \in M, e \in N : ~ Clash(named, c, e)
    BY DEF Clash, Making, Quiet, Attaching
  <1>12. /\ Quiet \subseteq M
         /\ M \cup N \subseteq About({ipu}, {rack}, {host}, "ipu")
    BY DEF About
  <1> HIDE DEF switch, up1, up2, nic, vm, M, N, F, first
  <1>13. switch \o up1 \o up2 \in Clear(named, M)
    BY <1>5, <1>6, <1>12, ClearThenQuiet
  <1>14. switch \o up1 \o up2 \o nic \in Clear(named, M \cup {first})
    <2>1. \A c \in M, e \in {first} : ~ Clash(named, c, e)
      BY <1>7, <1>11
    <2> QED
      BY <1>7, <1>13, <2>1, ClearThen
  <1>15. switch \o up1 \o up2 \o nic \o FlattenSeq(vm) \in Clear(named, About({ipu}, {rack}, {host}, "ipu"))
    <2>1. \A c \in M \cup {first}, e \in F : ~ Clash(named, c, e)
      BY <1>8, <1>10, <1>11
    <2>2. M \cup {first} \subseteq About({ipu}, {rack}, {host}, "ipu")
      BY <1>7, <1>12
    <2>3. F \subseteq About({ipu}, {rack}, {host}, "ipu")
      BY <1>8, <1>12
    <2> QED
      BY <1>8, <1>14, <2>1, <2>2, <2>3, ClearThen
  <1> QED
    BY <1>1, <1>9, <1>15

NicKind(haveIPU) == IF haveIPU THEN "ipu" ELSE "leaf"

LEMMA HostClear ==
    ASSUME NEW named, NEW rack \in Nat, NEW host \in Nat, NEW vms \in Nat, NEW haveIPU \in BOOLEAN,
           NEW leaf1 \in Devices, leaf1.kind = "leaf",
           NEW leaf2, leaf2 # NoLeaf => leaf2 \in Devices /\ leaf2.kind = "leaf"
    PROVE  RackHost(rack, host, leaf1, leaf2, haveIPU, vms)
               \in Clear(named, About(IPUs(rack, {host}, haveIPU), {rack}, {host}, NicKind(haveIPU)))
  <1>1. CASE haveIPU
    <2>1. IPUs(rack, {host}, haveIPU) = {IPU(rack, host)}
      BY <1>1, NamedDevices DEF IPUs
    <2> QED
      BY <1>1, <2>1, ServerClear DEF RackHost, NicKind
  <1>2. CASE ~ haveIPU
    <2> DEFINE owner == <<"host", rack, host>>
               N == Attaching({rack}, {host}, "leaf")
    <2>1. owner \in Hosts /\ 1 \in Nat /\ 2 \in Nat /\ 1 <= 1 /\ 1 <= 2
      BY DEF Hosts
    <2>2. PICK b : b = IF leaf2 = NoLeaf THEN <<>> ELSE Nic(owner, rack, host, 2, leaf2)
      OBVIOUS
    <2>3. RackHost(rack, host, leaf1, leaf2, haveIPU, vms) = Nic(owner, rack, host, 1, leaf1) \o b
      BY <1>2, <2>2 DEF RackHost
    <2> HIDE DEF owner, N
    <2>4. PICK first, next : /\ first = Interface(owner, rack, host, 1, leaf1)
                             /\ next = Interface(owner, rack, host, 2, leaf2)
      OBVIOUS
    <2>5. first \in N /\ Nic(owner, rack, host, 1, leaf1) \in Clear(named, {first})
      BY <2>1, <2>4, NicClear DEF N
    <2>6. leaf2 # NoLeaf => next \in N /\ Nic(owner, rack, host, 2, leaf2) \in Clear(named, {next})
      BY <2>1, <2>4, NicClear DEF N
    <2>7. ~ Clash(named, first, next)
      BY <2>4, InterfaceClash
    <2>8. N \subseteq About(IPUs(rack, {host}, haveIPU), {rack}, {host}, NicKind(haveIPU))
      BY <1>2 DEF N, About, NicKind
    <2>9. Nic(owner, rack, host, 1, leaf1) \o b \in Clear(named, N)
      <3>1. CASE leaf2 = NoLeaf
        <4>1. b = <<>>
          BY <2>2, <3>1
        <4>2. Nic(owner, rack, host, 1, leaf1) \in Seq(N)
          BY <2>5 DEF Clear
        <4>3. Nic(owner, rack, host, 1, leaf1) \o b = Nic(owner, rack, host, 1, leaf1)
          BY <4>1, <4>2
        <4> QED
          BY <2>5, <4>3, ClearMore
      <3>2. CASE leaf2 # NoLeaf
        <4>1. b \in Clear(named, {next}) /\ next \in N
          BY <2>2, <2>6, <3>2
        <4>2. \A c \in {first}, e \in {next} : ~ Clash(named, c, e)
          BY <2>7
        <4>3. {first} \subseteq N /\ {next} \subseteq N
          BY <2>5, <4>1
        <4> QED
          BY <2>5, <4>1, <4>2, <4>3, ClearThen
      <3> QED
        BY <3>1, <3>2
    <2>10. PICK K : K = About(IPUs(rack, {host}, haveIPU), {rack}, {host}, NicKind(haveIPU))
      OBVIOUS
    <2>11. PICK s : s = RackHost(rack, host, leaf1, leaf2, haveIPU, vms)
      OBVIOUS
    <2>12. s \in Clear(named, N) /\ N \subseteq K
      BY <2>3, <2>8, <2>9, <2>10, <2>11
    <2>13. s \in Clear(named, K)
      BY ONLY <2>12, ClearMore
    <2> QED
      BY <2>10, <2>11, <2>13
  <1> QED
    BY <1>1, <1>2

\* The hosts of a rack; where they have names, an IPU has two digits for its host.
LEMMA RackClear ==
    ASSUME NEW named, NEW rack \in Nat, NEW count \in Nat, NEW vms \in Nat, NEW haveIPU \in BOOLEAN,
           NEW leaf1 \in Devices, leaf1.kind = "leaf",
           NEW leaf2, leaf2 # NoLeaf => leaf2 \in Devices /\ leaf2.kind = "leaf",
           named /\ haveIPU => count < 100
    PROVE  RackHosts(rack, leaf1, leaf2, count, haveIPU, vms)
               \in Clear(named, About(IPUs(rack, 1..count, haveIPU), {rack}, Nat, NicKind(haveIPU)))
  <1> DEFINE f == [h \in 1..count |-> RackHost(rack, h, leaf1, leaf2, haveIPU, vms)]
             C == [h \in 1..count |-> About(IPUs(rack, {h}, haveIPU), {rack}, {h}, NicKind(haveIPU))]
             E == About(IPUs(rack, 1..count, haveIPU), {rack}, Nat, NicKind(haveIPU))
  <1>1. ASSUME NEW h \in 1..count
        PROVE  f[h] \in Clear(named, C[h]) /\ C[h] \subseteq E
    <2>1. f[h] \in Clear(named, C[h])
      <3>1. /\ f[h] = RackHost(rack, h, leaf1, leaf2, haveIPU, vms) /\ h \in Nat
            /\ C[h] = About(IPUs(rack, {h}, haveIPU), {rack}, {h}, NicKind(haveIPU))
        OBVIOUS
      <3> HIDE DEF f, C, E
      <3>2. RackHost(rack, h, leaf1, leaf2, haveIPU, vms)
                \in Clear(named, About(IPUs(rack, {h}, haveIPU), {rack}, {h}, NicKind(haveIPU)))
        BY <3>1, HostClear
      <3> QED
        BY <3>1, <3>2
    <2>2. /\ IPUs(rack, {h}, haveIPU) \subseteq IPUs(rack, 1..count, haveIPU)
          /\ {h} \subseteq Nat /\ {rack} \subseteq {rack}
      BY DEF IPUs
    <2>3. C[h] \subseteq E
      <3>1. C[h] = About(IPUs(rack, {h}, haveIPU), {rack}, {h}, NicKind(haveIPU))
        OBVIOUS
      <3>2. About(IPUs(rack, {h}, haveIPU), {rack}, {h}, NicKind(haveIPU))
                \subseteq About(IPUs(rack, 1..count, haveIPU), {rack}, Nat, NicKind(haveIPU))
        BY ONLY <2>2 DEF About, Making, Attaching
      <3> QED
        BY <3>1, <3>2
    <2> QED
      BY <2>1, <2>3
  <1>2. ASSUME NEW i \in 1..count, NEW j \in 1..count, NEW c \in C[i], NEW e \in C[j], Clash(named, c, e)
        PROVE  i = j
    <2>1. \/ named /\ IPUs(rack, {i}, haveIPU) \cap IPUs(rack, {j}, haveIPU) # {}
          \/ {i} \cap {j} # {}
      BY <1>2, AboutClash
    <2>2. CASE named /\ IPUs(rack, {i}, haveIPU) \cap IPUs(rack, {j}, haveIPU) # {}
      <3>1. haveIPU /\ IPU(rack, i) = IPU(rack, j)
        BY <2>2 DEF IPUs
      <3>2. 100 * rack + i = 100 * rack + j
        BY <3>1 DEF IPU, Device
      <3> HIDE DEF f, C, E
      <3> QED
        BY <3>2
    <2> QED
      BY <2>1, <2>2
  <1>3. f = [h \in 1..count |-> f[h]]
    OBVIOUS
  <1>4. FlattenSeq(f) \in Clear(named, E)
    <2> HIDE DEF f, C, E
    <2> QED
      BY <1>1, <1>2, <1>3, ClearEach
  <1> QED
    BY <1>4 DEF RackHosts, ForEach

\* Sequences about different things, one after the other.
LEMMA ClearAbout ==
    ASSUME NEW named, NEW D, NEW racks, NEW hosts, NEW kind, NEW D2, NEW racks2, NEW hosts2,
           NEW a \in Clear(named, About(D, racks, hosts, kind)),
           NEW b \in Clear(named, About(D2, racks2, hosts2, kind)),
           named => D \cap D2 = {}, racks \cap racks2 = {} \/ hosts \cap hosts2 = {}
    PROVE  a \o b \in Clear(named, About(D \cup D2, racks \cup racks2, hosts \cup hosts2, kind))
  <1>1. PICK A, B, E : /\ A = About(D, racks, hosts, kind) /\ B = About(D2, racks2, hosts2, kind)
                       /\ E = About(D \cup D2, racks \cup racks2, hosts \cup hosts2, kind)
    OBVIOUS
  <1>2. A \subseteq E /\ B \subseteq E
    BY <1>1 DEF About, Making, Attaching
  <1>3. \A c \in A, e \in B : ~ Clash(named, c, e)
    BY <1>1, AboutClash
  <1>4. a \in Clear(named, A) /\ b \in Clear(named, B)
    BY <1>1
  <1>5. a \o b \in Clear(named, E)
    BY ONLY <1>2, <1>3, <1>4, ClearThen
  <1> QED
    BY <1>1, <1>5

LEMMA QuietEach ==
    ASSUME NEW named, NEW n \in Nat, NEW seqs, seqs = [i \in 1..n |-> seqs[i]],
           \A i \in 1..n : seqs[i] \in Clear(named, Quiet)
    PROVE  FlattenSeq(seqs) \in Clear(named, Quiet)
  <1> DEFINE C == [i \in 1..n |-> Quiet]
  <1>1. \A i \in 1..n : seqs[i] \in Clear(named, C[i]) /\ C[i] \subseteq Quiet
    OBVIOUS
  <1>2. \A i, j \in 1..n : \A c \in C[i], e \in C[j] : Clash(named, c, e) => i = j
    BY QuietClash
  <1> HIDE DEF C
  <1> QED
    BY <1>1, <1>2, ClearEach

LEMMA QuietBoth ==
    ASSUME NEW named, NEW a \in Clear(named, Quiet), NEW b \in Clear(named, Quiet)
    PROVE  a \o b \in Clear(named, Quiet)
  BY ClearThenQuiet

LEMMA QuietIsAbout ==
    ASSUME NEW named, NEW D, NEW racks, NEW hosts, NEW kind
    PROVE  /\ \A s \in Clear(named, Quiet) : s \in Clear(named, About(D, racks, hosts, kind))
           /\ \A s \in Clear(named, Making(D)) : s \in Clear(named, About(D, racks, hosts, kind))
  <1>1. PICK A : A = About(D, racks, hosts, kind)
    OBVIOUS
  <1>2. Quiet \subseteq A /\ Making(D) \subseteq A
    BY <1>1 DEF About
  <1> QED
    BY <1>1, <1>2, ClearMore

\* Switches that are created each for itself.
LEMMA SwitchesClear ==
    ASSUME NEW named, NEW n \in Nat, NEW ports \in Nat, NEW device,
           \A i \in 1..n : device[i] \in Devices,
           \A i, j \in 1..n : device[i] = device[j] => i = j,
           NEW seqs, seqs = [i \in 1..n |-> seqs[i]],
           \A i \in 1..n : seqs[i] = Switch(device[i], ports),
           NEW D, \A i \in 1..n : device[i] \in D, NEW kind
    PROVE  FlattenSeq(seqs) \in Clear(named, About(D, {}, {}, kind))
  <1> DEFINE C == [i \in 1..n |-> Making({device[i]})]
             E == Making(D)
  <1>1. \A i \in 1..n : seqs[i] \in Clear(named, C[i])
    <2>1. ASSUME NEW i \in 1..n
          PROVE  seqs[i] \in Clear(named, C[i])
      <3>1. seqs[i] = Switch(device[i], ports) /\ C[i] = Making({device[i]}) /\ device[i] \in Devices
        OBVIOUS
      <3> HIDE DEF C
      <3>2. Switch(device[i], ports) \in Clear(named, Making({device[i]}))
        BY <3>1, SwitchClear
      <3> QED
        BY <3>1, <3>2
    <2> QED
      BY <2>1
  <1>2. \A i \in 1..n : C[i] \subseteq E
    BY DEF Making
  <1>3. \A i, j \in 1..n : \A c \in C[i], e \in C[j] : Clash(named, c, e) => i = j
    BY DEF Clash, Making
  <1>4. seqs = [i \in 1..n |-> seqs[i]]
    OBVIOUS
  <1>5. FlattenSeq(seqs) \in Clear(named, E)
    <2> HIDE DEF C, E
    <2> QED
      BY <1>1, <1>2, <1>3, <1>4, ClearEach
  <1> QED
    BY <1>5, QuietIsAbout

LEMMA PlainLeafClear ==
    ASSUME NEW named, NEW r, Buildable(r), r.kind = "plain", NEW i \in Nat,
           named => TwoDigits(r)
    PROVE  PlainLeaf(r, i) \in Clear(named, About({Leaf(i)} \cup IPUs(i, 1..r.hosts, r.haveIPU),
                                                  {i}, Nat, NicKind(r.haveIPU)))
  <1>1. /\ r.spines \in Nat /\ r.spineTrunk \in Nat /\ r.hosts \in Nat /\ r.vms \in Nat
        /\ r.leafPorts \in Nat /\ r.haveIPU \in BOOLEAN
    BY DEF Buildable
  <1>2. PICK leaf, kind : leaf = Leaf(i) /\ kind = NicKind(r.haveIPU)
    OBVIOUS
  <1>3. leaf \in Devices /\ leaf.kind = "leaf"
    BY <1>2, NamedDevices
  <1> DEFINE switch == Switch(leaf, r.leafPorts)
             f == [s \in 1..r.spines |-> Trunk(Spine(s), leaf, r.spineTrunk)]
             latch == Latch(leaf)
             rack == RackHosts(i, leaf, NoLeaf, r.hosts, r.haveIPU, r.vms)
             D == IPUs(i, 1..r.hosts, r.haveIPU)
  <1>4. PlainLeaf(r, i) = switch \o FlattenSeq(f) \o latch \o rack
    BY <1>2 DEF PlainLeaf, ForEach
  <1>5. switch \in Clear(named, About({leaf}, {}, {}, kind))
    BY <1>1, <1>3, SwitchClear, QuietIsAbout
  <1>6. FlattenSeq(f) \in Clear(named, Quiet)
    <2>1. \A s \in 1..r.spines : f[s] \in Clear(named, Quiet)
      BY <1>1, <1>3, NamedDevices, TrunkClear
    <2>2. f = [s \in 1..r.spines |-> f[s]]
      OBVIOUS
    <2> HIDE DEF f
    <2> QED
      BY <1>1, <2>1, <2>2, QuietEach
  <1>7. latch \in Clear(named, Quiet)
    BY <1>3, LatchClear
  <1>8. rack \in Clear(named, About(D, {i}, Nat, kind))
    <2>1. named /\ r.haveIPU => r.hosts < 100
      BY DEF TwoDigits
    <2> QED
      BY <1>1, <1>2, <1>3, <2>1, RackClear
  <1>9. {leaf} \cap D = {}
    BY <1>3, NamedDevices DEF IPUs
  <1> HIDE DEF switch, f, latch, rack, D
  <1>10. switch \o FlattenSeq(f) \o latch \in Clear(named, About({leaf}, {}, {}, kind))
    <2>1. Quiet \subseteq About({leaf}, {}, {}, kind)
      BY DEF About
    <2> QED
      BY <1>5, <1>6, <1>7, <2>1, ClearThenQuiet
  <1>11. switch \o FlattenSeq(f) \o latch \o rack
             \in Clear(named, About({leaf} \cup D, {} \cup {i}, {} \cup Nat, kind))
    BY <1>8, <1>9, <1>10, ClearAbout
  <1>12. {} \cup {i} = {i} /\ {} \cup Nat = Nat
    OBVIOUS
  <1> QED
    BY <1>2, <1>4, <1>11, <1>12 DEF D

\* The devices that a recipe makes, and those that its interfaces are on.
NamesOf(r) ==
    {d \in Devices :
        CASE r.kind = "fixed" -> TRUE
          [] r.kind = "tier" -> d.kind = "superspine"
          [] OTHER -> /\ d.kind \in {"spine", "leaf", "ipu"} /\ 1 <= d.index
                      /\ d.kind = "ipu" => 101 <= d.index}
NicKindOf(r) == NicKind(r.kind \in {"access", "plain"} /\ r.haveIPU)
CallsOf(r) == About(NamesOf(r), Nat \ {0}, Nat, NicKindOf(r))

LEMMA FabricNames ==
    ASSUME NEW r, r.kind \in {"access", "plain"}, r.haveIPU \in BOOLEAN, NEW i \in Nat \ {0}
    PROVE  /\ Spine(i) \in NamesOf(r) /\ Leaf(i) \in NamesOf(r)
           /\ \A n \in Nat : IPUs(i, 1..n, r.haveIPU) \subseteq NamesOf(r)
           /\ NicKindOf(r) = NicKind(r.haveIPU)
  <1>1. Spine(i) \in NamesOf(r) /\ Leaf(i) \in NamesOf(r)
    BY DEF NamesOf, Spine, Leaf, Device, Devices, DeviceKinds
  <1>2. ASSUME NEW n \in Nat, NEW d \in IPUs(i, 1..n, r.haveIPU)
        PROVE  d \in NamesOf(r)
    <2>1. PICK h \in 1..n : d = IPU(i, h)
      BY <1>2 DEF IPUs
    <2>2. d.kind = "ipu" /\ d.index = 100 * i + h /\ d \in Devices
      BY <1>2, <2>1 DEF IPU, Device, IPUs
    <2>3. 101 <= 100 * i + h
      OBVIOUS
    <2> QED
      BY <2>2, <2>3 DEF NamesOf
  <1> QED
    BY <1>1, <1>2 DEF NicKindOf, NicKind

\* IPUs of different racks have different names.
LEMMA IPUsApart ==
    ASSUME NEW i \in Nat, NEW j \in Nat, NEW n \in Nat, n < 100, NEW haveIPU,
           IPUs(i, 1..n, haveIPU) \cap IPUs(j, 1..n, haveIPU) # {}
    PROVE  i = j
  <1>1. PICK h \in 1..n, g \in 1..n : IPU(i, h) = IPU(j, g)
    BY DEF IPUs
  <1>2. 100 * i + h = 100 * j + g
    BY <1>1 DEF IPU, Device
  <1> QED
    BY <1>2

LEMMA PlainClear ==
    ASSUME NEW named, NEW r, Buildable(r), r.kind = "plain", named => TwoDigits(r)
    PROVE  PlainFabric(r) \in Clear(named, CallsOf(r))
  <1>0. PICK kind : kind = NicKindOf(r)
    OBVIOUS
  <1>1. PICK n \in Nat, m \in Nat, hosts \in Nat :
            n = r.spines /\ m = r.leaves /\ hosts = r.hosts /\ kind = NicKindOf(r)
    BY <1>0 DEF Buildable
  <1> DEFINE f == [s \in 1..n |-> StartAt(Spine(s), r.reserved + 1) \o Switch(Spine(s), r.spinePorts)]
             g == [i \in 1..m |-> PlainLeaf(r, i)]
             About1(s) == About({Spine(s)}, {}, {}, kind)
             D(i) == {Leaf(i)} \cup IPUs(i, 1..hosts, r.haveIPU)
             About2(i) == About(D(i), {i}, Nat, kind)
             S == {Spine(s) : s \in 1..n}
             L == UNION {D(i) : i \in 1..m}
             racks == 1..m
  <1>2. FlattenSeq(f) \in Clear(named, About(S, {}, {}, kind))
    <2> DEFINE C == [s \in 1..n |-> About1(s)]
    <2>1. ASSUME NEW s \in 1..n
          PROVE  f[s] \in Clear(named, About1(s)) /\ About1(s) \subseteq About(S, {}, {}, kind)
      <3>1. PICK d : d = Spine(s)
        OBVIOUS
      <3>2. d \in Devices /\ r.spinePorts \in Nat /\ r.reserved + 1 \in Nat
        BY <3>1, NamedDevices DEF Buildable
      <3>3. StartAt(d, r.reserved + 1) \in Clear(named, Quiet)
        <4>1. PICK c : c = [call |-> "startAt", device |-> d, port |-> r.reserved + 1]
          OBVIOUS
        <4>2. c \in Calls /\ c.call = "startAt"
          BY <3>2, <4>1 DEF Calls
        <4>3. c \in Quiet
          BY <4>2 DEF Quiet
        <4>4. StartAt(d, r.reserved + 1) = <<c>>
          BY <4>1 DEF StartAt
        <4> QED
          BY <4>3, <4>4, ClearOne
      <3>4. Switch(d, r.spinePorts) \in Clear(named, About({d}, {}, {}, kind))
        BY <3>2, SwitchClear, QuietIsAbout
      <3>5. Quiet \subseteq About({d}, {}, {}, kind)
        BY DEF About
      <3>6. StartAt(d, r.reserved + 1) \o Switch(d, r.spinePorts) \in Clear(named, About({d}, {}, {}, kind))
        BY <3>3, <3>4, <3>5, ClearThenQuiet
      <3>7. {d} \subseteq S
        BY <3>1
      <3>8. About({d}, {}, {}, kind) \subseteq About(S, {}, {}, kind)
        BY <3>7 DEF About, Making, Attaching
      <3> QED
        BY <3>1, <3>6, <3>8
    <2>2. ASSUME NEW i \in 1..n, NEW j \in 1..n, NEW c \in About1(i), NEW e \in About1(j),
                 Clash(named, c, e)
          PROVE  i = j
      <3>1. {Spine(i)} \cap {Spine(j)} # {}
        <4>1. \/ named /\ {Spine(i)} \cap {Spine(j)} # {}
              \/ {} \cap {} # {} /\ {} \cap {} # {}
          BY ONLY <2>2, AboutClash
        <4> QED
          BY ONLY <4>1
      <3> QED
        BY <3>1, NamedDevices
    <2>3. f = [s \in 1..n |-> f[s]] /\ \A s \in 1..n : C[s] = About1(s)
      OBVIOUS
    <2>4. \A s \in 1..n : f[s] \in Clear(named, C[s]) /\ C[s] \subseteq About(S, {}, {}, kind)
      BY <2>1, <2>3
    <2>5. \A i, j \in 1..n : \A c \in C[i], e \in C[j] : Clash(named, c, e) => i = j
      BY <2>2, <2>3
    <2> HIDE DEF f, S, C, About1
    <2> QED
      BY <2>3, <2>4, <2>5, ClearEach
  <1>3. FlattenSeq(g) \in Clear(named, About(L, racks, Nat, kind))
    <2> DEFINE C == [i \in 1..m |-> About2(i)]
    <2>1. ASSUME NEW i \in 1..m
          PROVE  g[i] \in Clear(named, About2(i)) /\ About2(i) \subseteq About(L, racks, Nat, kind)
      <3>1. i \in Nat /\ kind = NicKind(r.haveIPU)
        BY <1>1 DEF NicKindOf, NicKind, Buildable
      <3>2. PlainLeaf(r, i) \in Clear(named, About2(i))
        BY <1>1, <3>1, PlainLeafClear
      <3>3. D(i) \subseteq L /\ {i} \subseteq racks
        OBVIOUS
      <3> HIDE DEF L, racks, D
      <3>4. About2(i) \subseteq About(L, racks, Nat, kind)
        BY <3>3 DEF About, Making, Attaching
      <3> QED
        BY <3>2, <3>4
    <2>2. ASSUME NEW i \in 1..m, NEW j \in 1..m, NEW c \in About2(i), NEW e \in About2(j),
                 Clash(named, c, e)
          PROVE  i = j
      <3>1. (named /\ D(i) \cap D(j) # {}) \/ {i} \cap {j} # {}
        <4> HIDE DEF f, g, S, D, L, racks
        <4> QED
          BY <2>2, AboutClash
      <3>2. CASE named /\ D(i) \cap D(j) # {}
        <4>1. Leaf(i) = Leaf(j) \/ IPUs(i, 1..hosts, r.haveIPU) \cap IPUs(j, 1..hosts, r.haveIPU) # {}
          BY <3>2, NamedDevices DEF IPUs
        <4>2. r.haveIPU => hosts < 100
          BY <1>1, <3>2 DEF TwoDigits
        <4>3. IPUs(i, 1..hosts, r.haveIPU) \cap IPUs(j, 1..hosts, r.haveIPU) # {} => r.haveIPU
          BY DEF IPUs
        <4>4. i \in Nat /\ j \in Nat
          OBVIOUS
        <4>5. Leaf(i) = Leaf(j) => i = j
          BY <4>4, NamedDevices
        <4> QED
          BY <4>1, <4>2, <4>3, <4>4, <4>5, IPUsApart
      <3> QED
        BY <3>1, <3>2
    <2>3. g = [i \in 1..m |-> g[i]] /\ \A i \in 1..m : C[i] = About2(i)
      OBVIOUS
    <2>4. \A i \in 1..m : g[i] \in Clear(named, C[i]) /\ C[i] \subseteq About(L, racks, Nat, kind)
      BY <2>1, <2>3
    <2>5. \A i, j \in 1..m : \A c \in C[i], e \in C[j] : Clash(named, c, e) => i = j
      BY <2>2, <2>3
    <2> HIDE DEF g, L, racks, C, About2
    <2> QED
      BY <2>3, <2>4, <2>5, ClearEach
  <1>4. S \cap L = {}
    <2>1. \A s \in 1..n : Spine(s).kind = "spine"
      BY NamedDevices
    <2>2. \A i \in 1..m : \A d \in D(i) : d.kind # "spine"
      BY NamedDevices DEF IPUs
    <2> QED
      BY <2>1, <2>2
  <1>5. PlainFabric(r) = FlattenSeq(f) \o FlattenSeq(g)
    BY <1>1 DEF PlainFabric, PlainSpines, ForEach
  <1>6. About(S \cup L, racks, Nat, kind) \subseteq CallsOf(r)
    <2>1. S \cup L \subseteq NamesOf(r) /\ racks \subseteq Nat \ {0}
      <3>1. r.haveIPU \in BOOLEAN /\ r.kind \in {"access", "plain"}
        BY DEF Buildable
      <3> QED
        BY <1>1, <3>1, FabricNames
    <2> HIDE DEF S, L, racks
    <2> QED
      BY <1>1, <2>1 DEF CallsOf, About, Making, Attaching
  <1> HIDE DEF f, g, S, L, racks
  <1>7. FlattenSeq(f) \o FlattenSeq(g)
            \in Clear(named, About(S \cup L, {} \cup racks, {} \cup Nat, kind))
    BY <1>2, <1>3, <1>4, ClearAbout
  <1>8. {} \cup racks = racks /\ {} \cup Nat = Nat
    OBVIOUS
  <1> QED
    BY <1>5, <1>6, <1>7, <1>8, ClearMore

LEMMA PairClear ==
    ASSUME NEW named, NEW r, Buildable(r), r.kind = "access", NEW p \in Nat,
           NEW leaf1, leaf1 = Leaf(10 * p + 1), NEW leaf2, leaf2 = Leaf(10 * p + 2),
           named => TwoDigits(r)
    PROVE  AccessPair(r, p, leaf1, leaf2)
               \in Clear(named, About({leaf1, leaf2} \cup IPUs(p, 1..r.hosts, r.haveIPU),
                                      {p}, Nat, NicKind(r.haveIPU)))
  <1>1. /\ r.spines \in Nat /\ r.spineTrunk \in Nat /\ r.hosts \in Nat /\ r.vms \in Nat
        /\ r.leafPorts \in Nat /\ r.haveIPU \in BOOLEAN /\ r.pairTrunk \in Nat
    BY DEF Buildable
  <1>2. PICK kind : kind = NicKind(r.haveIPU)
    OBVIOUS
  <1>3. /\ leaf1 \in Devices /\ leaf1.kind = "leaf" /\ leaf2 \in Devices /\ leaf2.kind = "leaf"
        /\ leaf1 # leaf2
    <2>1. 10 * p + 1 \in Nat /\ 10 * p + 2 \in Nat /\ 10 * p + 1 # 10 * p + 2
      OBVIOUS
    <2> QED
      BY <2>1, NamedDevices
  <1> DEFINE s1 == Switch(leaf1, r.leafPorts)
             s2 == Switch(leaf2, r.leafPorts)
             f == [s \in 1..r.spines |->
                      Trunk(Spine(s), leaf1, r.spineTrunk) \o Trunk(Spine(s), leaf2, r.spineTrunk)]
             pair == Trunk(leaf1, leaf2, r.pairTrunk)
             l1 == Latch(leaf1)
             l2 == Latch(leaf2)
             rack == RackHosts(p, leaf1, leaf2, r.hosts, r.haveIPU, r.vms)
             D == IPUs(p, 1..r.hosts, r.haveIPU)
             A == About({leaf1} \cup {leaf2}, {}, {}, kind)
  <1>4. AccessPair(r, p, leaf1, leaf2) = s1 \o s2 \o FlattenSeq(f) \o pair \o l1 \o l2 \o rack
    BY DEF AccessPair, PairUplinks, PairTrunks
  <1>5. s1 \o s2 \in Clear(named, A)
    <2>1. /\ s1 \in Clear(named, About({leaf1}, {}, {}, kind))
          /\ s2 \in Clear(named, About({leaf2}, {}, {}, kind))
      BY <1>1, <1>3, SwitchClear, QuietIsAbout
    <2>2. {leaf1} \cap {leaf2} = {} /\ {} \cap {} = {} /\ {} \cup {} = {}
      BY <1>3
    <2> HIDE DEF s1, s2
    <2>3. s1 \o s2 \in Clear(named, About({leaf1} \cup {leaf2}, {} \cup {}, {} \cup {}, kind))
      BY <2>1, <2>2, ClearAbout
    <2> QED
      BY <2>2, <2>3
  <1>6. FlattenSeq(f) \in Clear(named, Quiet)
    <2>1. ASSUME NEW s \in 1..r.spines
          PROVE  f[s] \in Clear(named, Quiet)
      <3>1. Spine(s) \in Devices
        BY NamedDevices
      <3>2. /\ Trunk(Spine(s), leaf1, r.spineTrunk) \in Clear(named, Quiet)
            /\ Trunk(Spine(s), leaf2, r.spineTrunk) \in Clear(named, Quiet)
        BY <1>1, <1>3, <3>1, TrunkClear
      <3>3. f[s] = Trunk(Spine(s), leaf1, r.spineTrunk) \o Trunk(Spine(s), leaf2, r.spineTrunk)
        OBVIOUS
      <3> HIDE DEF f
      <3> QED
        BY <3>2, <3>3, QuietBoth
    <2>2. f = [s \in 1..r.spines |-> f[s]]
      OBVIOUS
    <2> HIDE DEF f
    <2> QED
      BY <1>1, <2>1, <2>2, QuietEach
  <1>7. pair \in Clear(named, Quiet) /\ l1 \in Clear(named, Quiet) /\ l2 \in Clear(named, Quiet)
    BY <1>1, <1>3, TrunkClear, LatchClear
  <1>8. rack \in Clear(named, About(D, {p}, Nat, kind))
    <2>1. named /\ r.haveIPU => r.hosts < 100
      BY DEF TwoDigits
    <2> QED
      BY <1>1, <1>2, <1>3, <2>1, RackClear
  <1>9. ({leaf1} \cup {leaf2}) \cap D = {}
    BY <1>3, NamedDevices DEF IPUs
  <1>10. Quiet \subseteq A
    BY DEF About
  <1> HIDE DEF s1, s2, f, pair, l1, l2, rack, D, A
  <1>11. s1 \o s2 \o FlattenSeq(f) \o pair \o l1 \o l2 \in Clear(named, A)
    BY <1>5, <1>6, <1>7, <1>10, ClearThenQuiet
  <1>12. s1 \o s2 \o FlattenSeq(f) \o pair \o l1 \o l2 \o rack
             \in Clear(named, About({leaf1} \cup {leaf2} \cup D, {} \cup {p}, {} \cup Nat, kind))
    <2> QED
      BY <1>8, <1>9, <1>11, ClearAbout DEF A
  <1>13. {} \cup {p} = {p} /\ {} \cup Nat = Nat /\ {leaf1} \cup {leaf2} = {leaf1, leaf2}
    OBVIOUS
  <1> QED
    BY <1>2, <1>4, <1>12, <1>13 DEF D

LEMMA AccessClear ==
    ASSUME NEW named, NEW r, Buildable(r), r.kind = "access", named => TwoDigits(r)
    PROVE  AccessFabric(r) \in Clear(named, CallsOf(r))
  <1>0. PICK kind : kind = NicKindOf(r)
    OBVIOUS
  <1>1. PICK n \in Nat, m \in Nat, hosts \in Nat :
            n = r.spines /\ m = r.pairs /\ hosts = r.hosts /\ kind = NicKindOf(r)
    BY <1>0 DEF Buildable
  <1> DEFINE spine == [s \in 1..n |-> Spine(s)]
             f == [s \in 1..n |-> Switch(spine[s], r.spinePorts)]
             pair(p) == AccessPair(r, p, Leaf(10 * p + 1), Leaf(10 * p + 2))
             g == [p \in 1..m |-> pair(p)]
             D(p) == {Leaf(10 * p + 1), Leaf(10 * p + 2)} \cup IPUs(p, 1..hosts, r.haveIPU)
             About2(p) == About(D(p), {p}, Nat, kind)
             S == {spine[s] : s \in 1..n}
             L == UNION {D(p) : p \in 1..m}
             racks == 1..m
  <1>2. FlattenSeq(f) \in Clear(named, About(S, {}, {}, kind))
    <2>1. PICK ports \in Nat : ports = r.spinePorts
      BY DEF Buildable
    <2>2. \A s \in 1..n : spine[s] \in Devices
      BY NamedDevices
    <2>3. \A s, t \in 1..n : spine[s] = spine[t] => s = t
      BY NamedDevices
    <2> HIDE DEF spine
    <2>4. /\ f = [s \in 1..n |-> f[s]]
          /\ \A s \in 1..n : f[s] = Switch(spine[s], ports) /\ spine[s] \in S
      BY <2>1
    <2> HIDE DEF f, S
    <2> QED
      BY <2>2, <2>3, <2>4, SwitchesClear
  <1>3. FlattenSeq(g) \in Clear(named, About(L, racks, Nat, kind))
    <2> DEFINE C == [i \in 1..m |-> About2(i)]
    <2>1. ASSUME NEW i \in 1..m
          PROVE  g[i] \in Clear(named, About2(i)) /\ About2(i) \subseteq About(L, racks, Nat, kind)
      <3>1. i \in Nat /\ kind = NicKind(r.haveIPU)
        BY <1>1 DEF NicKindOf, NicKind, Buildable
      <3>2. pair(i) \in Clear(named, About2(i))
        <4>1. \A leaf1, leaf2 : leaf1 = Leaf(10 * i + 1) /\ leaf2 = Leaf(10 * i + 2) =>
                 AccessPair(r, i, leaf1, leaf2)
                    \in Clear(named, About({leaf1, leaf2} \cup IPUs(i, 1..r.hosts, r.haveIPU),
                                           {i}, Nat, NicKind(r.haveIPU)))
          BY ONLY <3>1, Buildable(r), r.kind = "access", named => TwoDigits(r), PairClear
        <4> QED
          BY <1>1, <3>1, <4>1
      <3>3. D(i) \subseteq L /\ {i} \subseteq racks
        OBVIOUS
      <3>4. g[i] = pair(i)
        OBVIOUS
      <3> HIDE DEF L, racks, D, g, pair
      <3>5. About2(i) \subseteq About(L, racks, Nat, kind)
        BY <3>3 DEF About, Making, Attaching
      <3> QED
        BY <3>2, <3>4, <3>5
    <2>2. ASSUME NEW i \in 1..m, NEW j \in 1..m, NEW c \in About2(i), NEW e \in About2(j),
                 Clash(named, c, e)
          PROVE  i = j
      <3>1. (named /\ D(i) \cap D(j) # {}) \/ {i} \cap {j} # {}
        <4> HIDE DEF f, g, S, D, L, racks
        <4> QED
          BY <2>2, AboutClash
      <3>2. CASE named /\ D(i) \cap D(j) # {}
        <4>1. i \in Nat /\ j \in Nat
          OBVIOUS
        <4>2. /\ \A d \in {Leaf(10 * i + 1), Leaf(10 * i + 2)} :
                     d.kind = "leaf" /\ (d.index = 10 * i + 1 \/ d.index = 10 * i + 2)
              /\ \A d \in {Leaf(10 * j + 1), Leaf(10 * j + 2)} :
                     d.kind = "leaf" /\ (d.index = 10 * j + 1 \/ d.index = 10 * j + 2)
          BY DEF Leaf, Device
        <4>3. \/ \E d \in {Leaf(10 * i + 1), Leaf(10 * i + 2)} : d \in {Leaf(10 * j + 1), Leaf(10 * j + 2)}
              \/ IPUs(i, 1..hosts, r.haveIPU) \cap IPUs(j, 1..hosts, r.haveIPU) # {}
          <5>1. \A q \in Nat : \A d \in IPUs(q, 1..hosts, r.haveIPU) : d.kind = "ipu"
            BY NamedDevices DEF IPUs
          <5> HIDE DEF f, g, pair, S, L, racks, spine
          <5> QED
            BY <3>2, <4>1, <4>2, <5>1
        <4>4. r.haveIPU => hosts < 100
          BY <1>1, <3>2 DEF TwoDigits
        <4>5. IPUs(i, 1..hosts, r.haveIPU) \cap IPUs(j, 1..hosts, r.haveIPU) # {} => r.haveIPU
          BY DEF IPUs
        <4>6. CASE \E d \in {Leaf(10 * i + 1), Leaf(10 * i + 2)} : d \in {Leaf(10 * j + 1), Leaf(10 * j + 2)}
          <5>1. \/ 10 * i + 1 = 10 * j + 1 \/ 10 * i + 1 = 10 * j + 2
                \/ 10 * i + 2 = 10 * j + 1 \/ 10 * i + 2 = 10 * j + 2
            BY ONLY <4>2, <4>6
          <5> QED
            BY ONLY <4>1, <5>1
        <4>7. CASE IPUs(i, 1..hosts, r.haveIPU) \cap IPUs(j, 1..hosts, r.haveIPU) # {}
          BY <4>1, <4>4, <4>5, <4>7, IPUsApart
        <4> QED
          BY <4>3, <4>6, <4>7
      <3> QED
        BY <3>1, <3>2
    <2>3. g = [i \in 1..m |-> g[i]] /\ \A i \in 1..m : C[i] = About2(i)
      OBVIOUS
    <2>4. \A i \in 1..m : g[i] \in Clear(named, C[i]) /\ C[i] \subseteq About(L, racks, Nat, kind)
      BY <2>1, <2>3
    <2>5. \A i, j \in 1..m : \A c \in C[i], e \in C[j] : Clash(named, c, e) => i = j
      BY <2>2, <2>3
    <2> HIDE DEF g, L, racks, C, About2
    <2> QED
      BY <2>3, <2>4, <2>5, ClearEach
  <1>4. S \cap L = {}
    <2>1. \A s \in 1..n : spine[s].kind = "spine"
      BY NamedDevices
    <2>2. \A i \in 1..m : \A d \in D(i) : d.kind # "spine"
      <3>1. \A i \in 1..m : 10 * i + 1 \in Nat /\ 10 * i + 2 \in Nat
        OBVIOUS
      <3> QED
        BY <3>1, NamedDevices DEF IPUs
    <2> HIDE DEF spine, D
    <2> QED
      BY <2>1, <2>2
  <1>5. AccessFabric(r) = FlattenSeq(f) \o FlattenSeq(g)
    <2>1. f = [s \in 1..n |-> Switch(Spine(s), r.spinePorts)]
      OBVIOUS
    <2> HIDE DEF f
    <2> QED
      BY <1>1, <2>1 DEF AccessFabric, ForEach, AccessPair, PairUplinks, PairTrunks
  <1>6. About(S \cup L, racks, Nat, kind) \subseteq CallsOf(r)
    <2>1. S \cup L \subseteq NamesOf(r) /\ racks \subseteq Nat \ {0}
      <3>1. r.haveIPU \in BOOLEAN /\ r.kind \in {"access", "plain"}
        BY DEF Buildable
      <3>2. \A i \in 1..m : 10 * i + 1 \in Nat \ {0} /\ 10 * i + 2 \in Nat \ {0}
        OBVIOUS
      <3>3. \A s \in 1..n : spine[s] \in NamesOf(r)
        BY <3>1, FabricNames
      <3>4. \A i \in 1..m : D(i) \subseteq NamesOf(r)
        BY <3>1, <3>2, FabricNames
      <3> HIDE DEF spine, D
      <3> QED
        BY <3>3, <3>4
    <2> HIDE DEF S, L, racks
    <2> QED
      BY <1>1, <2>1 DEF CallsOf, About, Making, Attaching
  <1> HIDE DEF f, g, S, L, racks
  <1>7. FlattenSeq(f) \o FlattenSeq(g)
            \in Clear(named, About(S \cup L, {} \cup racks, {} \cup Nat, kind))
    BY <1>2, <1>3, <1>4, ClearAbout
  <1>8. {} \cup racks = racks /\ {} \cup Nat = Nat
    OBVIOUS
  <1> QED
    BY <1>5, <1>6, <1>7, <1>8, ClearMore

LEMMA TierClear ==
    ASSUME NEW named, NEW r, Buildable(r), r.kind = "tier"
    PROVE  SuperSpineTier(r) \in Clear(named, CallsOf(r))
  <1>0. PICK kind : kind = NicKindOf(r)
    OBVIOUS
  <1>1. PICK n \in Nat, m \in Nat, spines \in Nat, ports \in Nat :
            /\ n = r.superspines /\ m = r.pods /\ spines = r.podSpines /\ ports = r.superspinePorts
            /\ kind = NicKindOf(r)
    BY <1>0 DEF Buildable
  <1> DEFINE top == [t \in 1..n |-> Superspine(t)]
             f == [t \in 1..n |-> Switch(Superspine(t), ports)]
             g == [pod \in 1..m |-> Pod(r, pod)]
  <1>2. FlattenSeq(f) \in Clear(named, About(NamesOf(r), {}, {}, kind))
    <2>1. \A t \in 1..n : t \in Nat /\ top[t] = Superspine(t)
      OBVIOUS
    <2>2. /\ f = [t \in 1..n |-> f[t]]
          /\ \A t \in 1..n : f[t] = Switch(top[t], ports)
      OBVIOUS
    <2> HIDE DEF top, f
    <2>3. \A t \in 1..n : top[t] \in Devices
      BY <2>1, NamedDevices
    <2>4. \A s, t \in 1..n : top[s] = top[t] => s = t
      <3>1. \A t \in 1..n : top[t].index = t
        <4>1. \A t \in 1..n : Superspine(t).index = t
          BY DEF Superspine, Device
        <4> QED
          BY <2>1, <4>1
      <3> QED
        BY <3>1
    <2>5. \A t \in 1..n : top[t] \in NamesOf(r)
      BY <2>1, <2>3, NamedDevices DEF NamesOf
    <2> QED
      BY <2>2, <2>3, <2>4, <2>5, SwitchesClear
  <1>3. ASSUME NEW pod \in 1..m, NEW s \in 1..spines
        PROVE  StartAt(Spine(s), 1) \o EndAt(Spine(s), ports)
               \o FlattenSeq([t \in 1..n |-> ExternalTrunk(Superspine(t), Spine(s), pod, 2)])
                   \in Clear(named, Quiet)
    <2> DEFINE h == [t \in 1..n |-> ExternalTrunk(Superspine(t), Spine(s), pod, 2)]
    <2>1. PICK start, end : /\ start = [call |-> "startAt", device |-> Spine(s), port |-> 1]
                            /\ end = [call |-> "endAt", device |-> Spine(s), port |-> ports]
      OBVIOUS
    <2>2. start \in Quiet /\ end \in Quiet
      <3>1. Spine(s) \in Devices
        BY NamedDevices
      <3>2. start \in Calls /\ start.call = "startAt" /\ end \in Calls /\ end.call = "endAt"
        BY <2>1, <3>1 DEF Calls
      <3> QED
        BY <3>2 DEF Quiet
    <2>3. StartAt(Spine(s), 1) \in Clear(named, Quiet) /\ EndAt(Spine(s), ports) \in Clear(named, Quiet)
      BY <2>1, <2>2, ClearOne DEF StartAt, EndAt
    <2>4. ASSUME NEW t \in 1..n
          PROVE  h[t] \in Clear(named, Quiet)
      <3>1. PICK c : c = [call |-> "createExternalLink", d1 |-> Superspine(t), d2 |-> Spine(s), pod |-> pod]
        OBVIOUS
      <3>2. Superspine(t) \in Devices /\ Spine(s) \in Devices /\ pod \in Nat
        BY NamedDevices
      <3>3. c \in Calls /\ c.call = "createExternalLink"
        BY <3>1, <3>2 DEF Calls
      <3>4. c \in Quiet
        BY <3>3 DEF Quiet
      <3>5. ExternalTrunk(Superspine(t), Spine(s), pod, 2) \in Seq(Quiet)
        BY <3>1, <3>4 DEF ExternalTrunk
      <3> QED
        BY <3>5, ClearQuiet
    <2>5. h = [t \in 1..n |-> h[t]]
      OBVIOUS
    <2> HIDE DEF h
    <2>6. FlattenSeq(h) \in Clear(named, Quiet)
      BY <2>4, <2>5, QuietEach
    <2>7. StartAt(Spine(s), 1) \o EndAt(Spine(s), ports) \o FlattenSeq(h) \in Clear(named, Quiet)
      BY <2>3, <2>6, QuietBoth
    <2> QED
      BY <2>7 DEF h
  <1>4. ASSUME NEW pod \in 1..m
        PROVE  Pod(r, pod) \in Clear(named, Quiet)
    <2> DEFINE h == [s \in 1..spines |->
                        StartAt(Spine(s), 1) \o EndAt(Spine(s), ports)
                        \o FlattenSeq([t \in 1..n |-> ExternalTrunk(Superspine(t), Spine(s), pod, 2)])]
    <2>1. h = [s \in 1..spines |-> h[s]] /\ \A s \in 1..spines : h[s] \in Clear(named, Quiet)
      BY <1>3
    <2>2. Pod(r, pod) = FlattenSeq(h) \o SavePod(pod)
      BY <1>1 DEF Pod, ForEach
    <2>3. SavePod(pod) \in Clear(named, Quiet)
      <3>1. PICK c : c = [call |-> "savePod", pod |-> pod]
        OBVIOUS
      <3>2. c \in Calls /\ c.call = "savePod"
        BY <3>1 DEF Calls
      <3>3. c \in Quiet
        BY <3>2 DEF Quiet
      <3> QED
        BY <3>1, <3>3, ClearOne DEF SavePod
    <2> HIDE DEF h
    <2>4. FlattenSeq(h) \in Clear(named, Quiet)
      BY <2>1, QuietEach
    <2> QED
      BY <2>2, <2>3, <2>4, QuietBoth
  <1>5. FlattenSeq(g) \in Clear(named, Quiet)
    <2>1. g = [pod \in 1..m |-> g[pod]] /\ \A pod \in 1..m : g[pod] \in Clear(named, Quiet)
      BY <1>4
    <2> HIDE DEF g
    <2> QED
      BY <2>1, QuietEach
  <1>6. SuperSpineTier(r) = FlattenSeq(f) \o FlattenSeq(g)
    BY <1>1 DEF SuperSpineTier, ForEach
  <1>7. About(NamesOf(r), {}, {}, kind) \subseteq CallsOf(r)
    BY <1>1 DEF CallsOf, About, Making, Attaching
  <1>8. Quiet \subseteq CallsOf(r)
    BY DEF CallsOf, About
  <1> HIDE DEF f, g
  <1>9. FlattenSeq(f) \in Clear(named, CallsOf(r))
    BY <1>2, <1>7, ClearMore
  <1> QED
    BY <1>5, <1>6, <1>8, <1>9, ClearThenQuiet

\* Nothing of the fixed fabric is asked for but that addresses are distinct.
Silent == About(Devices, {}, {}, "leaf")

LEMMA SilentEach ==
    ASSUME NEW named, ~ named, NEW n \in Nat, NEW seqs, seqs = [i \in 1..n |-> seqs[i]],
           \A i \in 1..n : seqs[i] \in Clear(named, Silent)
    PROVE  FlattenSeq(seqs) \in Clear(named, Silent)
  <1> DEFINE C == [i \in 1..n |-> Silent]
  <1>1. \A i \in 1..n : seqs[i] \in Clear(named, C[i]) /\ C[i] \subseteq Silent
    OBVIOUS
  <1>2. \A i, j \in 1..n : \A c \in C[i], e \in C[j] : Clash(named, c, e) => i = j
    BY DEF Clash, Silent, About, Quiet, Making, Attaching
  <1> HIDE DEF C
  <1> QED
    BY <1>1, <1>2, ClearEach

LEMMA SilentBoth ==
    ASSUME NEW named, ~ named, NEW a \in Clear(named, Silent), NEW b \in Clear(named, Silent)
    PROVE  a \o b \in Clear(named, Silent)
  <1>1. \A c \in Silent, e \in Silent : ~ Clash(named, c, e)
    BY DEF Clash, Silent, About, Quiet, Making, Attaching
  <1> QED
    BY <1>1, ClearThen

LEMMA SilentCalls ==
    ASSUME NEW named, ~ named, NEW d \in Devices, NEW n \in Nat
    PROVE  /\ Switch(d, n) \in Clear(named, Silent) /\ Latch(d) \in Clear(named, Silent)
           /\ \A e \in Devices : Trunk(d, e, n) \in Clear(named, Silent)
  <1>1. Making({d}) \subseteq Silent /\ Quiet \subseteq Silent
    BY DEF Silent, About, Making
  <1> QED
    BY <1>1, ClearMore, SwitchClear, LatchClear, TrunkClear

LEMMA FanSilent ==
    ASSUME NEW named, ~ named, NEW a, NEW b, NEW n \in Nat, NEW k \in Nat, NEW count \in Nat,
           \A i \in 1..n : a[i] \in Devices, \A j \in 1..k : b[j] \in Devices
    PROVE  Fan(a, b, n, k, count) \in Clear(named, Silent)
  <1>1. ASSUME NEW i \in 1..n
        PROVE  FanOut(a[i], b, k, count) \in Clear(named, Silent)
    <2> DEFINE f == [j \in 1..k |-> Trunk(a[i], b[j], count)]
    <2>1. f = [j \in 1..k |-> f[j]] /\ \A j \in 1..k : f[j] \in Clear(named, Silent)
      BY SilentCalls
    <2> HIDE DEF f
    <2>2. FlattenSeq(f) \in Clear(named, Silent)
      BY <2>1, SilentEach
    <2> QED
      BY <2>2 DEF FanOut, f
  <1> DEFINE g == [i \in 1..n |-> FanOut(a[i], b, k, count)]
  <1>2. g = [i \in 1..n |-> g[i]] /\ \A i \in 1..n : g[i] \in Clear(named, Silent)
    BY <1>1
  <1>3. Fan(a, b, n, k, count) = FlattenSeq(g)
    BY DEF Fan
  <1> HIDE DEF g
  <1> QED
    BY <1>2, <1>3, SilentEach

LEMMA RackPairClear ==
    ASSUME NEW named, ~ named, NEW rack \in Nat
    PROVE  RackPair(rack) \in Clear(named, About(Devices, {rack, rack + 1}, Nat, "leaf"))
  <1>1. PICK zero \in Nat, one \in Nat, two \in Nat, three \in Nat, four \in Nat, eight \in Nat, ten \in Nat,
             ports \in Nat, have \in BOOLEAN :
            /\ zero = 0 /\ one = 1 /\ two = 2 /\ three = 3 /\ four = 4 /\ eight = 8 /\ ten = 10
            /\ ports = 32 /\ have = FALSE
    OBVIOUS
  <1>2. PICK Leaves, Both, top : /\ Leaves = PairLeaves(rack) /\ Both = PairSpines(rack)
                                 /\ top = [t \in 1..2 |-> Superspine(t)]
    OBVIOUS
  <1>3. /\ \A s \in 1..2 : Both[s] \in Devices
        /\ \A l \in 1..4 : Leaves[l] \in Devices /\ Leaves[l].kind = "leaf"
        /\ \A t \in 1..2 : top[t] \in Devices
    <2>1. \A s \in 1..2 : Both[s] \in Devices
      BY <1>2, PairSpineDevice DEF PairSpineAt
    <2>2. \A l \in 1..4 : Leaves[l] \in Devices /\ Leaves[l].kind = "leaf"
      BY <1>2, PairLeafDevice DEF PairLeafAt
    <2> QED
      BY <1>2, <2>1, <2>2, NamedDevices
  <1> DEFINE a1 == [s \in 1..2 |-> Switch(Both[s], 32)]
             a3 == [l \in 1..4 |-> Switch(Leaves[l], 32)]
             a7 == [l \in 1..4 |-> Latch(Leaves[l])]
  <1>4. PICK b1, b2, b3, b4, b5, b6, b7, b8, b9 :
            /\ b1 = FlattenSeq(a1) /\ b2 = Fan(Both, top, two, two, eight)
            /\ b3 = FlattenSeq(a3) /\ b4 = Fan(Leaves, Both, four, two, four)
            /\ b5 = Trunk(Leaves[one], Leaves[two], two) /\ b6 = Trunk(Leaves[three], Leaves[four], two)
            /\ b7 = FlattenSeq(a7)
            /\ b8 = RackHosts(rack, Leaves[one], Leaves[two], ten, have, zero)
            /\ b9 = RackHosts(rack + one, Leaves[three], Leaves[four], ten, have, zero)
    OBVIOUS
  <1>5. RackPair(rack) = b1 \o b2 \o b3 \o b4 \o b5 \o b6 \o b7 \o b8 \o b9
    <2>1. b2 = FlattenSeq([s \in 1..2 |-> FlattenSeq([t \in 1..2 |-> Trunk(Both[s], Superspine(t), 8)])])
      BY <1>1, <1>2, <1>4 DEF Fan, FanOut
    <2>2. b4 = FlattenSeq([l \in 1..4 |-> FlattenSeq([s \in 1..2 |-> Trunk(Leaves[l], Both[s], 4)])])
      BY <1>1, <1>4 DEF Fan, FanOut
    <2>3. /\ b1 = FlattenSeq([s \in 1..2 |-> Switch(Both[s], 32)])
          /\ b3 = FlattenSeq([l \in 1..4 |-> Switch(Leaves[l], 32)])
          /\ b7 = FlattenSeq([l \in 1..4 |-> Latch(Leaves[l])])
      BY <1>4
    <2>4. b5 = Trunk(Leaves[1], Leaves[2], 2) /\ b6 = Trunk(Leaves[3], Leaves[4], 2)
      BY <1>1, <1>4
    <2>5. /\ b8 = RackHosts(rack, Leaves[1], Leaves[2], 10, FALSE, 0)
          /\ b9 = RackHosts(rack + 1, Leaves[3], Leaves[4], 10, FALSE, 0)
      BY <1>1, <1>4
    <2> HIDE DEF a1, a3, a7
    <2> QED
      BY <1>2, <2>1, <2>2, <2>3, <2>4, <2>5 DEF RackPair, ForEach, PairLeaves, PairSpines
  <1>6. /\ b1 \in Clear(named, Silent) /\ b3 \in Clear(named, Silent) /\ b7 \in Clear(named, Silent)
    <2>1. /\ a1 = [s \in 1..two |-> a1[s]] /\ a3 = [l \in 1..four |-> a3[l]]
          /\ a7 = [l \in 1..four |-> a7[l]]
          /\ \A s \in 1..two : a1[s] = Switch(Both[s], ports)
          /\ \A l \in 1..four : a3[l] = Switch(Leaves[l], ports) /\ a7[l] = Latch(Leaves[l])
      BY <1>1
    <2>2. /\ \A s \in 1..two : Both[s] \in Devices
          /\ \A l \in 1..four : Leaves[l] \in Devices
      BY <1>1, <1>3
    <2> HIDE DEF a1, a3, a7
    <2>3. /\ \A s \in 1..two : a1[s] \in Clear(named, Silent)
          /\ \A l \in 1..four : a3[l] \in Clear(named, Silent) /\ a7[l] \in Clear(named, Silent)
      BY <2>1, <2>2, SilentCalls
    <2> QED
      BY <1>4, <2>1, <2>3, SilentEach
  <1>7. b2 \in Clear(named, Silent) /\ b4 \in Clear(named, Silent)
    <2>1. /\ \A s \in 1..two : Both[s] \in Devices /\ top[s] \in Devices
          /\ \A l \in 1..four : Leaves[l] \in Devices
      BY <1>1, <1>3
    <2> HIDE DEF a1, a3, a7
    <2> QED
      BY <1>4, <2>1, FanSilent
  <1>8. one \in 1..4 /\ two \in 1..4 /\ three \in 1..4 /\ four \in 1..4
    BY <1>1
  <1>9. b5 \in Clear(named, Silent) /\ b6 \in Clear(named, Silent)
    <2> HIDE DEF a1, a3, a7
    <2> QED
      BY <1>3, <1>4, <1>8, SilentCalls
  <1>10. ASSUME NEW k \in Nat, NEW i \in 1..4, NEW j \in 1..4
         PROVE  RackHosts(k, Leaves[i], Leaves[j], ten, have, zero)
                    \in Clear(named, About(Devices, {k}, Nat, "leaf"))
    <2>1. /\ Leaves[i] \in Devices /\ Leaves[i].kind = "leaf"
          /\ Leaves[j] \in Devices /\ Leaves[j].kind = "leaf"
      BY <1>3
    <2> HIDE DEF a1, a3, a7
    <2>2. PICK s : s = RackHosts(k, Leaves[i], Leaves[j], ten, have, zero)
      OBVIOUS
    <2>3. s \in Clear(named, About(IPUs(k, 1..ten, have), {k}, Nat, NicKind(have)))
      BY <2>1, <2>2, RackClear
    <2>4. NicKind(have) = "leaf" /\ IPUs(k, 1..ten, have) \subseteq Devices
      BY <1>1 DEF NicKind, IPUs
    <2>5. About(IPUs(k, 1..ten, have), {k}, Nat, NicKind(have)) \subseteq About(Devices, {k}, Nat, "leaf")
      BY <2>4 DEF About, Making, Attaching
    <2>6. PICK A, B : /\ A = About(IPUs(k, 1..ten, have), {k}, Nat, NicKind(have))
                       /\ B = About(Devices, {k}, Nat, "leaf")
      OBVIOUS
    <2>7. s \in Clear(named, A) /\ A \subseteq B
      BY <2>3, <2>5, <2>6
    <2>8. s \in Clear(named, B)
      BY ONLY <2>7, ClearMore
    <2> QED
      BY <2>2, <2>6, <2>8
  <1>11. /\ b8 \in Clear(named, About(Devices, {rack}, Nat, "leaf"))
         /\ b9 \in Clear(named, About(Devices, {rack + one}, Nat, "leaf"))
    <2>1. rack + one \in Nat
      OBVIOUS
    <2> HIDE DEF a1, a3, a7
    <2> QED
      BY <1>4, <1>8, <1>10, <2>1
  <1> HIDE DEF a1, a3, a7
  <1>12. b1 \o b2 \o b3 \o b4 \o b5 \o b6 \o b7 \in Clear(named, Silent)
    <2>1. b1 \o b2 \in Clear(named, Silent)
      BY <1>6, <1>7, SilentBoth
    <2>2. b1 \o b2 \o b3 \in Clear(named, Silent)
      BY <1>6, <2>1, SilentBoth
    <2>3. b1 \o b2 \o b3 \o b4 \in Clear(named, Silent)
      BY <1>7, <2>2, SilentBoth
    <2>4. b1 \o b2 \o b3 \o b4 \o b5 \o b6 \in Clear(named, Silent)
      BY <1>9, <2>3, SilentBoth
    <2> QED
      BY <1>6, <2>4, SilentBoth
  <1>13. PICK s : s = b1 \o b2 \o b3 \o b4 \o b5 \o b6 \o b7
    OBVIOUS
  <1>14. PICK next : next = rack + one /\ next = rack + 1 /\ next # rack
    BY <1>1
  <1>15. s \o b8 \in Clear(named, About(Devices, {rack}, Nat, "leaf"))
    <2>1. s \in Clear(named, About(Devices, {}, {}, "leaf"))
      BY <1>12, <1>13 DEF Silent
    <2>2. s \o b8 \in Clear(named, About(Devices \cup Devices, {} \cup {rack}, {} \cup Nat, "leaf"))
      BY <1>11, <2>1, ClearAbout
    <2>3. Devices \cup Devices = Devices /\ {} \cup {rack} = {rack} /\ {} \cup Nat = Nat
      OBVIOUS
    <2> QED
      BY <2>2, <2>3
  <1>16. s \o b8 \o b9 \in Clear(named, About(Devices, {rack, next}, Nat, "leaf"))
    <2>1. {rack} \cap {next} = {}
      BY <1>14
    <2>2. s \o b8 \o b9 \in Clear(named, About(Devices \cup Devices, {rack} \cup {next}, Nat \cup Nat, "leaf"))
      BY <1>11, <1>14, <1>15, <2>1, ClearAbout
    <2>3. Devices \cup Devices = Devices /\ {rack} \cup {next} = {rack, next} /\ Nat \cup Nat = Nat
      OBVIOUS
    <2> QED
      BY <2>2, <2>3
  <1> QED
    BY <1>5, <1>13, <1>14, <1>16

LEMMA FixedClear ==
    ASSUME NEW named, ~ named, NEW r, r.kind = "fixed"
    PROVE  FixedFabric \in Clear(named, CallsOf(r))
  <1>1. PICK one \in Nat, two \in Nat, three \in Nat, ports \in Nat :
            one = 1 /\ two = 2 /\ three = 3 /\ ports = 32
    OBVIOUS
  <1>2. PICK a, b, c : /\ a = FlattenSeq([t \in 1..2 |-> Switch(Superspine(t), 32)])
                       /\ b = RackPair(one) /\ c = RackPair(three)
    OBVIOUS
  <1>3. FixedFabric = a \o b \o c
    BY <1>1, <1>2 DEF FixedFabric, ForEach
  <1>4. a \in Clear(named, Silent)
    <2> DEFINE f == [t \in 1..2 |-> Switch(Superspine(t), 32)]
    <2>1. f = [t \in 1..two |-> f[t]] /\ \A t \in 1..two : f[t] = Switch(Superspine(t), ports) /\ t \in Nat
      BY <1>1
    <2>2. a = FlattenSeq(f)
      BY <1>2
    <2> HIDE DEF f
    <2>3. \A t \in 1..two : f[t] \in Clear(named, Silent)
      BY <2>1, NamedDevices, SilentCalls
    <2> QED
      BY <2>1, <2>2, <2>3, SilentEach
  <1>5. PICK R, T : R = {one, one + 1} /\ T = {three, three + 1}
    OBVIOUS
  <1>6. R \cap T = {} /\ R \subseteq Nat \ {0} /\ T \subseteq Nat \ {0}
    BY <1>1, <1>5
  <1>7. /\ b \in Clear(named, About(Devices, R, Nat, "leaf"))
        /\ c \in Clear(named, About(Devices, T, Nat, "leaf"))
    BY <1>2, <1>5, RackPairClear
  <1>8. a \o b \in Clear(named, About(Devices, R, Nat, "leaf"))
    <2>1. a \o b \in Clear(named, About(Devices \cup Devices, {} \cup R, {} \cup Nat, "leaf"))
      BY <1>4, <1>7, ClearAbout DEF Silent
    <2>2. Devices \cup Devices = Devices /\ {} \cup R = R /\ {} \cup Nat = Nat
      OBVIOUS
    <2> QED
      BY <2>1, <2>2
  <1>9. a \o b \o c \in Clear(named, About(Devices \cup Devices, R \cup T, Nat \cup Nat, "leaf"))
    BY <1>6, <1>7, <1>8, ClearAbout
  <1>10. About(Devices \cup Devices, R \cup T, Nat \cup Nat, "leaf") \subseteq CallsOf(r)
    <2>1. NamesOf(r) = Devices /\ NicKindOf(r) = "leaf"
      BY DEF NamesOf, NicKindOf, NicKind
    <2> QED
      BY <1>6, <2>1 DEF CallsOf, About, Making, Attaching
  <1> QED
    BY <1>3, <1>9, <1>10, ClearMore

\* No recipe gives an address twice, or a name where devices have one each.
Named(r) == r.kind # "fixed" /\ TwoDigits(r)

LEMMA CallsAreClear ==
    ASSUME NEW r, Buildable(r)
    PROVE  GeneratorCalls(r) \in Clear(Named(r), CallsOf(r))
  <1>1. CASE r.kind = "fixed"
    BY <1>1, FixedClear DEF GeneratorCalls, Named
  <1>2. CASE r.kind = "tier"
    BY <1>2, TierClear DEF GeneratorCalls
  <1>3. CASE r.kind = "access"
    BY <1>3, AccessClear DEF GeneratorCalls, Named
  <1>4. CASE r.kind = "plain"
    BY <1>4, PlainClear DEF GeneratorCalls, Named
  <1> QED
    BY <1>1, <1>2, <1>3, <1>4 DEF Buildable

------------------------------------------------------------------------------
\* The pods of a tier, one after the other.

TierCalls == {c \in Calls : c.call \in {"createSwitch", "startAt", "endAt", "createExternalLink", "savePod"}}
OfPod(c) == c.call \in {"createExternalLink", "savePod"}
Saving(pod) == [call |-> "savePod", pod |-> pod]

\* Pods come in their order, and nothing of a pod comes after it was saved.
Precedes(c, e) == c.pod <= e.pod /\ (c.call = "savePod" => c.pod < e.pod)

\* Sequences that link the pods from lo to hi and save each of them.
Passing(lo, hi) ==
    {cs \in Seq(TierCalls) :
        /\ \A i \in 1..Len(cs) : OfPod(cs[i]) => cs[i].pod \in lo..hi
        /\ \A i, j \in 1..Len(cs) : i < j /\ OfPod(cs[i]) /\ OfPod(cs[j]) => Precedes(cs[i], cs[j])
        /\ \A pod \in lo..hi : \E i \in 1..Len(cs) : cs[i] = Saving(pod)}

\* The links of one pod.
Linking(pod) ==
    {c \in TierCalls : c.call # "savePod" /\ (c.call = "createExternalLink" => c.pod = pod)}

LEMMA PassingConcat ==
    ASSUME NEW lo \in Nat, NEW k \in Nat, NEW hi \in Nat, lo <= k + 1, k <= hi,
           NEW a \in Passing(lo, k), NEW b \in Passing(k + 1, hi)
    PROVE  a \o b \in Passing(lo, hi)
  <1>1. a \in Seq(TierCalls) /\ b \in Seq(TierCalls)
    BY DEF Passing
  <1>2. PICK s : s = a \o b
    OBVIOUS
  <1>3. PICK n \in Nat, m \in Nat : n = Len(a) /\ m = Len(b)
    BY <1>1
  <1>4. /\ s \in Seq(TierCalls) /\ Len(s) = n + m
        /\ \A i \in 1..Len(s) : (i \in 1..n /\ s[i] = a[i]) \/ (i - n \in 1..m /\ s[i] = b[i - n])
        /\ \A i \in 1..n : s[i] = a[i] /\ i \in 1..Len(s)
        /\ \A i \in 1..m : s[n + i] = b[i] /\ n + i \in 1..Len(s)
    <2>1. s \in Seq(TierCalls) /\ Len(s) = n + m
      BY <1>1, <1>2, <1>3
    <2>2. \A i \in 1..n : s[i] = a[i] /\ i \in 1..Len(s)
      BY <1>1, <1>2, <1>3, <2>1
    <2>3. \A i \in 1..m : s[n + i] = b[i] /\ n + i \in 1..Len(s)
      BY <1>1, <1>2, <1>3, <2>1
    <2>4. \A i \in 1..Len(s) : (i \in 1..n /\ s[i] = a[i]) \/ (i - n \in 1..m /\ s[i] = b[i - n])
      BY <1>1, <1>2, <1>3, <2>1
    <2> QED
      BY <2>1, <2>2, <2>3, <2>4
  <1>5. /\ \A i \in 1..n : OfPod(a[i]) => a[i].pod \in lo..k
        /\ \A i, j \in 1..n : i < j /\ OfPod(a[i]) /\ OfPod(a[j]) => Precedes(a[i], a[j])
        /\ \A pod \in lo..k : \E i \in 1..n : a[i] = Saving(pod)
    BY <1>3 DEF Passing
  <1>6. /\ \A i \in 1..m : OfPod(b[i]) => b[i].pod \in k + 1..hi
        /\ \A i, j \in 1..m : i < j /\ OfPod(b[i]) /\ OfPod(b[j]) => Precedes(b[i], b[j])
        /\ \A pod \in k + 1..hi : \E i \in 1..m : b[i] = Saving(pod)
    BY <1>3 DEF Passing
  <1>7. ASSUME NEW i \in 1..Len(s), OfPod(s[i])
        PROVE  s[i].pod \in lo..hi
    <2>1. CASE i \in 1..n /\ s[i] = a[i]
      BY <1>5, <1>7, <2>1
    <2>2. CASE i - n \in 1..m /\ s[i] = b[i - n]
      BY <1>6, <1>7, <2>2
    <2> QED
      BY <1>4, <2>1, <2>2
  <1>8. ASSUME NEW i \in 1..Len(s), NEW j \in 1..Len(s), i < j, OfPod(s[i]), OfPod(s[j])
        PROVE  Precedes(s[i], s[j])
    <2>1. CASE (i \in 1..n /\ s[i] = a[i]) /\ (j \in 1..n /\ s[j] = a[j])
      BY <1>5, <1>8, <2>1
    <2>2. CASE (i \in 1..n /\ s[i] = a[i]) /\ (j - n \in 1..m /\ s[j] = b[j - n])
      <3>1. s[i].pod \in lo..k /\ s[j].pod \in k + 1..hi
        BY <1>5, <1>6, <1>8, <2>2
      <3>2. s[i].pod < s[j].pod
        BY <3>1
      <3> QED
        BY <3>1, <3>2 DEF Precedes
    <2>3. CASE (i - n \in 1..m /\ s[i] = b[i - n]) /\ (j \in 1..n /\ s[j] = a[j])
      BY <1>8, <2>3
    <2>4. CASE (i - n \in 1..m /\ s[i] = b[i - n]) /\ (j - n \in 1..m /\ s[j] = b[j - n])
      <3>1. i - n < j - n
        BY <1>8
      <3> QED
        BY <1>6, <1>8, <2>4, <3>1
    <2> QED
      BY <1>4, <2>1, <2>2, <2>3, <2>4
  <1>9. ASSUME NEW pod \in lo..hi
        PROVE  \E i \in 1..Len(s) : s[i] = Saving(pod)
    <2>1. CASE pod \in lo..k
      BY <1>4, <1>5, <2>1
    <2>2. CASE pod \in k + 1..hi
      BY <1>4, <1>6, <2>2
    <2> QED
      BY <2>1, <2>2
  <1> QED
    BY <1>2, <1>4, <1>7, <1>8, <1>9 DEF Passing

\* A pod is saved after its links.
LEMMA LinkingThenSave ==
    ASSUME NEW pod \in Nat, NEW a \in Seq(Linking(pod))
    PROVE  a \o SavePod(pod) \in Passing(pod, pod)
  <1>1. PICK c : c = Saving(pod)
    OBVIOUS
  <1>2. c \in TierCalls /\ c.call = "savePod" /\ c.pod = pod
    BY <1>1 DEF TierCalls, Calls, Saving
  <1>3. PICK s : s = a \o SavePod(pod)
    OBVIOUS
  <1>4. SavePod(pod) = <<c>>
    BY <1>1 DEF SavePod, Saving
  <1>5. s = Append(a, c)
    <2>1. PICK S : S = Linking(pod) \cup {c}
      OBVIOUS
    <2>2. a \in Seq(S) /\ c \in S
      BY <2>1, SeqSubset
    <2> QED
      BY <1>3, <1>4, <2>2
  <1>6. PICK n \in Nat : n = Len(a)
    OBVIOUS
  <1>7. /\ Linking(pod) \subseteq TierCalls
        /\ \A e \in Linking(pod) : OfPod(e) => e.call # "savePod" /\ e.pod = pod
    BY DEF Linking, OfPod
  <1>8. /\ s \in Seq(TierCalls) /\ Len(s) = n + 1 /\ s[n + 1] = c
        /\ \A i \in 1..n : s[i] \in Linking(pod)
    <2>1. a \in Seq(TierCalls) /\ \A i \in 1..n : a[i] \in Linking(pod)
      BY <1>6, <1>7, SeqSubset
    <2> QED
      BY <1>2, <1>5, <1>6, <2>1
  <1>9. \A i \in 1..Len(s) : i \in 1..n \/ i = n + 1
    BY <1>8
  <1>10. \A i \in 1..Len(s) : OfPod(s[i]) => s[i].pod = pod
    BY <1>2, <1>7, <1>8, <1>9
  <1>11. ASSUME NEW i \in 1..Len(s), NEW j \in 1..Len(s), i < j, OfPod(s[i]), OfPod(s[j])
         PROVE  Precedes(s[i], s[j])
    <2>1. i \in 1..n
      BY <1>8, <1>11
    <2>2. s[i].call # "savePod" /\ s[i].pod = pod /\ s[j].pod = pod
      BY <1>7, <1>8, <1>10, <1>11, <2>1
    <2> QED
      BY <2>2 DEF Precedes
  <1>12. \A i \in 1..Len(s) : OfPod(s[i]) => s[i].pod \in pod..pod
    BY <1>10
  <1>13. \A p \in pod..pod : \E i \in 1..Len(s) : s[i] = Saving(p)
    <2>1. n + 1 \in 1..Len(s)
      BY <1>8
    <2> QED
      BY <1>1, <1>8, <2>1
  <1> QED
    BY <1>3, <1>8, <1>11, <1>12, <1>13 DEF Passing

\* Sequences of pods, one after the other.
LEMMA PassingEach ==
    ASSUME NEW n \in Nat, NEW seqs, seqs = [i \in 1..n |-> seqs[i]],
           \A i \in 1..n : seqs[i] \in Passing(i, i)
    PROVE  FlattenSeq(seqs) \in Passing(1, n)
  <1> DEFINE P == [m \in 0..n |-> Passing(1, m)]
  <1>1. seqs \in Seq(Seq(TierCalls)) /\ Len(seqs) = n
    <2>1. \A i \in 1..n : seqs[i] \in Seq(TierCalls)
      BY DEF Passing
    <2>2. seqs \in [1..n -> Seq(TierCalls)]
      BY <2>1
    <2> QED
      BY <2>2
  <1>2. <<>> \in P[0]
    <2>1. <<>> \in Passing(1, 0)
      BY DEF Passing
    <2> QED
      BY <2>1
  <1>3. ASSUME NEW i \in 1..Len(seqs), NEW a \in P[i - 1] \cap Seq(TierCalls)
        PROVE  a \o seqs[i] \in P[i]
    <2>1. PICK k \in Nat : k = i - 1
      OBVIOUS
    <2>2. i = k + 1 /\ i \in 1..n /\ i \in 0..n /\ k \in 0..n
      BY <1>1, <2>1
    <2>3. a \in Passing(1, k) /\ seqs[i] \in Passing(k + 1, k + 1)
      BY <2>1, <2>2
    <2>4. 1 \in Nat /\ k + 1 \in Nat /\ 1 <= k + 1 /\ k <= k + 1
      OBVIOUS
    <2>5. PICK b : b = seqs[i]
      OBVIOUS
    <2>6. b \in Passing(k + 1, k + 1)
      BY <2>3, <2>5
    <2>7. a \o b \in Passing(1, k + 1)
      BY ONLY k \in Nat, <2>3, <2>4, <2>6, PassingConcat
    <2> QED
      BY <2>2, <2>5, <2>7
  <1>4. FlattenSeq(seqs) \in P[Len(seqs)] \cap Seq(TierCalls)
    <2> HIDE DEF P
    <2> QED
      BY <1>1, <1>2, <1>3, FlattenInduction
  <1>5. n \in 0..n
    OBVIOUS
  <1> QED
    BY <1>1, <1>4, <1>5

\* The tier goes through its pods.
LEMMA TierPasses ==
    ASSUME NEW r, Buildable(r), r.kind = "tier"
    PROVE  SuperSpineTier(r) \in Passing(1, r.pods)
  <1>1. PICK n \in Nat, m \in Nat, spines \in Nat, ports \in Nat :
            n = r.superspines /\ m = r.pods /\ spines = r.podSpines /\ ports = r.superspinePorts
    BY DEF Buildable
  <1> DEFINE f == [t \in 1..n |-> Switch(Superspine(t), ports)]
             g == [pod \in 1..m |-> Pod(r, pod)]
  <1>2. FlattenSeq(f) \in Passing(1, 0)
    <2>1. PICK C : C = {c \in TierCalls : c.call = "createSwitch"}
      OBVIOUS
    <2>2. ASSUME NEW t \in 1..n
          PROVE  f[t] \in Seq(C)
      <3>1. PICK c : c = [call |-> "createSwitch", device |-> Superspine(t), portCount |-> ports]
        OBVIOUS
      <3>2. Superspine(t) \in Devices
        BY NamedDevices
      <3>3. c \in TierCalls /\ c.call = "createSwitch"
        BY <3>1, <3>2 DEF TierCalls, Calls
      <3> QED
        BY <2>1, <3>1, <3>3 DEF Switch
    <2>3. f = [t \in 1..n |-> f[t]]
      OBVIOUS
    <2> HIDE DEF f
    <2>4. FlattenSeq(f) \in Seq(C)
      BY <2>2, <2>3, FlattenType
    <2>5. PICK s \in Seq(C) : s = FlattenSeq(f)
      BY <2>4
    <2>6. s \in Seq(TierCalls)
      BY <2>1, <2>5, SeqSubset
    <2>7. \A i \in 1..Len(s) : ~ OfPod(s[i])
      <3>1. \A c \in C : ~ OfPod(c)
        BY <2>1 DEF OfPod
      <3> QED
        BY <2>5, <3>1
    <2>8. 1..0 = {}
      OBVIOUS
    <2>9. s \in Passing(1, 0)
      BY <2>6, <2>7, <2>8 DEF Passing
    <2> QED
      BY <2>5, <2>9
  <1>3. ASSUME NEW pod \in 1..m, NEW s \in 1..spines
        PROVE  StartAt(Spine(s), 1) \o EndAt(Spine(s), ports)
               \o FlattenSeq([t \in 1..n |-> ExternalTrunk(Superspine(t), Spine(s), pod, 2)])
                   \in Seq(Linking(pod))
    <2> DEFINE h == [t \in 1..n |-> ExternalTrunk(Superspine(t), Spine(s), pod, 2)]
    <2>0. Spine(s) \in Devices
      BY NamedDevices
    <2>1. PICK start, end : /\ start = [call |-> "startAt", device |-> Spine(s), port |-> 1]
                            /\ end = [call |-> "endAt", device |-> Spine(s), port |-> ports]
      OBVIOUS
    <2>2. start \in Calls /\ start.call = "startAt" /\ end \in Calls /\ end.call = "endAt"
      BY <2>0, <2>1 DEF Calls
    <2>3. start \in Linking(pod) /\ end \in Linking(pod)
      BY <2>2 DEF Linking, TierCalls
    <2>4. StartAt(Spine(s), 1) \in Seq(Linking(pod)) /\ EndAt(Spine(s), ports) \in Seq(Linking(pod))
      BY <2>1, <2>3 DEF StartAt, EndAt
    <2>5. ASSUME NEW t \in 1..n
          PROVE  h[t] \in Seq(Linking(pod))
      <3>1. PICK c : c = [call |-> "createExternalLink", d1 |-> Superspine(t), d2 |-> Spine(s), pod |-> pod]
        OBVIOUS
      <3>2. Superspine(t) \in Devices /\ Spine(s) \in Devices /\ pod \in Nat
        BY NamedDevices
      <3>3. c \in Calls /\ c.call = "createExternalLink" /\ c.pod = pod
        BY <3>1, <3>2 DEF Calls
      <3>4. c \in Linking(pod)
        BY <3>3 DEF Linking, TierCalls
      <3>5. ExternalTrunk(Superspine(t), Spine(s), pod, 2) \in Seq(Linking(pod))
        BY <3>1, <3>4 DEF ExternalTrunk
      <3> QED
        BY <3>5
    <2>6. h = [t \in 1..n |-> h[t]]
      OBVIOUS
    <2> HIDE DEF h
    <2>7. FlattenSeq(h) \in Seq(Linking(pod))
      BY <2>5, <2>6, FlattenType
    <2>8. \A a, b, c \in Seq(Linking(pod)) : a \o b \o c \in Seq(Linking(pod))
      OBVIOUS
    <2>9. StartAt(Spine(s), 1) \o EndAt(Spine(s), ports) \o FlattenSeq(h) \in Seq(Linking(pod))
      BY <2>4, <2>7, <2>8
    <2> QED
      BY <2>9 DEF h
  <1>4. ASSUME NEW pod \in 1..m
        PROVE  Pod(r, pod) \in Passing(pod, pod)
    <2> DEFINE h == [s \in 1..spines |->
                        StartAt(Spine(s), 1) \o EndAt(Spine(s), ports)
                        \o FlattenSeq([t \in 1..n |-> ExternalTrunk(Superspine(t), Spine(s), pod, 2)])]
    <2>1. h = [s \in 1..spines |-> h[s]] /\ \A s \in 1..spines : h[s] \in Seq(Linking(pod))
      BY <1>3
    <2>2. Pod(r, pod) = FlattenSeq(h) \o SavePod(pod)
      BY <1>1 DEF Pod, ForEach
    <2> HIDE DEF h
    <2>3. FlattenSeq(h) \in Seq(Linking(pod))
      BY <2>1, FlattenType
    <2> QED
      BY <2>2, <2>3, LinkingThenSave
  <1>5. FlattenSeq(g) \in Passing(1, m)
    <2>1. g = [pod \in 1..m |-> g[pod]] /\ \A pod \in 1..m : g[pod] \in Passing(pod, pod)
      BY <1>4
    <2> HIDE DEF g
    <2> QED
      BY <2>1, PassingEach
  <1>6. SuperSpineTier(r) = FlattenSeq(f) \o FlattenSeq(g)
    BY <1>1 DEF SuperSpineTier, ForEach
  <1> HIDE DEF f, g
  <1>7. PICK a, b : a = FlattenSeq(f) /\ b = FlattenSeq(g)
    OBVIOUS
  <1>8. a \in Passing(1, 0) /\ b \in Passing(0 + 1, m)
    BY <1>2, <1>5, <1>7
  <1>9. a \o b \in Passing(1, m)
    BY <1>8, PassingConcat
  <1> QED
    BY <1>1, <1>6, <1>7, <1>9

\* The first call and the rest, before and after a pod is saved.
LEMMA PassingTail ==
    ASSUME NEW lo \in Nat, NEW hi \in Nat, NEW cs \in Passing(lo, hi), cs # <<>>,
           NEW c, c = Head(cs), NEW rest, rest = Tail(cs)
    PROVE  /\ c \in TierCalls
           /\ OfPod(c) => c.pod = lo /\ lo <= hi
           /\ c.call # "savePod" => rest \in Passing(lo, hi)
           /\ c.call = "savePod" => rest \in Passing(lo + 1, hi)
  <1>1. cs \in Seq(TierCalls)
    BY DEF Passing
  <1>2. PICK n \in Nat : n = Len(rest)
    BY <1>1
  <1>3. /\ c \in TierCalls /\ rest \in Seq(TierCalls) /\ Len(cs) = n + 1 /\ c = cs[1]
        /\ 1 \in 1..Len(cs)
        /\ \A i \in 1..n : rest[i] = cs[i + 1] /\ i + 1 \in 1..Len(cs)
    BY <1>1, <1>2
  <1>4. \A i \in 1..Len(cs) : i # 1 => i - 1 \in 1..n /\ cs[i] = rest[i - 1]
    BY <1>3
  <1>5. /\ \A i \in 1..Len(cs) : OfPod(cs[i]) => cs[i].pod \in lo..hi
        /\ \A i, j \in 1..Len(cs) : i < j /\ OfPod(cs[i]) /\ OfPod(cs[j]) => Precedes(cs[i], cs[j])
        /\ \A pod \in lo..hi : \E i \in 1..Len(cs) : cs[i] = Saving(pod)
    BY DEF Passing
  <1>6. \A pod : OfPod(Saving(pod)) /\ Saving(pod).pod = pod /\ Saving(pod).call = "savePod"
    BY DEF OfPod, Saving
  <1>7. ASSUME OfPod(c)
        PROVE  c.pod = lo /\ lo <= hi
    <2>1. c.pod \in lo..hi
      BY <1>3, <1>5, <1>7
    <2>2. lo \in lo..hi
      BY <2>1
    <2>3. PICK i \in 1..Len(cs) : cs[i] = Saving(lo)
      BY <1>5, <2>2
    <2>4. CASE i = 1
      BY <1>3, <1>6, <2>2, <2>3, <2>4
    <2>5. CASE i # 1
      <3>1. 1 < i
        BY <2>5
      <3>2. Precedes(c, Saving(lo))
        BY <1>3, <1>5, <1>6, <1>7, <2>3, <3>1
      <3>3. c.pod <= lo
        BY <1>6, <3>2 DEF Precedes
      <3> QED
        BY <2>1, <3>3
    <2> QED
      BY <2>4, <2>5
  <1>8. \A i, j \in 1..n : i < j /\ OfPod(rest[i]) /\ OfPod(rest[j]) => Precedes(rest[i], rest[j])
    <2> SUFFICES ASSUME NEW i \in 1..n, NEW j \in 1..n, i < j, OfPod(rest[i]), OfPod(rest[j])
                 PROVE  Precedes(rest[i], rest[j])
      OBVIOUS
    <2>1. i + 1 < j + 1
      OBVIOUS
    <2> QED
      BY <1>3, <1>5, <2>1
  <1>9. ASSUME c.call # "savePod"
        PROVE  rest \in Passing(lo, hi)
    <2>1. \A i \in 1..n : OfPod(rest[i]) => rest[i].pod \in lo..hi
      BY <1>3, <1>5
    <2>2. ASSUME NEW pod \in lo..hi
          PROVE  \E i \in 1..n : rest[i] = Saving(pod)
      <3>1. PICK i \in 1..Len(cs) : cs[i] = Saving(pod)
        BY <1>5
      <3>2. i # 1
        BY <1>3, <1>6, <1>9, <3>1
      <3> QED
        BY <1>4, <3>1, <3>2
    <2> QED
      BY <1>2, <1>3, <1>8, <2>1, <2>2 DEF Passing
  <1>10. ASSUME c.call = "savePod"
         PROVE  rest \in Passing(lo + 1, hi)
    <2>1. OfPod(c)
      BY <1>10 DEF OfPod
    <2>2. ASSUME NEW i \in 1..n, OfPod(rest[i])
          PROVE  rest[i].pod \in lo + 1..hi
      <3>1. rest[i] = cs[i + 1] /\ i + 1 \in 1..Len(cs) /\ 1 < i + 1
        BY <1>3
      <3>2. cs[i + 1].pod \in lo..hi
        BY <1>5, <2>2, <3>1
      <3>3. Precedes(c, cs[i + 1])
        BY <1>3, <1>5, <2>1, <2>2, <3>1
      <3>4. lo < cs[i + 1].pod
        BY <1>7, <1>10, <2>1, <3>3 DEF Precedes
      <3> QED
        BY <3>1, <3>2, <3>4
    <2>3. ASSUME NEW pod \in lo + 1..hi
          PROVE  \E i \in 1..n : rest[i] = Saving(pod)
      <3>1. pod \in lo..hi /\ pod # lo
        OBVIOUS
      <3>2. PICK i \in 1..Len(cs) : cs[i] = Saving(pod)
        BY <1>5, <3>1
      <3>3. i # 1
        BY <1>3, <1>6, <1>7, <2>1, <3>1, <3>2
      <3> QED
        BY <1>4, <3>2, <3>3
    <2> QED
      BY <1>2, <1>3, <1>8, <2>2, <2>3 DEF Passing
  <1> QED
    BY <1>3, <1>7, <1>9, <1>10

------------------------------------------------------------------------------
\* The uplinks of a leaf come before its first port is latched, and the hosts after.

UpCall(c, d) == c.call = "createLink" /\ c.src.kind = "spine" /\ c.tgt = d
HostCall(c, d) ==
    \/ c.call = "createLink" /\ c.src = d /\ c.tgt.kind = "ipu"
    \/ c.call = "createNIC" /\ c.device = d
Sets(c, d) == c.call \in {"createSwitch", "latch", "startAt"} /\ c.device = d

\* Calls before the latch, after it, and such as do not concern the device; and those
\* that are not its uplinks.
Prior(d) == {c \in Calls : (Takes(c, d) => UpCall(c, d)) /\ (Sets(c, d) => c.call = "createSwitch")}
After(d) == {c \in Calls : ~ UpCall(c, d) /\ ~ Sets(c, d)}
Away(d)  == {c \in Calls : ~ Takes(c, d) /\ ~ Sets(c, d)}
Lacks(d) == {c \in Calls : ~ UpCall(c, d)}

Latching(d, n) ==
    {cs \in Seq(Calls) : \E x \in Seq(Prior(d)), y \in Seq(After(d)) :
        Uses(x, d) <= n /\ cs = x \o (Latch(d) \o y)}

LEMMA AwayIsQuiet ==
    ASSUME NEW d
    PROVE  /\ Away(d) \subseteq Prior(d) /\ Away(d) \subseteq After(d) /\ Away(d) \subseteq Lacks(d)
           /\ Prior(d) \subseteq Calls /\ After(d) \subseteq Calls /\ After(d) \subseteq Lacks(d)
           /\ \A a \in Seq(Away(d)) : Uses(a, d) = 0
  <1>1. \A c : UpCall(c, d) => Takes(c, d)
    BY DEF UpCall, Takes
  <1>2. ASSUME NEW a \in Seq(Away(d))
        PROVE  Uses(a, d) = 0
    <2>1. \A i \in DOMAIN a : a[i] \notin Taking(d)
      BY DEF Away, Taking
    <2>2. Places(a, Taking(d)) = {}
      BY <2>1 DEF Places
    <2> QED
      BY <2>2, FS_EmptySet DEF Uses
  <1> QED
    BY <1>1, <1>2 DEF Away, Prior, After, Lacks

LEMMA LatchingAfterAway ==
    ASSUME NEW d, NEW n \in Nat, NEW cs \in Latching(d, n), NEW a \in Seq(Away(d))
    PROVE  a \o cs \in Latching(d, n)
  <1>1. PICK x, y : /\ x \in Seq(Prior(d)) /\ y \in Seq(After(d)) /\ Uses(x, d) <= n
                    /\ cs = x \o (Latch(d) \o y) /\ cs \in Seq(Calls)
    BY DEF Latching
  <1>2. a \in Seq(Prior(d)) /\ a \in Seq(Calls) /\ x \in Seq(Calls) /\ y \in Seq(Calls) /\ Uses(a, d) = 0
    <2>1. a \in Seq(Prior(d)) /\ Uses(a, d) = 0
      BY AwayIsQuiet, SeqSubset
    <2> QED
      BY <1>1, <2>1, AwayIsQuiet, SeqSubset
  <1>3. a \o x \in Seq(Prior(d)) /\ a \o cs \in Seq(Calls)
    <2> HIDE DEF Prior, Calls
    <2> QED
      BY <1>1, <1>2
  <1>4. Uses(a \o x, d) = Uses(a, d) + Uses(x, d) /\ Uses(x, d) \in Nat
    BY <1>2, ConcatPlaces, PlacesFinite DEF Uses
  <1>5. PICK z, S : z = Latch(d) \o y /\ S = Calls \cup {Latch(d)[1]}
    OBVIOUS
  <1>6. a \in Seq(S) /\ x \in Seq(S) /\ z \in Seq(S)
    <2>1. Calls \subseteq S /\ Latch(d) \in Seq(S)
      BY <1>5 DEF Latch
    <2>2. a \in Seq(S) /\ x \in Seq(S) /\ y \in Seq(S)
      BY <1>2, <2>1, SeqSubset
    <2> QED
      BY <1>5, <2>1, <2>2
  <1>7. a \o (x \o z) = (a \o x) \o z
    BY <1>6
  <1>8. a \o cs = (a \o x) \o (Latch(d) \o y)
    BY <1>1, <1>5, <1>7
  <1>9. Uses(a \o x, d) <= n
    BY <1>1, <1>2, <1>4
  <1> QED
    BY <1>1, <1>3, <1>8, <1>9 DEF Latching

LEMMA LatchingBeforeAway ==
    ASSUME NEW d, NEW n \in Nat, NEW cs \in Latching(d, n), NEW b \in Seq(Away(d))
    PROVE  cs \o b \in Latching(d, n)
  <1>1. PICK x, y : /\ x \in Seq(Prior(d)) /\ y \in Seq(After(d)) /\ Uses(x, d) <= n
                    /\ cs = x \o (Latch(d) \o y) /\ cs \in Seq(Calls)
    BY DEF Latching
  <1>2. b \in Seq(After(d)) /\ b \in Seq(Calls) /\ x \in Seq(Calls) /\ y \in Seq(Calls)
    <2>1. b \in Seq(After(d))
      BY AwayIsQuiet, SeqSubset
    <2> QED
      BY <1>1, <2>1, AwayIsQuiet, SeqSubset
  <1>3. y \o b \in Seq(After(d)) /\ cs \o b \in Seq(Calls)
    <2> HIDE DEF After, Calls
    <2> QED
      BY <1>1, <1>2
  <1>4. PICK l, S : l = Latch(d) /\ S = Calls \cup {Latch(d)[1]}
    OBVIOUS
  <1>5. b \in Seq(S) /\ x \in Seq(S) /\ y \in Seq(S) /\ l \in Seq(S)
    <2>1. Calls \subseteq S /\ Latch(d) \in Seq(S)
      BY <1>4 DEF Latch
    <2> QED
      BY <1>2, <1>4, <2>1, SeqSubset
  <1>6. (x \o (l \o y)) \o b = x \o (l \o (y \o b))
    <2>1. (l \o y) \o b = l \o (y \o b) /\ l \o y \in Seq(S)
      BY ONLY <1>5, SMTT(60)
    <2>2. PICK m : m = l \o y
      OBVIOUS
    <2>3. (x \o m) \o b = x \o (m \o b)
      BY <1>5, <2>1, <2>2
    <2> QED
      BY <2>1, <2>2, <2>3
  <1> QED
    BY <1>1, <1>3, <1>4, <1>6 DEF Latching

\* One of several sequences is about the device.
LEMMA LatchingOnce ==
    ASSUME NEW d, NEW m \in Nat, NEW n \in Nat, NEW seqs, seqs = [j \in 1..n |-> seqs[j]],
           NEW i \in 1..n, seqs[i] \in Latching(d, m),
           \A j \in 1..n : j # i => seqs[j] \in Seq(Away(d))
    PROVE  FlattenSeq(seqs) \in Latching(d, m)
  <1> DEFINE P == [k \in 0..n |-> IF k < i THEN Seq(Away(d)) ELSE Latching(d, m)]
  <1>1. seqs \in Seq(Seq(Calls)) /\ Len(seqs) = n
    <2>1. Seq(Away(d)) \subseteq Seq(Calls) /\ Latching(d, m) \subseteq Seq(Calls)
      BY SeqSubset DEF Away, Latching
    <2>2. \A j \in 1..n : seqs[j] \in Seq(Calls)
      BY <2>1
    <2>3. seqs \in [1..n -> Seq(Calls)]
      BY <2>2
    <2> QED
      BY <2>3
  <1>2. <<>> \in P[0]
    <2>1. <<>> \in Seq(Away(d))
      OBVIOUS
    <2> QED
      BY <2>1
  <1>3. ASSUME NEW k \in 1..Len(seqs), NEW a \in P[k - 1] \cap Seq(Calls)
        PROVE  a \o seqs[k] \in P[k]
    <2>1. k \in 1..n /\ k \in 0..n /\ k - 1 \in 0..n
      BY <1>1
    <2>2. CASE k < i
      <3>1. a \in Seq(Away(d)) /\ seqs[k] \in Seq(Away(d))
        BY <2>1, <2>2
      <3>2. a \o seqs[k] \in Seq(Away(d))
        <4> HIDE DEF Away
        <4> QED
          BY <3>1
      <3> QED
        BY <2>1, <2>2, <3>2
    <2>3. CASE k = i
      <3>1. a \in Seq(Away(d)) /\ seqs[k] \in Latching(d, m)
        BY <2>1, <2>3
      <3>2. a \o seqs[k] \in Latching(d, m)
        BY <3>1, LatchingAfterAway
      <3> QED
        BY <2>1, <2>3, <3>2
    <2>4. CASE k > i
      <3>1. a \in Latching(d, m) /\ seqs[k] \in Seq(Away(d))
        BY <2>1, <2>4
      <3>2. a \o seqs[k] \in Latching(d, m)
        BY <3>1, LatchingBeforeAway
      <3> QED
        BY <2>1, <2>4, <3>2
    <2> QED
      BY <2>1, <2>2, <2>3, <2>4
  <1>4. FlattenSeq(seqs) \in P[Len(seqs)] \cap Seq(Calls)
    <2> HIDE DEF P
    <2> QED
      BY <1>1, <1>2, <1>3, FlattenInduction
  <1>5. n \in 0..n /\ ~ (n < i)
    OBVIOUS
  <1> QED
    BY <1>1, <1>4, <1>5

\* What a leaf's part of the plain fabric asks for.
Uplinks(leaf) == {c \in Calls : UpCall(c, leaf)}
Racked(leaf) ==
    {c \in Calls : \/ c.call = "createSwitch" /\ c.device.kind = "ipu"
                   \/ c.call = "createLink" /\ c.src = leaf /\ c.tgt.kind = "ipu"
                   \/ c.call = "createNIC" /\ (c.device = leaf \/ c.device.kind = "ipu")}
OfLeaf(leaf) ==
    Uplinks(leaf) \cup Racked(leaf) \cup {c \in Calls : c.call \in {"createSwitch", "latch"} /\ c.device = leaf}

LEMMA LeafCalls ==
    ASSUME NEW leaf \in Devices, leaf.kind = "leaf"
    PROVE  /\ Uplinks(leaf) \subseteq Prior(leaf) /\ Racked(leaf) \subseteq After(leaf)
           /\ \A d \in Devices : d.kind = "leaf" /\ d # leaf => OfLeaf(leaf) \subseteq Away(d)
           /\ \A d : d # leaf => OfLeaf(leaf) \subseteq Lacks(d)
  <1>1. Uplinks(leaf) \subseteq Prior(leaf)
    BY DEF Uplinks, Prior, UpCall, Sets
  <1>2. Racked(leaf) \subseteq After(leaf)
    BY DEF Racked, After, UpCall, Sets
  <1>3. ASSUME NEW d \in Devices, d.kind = "leaf", d # leaf, NEW c \in OfLeaf(leaf)
        PROVE  c \in Away(d)
    <2>1. c \in Calls
      BY DEF OfLeaf, Uplinks, Racked
    <2>2. CASE c \in Uplinks(leaf)
      BY <1>3, <2>1, <2>2 DEF Uplinks, UpCall, Away, Takes, Sets
    <2>3. CASE c \in Racked(leaf)
      BY <1>3, <2>1, <2>3 DEF Racked, Away, Takes, Sets
    <2>4. CASE c.call \in {"createSwitch", "latch"} /\ c.device = leaf
      BY <1>3, <2>1, <2>4 DEF Away, Takes, Sets
    <2> QED
      BY <2>2, <2>3, <2>4 DEF OfLeaf
  <1>4. ASSUME NEW d, d # leaf, NEW c \in OfLeaf(leaf)
        PROVE  c \in Lacks(d)
    <2>1. c \in Calls
      BY DEF OfLeaf, Uplinks, Racked
    <2>2. CASE c \in Uplinks(leaf)
      BY <1>4, <2>1, <2>2 DEF Uplinks, UpCall, Lacks
    <2>3. CASE c \in Racked(leaf)
      BY <2>1, <2>3 DEF Racked, Lacks, UpCall
    <2>4. CASE c.call \in {"createSwitch", "latch"} /\ c.device = leaf
      BY <2>1, <2>4 DEF Lacks, UpCall
    <2> QED
      BY <2>2, <2>3, <2>4 DEF OfLeaf
  <1> QED
    BY <1>1, <1>2, <1>3, <1>4

\* The hosts of a rack are on its leaf, or on IPUs that are linked with it.
LEMMA RackIsRacked ==
    ASSUME NEW rack \in Nat, NEW leaf \in Devices, leaf.kind = "leaf", NEW count \in Nat,
           NEW haveIPU \in BOOLEAN, NEW vms \in Nat
    PROVE  RackHosts(rack, leaf, NoLeaf, count, haveIPU, vms) \in Seq(Racked(leaf))
  <1> DEFINE R == Racked(leaf)
             f == [h \in 1..count |-> RackHost(rack, h, leaf, NoLeaf, haveIPU, vms)]
  <1>1. leaf # NoLeaf
    BY DEF NoLeaf, Device
  <1>2. ASSUME NEW host, host \in Hosts, NEW id \in Nat, NEW n \in Nat,
               NEW d \in Devices, d = leaf \/ d.kind = "ipu"
        PROVE  Nic(host, rack, id, n, d) \in Seq(R)
    <2>1. PICK c : c = [call |-> "createNIC", host |-> host, rack |-> rack, leaf |-> n,
                        hostID |-> id, device |-> d]
      OBVIOUS
    <2>2. c \in Calls
      <3> HIDE DEF Hosts, Devices
      <3> QED
        BY <1>2, <2>1 DEF Calls
    <2>3. c \in R
      BY <1>2, <2>1, <2>2 DEF Racked
    <2> HIDE DEF R
    <2> QED
      BY <2>1, <2>3 DEF Nic
  <1>3. ASSUME NEW h \in 1..count
        PROVE  f[h] \in Seq(R)
    <2>1. PICK ipu : ipu = IPU(rack, h) /\ ipu \in Devices /\ ipu.kind = "ipu"
      BY NamedDevices
    <2>2. CASE haveIPU
      <3> DEFINE g == [i \in 1..vms |-> Nic(<<"vm", rack, h, i>>, rack, h, 10 + i, ipu)]
      <3>1. Switch(ipu, 2 + 1 + vms) \in Seq(R)
        <4>1. PICK c : c = [call |-> "createSwitch", device |-> ipu, portCount |-> 2 + 1 + vms]
          OBVIOUS
        <4>2. c \in Calls
          BY <2>1, <4>1 DEF Calls
        <4>3. c \in R
          BY <2>1, <4>1, <4>2 DEF Racked
        <4> HIDE DEF R
        <4> QED
          BY <4>1, <4>3 DEF Switch
      <3>2. Trunk(leaf, ipu, 1) \in Seq(R)
        <4>1. PICK c : c = [call |-> "createLink", src |-> leaf, tgt |-> ipu]
          OBVIOUS
        <4>2. c \in Calls
          BY <2>1, <4>1 DEF Calls
        <4>3. c \in R
          BY <2>1, <4>1, <4>2 DEF Racked
        <4> HIDE DEF R
        <4> QED
          BY <4>1, <4>3 DEF Trunk
      <3>3. Nic(<<"host", rack, h>>, rack, h, 1, ipu) \in Seq(R)
        <4>1. PICK host : host = <<"host", rack, h>>
          OBVIOUS
        <4>2. host \in Hosts /\ h \in Nat /\ 1 \in Nat
          BY <4>1 DEF Hosts
        <4> HIDE DEF R, f, g
        <4>3. Nic(host, rack, h, 1, ipu) \in Seq(R)
          BY <1>2, <2>1, <4>2
        <4> QED
          BY <4>1, <4>3
      <3>4. \A i \in 1..vms : g[i] \in Seq(R)
        <4> SUFFICES ASSUME NEW i \in 1..vms
                     PROVE  Nic(<<"vm", rack, h, i>>, rack, h, 10 + i, ipu) \in Seq(R)
          OBVIOUS
        <4>1. PICK host : host = <<"vm", rack, h, i>>
          OBVIOUS
        <4>2. host \in Hosts /\ h \in Nat /\ 10 + i \in Nat
          BY <4>1 DEF Hosts
        <4> HIDE DEF R, f, g
        <4>3. Nic(host, rack, h, 10 + i, ipu) \in Seq(R)
          BY <1>2, <2>1, <4>2
        <4> QED
          BY <4>1, <4>3
      <3>5. f[h] = Switch(ipu, 2 + 1 + vms) \o Trunk(leaf, ipu, 1) \o Trunk(leaf, ipu, 1)
                   \o Nic(<<"host", rack, h>>, rack, h, 1, ipu) \o FlattenSeq(g)
        BY <2>1, <2>2 DEF RackHost, ServerIPUAndVMs, ForEach
      <3>6. g = [i \in 1..vms |-> g[i]]
        OBVIOUS
      <3> HIDE DEF R, f, g
      <3>7. FlattenSeq(g) \in Seq(R)
        BY <3>4, <3>6, FlattenType
      <3>8. \A a, b, c, d, e \in Seq(R) : a \o b \o c \o d \o e \in Seq(R)
        OBVIOUS
      <3> QED
        BY <3>1, <3>2, <3>3, <3>5, <3>7, <3>8
    <2>3. CASE ~ haveIPU
      <3>1. Nic(<<"host", rack, h>>, rack, h, 1, leaf) \in Seq(R)
        <4>1. PICK host : host = <<"host", rack, h>>
          OBVIOUS
        <4>2. host \in Hosts /\ h \in Nat /\ 1 \in Nat
          BY <4>1 DEF Hosts
        <4> HIDE DEF R, f
        <4>3. Nic(host, rack, h, 1, leaf) \in Seq(R)
          BY <1>2, <4>2
        <4> QED
          BY <4>1, <4>3
      <3>2. f[h] = Nic(<<"host", rack, h>>, rack, h, 1, leaf) \o <<>>
        BY <2>3 DEF RackHost
      <3> HIDE DEF R, f
      <3> QED
        BY <3>1, <3>2
    <2> QED
      BY <2>2, <2>3
  <1>4. f = [h \in 1..count |-> f[h]]
    OBVIOUS
  <1>5. RackHosts(rack, leaf, NoLeaf, count, haveIPU, vms) = FlattenSeq(f)
    BY DEF RackHosts, ForEach
  <1> HIDE DEF R, f
  <1>6. FlattenSeq(f) \in Seq(R)
    BY <1>3, <1>4, FlattenType
  <1> QED
    BY <1>5, <1>6 DEF R

\* A leaf of the plain fabric latches its first port after its uplinks, and before its hosts.
LEMMA PlainLeafLatches ==
    ASSUME NEW r, Buildable(r), r.kind = "plain", NEW i \in Nat
    PROVE  /\ PlainLeaf(r, i) \in Seq(OfLeaf(Leaf(i)))
           /\ PlainLeaf(r, i) \in Latching(Leaf(i), r.spines * r.spineTrunk)
  <1>1. PICK spines \in Nat, trunk \in Nat, hosts \in Nat, vms \in Nat, have \in BOOLEAN :
            /\ spines = r.spines /\ trunk = r.spineTrunk /\ hosts = r.hosts /\ vms = r.vms
            /\ have = r.haveIPU
    BY DEF Buildable
  <1>2. PICK leaf : leaf = Leaf(i) /\ leaf \in Devices /\ leaf.kind = "leaf"
    BY NamedDevices
  <1>3. PICK switch, latch : /\ switch = [call |-> "createSwitch", device |-> leaf, portCount |-> r.leafPorts]
                             /\ latch = [call |-> "latch", device |-> leaf]
    OBVIOUS
  <1>4. PICK u : u = [s \in 1..spines |-> Trunk(Spine(s), leaf, trunk)]
    OBVIOUS
  <1>5. PICK ups, rack : /\ ups = FlattenSeq(u)
                         /\ rack = RackHosts(i, leaf, NoLeaf, hosts, have, vms)
    OBVIOUS
  <1>6. PlainLeaf(r, i) = <<switch>> \o ups \o <<latch>> \o rack
    BY <1>1, <1>2, <1>3, <1>4, <1>5 DEF PlainLeaf, ForEach, Switch, Latch
  <1>7. switch \in Calls /\ latch \in Calls
    BY <1>2, <1>3 DEF Calls, Buildable
  <1>8. rack \in Seq(Racked(leaf))
    BY <1>1, <1>2, <1>5, RackIsRacked
  <1>9. ups \in Seq(Uplinks(leaf))
    <2>1. ASSUME NEW s \in 1..spines
          PROVE  u[s] \in Seq(Uplinks(leaf))
      <3>1. PICK spine : spine = Spine(s) /\ spine \in Devices /\ spine.kind = "spine"
        <4>1. s \in Nat
          OBVIOUS
        <4> QED
          BY <4>1, NamedDevices
      <3>2. PICK c : c = [call |-> "createLink", src |-> spine, tgt |-> leaf]
        OBVIOUS
      <3>3. c \in Uplinks(leaf)
        BY <1>2, <3>1, <3>2 DEF Uplinks, UpCall, Calls
      <3>4. u[s] = [k \in 1..trunk |-> c]
        BY <1>4, <3>1, <3>2 DEF Trunk
      <3> QED
        BY <3>3, <3>4
    <2>2. u = [s \in 1..spines |-> u[s]]
      BY <1>4
    <2> QED
      BY <1>5, <2>1, <2>2, FlattenType
  <1>10. Uplinks(leaf) \subseteq Prior(leaf) /\ Racked(leaf) \subseteq After(leaf)
    BY <1>2, LeafCalls
  <1>11. switch \in Prior(leaf)
    BY <1>3, <1>7 DEF Prior, Takes, Sets
  <1>12. /\ <<switch>> \in Seq(Prior(leaf)) /\ ups \in Seq(Prior(leaf))
         /\ <<switch>> \o ups \in Seq(Prior(leaf)) /\ rack \in Seq(After(leaf))
    <2>1. ups \in Seq(Prior(leaf)) /\ rack \in Seq(After(leaf))
      BY <1>8, <1>9, <1>10, SeqSubset
    <2> HIDE DEF Prior, After
    <2> QED
      BY <1>11, <2>1
  <1>13. Uses(<<switch>> \o ups, leaf) <= spines * trunk
    <2>1. Uses(ups, leaf) <= spines * trunk
      <3>1. u = [s \in 1..spines |-> u[s]] /\ \A s \in 1..spines : u[s] = Trunk(Spine(s), leaf, trunk)
        BY <1>4
      <3>2. ups \in Within(r, leaf, spines * trunk)
        BY <1>2, <1>5, <3>1, UplinkUses
      <3> QED
        BY <3>2 DEF Within
    <2>2. Uses(<<switch>>, leaf) = 0
      <3>1. switch \notin Taking(leaf)
        BY <1>3 DEF Taking, Takes
      <3>2. DOMAIN <<switch>> = 1..1 /\ <<switch>>[1] = switch
        OBVIOUS
      <3>3. Places(<<switch>>, Taking(leaf)) = {}
        BY <3>1, <3>2 DEF Places
      <3> QED
        BY <3>3, FS_EmptySet DEF Uses
    <2>3. Uses(<<switch>> \o ups, leaf) = Uses(<<switch>>, leaf) + Uses(ups, leaf) /\ Uses(ups, leaf) \in Nat
      BY <1>12, ConcatPlaces, PlacesFinite DEF Uses
    <2> QED
      BY <2>1, <2>2, <2>3
  <1>14. <<latch>> = Latch(leaf)
    BY <1>3 DEF Latch
  <1>15. /\ <<switch>> \in Seq(OfLeaf(leaf)) /\ ups \in Seq(OfLeaf(leaf))
         /\ <<latch>> \in Seq(OfLeaf(leaf)) /\ rack \in Seq(OfLeaf(leaf))
    <2>1. /\ switch \in OfLeaf(leaf) /\ latch \in OfLeaf(leaf)
          /\ Uplinks(leaf) \subseteq OfLeaf(leaf) /\ Racked(leaf) \subseteq OfLeaf(leaf)
      BY <1>3, <1>7 DEF OfLeaf
    <2>2. ups \in Seq(OfLeaf(leaf)) /\ rack \in Seq(OfLeaf(leaf))
      BY <1>8, <1>9, <2>1, SeqSubset
    <2> HIDE DEF OfLeaf
    <2> QED
      BY <2>1, <2>2
  <1>16. PlainLeaf(r, i) \in Seq(OfLeaf(leaf))
    <2> HIDE DEF OfLeaf
    <2> QED
      BY <1>6, <1>15
  <1>17. OfLeaf(leaf) \subseteq Calls
    BY DEF OfLeaf, Uplinks, Racked
  <1>18. PlainLeaf(r, i) = (<<switch>> \o ups) \o (Latch(leaf) \o rack)
    <2>1. PICK S, a, c : S = OfLeaf(leaf) /\ a = <<switch>> /\ c = <<latch>>
      OBVIOUS
    <2>2. a \in Seq(S) /\ ups \in Seq(S) /\ c \in Seq(S) /\ rack \in Seq(S)
      BY <1>15, <2>1
    <2>3. a \o ups \o c \o rack = (a \o ups) \o (c \o rack)
      BY ONLY <2>2, SMTT(60)
    <2> QED
      BY <1>6, <1>14, <2>1, <2>3
  <1>19. PlainLeaf(r, i) \in Seq(Calls)
    BY <1>16, <1>17, SeqSubset
  <1>20. PlainLeaf(r, i) \in Latching(leaf, spines * trunk)
    BY <1>12, <1>13, <1>18, <1>19 DEF Latching
  <1> QED
    BY <1>1, <1>2, <1>16, <1>20

\* The calls of a plain fabric: of each of its leaves, and those that concern no leaf.
LEMMA PlainFabricLatches ==
    ASSUME NEW r, Buildable(r), r.kind = "plain", NEW d \in Devices
    PROVE  \/ d.kind = "leaf" /\ PlainFabric(r) \in Latching(d, r.spines * r.spineTrunk)
           \/ PlainFabric(r) \in Seq(Lacks(d))
  <1>1. PICK leaves \in Nat : leaves = r.leaves
    BY DEF Buildable
  <1>2. PICK f : f = [i \in 1..leaves |-> PlainLeaf(r, i)]
    OBVIOUS
  <1>3. f = [i \in 1..leaves |-> f[i]] /\ \A i \in 1..leaves : f[i] = PlainLeaf(r, i) /\ i \in Nat
    BY <1>2
  <1>4. PICK first, rest : first = PlainSpines(r) /\ rest = FlattenSeq(f)
    OBVIOUS
  <1>5. PlainFabric(r) = first \o rest
    BY <1>1, <1>2, <1>4 DEF PlainFabric, ForEach
  <1>6. first \in Seq(Spinal(r))
    BY <1>4, EarlySpines
  <1>7. \A i \in 1..leaves : /\ f[i] \in Seq(OfLeaf(Leaf(i)))
                             /\ f[i] \in Latching(Leaf(i), r.spines * r.spineTrunk)
    BY <1>3, PlainLeafLatches
  <1>8. \A i \in 1..leaves : Leaf(i) \in Devices /\ Leaf(i).kind = "leaf" /\ Leaf(i).index = i
    BY <1>3, NamedDevices DEF Leaf, Device
  <1>9. CASE \E i \in 1..leaves : d = Leaf(i)
    <2>1. PICK i \in 1..leaves : d = Leaf(i)
      BY <1>9
    <2>2. ASSUME NEW j \in 1..leaves, j # i
          PROVE  f[j] \in Seq(Away(d))
      <3>1. Leaf(j) # d
        BY <1>8, <2>1, <2>2
      <3>2. OfLeaf(Leaf(j)) \subseteq Away(d)
        BY <1>8, <2>1, <3>1, LeafCalls
      <3> QED
        BY <1>7, <3>2, SeqSubset
    <2>3. PICK n \in Nat : n = r.spines * r.spineTrunk
      <3>1. r.spines \in Nat /\ r.spineTrunk \in Nat
        BY DEF Buildable
      <3> QED
        BY <3>1
    <2>4. rest \in Latching(d, n)
      BY <1>3, <1>4, <1>7, <2>1, <2>2, <2>3, LatchingOnce
    <2>5. Spinal(r) \subseteq Away(d)
      BY <1>8, <2>1 DEF Spinal, Early, Away, OwnStart, Takes, Sets
    <2>6. first \o rest \in Latching(d, n)
      BY <1>6, <2>4, <2>5, LatchingAfterAway, SeqSubset
    <2> QED
      BY <1>5, <1>8, <2>1, <2>3, <2>6
  <1>10. CASE ~ \E i \in 1..leaves : d = Leaf(i)
    <2>1. ASSUME NEW j \in 1..leaves
          PROVE  f[j] \in Seq(Lacks(d))
      <3>1. OfLeaf(Leaf(j)) \subseteq Lacks(d)
        BY <1>8, <1>10, LeafCalls
      <3> QED
        BY <1>7, <3>1, SeqSubset
    <2>2. rest \in Seq(Lacks(d))
      BY <1>1, <1>3, <1>4, <2>1, FlattenType
    <2>3. Spinal(r) \subseteq Lacks(d)
      BY DEF Spinal, Early, OwnStart, Lacks, UpCall
    <2>4. first \in Seq(Lacks(d))
      BY <1>6, <2>3, SeqSubset
    <2> HIDE DEF Lacks
    <2> QED
      BY <1>5, <2>2, <2>4
  <1> QED
    BY <1>9, <1>10

\* A sequence that latches goes on to do so until it does.
LEMMA LatchingTail ==
    ASSUME NEW d, NEW n \in Nat, NEW cs \in Latching(d, n), cs # <<>>
    PROVE  \/ Head(cs) = [call |-> "latch", device |-> d] /\ Tail(cs) \in Seq(After(d))
           \/ /\ Head(cs) \in Prior(d)
              /\ Takes(Head(cs), d) => n > 0 /\ Tail(cs) \in Latching(d, n - 1)
              /\ ~ Takes(Head(cs), d) => Tail(cs) \in Latching(d, n)
  <1>1. PICK x, y : /\ x \in Seq(Prior(d)) /\ y \in Seq(After(d)) /\ Uses(x, d) <= n
                    /\ cs = x \o (Latch(d) \o y) /\ cs \in Seq(Calls)
    BY DEF Latching
  <1>2. PICK c : c = [call |-> "latch", device |-> d]
    OBVIOUS
  <1>3. PICK S : S = Prior(d) \cup After(d) \cup {c}
    OBVIOUS
  <1>4. PICK z : z = <<c>> \o y
    OBVIOUS
  <1>5. x \in Seq(S) /\ y \in Seq(S) /\ c \in S
    BY <1>1, <1>3, SeqSubset
  <1>6. z \in Seq(S) /\ z # <<>> /\ Head(z) = c /\ Tail(z) = y
    BY <1>4, <1>5
  <1>7. cs = x \o z
    BY <1>1, <1>2, <1>4 DEF Latch
  <1>8. CASE x = <<>>
    <2>1. cs = z
      BY <1>6, <1>7, <1>8, EmptyThen
    <2> QED
      BY <1>1, <1>2, <1>6, <2>1
  <1>9. CASE x # <<>>
    <2>1. Head(cs) = Head(x) /\ Tail(cs) = Tail(x) \o z
      BY <1>5, <1>6, <1>7, <1>9
    <2>2. Head(x) \in Prior(d) /\ Tail(x) \in Seq(Prior(d))
      <3> HIDE DEF Prior
      <3> QED
        BY <1>1, <1>9
    <2>3. Tail(cs) \in Seq(Calls)
      <3> HIDE DEF Calls
      <3> QED
        BY <1>1, <1>7, <1>9, <2>1
    <2>4. z = Latch(d) \o y
      BY <1>2, <1>4 DEF Latch
    <2>5. \A m : Uses(Tail(x), d) <= m => Tail(cs) \in Latching(d, m)
      BY <1>1, <2>1, <2>2, <2>3, <2>4 DEF Latching
    <2>6. Head(x) \in Taking(d) <=> Takes(Head(x), d)
      BY <2>2 DEF Taking, Prior
    <2>7. Uses(x, d) = (IF Head(x) \in Taking(d) THEN 1 ELSE 0) + Uses(Tail(x), d)
      <3>1. \A P : Cardinality(Places(x, P)) =
                   (IF Head(x) \in P THEN 1 ELSE 0) + Cardinality(Places(Tail(x), P))
        BY <1>1, <1>9, TailPlaces
      <3> QED
        BY <3>1 DEF Uses
    <2>8. Uses(Tail(x), d) \in Nat
      BY <2>2, PlacesFinite DEF Uses
    <2>9. Takes(Head(x), d) => n > 0 /\ Uses(Tail(x), d) <= n - 1
      BY <1>1, <2>6, <2>7, <2>8
    <2>10. ~ Takes(Head(x), d) => Uses(Tail(x), d) <= n
      BY <1>1, <2>6, <2>7, <2>8
    <2> QED
      BY <2>1, <2>2, <2>5, <2>9, <2>10
  <1> QED
    BY <1>8, <1>9

------------------------------------------------------------------------------
\* A spine's first port is set before any of its ports is asked for.

Start(r, d) == [call |-> "startAt", device |-> d, port |-> First(r, d)]

LEMMA ConcatElements ==
    ASSUME NEW S, NEW a \in Seq(S), NEW b \in Seq(S)
    PROVE  a \o b \in Seq(S) /\ Elements(a \o b) = Elements(a) \cup Elements(b)
  <1>1. PICK n \in Nat, m \in Nat : n = Len(a) /\ m = Len(b)
    OBVIOUS
  <1>2. PICK c : c = a \o b
    OBVIOUS
  <1>3. /\ c \in Seq(S) /\ Len(c) = n + m
        /\ \A i \in 1..n : c[i] = a[i]
        /\ \A i \in 1..m : c[n + i] = b[i]
    BY <1>1, <1>2
  <1>4. \A i \in 1..n : i \in 1..Len(c)
    BY <1>1, <1>3
  <1>5. \A i \in 1..m : n + i \in 1..Len(c)
    BY <1>1, <1>3
  <1>6. \A i \in 1..Len(c) : i \in 1..n \/ (i - n \in 1..m /\ n + (i - n) = i)
    BY <1>1, <1>3
  <1>7. ASSUME NEW i \in 1..n
        PROVE  a[i] \in Elements(c)
    <2>1. a[i] = c[i] /\ i \in 1..Len(c)
      BY <1>3, <1>4
    <2> QED
      BY <2>1 DEF Elements
  <1>8. ASSUME NEW i \in 1..m
        PROVE  b[i] \in Elements(c)
    <2>1. b[i] = c[n + i] /\ n + i \in 1..Len(c)
      BY <1>3, <1>5
    <2> QED
      BY <2>1 DEF Elements
  <1>9. ASSUME NEW i \in 1..Len(c)
        PROVE  c[i] \in Elements(a) \cup Elements(b)
    <2>1. CASE i \in 1..n
      <3>1. c[i] = a[i]
        BY <1>3, <2>1
      <3> QED
        BY <1>1, <2>1, <3>1 DEF Elements
    <2>2. CASE i - n \in 1..m /\ n + (i - n) = i
      <3>1. PICK j \in 1..m : j = i - n /\ n + j = i
        BY <2>2
      <3>2. c[i] = b[j]
        BY <1>3, <3>1
      <3> QED
        BY <1>1, <3>2 DEF Elements
    <2> QED
      BY <1>6, <2>1, <2>2
  <1>10. Elements(c) = Elements(a) \cup Elements(b)
    <2>1. Elements(a) = {a[i] : i \in 1..n} /\ Elements(b) = {b[i] : i \in 1..m}
      BY <1>1 DEF Elements
    <2>2. Elements(c) = {c[i] : i \in 1..Len(c)}
      BY DEF Elements
    <2>3. Elements(a) \cup Elements(b) \subseteq Elements(c)
      BY <1>7, <1>8, <2>1
    <2>4. Elements(c) \subseteq Elements(a) \cup Elements(b)
      BY <1>9, <2>2
    <2> QED
      BY <2>3, <2>4
  <1> QED
    BY <1>2, <1>3, <1>10

\* What is in one of several sequences is in all of them together.
LEMMA FlattenHas ==
    ASSUME NEW S, NEW n \in Nat, NEW seqs, seqs = [j \in 1..n |-> seqs[j]],
           \A j \in 1..n : seqs[j] \in Seq(S),
           NEW i \in 1..n, NEW e, e \in Elements(seqs[i])
    PROVE  e \in Elements(FlattenSeq(seqs))
  <1> DEFINE P == [k \in 0..n |-> {s \in Seq(S) : k < i \/ e \in Elements(s)}]
  <1>1. seqs \in Seq(Seq(S)) /\ Len(seqs) = n
    OBVIOUS
  <1>2. <<>> \in P[0]
    BY <1>1
  <1>3. ASSUME NEW k \in 1..Len(seqs), NEW a \in P[k - 1] \cap Seq(S)
        PROVE  a \o seqs[k] \in P[k]
    <2>1. k \in 1..n /\ k \in 0..n /\ k - 1 \in 0..n
      BY <1>1
    <2>2. PICK b \in Seq(S) : b = seqs[k]
      BY <2>1
    <2>3. a \o b \in Seq(S) /\ Elements(a \o b) = Elements(a) \cup Elements(b)
      BY ConcatElements
    <2>4. k - 1 < i \/ e \in Elements(a)
      BY <2>1
    <2>5. k = i => e \in Elements(b)
      BY <2>2
    <2>6. k < i \/ e \in Elements(a \o b)
      BY <2>1, <2>3, <2>4, <2>5
    <2> QED
      BY <2>1, <2>2, <2>3, <2>6
  <1>4. FlattenSeq(seqs) \in P[Len(seqs)] \cap Seq(S)
    <2> HIDE DEF P
    <2> QED
      BY <1>1, <1>2, <1>3, FlattenInduction
  <1>5. n \in 0..n /\ ~ (n < i)
    OBVIOUS
  <1> QED
    BY <1>1, <1>4, <1>5

LEMMA SpineBegins ==
    ASSUME NEW r, Buildable(r), r.kind = "plain", NEW s \in Nat
    PROVE  /\ StartAt(Spine(s), r.reserved + 1) \o Switch(Spine(s), r.spinePorts) \in Seq(Spinal(r))
           /\ Start(r, Spine(s)) \in
                  Elements(StartAt(Spine(s), r.reserved + 1) \o Switch(Spine(s), r.spinePorts))
  <1>1. r.reserved \in Nat /\ r.spinePorts \in Nat
    BY DEF Buildable
  <1>2. PICK spine : spine = Spine(s) /\ spine \in Devices /\ spine.kind = "spine"
    BY NamedDevices
  <1>3. PICK start, switch :
            /\ start = [call |-> "startAt", device |-> spine, port |-> r.reserved + 1]
            /\ switch = [call |-> "createSwitch", device |-> spine, portCount |-> r.spinePorts]
    OBVIOUS
  <1>4. Own(r, spine) /\ First(r, spine) = r.reserved + 1
    BY <1>2 DEF Own, First
  <1>5. start \in Calls /\ switch \in Calls
    BY <1>1, <1>2, <1>3 DEF Calls
  <1>6. start \in Spinal(r) /\ switch \in Spinal(r) /\ start = Start(r, spine)
    BY <1>2, <1>3, <1>4, <1>5 DEF Spinal, Early, OwnStart, Start
  <1>7. PICK S : S = Spinal(r)
    OBVIOUS
  <1>8. PICK a, b : a = <<start>> /\ b = <<switch>>
    OBVIOUS
  <1>9. a \in Seq(S) /\ b \in Seq(S) /\ start = a[1] /\ 1 \in 1..Len(a)
    BY <1>6, <1>7, <1>8
  <1>10. start \in Elements(a)
    BY <1>9 DEF Elements
  <1>11. a \o b \in Seq(S) /\ start \in Elements(a \o b)
    <2>1. Elements(a \o b) = Elements(a) \cup Elements(b) /\ a \o b \in Seq(S)
      BY <1>9, ConcatElements
    <2> QED
      BY <1>10, <2>1
  <1>12. StartAt(Spine(s), r.reserved + 1) \o Switch(Spine(s), r.spinePorts) = a \o b
    BY <1>2, <1>3, <1>8 DEF StartAt, Switch
  <1> QED
    BY <1>2, <1>6, <1>7, <1>11, <1>12

\* A spine is started at its first port, or is not one of those of the fabric.
LEMMA SpinesAreStarted ==
    ASSUME NEW r, Buildable(r), r.kind = "plain", NEW i \in 1..r.spines
    PROVE  Start(r, Spine(i)) \in Elements(PlainSpines(r))
  <1> DEFINE f == [s \in 1..r.spines |-> StartAt(Spine(s), r.reserved + 1) \o Switch(Spine(s), r.spinePorts)]
  <1>1. r.spines \in Nat
    BY DEF Buildable
  <1>2. \A s \in 1..r.spines : f[s] \in Seq(Spinal(r)) /\ Start(r, Spine(s)) \in Elements(f[s])
    BY SpineBegins
  <1>3. f = [s \in 1..r.spines |-> f[s]] /\ PlainSpines(r) = FlattenSeq(f)
    BY DEF PlainSpines, ForEach
  <1> HIDE DEF f
  <1> QED
    BY <1>1, <1>2, <1>3, FlattenHas

\* What a plain fabric asks spines for that it does not have.
LEMMA OtherSpinesRest ==
    ASSUME NEW r, Buildable(r), r.kind = "plain", NEW d \in Devices, d.kind = "spine",
           d.index \notin 1..r.spines, NEW i \in Nat
    PROVE  PlainLeaf(r, i) \in Within(r, d, 0)
  <1>1. PICK spines \in Nat, trunk \in Nat, hosts \in Nat, vms \in Nat, have \in BOOLEAN, zero \in Nat :
            /\ spines = r.spines /\ trunk = r.spineTrunk /\ hosts = r.hosts /\ vms = r.vms
            /\ have = r.haveIPU /\ zero = 0
    BY DEF Buildable
  <1>2. PICK leaf, none : leaf = Leaf(i) /\ none = NoLeaf
    OBVIOUS
  <1>3. leaf \in Devices /\ leaf.kind = "leaf" /\ leaf # none /\ d # none /\ d # leaf
    <2>1. leaf \in Devices /\ leaf.kind = "leaf"
      BY <1>2, NamedDevices
    <2>2. none.kind = "none"
      BY <1>2 DEF NoLeaf, Device
    <2> QED
      BY <2>1, <2>2
  <1>4. PICK u : u = [s \in 1..spines |-> Trunk(Spine(s), leaf, trunk)]
    OBVIOUS
  <1>5. PICK a1, a2, a3, a4 :
            /\ a1 = Switch(leaf, r.leafPorts) /\ a2 = FlattenSeq(u) /\ a3 = Latch(leaf)
            /\ a4 = RackHosts(i, leaf, none, hosts, have, vms)
    OBVIOUS
  <1>6. PlainLeaf(r, i) = a1 \o a2 \o a3 \o a4
    BY <1>1, <1>2, <1>4, <1>5 DEF PlainLeaf, ForEach
  <1>7. a1 \in Within(r, d, zero) /\ a3 \in Within(r, d, zero)
    <2>1. r.leafPorts \in Nat
      BY DEF Buildable
    <2> QED
      BY <1>1, <1>3, <1>5, <2>1, QuietUses
  <1>8. a2 \in Within(r, d, zero)
    <2>1. ASSUME NEW s \in 1..spines
          PROVE  u[s] \in Within(r, d, 0)
      <3>1. s \in Nat /\ Spine(s).index = s /\ Spine(s) \in Devices /\ Spine(s).kind = "spine"
        BY NamedDevices DEF Spine, Device
      <3>2. d # Spine(s)
        BY <1>1, <3>1
      <3> QED
        BY <1>1, <1>3, <1>4, <3>1, <3>2, TrunkUses
    <2>2. u = [s \in 1..spines |-> u[s]]
      BY <1>4
    <2> QED
      BY <1>1, <1>5, <2>1, <2>2, WithinNone
  <1>9. a4 \in Within(r, d, zero)
    BY <1>1, <1>2, <1>3, <1>5, OtherRackUses
  <1>10. a1 \o a2 \in Within(r, d, zero)
    BY <1>1, <1>7, <1>8, WithinBoth
  <1>11. a1 \o a2 \o a3 \in Within(r, d, zero)
    BY <1>1, <1>7, <1>10, WithinBoth
  <1>12. a1 \o a2 \o a3 \o a4 \in Within(r, d, zero)
    BY <1>1, <1>9, <1>11, WithinBoth
  <1> QED
    BY <1>1, <1>6, <1>12

LEMMA PlainReserves ==
    ASSUME NEW r, Buildable(r), r.kind = "plain", NEW d \in Devices, d.kind = "spine"
    PROVE  Uses(PlainFabric(r), d) = 0 \/ Start(r, d) \in Elements(PlainFabric(r))
  <1> DEFINE f == [i \in 1..r.leaves |-> PlainLeaf(r, i)]
  <1>1. r.leaves \in Nat /\ r.spines \in Nat
    BY DEF Buildable
  <1>2. PICK a, b : a = PlainSpines(r) /\ b = FlattenSeq(f)
    OBVIOUS
  <1>3. PlainFabric(r) = a \o b
    BY <1>2 DEF PlainFabric, ForEach
  <1>4. f = [i \in 1..r.leaves |-> f[i]] /\ \A i \in 1..r.leaves : f[i] = PlainLeaf(r, i) /\ i \in Nat
    BY <1>1
  <1> HIDE DEF f
  <1>5. a \in Seq(Calls) /\ b \in Seq(Calls)
    <2>1. Early(r) \subseteq Calls /\ Later(r) \subseteq Calls
      BY DEF Early, Later
    <2>2. \A i \in 1..r.leaves : f[i] \in Seq(Later(r))
      <3>1. \A i \in Nat : PlainLeaf(r, i) \in Seq(Later(r))
        BY PlainLeafUses DEF Within
      <3> QED
        BY <1>4, <3>1
    <2>3. FlattenSeq(f) \in Seq(Later(r))
      BY <1>1, <1>4, <2>2, FlattenType
    <2>4. PlainSpines(r) \in Seq(Early(r))
      BY EarlySpines
    <2> QED
      BY <1>2, <2>1, <2>3, <2>4, SeqSubset
  <1>6. CASE d.index \in 1..r.spines
    <2>1. d = Spine(d.index)
      BY DEF Spine, Device, Devices
    <2>2. Start(r, d) \in Elements(a)
      BY <1>2, <1>6, <2>1, SpinesAreStarted
    <2> QED
      BY <1>3, <1>5, <2>2, ConcatElements
  <1>7. CASE d.index \notin 1..r.spines
    <2>1. b \in Within(r, d, 0)
      <3>1. \A i \in 1..r.leaves : f[i] \in Within(r, d, 0)
        BY <1>4, <1>7, OtherSpinesRest
      <3> QED
        BY <1>1, <1>2, <1>4, <3>1, WithinNone
    <2>2. Uses(a, d) = 0
      <3>1. \A i \in DOMAIN a : a[i] \notin Taking(d)
        <4>1. \A c \in Early(r) : c \notin Taking(d)
          BY DEF Early, OwnStart, Taking, Takes
        <4>2. a \in Seq(Early(r))
          BY <1>2, EarlySpines
        <4> HIDE DEF Early
        <4> QED
          BY <4>1, <4>2
      <3>2. Places(a, Taking(d)) = {}
        BY <3>1 DEF Places
      <3> QED
        BY <3>2, FS_EmptySet DEF Uses
    <2>3. Uses(b, d) = 0
      <3>1. Uses(b, d) <= 0
        BY <2>1 DEF Within
      <3>2. Uses(b, d) \in Nat
        BY <1>5, PlacesFinite DEF Uses
      <3> QED
        BY <3>1, <3>2
    <2>4. Uses(a \o b, d) = Uses(a, d) + Uses(b, d)
      <3>1. \A P : Cardinality(Places(a \o b, P)) = Cardinality(Places(a, P)) + Cardinality(Places(b, P))
        BY <1>5, ConcatPlaces
      <3> QED
        BY <3>1 DEF Uses
    <2> QED
      BY <1>3, <2>2, <2>3, <2>4
  <1> QED
    BY <1>6, <1>7

------------------------------------------------------------------------------
\* The calls that attach a tier to a spine of a pod.

\* Sequences with one of M among calls from S.
Surrounded(S, M) == {cs \in Seq(TierCalls) : \E x, y \in Seq(S), m \in M : cs = x \o (m \o y)}

LEMMA SurroundedAfter ==
    ASSUME NEW S, NEW M, S \subseteq TierCalls, M \subseteq Seq(TierCalls),
           NEW a \in Seq(S), NEW cs \in Surrounded(S, M)
    PROVE  a \o cs \in Surrounded(S, M)
  <1>1. PICK x, y, m : /\ x \in Seq(S) /\ y \in Seq(S) /\ m \in M /\ cs = x \o (m \o y)
                       /\ cs \in Seq(TierCalls)
    BY DEF Surrounded
  <1>2. PICK T : T = TierCalls
    OBVIOUS
  <1>3. a \in Seq(T) /\ x \in Seq(T) /\ y \in Seq(T) /\ m \in Seq(T) /\ cs \in Seq(T)
    BY <1>1, <1>2, SeqSubset
  <1>4. PICK z : z = m \o y
    OBVIOUS
  <1>5. z \in Seq(T)
    BY <1>3, <1>4
  <1>6. a \o (x \o z) = (a \o x) \o z /\ a \o x \in Seq(S) /\ a \o cs \in Seq(T)
    <2>1. a \in Seq(T) /\ x \in Seq(T) /\ z \in Seq(T)
      BY <1>3, <1>5
    <2>2. a \o (x \o z) = (a \o x) \o z
      BY ONLY <2>1, SMTT(60)
    <2> QED
      BY <1>1, <1>3, <2>2
  <1> QED
    BY <1>1, <1>2, <1>4, <1>6 DEF Surrounded

LEMMA SurroundedBefore ==
    ASSUME NEW S, NEW M, S \subseteq TierCalls, M \subseteq Seq(TierCalls),
           NEW b \in Seq(S), NEW cs \in Surrounded(S, M)
    PROVE  cs \o b \in Surrounded(S, M)
  <1>1. PICK x, y, m : /\ x \in Seq(S) /\ y \in Seq(S) /\ m \in M /\ cs = x \o (m \o y)
                       /\ cs \in Seq(TierCalls)
    BY DEF Surrounded
  <1>2. PICK T : T = TierCalls
    OBVIOUS
  <1>3. b \in Seq(T) /\ x \in Seq(T) /\ y \in Seq(T) /\ m \in Seq(T) /\ cs \in Seq(T)
    BY <1>1, <1>2, SeqSubset
  <1>4. PICK z : z = m \o y
    OBVIOUS
  <1>5. z \in Seq(T) /\ z \o b = m \o (y \o b)
    BY <1>3, <1>4
  <1>6. (x \o z) \o b = x \o (z \o b) /\ y \o b \in Seq(S) /\ cs \o b \in Seq(T)
    <2>0. z \in Seq(T) /\ x \in Seq(T) /\ b \in Seq(T)
      BY <1>3, <1>5
    <2>1. (x \o z) \o b = x \o (z \o b)
      BY ONLY <2>0, SMTT(60)
    <2>2. y \o b \in Seq(S)
      BY <1>1
    <2>3. cs \o b \in Seq(T)
      BY <1>3
    <2> QED
      BY <2>1, <2>2, <2>3
  <1>7. cs \o b = x \o (m \o (y \o b))
    BY <1>1, <1>4, <1>5, <1>6
  <1> QED
    BY <1>1, <1>2, <1>6, <1>7 DEF Surrounded

LEMMA SurroundedAlone ==
    ASSUME NEW S, NEW M, M \subseteq Seq(TierCalls), NEW m \in M
    PROVE  m \in Surrounded(S, M)
  <1>1. PICK T : T = TierCalls
    OBVIOUS
  <1>2. m \in Seq(T)
    BY <1>1
  <1>3. PICK e : e = <<>>
    OBVIOUS
  <1>4. e \in Seq(S) /\ m = e \o (m \o e)
    BY <1>2, <1>3
  <1> QED
    BY <1>3, <1>4 DEF Surrounded

LEMMA SurroundedOnce ==
    ASSUME NEW S, NEW M, S \subseteq TierCalls, M \subseteq Seq(TierCalls),
           NEW n \in Nat, NEW seqs, seqs = [j \in 1..n |-> seqs[j]],
           NEW i \in 1..n, seqs[i] \in Surrounded(S, M),
           \A j \in 1..n : j # i => seqs[j] \in Seq(S)
    PROVE  FlattenSeq(seqs) \in Surrounded(S, M)
  <1> DEFINE P == [k \in 0..n |-> IF k < i THEN Seq(S) ELSE Surrounded(S, M)]
  <1>1. seqs \in Seq(Seq(TierCalls)) /\ Len(seqs) = n
    <2>1. Seq(S) \subseteq Seq(TierCalls) /\ Surrounded(S, M) \subseteq Seq(TierCalls)
      BY SeqSubset DEF Surrounded
    <2>2. \A j \in 1..n : seqs[j] \in Seq(TierCalls)
      BY <2>1
    <2>3. seqs \in [1..n -> Seq(TierCalls)]
      BY <2>2
    <2> QED
      BY <2>3
  <1>2. <<>> \in P[0]
    <2>1. <<>> \in Seq(S)
      OBVIOUS
    <2> QED
      BY <2>1
  <1>3. ASSUME NEW k \in 1..Len(seqs), NEW a \in P[k - 1] \cap Seq(TierCalls)
        PROVE  a \o seqs[k] \in P[k]
    <2>1. k \in 1..n /\ k \in 0..n /\ k - 1 \in 0..n
      BY <1>1
    <2>2. CASE k < i
      <3>1. a \in Seq(S) /\ seqs[k] \in Seq(S)
        BY <2>1, <2>2
      <3>2. a \o seqs[k] \in Seq(S)
        BY <3>1
      <3> QED
        BY <2>1, <2>2, <3>2
    <2>3. CASE k = i
      <3>1. a \in Seq(S) /\ seqs[k] \in Surrounded(S, M)
        BY <2>1, <2>3
      <3>2. a \o seqs[k] \in Surrounded(S, M)
        BY <3>1, SurroundedAfter
      <3> QED
        BY <2>1, <2>3, <3>2
    <2>4. CASE k > i
      <3>1. a \in Surrounded(S, M) /\ seqs[k] \in Seq(S)
        BY <2>1, <2>4
      <3>2. a \o seqs[k] \in Surrounded(S, M)
        BY <3>1, SurroundedBefore
      <3> QED
        BY <2>1, <2>4, <3>2
    <2> QED
      BY <2>1, <2>2, <2>3, <2>4
  <1>4. FlattenSeq(seqs) \in P[Len(seqs)] \cap Seq(TierCalls)
    <2> HIDE DEF P
    <2> QED
      BY <1>1, <1>2, <1>3, FlattenInduction
  <1>5. n \in 0..n /\ ~ (n < i)
    OBVIOUS
  <1> QED
    BY <1>1, <1>4, <1>5

\* The links to a spine of a pod, and everything else.
Onto(pod, d) == {c \in TierCalls : c.call = "createExternalLink" /\ c.pod = pod /\ c.d2 = d}
Beside(pod, d) == TierCalls \ Onto(pod, d)

\* All that is attached to it: its ports are set, and then there are n links.
Attachment(pod, d, n, ports) ==
    {StartAt(d, 1) \o (EndAt(d, ports) \o run) : run \in {s \in Seq(Onto(pod, d)) : Len(s) = n}}

LEMMA AttachmentCalls ==
    ASSUME NEW pod \in Nat, NEW d \in Devices, NEW n \in Nat, NEW ports \in Nat
    PROVE  /\ Onto(pod, d) \subseteq TierCalls /\ Beside(pod, d) \subseteq TierCalls
           /\ Attachment(pod, d, n, ports) \subseteq Seq(TierCalls)
           /\ \A e \in Devices : /\ StartAt(e, 1) \in Seq(Beside(pod, d))
                                 /\ EndAt(e, ports) \in Seq(Beside(pod, d))
  <1>1. ASSUME NEW e \in Devices
        PROVE  StartAt(e, 1) \in Seq(Beside(pod, d)) /\ EndAt(e, ports) \in Seq(Beside(pod, d))
    <2>1. PICK start, end : /\ start = [call |-> "startAt", device |-> e, port |-> 1]
                            /\ end = [call |-> "endAt", device |-> e, port |-> ports]
      OBVIOUS
    <2>2. start \in Calls /\ start.call = "startAt" /\ end \in Calls /\ end.call = "endAt"
      BY <2>1 DEF Calls
    <2>3. start \in Beside(pod, d) /\ end \in Beside(pod, d)
      BY <2>2 DEF Beside, Onto, TierCalls
    <2> QED
      BY <2>1, <2>3 DEF StartAt, EndAt
  <1>2. Onto(pod, d) \subseteq TierCalls /\ Beside(pod, d) \subseteq TierCalls
    BY DEF Onto, Beside
  <1>3. StartAt(d, 1) \in Seq(TierCalls) /\ EndAt(d, ports) \in Seq(TierCalls)
    BY <1>1, <1>2, SeqSubset
  <1>6. PICK T : T = TierCalls
    OBVIOUS
  <1>7. ASSUME NEW run \in Seq(Onto(pod, d))
        PROVE  StartAt(d, 1) \o (EndAt(d, ports) \o run) \in Seq(T)
    <2>1. run \in Seq(T) /\ StartAt(d, 1) \in Seq(T) /\ EndAt(d, ports) \in Seq(T)
      BY <1>2, <1>3, <1>6, SeqSubset
    <2> QED
      BY <2>1
  <1>8. Attachment(pod, d, n, ports) \subseteq Seq(TierCalls)
    BY <1>6, <1>7 DEF Attachment
  <1> QED
    BY <1>1, <1>2, <1>8

LEMMA ConcatLength ==
    ASSUME NEW S, NEW a \in Seq(S), NEW b \in Seq(S)
    PROVE  a \o b \in Seq(S) /\ Len(a \o b) = Len(a) + Len(b)
  OBVIOUS

\* A trunk of two links for each superspine.
PodTrunks(n, s, pod) == FlattenSeq([t \in 1..n |-> ExternalTrunk(Superspine(t), Spine(s), pod, 2)])

LEMMA TrunksOnto ==
    ASSUME NEW pod \in Nat, NEW s \in Nat, NEW n \in Nat
    PROVE  PodTrunks(n, s, pod) \in Seq(Onto(pod, Spine(s))) /\ Len(PodTrunks(n, s, pod)) = 2 * n
  <1>0. PICK h : h = [t \in 1..n |-> ExternalTrunk(Superspine(t), Spine(s), pod, 2)]
    OBVIOUS
  <1> DEFINE S == Onto(pod, Spine(s))
             P == [k \in 0..n |-> {cs \in Seq(S) : Len(cs) = 2 * k}]
  <1>1. ASSUME NEW t \in 1..n
        PROVE  h[t] \in Seq(S) /\ Len(h[t]) = 2
    <2>1. PICK c : c = [call |-> "createExternalLink", d1 |-> Superspine(t), d2 |-> Spine(s), pod |-> pod]
      OBVIOUS
    <2>2. Superspine(t) \in Devices /\ Spine(s) \in Devices
      BY NamedDevices
    <2>3. c \in Calls /\ c.call = "createExternalLink" /\ c.pod = pod /\ c.d2 = Spine(s)
      BY <2>1, <2>2 DEF Calls
    <2>4. c \in S
      BY <2>3 DEF Onto, TierCalls
    <2>5. h[t] = [i \in 1..2 |-> c]
      BY <1>0, <2>1 DEF ExternalTrunk
    <2> HIDE DEF S
    <2>6. PICK q : q = h[t]
      OBVIOUS
    <2>7. [i \in 1..2 |-> c] \in Seq(S)
      BY <2>4
    <2>8. q \in Seq(S) /\ DOMAIN q = 1..2
      BY <2>5, <2>6, <2>7
    <2>9. Len(q) = 2
      BY ONLY <2>8
    <2> QED
      BY <2>6, <2>8, <2>9
  <1> HIDE DEF S
  <1>2. h \in Seq(Seq(S)) /\ Len(h) = n
    <2>1. h \in [1..n -> Seq(S)]
      BY <1>0, <1>1
    <2> QED
      BY <2>1
  <1>3. <<>> \in P[0]
    OBVIOUS
  <1>4. ASSUME NEW k \in 1..Len(h), NEW a \in P[k - 1] \cap Seq(S)
        PROVE  a \o h[k] \in P[k]
    <2>1. k \in 1..n /\ k \in 0..n /\ k - 1 \in 0..n
      BY <1>2
    <2>2. Len(a) = 2 * (k - 1) /\ a \in Seq(S) /\ h[k] \in Seq(S) /\ Len(h[k]) = 2
      BY <1>1, <2>1
    <2>3. a \o h[k] \in Seq(S) /\ Len(a \o h[k]) = 2 * (k - 1) + 2
      <3>1. PICK b, i : b = h[k] /\ i = 2 * (k - 1)
        OBVIOUS
      <3>2. a \in Seq(S) /\ b \in Seq(S) /\ Len(a) = i /\ Len(b) = 2
        BY <2>2, <3>1
      <3>3. a \o b \in Seq(S) /\ Len(a \o b) = Len(a) + Len(b)
        BY <3>2, ConcatLength
      <3> QED
        BY <3>1, <3>2, <3>3
    <2>4. 2 * (k - 1) + 2 = 2 * k
      BY <2>1
    <2> QED
      BY <2>1, <2>3, <2>4
  <1>5. FlattenSeq(h) \in P[Len(h)] \cap Seq(S)
    <2> HIDE DEF P
    <2> QED
      BY <1>2, <1>3, <1>4, FlattenInduction
  <1>6. n \in 0..n
    OBVIOUS
  <1> QED
    BY <1>0, <1>2, <1>5, <1>6 DEF S, PodTrunks

\* Every spine of every pod is attached once.
LEMMA TierAttaches ==
    ASSUME NEW r, Buildable(r), r.kind = "tier", NEW at \in 1..r.pods, NEW id \in 1..r.podSpines
    PROVE  SuperSpineTier(r) \in
               Surrounded(Beside(at, Spine(id)), Attachment(at, Spine(id), 2 * r.superspines, r.superspinePorts))
  <1>1. PICK n \in Nat, m \in Nat, spines \in Nat, ports \in Nat, links \in Nat :
            /\ n = r.superspines /\ m = r.pods /\ spines = r.podSpines /\ ports = r.superspinePorts
            /\ links = 2 * n
    BY DEF Buildable
  <1>2. PICK d \in Devices : d = Spine(id)
    BY NamedDevices
  <1>3. PICK S, M : S = Beside(at, d) /\ M = Attachment(at, d, links, ports)
    OBVIOUS
  <1>4. at \in Nat /\ id \in Nat /\ at \in 1..m /\ id \in 1..spines
    BY <1>1
  <1>5. S \subseteq TierCalls /\ M \subseteq Seq(TierCalls)
    BY <1>1, <1>2, <1>3, <1>4, AttachmentCalls
  <1> DEFINE f == [t \in 1..n |-> Switch(Superspine(t), ports)]
             g == [pod \in 1..m |-> Pod(r, pod)]
             all(pod, s) == StartAt(Spine(s), 1) \o EndAt(Spine(s), ports) \o PodTrunks(n, s, pod)
  <1>6. FlattenSeq(f) \in Seq(S)
    <2>1. ASSUME NEW t \in 1..n
          PROVE  f[t] \in Seq(S)
      <3>1. PICK c : c = [call |-> "createSwitch", device |-> Superspine(t), portCount |-> ports]
        OBVIOUS
      <3>2. Superspine(t) \in Devices
        BY NamedDevices
      <3>3. c \in Calls /\ c.call = "createSwitch"
        BY <3>1, <3>2 DEF Calls
      <3>4. c \in S
        BY <1>3, <3>3 DEF Beside, Onto, TierCalls
      <3> QED
        BY <3>1, <3>4 DEF Switch
    <2>2. f = [t \in 1..n |-> f[t]]
      OBVIOUS
    <2> HIDE DEF f
    <2> QED
      BY <2>1, <2>2, FlattenType
  <1>7. ASSUME NEW pod \in Nat, NEW s \in Nat
        PROVE  /\ all(pod, s) = StartAt(Spine(s), 1) \o (EndAt(Spine(s), ports) \o PodTrunks(n, s, pod))
               /\ PodTrunks(n, s, pod) \in Seq(Onto(pod, Spine(s)))
               /\ Len(PodTrunks(n, s, pod)) = links
               /\ pod = at /\ s = id => all(pod, s) \in M
               /\ ~ (pod = at /\ s = id) => all(pod, s) \in Seq(S)
    <2>1. PICK run : run = PodTrunks(n, s, pod)
      OBVIOUS
    <2>2. run \in Seq(Onto(pod, Spine(s))) /\ Len(run) = links
      <3>1. PodTrunks(n, s, pod) \in Seq(Onto(pod, Spine(s)))
        BY TrunksOnto
      <3>2. Len(PodTrunks(n, s, pod)) = 2 * n
        BY TrunksOnto
      <3> QED
        BY <1>1, <2>1, <3>1, <3>2
    <2>3. Spine(s) \in Devices /\ Spine(s).index = s
      BY NamedDevices
    <2>4. PICK start, end : start = StartAt(Spine(s), 1) /\ end = EndAt(Spine(s), ports)
      OBVIOUS
    <2>5. PICK e \in Devices : e = Spine(s)
      BY <2>3
    <2>6. start \in Seq(Beside(pod, e)) /\ end \in Seq(Beside(pod, e)) /\ Onto(pod, e) \subseteq TierCalls
          /\ Beside(pod, e) \subseteq TierCalls
      BY <2>4, <2>5, AttachmentCalls
    <2>7. PICK T : T = TierCalls
      OBVIOUS
    <2>8. start \in Seq(T) /\ end \in Seq(T) /\ run \in Seq(T)
      BY <2>2, <2>5, <2>6, <2>7, SeqSubset
    <2>9. start \o (end \o run) = start \o end \o run
      BY <2>8
    <2>10. pod = at /\ s = id => start \o (end \o run) \in M
      BY <1>2, <1>3, <2>2, <2>4 DEF Attachment
    <2>11. ASSUME ~ (pod = at /\ s = id)
           PROVE  start \o (end \o run) \in Seq(S)
      <3>1. d.index = id
        BY <1>2, <1>4, NamedDevices
      <3>2. Onto(pod, e) \subseteq S
        BY <1>3, <2>3, <2>5, <2>11, <3>1 DEF Onto, Beside
      <3>3. start \in Seq(S) /\ end \in Seq(S)
        BY <1>1, <1>2, <1>3, <1>4, <2>4, <2>5, AttachmentCalls
      <3>4. run \in Seq(S)
        BY <2>2, <2>5, <3>2, SeqSubset
      <3> QED
        BY <3>3, <3>4
    <2> QED
      BY <2>1, <2>2, <2>4, <2>9, <2>10, <2>11
  <1> DEFINE spine(pod) == [s \in 1..spines |-> all(pod, s)]
  <1>8. ASSUME NEW pod \in Nat
        PROVE  /\ pod = at => Pod(r, pod) \in Surrounded(S, M)
               /\ pod # at => Pod(r, pod) \in Seq(S)
    <2>1. PICK save : save = SavePod(pod)
      OBVIOUS
    <2>2. PICK each : each = FlattenSeq(spine(pod))
      OBVIOUS
    <2>3. Pod(r, pod) = each \o save
      BY <1>1, <2>1, <2>2 DEF Pod, ForEach, PodTrunks
    <2>4. save \in Seq(S)
      <3>1. PICK c : c = [call |-> "savePod", pod |-> pod]
        OBVIOUS
      <3>2. c \in Calls /\ c.call = "savePod"
        BY <3>1 DEF Calls
      <3>3. c \in S
        BY <1>3, <3>2 DEF Beside, Onto, TierCalls
      <3> QED
        BY <2>1, <3>1, <3>3 DEF SavePod
    <2>5. PICK h : h = spine(pod)
      OBVIOUS
    <2> HIDE DEF all
    <2>6. h = [s \in 1..spines |-> h[s]] /\ \A s \in 1..spines : h[s] = all(pod, s) /\ s \in Nat
      BY <2>5
    <2>7. each = FlattenSeq(h)
      BY <2>2, <2>5
    <2> HIDE DEF spine
    <2>8. CASE pod = at
      <3>1. h[id] \in M /\ \A s \in 1..spines : s # id => h[s] \in Seq(S)
        <4>1. \A s \in Nat : /\ s = id => all(pod, s) \in M
                             /\ s # id => all(pod, s) \in Seq(S)
          BY <1>7, <2>8
        <4> QED
          BY <1>4, <2>6, <4>1
      <3>2. h[id] \in Surrounded(S, M)
        BY <1>5, <3>1, SurroundedAlone
      <3>3. each \in Surrounded(S, M)
        BY <1>4, <1>5, <2>6, <2>7, <3>1, <3>2, SurroundedOnce
      <3>4. each \o save \in Surrounded(S, M)
        BY <1>5, <2>4, <3>3, SurroundedBefore
      <3> QED
        BY <2>3, <2>8, <3>4
    <2>9. CASE pod # at
      <3>1. \A s \in 1..spines : h[s] \in Seq(S)
        BY <1>7, <2>6, <2>9
      <3>2. each \in Seq(S)
        BY <2>6, <2>7, <3>1, FlattenType
      <3>3. each \o save \in Seq(S)
        BY <2>4, <3>2
      <3> QED
        BY <2>3, <2>9, <3>3
    <2> QED
      BY <2>8, <2>9
  <1>9. FlattenSeq(g) \in Surrounded(S, M)
    <2>1. g = [pod \in 1..m |-> g[pod]] /\ \A pod \in 1..m : g[pod] = Pod(r, pod) /\ pod \in Nat
      OBVIOUS
    <2> HIDE DEF g
    <2>2. g[at] \in Surrounded(S, M) /\ \A pod \in 1..m : pod # at => g[pod] \in Seq(S)
      BY <1>4, <1>8, <2>1
    <2> QED
      BY <1>4, <1>5, <2>1, <2>2, SurroundedOnce
  <1>10. SuperSpineTier(r) = FlattenSeq(f) \o FlattenSeq(g)
    BY <1>1 DEF SuperSpineTier, ForEach
  <1> HIDE DEF f, g
  <1>11. FlattenSeq(f) \o FlattenSeq(g) \in Surrounded(S, M)
    BY <1>5, <1>6, <1>9, SurroundedAfter
  <1> QED
    BY <1>1, <1>2, <1>3, <1>10, <1>11

\* What is left of such sequences after the first call.
LEMMA TailOfConcat ==
    ASSUME NEW T, NEW x \in Seq(T), NEW z \in Seq(T), x # <<>>
    PROVE  /\ x \o z # <<>> /\ Head(x \o z) = Head(x) /\ Tail(x \o z) = Tail(x) \o z
           /\ Head(x) \in T /\ Tail(x) \in Seq(T) /\ Len(Tail(x)) + 1 = Len(x) /\ Len(Tail(x)) \in Nat
  OBVIOUS

\* The links of an attachment, and what comes after them.
Rest(pod, d, n) ==
    {cs \in Seq(TierCalls) : \E run \in Seq(Onto(pod, d)), y \in Seq(Beside(pod, d)) :
        Len(run) = n /\ cs = run \o y}

LEMMA RestTail ==
    ASSUME NEW pod \in Nat, NEW d \in Devices, NEW n \in Nat, NEW cs \in Rest(pod, d, n), cs # <<>>
    PROVE  /\ Head(cs) \in TierCalls
           /\ n = 0 => Head(cs) \in Beside(pod, d) /\ Tail(cs) \in Rest(pod, d, n)
           /\ n # 0 => Head(cs) \in Onto(pod, d) /\ Tail(cs) \in Rest(pod, d, n - 1)
  <1>1. PICK run, y : /\ run \in Seq(Onto(pod, d)) /\ y \in Seq(Beside(pod, d))
                      /\ Len(run) = n /\ cs = run \o y /\ cs \in Seq(TierCalls)
    BY DEF Rest
  <1>2. PICK S, O, T : S = Beside(pod, d) /\ O = Onto(pod, d) /\ T = TierCalls
    OBVIOUS
  <1>3. S \subseteq T /\ O \subseteq T
    BY <1>2 DEF Onto, Beside
  <1>4. run \in Seq(T) /\ y \in Seq(T) /\ run \in Seq(O) /\ y \in Seq(S) /\ cs \in Seq(T)
    BY <1>1, <1>2, <1>3, SeqSubset
  <1>5. CASE run = <<>>
    <2>1. cs = y /\ n = 0
      BY <1>1, <1>4, <1>5, EmptyThen
    <2>2. Head(y) \in S /\ Tail(y) \in Seq(S) /\ Tail(y) \in Seq(T)
      BY <1>4, <2>1
    <2>3. Len(run) = 0 /\ Tail(y) = run \o Tail(y)
      BY <1>4, <1>5, <2>2, EmptyThen
    <2>4. Tail(cs) \in Rest(pod, d, n)
      BY <1>1, <1>2, <2>1, <2>2, <2>3 DEF Rest
    <2> QED
      BY <1>2, <1>3, <2>1, <2>2, <2>4
  <1>6. CASE run # <<>>
    <2>1. Head(cs) = Head(run) /\ Tail(cs) = Tail(run) \o y
      BY <1>1, <1>4, <1>6, TailOfConcat
    <2>2. Head(run) \in O /\ Tail(run) \in Seq(O) /\ Len(Tail(run)) + 1 = Len(run) /\ Len(Tail(run)) \in Nat
      BY <1>4, <1>6, TailOfConcat
    <2>3. Tail(cs) \in Seq(T)
      BY <1>4
    <2>4. n # 0 /\ Len(Tail(run)) = n - 1
      BY <1>1, <2>2
    <2>5. Tail(cs) \in Rest(pod, d, n - 1)
      BY <1>1, <1>2, <2>1, <2>2, <2>3, <2>4 DEF Rest
    <2> QED
      BY <1>2, <1>3, <2>1, <2>2, <2>4, <2>5
  <1> QED
    BY <1>5, <1>6

\* The rest of an attachment once its first port is set.
Begun(pod, d, n, ports) ==
    {cs \in Seq(TierCalls) : \E z \in Rest(pod, d, n) : cs = EndAt(d, ports) \o z}

LEMMA BegunTail ==
    ASSUME NEW pod, NEW d, NEW n, NEW ports, NEW cs \in Begun(pod, d, n, ports)
    PROVE  /\ cs # <<>> /\ Head(cs) = [call |-> "endAt", device |-> d, port |-> ports]
           /\ Tail(cs) \in Rest(pod, d, n)
  <1>1. PICK z : z \in Rest(pod, d, n) /\ cs = EndAt(d, ports) \o z
    BY DEF Begun
  <1>2. PICK c : c = [call |-> "endAt", device |-> d, port |-> ports]
    OBVIOUS
  <1>3. PICK T : T = TierCalls \cup {c}
    OBVIOUS
  <1>4. z \in Seq(T) /\ <<c>> \in Seq(T) /\ <<c>> # <<>> /\ Head(<<c>>) = c /\ Tail(<<c>>) = <<>>
    <2>1. z \in Seq(TierCalls)
      BY <1>1 DEF Rest
    <2>2. TierCalls \subseteq T /\ c \in T
      BY <1>3
    <2> QED
      BY <2>1, <2>2, SeqSubset
  <1>5. cs = <<c>> \o z
    BY <1>1, <1>2 DEF EndAt
  <1>6. cs # <<>> /\ Head(cs) = c /\ Tail(cs) = <<>> \o z
    BY <1>4, <1>5, TailOfConcat
  <1>7. <<>> \o z = z
    BY <1>4, EmptyThen
  <1> QED
    BY <1>1, <1>2, <1>6, <1>7

LEMMA Regroup ==
    ASSUME NEW T, NEW a \in Seq(T), NEW b \in Seq(T), NEW c \in Seq(T),
           NEW ab, ab = a \o b, NEW bc, bc = b \o c
    PROVE  ab \o c = a \o bc
  BY SMTT(60)

LEMMA SurroundedTail ==
    ASSUME NEW pod \in Nat, NEW d \in Devices, NEW n \in Nat, NEW ports \in Nat,
           NEW cs \in Surrounded(Beside(pod, d), Attachment(pod, d, n, ports))
    PROVE  /\ cs # <<>>
           /\ \/ /\ Head(cs) \in Beside(pod, d)
                 /\ Tail(cs) \in Surrounded(Beside(pod, d), Attachment(pod, d, n, ports))
              \/ /\ Head(cs) = [call |-> "startAt", device |-> d, port |-> 1]
                 /\ Tail(cs) \in Begun(pod, d, n, ports)
  <1>1. PICK S, M, T : S = Beside(pod, d) /\ M = Attachment(pod, d, n, ports) /\ T = TierCalls
    OBVIOUS
  <1>2. PICK x, y, m : /\ x \in Seq(S) /\ y \in Seq(S) /\ m \in M /\ cs = x \o (m \o y)
                       /\ cs \in Seq(T)
    BY <1>1 DEF Surrounded
  <1>3. PICK run : /\ run \in Seq(Onto(pod, d)) /\ Len(run) = n
                   /\ m = StartAt(d, 1) \o (EndAt(d, ports) \o run)
    BY <1>1, <1>2 DEF Attachment
  <1>4. /\ S \subseteq T /\ Onto(pod, d) \subseteq T /\ M \subseteq Seq(T)
        /\ StartAt(d, 1) \in Seq(S) /\ EndAt(d, ports) \in Seq(S)
    BY <1>1, AttachmentCalls
  <1>5. PICK start, end : start = StartAt(d, 1) /\ end = EndAt(d, ports)
    OBVIOUS
  <1>6. /\ x \in Seq(T) /\ y \in Seq(T) /\ m \in Seq(T) /\ run \in Seq(T)
        /\ start \in Seq(T) /\ end \in Seq(T)
    BY <1>2, <1>3, <1>4, <1>5, SeqSubset
  <1>7. PICK a, z, v : a = run \o y /\ z = end \o a /\ v = end \o run
    OBVIOUS
  <1>8. a \in Seq(T) /\ z \in Seq(T) /\ v \in Seq(T)
    BY <1>6, <1>7
  <1>9. m \o y = start \o z
    <2>1. v \o y = end \o a
      <3>1. end \in Seq(T) /\ run \in Seq(T) /\ y \in Seq(T) /\ v = end \o run /\ a = run \o y
        BY <1>6, <1>7
      <3> QED
        BY ONLY <3>1, Regroup, SMTT(60)
    <2>2. m = start \o v /\ z = v \o y
      BY <1>3, <1>5, <1>7, <2>1
    <2>3. start \in Seq(T) /\ v \in Seq(T) /\ y \in Seq(T)
      BY <1>6, <1>8
    <2> QED
      BY ONLY <2>2, <2>3, Regroup, SMTT(60)
  <1>10. z \in Begun(pod, d, n, ports)
    <2>1. a \in Rest(pod, d, n)
      BY <1>1, <1>2, <1>3, <1>7, <1>8 DEF Rest
    <2> QED
      BY <1>1, <1>5, <1>7, <1>8, <2>1 DEF Begun
  <1>11. PICK c : c = [call |-> "startAt", device |-> d, port |-> 1]
    OBVIOUS
  <1>12. start # <<>> /\ Head(start) = c /\ Tail(start) = <<>>
    BY <1>5, <1>11 DEF StartAt
  <1>13. PICK w : w = start \o z
    OBVIOUS
  <1>14. w \in Seq(T) /\ w # <<>> /\ Head(w) = c /\ Tail(w) = z
    <2>1. w # <<>> /\ Head(w) = c /\ Tail(w) = <<>> \o z
      <3>1. start \in Seq(T) /\ z \in Seq(T) /\ start # <<>>
        BY <1>6, <1>8, <1>12
      <3>2. start \o z # <<>> /\ Head(start \o z) = Head(start) /\ Tail(start \o z) = Tail(start) \o z
        BY ONLY <3>1, TailOfConcat
      <3> QED
        BY <1>12, <1>13, <3>2
    <2>2. <<>> \o z = z
      BY <1>8, EmptyThen
    <2>3. w \in Seq(T)
      BY <1>6, <1>8, <1>13
    <2> QED
      BY <2>1, <2>2, <2>3
  <1>15. cs = x \o w
    BY <1>2, <1>9, <1>13
  <1>16. CASE x = <<>>
    <2>1. cs = w
      BY <1>14, <1>15, <1>16, EmptyThen
    <2> QED
      BY <1>10, <1>11, <1>14, <2>1
  <1>17. CASE x # <<>>
    <2>1. cs # <<>> /\ Head(cs) = Head(x) /\ Tail(cs) = Tail(x) \o w
      <3>1. x \in Seq(T) /\ w \in Seq(T)
        BY <1>6, <1>14
      <3>2. x \o w # <<>> /\ Head(x \o w) = Head(x) /\ Tail(x \o w) = Tail(x) \o w
        BY ONLY <1>17, <3>1, TailOfConcat, Zenon
      <3> QED
        BY <1>15, <3>2
    <2>2. Head(x) \in S /\ Tail(x) \in Seq(S)
      BY <1>2, <1>17
    <2>3. Tail(cs) \in Seq(T)
      BY <1>2, <2>1
    <2>4. Tail(cs) = Tail(x) \o (m \o y)
      BY <1>9, <1>13, <2>1
    <2>5. Tail(cs) \in Surrounded(S, M)
      BY <1>1, <1>2, <2>2, <2>3, <2>4 DEF Surrounded
    <2> QED
      BY <1>1, <2>1, <2>2, <2>5
  <1> QED
    BY <1>16, <1>17

==============================================================================
