--------------------------- MODULE NetworkProofs ---------------------------
(***************************************************************************)
(* Proofs about the links and buses of Network, for any nodes, links,      *)
(* buses, messages and collectives.  Handlers make their calls one after   *)
(* the other, so the inductive invariant NetInv says, beside what each     *)
(* counter and queue holds, which calls are still to come and what they    *)
(* make good: a link freed and nobody woken for it yet, a bus still to be  *)
(* given back, a queue still to be served.                                 *)
(***************************************************************************)
EXTENDS Network, QueueLemmas

-----------------------------------------------------------------------------
(* The inductive invariant.                                                *)

Call == [call : {"send", "freeOut", "freeIn"}, who : Msgs]
          \cup [call : {"wakeOut", "wakeIn"}, at : Nodes]
          \cup [call : {"freeBus", "serve", "serveIfFree"}]

\* The message that the running handler is about to send, and whether the bus
\* of a message that is over has still to be freed.
Sent(x) == calls # <<>> /\ Head(calls).call = "send" /\ Head(calls).who = x
FreesBus(cs) == \E i \in DOMAIN cs : cs[i].call = "freeBus"
Freeing == FreesBus(calls)

ToDo(c) == c \in ToSet(calls)
ToWakeOut(n) == [call |-> "wakeOut", at |-> n]
ToWakeIn(n)  == [call |-> "wakeIn", at |-> n]
ToFreeOut(m) == [call |-> "freeOut", who |-> m]
ToFreeIn(m)  == [call |-> "freeIn", who |-> m]

HasOut(m) == Infinite(Src(m)) \/ m \in local
HasIn(m)  == Infinite(Dst(m)) \/ m \in partner

Typed ==
    /\ TypeOK /\ config \in Configs /\ route \in Routes
    /\ (\A n \in Nodes : Infinite(n)) \/ (\A n \in Nodes : ~Infinite(n))

\* What handlers still have to do: links before the bus, wake-ups between the
\* freeing of two links, a send at once; or the queue of the bus.
InOrder(cs, outs, ins) ==
    /\ cs \in Seq(Call)
    /\ \A i \in DOMAIN cs :
        /\ cs[i].call \in {"send", "freeOut"} => i = 1
        /\ cs[i].call = "freeBus" => i = Len(cs)
        /\ cs[i].call \in {"serve", "serveIfFree"} => ~FreesBus(cs)
        /\ cs[i].call \in {"freeOut", "freeIn", "wakeOut", "wakeIn"} => FreesBus(cs)
        /\ cs[i].call \in {"wakeOut", "wakeIn"} =>
              \A j \in DOMAIN cs : j <= i => cs[j].call \notin {"freeOut", "freeIn"}
        /\ cs[i].call = "freeOut" => cs[i].who \in outs
        /\ cs[i].call = "freeIn" => i = Len(cs) - 1 /\ cs[i].who \in ins

CallsInOrder == InOrder(calls, local \cap done, partner \cap done)

LinksRight ==
    /\ IsFiniteSet(partner)
    /\ \A m \in local : ~Infinite(Src(m))
    /\ \A m \in partner : ~Infinite(Dst(m))
    /\ \A n \in Nodes : Once(owners[n]) /\ ToSet(owners[n]) = OutUsers(n)
    /\ \A n \in Nodes : ~Infinite(n) =>
        /\ freeOut[n] + Cardinality(OutUsers(n))
             + If(HalfDuplex(n), Cardinality(InUsers(n))) = LinksOut(n)
        /\ freeIn[n] + Cardinality(InUsers(n))
             + If(HalfDuplex(n), Cardinality(OutUsers(n))) = LinksIn(n)

\* An output link that is not at work can be stolen: its owner waits for an
\* input link, or is about to ask for it again.
Stolen == \A m \in local \ partner : m \in ToSet(thForIn[Dst(m)]) \/ Sent(m)

\* A message that is over has no link but those about to be freed.
Returned ==
    \A m \in done \cap Msgs :
        /\ m \in local => ToDo(ToFreeOut(m))
        /\ m \in partner => ToDo(ToFreeIn(m))

QueuesRight ==
    /\ \A n \in Nodes :
        /\ Once(thForOut[n]) /\ Once(thForIn[n])
        /\ \A m \in ToSet(thForOut[n]) : Src(m) = n /\ ~HasOut(m) /\ m \notin partner
        /\ \A m \in ToSet(thForIn[n]) :
              Dst(m) = n /\ HasOut(m) /\ ~HasIn(m) /\ m \in seeking
    /\ Once(queue)
    /\ \A m \in Msgs : m \in moving \/ m \in ToSet(queue) => HasOut(m) /\ HasIn(m)
    /\ \A m \in Msgs : Sent(m) => IF Freeing THEN ~HasIn(m) ELSE HasOut(m) /\ HasIn(m)
    /\ \A m \in Msgs \ asked : m \notin local /\ m \notin partner

Waits(x) == \/ x \in ToSet(queue)
            \/ x \in Msgs /\ (x \in ToSet(thForOut[Src(x)]) \/ x \in ToSet(thForIn[Dst(x)]))

Places ==
    /\ moving \cap done = {}
    /\ \A x \in moving \cup done : ~Waits(x) /\ ~Sent(x)
    /\ \A x \in Users : Sent(x) => ~Waits(x)
    /\ \A x \in Users : x \in asked <=> Waits(x) \/ Sent(x) \/ x \in moving \cup done

WakingOut(n) == \/ ToDo(ToWakeOut(n))
                \/ \E m \in Msgs : Sent(m) /\ Src(m) = n /\ ~HasOut(m)
WakingIn(n) == \/ ToDo(ToWakeIn(n))
               \/ \E m \in Msgs : Sent(m) /\ Dst(m) = n /\ HasOut(m) /\ Freeing

\* Who waits beside a free link is being woken, and there is just one.
Woken ==
    \A n \in Nodes :
        /\ thForOut[n] # <<>> => freeOut[n] = 0 \/ (freeOut[n] = 1 /\ WakingOut(n))
        /\ thForIn[n] # <<>> => freeIn[n] = 0 \/ (freeIn[n] = 1 /\ WakingIn(n))

Serving == IF calls # <<>> /\ Head(calls).call = "send" THEN Len(calls) - 1 ELSE Len(calls)

BusesRight ==
    /\ IsFiniteSet(moving)
    /\ \A g \in Gops \ moving : number[g] > 0 => queue # <<>> /\ Head(queue) = g
    /\ Buses = 0 => queue = <<>> /\ curr = 0
    /\ Buses > 0 =>
        /\ curr <= Buses
        /\ \/ /\ \E g \in Gops : moving = {g}
              /\ curr = Buses /\ Held = 0 /\ ~Freeing
           \/ /\ moving \subseteq Msgs
              /\ curr = Cardinality(moving) + Held + If(Freeing, 1)
        /\ moving \cap Msgs \subseteq ToSet(onNet)
        /\ Freeing /\ queue # <<>> => curr = Buses
    /\ ~Freeing => /\ Serving <= Len(queue)
                   /\ Serving = Len(queue) \/ curr + Len(calls) >= Buses

NetInv ==
    /\ Typed /\ CallsInOrder
    /\ LinksRight /\ Stolen /\ Returned /\ QueuesRight /\ Places /\ Woken /\ BusesRight
    /\ ~aborted

-----------------------------------------------------------------------------
(* The ways to a link.                                                     *)

LEMMA NodesOf ==
    ASSUME Typed
    PROVE  /\ config \in [Nodes -> [in : Nat, out : Nat]]
           /\ \A m \in Msgs : Src(m) \in Nodes /\ Dst(m) \in Nodes /\ Src(m) # Dst(m)
           /\ \A m \in Msgs : Infinite(Src(m)) <=> Infinite(Dst(m))
<1>1. config \in [Nodes -> [in : Nat, out : Nat]]
  BY ConfigsAssumption DEF Typed
<1>2. route \in [Msgs -> [src : Nodes, dst : Nodes]] /\ \A m \in Msgs : route[m].src # route[m].dst
  BY RoutesAssumption DEF Typed
<1>3. \A m \in Msgs : Src(m) \in Nodes /\ Dst(m) \in Nodes /\ Src(m) # Dst(m)
  BY <1>2 DEF Src, Dst
<1> QED BY <1>1, <1>3 DEF Typed

\* really_send is called for a message that is nowhere else.
Ready(m) == (calls = <<>> /\ m \notin asked) \/ Sent(m)

LEMMA ReadyIs ==
    ASSUME NetInv, NEW m \in Msgs, Ready(m)
    PROVE  /\ ~Waits(m) /\ m \notin moving /\ m \notin done
           /\ \A x : Sent(x) => x = m
           /\ m \in partner => HasOut(m)
<1>1. CASE calls = <<>> /\ m \notin asked
  <2>1. m \in Users
    BY DEF Users
  <2> QED BY <1>1, <2>1 DEF NetInv, Places, QueuesRight, Sent
<1>2. CASE Sent(m)
  <2>1. m \in Users
    BY DEF Users
  <2>2. m \in partner => HasOut(m)
    BY <1>2 DEF NetInv, QueuesRight, HasIn
  <2> QED BY <1>2, <2>1, <2>2 DEF NetInv, Places, Sent
<1> QED BY <1>1, <1>2 DEF Ready

LEMMA Robbing ==
    ASSUME NetInv, NEW n \in Nodes, Robable(n)
    PROVE  LET v == Victim(n)
           IN  /\ v \in Msgs /\ v \in ToSet(owners[n])
               /\ v \in local /\ v \notin partner /\ Src(v) = n
               /\ v \in ToSet(thForIn[Dst(v)]) \/ Sent(v)
<1> DEFINE Fit(i) == /\ Stealable(owners[n][i])
                     /\ \A j \in 1 .. (i - 1) : ~Stealable(owners[n][j])
           D == {i \in DOMAIN owners[n] : Stealable(owners[n][i])}
<1>1. owners[n] \in Seq(Msgs) /\ DOMAIN owners[n] = 1 .. Len(owners[n]) /\ Len(owners[n]) \in Nat
  BY DEF NetInv, Typed, TypeOK
<1>2. D \in SUBSET Nat /\ D # {}
  BY <1>1 DEF Robable
<1>3. PICK k \in D : \A j \in D : k <= j
  <2> HIDE DEF D
  <2> QED BY <1>2, LeastElement
<1>4. k \in DOMAIN owners[n] /\ Fit(k)
  <2>1. \A j \in 1 .. (k - 1) : j \in DOMAIN owners[n] /\ ~(k <= j)
    BY <1>1, <1>3
  <2> QED BY <1>3, <2>1
<1> DEFINE i == CHOOSE i \in DOMAIN owners[n] : Fit(i)
<1>5. i \in DOMAIN owners[n] /\ Fit(i)
  <2> HIDE DEF Fit
  <2> QED BY <1>4
<1>6. Victim(n) = owners[n][i]
  BY DEF Victim
<1> HIDE DEF i
<1>7. Victim(n) \in ToSet(owners[n]) /\ Victim(n) \in Msgs /\ Victim(n) \notin partner
  BY <1>1, <1>5, <1>6 DEF ToSet, Stealable
<1>8. Victim(n) \in local /\ Src(Victim(n)) = n
  BY <1>7 DEF NetInv, LinksRight, OutUsers
<1> QED BY <1>7, <1>8 DEF NetInv, Stolen

LEMMA OutWays ==
    ASSUME NetInv, NEW m \in Msgs
    PROVE  /\ OutWay(m) \in {"have", "free", "rob", "wait"}
           /\ OutWay(m) = "have" <=> HasOut(m)
           /\ OutWay(m) = "free" => freeOut[Src(m)] > 0
           /\ OutWay(m) \in {"rob", "wait"} => freeOut[Src(m)] = 0
           /\ OutWay(m) = "rob" => Robable(Src(m))
<1>1. freeOut[Src(m)] \in Nat
  BY NodesOf DEF NetInv, Typed, TypeOK
<1> QED BY <1>1 DEF OutWay, HasOut

LEMMA InWays ==
    ASSUME NetInv, NEW m \in Msgs
    PROVE  /\ InWay(m) \in {"have", "free", "rob", "wait"}
           /\ InWay(m) = "have" <=> HasIn(m)
           /\ InWay(m) = "free" => freeIn[Dst(m)] > 0
           /\ InWay(m) \in {"rob", "wait"} => freeIn[Dst(m)] = 0
           /\ InWay(m) = "rob" => HalfDuplex(Dst(m)) /\ Robable(Dst(m))
<1>1. freeIn[Dst(m)] \in Nat
  BY NodesOf DEF NetInv, Typed, TypeOK
<1> QED BY <1>1 DEF InWay, HasIn

\* Links of half-duplex nodes are free in pairs.
LEMMA Twins ==
    ASSUME NetInv, NEW n \in Nodes, ~Infinite(n)
    PROVE  /\ IsFiniteSet(OutUsers(n)) /\ IsFiniteSet(InUsers(n))
           /\ Cardinality(OutUsers(n)) \in Nat /\ Cardinality(InUsers(n)) \in Nat
           /\ freeOut[n] \in Nat /\ freeIn[n] \in Nat
           /\ HalfDuplex(n) => freeOut[n] = freeIn[n]
<1>1. owners[n] \in Seq(Msgs) /\ Once(owners[n]) /\ ToSet(owners[n]) = OutUsers(n)
  BY DEF NetInv, Typed, TypeOK, LinksRight
<1>2. IsFiniteSet(OutUsers(n)) /\ IsFiniteSet(InUsers(n))
  <2>1. IsFiniteSet(OutUsers(n))
    BY <1>1, OnceCounts
  <2>2. IsFiniteSet(partner) /\ InUsers(n) \in SUBSET partner
    BY DEF NetInv, LinksRight, InUsers
  <2> QED BY <2>1, <2>2, FS_Subset
<1>3. Cardinality(OutUsers(n)) \in Nat /\ Cardinality(InUsers(n)) \in Nat
  BY <1>2, FS_CardinalityType
<1>4. freeOut[n] \in Nat /\ freeIn[n] \in Nat
  BY DEF NetInv, Typed, TypeOK
<1>5. config[n].in \in Nat /\ config[n].out \in Nat
  BY NodesOf DEF NetInv
<1>6. HalfDuplex(n) => LinksOut(n) = LinksIn(n)
  BY <1>5 DEF HalfDuplex, LinksOut, LinksIn
<1>7. HalfDuplex(n) =>
        /\ freeOut[n] + Cardinality(OutUsers(n)) + Cardinality(InUsers(n)) = LinksOut(n)
        /\ freeIn[n] + Cardinality(InUsers(n)) + Cardinality(OutUsers(n)) = LinksIn(n)
  BY DEF NetInv, LinksRight, If
<1> QED BY <1>2, <1>3, <1>4, <1>6, <1>7

\* A link is stolen from a message that waits for another one.
LEMMA VictimWaits ==
    ASSUME NetInv, NEW m \in Msgs, Ready(m), NEW n \in Nodes, Robable(n),
           \/ n = Src(m) /\ ~HasOut(m)
           \/ n = Dst(m)
    PROVE  LET v == Victim(n)
           IN  /\ v \in Msgs \ {m} /\ v \in ToSet(owners[n])
               /\ v \in local /\ v \notin partner /\ Src(v) = n
               /\ v \in ToSet(thForIn[Dst(v)]) /\ v \in seeking
               /\ VictimFound(n)
<1> DEFINE v == Victim(n)
<1>1. /\ v \in Msgs /\ v \in ToSet(owners[n]) /\ v \in local /\ v \notin partner /\ Src(v) = n
      /\ v \in ToSet(thForIn[Dst(v)]) \/ Sent(v)
  BY Robbing
<1> HIDE DEF v
<1>2. v # m
  BY <1>1, NodesOf DEF HasOut, NetInv
<1>3. v \in ToSet(thForIn[Dst(v)])
  BY <1>1, <1>2, ReadyIs
<1>4. v \in seeking /\ Dst(v) \in Nodes
  BY <1>1, <1>3, NodesOf DEF NetInv, QueuesRight
<1>5. thForIn[Dst(v)] \in Seq(Msgs)
  BY <1>4 DEF NetInv, Typed, TypeOK
<1>6. Contains(thForIn[Dst(v)], v)
  BY <1>3, <1>5 DEF Contains, ToSet
<1> QED BY <1>1, <1>2, <1>3, <1>4, <1>6 DEF VictimFound, v

\* No assertion of links.c fails.
LEMMA NeverFails ==
    ASSUME NetInv, NEW m \in Msgs, Ready(m)
    PROVE  ~Fails(m, OutWay(m), InWay(m))
<1>1. OutWay(m) = "rob" => VictimFound(Src(m))
  BY OutWays, VictimWaits, NodesOf DEF NetInv
<1>2. InWay(m) = "rob" => VictimFound(Dst(m))
  BY InWays, VictimWaits, NodesOf DEF NetInv
<1>3. OutWay(m) = "free" /\ HalfDuplex(Src(m)) => freeIn[Src(m)] # 0
  BY OutWays, Twins, NodesOf DEF NetInv, HasOut
<1>4. InWay(m) = "free" /\ HalfDuplex(Dst(m)) => freeOut[Dst(m)] # 0
  BY InWays, Twins, NodesOf DEF NetInv, HasIn
<1> QED BY <1>1, <1>2, <1>3, <1>4 DEF Fails

-----------------------------------------------------------------------------
(* The calls that are left.                                                *)

LEMMA TailInOrder ==
    ASSUME NEW cs, NEW outs, NEW ins, InOrder(cs, outs, ins), cs # <<>>,
           Head(cs).call # "freeBus", NEW outs2, NEW ins2,
           ins \subseteq ins2 \/ Head(cs).call = "freeIn"
    PROVE  /\ InOrder(Tail(cs), outs2, ins2)
           /\ FreesBus(Tail(cs)) <=> FreesBus(cs)
           /\ \A c \in ToSet(Tail(cs)) : c.call \notin {"send", "freeOut"}
           /\ ToSet(cs) = ToSet(Tail(cs)) \cup {Head(cs)}
           /\ Head(cs) \in Call /\ Len(cs) = Len(Tail(cs)) + 1 /\ Len(Tail(cs)) \in Nat
           /\ Tail(cs) \in Seq(Call) /\ (Tail(cs) # <<>> => Head(Tail(cs)) \in ToSet(Tail(cs)))
<1> DEFINE t == Tail(cs)
<1>1. /\ t \in Seq(Call) /\ Head(cs) \in Call /\ Head(cs) = cs[1]
      /\ DOMAIN cs = 1 .. Len(cs) /\ Len(cs) \in Nat \ {0}
      /\ DOMAIN t = 1 .. Len(cs) - 1 /\ Len(t) = Len(cs) - 1
      /\ \A i \in DOMAIN t : t[i] = cs[i + 1]
  BY TailPositions DEF InOrder
<1> HIDE DEF t
<1>2. \A i \in DOMAIN t : /\ i \in Nat /\ i + 1 \in DOMAIN cs /\ i + 1 # 1
                          /\ i + 1 = Len(cs) => i = Len(t)
                          /\ i + 1 = Len(cs) - 1 => i = Len(t) - 1
  BY <1>1
<1>3. \A i \in DOMAIN cs : i = 1 \/ (i - 1 \in DOMAIN t /\ cs[i] = t[i - 1])
  BY <1>1
<1>4. ToSet(cs) = ToSet(t) \cup {Head(cs)}
  BY <1>1, <1>2, <1>3 DEF ToSet
<1>5. FreesBus(t) <=> FreesBus(cs)
  BY <1>1, <1>2, <1>3 DEF FreesBus
<1>6. \A i \in DOMAIN t : t[i].call \notin {"send", "freeOut"}
  BY <1>1, <1>2 DEF InOrder
<1>7. ASSUME NEW i \in DOMAIN t, t[i].call \in {"wakeOut", "wakeIn"},
             NEW j \in DOMAIN t, j <= i
      PROVE  t[j].call \notin {"freeOut", "freeIn"}
  <2>1. j + 1 <= i + 1
    BY <1>2, <1>7
  <2> QED BY <1>1, <1>2, <1>7, <2>1 DEF InOrder
<1>8. ASSUME NEW i \in DOMAIN t, t[i].call = "freeIn"
      PROVE  i = Len(t) - 1 /\ t[i].who \in ins2
  <2>1. i + 1 = Len(cs) - 1 /\ t[i].who \in ins
    BY <1>1, <1>2, <1>8 DEF InOrder
  <2>2. Head(cs).call # "freeIn"
    <3>1. 1 # Len(cs) - 1 /\ 1 \in DOMAIN cs
      BY <1>1, <1>2, <2>1
    <3> QED BY <1>1, <3>1 DEF InOrder
  <2> QED BY <1>2, <2>1, <2>2
<1>9. ASSUME NEW i \in DOMAIN t
      PROVE  /\ t[i].call = "freeBus" => i = Len(t)
             /\ t[i].call \in {"serve", "serveIfFree"} => ~FreesBus(t)
             /\ t[i].call \in {"freeOut", "freeIn", "wakeOut", "wakeIn"} => FreesBus(t)
  BY <1>1, <1>2, <1>5 DEF InOrder
<1>10. InOrder(t, outs2, ins2)
  BY <1>1, <1>6, <1>7, <1>8, <1>9 DEF InOrder
<1>11. \A c \in ToSet(t) : c.call \notin {"send", "freeOut"}
  BY <1>6 DEF ToSet
<1>12. Len(cs) = Len(t) + 1 /\ Len(t) \in Nat
  BY <1>1
<1>13. t # <<>> => Head(t) \in ToSet(t)
  BY <1>1, TailPositions DEF ToSet
<1> QED BY <1>1, <1>4, <1>5, <1>10, <1>11, <1>12, <1>13 DEF t

LEMMA PushInOrder ==
    ASSUME NEW cs, NEW outs, NEW ins, InOrder(cs, outs, ins), NEW c \in Call,
           \A x \in ToSet(cs) : x.call \notin {"send", "freeOut"},
           \/ c.call \in {"wakeOut", "wakeIn"} /\ FreesBus(cs)
           \/ c.call = "send"
    PROVE  /\ InOrder(<<c>> \o cs, outs, ins)
           /\ FreesBus(<<c>> \o cs) <=> FreesBus(cs)
           /\ ToSet(<<c>> \o cs) = {c} \cup ToSet(cs)
           /\ Head(<<c>> \o cs) = c /\ <<c>> \o cs # <<>>
           /\ Len(<<c>> \o cs) = Len(cs) + 1
<1> DEFINE p == <<c>> \o cs
<1>1. /\ cs \in Seq(Call) /\ p \in Seq(Call) /\ Len(cs) \in Nat /\ DOMAIN cs = 1 .. Len(cs)
      /\ DOMAIN p = 1 .. Len(cs) + 1 /\ Len(p) = Len(cs) + 1 /\ p[1] = c /\ p # <<>>
      /\ Head(p) = c
      /\ \A i \in DOMAIN cs : p[i + 1] = cs[i]
  BY DEF InOrder
<1>2. ToSet(p) = {c} \cup ToSet(cs)
  BY <1>1, PrependElements
<1> HIDE DEF p
<1>3. \A i \in DOMAIN p : \/ i = 1
                          \/ /\ i - 1 \in DOMAIN cs /\ p[i] = cs[i - 1] /\ i \in Nat
                             /\ i - 1 = Len(cs) => i = Len(p)
                             /\ i - 1 = Len(cs) - 1 => i = Len(p) - 1
  BY <1>1
<1>4. \A i \in DOMAIN cs : i + 1 \in DOMAIN p
  BY <1>1
<1>5. FreesBus(p) <=> FreesBus(cs)
  BY <1>1, <1>3, <1>4 DEF FreesBus
<1>6. \A i \in DOMAIN cs : cs[i].call \notin {"send", "freeOut"}
  BY DEF ToSet
<1>7. ASSUME NEW i \in DOMAIN p, p[i].call \in {"wakeOut", "wakeIn"},
             NEW j \in DOMAIN p, j <= i
      PROVE  p[j].call \notin {"freeOut", "freeIn"}
  <2>1. CASE j = 1
    BY <1>1, <2>1
  <2>2. CASE j # 1
    <3>1. i # 1
      BY <1>1, <1>7, <2>2
    <3>2. /\ i - 1 \in DOMAIN cs /\ p[i] = cs[i - 1]
          /\ j - 1 \in DOMAIN cs /\ p[j] = cs[j - 1] /\ j - 1 <= i - 1
      BY <1>1, <1>3, <1>7, <2>2, <3>1
    <3> QED BY <1>7, <3>2 DEF InOrder
  <2> QED BY <2>1, <2>2
<1>8. ASSUME NEW i \in DOMAIN p
      PROVE  /\ p[i].call \in {"send", "freeOut"} => i = 1
             /\ p[i].call = "freeBus" => i = Len(p)
             /\ p[i].call \in {"serve", "serveIfFree"} => ~FreesBus(p)
             /\ p[i].call \in {"freeOut", "freeIn", "wakeOut", "wakeIn"} => FreesBus(p)
             /\ p[i].call = "freeOut" => p[i].who \in outs
             /\ p[i].call = "freeIn" => i = Len(p) - 1 /\ p[i].who \in ins
  <2>1. CASE i = 1
    BY <1>1, <1>5, <2>1
  <2>2. CASE i # 1
    BY <1>3, <1>5, <1>6, <2>2 DEF InOrder
  <2> QED BY <2>1, <2>2
<1>9. InOrder(p, outs, ins)
  BY <1>1, <1>7, <1>8 DEF InOrder
<1> QED BY <1>1, <1>2, <1>5, <1>9 DEF p

-----------------------------------------------------------------------------
(* Taking links.                                                           *)

\* What became of the links when m came by its own in the ways out and in, and
\* the messages V lost theirs.
Robs(m, out, in, V) ==
    /\ V \subseteq Msgs /\ m \notin V
    /\ \A v \in V : /\ v \in local /\ v \notin partner /\ v \in ToSet(thForIn[Dst(v)])
                    /\ Src(v) \in {Src(m), Dst(m)} /\ freeOut[Src(v)] = 0
    /\ \A n \in Nodes :
          {v \in V : Src(v) = n}
            = IF (n = Src(m) /\ out = "rob") \/ (n = Dst(m) /\ in = "rob")
                THEN {Victim(n)} ELSE {}
    /\ out = "rob" => Victim(Src(m)) \in ToSet(owners[Src(m)])
    /\ in = "rob" => Victim(Dst(m)) \in ToSet(owners[Dst(m)])

LEMMA Victims ==
    ASSUME NetInv, NEW m \in Msgs, Ready(m)
    PROVE  LET s == Src(m)
               d == Dst(m)
               out == OutWay(m)
               in == InWay(m)
               Robbed(n) == (n = s /\ out = "rob") \/ (n = d /\ in = "rob")
           IN  Robs(m, out, in, {Victim(n) : n \in {k \in {s, d} : Robbed(k)}})
<1> DEFINE s == Src(m)
           d == Dst(m)
           out == OutWay(m)
           in == InWay(m)
           Robbed(n) == (n = s /\ out = "rob") \/ (n = d /\ in = "rob")
           V == {Victim(n) : n \in {k \in {s, d} : Robbed(k)}}
<1>1. s \in Nodes /\ d \in Nodes /\ s # d
  BY NodesOf DEF NetInv
<1>2. ASSUME NEW n \in Nodes, Robbed(n)
      PROVE  /\ Victim(n) \in Msgs \ {m} /\ Victim(n) \in ToSet(owners[n])
             /\ Victim(n) \in local /\ Victim(n) \notin partner /\ Src(Victim(n)) = n
             /\ Victim(n) \in ToSet(thForIn[Dst(Victim(n))])
             /\ freeOut[n] = 0
  <2>1. CASE n = s /\ out = "rob"
    <3>1. Robable(s) /\ ~HasOut(m) /\ freeOut[s] = 0
      BY <2>1, OutWays
    <3> QED BY <1>1, <2>1, <3>1, VictimWaits
  <2>2. CASE n = d /\ in = "rob"
    <3>1. Robable(d) /\ HalfDuplex(d) /\ freeIn[d] = 0 /\ ~Infinite(d)
      BY <2>2, InWays DEF HasIn
    <3>2. freeOut[d] = 0
      BY <1>1, <3>1, Twins
    <3> QED BY <1>1, <2>2, <3>1, <3>2, VictimWaits
  <2> QED BY <1>2, <2>1, <2>2
<1> HIDE DEF out, in
<1>3. V = {Victim(n) : n \in {k \in Nodes : Robbed(k)}}
  BY <1>1
<1>4. \A n \in Nodes : {v \in V : Src(v) = n} = IF Robbed(n) THEN {Victim(n)} ELSE {}
  BY <1>2, <1>3
<1>5. Robs(m, out, in, V)
  BY <1>1, <1>2, <1>3, <1>4 DEF Robs
<1> QED BY <1>5 DEF out, in

\* The owners and the counts of one node.
LEMMA NodeGrabbed ==
    ASSUME NetInv, input' = input, NEW m \in Msgs, Ready(m), NEW V, NEW out, NEW in,
           out = OutWay(m), in = InWay(m), out # "wait", Robs(m, out, in, V),
           V = {Victim(n) : n \in {k \in {Src(m), Dst(m)} :
                  (k = Src(m) /\ out = "rob") \/ (k = Dst(m) /\ in = "rob")}},
           Grab(m, out, in), NEW n \in Nodes
    PROVE  /\ owners'[n] \in Seq(Msgs) /\ Once(owners'[n]) /\ ToSet(owners'[n]) = OutUsers(n)'
           /\ freeOut'[n] \in Nat /\ freeIn'[n] \in Nat
           /\ freeOut'[n] <= freeOut[n] /\ freeIn'[n] <= freeIn[n]
           /\ out = "free" => freeOut'[Src(m)] = freeOut[Src(m)] - 1
           /\ in = "free" => freeIn'[Dst(m)] = freeIn[Dst(m)] - 1
           /\ ~Infinite(n) =>
                /\ freeOut'[n] + Cardinality(OutUsers(n)')
                     + If(HalfDuplex(n), Cardinality(InUsers(n)')) = LinksOut(n)
                /\ freeIn'[n] + Cardinality(InUsers(n)')
                     + If(HalfDuplex(n), Cardinality(OutUsers(n)')) = LinksIn(n)
<1> DEFINE s == Src(m)
           d == Dst(m)
           robbed == (n = s /\ out = "rob") \/ (n = d /\ in = "rob")
           v == Victim(n)
<1>0. s \in Nodes /\ d \in Nodes /\ s # d
  BY NodesOf DEF NetInv
<1>1. /\ out \in {"have", "free", "rob"} /\ in \in {"have", "free", "rob", "wait"}
      /\ out # "have" => ~Infinite(s) /\ m \notin local
      /\ in # "have" => ~Infinite(d) /\ m \notin partner
      /\ out = "free" => freeOut[s] > 0
      /\ in = "free" => freeIn[d] > 0
      /\ in = "rob" => HalfDuplex(d)
  BY OutWays, InWays DEF HasOut, HasIn
<1> HIDE DEF v
<1>2. /\ local' = (local \ V) \cup (IF out # "have" THEN {m} ELSE {})
      /\ partner' = partner \cup (IF in \in {"free", "rob"} THEN {m} ELSE {})
  BY <1>1 DEF Grab
<1>16. \A k \in Nodes :
        /\ freeOut'[k] = freeOut[k] - If(k = s /\ out = "free", 1)
                         - If(k = d /\ in = "free" /\ HalfDuplex(k), 1)
        /\ freeIn'[k] = freeIn[k] - If(k = d /\ in = "free", 1)
                         - If(k = s /\ out = "free" /\ HalfDuplex(k), 1)
  BY DEF Grab
<1>17. owners'[n] = CASE n = s /\ out = "free" -> Append(owners[n], m)
                        [] n = s /\ out = "rob"  -> ReplaceAll(owners[n], v, m)
                        [] n = d /\ in = "rob"   -> Without(owners[n], V)
                        [] OTHER -> owners[n]
  BY DEF Grab, v
<1>3. /\ owners[n] \in Seq(Msgs) /\ Once(owners[n]) /\ ToSet(owners[n]) = OutUsers(n)
      /\ Len(owners[n]) = Cardinality(OutUsers(n)) /\ Len(owners[n]) \in Nat
  <2>1. owners[n] \in Seq(Msgs) /\ Once(owners[n]) /\ ToSet(owners[n]) = OutUsers(n)
    BY DEF NetInv, Typed, TypeOK, LinksRight
  <2> QED BY <2>1, OnceCounts
<1>4. \A x : Src(x)' = Src(x) /\ Dst(x)' = Dst(x)
  BY DEF input, Src, Dst
<1>5. {x \in V : Src(x) = n} = IF robbed THEN {v} ELSE {}
  BY DEF Robs, v
<1>6. OutUsers(n)' = (OutUsers(n) \ (IF robbed THEN {v} ELSE {}))
                       \cup (IF n = s /\ out # "have" THEN {m} ELSE {})
  BY <1>2, <1>4, <1>5 DEF OutUsers
<1>7. InUsers(n)' = InUsers(n) \cup (IF n = d /\ in \in {"free", "rob"} THEN {m} ELSE {})
  BY <1>2, <1>4 DEF InUsers
<1>8. n = s /\ out # "have" => m \notin OutUsers(n)
  BY <1>1 DEF OutUsers
<1>9. robbed => v \in OutUsers(n)
  BY <1>3 DEF Robs, v
<1>10. /\ owners'[n] \in Seq(Msgs) /\ Once(owners'[n]) /\ ToSet(owners'[n]) = OutUsers(n)'
       /\ Len(owners'[n]) = Len(owners[n]) + If(n = s /\ out = "free", 1)
                                           - If(n = d /\ in = "rob", 1)
  <2>1. CASE n = s /\ out = "free"
    <3>1. owners'[n] = Append(owners[n], m)
      BY <1>0, <1>17, <2>1
    <3>2. OutUsers(n)' = OutUsers(n) \cup {m}
      BY <1>0, <1>6, <2>1
    <3> QED BY <1>0, <1>3, <1>8, <2>1, <3>1, <3>2, AppendPositions, AppendElements, AppendOnce DEF If
  <2>2. CASE n = s /\ out = "rob"
    <3>1. owners'[n] = ReplaceAll(owners[n], v, m)
      BY <1>0, <1>17, <2>2
    <3>2. OutUsers(n)' = (OutUsers(n) \ {v}) \cup {m}
      BY <1>0, <1>6, <2>2
    <3> QED BY <1>0, <1>3, <1>8, <1>9, <2>2, <3>1, <3>2, ReplaceElements DEF If
  <2>3. CASE n = d /\ in = "rob"
    <3>1. owners'[n] = Without(owners[n], V)
      BY <1>0, <1>17, <2>3
    <3>2. OutUsers(n)' = OutUsers(n) \ {v}
      BY <1>0, <1>6, <2>3
    <3>3. OutUsers(n) \ V = OutUsers(n) \ {v}
      BY <1>5, <2>3 DEF OutUsers
    <3>4. owners'[n] \in Seq(Msgs) /\ Once(owners'[n]) /\ ToSet(owners'[n]) = OutUsers(n)'
      BY <1>3, <3>1, <3>2, <3>3, WithoutElements
    <3>5. Len(owners'[n]) = Cardinality(OutUsers(n)')
      BY <3>4, OnceCounts
    <3>6. Cardinality(OutUsers(n) \ {v}) = Cardinality(OutUsers(n)) - 1
      <4>1. IsFiniteSet(OutUsers(n)) /\ v \in OutUsers(n)
        BY <1>3, <1>9, <2>3, OnceCounts
      <4> QED BY <4>1, FS_RemoveElement
    <3> QED BY <1>0, <1>3, <2>3, <3>2, <3>4, <3>5, <3>6 DEF If
  <2>4. CASE ~(n = s /\ out # "have") /\ ~(n = d /\ in = "rob")
    <3>1. owners'[n] = owners[n] /\ OutUsers(n)' = OutUsers(n)
      BY <1>1, <1>6, <1>17, <2>4
    <3> QED BY <1>3, <2>4, <3>1 DEF If
  <2> QED BY <1>1, <2>1, <2>2, <2>3, <2>4
<1>11. Cardinality(OutUsers(n)') = Cardinality(OutUsers(n))
          + If(n = s /\ out = "free", 1) - If(n = d /\ in = "rob", 1)
  <2>1. Len(owners'[n]) = Cardinality(OutUsers(n)')
    BY <1>10, OnceCounts
  <2> QED BY <1>3, <1>10, <2>1
<1>12. ~Infinite(n) => Cardinality(InUsers(n)') = Cardinality(InUsers(n))
                         + If(n = d /\ in \in {"free", "rob"}, 1)
  <2>1. CASE n = d /\ in \in {"free", "rob"} /\ ~Infinite(n)
    <3>1. m \notin InUsers(n) /\ IsFiniteSet(InUsers(n))
      BY <1>1, <2>1, Twins DEF InUsers
    <3> QED BY <1>7, <2>1, <3>1, FS_AddElement DEF If
  <2>2. CASE ~(n = d /\ in \in {"free", "rob"}) /\ ~Infinite(n)
    <3>1. InUsers(n)' = InUsers(n) /\ Cardinality(InUsers(n)) \in Nat
      BY <1>7, <2>2, Twins
    <3> QED BY <2>2, <3>1 DEF If
  <2> QED BY <2>1, <2>2
<1>13. /\ freeOut[n] \in Nat /\ freeIn[n] \in Nat
       /\ n = s /\ out = "free" /\ HalfDuplex(n) => freeIn[n] > 0
       /\ n = d /\ in = "free" /\ HalfDuplex(n) => freeOut[n] > 0
  <2>1. freeOut[n] \in Nat /\ freeIn[n] \in Nat
    BY DEF NetInv, Typed, TypeOK
  <2> QED BY <1>1, <2>1, Twins
<1>14. /\ freeOut'[n] \in Nat /\ freeIn'[n] \in Nat
       /\ freeOut'[n] <= freeOut[n] /\ freeIn'[n] <= freeIn[n]
       /\ out = "free" => freeOut'[s] = freeOut[s] - 1
       /\ in = "free" => freeIn'[d] = freeIn[d] - 1
  <2>1. freeOut[s] \in Nat /\ freeIn[d] \in Nat
    BY <1>0 DEF NetInv, Typed, TypeOK
  <2>2. /\ out = "free" => freeOut'[s] = freeOut[s] - 1
        /\ in = "free" => freeIn'[d] = freeIn[d] - 1
    BY <1>0, <1>16, <2>1 DEF If
  <2>3. CASE n = s
    <3>1. /\ freeOut'[n] = freeOut[n] - (IF out = "free" THEN 1 ELSE 0)
          /\ freeIn'[n] = freeIn[n] - (IF out = "free" /\ HalfDuplex(n) THEN 1 ELSE 0)
      BY <1>0, <1>13, <1>16, <2>3 DEF If
    <3> QED BY <1>1, <1>13, <2>2, <2>3, <3>1
  <2>4. CASE n = d
    <3>1. /\ freeOut'[n] = freeOut[n] - (IF in = "free" /\ HalfDuplex(n) THEN 1 ELSE 0)
          /\ freeIn'[n] = freeIn[n] - (IF in = "free" THEN 1 ELSE 0)
      BY <1>0, <1>13, <1>16, <2>4 DEF If
    <3> QED BY <1>1, <1>13, <2>2, <2>4, <3>1
  <2>5. CASE n # s /\ n # d
    <3>1. freeOut'[n] = freeOut[n] /\ freeIn'[n] = freeIn[n]
      BY <1>13, <1>16, <2>5 DEF If
    <3> QED BY <1>13, <2>2, <3>1
  <2> QED BY <2>3, <2>4, <2>5
<1>15. ASSUME ~Infinite(n)
       PROVE  /\ freeOut'[n] + Cardinality(OutUsers(n)')
                     + If(HalfDuplex(n), Cardinality(InUsers(n)')) = LinksOut(n)
              /\ freeIn'[n] + Cardinality(InUsers(n)')
                     + If(HalfDuplex(n), Cardinality(OutUsers(n)')) = LinksIn(n)
  <2>1. /\ freeOut[n] + Cardinality(OutUsers(n))
             + If(HalfDuplex(n), Cardinality(InUsers(n))) = LinksOut(n)
        /\ freeIn[n] + Cardinality(InUsers(n))
             + If(HalfDuplex(n), Cardinality(OutUsers(n))) = LinksIn(n)
    BY <1>15 DEF NetInv, LinksRight
  <2>2. Cardinality(OutUsers(n)) \in Nat /\ Cardinality(InUsers(n)) \in Nat
    BY <1>15, Twins
  <2>3. n = d /\ in = "rob" => HalfDuplex(n)
    BY <1>1
  <2> DEFINE co == Cardinality(OutUsers(n))
             ci == Cardinality(InUsers(n))
             co2 == Cardinality(OutUsers(n)')
             ci2 == Cardinality(InUsers(n)')
  <2>4. co \in Nat /\ ci \in Nat /\ co2 = co + If(n = s /\ out = "free", 1) - If(n = d /\ in = "rob", 1)
        /\ ci2 = ci + If(n = d /\ in \in {"free", "rob"}, 1)
    BY <1>11, <1>12, <1>15, <2>2
  <2>5. LinksOut(n) \in Int /\ LinksIn(n) \in Int
    BY NodesOf DEF NetInv, LinksOut, LinksIn
  <2> HIDE DEF co, ci, co2, ci2
  <2>6. CASE HalfDuplex(n)
    <3>1. freeOut[n] + co + ci = LinksOut(n) /\ freeIn[n] + ci + co = LinksIn(n)
      BY <2>1, <2>6 DEF If, co, ci
    <3>2. freeOut'[n] + co2 + ci2 = LinksOut(n) /\ freeIn'[n] + ci2 + co2 = LinksIn(n)
      <4>1. CASE n = s
        <5>1. /\ freeOut'[n] = freeOut[n] - (IF out = "free" THEN 1 ELSE 0)
              /\ freeIn'[n] = freeIn[n] - (IF out = "free" THEN 1 ELSE 0)
              /\ co2 = co + (IF out = "free" THEN 1 ELSE 0) /\ ci2 = ci
          BY <1>0, <1>13, <1>16, <2>4, <2>6, <4>1 DEF If
        <5> QED BY <1>13, <2>4, <2>5, <3>1, <5>1
      <4>2. CASE n = d
        <5>1. /\ freeOut'[n] = freeOut[n] - (IF in = "free" THEN 1 ELSE 0)
              /\ freeIn'[n] = freeIn[n] - (IF in = "free" THEN 1 ELSE 0)
              /\ co2 = co - (IF in = "rob" THEN 1 ELSE 0)
              /\ ci2 = ci + (IF in \in {"free", "rob"} THEN 1 ELSE 0)
          BY <1>0, <1>13, <1>16, <2>4, <2>6, <4>2 DEF If
        <5> QED BY <1>13, <2>4, <2>5, <3>1, <5>1
      <4>3. CASE n # s /\ n # d
        <5>1. freeOut'[n] = freeOut[n] /\ freeIn'[n] = freeIn[n] /\ co2 = co /\ ci2 = ci
          BY <1>13, <1>16, <2>4, <4>3 DEF If
        <5> QED BY <3>1, <5>1
      <4> QED BY <4>1, <4>2, <4>3
    <3> QED BY <2>6, <3>2 DEF If, co2, ci2
  <2>7. CASE ~HalfDuplex(n)
    <3>1. freeOut[n] + co = LinksOut(n) /\ freeIn[n] + ci = LinksIn(n)
      BY <1>13, <2>1, <2>4, <2>7 DEF If, co, ci
    <3>2. freeOut'[n] + co2 = LinksOut(n) /\ freeIn'[n] + ci2 = LinksIn(n)
      BY <1>0, <1>13, <1>16, <2>3, <2>4, <2>5, <2>7, <3>1 DEF If
    <3>3. co2 \in Int /\ ci2 \in Int
      BY <2>4 DEF If
    <3> QED BY <1>14, <2>7, <3>2, <3>3 DEF If, co2, ci2
  <2> QED BY <2>6, <2>7
<1> QED BY <1>10, <1>14, <1>15

LEMMA QueuesGrabbed ==
    ASSUME NetInv, NEW m \in Msgs, Ready(m), Grab(m, OutWay(m), InWay(m)), NEW V,
           Robs(m, OutWay(m), InWay(m), V),
           V = {Victim(n) : n \in {k \in {Src(m), Dst(m)} :
                  (k = Src(m) /\ OutWay(m) = "rob") \/ (k = Dst(m) /\ InWay(m) = "rob")}},
           NEW n \in Nodes
    PROVE  /\ thForOut'[n] \in Seq(Msgs) /\ Once(thForOut'[n])
           /\ ToSet(thForOut'[n]) = ToSet(thForOut[n]) \cup {v \in V : Src(v) = n}
           /\ thForIn'[n] \in Seq(Msgs) /\ Once(thForIn'[n])
           /\ ToSet(thForIn'[n]) = (ToSet(thForIn[n]) \ V)
                                     \cup (IF n = Dst(m) /\ InWay(m) = "wait" THEN {m} ELSE {})
<1> DEFINE s == Src(m)
           d == Dst(m)
           out == OutWay(m)
           in == InWay(m)
           robbed == (n = s /\ out = "rob") \/ (n = d /\ in = "rob")
           v == Victim(n)
           left == Without(thForIn[n], V)
<1>1. /\ thForOut[n] \in Seq(Msgs) /\ Once(thForOut[n])
      /\ thForIn[n] \in Seq(Msgs) /\ Once(thForIn[n])
  BY DEF NetInv, Typed, TypeOK, QueuesRight
<1>2. /\ thForOut'[n] = IF robbed THEN <<v>> \o thForOut[n] ELSE thForOut[n]
      /\ thForIn'[n] = IF n = d /\ in = "wait" THEN Append(left, m) ELSE left
  BY DEF Grab
<1> HIDE DEF v
<1>3. {x \in V : Src(x) = n} = IF robbed THEN {v} ELSE {}
  BY DEF Robs, v
<1> HIDE DEF out, in
<1>4. /\ thForOut'[n] \in Seq(Msgs) /\ Once(thForOut'[n])
      /\ ToSet(thForOut'[n]) = ToSet(thForOut[n]) \cup {x \in V : Src(x) = n}
  <2>1. CASE robbed
    <3>1. v \in V /\ v \in Msgs /\ v \in local
      BY <1>3, <2>1 DEF Robs
    <3>2. v \notin ToSet(thForOut[n])
      BY <3>1 DEF NetInv, QueuesRight, HasOut
    <3> HIDE DEF robbed
    <3> QED BY <1>1, <1>2, <1>3, <2>1, <3>1, <3>2, PrependElements
  <2>2. CASE ~robbed
    BY <1>1, <1>2, <1>3, <2>2
  <2> QED BY <2>1, <2>2
<1>5. left \in Seq(Msgs) /\ Once(left) /\ ToSet(left) = ToSet(thForIn[n]) \ V
  BY <1>1, WithoutElements
<1> HIDE DEF left
<1>6. /\ thForIn'[n] \in Seq(Msgs) /\ Once(thForIn'[n])
      /\ ToSet(thForIn'[n]) = (ToSet(thForIn[n]) \ V)
                                \cup (IF n = d /\ in = "wait" THEN {m} ELSE {})
  <2>1. CASE n = d /\ in = "wait"
    <3>1. m \notin ToSet(left)
      BY <1>5, <2>1, ReadyIs DEF Waits
    <3> QED BY <1>2, <1>5, <2>1, <3>1, AppendElements, AppendOnce, AppendPositions
  <2>2. CASE ~(n = d /\ in = "wait")
    BY <1>2, <1>5, <2>2
  <2> QED BY <2>1, <2>2
<1> QED BY <1>4, <1>6 DEF out, in

-----------------------------------------------------------------------------
(* really_send, as a handler of its own or as a call of another.           *)

\* What the handler does around really_send for m.
Around(m) ==
    /\ UNCHANGED <<input, done>>
    /\ asked' = asked \cup {m}
    /\ \A x : ~Sent(x)'
    /\ CallsInOrder' /\ Freeing' = Freeing
    /\ \A x : /\ ToDo(ToWakeOut(x))' <=> ToDo(ToWakeOut(x))
              /\ ToDo(ToWakeIn(x))' <=> ToDo(ToWakeIn(x))
              /\ ToDo(ToFreeOut(x))' <=> ToDo(ToFreeOut(x))
              /\ ToDo(ToFreeIn(x))' <=> ToDo(ToFreeIn(x))
    /\ Serving' = Serving /\ Len(calls') \in Nat /\ Serving \in Nat
    /\ \/ calls = <<>> /\ calls' = <<>>
       \/ Sent(m) /\ Len(calls) = Len(calls') + 1

\* The message waits for an output link.
LEMMA WaitsForOut ==
    ASSUME NetInv, NEW m \in Msgs, Ready(m), Around(m), WaitForOut(m), UNCHANGED buses,
           OutWay(m) \in {"rob", "wait"}, aborted' = FALSE
    PROVE  NetInv'
<1> DEFINE s == Src(m)
<1>0. s \in Nodes /\ Src(m) # Dst(m)
  BY NodesOf DEF NetInv
<1>1. ~HasOut(m) /\ freeOut[s] = 0 /\ m \notin partner /\ ~Infinite(s)
  BY OutWays, ReadyIs DEF HasOut
<1>2. ~Freeing => calls = <<>> /\ calls' = <<>>
  BY <1>1 DEF NetInv, QueuesRight, Around
<1>3. \A x : Src(x)' = Src(x) /\ Dst(x)' = Dst(x) /\ Infinite(x)' = Infinite(x)
  BY DEF Around, input, Src, Dst, Infinite
<1>4. UNCHANGED <<freeOut, freeIn, owners, thForIn, local, partner, curr, onNet, queue,
                  number, moving, config, route, done>>
  BY DEF Around, WaitForOut, buses, input
<1>5. \A x : HasOut(x)' = HasOut(x) /\ HasIn(x)' = HasIn(x)
  BY <1>3, <1>4 DEF HasOut, HasIn
<1>6. thForOut[s] \in Seq(Msgs) /\ Once(thForOut[s]) /\ m \notin ToSet(thForOut[s])
  BY <1>0, ReadyIs DEF NetInv, Typed, TypeOK, QueuesRight, Waits
<1>7. /\ thForOut' = [thForOut EXCEPT ![s] = Append(@, m)]
      /\ seeking' = seeking \cup {m}
      /\ thForOut \in [Nodes -> Seq(Msgs)]
  BY DEF WaitForOut, NetInv, Typed, TypeOK
<1>8. /\ Append(thForOut[s], m) \in Seq(Msgs) /\ Once(Append(thForOut[s], m))
      /\ ToSet(Append(thForOut[s], m)) = ToSet(thForOut[s]) \cup {m}
  BY <1>6, AppendElements, AppendOnce, AppendPositions
<1>9. \A n \in Nodes : /\ thForOut'[n] \in Seq(Msgs) /\ Once(thForOut'[n])
                       /\ ToSet(thForOut'[n]) = ToSet(thForOut[n]) \cup (IF n = s THEN {m} ELSE {})
                       /\ n # s => thForOut'[n] = thForOut[n]
  BY <1>0, <1>7, <1>8 DEF NetInv, QueuesRight
<1>10. Typed'
  <2>1. thForOut' \in [Nodes -> Seq(Msgs)]
    BY <1>7, <1>8
  <2>2. seeking' \subseteq Msgs /\ asked' \subseteq Users
    BY <1>7 DEF NetInv, Typed, TypeOK, Around, Users
  <2>3. TypeOK'
    BY <1>4, <2>1, <2>2 DEF NetInv, Typed, TypeOK
  <2> QED BY <1>3, <1>4, <2>3 DEF NetInv, Typed
<1>11. LinksRight'
  BY <1>3, <1>4 DEF NetInv, LinksRight, OutUsers, InUsers, HalfDuplex, LinksOut, LinksIn, Src, Dst, Infinite
<1>12. Stolen'
  BY <1>1, <1>3, <1>4, ReadyIs DEF NetInv, Stolen, HasOut
<1>17. Returned'
  BY <1>4 DEF Around, NetInv, Returned
<1>13. QueuesRight'
  <2>1. \A n \in Nodes :
          /\ Once(thForOut'[n]) /\ Once(thForIn'[n])
          /\ \A x \in ToSet(thForOut'[n]) : Src(x) = n /\ ~HasOut(x) /\ x \notin partner
          /\ \A x \in ToSet(thForIn'[n]) :
                Dst(x) = n /\ HasOut(x) /\ ~HasIn(x) /\ x \in seeking'
    BY <1>1, <1>4, <1>7, <1>9 DEF NetInv, QueuesRight
  <2>2. \A x \in Msgs : ~Sent(x)'
    BY DEF Around
  <2>3. \A x \in Msgs \ asked' : x \notin local /\ x \notin partner
    BY DEF Around, NetInv, QueuesRight
  <2>4. Once(queue) /\ \A x \in Msgs : x \in moving \/ x \in ToSet(queue) => HasOut(x) /\ HasIn(x)
    BY DEF NetInv, QueuesRight
  <2> QED BY <1>3, <1>4, <1>5, <2>1, <2>2, <2>3, <2>4 DEF QueuesRight
<1>14. Places'
  <2>1. \A x : Waits(x)' <=> Waits(x) \/ x = m
    BY <1>0, <1>3, <1>4, <1>9, NodesOf DEF Waits, NetInv
  <2> QED BY <1>4, <2>1, ReadyIs DEF NetInv, Places, Around, Users
<1>15. Woken'
  <2> SUFFICES ASSUME NEW n \in Nodes
               PROVE  /\ thForOut'[n] # <<>> => freeOut[n] = 0 \/ (freeOut[n] = 1 /\ WakingOut(n)')
                      /\ thForIn[n] # <<>> => freeIn[n] = 0 \/ (freeIn[n] = 1 /\ WakingIn(n)')
    BY <1>4 DEF Woken
  <2>1. WakingOut(n) /\ n # s => WakingOut(n)'
    BY ReadyIs DEF WakingOut, Around
  <2>2. WakingIn(n) => WakingIn(n)'
    BY <1>1, ReadyIs DEF WakingIn, Around
  <2> QED BY <1>1, <1>9, <2>1, <2>2 DEF NetInv, Woken
<1>16. BusesRight'
  <2>1. Held' = Held
    BY <1>4 DEF Held
  <2>2. Freeing' = Freeing
    BY DEF Around
  <2>3. CASE Freeing
    BY <1>4, <2>1, <2>2, <2>3 DEF NetInv, BusesRight
  <2>4. CASE ~Freeing
    <3>1. Serving' = Serving /\ calls' = calls
      BY <1>2, <2>4 DEF Around
    <3> QED BY <1>4, <2>1, <2>2, <2>4, <3>1 DEF NetInv, BusesRight
  <2> QED BY <2>3, <2>4
<1> QED BY <1>10, <1>11, <1>12, <1>13, <1>14, <1>15, <1>16, <1>17 DEF NetInv, Around

\* The message has its links and takes a bus, or waits for one.
LEMMA BusTaken ==
    ASSUME NetInv, NEW m \in Msgs, Ready(m), Around(m), TakeBus(m), number' = number
    PROVE  /\ BusesRight'
           /\ curr' \in Nat /\ onNet' \in Seq(Users) /\ queue' \in Seq(Users) /\ Once(queue')
           /\ \/ ToSet(queue') = ToSet(queue) \cup {m} /\ moving' = moving
              \/ queue' = queue /\ moving' = moving \cup {m}
<1>1. /\ curr \in Nat /\ onNet \in Seq(Users) /\ queue \in Seq(Users) /\ Once(queue)
      /\ m \in Users /\ m \notin Gops /\ m \notin moving /\ m \notin ToSet(queue) /\ Buses \in Nat
      /\ moving \subseteq Users /\ number \in [Gops -> Nat]
  BY ReadyIs, KindsAssumption, BusesAssumption DEF NetInv, Typed, TypeOK, QueuesRight, Users, Waits
<1>2. /\ Freeing' = Freeing /\ Serving' = Serving /\ Serving \in Nat /\ Len(calls') \in Nat
      /\ \/ calls = <<>> /\ calls' = <<>> /\ Serving = 0 /\ Len(calls) = 0
         \/ Len(calls) = Len(calls') + 1 /\ Serving = Len(calls')
  BY DEF Around, Sent, Serving
<1>3. /\ Len(queue) \in Nat /\ (queue = <<>> <=> Len(queue) = 0)
      /\ Append(queue, m) \in Seq(Users) /\ Once(Append(queue, m))
      /\ ToSet(Append(queue, m)) = ToSet(queue) \cup {m}
      /\ Len(Append(queue, m)) = Len(queue) + 1 /\ Append(queue, m) # <<>>
      /\ Head(Append(queue, m)) = IF queue = <<>> THEN m ELSE Head(queue)
  <2>1. /\ Append(queue, m) \in Seq(Users) /\ Once(Append(queue, m))
        /\ ToSet(Append(queue, m)) = ToSet(queue) \cup {m}
        /\ Len(Append(queue, m)) = Len(queue) + 1
    BY <1>1, AppendElements, AppendOnce, AppendPositions
  <2> QED BY <1>1, <2>1
<1>4. CASE Buses > 0 /\ curr >= Buses
  <2>1. /\ queue' = Append(queue, m) /\ UNCHANGED <<curr, onNet, moving>>
    BY <1>4 DEF TakeBus
  <2>2. Held' = Held
    <3>1. queue = <<>> => Held = 0 /\ Held' = 0
      BY <1>1, <1>3, <2>1 DEF Held
    <3>2. queue # <<>> => Held' = Held
      BY <1>1, <1>3, <2>1 DEF Held
    <3> QED BY <3>1, <3>2
  <2>3. curr = Buses
    BY <1>1, <1>4 DEF NetInv, BusesRight
  <2>4. \A g \in Gops \ moving : number[g] > 0 => Head(queue') = g
    BY <1>3, <2>1 DEF NetInv, BusesRight
  <2>5. Serving <= Len(queue) => Serving <= Len(queue) + 1
    BY <1>2, <1>3
  <2>6. ~Freeing' => /\ Serving' <= Len(queue')
                     /\ Serving' = Len(queue') \/ curr' + Len(calls') >= Buses
    BY <1>1, <1>2, <1>3, <2>1, <2>3, <2>5 DEF NetInv, BusesRight
  <2>7. BusesRight'
    BY <1>2, <1>3, <1>4, <2>1, <2>2, <2>3, <2>4, <2>6 DEF NetInv, BusesRight
  <2> QED BY <1>1, <1>3, <2>1, <2>7
<1>5. CASE Buses > 0 /\ ~(curr >= Buses)
  <2>1. /\ curr' = curr + 1 /\ onNet' = Append(onNet, m) /\ moving' = moving \cup {m}
        /\ queue' = queue
    BY <1>5 DEF TakeBus, If
  <2>2. /\ onNet' \in Seq(Users) /\ ToSet(onNet') = ToSet(onNet) \cup {m}
    BY <1>1, <2>1, AppendElements, AppendPositions
  <2>3. /\ IsFiniteSet(moving) /\ moving \subseteq Msgs
        /\ curr = Cardinality(moving) + Held + If(Freeing, 1)
        /\ moving \cap Msgs \subseteq ToSet(onNet)
        /\ Freeing => queue = <<>>
    BY <1>1, <1>5 DEF NetInv, BusesRight
  <2>4. /\ IsFiniteSet(moving') /\ Cardinality(moving') = Cardinality(moving) + 1
        /\ Cardinality(moving) \in Nat
    BY <1>1, <2>1, <2>3, FS_AddElement, FS_CardinalityType
  <2>5. Held' = Held /\ Held \in Nat
    BY <1>1, <2>1 DEF Held
  <2>6. curr' = Cardinality(moving') + Held' + If(Freeing', 1)
    BY <1>2, <2>1, <2>3, <2>4, <2>5 DEF If
  <2>7. curr' <= Buses /\ curr' \in Nat
    BY <1>1, <1>5, <2>1
  <2>8. ~Freeing' => /\ Serving' <= Len(queue')
                     /\ Serving' = Len(queue') \/ curr' + Len(calls') >= Buses
    BY <1>1, <1>2, <1>3, <1>5, <2>1 DEF NetInv, BusesRight
  <2>9. \A g \in Gops \ moving' : number'[g] > 0 => queue' # <<>> /\ Head(queue') = g
    BY <2>1 DEF NetInv, BusesRight
  <2>10. BusesRight'
    BY <1>2, <1>5, <2>1, <2>2, <2>3, <2>4, <2>6, <2>7, <2>8, <2>9 DEF BusesRight
  <2> QED BY <1>1, <2>1, <2>2, <2>7, <2>10
<1>6. CASE Buses = 0
  <2>1. /\ curr' = curr /\ onNet' = onNet /\ moving' = moving \cup {m} /\ queue' = queue
    BY <1>1, <1>6 DEF TakeBus, If
  <2>2. IsFiniteSet(moving')
    BY <2>1, FS_AddElement DEF NetInv, BusesRight
  <2>3. curr' = 0 /\ queue' = <<>>
    BY <1>6, <2>1 DEF NetInv, BusesRight
  <2>4. ~Freeing' => /\ Serving' <= Len(queue')
                     /\ Serving' = Len(queue') \/ curr' + Len(calls') >= Buses
    BY <1>2, <1>3, <1>6, <2>1, <2>3 DEF NetInv, BusesRight
  <2>5. \A g \in Gops \ moving' : number'[g] > 0 => queue' # <<>> /\ Head(queue') = g
    BY <2>1 DEF NetInv, BusesRight
  <2>6. BusesRight'
    BY <1>6, <2>1, <2>2, <2>3, <2>4, <2>5 DEF BusesRight
  <2> QED BY <1>1, <2>1, <2>6
<1> QED BY <1>1, <1>4, <1>5, <1>6

\* What Grab makes of who has links and who waits for them.
Grabs(m, out, in, V) ==
    /\ Robs(m, out, in, V)
    /\ local' = (local \ V) \cup (IF out # "have" THEN {m} ELSE {})
    /\ partner' = partner \cup (IF in \in {"free", "rob"} THEN {m} ELSE {})
    /\ seeking \ {m} \subseteq seeking' /\ seeking' \subseteq Msgs
    /\ in = "wait" => m \in seeking'
    /\ \A n \in Nodes :
        /\ thForOut'[n] \in Seq(Msgs) /\ Once(thForOut'[n])
        /\ ToSet(thForOut'[n]) = ToSet(thForOut[n]) \cup {v \in V : Src(v) = n}
        /\ thForIn'[n] \in Seq(Msgs) /\ Once(thForIn'[n])
        /\ ToSet(thForIn'[n]) = (ToSet(thForIn[n]) \ V)
                                  \cup (IF n = Dst(m) /\ in = "wait" THEN {m} ELSE {})
        /\ freeOut'[n] \in Nat /\ freeIn'[n] \in Nat
        /\ freeOut'[n] <= freeOut[n] /\ freeIn'[n] <= freeIn[n]
    /\ out = "free" => freeOut'[Src(m)] = freeOut[Src(m)] - 1
    /\ in = "free" => freeIn'[Dst(m)] = freeIn[Dst(m)] - 1

LEMMA Grabbed ==
    ASSUME NetInv, NEW m \in Msgs, Ready(m), Around(m),
           OutWay(m) # "wait", Grab(m, OutWay(m), InWay(m))
    PROVE  /\ \E V : Grabs(m, OutWay(m), InWay(m), V)
           /\ LinksRight'
           /\ freeOut' \in [Nodes -> Nat] /\ freeIn' \in [Nodes -> Nat]
           /\ owners' \in [Nodes -> Seq(Msgs)]
           /\ thForOut' \in [Nodes -> Seq(Msgs)] /\ thForIn' \in [Nodes -> Seq(Msgs)]
<1> DEFINE s == Src(m)
           d == Dst(m)
           out == OutWay(m)
           in == InWay(m)
           V == {Victim(n) : n \in {k \in {s, d} : (k = s /\ out = "rob") \/ (k = d /\ in = "rob")}}
<1>1. Robs(m, out, in, V)
  BY Victims
<1>2. input' = input
  BY DEF Around
<1>3. \A n \in Nodes :
        /\ owners'[n] \in Seq(Msgs) /\ Once(owners'[n]) /\ ToSet(owners'[n]) = OutUsers(n)'
        /\ freeOut'[n] \in Nat /\ freeIn'[n] \in Nat
        /\ freeOut'[n] <= freeOut[n] /\ freeIn'[n] <= freeIn[n]
        /\ out = "free" => freeOut'[s] = freeOut[s] - 1
        /\ in = "free" => freeIn'[d] = freeIn[d] - 1
        /\ ~Infinite(n) =>
             /\ freeOut'[n] + Cardinality(OutUsers(n)')
                  + If(HalfDuplex(n), Cardinality(InUsers(n)')) = LinksOut(n)
             /\ freeIn'[n] + Cardinality(InUsers(n)')
                  + If(HalfDuplex(n), Cardinality(OutUsers(n)')) = LinksIn(n)
  BY <1>1, <1>2, NodeGrabbed
<1>4. \A n \in Nodes :
        /\ thForOut'[n] \in Seq(Msgs) /\ Once(thForOut'[n])
        /\ ToSet(thForOut'[n]) = ToSet(thForOut[n]) \cup {v \in V : Src(v) = n}
        /\ thForIn'[n] \in Seq(Msgs) /\ Once(thForIn'[n])
        /\ ToSet(thForIn'[n]) = (ToSet(thForIn[n]) \ V)
                                  \cup (IF n = Dst(m) /\ in = "wait" THEN {m} ELSE {})
  BY <1>1, QueuesGrabbed
<1>5. out \in {"have", "free", "rob"} /\ s \in Nodes /\ d \in Nodes
  BY OutWays, NodesOf DEF NetInv
<1>6. /\ local' = (local \ V) \cup (IF out # "have" THEN {m} ELSE {})
      /\ partner' = partner \cup (IF in \in {"free", "rob"} THEN {m} ELSE {})
      /\ seeking' = IF in = "wait" THEN seeking \cup {m} ELSE seeking \ {m}
      /\ seeking \subseteq Msgs
  <2>1. /\ local' = (local \ V) \cup (IF out \in {"free", "rob"} THEN {m} ELSE {})
        /\ partner' = partner \cup (IF in \in {"free", "rob"} THEN {m} ELSE {})
        /\ seeking' = IF in = "wait" THEN seeking \cup {m} ELSE seeking \ {m}
    BY DEF Grab
  <2> QED BY <1>5, <2>1 DEF NetInv, Typed, TypeOK
<1>7. /\ DOMAIN freeOut' = Nodes /\ DOMAIN freeIn' = Nodes /\ DOMAIN owners' = Nodes
      /\ DOMAIN thForOut' = Nodes /\ DOMAIN thForIn' = Nodes
      /\ freeOut' = [n \in Nodes |-> freeOut'[n]] /\ freeIn' = [n \in Nodes |-> freeIn'[n]]
      /\ owners' = [n \in Nodes |-> owners'[n]]
      /\ thForOut' = [n \in Nodes |-> thForOut'[n]] /\ thForIn' = [n \in Nodes |-> thForIn'[n]]
  BY DEF Grab
<1> HIDE DEF V
<1>8. Grabs(m, out, in, V)
  <2> HIDE DEF out, in
  <2> QED BY <1>1, <1>3, <1>4, <1>5, <1>6 DEF Grabs
<1>9. /\ IsFiniteSet(partner')
      /\ \A x \in local' : ~Infinite(Src(x))
      /\ \A x \in partner' : ~Infinite(Dst(x))
  <2>1. IsFiniteSet(partner')
    <3>1. IsFiniteSet(partner) /\ IsFiniteSet(partner \cup {m})
      BY FS_AddElement DEF NetInv, LinksRight
    <3>2. partner' = partner \/ partner' = partner \cup {m}
      BY <1>6
    <3> QED BY <3>1, <3>2
  <2>2. out # "have" => ~Infinite(s)
    BY OutWays DEF HasOut
  <2>3. in \in {"free", "rob"} => ~Infinite(d)
    BY InWays DEF HasIn
  <2> QED BY <1>6, <2>1, <2>2, <2>3 DEF NetInv, LinksRight
<1>10. LinksRight'
  <2>1. \A x : Src(x)' = Src(x) /\ Dst(x)' = Dst(x) /\ Infinite(x)' = Infinite(x)
            /\ HalfDuplex(x)' = HalfDuplex(x) /\ LinksOut(x)' = LinksOut(x)
            /\ LinksIn(x)' = LinksIn(x)
    BY <1>2 DEF input, Src, Dst, Infinite, HalfDuplex, LinksOut, LinksIn
  <2> HIDE DEF out, in
  <2> QED BY <1>3, <1>9, <2>1 DEF LinksRight
<1> QED BY <1>3, <1>4, <1>7, <1>8, <1>10

\* Who has links afterwards.
LEMMA HasAfter ==
    ASSUME NetInv, NEW m \in Msgs, Ready(m), Around(m), OutWay(m) # "wait",
           NEW V, Grabs(m, OutWay(m), InWay(m), V)
    PROVE  /\ \A x : Src(x)' = Src(x) /\ Dst(x)' = Dst(x) /\ Infinite(x)' = Infinite(x)
           /\ HasOut(m)' /\ (HasIn(m)' <=> InWay(m) # "wait")
           /\ m \in local' \ partner' => InWay(m) = "wait"
           /\ \A v \in V : v \in Msgs /\ v # m /\ ~HasOut(v)' /\ ~HasIn(v) /\ v \notin partner'
           /\ \A x \in Msgs \ {m} : /\ HasIn(x)' <=> HasIn(x)
                                    /\ HasOut(x)' <=> HasOut(x) /\ x \notin V
                                    /\ x \in partner' <=> x \in partner
                                    /\ x \in local' <=> x \in local /\ x \notin V
<1>1. \A x : Src(x)' = Src(x) /\ Dst(x)' = Dst(x) /\ Infinite(x)' = Infinite(x)
  BY DEF Around, input, Src, Dst, Infinite
<1>2. /\ local' = (local \ V) \cup (IF OutWay(m) # "have" THEN {m} ELSE {})
      /\ partner' = partner \cup (IF InWay(m) \in {"free", "rob"} THEN {m} ELSE {})
      /\ V \subseteq Msgs /\ m \notin V
      /\ \A v \in V : v \in local /\ v \notin partner /\ v \in ToSet(thForIn[Dst(v)])
  BY DEF Grabs, Robs
<1>3. /\ OutWay(m) = "have" <=> HasOut(m)
      /\ InWay(m) = "have" <=> HasIn(m)
      /\ InWay(m) \in {"have", "free", "rob", "wait"}
  BY OutWays, InWays
<1>4. \A v \in V : ~Infinite(Src(v)) /\ ~HasIn(v) /\ v # m
  BY <1>2, NodesOf DEF NetInv, LinksRight, QueuesRight
<1>5. HasOut(m)'
  BY <1>1, <1>2, <1>3 DEF HasOut
<1>6. HasIn(m)' <=> InWay(m) # "wait"
  BY <1>1, <1>2, <1>3 DEF HasIn
<1>7. m \in local' \ partner' => InWay(m) = "wait"
  <2> SUFFICES ASSUME m \in local', m \notin partner', InWay(m) # "wait" PROVE FALSE
    OBVIOUS
  <2>1. InWay(m) = "have" /\ Infinite(Dst(m))
    BY <1>2, <1>3 DEF HasIn
  <2>2. Infinite(Src(m)) /\ m \notin local /\ OutWay(m) = "have"
    BY <1>3, <2>1, NodesOf DEF NetInv, LinksRight, HasOut
  <2> QED BY <1>2, <2>2
<1>8. \A v \in V : v \in Msgs /\ v # m /\ ~HasOut(v)' /\ ~HasIn(v) /\ v \notin partner'
  BY <1>1, <1>2, <1>4 DEF HasOut
<1>9. ASSUME NEW x \in Msgs \ {m}
      PROVE  /\ HasIn(x)' <=> HasIn(x)
             /\ HasOut(x)' <=> HasOut(x) /\ x \notin V
             /\ x \in partner' <=> x \in partner
             /\ x \in local' <=> x \in local /\ x \notin V
  BY <1>1, <1>2, <1>8 DEF HasOut, HasIn
<1> QED BY <1>1, <1>5, <1>6, <1>7, <1>8, <1>9

\* The queues for links, whether or not the message waits for its input link.
LEMMA LinksGrabbed ==
    ASSUME NetInv, NEW m \in Msgs, Ready(m), Around(m),
           OutWay(m) # "wait", Grab(m, OutWay(m), InWay(m)),
           NEW V, Grabs(m, OutWay(m), InWay(m), V)
    PROVE  /\ Stolen' /\ Returned' /\ Woken'
           /\ \A n \in Nodes :
                /\ Once(thForOut[n])' /\ Once(thForIn[n])'
                /\ \A x \in ToSet(thForOut[n])' : Src(x)' = n /\ ~HasOut(x)' /\ x \notin partner'
                /\ \A x \in ToSet(thForIn[n])' :
                      Dst(x)' = n /\ HasOut(x)' /\ ~HasIn(x)' /\ x \in seeking'
           /\ \A x \in Msgs \ asked' : x \notin local' /\ x \notin partner'
           /\ \A x \in Msgs :
                 (x \in ToSet(thForOut[Src(x)])' \/ x \in ToSet(thForIn[Dst(x)])')
                   <=> \/ x \in ToSet(thForOut[Src(x)]) \/ x \in ToSet(thForIn[Dst(x)])
                       \/ x = m /\ InWay(m) = "wait"
<1>1. /\ \A x : Src(x)' = Src(x) /\ Dst(x)' = Dst(x)
      /\ HasOut(m)' /\ (HasIn(m)' <=> InWay(m) # "wait")
      /\ m \in local' \ partner' => InWay(m) = "wait"
      /\ \A v \in V : v \in Msgs /\ v # m /\ ~HasOut(v)' /\ ~HasIn(v) /\ v \notin partner'
      /\ \A x \in Msgs \ {m} : /\ HasIn(x)' <=> HasIn(x)
                               /\ HasOut(x)' <=> HasOut(x) /\ x \notin V
                               /\ x \in partner' <=> x \in partner
                               /\ x \in local' <=> x \in local /\ x \notin V
  BY HasAfter
<1>2. \A n \in Nodes :
        /\ Once(thForOut'[n]) /\ Once(thForIn'[n])
        /\ ToSet(thForOut'[n]) = ToSet(thForOut[n]) \cup {v \in V : Src(v) = n}
        /\ ToSet(thForIn'[n]) = (ToSet(thForIn[n]) \ V)
                                  \cup (IF n = Dst(m) /\ InWay(m) = "wait" THEN {m} ELSE {})
        /\ thForOut[n] \in Seq(Msgs) /\ thForIn[n] \in Seq(Msgs)
        /\ thForOut'[n] \in Seq(Msgs) /\ thForIn'[n] \in Seq(Msgs)
  BY DEF Grabs, NetInv, Typed, TypeOK
<1>3. /\ Src(m) \in Nodes /\ Dst(m) \in Nodes
      /\ \A x \in Msgs : Src(x) \in Nodes /\ Dst(x) \in Nodes
  BY NodesOf DEF NetInv
<1>4. \A v \in V : v \in local /\ v \notin partner /\ v \in ToSet(thForIn[Dst(v)])
                   /\ freeOut[Src(v)] = 0
  BY DEF Grabs, Robs
<1>5. ~Waits(m) /\ (\A x : Sent(x) => x = m) /\ (\A x : ~Sent(x)')
  BY ReadyIs DEF Around
<1>6. Stolen'
  <2> SUFFICES ASSUME NEW x \in local', x \notin partner'
               PROVE  x \in ToSet(thForIn'[Dst(x)])
    BY <1>1 DEF Stolen
  <2>1. CASE x = m
    BY <1>1, <1>2, <1>3, <2>1
  <2>2. CASE x # m
    <3>1. x \in Msgs /\ x \in local /\ x \notin partner /\ x \notin V
      <4>1. local \subseteq Msgs /\ local' = (local \ V) \cup (IF OutWay(m) # "have" THEN {m} ELSE {})
        BY DEF Grabs, NetInv, Typed, TypeOK
      <4> QED BY <1>1, <2>2, <4>1
    <3>2. x \in ToSet(thForIn[Dst(x)])
      BY <1>5, <2>2, <3>1 DEF NetInv, Stolen
    <3> QED BY <1>2, <1>3, <3>1, <3>2
  <2> QED BY <2>1, <2>2
<1>7. ASSUME NEW n \in Nodes, NEW x \in ToSet(thForOut'[n])
      PROVE  Src(x) = n /\ ~HasOut(x)' /\ x \notin partner'
  <2>1. CASE x \in ToSet(thForOut[n])
    <3>1. x \in Msgs /\ Src(x) = n /\ ~HasOut(x) /\ x \notin partner
      BY <1>2, <2>1, ElementsTyped DEF NetInv, QueuesRight
    <3>2. x # m
      BY <1>5, <2>1, <3>1 DEF Waits
    <3> QED BY <1>1, <3>1, <3>2
  <2>2. CASE x \in V /\ Src(x) = n
    BY <1>1, <2>2
  <2> QED BY <1>2, <2>1, <2>2
<1>8. ASSUME NEW n \in Nodes, NEW x \in ToSet(thForIn'[n])
      PROVE  Dst(x) = n /\ HasOut(x)' /\ ~HasIn(x)' /\ x \in seeking'
  <2>1. CASE x \in ToSet(thForIn[n]) /\ x \notin V
    <3>1. x \in Msgs /\ Dst(x) = n /\ HasOut(x) /\ ~HasIn(x) /\ x \in seeking
      BY <1>2, <2>1, ElementsTyped DEF NetInv, QueuesRight
    <3>2. x # m
      BY <1>5, <2>1, <3>1 DEF Waits
    <3>3. x \in seeking'
      BY <3>1, <3>2 DEF Grabs
    <3> QED BY <1>1, <2>1, <3>1, <3>2, <3>3
  <2>2. CASE x = m /\ n = Dst(m) /\ InWay(m) = "wait"
    BY <1>1, <2>2 DEF Grabs
  <2> QED BY <1>2, <2>1, <2>2
<1>9. \A x \in Msgs \ asked' : x \notin local' /\ x \notin partner'
  <2>1. \A x \in Msgs \ asked : x \notin local /\ x \notin partner
    BY DEF NetInv, QueuesRight
  <2> QED BY <1>1, <2>1 DEF Around
<1>10. ASSUME NEW x \in Msgs
       PROVE  (x \in ToSet(thForOut'[Src(x)]) \/ x \in ToSet(thForIn'[Dst(x)]))
                <=> \/ x \in ToSet(thForOut[Src(x)]) \/ x \in ToSet(thForIn[Dst(x)])
                    \/ x = m /\ InWay(m) = "wait"
  <2>1. x \in V => x \in ToSet(thForIn[Dst(x)])
    BY <1>4
  <2> QED BY <1>2, <1>3, <2>1
<1>11. Woken'
  <2> SUFFICES ASSUME NEW n \in Nodes
               PROVE  /\ thForOut'[n] # <<>> => freeOut'[n] = 0 \/ (freeOut'[n] = 1 /\ WakingOut(n)')
                      /\ thForIn'[n] # <<>> => freeIn'[n] = 0 \/ (freeIn'[n] = 1 /\ WakingIn(n)')
    BY DEF Woken
  <2>1. /\ freeOut'[n] \in Nat /\ freeOut'[n] <= freeOut[n] /\ freeOut[n] \in Nat
        /\ freeIn'[n] \in Nat /\ freeIn'[n] <= freeIn[n] /\ freeIn[n] \in Nat
    BY DEF Grabs, NetInv, Typed, TypeOK
  <2>2. ASSUME WakingOut(n), freeOut[n] = 1 PROVE WakingOut(n)' \/ freeOut'[n] = 0
    <3>1. CASE ToDo(ToWakeOut(n))
      BY <3>1 DEF WakingOut, Around
    <3>2. CASE Src(m) = n /\ ~HasOut(m)
      <4>1. OutWay(m) = "free"
        BY <2>2, <3>2, OutWays
      <4> QED BY <2>2, <3>2, <4>1 DEF Grabs
    <3> QED BY <1>5, <2>2, <3>1, <3>2 DEF WakingOut
  <2>3. ASSUME WakingIn(n), freeIn[n] = 1 PROVE WakingIn(n)' \/ freeIn'[n] = 0
    <3>1. CASE ToDo(ToWakeIn(n))
      BY <3>1 DEF WakingIn, Around
    <3>2. CASE Sent(m) /\ Dst(m) = n /\ Freeing
      <4>1. ~HasIn(m)
        BY <3>2 DEF NetInv, QueuesRight
      <4>2. InWay(m) = "free"
        BY <2>3, <3>2, <4>1, InWays
      <4> QED BY <2>3, <3>2, <4>2 DEF Grabs
    <3> QED BY <1>5, <2>3, <3>1, <3>2 DEF WakingIn
  <2>4. thForOut'[n] # <<>> => freeOut'[n] = 0 \/ (freeOut'[n] = 1 /\ WakingOut(n)')
    <3>1. CASE thForOut[n] # <<>>
      BY <2>1, <2>2, <3>1 DEF NetInv, Woken
    <3>2. CASE \E v \in V : Src(v) = n
      BY <1>4, <2>1, <3>2
    <3>3. CASE thForOut[n] = <<>> /\ ~ \E v \in V : Src(v) = n
      <4>1. ToSet(thForOut[n]) = {}
        BY <1>2, <3>3, EmptyElements
      <4>2. ToSet(thForOut'[n]) = {}
        BY <1>2, <3>3, <4>1
      <4> QED BY <1>2, <4>2, EmptyElements
    <3> QED BY <3>1, <3>2, <3>3
  <2>5. thForIn'[n] # <<>> => freeIn'[n] = 0 \/ (freeIn'[n] = 1 /\ WakingIn(n)')
    <3>1. CASE thForIn[n] # <<>>
      BY <2>1, <2>3, <3>1 DEF NetInv, Woken
    <3>2. CASE n = Dst(m) /\ InWay(m) = "wait"
      BY <2>1, <3>2, InWays
    <3>3. CASE thForIn[n] = <<>> /\ ~ (n = Dst(m) /\ InWay(m) = "wait")
      <4>1. ToSet(thForIn[n]) = {}
        BY <1>2, <3>3, EmptyElements
      <4>2. ToSet(thForIn'[n]) = {}
        BY <1>2, <3>3, <4>1
      <4> QED BY <1>2, <4>2, EmptyElements
    <3> QED BY <3>1, <3>2, <3>3
  <2> QED BY <2>4, <2>5
<1>12. Returned'
  <2>1. m \notin done /\ done' = done
    BY ReadyIs DEF Around
  <2>2. \A x \in done' \cap Msgs : x # m /\ x \in done \cap Msgs
    BY <2>1
  <2> QED BY <1>1, <2>2 DEF Around, NetInv, Returned
<1> QED BY <1>1, <1>2, <1>6, <1>7, <1>8, <1>9, <1>10, <1>11, <1>12

LEMMA GrabTyped ==
    ASSUME NetInv, NEW m \in Msgs, Ready(m), Around(m), aborted' = FALSE,
           OutWay(m) # "wait", Grab(m, OutWay(m), InWay(m)), number' = number,
           curr' \in Nat, onNet' \in Seq(Users), queue' \in Seq(Users), moving' \subseteq Users
    PROVE  Typed'
<1>1. PICK V : Grabs(m, OutWay(m), InWay(m), V)
  BY Grabbed
<1>2. /\ freeOut' \in [Nodes -> Nat] /\ freeIn' \in [Nodes -> Nat]
      /\ owners' \in [Nodes -> Seq(Msgs)]
      /\ thForOut' \in [Nodes -> Seq(Msgs)] /\ thForIn' \in [Nodes -> Seq(Msgs)]
  BY Grabbed
<1>3. local' \subseteq Msgs /\ partner' \subseteq Msgs /\ seeking' \subseteq Msgs
  BY <1>1 DEF Grabs, Robs, NetInv, Typed, TypeOK
<1>4. asked' \subseteq Users /\ done' \subseteq Users /\ number' \in [Gops -> Nat]
      /\ config' = config /\ route' = route
  BY DEF Around, input, NetInv, Typed, TypeOK, Users
<1>5. TypeOK'
  BY <1>2, <1>3, <1>4 DEF TypeOK
<1> QED BY <1>4, <1>5 DEF NetInv, Typed, Infinite

\* The message waits for its input link with the output link held.
LEMMA WaitsForIn ==
    ASSUME NetInv, NEW m \in Msgs, Ready(m), Around(m), aborted' = FALSE,
           OutWay(m) # "wait", InWay(m) = "wait", Grab(m, OutWay(m), InWay(m)),
           UNCHANGED buses
    PROVE  NetInv'
<1>0. UNCHANGED <<curr, onNet, queue, number, moving>>
  BY DEF buses
<1>1. PICK V : Grabs(m, OutWay(m), InWay(m), V)
  BY Grabbed
<1>2. Typed' /\ LinksRight' /\ Stolen' /\ Returned' /\ Woken' /\ CallsInOrder' /\ aborted' = FALSE
  <2>1. /\ curr' \in Nat /\ onNet' \in Seq(Users) /\ queue' \in Seq(Users)
        /\ moving' \subseteq Users
    BY <1>0 DEF NetInv, Typed, TypeOK
  <2> QED BY <1>0, <1>1, <2>1, GrabTyped, Grabbed, LinksGrabbed DEF Around
<1>3. ~HasIn(m)
  BY InWays
<1>4. ~Freeing => calls = <<>> /\ calls' = <<>>
  BY <1>3 DEF NetInv, QueuesRight, Around
<1>5. QueuesRight'
  <2>1. \A x \in Msgs : x \in moving \/ x \in ToSet(queue) => HasOut(x)' /\ HasIn(x)'
    <3> SUFFICES ASSUME NEW x \in Msgs, x \in moving \/ x \in ToSet(queue)
                 PROVE  HasOut(x)' /\ HasIn(x)'
      OBVIOUS
    <3>1. HasOut(x) /\ HasIn(x) /\ x # m
      BY <1>3 DEF NetInv, QueuesRight
    <3> QED BY <1>1, <3>1, HasAfter
  <2>2. \A x \in Msgs : ~Sent(x)'
    BY DEF Around
  <2>3. Once(queue')
    BY <1>0 DEF NetInv, QueuesRight
  <2>4. /\ \A n \in Nodes :
            /\ Once(thForOut[n])' /\ Once(thForIn[n])'
            /\ \A x \in ToSet(thForOut[n])' : Src(x)' = n /\ ~HasOut(x)' /\ x \notin partner'
            /\ \A x \in ToSet(thForIn[n])' :
                  Dst(x)' = n /\ HasOut(x)' /\ ~HasIn(x)' /\ x \in seeking'
        /\ \A x \in Msgs \ asked' : x \notin local' /\ x \notin partner'
    BY <1>1, LinksGrabbed
  <2> QED BY <1>0, <2>1, <2>2, <2>3, <2>4 DEF QueuesRight
<1>6. Places'
  <2>1. \A x : Waits(x)' <=> Waits(x) \/ x = m
    <3>1. \A x \in Msgs :
            (x \in ToSet(thForOut[Src(x)])' \/ x \in ToSet(thForIn[Dst(x)])')
              <=> \/ x \in ToSet(thForOut[Src(x)]) \/ x \in ToSet(thForIn[Dst(x)])
                  \/ x = m
      BY <1>1, LinksGrabbed
    <3> QED BY <1>0, <3>1 DEF Waits
  <2> QED BY <1>0, <2>1, ReadyIs DEF NetInv, Places, Around, Users
<1>7. BusesRight'
  <2>1. Held' = Held
    BY <1>0 DEF Held
  <2>2. Freeing' = Freeing
    BY DEF Around
  <2>3. CASE Freeing
    BY <1>0, <2>1, <2>2, <2>3 DEF NetInv, BusesRight
  <2>4. CASE ~Freeing
    <3>1. Serving' = Serving /\ calls' = calls
      BY <1>4, <2>4 DEF Around
    <3> QED BY <1>0, <2>1, <2>2, <2>4, <3>1 DEF NetInv, BusesRight
  <2> QED BY <2>3, <2>4
<1> QED BY <1>2, <1>5, <1>6, <1>7 DEF NetInv

\* The message has its links and goes on to the bus.
LEMMA GoesToBus ==
    ASSUME NetInv, NEW m \in Msgs, Ready(m), Around(m), aborted' = FALSE,
           OutWay(m) # "wait", InWay(m) # "wait", Grab(m, OutWay(m), InWay(m)),
           TakeBus(m), number' = number
    PROVE  NetInv'
<1>1. PICK V : Grabs(m, OutWay(m), InWay(m), V)
  BY Grabbed
<1>2. /\ BusesRight'
      /\ curr' \in Nat /\ onNet' \in Seq(Users) /\ queue' \in Seq(Users) /\ Once(queue')
      /\ \/ ToSet(queue') = ToSet(queue) \cup {m} /\ moving' = moving
         \/ queue' = queue /\ moving' = moving \cup {m}
  BY BusTaken
<1>3. Typed' /\ LinksRight' /\ Stolen' /\ Returned' /\ Woken' /\ CallsInOrder' /\ aborted' = FALSE
  <2>1. moving' \subseteq Users
    BY <1>2 DEF NetInv, Typed, TypeOK, Users
  <2> QED BY <1>1, <1>2, <2>1, GrabTyped, Grabbed, LinksGrabbed DEF Around
<1>4. QueuesRight'
  <2>1. \A x \in Msgs : x \in moving' \/ x \in ToSet(queue') => HasOut(x)' /\ HasIn(x)'
    <3> SUFFICES ASSUME NEW x \in Msgs, x \in moving' \/ x \in ToSet(queue')
                 PROVE  HasOut(x)' /\ HasIn(x)'
      OBVIOUS
    <3>1. CASE x = m
      BY <1>1, <3>1, HasAfter
    <3>2. CASE x # m
      <4>1. HasOut(x) /\ HasIn(x)
        BY <1>2, <3>2 DEF NetInv, QueuesRight
      <4> QED BY <1>1, <3>2, <4>1, HasAfter
    <3> QED BY <3>1, <3>2
  <2>2. \A x \in Msgs : ~Sent(x)'
    BY DEF Around
  <2>3. /\ \A n \in Nodes :
            /\ Once(thForOut[n])' /\ Once(thForIn[n])'
            /\ \A x \in ToSet(thForOut[n])' : Src(x)' = n /\ ~HasOut(x)' /\ x \notin partner'
            /\ \A x \in ToSet(thForIn[n])' :
                  Dst(x)' = n /\ HasOut(x)' /\ ~HasIn(x)' /\ x \in seeking'
        /\ \A x \in Msgs \ asked' : x \notin local' /\ x \notin partner'
    BY <1>1, LinksGrabbed
  <2> QED BY <1>2, <2>1, <2>2, <2>3 DEF QueuesRight
<1>5. Places'
  <2>1. \A x \in Msgs :
            (x \in ToSet(thForOut[Src(x)])' \/ x \in ToSet(thForIn[Dst(x)])')
              <=> x \in ToSet(thForOut[Src(x)]) \/ x \in ToSet(thForIn[Dst(x)])
    BY <1>1, LinksGrabbed
  <2>2. CASE ToSet(queue') = ToSet(queue) \cup {m} /\ moving' = moving
    <3>1. \A x : Waits(x)' <=> Waits(x) \/ x = m
      BY <2>1, <2>2 DEF Waits
    <3> QED BY <2>2, <3>1, ReadyIs DEF NetInv, Places, Around, Users
  <2>3. CASE queue' = queue /\ moving' = moving \cup {m}
    <3>1. \A x : Waits(x)' <=> Waits(x)
      BY <2>1, <2>3 DEF Waits
    <3> QED BY <2>3, <3>1, ReadyIs DEF NetInv, Places, Around, Users
  <2> QED BY <1>2, <2>2, <2>3
<1> QED BY <1>2, <1>3, <1>4, <1>5 DEF NetInv

LEMMA SendKeeps ==
    ASSUME NetInv, NEW m \in Msgs, Ready(m), Around(m), ReallySend(m)
    PROVE  NetInv'
<1> DEFINE out == OutWay(m)
           in == InWay(m)
<1>1. aborted' = FALSE /\ ~Fails(m, out, in)
  BY NeverFails DEF ReallySend
<1>2. out \in {"have", "free", "rob", "wait"} /\ in \in {"have", "free", "rob", "wait"}
  BY OutWays, InWays
<1>3. out = "rob" => ~Infinite(Dst(m))
  BY OutWays, NodesOf DEF NetInv, HasOut
<1>4. \/ /\ out = "wait" \/ (out = "rob" /\ in = "wait")
         /\ WaitForOut(m) /\ UNCHANGED buses
      \/ /\ out \in {"have", "free"} /\ in = "wait"
         /\ Grab(m, out, in) /\ UNCHANGED buses
      \/ /\ out # "wait" /\ in # "wait"
         /\ Grab(m, IF out = "rob" /\ Infinite(Dst(m)) THEN "have" ELSE out, in)
         /\ TakeBus(m) /\ UNCHANGED number
  BY <1>1 DEF ReallySend
<1>5. CASE /\ out = "wait" \/ (out = "rob" /\ in = "wait")
           /\ WaitForOut(m) /\ UNCHANGED buses
  BY <1>1, <1>5, WaitsForOut
<1>6. CASE /\ out \in {"have", "free"} /\ in = "wait"
           /\ Grab(m, out, in) /\ UNCHANGED buses
  <2>1. OutWay(m) # "wait" /\ InWay(m) = "wait" /\ Grab(m, OutWay(m), InWay(m))
    BY <1>6
  <2> QED BY <1>1, <1>6, <2>1, WaitsForIn
<1>7. CASE /\ out # "wait" /\ in # "wait"
           /\ Grab(m, IF out = "rob" /\ Infinite(Dst(m)) THEN "have" ELSE out, in)
           /\ TakeBus(m) /\ UNCHANGED number
  <2>1. (IF out = "rob" /\ Infinite(Dst(m)) THEN "have" ELSE out) = out
    BY <1>3
  <2>2. Grab(m, OutWay(m), InWay(m))
    BY <1>7, <2>1
  <2> QED BY <1>1, <1>7, <2>2, GoesToBus
<1> QED BY <1>4, <1>5, <1>6, <1>7

\* LINKS_get_network_links for a new message and for one that is woken.
LEMMA NewKeeps ==
    ASSUME NetInv, NEW m \in Msgs, Send(m)
    PROVE  NetInv'
<1>1. /\ calls = <<>> /\ calls' = <<>> /\ m \notin asked /\ ReallySend(m)
      /\ UNCHANGED <<input, done>> /\ asked' = asked \cup {m}
  BY DEF Send, Idle
<1>2. CallsInOrder' /\ Freeing' = Freeing /\ Serving' = Serving
      /\ Len(calls') \in Nat /\ Serving \in Nat
  BY <1>1 DEF NetInv, CallsInOrder, InOrder, Freeing, FreesBus, Serving
<1>3. \A c : ToDo(c)' <=> ToDo(c)
  BY <1>1 DEF ToDo
<1>4. \A x : ~Sent(x)'
  BY <1>1 DEF Sent
<1>5. Around(m)
  BY <1>1, <1>2, <1>3, <1>4 DEF Around
<1> QED BY <1>1, <1>5, SendKeeps DEF Ready

LEMMA CallSendKeeps ==
    ASSUME NetInv, CallSend
    PROVE  NetInv'
<1> DEFINE m == Head(calls).who
<1>1. /\ calls # <<>> /\ Head(calls).call = "send" /\ ReallySend(m)
      /\ calls' = Tail(calls) /\ UNCHANGED <<input, asked, done>>
  BY DEF CallSend, Calling
<1>2. partner \subseteq partner'
  BY <1>1 DEF ReallySend, WaitForOut, Grab, links
<1>3. partner \cap done \subseteq partner' \cap done'
  BY <1>1, <1>2
<1>4. /\ CallsInOrder' /\ Freeing' = Freeing
      /\ \A c \in ToSet(calls') : c.call \notin {"send", "freeOut"}
      /\ ToSet(calls) = ToSet(calls') \cup {Head(calls)}
      /\ Head(calls) \in Call /\ Len(calls) = Len(calls') + 1 /\ Len(calls') \in Nat
      /\ calls' # <<>> => Head(calls') \in ToSet(calls')
  <2>1. InOrder(calls, local \cap done, partner \cap done) /\ Head(calls).call # "freeBus"
    BY <1>1 DEF NetInv, CallsInOrder
  <2>2. /\ InOrder(Tail(calls), local' \cap done', partner' \cap done')
        /\ FreesBus(Tail(calls)) <=> FreesBus(calls)
        /\ \A c \in ToSet(Tail(calls)) : c.call \notin {"send", "freeOut"}
        /\ ToSet(calls) = ToSet(Tail(calls)) \cup {Head(calls)}
        /\ Head(calls) \in Call /\ Len(calls) = Len(Tail(calls)) + 1
        /\ Len(Tail(calls)) \in Nat
        /\ Tail(calls) # <<>> => Head(Tail(calls)) \in ToSet(Tail(calls))
    BY <1>1, <1>3, <2>1, TailInOrder
  <2>3. CallsInOrder'
    BY <1>1, <2>2 DEF CallsInOrder
  <2>4. Freeing' = Freeing
    BY <1>1, <2>2 DEF Freeing, FreesBus
  <2> QED BY <1>1, <2>2, <2>3, <2>4
<1>5. m \in Msgs /\ Sent(m)
  BY <1>1, <1>4 DEF Sent, Call
<1> HIDE DEF m
<1>6. \A c : c.call # "send" => (ToDo(c)' <=> ToDo(c))
  BY <1>1, <1>4 DEF ToDo
<1>7. Serving' = Serving /\ Serving \in Nat /\ \A x : ~Sent(x)'
  <2>1. calls' # <<>> => Head(calls').call # "send"
    BY <1>4
  <2>2. Serving' = Len(calls')
    BY <2>1 DEF Serving
  <2>3. Serving = Len(calls')
    BY <1>1, <1>4 DEF Serving
  <2> QED BY <1>4, <2>1, <2>2, <2>3 DEF Sent
<1>8. asked' = asked \cup {m}
  <2>1. m \in asked
    BY <1>5 DEF NetInv, Places, Users
  <2> QED BY <1>1, <2>1
<1>9. Around(m)
  <2>1. \A x : /\ ToWakeOut(x).call # "send" /\ ToWakeIn(x).call # "send"
               /\ ToFreeOut(x).call # "send" /\ ToFreeIn(x).call # "send"
    BY DEF ToWakeOut, ToWakeIn, ToFreeOut, ToFreeIn
  <2> QED BY <1>1, <1>4, <1>5, <1>6, <1>7, <1>8, <2>1 DEF Around
<1> QED BY <1>1, <1>5, <1>9, SendKeeps DEF m, Ready

-----------------------------------------------------------------------------
(* LINKS_free_network_link and the wake-ups that it makes.                 *)

\* The calls of a handler that frees a link.
LEMMA WakesPushed ==
    ASSUME NetInv, calls # <<>>, Head(calls).call \in {"freeOut", "freeIn"},
           NEW p \in BOOLEAN, NEW n \in Nodes, done' = done,
           partner \subseteq partner' \/ Head(calls).call = "freeIn",
           \/ calls' = Only(p, ToWakeIn(n)) \o <<ToWakeOut(n)>> \o Tail(calls)
           \/ calls' = Only(p, ToWakeOut(n)) \o <<ToWakeIn(n)>> \o Tail(calls)
    PROVE  /\ CallsInOrder' /\ Freeing /\ Freeing'
           /\ \A x : ~Sent(x) /\ ~Sent(x)'
           /\ \A k \in Nodes : /\ thForOut[k] # <<>> => freeOut[k] = 0
                               /\ thForIn[k] # <<>> => freeIn[k] = 0
           /\ \A x : x # Head(calls) /\ ToDo(x) => ToDo(x)'
           /\ calls' = Only(p, ToWakeIn(n)) \o <<ToWakeOut(n)>> \o Tail(calls) =>
                 ToDo(ToWakeOut(n))' /\ (p => ToDo(ToWakeIn(n))')
           /\ calls' = Only(p, ToWakeOut(n)) \o <<ToWakeIn(n)>> \o Tail(calls) =>
                 ToDo(ToWakeIn(n))' /\ (p => ToDo(ToWakeOut(n))')
<1> DEFINE h == Head(calls)
           t == Tail(calls)
<1>1. InOrder(calls, local \cap done, partner \cap done)
  BY DEF NetInv, CallsInOrder
<1>2. /\ calls \in Seq(Call) /\ h = calls[1] /\ 1 \in DOMAIN calls /\ DOMAIN calls = 1 .. Len(calls)
      /\ Len(calls) \in Nat
  BY <1>1, TailPositions DEF InOrder
<1>3. Freeing
  BY <1>1, <1>2 DEF InOrder, Freeing
<1>4. \A i \in DOMAIN calls : calls[i].call \notin {"wakeOut", "wakeIn"}
  <2>1. \A i \in DOMAIN calls : 1 <= i
    BY <1>2
  <2> QED BY <1>1, <1>2, <2>1 DEF InOrder
<1>5. \A k : ~ToDo(ToWakeOut(k)) /\ ~ToDo(ToWakeIn(k))
  BY <1>4 DEF ToDo, ToSet, ToWakeOut, ToWakeIn
<1>6. \A x : ~Sent(x)
  BY DEF Sent
<1>7. \A k \in Nodes : /\ thForOut[k] # <<>> => freeOut[k] = 0
                       /\ thForIn[k] # <<>> => freeIn[k] = 0
  BY <1>5, <1>6 DEF NetInv, Woken, WakingOut, WakingIn
<1> DEFINE outs == local' \cap done'
           ins == partner' \cap done'
<1>8. partner \cap done \subseteq ins \/ h.call = "freeIn"
  OBVIOUS
<1>9. /\ InOrder(t, outs, ins) /\ (FreesBus(t) <=> FreesBus(calls))
      /\ \A c \in ToSet(t) : c.call \notin {"send", "freeOut"}
      /\ ToSet(calls) = ToSet(t) \cup {h} /\ t \in Seq(Call)
  <2> HIDE DEF outs, ins
  <2>1. calls # <<>> /\ h.call # "freeBus"
    OBVIOUS
  <2> QED BY <1>1, <1>8, <2>1, TailInOrder
<1>10. /\ ToWakeOut(n) \in Call /\ ToWakeIn(n) \in Call
       /\ ToWakeOut(n).call = "wakeOut" /\ ToWakeIn(n).call = "wakeIn"
  BY DEF Call, ToWakeOut, ToWakeIn
<1> HIDE DEF t, outs, ins
<1>11. ASSUME NEW a \in Call, NEW b \in Call, a.call \in {"wakeOut", "wakeIn"},
              b.call \in {"wakeOut", "wakeIn"}, calls' = Only(p, a) \o <<b>> \o t
       PROVE  /\ InOrder(calls', outs, ins) /\ FreesBus(calls')
              /\ Head(calls').call # "send"
              /\ \A x \in ToSet(t) : x \in ToSet(calls')
              /\ b \in ToSet(calls') /\ (p => a \in ToSet(calls'))
  <2> DEFINE u == <<b>> \o t
  <2>1. /\ InOrder(u, outs, ins) /\ FreesBus(u) /\ ToSet(u) = {b} \cup ToSet(t)
        /\ Head(u) = b
    BY <1>3, <1>9, <1>11, PushInOrder DEF Freeing
  <2>2. u \in Seq(Call)
    BY <1>9
  <2>3. \A c \in ToSet(u) : c.call \notin {"send", "freeOut"}
    BY <1>9, <1>11, <2>1
  <2>4. CASE p
    <3>1. calls' = <<a>> \o u
      BY <1>9, <1>11, <2>4 DEF Only
    <3> HIDE DEF u
    <3>2. /\ InOrder(<<a>> \o u, outs, ins) /\ (FreesBus(<<a>> \o u) <=> FreesBus(u))
          /\ ToSet(<<a>> \o u) = {a} \cup ToSet(u) /\ Head(<<a>> \o u) = a
      BY <1>11, <2>1, <2>3, PushInOrder
    <3> QED BY <1>11, <2>1, <3>1, <3>2
  <2>5. CASE ~p
    <3>1. calls' = u
      BY <1>9, <1>11, <2>5 DEF Only
    <3> HIDE DEF u
    <3> QED BY <1>11, <2>1, <2>5, <3>1
  <2> QED BY <2>4, <2>5
<1>12. /\ InOrder(calls', outs, ins) /\ FreesBus(calls')
       /\ Head(calls').call # "send"
       /\ \A x \in ToSet(t) : x \in ToSet(calls')
  <2>1. CASE calls' = Only(p, ToWakeIn(n)) \o <<ToWakeOut(n)>> \o t
    BY <1>10, <1>11, <2>1
  <2>2. CASE calls' = Only(p, ToWakeOut(n)) \o <<ToWakeIn(n)>> \o t
    BY <1>10, <1>11, <2>2
  <2> QED BY <2>1, <2>2 DEF t
<1>13. CallsInOrder' /\ Freeing' /\ \A x : ~Sent(x)'
  BY <1>12 DEF CallsInOrder, Freeing, Sent, outs, ins
<1>14. \A x : x # h /\ ToDo(x) => ToDo(x)'
  BY <1>9, <1>12 DEF ToDo
<1>15. ASSUME calls' = Only(p, ToWakeIn(n)) \o <<ToWakeOut(n)>> \o t
       PROVE  ToDo(ToWakeOut(n))' /\ (p => ToDo(ToWakeIn(n))')
  BY <1>10, <1>11, <1>15 DEF ToDo
<1>16. ASSUME calls' = Only(p, ToWakeOut(n)) \o <<ToWakeIn(n)>> \o t
       PROVE  ToDo(ToWakeIn(n))' /\ (p => ToDo(ToWakeOut(n))')
  BY <1>10, <1>11, <1>16 DEF ToDo
<1> QED BY <1>3, <1>6, <1>7, <1>13, <1>14, <1>15, <1>16 DEF t

\* What does not depend on which of its links a message gives back.
LEMMA LinkFreed ==
    ASSUME NetInv, NEW m \in done \cap Msgs, Freeing, Freeing', CallsInOrder',
           \A x : ~Sent(x) /\ ~Sent(x)',
           UNCHANGED <<input, thForOut, thForIn, seeking, buses, asked, done, aborted>>,
           \/ local' = local \ {m} /\ partner' = partner /\ ~Infinite(Src(m))
           \/ local' = local /\ partner' = partner \ {m} /\ m \notin local /\ ~Infinite(Dst(m)),
           freeOut' \in [Nodes -> Nat], freeIn' \in [Nodes -> Nat],
           owners' \in [Nodes -> Seq(Msgs)], LinksRight', Woken', Returned'
    PROVE  NetInv'
<1>0. UNCHANGED <<thForOut, thForIn, seeking, curr, onNet, queue, number, moving, asked, done,
                  config, route, aborted>>
  BY DEF buses, input
<1>1. \A x : Src(x)' = Src(x) /\ Dst(x)' = Dst(x) /\ Infinite(x)' = Infinite(x)
  BY <1>0 DEF Src, Dst, Infinite
<1>2. \A x : x # m => (HasOut(x)' <=> HasOut(x)) /\ (HasIn(x)' <=> HasIn(x))
  BY <1>1 DEF HasOut, HasIn
<1>3. ~Waits(m) /\ m \notin moving
  BY DEF NetInv, Places
<1>4. local' \subseteq local /\ partner' \subseteq partner
  OBVIOUS
<1>5. Typed'
  <2>1. TypeOK'
    BY <1>0, <1>4 DEF NetInv, Typed, TypeOK
  <2> QED BY <1>0, <1>1, <2>1 DEF NetInv, Typed
<1>6. Stolen'
  <2> SUFFICES ASSUME NEW x \in local', x \notin partner' PROVE x \in ToSet(thForIn[Dst(x)])
    BY <1>0, <1>1 DEF Stolen
  <2>1. x \in local \ partner
    OBVIOUS
  <2> QED BY <2>1 DEF NetInv, Stolen
<1>7. QueuesRight'
  <2>1. ASSUME NEW n \in Nodes
        PROVE  /\ Once(thForOut'[n]) /\ Once(thForIn'[n])
               /\ \A x \in ToSet(thForOut'[n]) : Src(x)' = n /\ ~HasOut(x)' /\ x \notin partner'
               /\ \A x \in ToSet(thForIn'[n]) :
                     Dst(x)' = n /\ HasOut(x)' /\ ~HasIn(x)' /\ x \in seeking'
    <3>1. thForOut[n] \in Seq(Msgs) /\ thForIn[n] \in Seq(Msgs)
      BY DEF NetInv, Typed, TypeOK
    <3>2. m \notin ToSet(thForOut[n]) /\ m \notin ToSet(thForIn[n])
      BY <1>3 DEF NetInv, QueuesRight, Waits
    <3> QED BY <1>0, <1>1, <1>2, <1>4, <3>1, <3>2 DEF NetInv, QueuesRight
  <2>2. \A x \in Msgs : x \in moving' \/ x \in ToSet(queue') => HasOut(x)' /\ HasIn(x)'
    <3>1. m \notin moving /\ m \notin ToSet(queue)
      BY <1>3 DEF Waits
    <3> QED BY <1>0, <1>2, <3>1 DEF NetInv, QueuesRight
  <2>3. \A x \in Msgs \ asked' : x \notin local' /\ x \notin partner'
    BY <1>0, <1>4 DEF NetInv, QueuesRight
  <2>4. Once(queue')
    BY <1>0 DEF NetInv, QueuesRight
  <2> QED BY <2>1, <2>2, <2>3, <2>4 DEF QueuesRight
<1>8. Places'
  <2>1. \A x : Waits(x)' <=> Waits(x)
    BY <1>0, <1>1 DEF Waits
  <2> QED BY <1>0, <2>1 DEF NetInv, Places
<1>9. BusesRight'
  <2>1. Held' = Held
    BY <1>0 DEF Held
  <2>2. Freeing' = Freeing
    BY DEF Freeing, FreesBus
  <2> QED BY <1>0, <2>1, <2>2 DEF NetInv, BusesRight
<1> QED BY <1>0, <1>5, <1>6, <1>7, <1>8, <1>9 DEF NetInv

LEMMA FreeOutKeeps ==
    ASSUME NetInv, FreeOutLink
    PROVE  NetInv'
<1>0. PICK m, n, p : m = Head(calls).who /\ n = Src(m) /\ p = HalfDuplex(n)
  OBVIOUS
<1>1. /\ calls # <<>> /\ Head(calls).call = "freeOut"
      /\ freeOut' = [freeOut EXCEPT ![n] = @ + 1]
      /\ freeIn' = [freeIn EXCEPT ![n] = @ + If(p, 1)]
      /\ owners' = [owners EXCEPT ![n] = Without(@, {m})]
      /\ local' = local \ {m}
      /\ calls' = Only(p, ToWakeIn(n)) \o <<ToWakeOut(n)>> \o Tail(calls)
      /\ UNCHANGED <<input, thForOut, thForIn, partner, seeking, buses, asked, done, aborted>>
  BY <1>0 DEF FreeOutLink, Calling, ToWakeIn, ToWakeOut
<1>2. calls[1] = Head(calls) /\ 1 \in DOMAIN calls /\ Head(calls) \in Call
  BY <1>1, TailPositions DEF NetInv, CallsInOrder, InOrder
<1>3. m \in local \cap done /\ m \in Msgs /\ Head(calls) = ToFreeOut(m)
  <2>1. m \in local \cap done
    BY <1>0, <1>1, <1>2 DEF NetInv, CallsInOrder, InOrder
  <2>2. Head(calls) = ToFreeOut(m)
    BY <1>0, <1>1, <1>2 DEF Call, ToFreeOut
  <2> QED BY <2>1, <2>2 DEF NetInv, Typed, TypeOK
<1>4. n \in Nodes /\ ~Infinite(n)
  BY <1>0, <1>3, NodesOf DEF NetInv, LinksRight
<1>5. p \in BOOLEAN /\ partner' = partner
  BY <1>0, <1>1 DEF HalfDuplex
<1>6. /\ CallsInOrder' /\ Freeing /\ Freeing'
      /\ \A x : ~Sent(x) /\ ~Sent(x)'
      /\ \A k \in Nodes : /\ thForOut[k] # <<>> => freeOut[k] = 0
                          /\ thForIn[k] # <<>> => freeIn[k] = 0
      /\ \A x : x # Head(calls) /\ ToDo(x) => ToDo(x)'
      /\ ToDo(ToWakeOut(n))' /\ (p => ToDo(ToWakeIn(n))')
  BY <1>1, <1>4, <1>5, WakesPushed
<1>7. /\ freeOut \in [Nodes -> Nat] /\ freeIn \in [Nodes -> Nat] /\ owners \in [Nodes -> Seq(Msgs)]
      /\ \A k \in Nodes : Once(owners[k]) /\ ToSet(owners[k]) = OutUsers(k)
  BY DEF NetInv, Typed, TypeOK, LinksRight
<1>8. /\ Without(owners[n], {m}) \in Seq(Msgs) /\ Once(Without(owners[n], {m}))
      /\ ToSet(Without(owners[n], {m})) = OutUsers(n) \ {m}
  BY <1>4, <1>7, WithoutElements
<1>9. /\ \A x : Src(x)' = Src(x) /\ Dst(x)' = Dst(x) /\ Infinite(x)' = Infinite(x)
      /\ \A x : /\ HalfDuplex(x)' = HalfDuplex(x) /\ LinksIn(x)' = LinksIn(x)
               /\ LinksOut(x)' = LinksOut(x) /\ InUsers(x)' = InUsers(x)
  BY <1>1 DEF input, Src, Dst, Infinite, HalfDuplex, LinksIn, LinksOut, InUsers
<1>10. \A k : OutUsers(k)' = OutUsers(k) \ (IF k = n THEN {m} ELSE {})
  BY <1>0, <1>1, <1>3, <1>9 DEF OutUsers
<1>11. m \in OutUsers(n) /\ p = HalfDuplex(n)
  BY <1>0, <1>3 DEF OutUsers
<1>12. /\ IsFiniteSet(OutUsers(n))
       /\ Cardinality(OutUsers(n) \ {m}) = Cardinality(OutUsers(n)) - 1
       /\ Cardinality(OutUsers(n)) \in Nat /\ Cardinality(InUsers(n)) \in Nat
  BY <1>4, <1>11, Twins, FS_RemoveElement
<1>13. /\ freeOut' \in [Nodes -> Nat] /\ freeIn' \in [Nodes -> Nat]
       /\ owners' \in [Nodes -> Seq(Msgs)]
  BY <1>1, <1>4, <1>7, <1>8 DEF If
<1>14. LinksRight'
  <2>1. ASSUME NEW k \in Nodes PROVE Once(owners[k])' /\ ToSet(owners[k])' = OutUsers(k)'
    <3>1. CASE k = n
      BY <1>1, <1>7, <1>8, <1>10, <3>1
    <3>2. CASE k # n
      BY <1>1, <1>7, <1>10, <3>2
    <3> QED BY <3>1, <3>2
  <2>2. ASSUME NEW k \in Nodes, ~Infinite(k)
        PROVE  /\ freeOut'[k] + Cardinality(OutUsers(k)')
                     + If(HalfDuplex(k), Cardinality(InUsers(k))) = LinksOut(k)
               /\ freeIn'[k] + Cardinality(InUsers(k))
                     + If(HalfDuplex(k), Cardinality(OutUsers(k)')) = LinksIn(k)
    <3>1. /\ freeOut[k] + Cardinality(OutUsers(k))
                + (IF HalfDuplex(k) THEN Cardinality(InUsers(k)) ELSE 0) = LinksOut(k)
          /\ freeIn[k] + Cardinality(InUsers(k))
                + (IF HalfDuplex(k) THEN Cardinality(OutUsers(k)) ELSE 0) = LinksIn(k)
      BY <2>2 DEF NetInv, LinksRight, If
    <3>2. CASE k = n
      <4>1. Cardinality(OutUsers(n)') = Cardinality(OutUsers(n)) - 1
        BY <1>10, <1>12
      <4>2. freeOut'[n] = freeOut[n] + 1 /\ freeIn'[n] = freeIn[n] + (IF p THEN 1 ELSE 0)
            /\ freeOut[n] \in Nat /\ freeIn[n] \in Nat
        BY <1>1, <1>4, <1>7 DEF If
      <4>3. CASE p
        BY <1>11, <1>12, <3>1, <3>2, <4>1, <4>2, <4>3 DEF If
      <4>4. CASE ~p
        BY <1>11, <1>12, <3>1, <3>2, <4>1, <4>2, <4>4 DEF If
      <4> QED BY <1>5, <4>3, <4>4
    <3>3. CASE k # n
      <4>1. OutUsers(k)' = OutUsers(k) /\ freeOut'[k] = freeOut[k] /\ freeIn'[k] = freeIn[k]
        BY <1>1, <1>7, <1>10, <3>3
      <4> QED BY <3>1, <4>1 DEF If
    <3> QED BY <3>2, <3>3
  <2>3. /\ IsFiniteSet(partner') /\ \A x \in local' : ~Infinite(Src(x))
        /\ \A x \in partner' : ~Infinite(Dst(x))
    BY <1>1 DEF NetInv, LinksRight
  <2> QED BY <1>9, <2>1, <2>2, <2>3 DEF LinksRight
<1>15. Woken'
  <2> SUFFICES ASSUME NEW k \in Nodes
               PROVE  /\ thForOut[k] # <<>> => freeOut'[k] = 0 \/ (freeOut'[k] = 1 /\ WakingOut(k)')
                      /\ thForIn[k] # <<>> => freeIn'[k] = 0 \/ (freeIn'[k] = 1 /\ WakingIn(k)')
    BY <1>1 DEF Woken
  <2>1. CASE k = n
    <3>1. WakingOut(n)' /\ (p => WakingIn(n)')
      BY <1>6 DEF WakingOut, WakingIn
    <3> QED BY <1>1, <1>4, <1>5, <1>6, <1>7, <2>1, <3>1 DEF If
  <2>2. CASE k # n
    BY <1>1, <1>6, <1>7, <2>2
  <2> QED BY <2>1, <2>2
<1>16. Returned'
  <2> SUFFICES ASSUME NEW x \in done \cap Msgs
               PROVE  /\ x \in local' => ToDo(ToFreeOut(x))'
                      /\ x \in partner' => ToDo(ToFreeIn(x))'
    BY <1>1 DEF Returned
  <2>1. x \in local' => ToFreeOut(x) # Head(calls)
    BY <1>1, <1>3 DEF ToFreeOut
  <2>2. ToFreeIn(x) # Head(calls)
    BY <1>3 DEF ToFreeOut, ToFreeIn
  <2> QED BY <1>1, <1>6, <2>1, <2>2 DEF NetInv, Returned
<1> QED BY <1>0, <1>1, <1>3, <1>4, <1>6, <1>13, <1>14, <1>15, <1>16, LinkFreed

LEMMA FreeInKeeps ==
    ASSUME NetInv, FreeInLink
    PROVE  NetInv'
<1>0. PICK m, n, p : m = Head(calls).who /\ n = Dst(m) /\ p = HalfDuplex(n)
  OBVIOUS
<1>1. /\ calls # <<>> /\ Head(calls).call = "freeIn"
      /\ freeIn' = [freeIn EXCEPT ![n] = @ + 1]
      /\ freeOut' = [freeOut EXCEPT ![n] = @ + If(p, 1)]
      /\ partner' = partner \ {m}
      /\ calls' = Only(p, ToWakeOut(n)) \o <<ToWakeIn(n)>> \o Tail(calls)
      /\ UNCHANGED <<input, owners, thForOut, thForIn, local, seeking, buses, asked, done,
                     aborted>>
  BY <1>0 DEF FreeInLink, Calling, ToWakeIn, ToWakeOut
<1>2. calls[1] = Head(calls) /\ 1 \in DOMAIN calls /\ Head(calls) \in Call
  BY <1>1, TailPositions DEF NetInv, CallsInOrder, InOrder
<1>3. m \in partner \cap done /\ m \in Msgs /\ Head(calls) = ToFreeIn(m)
  <2>1. m \in partner \cap done
    BY <1>0, <1>1, <1>2 DEF NetInv, CallsInOrder, InOrder
  <2>2. Head(calls) = ToFreeIn(m)
    BY <1>0, <1>1, <1>2 DEF Call, ToFreeIn
  <2> QED BY <2>1, <2>2 DEF NetInv, Typed, TypeOK
<1>4. n \in Nodes /\ ~Infinite(n)
  BY <1>0, <1>3, NodesOf DEF NetInv, LinksRight
<1>5. p \in BOOLEAN
  BY <1>0 DEF HalfDuplex
<1>6. /\ CallsInOrder' /\ Freeing /\ Freeing'
      /\ \A x : ~Sent(x) /\ ~Sent(x)'
      /\ \A k \in Nodes : /\ thForOut[k] # <<>> => freeOut[k] = 0
                          /\ thForIn[k] # <<>> => freeIn[k] = 0
      /\ \A x : x # Head(calls) /\ ToDo(x) => ToDo(x)'
      /\ ToDo(ToWakeIn(n))' /\ (p => ToDo(ToWakeOut(n))')
  BY <1>1, <1>4, <1>5, WakesPushed
\* The output link has been given back first.
<1>7. m \notin local
  <2> SUFFICES ASSUME m \in local PROVE FALSE
    OBVIOUS
  <2>1. ToFreeOut(m) \in ToSet(calls)
    BY <1>3 DEF NetInv, Returned, ToDo
  <2>2. \A i \in DOMAIN calls : calls[i].call = "freeOut" => i = 1
    BY DEF NetInv, CallsInOrder, InOrder
  <2>3. Head(calls).call = "freeOut"
    BY <1>2, <2>1, <2>2 DEF ToSet, ToFreeOut
  <2> QED BY <1>1, <2>3
<1>8. freeOut \in [Nodes -> Nat] /\ freeIn \in [Nodes -> Nat] /\ owners \in [Nodes -> Seq(Msgs)]
  BY DEF NetInv, Typed, TypeOK
<1>9. /\ \A x : Src(x)' = Src(x) /\ Dst(x)' = Dst(x) /\ Infinite(x)' = Infinite(x)
      /\ \A x : /\ HalfDuplex(x)' = HalfDuplex(x) /\ LinksIn(x)' = LinksIn(x)
               /\ LinksOut(x)' = LinksOut(x) /\ OutUsers(x)' = OutUsers(x)
  BY <1>1 DEF input, Src, Dst, Infinite, HalfDuplex, LinksIn, LinksOut, OutUsers
<1>10. \A k : InUsers(k)' = InUsers(k) \ (IF k = n THEN {m} ELSE {})
  BY <1>0, <1>1, <1>3, <1>9 DEF InUsers
<1>11. m \in InUsers(n) /\ p = HalfDuplex(n)
  BY <1>0, <1>3 DEF InUsers
<1>12. /\ IsFiniteSet(InUsers(n))
       /\ Cardinality(InUsers(n) \ {m}) = Cardinality(InUsers(n)) - 1
       /\ Cardinality(OutUsers(n)) \in Nat /\ Cardinality(InUsers(n)) \in Nat
  BY <1>4, <1>11, Twins, FS_RemoveElement
<1>13. /\ freeOut' \in [Nodes -> Nat] /\ freeIn' \in [Nodes -> Nat]
       /\ owners' \in [Nodes -> Seq(Msgs)]
  BY <1>1, <1>4, <1>8 DEF If
<1>14. LinksRight'
  <2>1. ASSUME NEW k \in Nodes PROVE Once(owners[k])' /\ ToSet(owners[k])' = OutUsers(k)'
    BY <1>1, <1>9 DEF NetInv, LinksRight
  <2>2. ASSUME NEW k \in Nodes, ~Infinite(k)
        PROVE  /\ freeOut'[k] + Cardinality(OutUsers(k))
                     + If(HalfDuplex(k), Cardinality(InUsers(k)')) = LinksOut(k)
               /\ freeIn'[k] + Cardinality(InUsers(k)')
                     + If(HalfDuplex(k), Cardinality(OutUsers(k))) = LinksIn(k)
    <3>1. /\ freeOut[k] + Cardinality(OutUsers(k))
                + (IF HalfDuplex(k) THEN Cardinality(InUsers(k)) ELSE 0) = LinksOut(k)
          /\ freeIn[k] + Cardinality(InUsers(k))
                + (IF HalfDuplex(k) THEN Cardinality(OutUsers(k)) ELSE 0) = LinksIn(k)
      BY <2>2 DEF NetInv, LinksRight, If
    <3>2. CASE k = n
      <4>1. Cardinality(InUsers(n)') = Cardinality(InUsers(n)) - 1
        BY <1>10, <1>12
      <4>2. freeIn'[n] = freeIn[n] + 1 /\ freeOut'[n] = freeOut[n] + (IF p THEN 1 ELSE 0)
            /\ freeOut[n] \in Nat /\ freeIn[n] \in Nat
        BY <1>1, <1>4, <1>8 DEF If
      <4>3. CASE p
        <5>1. /\ freeOut[n] + Cardinality(OutUsers(n)) + Cardinality(InUsers(n)) = LinksOut(n)
              /\ freeIn[n] + Cardinality(InUsers(n)) + Cardinality(OutUsers(n)) = LinksIn(n)
          BY <1>11, <3>1, <3>2, <4>3
        <5>2. /\ freeOut'[n] + Cardinality(OutUsers(n)) + Cardinality(InUsers(n)') = LinksOut(n)
              /\ freeIn'[n] + Cardinality(InUsers(n)') + Cardinality(OutUsers(n)) = LinksIn(n)
          BY <1>12, <4>1, <4>2, <4>3, <5>1
        <5> QED BY <1>11, <3>2, <4>3, <5>2 DEF If
      <4>4. CASE ~p
        BY <1>11, <1>12, <3>1, <3>2, <4>1, <4>2, <4>4 DEF If
      <4> QED BY <1>5, <4>3, <4>4
    <3>3. CASE k # n
      <4>1. InUsers(k)' = InUsers(k) /\ freeOut'[k] = freeOut[k] /\ freeIn'[k] = freeIn[k]
        BY <1>1, <1>8, <1>10, <3>3
      <4> QED BY <3>1, <4>1 DEF If
    <3> QED BY <3>2, <3>3
  <2>3. /\ IsFiniteSet(partner') /\ \A x \in local' : ~Infinite(Src(x))
        /\ \A x \in partner' : ~Infinite(Dst(x))
    BY <1>1, FS_Subset DEF NetInv, LinksRight
  <2> QED BY <1>9, <2>1, <2>2, <2>3 DEF LinksRight
<1>15. Woken'
  <2> SUFFICES ASSUME NEW k \in Nodes
               PROVE  /\ thForOut[k] # <<>> => freeOut'[k] = 0 \/ (freeOut'[k] = 1 /\ WakingOut(k)')
                      /\ thForIn[k] # <<>> => freeIn'[k] = 0 \/ (freeIn'[k] = 1 /\ WakingIn(k)')
    BY <1>1 DEF Woken
  <2>1. CASE k = n
    <3>1. WakingIn(n)' /\ (p => WakingOut(n)')
      BY <1>6 DEF WakingOut, WakingIn
    <3> QED BY <1>1, <1>4, <1>5, <1>6, <1>8, <2>1, <3>1 DEF If
  <2>2. CASE k # n
    BY <1>1, <1>6, <1>8, <2>2
  <2> QED BY <2>1, <2>2
<1>16. Returned'
  <2> SUFFICES ASSUME NEW x \in done \cap Msgs
               PROVE  /\ x \in local' => ToDo(ToFreeOut(x))'
                      /\ x \in partner' => ToDo(ToFreeIn(x))'
    BY <1>1 DEF Returned
  <2>1. x \in partner' => ToFreeIn(x) # Head(calls)
    BY <1>1, <1>3 DEF ToFreeIn
  <2>2. ToFreeOut(x) # Head(calls)
    BY <1>3 DEF ToFreeOut, ToFreeIn
  <2> QED BY <1>1, <1>6, <2>1, <2>2 DEF NetInv, Returned
<1> QED BY <1>0, <1>1, <1>3, <1>4, <1>6, <1>7, <1>13, <1>14, <1>15, <1>16, LinkFreed

\* A woken message is called at once, or there is nobody to wake.
LEMMA WakeCalled ==
    ASSUME NetInv, calls # <<>>, Head(calls).call \in {"wakeOut", "wakeIn"},
           UNCHANGED <<local, partner, done>>,
           \/ calls' = Tail(calls)
           \/ \E x \in Msgs : calls' = <<[call |-> "send", who |-> x]>> \o Tail(calls)
    PROVE  /\ CallsInOrder' /\ Freeing /\ Freeing'
           /\ \A x : ~Sent(x)
           /\ calls' = Tail(calls) => \A x : ~Sent(x)'
           /\ \A x \in Msgs :
                 calls' = <<[call |-> "send", who |-> x]>> \o Tail(calls) =>
                     \A y : Sent(y)' <=> y = x
           /\ \A c : c # Head(calls) /\ ToDo(c) => ToDo(c)'
           /\ Head(calls) \in Call
<1> DEFINE t == Tail(calls)
           outs == local \cap done
           ins == partner \cap done
<1>1. InOrder(calls, outs, ins)
  BY DEF NetInv, CallsInOrder
<1>2. /\ InOrder(t, outs, ins) /\ (FreesBus(t) <=> FreesBus(calls))
      /\ \A c \in ToSet(t) : c.call \notin {"send", "freeOut"}
      /\ ToSet(calls) = ToSet(t) \cup {Head(calls)} /\ Head(calls) \in Call
      /\ t \in Seq(Call) /\ (t # <<>> => Head(t) \in ToSet(t))
  <2> HIDE DEF outs, ins
  <2>1. calls # <<>> /\ Head(calls).call # "freeBus" /\ ins \subseteq ins
    OBVIOUS
  <2> QED BY <1>1, <2>1, TailInOrder
<1>3. FreesBus(calls)
  <2>1. calls[1] = Head(calls) /\ 1 \in DOMAIN calls
    BY <1>1, TailPositions DEF InOrder
  <2> QED BY <1>1, <2>1 DEF InOrder
<1>4. \A x : ~Sent(x)
  BY DEF Sent
<1> HIDE DEF t, outs, ins
<1>5. ASSUME calls' = t
      PROVE  InOrder(calls', outs, ins) /\ FreesBus(calls') /\ (\A x : ~Sent(x)')
             /\ \A c \in ToSet(t) : c \in ToSet(calls')
  BY <1>2, <1>3, <1>5 DEF Sent
<1>6. ASSUME NEW x \in Msgs, calls' = <<[call |-> "send", who |-> x]>> \o t
      PROVE  InOrder(calls', outs, ins) /\ FreesBus(calls') /\ (\A y : Sent(y)' <=> y = x)
             /\ \A c \in ToSet(t) : c \in ToSet(calls')
  <2>1. PICK c : c = [call |-> "send", who |-> x]
    OBVIOUS
  <2>2. c \in Call /\ c.call = "send" /\ c.who = x
    BY <2>1 DEF Call
  <2>3. /\ InOrder(<<c>> \o t, outs, ins) /\ (FreesBus(<<c>> \o t) <=> FreesBus(t))
        /\ ToSet(<<c>> \o t) = {c} \cup ToSet(t)
        /\ Head(<<c>> \o t) = c /\ <<c>> \o t # <<>>
    BY <1>2, <2>2, PushInOrder
  <2> QED BY <1>2, <1>3, <1>6, <2>1, <2>2, <2>3 DEF Sent
<1>7. InOrder(calls', outs, ins) /\ FreesBus(calls') /\ \A c \in ToSet(t) : c \in ToSet(calls')
  BY <1>5, <1>6 DEF t
<1>8. CallsInOrder' /\ Freeing /\ Freeing'
  BY <1>3, <1>7 DEF CallsInOrder, Freeing, outs, ins
<1>9. \A c : c # Head(calls) /\ ToDo(c) => ToDo(c)'
  BY <1>2, <1>7 DEF ToDo
<1> QED BY <1>2, <1>4, <1>5, <1>6, <1>8, <1>9 DEF t

\* What does not depend on the queue that the woken message leaves.
LEMMA MessageWoken ==
    ASSUME NetInv, NEW x \in Msgs, Freeing, Freeing', CallsInOrder',
           \A y : ~Sent(y) /\ (Sent(y)' <=> y = x),
           \A y : (ToDo(ToFreeOut(y)) => ToDo(ToFreeOut(y))')
                    /\ (ToDo(ToFreeIn(y)) => ToDo(ToFreeIn(y))'),
           UNCHANGED <<input, freeOut, freeIn, owners, local, partner, seeking, buses,
                       asked, done, aborted>>,
           thForOut' \in [Nodes -> Seq(Msgs)], thForIn' \in [Nodes -> Seq(Msgs)],
           \A n \in Nodes : /\ Once(thForOut'[n]) /\ Once(thForIn'[n])
                            /\ ToSet(thForOut'[n]) = ToSet(thForOut[n]) \ {x}
                            /\ ToSet(thForIn'[n]) = ToSet(thForIn[n]) \ {x},
           x \in ToSet(thForOut[Src(x)]) \/ x \in ToSet(thForIn[Dst(x)]), ~HasIn(x), Woken'
    PROVE  NetInv'
<1>0. UNCHANGED <<freeOut, freeIn, owners, local, partner, seeking, curr, onNet, queue, number,
                  moving, asked, done, config, route, aborted>>
  BY DEF buses, input
<1>1. \A y : Src(y)' = Src(y) /\ Dst(y)' = Dst(y) /\ Infinite(y)' = Infinite(y)
  BY <1>0 DEF Src, Dst, Infinite
<1>2. \A y : HasOut(y)' = HasOut(y) /\ HasIn(y)' = HasIn(y)
  BY <1>0, <1>1 DEF HasOut, HasIn
<1>3. Waits(x) /\ x \notin moving \cup done /\ x \in asked
  <2>1. Waits(x) /\ x \in Users
    BY DEF Waits, Users
  <2> QED BY <2>1 DEF NetInv, Places
<1>4. Typed'
  <2>1. TypeOK'
    BY <1>0 DEF NetInv, Typed, TypeOK
  <2> QED BY <1>0, <1>1, <2>1 DEF NetInv, Typed
<1>5. LinksRight'
  BY <1>0 DEF NetInv, LinksRight, OutUsers, InUsers, HalfDuplex, LinksOut, LinksIn, Src, Dst, Infinite
<1>6. Stolen'
  <2> SUFFICES ASSUME NEW y \in local \ partner PROVE y \in ToSet(thForIn'[Dst(y)]) \/ y = x
    BY <1>0, <1>1 DEF Stolen
  <2>1. y \in Msgs /\ y \in ToSet(thForIn[Dst(y)])
    BY DEF NetInv, Stolen, Typed, TypeOK
  <2> QED BY <2>1, NodesOf DEF NetInv
<1>7. Returned'
  BY <1>0 DEF NetInv, Returned
<1>8. QueuesRight'
  <2>1. ASSUME NEW n \in Nodes
        PROVE  /\ Once(thForOut'[n]) /\ Once(thForIn'[n])
               /\ \A y \in ToSet(thForOut'[n]) : Src(y)' = n /\ ~HasOut(y)' /\ y \notin partner'
               /\ \A y \in ToSet(thForIn'[n]) :
                     Dst(y)' = n /\ HasOut(y)' /\ ~HasIn(y)' /\ y \in seeking'
    BY <1>0, <1>1, <1>2 DEF NetInv, QueuesRight
  <2>2. /\ \A y \in Msgs : y \in moving' \/ y \in ToSet(queue') => HasOut(y)' /\ HasIn(y)'
        /\ \A y \in Msgs \ asked' : y \notin local' /\ y \notin partner'
        /\ Once(queue')
    BY <1>0, <1>2 DEF NetInv, QueuesRight
  <2>3. \A y \in Msgs : Sent(y)' => ~HasIn(y)'
    BY <1>2
  <2> QED BY <2>1, <2>2, <2>3 DEF QueuesRight
<1>9. Places'
  <2>1. x \notin ToSet(queue)
    BY DEF NetInv, QueuesRight
  <2>2. \A y : Waits(y)' <=> Waits(y) /\ y # x
    <3>1. \A y \in Msgs : Src(y) \in Nodes /\ Dst(y) \in Nodes
      BY NodesOf DEF NetInv
    <3> QED BY <1>0, <1>1, <2>1, <3>1 DEF Waits
  <2> QED BY <1>0, <1>3, <2>2 DEF NetInv, Places
<1>10. BusesRight'
  <2>1. Held' = Held
    BY <1>0 DEF Held
  <2>2. Freeing' = Freeing
    BY DEF Freeing, FreesBus
  <2> QED BY <1>0, <2>1, <2>2 DEF NetInv, BusesRight
<1> QED BY <1>0, <1>4, <1>5, <1>6, <1>7, <1>8, <1>9, <1>10 DEF NetInv

LEMMA NobodyWoken ==
    ASSUME NetInv, Freeing, Freeing', CallsInOrder',
           \A y : ~Sent(y) /\ ~Sent(y)',
           \A y : (ToDo(ToFreeOut(y)) => ToDo(ToFreeOut(y))')
                    /\ (ToDo(ToFreeIn(y)) => ToDo(ToFreeIn(y))'),
           UNCHANGED <<input, links, buses, asked, done, aborted>>, Woken'
    PROVE  NetInv'
<1>0. UNCHANGED <<freeOut, freeIn, owners, thForOut, thForIn, local, partner, seeking, curr,
                  onNet, queue, number, moving, asked, done, config, route, aborted>>
  BY DEF buses, input, links
<1>1. \A y : Src(y)' = Src(y) /\ Dst(y)' = Dst(y) /\ Infinite(y)' = Infinite(y)
  BY <1>0 DEF Src, Dst, Infinite
<1>2. \A y : HasOut(y)' = HasOut(y) /\ HasIn(y)' = HasIn(y) /\ (Waits(y)' <=> Waits(y))
  BY <1>0, <1>1 DEF HasOut, HasIn, Waits
<1>3. Typed'
  <2>1. TypeOK'
    BY <1>0 DEF NetInv, Typed, TypeOK
  <2> QED BY <1>0, <1>1, <2>1 DEF NetInv, Typed
<1>4. LinksRight'
  BY <1>0 DEF NetInv, LinksRight, OutUsers, InUsers, HalfDuplex, LinksOut, LinksIn, Src, Dst, Infinite
<1>5. Stolen' /\ Returned'
  BY <1>0, <1>1 DEF NetInv, Stolen, Returned
<1>6. QueuesRight'
  BY <1>0, <1>1, <1>2 DEF NetInv, QueuesRight
<1>7. Places'
  BY <1>0, <1>2 DEF NetInv, Places
<1>8. BusesRight'
  <2>1. Held' = Held
    BY <1>0 DEF Held
  <2>2. Freeing' = Freeing
    BY DEF Freeing, FreesBus
  <2> QED BY <1>0, <2>1, <2>2 DEF NetInv, BusesRight
<1> QED BY <1>0, <1>3, <1>4, <1>5, <1>6, <1>7, <1>8 DEF NetInv

LEMMA WakeOutKeeps ==
    ASSUME NetInv, WakeOut
    PROVE  NetInv'
<1>0. PICK n : n = Head(calls).at
  OBVIOUS
<1>1. /\ calls # <<>> /\ Head(calls).call = "wakeOut"
      /\ UNCHANGED <<input, freeOut, freeIn, owners, thForIn, local, partner, seeking, buses,
                     asked, done, aborted>>
      /\ \/ thForOut[n] = <<>> /\ calls' = Tail(calls) /\ UNCHANGED thForOut
         \/ /\ thForOut[n] # <<>> /\ thForOut' = [thForOut EXCEPT ![n] = Tail(@)]
            /\ calls' = <<[call |-> "send", who |-> Head(thForOut[n])]>> \o Tail(calls)
  BY <1>0 DEF WakeOut, Calling
<1>2. n \in Nodes /\ Head(calls) = ToWakeOut(n) /\ Head(calls) \in Call
  <2>1. Head(calls) \in Call
    BY <1>1, TailPositions DEF NetInv, CallsInOrder, InOrder
  <2> QED BY <1>0, <1>1, <2>1 DEF Call, ToWakeOut
<1>3. /\ thForOut \in [Nodes -> Seq(Msgs)] /\ thForIn \in [Nodes -> Seq(Msgs)]
      /\ \A k \in Nodes : Once(thForOut[k]) /\ Once(thForIn[k])
  BY DEF NetInv, Typed, TypeOK, QueuesRight
<1>4. thForOut[n] # <<>> => Head(thForOut[n]) \in Msgs
  BY <1>2, <1>3, TailPositions
<1>5. /\ CallsInOrder' /\ Freeing /\ Freeing' /\ \A x : ~Sent(x)
      /\ calls' = Tail(calls) => \A x : ~Sent(x)'
      /\ \A x \in Msgs :
            calls' = <<[call |-> "send", who |-> x]>> \o Tail(calls) => \A y : Sent(y)' <=> y = x
      /\ \A c : c # Head(calls) /\ ToDo(c) => ToDo(c)'
  BY <1>1, <1>4, WakeCalled
<1>6. \A x : /\ ToDo(ToFreeOut(x)) => ToDo(ToFreeOut(x))'
             /\ ToDo(ToFreeIn(x)) => ToDo(ToFreeIn(x))'
             /\ ToDo(ToWakeIn(x)) => ToDo(ToWakeIn(x))'
             /\ x # n /\ ToDo(ToWakeOut(x)) => ToDo(ToWakeOut(x))'
  <2>1. \A x : /\ ToFreeOut(x) # Head(calls) /\ ToFreeIn(x) # Head(calls)
               /\ ToWakeIn(x) # Head(calls) /\ (x # n => ToWakeOut(x) # Head(calls))
    BY <1>2 DEF ToFreeOut, ToFreeIn, ToWakeOut, ToWakeIn
  <2> QED BY <1>5, <2>1
<1>7. ASSUME NEW k \in Nodes
      PROVE  /\ k # n /\ thForOut[k] # <<>> => freeOut[k] = 0 \/ (freeOut[k] = 1 /\ WakingOut(k)')
             /\ thForIn[k] # <<>> => freeIn[k] = 0 \/ (freeIn[k] = 1 /\ WakingIn(k)')
  BY <1>5, <1>6 DEF NetInv, Woken, WakingOut, WakingIn
<1>8. CASE thForOut[n] = <<>>
  <2>1. calls' = Tail(calls) /\ thForOut' = thForOut
    BY <1>1, <1>8
  <2>2. Woken'
    BY <1>1, <1>7, <1>8, <2>1 DEF Woken
  <2>3. UNCHANGED <<input, links, buses, asked, done, aborted>> /\ \A x : ~Sent(x) /\ ~Sent(x)'
    BY <1>1, <1>5, <2>1 DEF links
  <2> QED BY <1>5, <1>6, <2>2, <2>3, NobodyWoken
<1>9. CASE thForOut[n] # <<>>
  <2>1. PICK x : x = Head(thForOut[n])
    OBVIOUS
  <2>2. /\ x \in Msgs /\ thForOut' = [thForOut EXCEPT ![n] = Tail(@)]
        /\ calls' = <<[call |-> "send", who |-> x]>> \o Tail(calls)
    BY <1>1, <1>4, <1>9, <2>1
  <2>3. /\ x \in ToSet(thForOut[n]) /\ ToSet(Tail(thForOut[n])) = ToSet(thForOut[n]) \ {x}
        /\ Once(Tail(thForOut[n])) /\ Tail(thForOut[n]) \in Seq(Msgs)
    BY <1>2, <1>3, <1>9, <2>1, TailElements, TailPositions
  <2>4. Src(x) = n /\ ~HasOut(x) /\ x \notin partner
    BY <1>2, <2>3 DEF NetInv, QueuesRight
  <2>5. ~HasIn(x)
    BY <2>2, <2>4, NodesOf DEF NetInv, HasOut, HasIn
  <2>6. \A y : ~Sent(y) /\ (Sent(y)' <=> y = x)
    BY <1>5, <2>2
  <2>7. thForOut' \in [Nodes -> Seq(Msgs)] /\ thForIn' \in [Nodes -> Seq(Msgs)]
    BY <1>1, <1>3, <2>2, <2>3
  <2>8. ASSUME NEW k \in Nodes
        PROVE  /\ Once(thForOut'[k]) /\ Once(thForIn'[k])
               /\ ToSet(thForOut'[k]) = ToSet(thForOut[k]) \ {x}
               /\ ToSet(thForIn'[k]) = ToSet(thForIn[k]) \ {x}
    <3>1. x \notin ToSet(thForIn[k])
      BY <2>4 DEF NetInv, QueuesRight
    <3>2. k # n => x \notin ToSet(thForOut[k])
      BY <2>4 DEF NetInv, QueuesRight
    <3>3. thForOut'[k] = IF k = n THEN Tail(thForOut[n]) ELSE thForOut[k]
      BY <1>2, <1>3, <2>2
    <3> QED BY <1>1, <1>3, <2>3, <3>1, <3>2, <3>3
  <2>9. Woken'
    <3> SUFFICES ASSUME NEW k \in Nodes
                 PROVE  /\ thForOut'[k] # <<>> => freeOut[k] = 0 \/ (freeOut[k] = 1 /\ WakingOut(k)')
                        /\ thForIn[k] # <<>> => freeIn[k] = 0 \/ (freeIn[k] = 1 /\ WakingIn(k)')
      BY <1>1 DEF Woken
    <3>1. WakingOut(n)'
      <4>1. ~HasOut(x)' /\ Src(x)' = n
        BY <1>1, <2>4 DEF HasOut, input, Src, Infinite
      <4> QED BY <2>2, <2>6, <4>1 DEF WakingOut
    <3>2. CASE k = n
      BY <1>7, <1>9, <3>1, <3>2 DEF NetInv, Woken
    <3>3. CASE k # n
      BY <1>3, <1>7, <2>2, <3>3
    <3> QED BY <3>2, <3>3
  <2> QED BY <1>1, <1>5, <1>6, <2>2, <2>3, <2>4, <2>5, <2>6, <2>7, <2>8, <2>9, MessageWoken
<1> QED BY <1>8, <1>9

LEMMA WakeInKeeps ==
    ASSUME NetInv, WakeIn
    PROVE  NetInv'
<1>0. PICK n : n = Head(calls).at
  OBVIOUS
<1>1. /\ calls # <<>> /\ Head(calls).call = "wakeIn"
      /\ UNCHANGED <<input, freeOut, freeIn, owners, thForOut, local, partner, seeking, buses,
                     asked, done, aborted>>
      /\ \/ thForIn[n] = <<>> /\ calls' = Tail(calls) /\ UNCHANGED thForIn
         \/ /\ thForIn[n] # <<>> /\ thForIn' = [thForIn EXCEPT ![n] = Tail(@)]
            /\ calls' = <<[call |-> "send", who |-> Head(thForIn[n])]>> \o Tail(calls)
  BY <1>0 DEF WakeIn, Calling
<1>2. n \in Nodes /\ Head(calls) = ToWakeIn(n) /\ Head(calls) \in Call
  <2>1. Head(calls) \in Call
    BY <1>1, TailPositions DEF NetInv, CallsInOrder, InOrder
  <2> QED BY <1>0, <1>1, <2>1 DEF Call, ToWakeIn
<1>3. /\ thForOut \in [Nodes -> Seq(Msgs)] /\ thForIn \in [Nodes -> Seq(Msgs)]
      /\ \A k \in Nodes : Once(thForOut[k]) /\ Once(thForIn[k])
  BY DEF NetInv, Typed, TypeOK, QueuesRight
<1>4. thForIn[n] # <<>> => Head(thForIn[n]) \in Msgs
  BY <1>2, <1>3, TailPositions
<1>5. /\ CallsInOrder' /\ Freeing /\ Freeing' /\ \A x : ~Sent(x)
      /\ calls' = Tail(calls) => \A x : ~Sent(x)'
      /\ \A x \in Msgs :
            calls' = <<[call |-> "send", who |-> x]>> \o Tail(calls) => \A y : Sent(y)' <=> y = x
      /\ \A c : c # Head(calls) /\ ToDo(c) => ToDo(c)'
  BY <1>1, <1>4, WakeCalled
<1>6. \A x : /\ ToDo(ToFreeOut(x)) => ToDo(ToFreeOut(x))'
             /\ ToDo(ToFreeIn(x)) => ToDo(ToFreeIn(x))'
             /\ ToDo(ToWakeOut(x)) => ToDo(ToWakeOut(x))'
             /\ x # n /\ ToDo(ToWakeIn(x)) => ToDo(ToWakeIn(x))'
  <2>1. \A x : /\ ToFreeOut(x) # Head(calls) /\ ToFreeIn(x) # Head(calls)
               /\ ToWakeOut(x) # Head(calls) /\ (x # n => ToWakeIn(x) # Head(calls))
    BY <1>2 DEF ToFreeOut, ToFreeIn, ToWakeOut, ToWakeIn
  <2> QED BY <1>5, <2>1
<1>7. ASSUME NEW k \in Nodes
      PROVE  /\ thForOut[k] # <<>> => freeOut[k] = 0 \/ (freeOut[k] = 1 /\ WakingOut(k)')
             /\ k # n /\ thForIn[k] # <<>> => freeIn[k] = 0 \/ (freeIn[k] = 1 /\ WakingIn(k)')
  BY <1>5, <1>6 DEF NetInv, Woken, WakingOut, WakingIn
<1>8. CASE thForIn[n] = <<>>
  <2>1. calls' = Tail(calls) /\ thForIn' = thForIn
    BY <1>1, <1>8
  <2>2. Woken'
    BY <1>1, <1>7, <1>8, <2>1 DEF Woken
  <2>3. UNCHANGED <<input, links, buses, asked, done, aborted>> /\ \A x : ~Sent(x) /\ ~Sent(x)'
    BY <1>1, <1>5, <2>1 DEF links
  <2> QED BY <1>5, <1>6, <2>2, <2>3, NobodyWoken
<1>9. CASE thForIn[n] # <<>>
  <2>1. PICK x : x = Head(thForIn[n])
    OBVIOUS
  <2>2. /\ x \in Msgs /\ thForIn' = [thForIn EXCEPT ![n] = Tail(@)]
        /\ calls' = <<[call |-> "send", who |-> x]>> \o Tail(calls)
    BY <1>1, <1>4, <1>9, <2>1
  <2>3. /\ x \in ToSet(thForIn[n]) /\ ToSet(Tail(thForIn[n])) = ToSet(thForIn[n]) \ {x}
        /\ Once(Tail(thForIn[n])) /\ Tail(thForIn[n]) \in Seq(Msgs)
    BY <1>2, <1>3, <1>9, <2>1, TailElements, TailPositions
  <2>4. Dst(x) = n /\ HasOut(x) /\ ~HasIn(x)
    BY <1>2, <2>3 DEF NetInv, QueuesRight
  <2>5. \A y : ~Sent(y) /\ (Sent(y)' <=> y = x)
    BY <1>5, <2>2
  <2>6. thForOut' \in [Nodes -> Seq(Msgs)] /\ thForIn' \in [Nodes -> Seq(Msgs)]
    BY <1>1, <1>3, <2>2, <2>3
  <2>7. ASSUME NEW k \in Nodes
        PROVE  /\ Once(thForOut'[k]) /\ Once(thForIn'[k])
               /\ ToSet(thForOut'[k]) = ToSet(thForOut[k]) \ {x}
               /\ ToSet(thForIn'[k]) = ToSet(thForIn[k]) \ {x}
    <3>1. x \notin ToSet(thForOut[k])
      BY <2>4 DEF NetInv, QueuesRight
    <3>2. k # n => x \notin ToSet(thForIn[k])
      BY <2>4 DEF NetInv, QueuesRight
    <3>3. thForIn'[k] = IF k = n THEN Tail(thForIn[n]) ELSE thForIn[k]
      BY <1>2, <1>3, <2>2
    <3> QED BY <1>1, <1>3, <2>3, <3>1, <3>2, <3>3
  <2>8. Woken'
    <3> SUFFICES ASSUME NEW k \in Nodes
                 PROVE  /\ thForOut[k] # <<>> => freeOut[k] = 0 \/ (freeOut[k] = 1 /\ WakingOut(k)')
                        /\ thForIn'[k] # <<>> => freeIn[k] = 0 \/ (freeIn[k] = 1 /\ WakingIn(k)')
      BY <1>1 DEF Woken
    <3>1. WakingIn(n)'
      <4>1. HasOut(x)' /\ Dst(x)' = n
        BY <1>1, <2>4 DEF HasOut, input, Src, Dst, Infinite
      <4> QED BY <1>5, <2>2, <2>5, <4>1 DEF WakingIn
    <3>2. CASE k = n
      BY <1>7, <1>9, <3>1, <3>2 DEF NetInv, Woken
    <3>3. CASE k # n
      BY <1>3, <1>7, <2>2, <3>3
    <3> QED BY <3>2, <3>3
  <2> QED BY <1>1, <1>5, <1>6, <2>2, <2>3, <2>4, <2>5, <2>6, <2>7, <2>8, MessageWoken
<1> QED BY <1>8, <1>9

-----------------------------------------------------------------------------
(* The buses.                                                              *)

LinkWaits(x) ==
    x \in Msgs /\ (x \in ToSet(thForOut[Src(x)]) \/ x \in ToSet(thForIn[Dst(x)]))

LEMMA WaitsFor ==
    ASSUME NetInv, UNCHANGED <<input, links>>
    PROVE  /\ \A x : Waits(x)' <=> x \in ToSet(queue') \/ LinkWaits(x)
           /\ \A x : Waits(x) <=> x \in ToSet(queue) \/ LinkWaits(x)
           /\ \A x : LinkWaits(x) => x \in Msgs /\ x \notin ToSet(queue)
<1>1. \A x : Waits(x) <=> x \in ToSet(queue) \/ LinkWaits(x)
  BY DEF Waits, LinkWaits
<1>2. \A x : Waits(x)' <=> x \in ToSet(queue') \/ LinkWaits(x)
  <2>1. \A x : Src(x)' = Src(x) /\ Dst(x)' = Dst(x)
    BY DEF input, Src, Dst
  <2> QED BY <2>1 DEF Waits, LinkWaits, links
<1>3. ASSUME NEW x, LinkWaits(x), x \in ToSet(queue) PROVE FALSE
  <2>1. x \in Msgs /\ HasOut(x) /\ HasIn(x) /\ Src(x) \in Nodes /\ Dst(x) \in Nodes
    BY <1>3, NodesOf DEF NetInv, QueuesRight, LinkWaits
  <2> QED BY <1>3, <2>1 DEF NetInv, QueuesRight, LinkWaits
<1>4. \A x : LinkWaits(x) => x \in Msgs
  BY DEF LinkWaits
<1> QED BY <1>1, <1>2, <1>3, <1>4

\* What a handler that leaves the links alone keeps of them.
LEMMA LinksAlone ==
    ASSUME NetInv, UNCHANGED <<input, links>>,
           \A x : /\ ~Sent(x) /\ ~ToDo(ToWakeOut(x)) /\ ~ToDo(ToWakeIn(x))
                  /\ ~ToDo(ToFreeOut(x)) /\ ~ToDo(ToFreeIn(x)),
           curr' \in Nat, number' \in [Gops -> Nat], onNet' \in Seq(Users),
           queue' \in Seq(Users), Once(queue)', moving' \subseteq Users,
           asked' \subseteq Users, asked \subseteq asked', done' \subseteq Users, aborted' = FALSE,
           \A x \in (done' \ done) \cap Msgs :
               (x \in local => ToDo(ToFreeOut(x))') /\ (x \in partner => ToDo(ToFreeIn(x))'),
           \A x \in Msgs : x \in moving' \/ x \in ToSet(queue') \/ Sent(x)' =>
                               x \in moving \/ x \in ToSet(queue),
           \A x : Sent(x)' => ~Freeing',
           CallsInOrder', Places', BusesRight'
    PROVE  NetInv'
<1>0. UNCHANGED <<freeOut, freeIn, owners, thForOut, thForIn, local, partner, seeking,
                  config, route>>
  BY DEF input, links
<1>1. \A y : Src(y)' = Src(y) /\ Dst(y)' = Dst(y) /\ Infinite(y)' = Infinite(y)
  BY <1>0 DEF Src, Dst, Infinite
<1>2. \A y : HasOut(y)' = HasOut(y) /\ HasIn(y)' = HasIn(y)
  BY <1>0, <1>1 DEF HasOut, HasIn
<1>3. Typed'
  <2>1. aborted' \in BOOLEAN
    OBVIOUS
  <2>2. TypeOK'
    BY <1>0, <2>1 DEF NetInv, Typed, TypeOK
  <2> QED BY <1>0, <1>1, <2>2 DEF NetInv, Typed
<1>4. LinksRight'
  BY <1>0 DEF NetInv, LinksRight, OutUsers, InUsers, HalfDuplex, LinksOut, LinksIn, Src, Dst, Infinite
<1>5. Stolen'
  BY <1>0, <1>1 DEF NetInv, Stolen
<1>6. Returned'
  BY <1>0 DEF NetInv, Returned
<1>7. QueuesRight'
  <2>1. ASSUME NEW n \in Nodes
        PROVE  /\ Once(thForOut[n])' /\ Once(thForIn[n])'
               /\ \A y \in ToSet(thForOut[n])' : Src(y)' = n /\ ~HasOut(y)' /\ y \notin partner'
               /\ \A y \in ToSet(thForIn[n])' :
                     Dst(y)' = n /\ HasOut(y)' /\ ~HasIn(y)' /\ y \in seeking'
    BY <1>0, <1>1, <1>2 DEF NetInv, QueuesRight
  <2>2. \A y \in Msgs : y \in moving' \/ y \in ToSet(queue') \/ Sent(y)' => HasOut(y)' /\ HasIn(y)'
    BY <1>2 DEF NetInv, QueuesRight
  <2>3. \A y \in Msgs \ asked' : y \notin local' /\ y \notin partner'
    BY <1>0 DEF NetInv, QueuesRight
  <2> QED BY <2>1, <2>2, <2>3 DEF QueuesRight
<1>8. Woken'
  BY <1>0 DEF NetInv, Woken, WakingOut, WakingIn
<1> QED BY <1>3, <1>4, <1>5, <1>6, <1>7, <1>8 DEF NetInv

\* No handler is running.
LEMMA IdleIs ==
    ASSUME NetInv, Idle
    PROVE  /\ calls = <<>> /\ ~Freeing /\ Serving = 0
           /\ \A x : /\ ~Sent(x) /\ ~ToDo(ToWakeOut(x)) /\ ~ToDo(ToWakeIn(x))
                     /\ ~ToDo(ToFreeOut(x)) /\ ~ToDo(ToFreeIn(x))
           /\ queue # <<>> => curr = Buses
           /\ queue \in Seq(Users) /\ Len(queue) \in Nat /\ Buses \in Nat /\ curr \in Nat
<1>1. calls = <<>> /\ Len(calls) = 0
  BY DEF Idle
<1>2. ~Freeing /\ Serving = 0 /\ ToSet(calls) = {}
  BY <1>1 DEF Freeing, FreesBus, Serving, ToSet
<1>3. \A x : /\ ~Sent(x) /\ ~ToDo(ToWakeOut(x)) /\ ~ToDo(ToWakeIn(x))
             /\ ~ToDo(ToFreeOut(x)) /\ ~ToDo(ToFreeIn(x))
  BY <1>1, <1>2 DEF Sent, ToDo
<1>4. queue \in Seq(Users) /\ Len(queue) \in Nat /\ Buses \in Nat /\ curr \in Nat
  BY BusesAssumption DEF NetInv, Typed, TypeOK
<1>5. queue # <<>> => curr = Buses
  <2> SUFFICES ASSUME queue # <<>> PROVE curr = Buses
    OBVIOUS
  <2>1. Len(queue) # 0
    BY <1>4
  <2>2. 0 = Len(queue) \/ curr + 0 >= Buses
    BY <1>1, <1>2 DEF NetInv, BusesRight
  <2>3. curr <= Buses
    BY <1>4 DEF NetInv, BusesRight
  <2> QED BY <1>4, <2>1, <2>2, <2>3
<1> QED BY <1>1, <1>2, <1>3, <1>4, <1>5

AreThree(q, S, a, b, c) ==
    q \in Seq(S) /\ Len(q) = 3 /\ q[1] = a /\ q[2] = b /\ q[3] = c

LEMMA ThreeElements ==
    ASSUME NEW S, NEW a \in S, NEW b \in S, NEW c \in S
    PROVE  AreThree(<<a>> \o <<b>> \o <<c>>, S, a, b, c)
<1> DEFINE r == <<a>> \o <<b>>
<1>1. r \in Seq(S) /\ Len(r) = 2 /\ r[1] = a /\ r[2] = b
  OBVIOUS
<1> HIDE DEF r
<1>2. r \in Seq(S)
  BY <1>1
<1>3. /\ r \o <<c>> \in Seq(S) /\ Len(r \o <<c>>) = Len(r) + 1
      /\ \A i \in 1 .. Len(r) : (r \o <<c>>)[i] = r[i]
      /\ (r \o <<c>>)[Len(r) + 1] = c
  BY <1>2
<1> DEFINE q == r \o <<c>>
<1> HIDE DEF q
<1>4. q \in Seq(S) /\ Len(q) = 3 /\ q[1] = a /\ q[2] = b /\ q[3] = c
  <2>1. q \in Seq(S) /\ Len(q) = Len(r) + 1 /\ q[Len(r) + 1] = c
        /\ \A i \in 1 .. Len(r) : q[i] = r[i]
    BY <1>3, Zenon DEF q
  <2> QED BY <1>1, <2>1
<1> QED BY <1>4, Zenon DEF q, r, AreThree

LEMMA FewElements ==
    ASSUME NEW S, NEW q \in Seq(S)
    PROVE  /\ Len(q) = 2 => /\ DOMAIN q = {1, 2} /\ Head(q) = q[1] /\ q # <<>>
                            /\ ToSet(q) = {q[1], q[2]}
           /\ Len(q) = 3 => /\ DOMAIN q = {1, 2, 3} /\ Head(q) = q[1] /\ q # <<>>
                            /\ ToSet(q) = {q[1], q[2], q[3]}
<1>1. Len(q) = 2 => DOMAIN q = {1, 2} /\ Head(q) = q[1] /\ q # <<>>
  OBVIOUS
<1>2. Len(q) = 3 => DOMAIN q = {1, 2, 3} /\ Head(q) = q[1] /\ q # <<>>
  OBVIOUS
<1> QED BY <1>1, <1>2 DEF ToSet

LEMMA ResourcesOutKeeps ==
    ASSUME NetInv, NEW m \in Msgs, InternalResourcesOut(m)
    PROVE  NetInv'
<1>1. /\ Idle /\ m \in moving
      /\ aborted' = (Buses > 0 /\ ~Contains(onNet, m))
      /\ onNet' = Without(onNet, {m})
      /\ moving' = moving \ {m} /\ done' = done \cup {m}
      /\ calls' = Only(m \in local, ToFreeOut(m)) \o Only(m \in partner, ToFreeIn(m))
                    \o <<[call |-> "freeBus"]>>
      /\ UNCHANGED <<input, links, curr, queue, number, asked>>
  BY DEF InternalResourcesOut, ToFreeOut, ToFreeIn
<1>2. /\ ~Freeing /\ Serving = 0 /\ (queue # <<>> => curr = Buses)
      /\ \A x : /\ ~Sent(x) /\ ~ToDo(ToWakeOut(x)) /\ ~ToDo(ToWakeIn(x))
                /\ ~ToDo(ToFreeOut(x)) /\ ~ToDo(ToFreeIn(x))
      /\ Buses \in Nat /\ curr \in Nat
  BY <1>1, IdleIs
<1>3. m \in Users /\ m \notin Gops
  BY KindsAssumption DEF Users
<1>4. onNet \in Seq(Users) /\ onNet' \in Seq(Users) /\ ToSet(onNet') = ToSet(onNet) \ {m}
  <2>1. onNet \in Seq(Users)
    BY DEF NetInv, Typed, TypeOK
  <2> QED BY <1>1, <2>1, WithoutElements
<1>5. aborted' = FALSE
  <2>1. Buses > 0 => m \in ToSet(onNet)
    BY <1>1 DEF NetInv, BusesRight
  <2>2. Contains(onNet, m) <=> m \in ToSet(onNet)
    BY <1>4 DEF Contains, ToSet
  <2> QED BY <1>1, <2>1, <2>2
<1>7. /\ calls' # <<>> /\ Head(calls').call # "send"
      /\ m \in local => ToFreeOut(m) \in ToSet(calls')
      /\ m \in partner => ToFreeIn(m) \in ToSet(calls')
      /\ FreesBus(calls')
      /\ InOrder(calls', local' \cap done', partner' \cap done')
  <2>1. /\ ToFreeOut(m) \in Call /\ ToFreeIn(m) \in Call /\ [call |-> "freeBus"] \in Call
        /\ ToFreeOut(m).call = "freeOut" /\ ToFreeIn(m).call = "freeIn"
        /\ ToFreeOut(m).who = m /\ ToFreeIn(m).who = m
        /\ [call |-> "freeBus"].call = "freeBus"
    BY DEF Call, ToFreeOut, ToFreeIn
  <2>2. PICK a, b, z : a = ToFreeOut(m) /\ b = ToFreeIn(m) /\ z = [call |-> "freeBus"]
    OBVIOUS
  <2>9. calls' = Only(m \in local, a) \o Only(m \in partner, b) \o <<z>>
    BY <1>1, <2>2
  <2>3. /\ a \in Call /\ b \in Call /\ z \in Call /\ a.call = "freeOut" /\ b.call = "freeIn"
        /\ z.call = "freeBus" /\ a.who = m /\ b.who = m
    BY <2>1, <2>2
  <2>4. local' = local /\ partner' = partner /\ m \in done'
    BY <1>1 DEF links
  <2>5. CASE m \in local /\ m \in partner
    <3>1. calls' = <<a>> \o <<b>> \o <<z>>
      BY <2>5, <2>9 DEF Only
    <3>4. calls' \in Seq(Call) /\ Len(calls') = 3
          /\ calls'[1] = a /\ calls'[2] = b /\ calls'[3] = z
      <4>1. a \in Call /\ b \in Call /\ z \in Call
        BY <2>3
      <4>2. AreThree(<<a>> \o <<b>> \o <<z>>, Call, a, b, z)
        BY <4>1, ThreeElements, Zenon
      <4>3. AreThree(calls', Call, a, b, z)
        BY <3>1, <4>2, Zenon
      <4> QED BY <4>3 DEF AreThree
    <3>5. /\ DOMAIN calls' = {1, 2, 3} /\ Head(calls') = a /\ calls' # <<>>
          /\ ToSet(calls') = {a, b, z}
      BY <3>4, FewElements
    <3>6. \A i \in DOMAIN calls' : \/ i = 1 /\ calls'[i].call = "freeOut" /\ calls'[i].who = m
                                   \/ i = 2 /\ calls'[i].call = "freeIn" /\ calls'[i].who = m
                                   \/ i = 3 /\ calls'[i].call = "freeBus"
      BY <2>3, <3>4, <3>5
    <3>7. FreesBus(calls')
      BY <2>3, <3>4, <3>5 DEF FreesBus
    <3>8. InOrder(calls', local' \cap done', partner' \cap done')
      BY <2>4, <2>5, <3>4, <3>6, <3>7 DEF InOrder
    <3> QED BY <2>2, <2>3, <3>5, <3>7, <3>8
  <2>6. CASE m \in local /\ m \notin partner
    <3>1. calls' = <<a>> \o <<>> \o <<z>>
      BY <2>6, <2>9 DEF Only
    <3>2. /\ calls' \in Seq(Call) /\ Len(calls') = 2 /\ DOMAIN calls' = 1 .. 2
          /\ calls'[1] = a /\ calls'[2] = z
      BY <2>3, <3>1
    <3> QED BY <2>2, <2>3, <2>4, <2>6, <3>2 DEF ToSet, FreesBus, InOrder
  <2>7. CASE m \notin local /\ m \in partner
    <3>1. calls' = <<>> \o <<b>> \o <<z>>
      BY <2>7, <2>9 DEF Only
    <3>2. /\ calls' \in Seq(Call) /\ Len(calls') = 2 /\ DOMAIN calls' = 1 .. 2
          /\ calls'[1] = b /\ calls'[2] = z
      BY <2>3, <3>1
    <3>6. /\ DOMAIN calls' = {1, 2} /\ Head(calls') = b /\ calls' # <<>>
          /\ ToSet(calls') = {b, z}
      BY <3>2, FewElements
    <3>3. \A i \in DOMAIN calls' : \/ i = 1 /\ calls'[i].call = "freeIn" /\ calls'[i].who = m
                                   \/ i = 2 /\ calls'[i].call = "freeBus"
      BY <2>3, <3>2, <3>6
    <3>4. FreesBus(calls')
      BY <2>3, <3>2, <3>6 DEF FreesBus
    <3>5. InOrder(calls', local' \cap done', partner' \cap done')
      BY <2>4, <2>7, <3>2, <3>3, <3>4 DEF InOrder
    <3> QED BY <2>2, <2>3, <2>7, <3>4, <3>5, <3>6
  <2>8. CASE m \notin local /\ m \notin partner
    <3>1. calls' = <<z>>
      BY <2>8, <2>9 DEF Only
    <3> QED BY <2>2, <2>3, <2>4, <2>8, <3>1 DEF ToSet, FreesBus, InOrder
  <2> QED BY <2>5, <2>6, <2>7, <2>8
<1>8. /\ CallsInOrder' /\ Freeing' /\ \A x : ~Sent(x)'
      /\ \A x \in (done' \ done) \cap Msgs :
            (x \in local => ToDo(ToFreeOut(x))') /\ (x \in partner => ToDo(ToFreeIn(x))')
  <2>1. \A x \in done' \ done : x = m
    BY <1>1
  <2> QED BY <1>7, <2>1 DEF CallsInOrder, Freeing, Sent, ToDo
<1>9. Places'
  <2>1. \A x : Waits(x)' <=> Waits(x)
    BY <1>1, WaitsFor
  <2> QED BY <1>1, <1>2, <1>8, <2>1 DEF NetInv, Places
<1>10. BusesRight'
  <2>1. Held' = Held
    BY <1>1 DEF Held
  <2>2. IsFiniteSet(moving') /\ Cardinality(moving) = Cardinality(moving') + 1
        /\ Cardinality(moving') \in Nat
    <3>1. IsFiniteSet(moving) /\ m \in moving
      BY <1>1 DEF NetInv, BusesRight
    <3>2. IsFiniteSet(moving \ {m}) /\ Cardinality(moving \ {m}) = Cardinality(moving) - 1
      BY <3>1, FS_RemoveElement
    <3>3. Cardinality(moving) \in Nat /\ Cardinality(moving \ {m}) \in Nat
      BY <3>1, <3>2, FS_CardinalityType
    <3> QED BY <1>1, <3>2, <3>3
  <2>3. CASE Buses = 0
    BY <1>1, <1>3, <1>8, <2>2, <2>3 DEF NetInv, BusesRight
  <2>4. CASE Buses > 0
    <3>1. moving \subseteq Msgs /\ curr = Cardinality(moving) + Held + If(Freeing, 1)
      BY <1>1, <1>3, <2>4 DEF NetInv, BusesRight
    <3>2. Held \in Nat
      <4>1. queue \in Seq(Users) /\ number \in [Gops -> Nat]
        BY DEF NetInv, Typed, TypeOK
      <4> QED BY <4>1 DEF Held
    <3>3. curr = Cardinality(moving') + Held' + If(Freeing', 1)
      BY <1>2, <1>8, <2>1, <2>2, <3>1, <3>2 DEF If
    <3>4. moving' \cap Msgs \subseteq ToSet(onNet')
      BY <1>1, <1>4, <2>4 DEF NetInv, BusesRight
    <3> QED BY <1>1, <1>2, <1>3, <1>8, <2>2, <2>4, <3>1, <3>3, <3>4 DEF NetInv, BusesRight
  <2> QED BY <1>2, <2>3, <2>4
<1> QED
  <2>1. /\ curr' \in Nat /\ number' \in [Gops -> Nat] /\ queue' \in Seq(Users) /\ Once(queue)'
        /\ moving' \subseteq Users /\ asked' \subseteq Users /\ done' \subseteq Users
    BY <1>1, <1>3 DEF NetInv, Typed, TypeOK, QueuesRight
  <2> QED BY <1>1, <1>2, <1>4, <1>5, <1>8, <1>9, <1>10, <2>1, LinksAlone

LEMMA HeldIs ==
    ASSUME NetInv
    PROVE  Held \in Nat
<1>1. queue \in Seq(Users) /\ number \in [Gops -> Nat]
  BY DEF NetInv, Typed, TypeOK
<1> QED BY <1>1 DEF Held

LEMMA GlobalOpKeeps ==
    ASSUME NetInv, NEW g \in Gops, GlobalOp(g)
    PROVE  NetInv'
<1>1. /\ Idle /\ g \notin asked /\ asked' = asked \cup {g}
      /\ \/ /\ Buses > 0 /\ curr # 0
            /\ number' = [number EXCEPT ![g] = Buses - curr]
            /\ curr' = Buses /\ queue' = Append(queue, g)
            /\ UNCHANGED <<onNet, moving>>
         \/ /\ ~(Buses > 0 /\ curr # 0)
            /\ curr' = Buses /\ onNet' = onNet \o [i \in 1 .. Buses |-> g]
            /\ moving' = moving \cup {g}
            /\ UNCHANGED <<number, queue>>
      /\ UNCHANGED <<input, links, done, calls, aborted>>
  BY DEF GlobalOp, StartGlobalOp
<1>2. /\ ~Freeing /\ Serving = 0 /\ (queue # <<>> => curr = Buses)
      /\ \A x : /\ ~Sent(x) /\ ~ToDo(ToWakeOut(x)) /\ ~ToDo(ToWakeIn(x))
                /\ ~ToDo(ToFreeOut(x)) /\ ~ToDo(ToFreeIn(x))
      /\ Buses \in Nat /\ curr \in Nat /\ calls = <<>>
      /\ queue \in Seq(Users) /\ Len(queue) \in Nat
  BY <1>1, IdleIs
<1>3. g \in Users /\ g \notin Msgs
  BY KindsAssumption DEF Users
<1>4. ~Waits(g) /\ g \notin moving /\ g \notin done /\ g \notin ToSet(queue)
  <2>1. ~Waits(g) /\ g \notin moving \cup done
    BY <1>1, <1>3 DEF NetInv, Places
  <2> QED BY <2>1 DEF Waits
<1>5. /\ number \in [Gops -> Nat] /\ onNet \in Seq(Users) /\ IsFiniteSet(moving)
      /\ Held \in Nat /\ Cardinality(moving) \in Nat
  <2>1. number \in [Gops -> Nat] /\ onNet \in Seq(Users) /\ IsFiniteSet(moving)
    BY DEF NetInv, Typed, TypeOK, BusesRight
  <2> QED BY <2>1, HeldIs, FS_CardinalityType
<1>6. /\ ~Freeing' /\ Serving' = 0 /\ Len(calls') = 0 /\ CallsInOrder'
      /\ \A x : ~Sent(x)'
  <2>1. local' = local /\ partner' = partner /\ calls' = calls /\ done' = done
    BY <1>1 DEF links
  <2> QED BY <1>2, <2>1 DEF Freeing, Serving, CallsInOrder, NetInv, Sent
<1>7. /\ onNet' \in Seq(Users) /\ curr' \in Nat /\ number' \in [Gops -> Nat]
      /\ aborted' = FALSE
  <2>1. aborted' = FALSE
    BY <1>1 DEF NetInv, Typed, TypeOK
  <2>2. [i \in 1 .. Buses |-> g] \in Seq(Users)
    BY <1>2, <1>3
  <2>3. onNet \o [i \in 1 .. Buses |-> g] \in Seq(Users)
    BY <1>5, <2>2
  <2>4. Buses > 0 /\ curr # 0 => Buses - curr \in Nat
    BY <1>2 DEF NetInv, BusesRight
  <2> QED BY <1>1, <1>2, <1>5, <2>1, <2>3, <2>4
<1>8. CASE Buses > 0 /\ curr # 0
  <2>1. /\ number' = [number EXCEPT ![g] = Buses - curr]
        /\ curr' = Buses /\ queue' = Append(queue, g) /\ onNet' = onNet /\ moving' = moving
    BY <1>1, <1>8
  <2>2. /\ queue' \in Seq(Users) /\ queue' # <<>> /\ ToSet(queue') = ToSet(queue) \cup {g}
        /\ Once(queue')
        /\ Head(queue') = IF queue = <<>> THEN g ELSE Head(queue)
        /\ Len(queue') \in Nat
    <3>1. Once(queue)
      BY DEF NetInv, QueuesRight
    <3> QED BY <1>2, <1>3, <1>4, <2>1, <3>1, AppendElements, AppendOnce
  <2>3. queue # <<>> => Head(queue) \in ToSet(queue) /\ Head(queue) # g
    <3>1. Once(queue)
      BY DEF NetInv, QueuesRight
    <3> QED BY <1>2, <1>4, <3>1, TailElements
  <2>4. Held' = Held + (Buses - curr)
    <3>1. CASE queue = <<>>
      <4>1. Held = 0 /\ Held' = Buses - curr
        BY <1>5, <2>1, <2>2, <3>1 DEF Held
      <4> QED BY <1>2, <4>1
    <3>2. CASE queue # <<>>
      <4>1. Held' = Held
        BY <1>5, <2>1, <2>2, <2>3, <3>2 DEF Held
      <4> QED BY <1>2, <1>5, <3>2, <4>1
    <3> QED BY <3>1, <3>2
  <2>5. Places'
    <3>1. \A x : Waits(x)' <=> Waits(x) \/ x = g
      BY <1>1, <2>2, WaitsFor
    <3> QED BY <1>1, <1>2, <1>3, <1>4, <1>6, <2>1, <3>1 DEF NetInv, Places
  <2>6. BusesRight'
    <3>1. \A h \in Gops \ moving' : number'[h] > 0 => queue' # <<>> /\ Head(queue') = h
      <4> SUFFICES ASSUME NEW h \in Gops \ moving', number'[h] > 0
                   PROVE  Head(queue') = h
        BY <2>2
      <4>1. CASE h = g
        <5>1. Buses - curr > 0
          BY <1>5, <2>1, <4>1
        <5>2. queue = <<>>
          BY <1>2, <5>1
        <5> QED BY <2>2, <4>1, <5>2
      <4>2. CASE h # g
        <5>1. number[h] > 0
          BY <1>5, <2>1, <4>2
        <5> QED BY <2>1, <2>2, <5>1 DEF NetInv, BusesRight
      <4> QED BY <4>1, <4>2
    <3>2. \/ \E h \in Gops : moving' = {h} /\ curr' = Buses /\ Held' = 0
          \/ moving' \subseteq Msgs /\ curr' = Cardinality(moving') + Held'
      <4>1. CASE \E h \in Gops : moving = {h} /\ curr = Buses /\ Held = 0
        BY <1>2, <2>1, <2>4, <4>1
      <4>2. CASE moving \subseteq Msgs /\ curr = Cardinality(moving) + Held
        BY <1>2, <1>5, <2>1, <2>4, <4>2
      <4> QED BY <1>2, <1>5, <1>8, <4>1, <4>2 DEF NetInv, BusesRight, If
    <3>3. moving' \cap Msgs \subseteq ToSet(onNet')
      BY <1>8, <2>1 DEF NetInv, BusesRight
    <3>4. IsFiniteSet(moving') /\ curr' <= Buses /\ ~(Buses = 0)
      BY <1>2, <1>5, <1>8, <2>1
    <3>5. Serving' <= Len(queue') /\ curr' + Len(calls') >= Buses
      BY <1>2, <1>6, <2>1, <2>2
    <3>6. Cardinality(moving') \in Nat /\ Held' \in Nat
      BY <1>2, <1>5, <2>1, <2>4 DEF NetInv, BusesRight
    <3>7. If(Freeing', 1) = 0
      BY <1>6 DEF If
    <3>8. \/ /\ \E h \in Gops : moving' = {h}
             /\ curr' = Buses /\ Held' = 0 /\ ~Freeing'
          \/ /\ moving' \subseteq Msgs
             /\ curr' = Cardinality(moving') + Held' + If(Freeing', 1)
      BY <1>6, <3>2, <3>6, <3>7
    <3> QED BY <1>6, <3>1, <3>3, <3>4, <3>5, <3>8 DEF BusesRight
  <2>7. /\ queue' \in Seq(Users) /\ Once(queue)'
        /\ moving' \subseteq Users /\ asked' \subseteq Users /\ asked \subseteq asked'
        /\ done' \subseteq Users /\ done' \ done = {}
    BY <1>1, <1>3, <2>1, <2>2 DEF NetInv, Typed, TypeOK
  <2>8. \A x \in Msgs : x \in moving' \/ x \in ToSet(queue') \/ Sent(x)' =>
                           x \in moving \/ x \in ToSet(queue)
    BY <1>3, <1>6, <2>1, <2>2
  <2> QED BY <1>1, <1>2, <1>6, <1>7, <2>5, <2>6, <2>7, <2>8, LinksAlone
<1>9. CASE ~(Buses > 0 /\ curr # 0)
  <2>1. /\ curr' = Buses /\ moving' = moving \cup {g} /\ number' = number /\ queue' = queue
    BY <1>1, <1>9
  <2>2. Buses > 0 => moving = {} /\ Held = 0
    <3> SUFFICES ASSUME Buses > 0 PROVE moving = {} /\ Held = 0
      OBVIOUS
    <3>1. curr = 0
      BY <1>9
    <3>2. curr = Cardinality(moving) + Held
      BY <1>2, <1>5, <3>1 DEF NetInv, BusesRight, If
    <3>3. Cardinality(moving) = 0 /\ Held = 0
      BY <1>5, <3>1, <3>2
    <3> QED BY <1>5, <3>3, FS_EmptySet
  <2>3. queue = <<>>
    BY <1>2, <1>9 DEF NetInv, BusesRight
  <2>4. Held' = Held
    BY <2>1 DEF Held
  <2>5. Places'
    <3>1. \A x : Waits(x)' <=> Waits(x)
      BY <1>1, <2>1, WaitsFor
    <3> QED BY <1>1, <1>2, <1>3, <1>4, <1>6, <2>1, <3>1 DEF NetInv, Places
  <2>6. BusesRight'
    <3>1. IsFiniteSet(moving')
      BY <1>5, <2>1, FS_AddElement
    <3>2. \A h \in Gops \ moving' : number'[h] > 0 => queue' # <<>> /\ Head(queue') = h
      BY <2>1 DEF NetInv, BusesRight
    <3>3. Buses = 0 => queue' = <<>> /\ curr' = 0
      BY <2>1, <2>3
    <3>4. Serving' <= Len(queue') /\ Serving' = Len(queue')
      BY <1>6, <2>1, <2>3
    <3>5. Buses > 0 => moving' = {g} /\ curr' = Buses /\ Held' = 0 /\ curr' <= Buses
      BY <1>2, <2>1, <2>2, <2>4
    <3> QED BY <1>3, <1>6, <3>1, <3>2, <3>3, <3>4, <3>5 DEF BusesRight
  <2>7. /\ queue' \in Seq(Users) /\ Once(queue)'
        /\ moving' \subseteq Users /\ asked' \subseteq Users /\ asked \subseteq asked'
        /\ done' \subseteq Users /\ done' \ done = {}
    BY <1>1, <1>3, <2>1 DEF NetInv, Typed, TypeOK, QueuesRight
  <2>8. \A x \in Msgs : x \in moving' \/ x \in ToSet(queue') \/ Sent(x)' =>
                           x \in moving \/ x \in ToSet(queue)
    BY <1>3, <1>6, <2>1
  <2> QED BY <1>1, <1>2, <1>6, <1>7, <2>5, <2>6, <2>7, <2>8, LinksAlone
<1> QED BY <1>8, <1>9

LEMMA GroupOutKeeps ==
    ASSUME NetInv, NEW g \in Gops, GroupResourcesOut(g)
    PROVE  NetInv'
<1>1. /\ Idle /\ g \in moving /\ number' = [number EXCEPT ![g] = 0] /\ curr' = 0
      /\ onNet' = SubSeq(onNet, Buses + 1, Len(onNet))
      /\ moving' = moving \ {g} /\ done' = done \cup {g}
      /\ calls' = [i \in 1 .. Len(queue) |-> [call |-> "serveIfFree"]]
      /\ UNCHANGED <<input, links, queue, asked, aborted>>
  BY DEF GroupResourcesOut
<1>2. /\ ~Freeing /\ Serving = 0 /\ (queue # <<>> => curr = Buses)
      /\ \A x : /\ ~Sent(x) /\ ~ToDo(ToWakeOut(x)) /\ ~ToDo(ToWakeIn(x))
                /\ ~ToDo(ToFreeOut(x)) /\ ~ToDo(ToFreeIn(x))
      /\ Buses \in Nat /\ curr \in Nat /\ calls = <<>>
      /\ queue \in Seq(Users) /\ Len(queue) \in Nat
  BY <1>1, IdleIs
<1>3. g \in Users /\ g \notin Msgs
  BY KindsAssumption DEF Users
<1>4. /\ number \in [Gops -> Nat] /\ onNet \in Seq(Users) /\ IsFiniteSet(moving)
      /\ number' \in [Gops -> Nat] /\ Once(queue)
  BY <1>1 DEF NetInv, Typed, TypeOK, BusesRight, QueuesRight
<1>5. onNet' \in Seq(Users) /\ aborted' = FALSE
  <2>1. aborted' = FALSE
    BY <1>1 DEF NetInv, Typed, TypeOK
  <2>2. Buses + 1 \in Nat /\ Buses + 1 >= 1 /\ Len(onNet) \in Nat
    BY <1>2, <1>4
  <2>3. SubSeq(onNet, Buses + 1, Len(onNet)) \in Seq(Users)
    BY <1>4, <2>2
  <2> QED BY <1>1, <2>1, <2>3
<1>6. /\ calls' \in Seq(Call) /\ Len(calls') = Len(queue) /\ DOMAIN calls' = 1 .. Len(queue)
      /\ \A i \in DOMAIN calls' : calls'[i].call = "serveIfFree"
      /\ calls' # <<>> => Head(calls').call = "serveIfFree"
  <2>1. [call |-> "serveIfFree"] \in Call
    BY DEF Call
  <2>2. PICK s \in Call : s = [call |-> "serveIfFree"] /\ s.call = "serveIfFree"
    BY <2>1
  <2>3. calls' = [i \in 1 .. Len(queue) |-> s]
    BY <1>1, <2>2
  <2>4. /\ calls' \in Seq(Call) /\ Len(calls') = Len(queue) /\ DOMAIN calls' = 1 .. Len(queue)
        /\ \A i \in DOMAIN calls' : calls'[i] = s
    BY <1>2, <2>3
  <2>5. calls' # <<>> => Head(calls') = s
    BY <2>4
  <2> QED BY <2>2, <2>4, <2>5
<1>7. /\ ~Freeing' /\ Serving' = Len(queue) /\ CallsInOrder' /\ \A x : ~Sent(x)'
  <2>1. ~FreesBus(calls')
    BY <1>6 DEF FreesBus
  <2>2. InOrder(calls', local' \cap done', partner' \cap done')
    BY <1>6, <2>1 DEF InOrder
  <2> QED BY <1>6, <2>1, <2>2 DEF Freeing, Serving, CallsInOrder, Sent
<1>8. Places'
  <2>1. \A x : Waits(x)' <=> Waits(x)
    BY <1>1, WaitsFor
  <2> QED BY <1>1, <1>2, <1>7, <2>1 DEF NetInv, Places
<1>9. BusesRight'
  <2>1. IsFiniteSet(moving')
    BY <1>1, <1>4, FS_RemoveElement
  <2>2. queue # <<>> => Head(queue) # g
    <3>1. g \notin ToSet(queue)
      BY <1>1 DEF NetInv, Places, Waits
    <3> QED BY <1>2, <1>4, <3>1, TailElements
  <2>3. \A h \in Gops \ moving' : number'[h] > 0 => queue' # <<>> /\ Head(queue') = h
    <3>1. \A h \in Gops \ moving' : h # g => h \in Gops \ moving /\ number'[h] = number[h]
      BY <1>1, <1>4
    <3>2. number'[g] = 0
      BY <1>1, <1>4
    <3> QED BY <1>1, <3>1, <3>2 DEF NetInv, BusesRight
  <2>4. Buses = 0 => queue' = <<>> /\ curr' = 0
    BY <1>1 DEF NetInv, BusesRight
  <2>5. Buses > 0 => moving' = {} /\ Held' = 0
    <3> SUFFICES ASSUME Buses > 0 PROVE moving' = {} /\ Held' = 0
      OBVIOUS
    <3>1. moving = {g} /\ Held = 0
      BY <1>1, <1>3 DEF NetInv, BusesRight
    <3>2. Held' = Held
      BY <1>1, <1>4, <2>2 DEF Held
    <3> QED BY <1>1, <3>1, <3>2
  <2>6. Cardinality({}) = 0 /\ If(Freeing', 1) = 0
    BY <1>7, FS_EmptySet DEF If
  <2>7. Buses > 0 => moving' \subseteq Msgs /\ curr' = Cardinality(moving') + Held' + If(Freeing', 1)
    <3> SUFFICES ASSUME Buses > 0
                 PROVE  moving' \subseteq Msgs /\ curr' = Cardinality(moving') + Held' + If(Freeing', 1)
      OBVIOUS
    <3>1. moving' = {} /\ Held' = 0
      BY <2>5
    <3>2. Cardinality(moving') = 0
      BY <2>6, <3>1
    <3>3. 0 = Cardinality(moving') + Held' + If(Freeing', 1)
      BY <2>6, <3>1, <3>2
    <3> QED BY <1>1, <3>1, <3>3
  <2>8. Serving' <= Len(queue') /\ Serving' = Len(queue') /\ curr' <= Buses
    BY <1>1, <1>2, <1>7
  <2> QED BY <1>7, <2>1, <2>3, <2>4, <2>5, <2>7, <2>8 DEF BusesRight
<1> QED
  <2>1. /\ curr' \in Nat /\ queue' \in Seq(Users) /\ Once(queue)'
        /\ moving' \subseteq Users /\ asked' \subseteq Users /\ asked \subseteq asked'
        /\ done' \subseteq Users /\ (done' \ done) \cap Msgs = {}
    BY <1>1, <1>2, <1>3, <1>4 DEF NetInv, Typed, TypeOK
  <2>2. \A x \in Msgs : x \in moving' \/ x \in ToSet(queue') \/ Sent(x)' =>
                           x \in moving \/ x \in ToSet(queue)
    BY <1>1, <1>7
  <2> QED BY <1>1, <1>2, <1>4, <1>5, <1>7, <1>8, <1>9, <2>1, <2>2, LinksAlone

LEMMA FreeBusKeeps ==
    ASSUME NetInv, FreeBus
    PROVE  NetInv'
<1>1. /\ calls # <<>> /\ ~aborted /\ Head(calls).call = "freeBus"
      /\ curr' = IF curr > 0 THEN curr - 1 ELSE curr
      /\ calls' = Only(Buses > 0 /\ queue # <<>>, [call |-> "serve"]) \o Tail(calls)
      /\ UNCHANGED <<input, links, onNet, queue, number, moving, asked, done, aborted>>
  BY DEF FreeBus, Calling
<1>2. /\ Len(calls) = 1 /\ ToSet(calls) = {Head(calls)} /\ Tail(calls) = <<>> /\ Freeing
  <2>1. /\ calls \in Seq(Call) /\ Head(calls) = calls[1] /\ 1 \in DOMAIN calls
        /\ DOMAIN calls = 1 .. Len(calls)
    BY <1>1 DEF NetInv, CallsInOrder, InOrder
  <2>2. Len(calls) = 1
    BY <1>1, <2>1 DEF NetInv, CallsInOrder, InOrder
  <2>3. DOMAIN calls = {1}
    BY <2>1, <2>2
  <2>4. Tail(calls) = <<>>
    <3>1. PICK t \in Seq(Call) : t = Tail(calls) /\ Len(t) = 0
      <4>1. Tail(calls) \in Seq(Call) /\ Len(Tail(calls)) = Len(calls) - 1
        BY <1>1, <2>1, TailPositions
      <4>2. Len(Tail(calls)) = 0
        BY <2>2, <4>1
      <4> QED BY <4>1, <4>2
    <3>2. t = <<>>
      BY <3>1
    <3> QED BY <3>1, <3>2
  <2> QED BY <1>1, <2>1, <2>2, <2>3, <2>4 DEF ToSet, Freeing, FreesBus
<1>3. \A x : /\ ~Sent(x) /\ ~ToDo(ToWakeOut(x)) /\ ~ToDo(ToWakeIn(x))
             /\ ~ToDo(ToFreeOut(x)) /\ ~ToDo(ToFreeIn(x))
  <2> SUFFICES ASSUME NEW x
               PROVE  /\ ~Sent(x) /\ ~ToDo(ToWakeOut(x)) /\ ~ToDo(ToWakeIn(x))
                      /\ ~ToDo(ToFreeOut(x)) /\ ~ToDo(ToFreeIn(x))
    OBVIOUS
  <2>1. /\ ToWakeOut(x).call # "freeBus" /\ ToWakeIn(x).call # "freeBus"
        /\ ToFreeOut(x).call # "freeBus" /\ ToFreeIn(x).call # "freeBus"
    BY DEF ToWakeOut, ToWakeIn, ToFreeOut, ToFreeIn
  <2> QED BY <1>1, <1>2, <2>1 DEF Sent, ToDo
<1>4. /\ Buses \in Nat /\ curr \in Nat /\ Held \in Nat /\ Cardinality(moving) \in Nat
      /\ IsFiniteSet(moving) /\ queue \in Seq(Users) /\ Len(queue) \in Nat
  <2>1. IsFiniteSet(moving) /\ curr \in Nat /\ queue \in Seq(Users)
    BY DEF NetInv, Typed, TypeOK, BusesRight
  <2> QED BY <2>1, HeldIs, BusesAssumption, FS_CardinalityType
<1>5. \/ /\ ~(Buses > 0 /\ queue # <<>>) /\ calls' = <<>>
      \/ /\ Buses > 0 /\ queue # <<>> /\ calls' = <<[call |-> "serve"]>>
  <2>1. PICK s : s = [call |-> "serve"]
    OBVIOUS
  <2>2. calls' = Only(Buses > 0 /\ queue # <<>>, s) \o <<>>
    BY <1>1, <1>2, <2>1
  <2>3. <<s>> \o <<>> = <<s>> /\ <<>> \o <<>> = <<>>
    OBVIOUS
  <2> QED BY <2>1, <2>2, <2>3 DEF Only
<1>6. /\ calls' \in Seq(Call) /\ DOMAIN calls' = 1 .. Len(calls')
      /\ Len(calls') = IF Buses > 0 /\ queue # <<>> THEN 1 ELSE 0
      /\ \A i \in DOMAIN calls' : calls'[i].call = "serve"
      /\ calls' # <<>> => Head(calls').call = "serve"
  <2>1. [call |-> "serve"] \in Call
    BY DEF Call
  <2>2. PICK s \in Call : s = [call |-> "serve"] /\ s.call = "serve"
    BY <2>1
  <2>3. CASE calls' = <<>>
    BY <1>5, <2>3
  <2>4. CASE Buses > 0 /\ queue # <<>> /\ calls' = <<s>>
    BY <2>2, <2>4
  <2> QED BY <1>5, <2>2, <2>3, <2>4
<1>7. /\ ~Freeing' /\ Serving' = Len(calls') /\ CallsInOrder' /\ \A x : ~Sent(x)'
  <2>1. ~FreesBus(calls')
    BY <1>6 DEF FreesBus
  <2>2. InOrder(calls', local' \cap done', partner' \cap done')
    BY <1>6, <2>1 DEF InOrder
  <2> QED BY <1>6, <2>1, <2>2 DEF Freeing, Serving, CallsInOrder, Sent
<1>8. Places'
  <2>1. \A x : Waits(x)' <=> Waits(x)
    BY <1>1, WaitsFor
  <2> QED BY <1>1, <1>3, <1>7, <2>1 DEF NetInv, Places
<1>9. BusesRight'
  <2>1. Held' = Held
    BY <1>1 DEF Held
  <2>2. \A g \in Gops \ moving' : number'[g] > 0 => queue' # <<>> /\ Head(queue') = g
    BY <1>1 DEF NetInv, BusesRight
  <2>3. CASE Buses = 0
    <3>1. queue' = <<>> /\ curr' = 0 /\ Serving' = 0 /\ Len(queue') = 0
      BY <1>1, <1>4, <1>6, <1>7, <2>3 DEF NetInv, BusesRight
    <3> QED BY <1>1, <1>4, <1>7, <2>2, <2>3, <3>1 DEF BusesRight
  <2>4. CASE Buses > 0
    <3>1. moving \subseteq Msgs /\ curr = Cardinality(moving) + Held + 1 /\ curr <= Buses
      BY <1>2, <1>4, <2>4 DEF NetInv, BusesRight, If
    <3>2. curr' = curr - 1
      BY <1>1, <1>4, <3>1
    <3>3. curr' = Cardinality(moving') + Held' + If(Freeing', 1)
      <4>1. If(Freeing', 1) = 0
        BY <1>7 DEF If
      <4>2. Cardinality(moving') = Cardinality(moving)
        BY <1>1
      <4> QED BY <1>4, <2>1, <3>1, <3>2, <4>1, <4>2
    <3>4. moving' \cap Msgs \subseteq ToSet(onNet') /\ moving' \subseteq Msgs
      BY <1>1, <2>4, <3>1 DEF NetInv, BusesRight
    <3>5. /\ Serving' <= Len(queue')
          /\ Serving' = Len(queue') \/ curr' + Len(calls') >= Buses
      <4>1. CASE queue = <<>>
        BY <1>1, <1>4, <1>6, <1>7, <4>1
      <4>2. CASE queue # <<>>
        <5>1. curr = Buses
          BY <1>2, <2>4, <4>2 DEF NetInv, BusesRight
        <5>2. Len(queue) >= 1 /\ Len(calls') = 1
          BY <1>4, <1>6, <2>4, <4>2
        <5> QED BY <1>1, <1>4, <1>7, <3>2, <5>1, <5>2
      <4> QED BY <4>1, <4>2
    <3>6. curr' <= Buses /\ IsFiniteSet(moving') /\ ~(Buses = 0)
      BY <1>1, <1>4, <2>4, <3>1, <3>2
    <3> QED BY <1>7, <2>2, <3>3, <3>4, <3>5, <3>6 DEF BusesRight
  <2> QED BY <1>4, <2>3, <2>4
<1> QED
  <2>1. /\ curr' \in Nat /\ number' \in [Gops -> Nat] /\ onNet' \in Seq(Users)
        /\ queue' \in Seq(Users) /\ Once(queue)'
        /\ moving' \subseteq Users /\ asked' \subseteq Users /\ asked \subseteq asked'
        /\ done' \subseteq Users /\ done' \ done = {} /\ aborted' = FALSE
    BY <1>1, <1>4 DEF NetInv, Typed, TypeOK, QueuesRight
  <2>2. \A x \in Msgs : x \in moving' \/ x \in ToSet(queue') \/ Sent(x)' =>
                           x \in moving \/ x \in ToSet(queue)
    BY <1>1, <1>7
  <2> QED BY <1>1, <1>3, <1>7, <1>8, <1>9, <2>1, <2>2, LinksAlone

\* The calls that serve the queue of the buses come alone.
LEMMA ServingIs ==
    ASSUME NetInv, calls # <<>>, Head(calls).call \in {"serve", "serveIfFree"},
           UNCHANGED <<links, done>>
    PROVE  /\ ~Freeing /\ Serving = Len(calls) /\ Buses > 0 /\ queue # <<>>
           /\ Len(calls) \in Nat /\ Len(calls) <= Len(queue)
           /\ Len(Tail(calls)) = Len(calls) - 1
           /\ \A x : /\ ~Sent(x) /\ ~ToDo(ToWakeOut(x)) /\ ~ToDo(ToWakeIn(x))
                     /\ ~ToDo(ToFreeOut(x)) /\ ~ToDo(ToFreeIn(x))
           /\ InOrder(Tail(calls), local' \cap done', partner' \cap done')
           /\ ~FreesBus(Tail(calls))
           /\ \A c \in ToSet(Tail(calls)) : c.call \notin {"send", "freeOut"}
           /\ Tail(calls) # <<>> => Head(Tail(calls)).call # "send"
           /\ Buses \in Nat /\ curr \in Nat /\ Held \in Nat /\ Cardinality(moving) \in Nat
           /\ queue \in Seq(Users) /\ Len(queue) \in Nat /\ curr <= Buses
           /\ number \in [Gops -> Nat] /\ onNet \in Seq(Users)
           /\ \A g \in Gops \ moving : g # Head(queue) => number[g] = 0
<1>1. /\ calls \in Seq(Call) /\ Head(calls) = calls[1] /\ 1 \in DOMAIN calls
      /\ DOMAIN calls = 1 .. Len(calls) /\ Len(calls) \in Nat /\ Len(calls) >= 1
      /\ Len(Tail(calls)) = Len(calls) - 1
  BY DEF NetInv, CallsInOrder, InOrder
<1>2. ~FreesBus(calls) /\ ~Freeing /\ Serving = Len(calls)
  BY <1>1 DEF NetInv, CallsInOrder, InOrder, Freeing, Serving
<1>3. \A c : c.call \in {"freeOut", "freeIn", "wakeOut", "wakeIn"} => ~ToDo(c)
  <2> SUFFICES ASSUME NEW c, c.call \in {"freeOut", "freeIn", "wakeOut", "wakeIn"}, ToDo(c)
               PROVE  FALSE
    OBVIOUS
  <2>1. PICK i \in DOMAIN calls : calls[i] = c
    BY DEF ToDo, ToSet
  <2> QED BY <1>2, <2>1 DEF NetInv, CallsInOrder, InOrder
<1>4. \A x : /\ ~Sent(x) /\ ~ToDo(ToWakeOut(x)) /\ ~ToDo(ToWakeIn(x))
             /\ ~ToDo(ToFreeOut(x)) /\ ~ToDo(ToFreeIn(x))
  BY <1>3 DEF Sent, ToWakeOut, ToWakeIn, ToFreeOut, ToFreeIn
<1>5. /\ InOrder(Tail(calls), local' \cap done', partner' \cap done')
      /\ ~FreesBus(Tail(calls))
      /\ \A c \in ToSet(Tail(calls)) : c.call \notin {"send", "freeOut"}
      /\ Tail(calls) # <<>> => Head(Tail(calls)) \in ToSet(Tail(calls))
  <2>1. /\ InOrder(calls, local \cap done, partner \cap done)
        /\ local' = local /\ partner' = partner /\ done' = done
    BY DEF NetInv, CallsInOrder, links
  <2> QED BY <1>2, <2>1, TailInOrder
<1>6. /\ Buses \in Nat /\ curr \in Nat /\ Held \in Nat /\ Cardinality(moving) \in Nat
      /\ queue \in Seq(Users) /\ Len(queue) \in Nat
      /\ number \in [Gops -> Nat] /\ onNet \in Seq(Users)
  <2>1. /\ IsFiniteSet(moving) /\ curr \in Nat /\ queue \in Seq(Users)
        /\ number \in [Gops -> Nat] /\ onNet \in Seq(Users)
    BY DEF NetInv, Typed, TypeOK, BusesRight
  <2> QED BY <2>1, HeldIs, BusesAssumption, FS_CardinalityType
<1>7. Len(calls) <= Len(queue)
  BY <1>2 DEF NetInv, BusesRight
<1>8. queue # <<>>
  BY <1>1, <1>6, <1>7
<1>9. Buses > 0 /\ curr <= Buses
  BY <1>6, <1>8 DEF NetInv, BusesRight
<1>10. \A g \in Gops \ moving : g # Head(queue) => number[g] = 0
  BY <1>6 DEF NetInv, BusesRight
<1> QED BY <1>1, <1>2, <1>4, <1>5, <1>6, <1>7, <1>8, <1>9, <1>10

LEMMA ServeHeadKeeps ==
    ASSUME NetInv, calls # <<>>, Head(calls).call \in {"serve", "serveIfFree"},
           ServeHead(Tail(calls)), UNCHANGED <<input, links, asked, done, aborted>>
    PROVE  NetInv'
<1> DEFINE rest == Tail(calls)
<1>1. /\ ~Freeing /\ Serving = Len(calls) /\ Buses > 0 /\ queue # <<>>
      /\ Len(calls) \in Nat /\ Len(calls) <= Len(queue)
      /\ Len(rest) = Len(calls) - 1
      /\ \A x : /\ ~Sent(x) /\ ~ToDo(ToWakeOut(x)) /\ ~ToDo(ToWakeIn(x))
                /\ ~ToDo(ToFreeOut(x)) /\ ~ToDo(ToFreeIn(x))
      /\ InOrder(rest, local' \cap done', partner' \cap done')
      /\ ~FreesBus(rest)
      /\ \A c \in ToSet(rest) : c.call \notin {"send", "freeOut"}
      /\ rest # <<>> => Head(rest).call # "send"
      /\ Buses \in Nat /\ curr \in Nat /\ Held \in Nat /\ Cardinality(moving) \in Nat
      /\ queue \in Seq(Users) /\ Len(queue) \in Nat /\ curr <= Buses
      /\ number \in [Gops -> Nat] /\ onNet \in Seq(Users)
      /\ \A g \in Gops \ moving : g # Head(queue) => number[g] = 0
  BY ServingIs
<1>2. PICK h : h = Head(queue)
  OBVIOUS
<1>3. \/ /\ h \in Msgs /\ queue' = Tail(queue)
         /\ calls' = <<[call |-> "send", who |-> h]>> \o rest
         /\ UNCHANGED <<curr, onNet, number, moving>>
      \/ /\ h \in Gops /\ number' = [number EXCEPT ![h] = @ + (Buses - curr)]
         /\ IF number[h] + (Buses - curr) = Buses
              THEN /\ queue' = Tail(queue) /\ curr' = Buses
                   /\ onNet' = onNet \o [i \in 1 .. Buses |-> h]
                   /\ moving' = moving \cup {h}
              ELSE curr' = Buses /\ UNCHANGED <<queue, onNet, moving>>
         /\ calls' = rest
  BY <1>2 DEF ServeHead, StartGlobalOp
<1> HIDE DEF rest
<1>4. Once(queue) /\ IsFiniteSet(moving)
  BY DEF NetInv, QueuesRight, BusesRight
<1>5. /\ h \in ToSet(queue) /\ ToSet(Tail(queue)) = ToSet(queue) \ {h} /\ Once(Tail(queue))
      /\ Tail(queue) \in Seq(Users) /\ Len(Tail(queue)) = Len(queue) - 1 /\ h \in Users
      /\ Tail(queue) # <<>> => Head(Tail(queue)) \in ToSet(queue) \ {h}
  <2>1. /\ h \in ToSet(queue) /\ ToSet(Tail(queue)) = ToSet(queue) \ {h} /\ Once(Tail(queue))
    BY <1>1, <1>2, <1>4, TailElements
  <2>2. Tail(queue) \in Seq(Users) /\ Len(Tail(queue)) = Len(queue) - 1 /\ h \in Users
    BY <1>1, <1>2, TailPositions
  <2> QED BY <2>1, <2>2, TailElements
<1>6. \A x \in ToSet(queue) : x \notin moving /\ x \notin done
  BY DEF NetInv, Places, Waits
<1>7. h \in Gops => Held = number[h]
  BY <1>1, <1>2 DEF Held
<1>8. /\ moving \cap Msgs \subseteq ToSet(onNet)
      /\ \/ moving \subseteq Msgs /\ curr = Cardinality(moving) + Held
         \/ (\E g \in Gops : moving = {g}) /\ curr = Buses /\ Held = 0
      /\ Len(calls) = Len(queue) \/ curr + Len(calls) >= Buses
  BY <1>1 DEF NetInv, BusesRight, If
<1>9. CASE h \in Msgs
  <2>1. /\ queue' = Tail(queue) /\ calls' = <<[call |-> "send", who |-> h]>> \o rest
        /\ UNCHANGED <<curr, onNet, number, moving>>
    BY <1>3, <1>9, KindsAssumption
  <2>2. /\ calls' # <<>> /\ Head(calls').call = "send" /\ Head(calls').who = h
        /\ Len(calls') = Len(calls) /\ ~FreesBus(calls')
        /\ InOrder(calls', local' \cap done', partner' \cap done')
    <3>1. PICK c \in Call : c = [call |-> "send", who |-> h] /\ c.call = "send" /\ c.who = h
      <4>1. [call |-> "send", who |-> h] \in [call : {"send", "freeOut", "freeIn"}, who : Msgs]
        BY <1>9
      <4>2. [call |-> "send", who |-> h] \in Call
        BY <4>1 DEF Call
      <4> QED BY <4>2
    <3>2. /\ InOrder(<<c>> \o rest, local' \cap done', partner' \cap done')
          /\ FreesBus(<<c>> \o rest) <=> FreesBus(rest)
          /\ Head(<<c>> \o rest) = c /\ <<c>> \o rest # <<>>
          /\ Len(<<c>> \o rest) = Len(rest) + 1
      BY <1>1, <3>1, PushInOrder
    <3> QED BY <1>1, <2>1, <3>1, <3>2
  <2>3. /\ ~Freeing' /\ CallsInOrder' /\ Serving' = Len(calls) - 1
        /\ \A x : Sent(x)' <=> x = h
    BY <2>2 DEF Freeing, CallsInOrder, Serving, Sent
  <2>4. Places'
    <3>1. \A x : Waits(x)' <=> Waits(x) /\ x # h
      BY <1>5, <2>1, WaitsFor
    <3>2. Waits(h)
      BY <1>5 DEF Waits
    <3> QED BY <1>1, <1>5, <1>6, <2>1, <2>3, <3>1, <3>2 DEF NetInv, Places
  <2>5. BusesRight'
    <3>1. \A g \in Gops \ moving : number[g] = 0
      BY <1>1, <1>2, <1>9, KindsAssumption
    <3>2. Held = 0 /\ Held' = 0
      <4>1. Held = 0
        BY <1>2, <1>9, KindsAssumption DEF Held
      <4>2. queue' # <<>> /\ Head(queue') \in Gops => number'[Head(queue')] = 0
        BY <1>5, <1>6, <2>1, <3>1
      <4> QED BY <4>1, <4>2 DEF Held
    <3>3. \A g \in Gops \ moving' : number'[g] > 0 => queue' # <<>> /\ Head(queue') = g
      BY <2>1, <3>1
    <3>4. \/ moving' \subseteq Msgs /\ curr' = Cardinality(moving') + Held' + If(Freeing', 1)
          \/ (\E g \in Gops : moving' = {g}) /\ curr' = Buses /\ Held' = 0 /\ ~Freeing'
      <4>1. If(Freeing', 1) = 0
        BY <2>3 DEF If
      <4>2. CASE moving \subseteq Msgs /\ curr = Cardinality(moving) + Held
        <5>1. Cardinality(moving') = Cardinality(moving)
          BY <2>1
        <5> QED BY <1>1, <2>1, <3>2, <4>1, <4>2, <5>1
      <4>3. CASE (\E g \in Gops : moving = {g}) /\ curr = Buses /\ Held = 0
        BY <2>1, <2>3, <3>2, <4>3
      <4> QED BY <1>8, <4>2, <4>3
    <3>5. moving' \cap Msgs \subseteq ToSet(onNet')
      BY <1>8, <2>1
    <3>6. /\ Serving' <= Len(queue')
          /\ Serving' = Len(queue') \/ curr' + Len(calls') >= Buses
      BY <1>1, <1>5, <1>8, <2>1, <2>2, <2>3
    <3>7. IsFiniteSet(moving') /\ curr' <= Buses /\ ~(Buses = 0)
      BY <1>1, <1>4, <2>1
    <3> QED BY <2>3, <3>3, <3>4, <3>5, <3>6, <3>7 DEF BusesRight
  <2>6. /\ curr' \in Nat /\ number' \in [Gops -> Nat] /\ onNet' \in Seq(Users)
        /\ queue' \in Seq(Users) /\ Once(queue)'
        /\ moving' \subseteq Users /\ asked' \subseteq Users /\ asked \subseteq asked'
        /\ done' \subseteq Users /\ done' \ done = {} /\ aborted' = FALSE
    BY <1>1, <1>5, <2>1 DEF NetInv, Typed, TypeOK
  <2>7. \A x \in Msgs : x \in moving' \/ x \in ToSet(queue') \/ Sent(x)' =>
                           x \in moving \/ x \in ToSet(queue)
    BY <1>5, <2>1, <2>3
  <2> QED BY <1>1, <2>3, <2>4, <2>5, <2>6, <2>7, LinksAlone
<1>10. CASE h \in Gops
  <2> DEFINE k == number[h] + (Buses - curr)
  <2>1. /\ number' = [number EXCEPT ![h] = k] /\ curr' = Buses /\ calls' = rest
        /\ IF k = Buses
             THEN /\ queue' = Tail(queue) /\ moving' = moving \cup {h}
                  /\ onNet' = onNet \o [i \in 1 .. Buses |-> h]
             ELSE UNCHANGED <<queue, onNet, moving>>
    BY <1>3, <1>10, KindsAssumption
  <2>2. PICK n \in Nat : n = k
    BY <1>1, <1>10
  <2> HIDE DEF k
  <2>3. /\ number' \in [Gops -> Nat] /\ number'[h] = n
        /\ \A g \in Gops : g # h => number'[g] = number[g]
    BY <1>1, <1>10, <2>1, <2>2
  <2>4. /\ ~Freeing' /\ CallsInOrder' /\ Serving' = Len(calls) - 1 /\ \A x : ~Sent(x)'
    BY <1>1, <2>1 DEF Freeing, CallsInOrder, Serving, Sent
  <2>5. h \notin Msgs
    BY <1>10, KindsAssumption
  <2>6. CASE n = Buses
    <3>1. /\ queue' = Tail(queue) /\ moving' = moving \cup {h}
          /\ onNet' = onNet \o [i \in 1 .. Buses |-> h]
      BY <2>1, <2>2, <2>6
    <3>2. moving = {}
      <4>1. number[h] = curr /\ Held = curr
        BY <1>1, <1>7, <1>10, <2>2, <2>6 DEF k
      <4>2. Cardinality(moving) = 0
        BY <1>1, <1>8, <4>1
      <4> QED BY <1>4, <4>2, FS_EmptySet
    <3>3. Places'
      <4>1. \A x : Waits(x)' <=> Waits(x) /\ x # h
        BY <1>5, <3>1, WaitsFor
      <4>2. Waits(h)
        BY <1>5 DEF Waits
      <4> QED BY <1>1, <1>5, <1>6, <2>4, <3>1, <4>1, <4>2 DEF NetInv, Places
    <3>4. BusesRight'
      <4>1. \A g \in Gops \ moving' : number'[g] = 0
        BY <1>1, <1>2, <2>3, <3>1
      <4>2. Held' = 0
        <5>1. queue' # <<>> /\ Head(queue') \in Gops => number'[Head(queue')] = 0
          BY <1>5, <3>1, <3>2, <4>1
        <5> QED BY <5>1 DEF Held
      <4>3. \A g \in Gops \ moving' : number'[g] > 0 => queue' # <<>> /\ Head(queue') = g
        BY <4>1
      <4>4. (\E g \in Gops : moving' = {g}) /\ moving' \cap Msgs \subseteq ToSet(onNet')
        BY <1>10, <2>5, <3>1, <3>2
      <4>5. Serving' <= Len(queue') /\ curr' + Len(calls') >= Buses
        <5>1. Len(calls') = Len(calls) - 1 /\ Len(queue') = Len(queue) - 1
          BY <1>1, <1>5, <2>1, <3>1
        <5>2. calls # <<>> => Len(calls) - 1 >= 0
          BY <1>1, EmptyElements
        <5> QED BY <1>1, <2>1, <2>4, <5>1, <5>2
      <4>6. IsFiniteSet(moving')
        BY <1>4, <3>1, FS_AddElement
      <4>7. curr' <= Buses /\ ~(Buses = 0) /\ curr' = Buses
        BY <1>1, <2>1
      <4> QED BY <2>4, <4>2, <4>3, <4>4, <4>5, <4>6, <4>7 DEF BusesRight
    <3>5. onNet' \in Seq(Users)
      <4>1. [i \in 1 .. Buses |-> h] \in Seq(Users)
        BY <1>1, <1>5
      <4>2. onNet \o [i \in 1 .. Buses |-> h] \in Seq(Users)
        BY <1>1, <4>1
      <4> QED BY <3>1, <4>2
    <3>6. /\ curr' \in Nat /\ queue' \in Seq(Users) /\ Once(queue)'
          /\ moving' \subseteq Users /\ asked' \subseteq Users /\ asked \subseteq asked'
          /\ done' \subseteq Users /\ done' \ done = {} /\ aborted' = FALSE
      BY <1>1, <1>5, <2>1, <3>1 DEF NetInv, Typed, TypeOK
    <3>7. \A x \in Msgs : x \in moving' \/ x \in ToSet(queue') \/ Sent(x)' =>
                             x \in moving \/ x \in ToSet(queue)
      BY <1>5, <2>4, <2>5, <3>1
    <3> QED BY <1>1, <2>3, <2>4, <3>3, <3>4, <3>5, <3>6, <3>7, LinksAlone
  <2>7. CASE n # Buses
    <3>1. queue' = queue /\ onNet' = onNet /\ moving' = moving
      BY <2>1, <2>2, <2>7
    <3>2. Places'
      <4>1. \A x : Waits(x)' <=> Waits(x)
        BY <3>1, WaitsFor
      <4> QED BY <1>1, <2>4, <3>1, <4>1 DEF NetInv, Places
    <3>3. BusesRight'
      <4>1. Held' = n
        BY <1>1, <1>2, <1>10, <2>3, <3>1 DEF Held
      <4>2. \A g \in Gops \ moving' : number'[g] > 0 => queue' # <<>> /\ Head(queue') = g
        BY <1>1, <1>2, <2>3, <3>1
      <4>3. n = Held + (Buses - curr)
        BY <1>7, <1>10, <2>2 DEF k
      <4>4. \/ moving' \subseteq Msgs /\ curr' = Cardinality(moving') + Held' + If(Freeing', 1)
            \/ (\E g \in Gops : moving' = {g}) /\ curr' = Buses /\ Held' = 0 /\ ~Freeing'
        <5>1. If(Freeing', 1) = 0
          BY <2>4 DEF If
        <5>2. CASE moving \subseteq Msgs /\ curr = Cardinality(moving) + Held
          <6>1. moving' \subseteq Msgs /\ Cardinality(moving') = Cardinality(moving)
            BY <3>1, <5>2
          <6>2. Cardinality(moving) \in Nat
            BY <1>4, FS_CardinalityType
          <6>3. curr' = Buses /\ curr = Cardinality(moving) + Held
            BY <2>1, <5>2
          <6>4. Held \in Nat /\ Buses \in Nat /\ n = Held + (Buses - curr)
            BY <1>1, <1>2, <1>10, <4>3 DEF Held
          <6>5. curr' = Cardinality(moving') + n + 0
            BY <6>1, <6>2, <6>3, <6>4
          <6> QED BY <4>1, <5>1, <6>1, <6>5
        <5>3. CASE (\E g \in Gops : moving = {g}) /\ curr = Buses /\ Held = 0
          <6>1. Held' = 0
            BY <1>1, <4>1, <4>3, <5>3
          <6> QED BY <2>1, <2>4, <3>1, <5>3, <6>1
        <5> QED BY <1>8, <5>2, <5>3
      <4>5. moving' \cap Msgs \subseteq ToSet(onNet') /\ IsFiniteSet(moving')
        BY <1>4, <1>8, <3>1
      <4>6. Serving' <= Len(queue') /\ curr' + Len(calls') >= Buses
        BY <1>1, <2>1, <2>4, <3>1
      <4>7. curr' <= Buses /\ ~(Buses = 0)
        BY <1>1, <2>1
      <4> QED BY <2>4, <4>2, <4>4, <4>5, <4>6, <4>7 DEF BusesRight
    <3>4. /\ curr' \in Nat /\ queue' \in Seq(Users) /\ Once(queue)' /\ onNet' \in Seq(Users)
          /\ moving' \subseteq Users /\ asked' \subseteq Users /\ asked \subseteq asked'
          /\ done' \subseteq Users /\ done' \ done = {} /\ aborted' = FALSE
      BY <1>1, <1>4, <2>1, <3>1 DEF NetInv, Typed, TypeOK
    <3>5. \A x \in Msgs : x \in moving' \/ x \in ToSet(queue') \/ Sent(x)' =>
                             x \in moving \/ x \in ToSet(queue)
      BY <2>4, <3>1
    <3> QED BY <1>1, <2>3, <2>4, <3>2, <3>3, <3>4, <3>5, LinksAlone
  <2> QED BY <2>6, <2>7
<1> QED BY <1>3, <1>9, <1>10

LEMMA ServeKeeps ==
    ASSUME NetInv, Serve
    PROVE  NetInv'
<1>1. /\ calls # <<>> /\ Head(calls).call = "serve" /\ ServeHead(Tail(calls))
      /\ UNCHANGED <<input, links, asked, done, aborted>>
  BY DEF Serve, Calling
<1> QED BY <1>1, ServeHeadKeeps

LEMMA ServeIfFreeKeeps ==
    ASSUME NetInv, ServeIfFree
    PROVE  NetInv'
<1>1. /\ calls # <<>> /\ ~aborted /\ Head(calls).call = "serveIfFree"
      /\ UNCHANGED <<input, links, asked, done, aborted>>
      /\ IF curr < Buses THEN ServeHead(Tail(calls))
                         ELSE calls' = Tail(calls) /\ UNCHANGED buses
  BY DEF ServeIfFree, Calling
<1>2. CASE curr < Buses
  BY <1>1, <1>2, ServeHeadKeeps
<1>3. CASE ~(curr < Buses)
  <2>1. calls' = Tail(calls) /\ UNCHANGED <<curr, onNet, queue, number, moving>>
    BY <1>1, <1>3 DEF buses
  <2>2. /\ ~Freeing /\ Serving = Len(calls) /\ Buses > 0
        /\ Len(calls) \in Nat /\ Len(calls) <= Len(queue)
        /\ Len(Tail(calls)) = Len(calls) - 1
        /\ \A x : /\ ~Sent(x) /\ ~ToDo(ToWakeOut(x)) /\ ~ToDo(ToWakeIn(x))
                  /\ ~ToDo(ToFreeOut(x)) /\ ~ToDo(ToFreeIn(x))
        /\ InOrder(Tail(calls), local' \cap done', partner' \cap done')
        /\ ~FreesBus(Tail(calls))
        /\ Tail(calls) # <<>> => Head(Tail(calls)).call # "send"
        /\ Buses \in Nat /\ curr \in Nat /\ curr <= Buses
        /\ queue \in Seq(Users) /\ Len(queue) \in Nat
    BY <1>1, ServingIs
  <2>3. /\ ~Freeing' /\ CallsInOrder' /\ Serving' = Len(calls) - 1 /\ \A x : ~Sent(x)'
    BY <2>1, <2>2 DEF Freeing, CallsInOrder, Serving, Sent
  <2>4. Places'
    <3>1. \A x : Waits(x)' <=> Waits(x)
      BY <1>1, <2>1, WaitsFor
    <3> QED BY <1>1, <2>1, <2>2, <2>3, <3>1 DEF NetInv, Places
  <2>5. BusesRight'
    <3>1. Held' = Held /\ If(Freeing', 1) = If(Freeing, 1)
      BY <2>1, <2>2, <2>3 DEF Held, If
    <3>2. /\ Serving' <= Len(queue') /\ curr' + Len(calls') >= Buses
      <4>1. calls # <<>> => Len(calls) - 1 >= 0
        <5>1. calls \in Seq(Call)
          BY DEF NetInv, CallsInOrder, InOrder
        <5> QED BY <5>1
      <4> QED BY <1>1, <1>3, <2>1, <2>2, <2>3, <4>1
    <3>3. Cardinality(moving') = Cardinality(moving)
      BY <2>1
    <3> QED BY <2>1, <2>2, <2>3, <3>1, <3>2, <3>3 DEF NetInv, BusesRight
  <2>6. /\ curr' \in Nat /\ number' \in [Gops -> Nat] /\ onNet' \in Seq(Users)
        /\ queue' \in Seq(Users) /\ Once(queue)'
        /\ moving' \subseteq Users /\ asked' \subseteq Users /\ asked \subseteq asked'
        /\ done' \subseteq Users /\ done' \ done = {} /\ aborted' = FALSE
    BY <1>1, <2>1 DEF NetInv, Typed, TypeOK, QueuesRight
  <2>7. \A x \in Msgs : x \in moving' \/ x \in ToSet(queue') \/ Sent(x)' =>
                           x \in moving \/ x \in ToSet(queue)
    BY <2>1, <2>3
  <2> QED BY <1>1, <2>2, <2>3, <2>4, <2>5, <2>6, <2>7, LinksAlone
<1> QED BY <1>2, <1>3

LEMMA StutterKeeps ==
    ASSUME NetInv, UNCHANGED vars
    PROVE  NetInv'
<1>1. UNCHANGED <<config, route, freeOut, freeIn, owners, thForOut, thForIn, local, partner,
                  seeking, curr, onNet, queue, number, moving, asked, done, calls, aborted>>
  BY DEF vars, input, links, buses
<1>2. Freeing' = Freeing /\ Serving' = Serving /\ Held' = Held
  BY <1>1 DEF Freeing, Serving, Held
<1>3. \A x : /\ Src(x)' = Src(x) /\ Dst(x)' = Dst(x) /\ Infinite(x)' = Infinite(x)
             /\ Sent(x)' = Sent(x) /\ ToDo(x)' = ToDo(x)
             /\ HalfDuplex(x)' = HalfDuplex(x)
             /\ LinksIn(x)' = LinksIn(x) /\ LinksOut(x)' = LinksOut(x)
  BY <1>1 DEF Src, Dst, Infinite, Sent, ToDo, HalfDuplex, LinksIn, LinksOut
<1>4. \A x : /\ HasOut(x)' = HasOut(x) /\ HasIn(x)' = HasIn(x) /\ Waits(x)' = Waits(x)
             /\ OutUsers(x)' = OutUsers(x) /\ InUsers(x)' = InUsers(x)
  BY <1>1, <1>3 DEF HasOut, HasIn, Waits, OutUsers, InUsers
<1>5. \A x : WakingOut(x)' = WakingOut(x) /\ WakingIn(x)' = WakingIn(x)
  BY <1>1, <1>2, <1>3, <1>4 DEF WakingOut, WakingIn
<1>6. Typed' /\ CallsInOrder'
  BY <1>1, <1>3 DEF NetInv, Typed, TypeOK, CallsInOrder
<1>7. LinksRight' /\ Stolen' /\ Returned'
  BY <1>1, <1>3, <1>4 DEF NetInv, LinksRight, Stolen, Returned
<1>8. QueuesRight'
  BY <1>1, <1>2, <1>3, <1>4 DEF NetInv, QueuesRight
<1>9. Places' /\ Woken'
  BY <1>1, <1>3, <1>4, <1>5 DEF NetInv, Places, Woken
<1>10. BusesRight'
  BY <1>1, <1>2 DEF NetInv, BusesRight
<1> QED BY <1>1, <1>6, <1>7, <1>8, <1>9, <1>10 DEF NetInv

LEMMA NextKeeps ==
    ASSUME NetInv, [Next]_vars
    PROVE  NetInv'
<1>1. ASSUME NEW m \in Msgs, Send(m) PROVE NetInv'
  BY <1>1, NewKeeps
<1>2. ASSUME NEW m \in Msgs, InternalResourcesOut(m) PROVE NetInv'
  BY <1>2, ResourcesOutKeeps
<1>3. ASSUME NEW g \in Gops, GlobalOp(g) PROVE NetInv'
  BY <1>3, GlobalOpKeeps
<1>4. ASSUME NEW g \in Gops, GroupResourcesOut(g) PROVE NetInv'
  BY <1>4, GroupOutKeeps
<1>5. CASE CallSend
  BY <1>5, CallSendKeeps
<1>6. CASE FreeOutLink
  BY <1>6, FreeOutKeeps
<1>7. CASE FreeInLink
  BY <1>7, FreeInKeeps
<1>8. CASE WakeOut
  BY <1>8, WakeOutKeeps
<1>9. CASE WakeIn
  BY <1>9, WakeInKeeps
<1>10. CASE FreeBus
  BY <1>10, FreeBusKeeps
<1>11. CASE Serve
  BY <1>11, ServeKeeps
<1>12. CASE ServeIfFree
  BY <1>12, ServeIfFreeKeeps
<1>13. CASE UNCHANGED vars
  BY <1>13, StutterKeeps
<1> QED
  BY <1>1, <1>2, <1>3, <1>4, <1>5, <1>6, <1>7, <1>8, <1>9, <1>10, <1>11, <1>12, <1>13
  DEF Next, Handle

-----------------------------------------------------------------------------
(* The invariant holds, and what it says of the properties.                *)

LEMMA InitInv ==
    ASSUME Uniform, Init
    PROVE  NetInv
<1>1. /\ config \in Configs /\ route \in Routes
      /\ config \in [Nodes -> [in : Nat, out : Nat]]
      /\ \A n \in Nodes : config[n].in \in Nat /\ config[n].out \in Nat
      /\ \A n \in Nodes : LinksOut(n) \in Nat /\ LinksIn(n) \in Nat
  <2>1. config \in Configs /\ route \in Routes
    BY DEF Init
  <2>2. config \in [Nodes -> [in : Nat, out : Nat]]
    BY <2>1, ConfigsAssumption
  <2> QED BY <2>1, <2>2 DEF LinksOut, LinksIn
<1>2. /\ freeOut = [n \in Nodes |-> LinksOut(n)] /\ freeIn = [n \in Nodes |-> LinksIn(n)]
      /\ owners = [n \in Nodes |-> <<>>]
      /\ thForOut = [n \in Nodes |-> <<>>] /\ thForIn = [n \in Nodes |-> <<>>]
      /\ local = {} /\ partner = {} /\ seeking = {}
      /\ curr = 0 /\ onNet = <<>> /\ queue = <<>> /\ number = [g \in Gops |-> 0]
      /\ asked = {} /\ moving = {} /\ done = {} /\ calls = <<>> /\ aborted = FALSE
  BY DEF Init
<1>3. /\ <<>> \in Seq(Msgs) /\ <<>> \in Seq(Users) /\ <<>> \in Seq(Call)
      /\ DOMAIN <<>> = {} /\ Len(<<>>) = 0
  OBVIOUS
<1>4. ToSet(<<>>) = {} /\ Once(<<>>) /\ ~FreesBus(<<>>)
  BY <1>3 DEF ToSet, Once, FreesBus
<1>5. Cardinality({}) = 0 /\ IsFiniteSet({})
  BY FS_EmptySet
<1>6. Typed
  <2>1. TypeOK
    BY <1>1, <1>2, <1>3 DEF TypeOK
  <2>2. (\A n \in Nodes : Infinite(n)) \/ (\A n \in Nodes : ~Infinite(n))
    BY <1>1 DEF Uniform, Infinite
  <2> QED BY <1>1, <2>1, <2>2 DEF Typed
<1>7. CallsInOrder
  BY <1>2, <1>3, <1>4 DEF CallsInOrder, InOrder
<1>8. LinksRight
  <2>1. \A n \in Nodes : OutUsers(n) = {} /\ InUsers(n) = {}
    BY <1>2 DEF OutUsers, InUsers
  <2>2. \A p : If(p, 0) = 0
    BY DEF If
  <2>3. ASSUME NEW n \in Nodes
        PROVE  /\ freeOut[n] + Cardinality(OutUsers(n))
                    + If(HalfDuplex(n), Cardinality(InUsers(n))) = LinksOut(n)
               /\ freeIn[n] + Cardinality(InUsers(n))
                    + If(HalfDuplex(n), Cardinality(OutUsers(n))) = LinksIn(n)
    <3>1. Cardinality(OutUsers(n)) = 0 /\ Cardinality(InUsers(n)) = 0
      BY <1>5, <2>1
    <3>2. /\ If(HalfDuplex(n), Cardinality(InUsers(n))) = 0
          /\ If(HalfDuplex(n), Cardinality(OutUsers(n))) = 0
      BY <3>1 DEF If
    <3>3. /\ freeOut[n] = LinksOut(n) /\ LinksOut(n) \in Nat
          /\ freeIn[n] = LinksIn(n) /\ LinksIn(n) \in Nat
      BY <1>1, <1>2
    <3> QED BY <3>1, <3>2, <3>3
  <2>4. \A n \in Nodes : Once(owners[n]) /\ ToSet(owners[n]) = OutUsers(n)
    BY <1>2, <1>4, <2>1
  <2> QED BY <1>2, <1>5, <2>3, <2>4 DEF LinksRight
<1>9. Stolen /\ Returned
  BY <1>2 DEF Stolen, Returned
<1>10. \A x : ~Sent(x) /\ ~ToDo(x)
  BY <1>2, <1>4 DEF Sent, ToDo
<1>11. \A n \in Nodes : ToSet(thForOut[n]) = {} /\ ToSet(thForIn[n]) = {}
                        /\ Once(thForOut[n]) /\ Once(thForIn[n])
                        /\ thForOut[n] = <<>> /\ thForIn[n] = <<>>
  BY <1>2, <1>4
<1>12. ToSet(queue) = {} /\ Once(queue)
  BY <1>2, <1>4
<1>13. QueuesRight
  BY <1>2, <1>10, <1>11, <1>12 DEF QueuesRight
<1>14. \A x : ~Waits(x)
  <2>1. \A x \in Msgs : Src(x) \in Nodes /\ Dst(x) \in Nodes
    BY <1>6, NodesOf
  <2> QED BY <1>11, <1>12, <2>1 DEF Waits
<1>15. Places /\ Woken
  BY <1>2, <1>10, <1>11, <1>14 DEF Places, Woken
<1>16. BusesRight
  <2>1. ~Freeing /\ Serving = 0 /\ Held = 0 /\ If(Freeing, 1) = 0
    BY <1>2, <1>3, <1>4 DEF Freeing, Serving, Held, If
  <2>2. \A g \in Gops : number[g] = 0
    BY <1>2
  <2>3. curr = Cardinality(moving) + Held + If(Freeing, 1)
    BY <1>2, <1>5, <2>1
  <2>4. 0 <= Buses /\ Len(queue) = 0
    BY <1>2, <1>3, BusesAssumption
  <2> QED BY <1>2, <1>5, <2>1, <2>2, <2>3, <2>4 DEF BusesRight
<1> QED BY <1>2, <1>6, <1>7, <1>8, <1>9, <1>13, <1>15, <1>16 DEF NetInv

LEMMA NetInvHolds ==
    ASSUME Uniform
    PROVE  Spec => []NetInv
<1>1. Init => NetInv
  BY InitInv
<1>2. NetInv /\ [Next]_vars => NetInv'
  BY NextKeeps
<1> QED BY <1>1, <1>2, PTL DEF Spec

LEMMA BusesFollow ==
    ASSUME NetInv
    PROVE  BusesConserved /\ CollectiveAlone
<1>1. /\ Buses \in Nat /\ Held \in Nat /\ curr \in Nat /\ IsFiniteSet(moving)
      /\ Cardinality(moving) \in Nat /\ moving \subseteq Users /\ Msgs \cap Gops = {}
  <2>1. IsFiniteSet(moving) /\ curr \in Nat /\ moving \subseteq Users
    BY DEF NetInv, Typed, TypeOK, BusesRight
  <2> QED BY <2>1, HeldIs, BusesAssumption, KindsAssumption, FS_CardinalityType
<1>2. CollectiveAlone
  BY <1>1 DEF NetInv, BusesRight, CollectiveAlone
<1>3. BusesConserved
  <2> SUFFICES ASSUME Idle, Buses > 0
               PROVE  /\ \A g \in Gops \ moving :
                            number[g] > 0 => queue # <<>> /\ Head(queue) = g
                      /\ curr = Cardinality(moving \cap Msgs)
                                  + Buses * Cardinality(moving \cap Gops) + Held
                      /\ curr <= Buses
    BY DEF BusesConserved
  <2>1. ~Freeing
    BY IdleIs
  <2>2. CASE (\E g \in Gops : moving = {g}) /\ curr = Buses /\ Held = 0
    <3>1. moving \cap Msgs = {} /\ \E g \in Gops : moving \cap Gops = {g}
      BY <1>1, <2>2
    <3>2. Cardinality(moving \cap Msgs) = 0 /\ Cardinality(moving \cap Gops) = 1
      BY <3>1, FS_EmptySet, FS_Singleton
    <3>3. Buses * 1 = Buses
      BY <1>1
    <3> QED BY <1>1, <2>2, <3>2, <3>3 DEF NetInv, BusesRight
  <2>3. CASE moving \subseteq Msgs /\ curr = Cardinality(moving) + Held
    <3>1. moving \cap Msgs = moving /\ moving \cap Gops = {}
      BY <1>1, <2>3
    <3>2. Cardinality(moving \cap Msgs) = Cardinality(moving) /\ Cardinality(moving \cap Gops) = 0
      BY <3>1, FS_EmptySet
    <3>3. Buses * 0 = 0
      BY <1>1
    <3> QED BY <1>1, <2>3, <3>2, <3>3 DEF NetInv, BusesRight
  <2> QED BY <1>1, <2>1, <2>2, <2>3 DEF NetInv, BusesRight, If
<1> QED BY <1>2, <1>3

LEMMA ResourcesFollow == NetInv => ResourcesConserved
<1> SUFFICES ASSUME NetInv PROVE ResourcesConserved
  OBVIOUS
<1>1. TypeOK /\ NeverAborts
  BY DEF NetInv, Typed, NeverAborts
<1>2. LinksConserved
  <2>1. \A n \in Nodes : owners[n] \in Seq(Msgs) /\ Once(owners[n]) /\ ToSet(owners[n]) = OutUsers(n)
    BY DEF NetInv, Typed, TypeOK, LinksRight
  <2>2. \A n \in Nodes : Len(owners[n]) = Cardinality(OutUsers(n))
    BY <2>1, OnceCounts
  <2> QED BY <2>1, <2>2 DEF NetInv, LinksRight, LinksConserved
<1>3. MovesWithLinks
  BY DEF NetInv, QueuesRight, MovesWithLinks, HasOut, HasIn
<1> QED BY <1>1, <1>2, <1>3, BusesFollow DEF ResourcesConserved

LEMMA NobodyFollows == NetInv => NobodyWaitsInVain
<1> SUFFICES ASSUME NetInv PROVE NobodyWaitsInVain
  OBVIOUS
<1>1. NobodyForgotten
  <2> SUFFICES ASSUME Idle, NEW x \in asked
               PROVE  Cardinality({n \in Nodes : Contains(thForOut[n], x)})
                        + Cardinality({n \in Nodes : Contains(thForIn[n], x)})
                        + If(Contains(queue, x), 1) + If(x \in moving, 1)
                        + If(x \in done, 1) = 1
    BY DEF NobodyForgotten
  <2> DEFINE Out == {n \in Nodes : Contains(thForOut[n], x)}
             In == {n \in Nodes : Contains(thForIn[n], x)}
             outs == x \in Msgs /\ x \in ToSet(thForOut[Src(x)])
             ins == x \in Msgs /\ x \in ToSet(thForIn[Dst(x)])
  <2>1. /\ \A n \in Nodes : Contains(thForOut[n], x) <=> x \in ToSet(thForOut[n])
        /\ \A n \in Nodes : Contains(thForIn[n], x) <=> x \in ToSet(thForIn[n])
        /\ \A n \in Nodes : ToSet(thForOut[n]) \subseteq Msgs /\ ToSet(thForIn[n]) \subseteq Msgs
        /\ Contains(queue, x) <=> x \in ToSet(queue)
    <3>1. /\ \A n \in Nodes : thForOut[n] \in Seq(Msgs) /\ thForIn[n] \in Seq(Msgs)
          /\ queue \in Seq(Users)
      BY DEF NetInv, Typed, TypeOK
    <3> QED BY <3>1, ElementsTyped DEF Contains, ToSet
  <2>2. x \in Msgs => Src(x) \in Nodes /\ Dst(x) \in Nodes
    BY NodesOf DEF NetInv
  <2>3. /\ \A n \in Nodes : x \in ToSet(thForOut[n]) => x \in Msgs /\ n = Src(x) /\ ~HasOut(x)
        /\ \A n \in Nodes : x \in ToSet(thForIn[n]) => x \in Msgs /\ n = Dst(x) /\ HasOut(x) /\ ~HasIn(x)
    BY <2>1 DEF NetInv, QueuesRight
  <2>4. Cardinality(Out) = IF outs THEN 1 ELSE 0
    <3>1. outs => Out = {Src(x)}
      BY <2>1, <2>2, <2>3
    <3>2. ~outs => Out = {}
      BY <2>1, <2>3
    <3> HIDE DEF Out, outs
    <3> QED BY <3>1, <3>2, FS_EmptySet, FS_Singleton
  <2>5. Cardinality(In) = IF ins THEN 1 ELSE 0
    <3>1. ins => In = {Dst(x)}
      BY <2>1, <2>2, <2>3
    <3>2. ~ins => In = {}
      BY <2>1, <2>3
    <3> HIDE DEF In, ins
    <3> QED BY <3>1, <3>2, FS_EmptySet, FS_Singleton
  <2>6. ~(outs /\ ins)
    BY <2>2, <2>3
  <2>7. (outs \/ ins) => x \notin ToSet(queue)
    BY <2>2, <2>3 DEF NetInv, QueuesRight
  <2>8. Waits(x) <=> outs \/ ins \/ x \in ToSet(queue)
    BY DEF Waits
  <2>9. /\ x \in moving \cup done => ~Waits(x)
        /\ ~(x \in moving /\ x \in done)
        /\ Waits(x) \/ x \in moving \cup done
    <3>1. ~Sent(x) /\ x \in Users
      BY IdleIs DEF NetInv, Typed, TypeOK
    <3> QED BY <3>1 DEF NetInv, Places
  <2> HIDE DEF Out, In, outs, ins
  <2>10. Cardinality(Out) + Cardinality(In) + If(x \in ToSet(queue), 1)
           + If(x \in moving, 1) + If(x \in done, 1) = 1
    BY <2>4, <2>5, <2>6, <2>7, <2>8, <2>9 DEF If
  <2>11. If(Contains(queue, x), 1) = If(x \in ToSet(queue), 1)
    BY <2>1 DEF If
  <2> QED BY <2>10, <2>11 DEF Out, In
<1>2. NoIdleResource
  <2> SUFFICES ASSUME Idle
               PROVE  /\ \A n \in Nodes : /\ thForOut[n] # <<>> => freeOut[n] = 0
                                          /\ thForIn[n] # <<>> => freeIn[n] = 0
                      /\ queue # <<>> => curr = Buses
    BY DEF NoIdleResource
  <2>1. \A n : ~WakingOut(n) /\ ~WakingIn(n)
    BY IdleIs DEF WakingOut, WakingIn
  <2> QED BY <2>1, IdleIs DEF NetInv, Woken
<1> QED BY <1>1, <1>2 DEF NobodyWaitsInVain

\* In a machine whose nodes all have links, or none of which has, the counters
\* of free links, the lists of links in use, the queues of those that wait and
\* the count of buses in use agree with who uses what after every call that a
\* handler makes; no ASSERT of LINKS_get_network_links fails, and no panic.
THEOREM ResourcesAreConserved ==
    ASSUME Uniform
    PROVE  Spec => []ResourcesConserved
<1>1. Spec => []NetInv
  BY NetInvHolds
<1> QED BY <1>1, ResourcesFollow, PTL

\* Between handlers, whoever called really_send or global_op_get_all_buses is
\* in just one queue, under way or over, and who is in a queue waits for links
\* or buses that are all in use: no wake-up is lost, through thefts and waits.
THEOREM NobodyIsForgotten ==
    ASSUME Uniform
    PROVE  Spec => []NobodyWaitsInVain
<1>1. Spec => []NetInv
  BY NetInvHolds
<1> QED BY <1>1, NobodyFollows, PTL
=============================================================================
