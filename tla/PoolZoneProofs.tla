--------------------------- MODULE PoolZoneProofs ---------------------------
(***************************************************************************)
(* Proofs about PoolZone, for any number of strings, zones and blocks: the *)
(* pointers of every chain and free queue lead to its last block, every    *)
(* block is in one place and comes back to its zone, and the first zone is *)
(* the pool of blocks that its strings see.                                *)
(***************************************************************************)
EXTENDS PoolZone, LinkedPtrQueueProofs, FiniteSetTheorems, FunctionTheorems

TypeInv ==
  /\ next \in [Blocks -> Blocks \cup {NULL}]
  /\ free \in [Zones -> [head : Blocks \cup {NULL}, tail : Blocks \cup {NULL}]]
  /\ fresh \in [Zones -> 0..BlockNum] /\ zone \in [Strings -> Zones]
  /\ head \in [Strings -> Blocks \cup {NULL}] /\ tail \in [Strings -> Blocks \cup {NULL}]
  /\ cursor \in [Strings -> Blocks \cup {NULL}]

\* Every chain and every free queue is one: linked_ptr_queue would hold its blocks.
Linked ==
  /\ \A s \in Strings : Holds(Line(s), OfString(s), Blocks)
  /\ \A z \in Zones : Holds(Queue(z), OfZone(z), Blocks)

IInv == TypeInv /\ Linked /\ BlocksComeHome

-----------------------------------------------------------------------------
(* Blocks and zones.                                                       *)

\* The blocks that zone z has made when there are f of them.
MadeBy(z, f) == {b \in Blocks : Home(b) = z /\ b <= z * BlockNum + f}

\* The next block that a zone makes is a new one, and its own.
LEMMA NewBlock ==
  ASSUME NEW z \in Zones, NEW f \in 0..BlockNum, f < BlockNum,
         NEW b, b = z * BlockNum + f + 1
  PROVE  /\ b \in Blocks /\ Home(b) = z
         /\ b \notin MadeBy(z, f) /\ MadeBy(z, f + 1) = MadeBy(z, f) \cup {b}
<1> DEFINE base == z * BlockNum
<1>1. z \in Nat /\ f \in Nat /\ BlockNum \in Nat \ {0} /\ ZoneNum \in Nat \ {0} /\ z + 1 <= ZoneNum
  BY ZoneAssumption DEF Zones
<1>2. base \in Nat
  BY <1>1
<1>3. base + BlockNum <= ZoneNum * BlockNum
  <2>1. (z + 1) * BlockNum = base + BlockNum
    BY <1>1
  <2>2. (z + 1) * BlockNum <= ZoneNum * BlockNum
    <3> DEFINE k == ZoneNum - (z + 1)
    <3>1. k \in Nat /\ ZoneNum = (z + 1) + k
      BY <1>1
    <3>2. k * BlockNum \in Nat
      BY <1>1, <3>1
    <3> HIDE DEF k
    <3>3. ZoneNum * BlockNum = (z + 1) * BlockNum + k * BlockNum
      BY <1>1, <3>1
    <3> QED
      BY <1>1, <3>2, <3>3
  <2> QED
    BY <2>1, <2>2
<1>4. (b - 1) \div BlockNum = z
  <2>1. b - 1 = z * BlockNum + f /\ 0 <= f /\ f < BlockNum
    BY <1>1, <1>2
  <2> QED
    BY <1>1, <2>1
<1> HIDE DEF base
<1>5. b \in Blocks /\ b = base + f + 1
  BY <1>1, <1>2, <1>3 DEF Blocks, base
<1>6. Home(b) = z
  BY <1>4 DEF Home
<1>7. ASSUME NEW c \in Blocks PROVE c <= base + (f + 1) <=> c <= base + f \/ c = b
  BY <1>1, <1>2, <1>5 DEF Blocks
<1>8. ~(b <= base + f)
  BY <1>1, <1>2, <1>5
<1> QED
  BY <1>5, <1>6, <1>7, <1>8 DEF MadeBy, base

\* A sequence of different blocks is not longer than there are blocks.
LEMMA ShortEnough ==
  ASSUME NEW q, NEW w, Holds(q, w, Blocks)
  PROVE  Len(w) \in Nat /\ Len(w) <= ZoneNum * BlockNum /\ ZoneNum * BlockNum \in Nat
<1> DEFINE m == ZoneNum * BlockNum
           n == Len(w)
<1>1. m \in Nat /\ Blocks = 1..m
  BY ZoneAssumption DEF Blocks
<1>2. w \in Seq(Blocks) /\ n \in Nat /\ w \in [1..n -> Blocks]
  BY DEF Holds
<1>3. \A i, j \in 1..n : w[i] = w[j] => i = j
  BY DEF Holds
<1> HIDE DEF m, n
<1>4. w \in Injection(1..n, 1..m)
  BY <1>1, <1>2, <1>3, Zenon DEF Injection, IsInjective
<1>5. n <= m
  BY <1>1, <1>2, <1>4, Fun_NatInjLeq DEF ExistsInjection
<1> QED
  BY <1>1, <1>2, <1>5 DEF m, n

-----------------------------------------------------------------------------
(* Queues and the sets of their blocks.                                    *)

\* What Holds says of the blocks of a queue, as a set.
LEMMA Members ==
  ASSUME NEW q, NEW w, Holds(q, w, Blocks)
  PROVE  /\ w \in Seq(Blocks) /\ Len(w) \in Nat /\ DOMAIN w = 1..Len(w)
         /\ \A b : b \in ElementsOf(w) <=> \E i \in 1..Len(w) : w[i] = b
         /\ ElementsOf(w) \subseteq Blocks /\ NULL \notin Blocks
         /\ w = << >> <=> q.head = NULL
         /\ w = << >> <=> q.tail = NULL
         /\ w # << >> => /\ q.head = w[1] /\ w[1] \in ElementsOf(w)
                         /\ q.tail = w[Len(w)] /\ w[Len(w)] \in ElementsOf(w)
<1>1. w \in Seq(Blocks) /\ Len(w) \in Nat /\ DOMAIN w = 1..Len(w) /\ NULL \notin Blocks
      /\ \A i \in 1..Len(w) : w[i] \in Blocks
  BY DEF Holds, QueueOver
<1>2. \A b : b \in ElementsOf(w) <=> \E i \in 1..Len(w) : w[i] = b
  BY <1>1 DEF ElementsOf
<1>3. w # << >> => 1 \in 1..Len(w) /\ Len(w) \in 1..Len(w)
  BY <1>1, EmptySeq
<1>4. /\ q.head = IF w = << >> THEN NULL ELSE w[1]
      /\ q.tail = IF w = << >> THEN NULL ELSE w[Len(w)]
  BY DEF Holds
<1>5. w # << >> => w[1] \in ElementsOf(w) /\ w[Len(w)] \in ElementsOf(w)
  BY <1>2, <1>3
<1> QED
  BY <1>1, <1>2, <1>3, <1>4, <1>5

\* What taking the first block and entering one or several do to the set.
LEMMA MembersAfter ==
  /\ ElementsOf(<< >>) = {}
  /\ \A w \in Seq(Blocks) : \A b \in Blocks : ElementsOf(Append(w, b)) = ElementsOf(w) \cup {b}
  /\ \A w \in Seq(Blocks), v \in Seq(Blocks) : ElementsOf(w \o v) = ElementsOf(w) \cup ElementsOf(v)
<1>1. ElementsOf(<< >>) = {}
  BY DEF ElementsOf
<1>2. ASSUME NEW w \in Seq(Blocks), NEW b \in Blocks
      PROVE  ElementsOf(Append(w, b)) = ElementsOf(w) \cup {b}
  <2> DEFINE v == Append(w, b)
             n == Len(w)
  <2>1. /\ n \in Nat /\ Len(v) = n + 1 /\ DOMAIN w = 1..n /\ DOMAIN v = 1..(n + 1)
        /\ \A i \in 1..n : v[i] = w[i]
        /\ v[n + 1] = b
    BY AppendProperties
  <2> HIDE DEF v, n
  <2>2. \A i \in 1..(n + 1) : i \in 1..n \/ i = n + 1
    BY <2>1
  <2>3. \A i \in 1..n : i \in 1..(n + 1)
    BY <2>1
  <2>4. n + 1 \in 1..(n + 1)
    BY <2>1
  <2>5. ElementsOf(v) = ElementsOf(w) \cup {b}
    BY <2>1, <2>2, <2>3, <2>4 DEF ElementsOf
  <2> QED
    BY <2>5 DEF v
<1>3. ASSUME NEW w \in Seq(Blocks), NEW v \in Seq(Blocks)
      PROVE  ElementsOf(w \o v) = ElementsOf(w) \cup ElementsOf(v)
  <2> DEFINE u == w \o v
             n == Len(w)
             m == Len(v)
  <2>1. /\ n \in Nat /\ m \in Nat /\ DOMAIN w = 1..n /\ DOMAIN v = 1..m /\ DOMAIN u = 1..(n + m)
        /\ \A i \in 1..(n + m) : u[i] = IF i <= n THEN w[i] ELSE v[i - n]
    BY ConcatProperties
  <2> HIDE DEF u, n, m
  <2>2. ASSUME NEW i \in 1..(n + m) PROVE u[i] \in ElementsOf(w) \cup ElementsOf(v)
    <3>1. CASE i <= n
      <4>1. i \in 1..n /\ u[i] = w[i]
        BY <2>1, <3>1
      <4> QED
        BY <2>1, <4>1 DEF ElementsOf
    <3>2. CASE ~(i <= n)
      <4>1. i - n \in 1..m /\ u[i] = v[i - n]
        BY <2>1, <3>2
      <4> QED
        BY <2>1, <4>1 DEF ElementsOf
    <3> QED
      BY <3>1, <3>2
  <2>3. ASSUME NEW i \in 1..n PROVE i \in 1..(n + m) /\ u[i] = w[i]
    <3>1. i \in 1..(n + m) /\ i <= n
      BY <2>1
    <3> QED
      BY <2>1, <3>1
  <2>4. ASSUME NEW i \in 1..m PROVE n + i \in 1..(n + m) /\ u[n + i] = v[i]
    <3>1. n + i \in 1..(n + m) /\ ~(n + i <= n) /\ (n + i) - n = i
      BY <2>1
    <3> QED
      BY <2>1, <3>1
  <2>5. ElementsOf(u) \subseteq ElementsOf(w) \cup ElementsOf(v)
    BY <2>1, <2>2 DEF ElementsOf
  <2>6. ElementsOf(w) \subseteq ElementsOf(u) /\ ElementsOf(v) \subseteq ElementsOf(u)
    <3>1. \A i \in DOMAIN w : w[i] \in ElementsOf(u)
      BY <2>1, <2>3 DEF ElementsOf
    <3>2. \A i \in DOMAIN v : v[i] \in ElementsOf(u)
      <4>1. ASSUME NEW i \in 1..m PROVE v[i] \in ElementsOf(u)
        <5>1. n + i \in DOMAIN u /\ u[n + i] = v[i]
          BY <2>1, <2>4
        <5> QED
          BY <5>1, Zenon DEF ElementsOf
      <4> QED
        BY <2>1, <4>1
    <3> QED
      BY <3>1, <3>2 DEF ElementsOf
  <2>7. ElementsOf(u) = ElementsOf(w) \cup ElementsOf(v)
    BY <2>5, <2>6
  <2> QED
    BY <2>7 DEF u
<1> QED
  BY <1>1, <1>2, <1>3

\* What taking the first block does to the set.
LEMMA MembersOfTail ==
  ASSUME NEW q, NEW w, Holds(q, w, Blocks), w # << >>
  PROVE  /\ Tail(w) \in Seq(Blocks) /\ Head(w) = w[1]
         /\ ElementsOf(Tail(w)) = ElementsOf(w) \ {w[1]}
<1> DEFINE v == Tail(w)
           n == Len(w)
<1>1. w \in Seq(Blocks) /\ n \in Nat \ {0} /\ DOMAIN w = 1..n
  BY Members, EmptySeq
<1>2. /\ v \in Seq(Blocks) /\ Len(v) = n - 1 /\ Head(w) = w[1]
      /\ \A i \in 1..(n - 1) : v[i] = w[i + 1]
  BY <1>1, HeadTailProperties
<1>3. \A i, j \in 1..n : w[i] = w[j] => i = j
  BY DEF Holds
<1>4. DOMAIN v = 1..(n - 1)
  BY <1>1, <1>2
<1> HIDE DEF v, n
<1>5. ASSUME NEW i \in 1..(n - 1) PROVE v[i] \in ElementsOf(w) \ {w[1]}
  <2>1. i + 1 \in 1..n /\ i + 1 # 1 /\ 1 \in 1..n
    BY <1>1
  <2>2. w[i + 1] # w[1]
    BY <1>3, <2>1
  <2> QED
    BY <1>1, <1>2, <2>1, <2>2 DEF ElementsOf
<1>6. ASSUME NEW i \in 1..n, w[i] # w[1] PROVE w[i] \in ElementsOf(v)
  <2>1. i - 1 \in 1..(n - 1) /\ (i - 1) + 1 = i
    BY <1>1, <1>6
  <2>2. v[i - 1] = w[i]
    BY <1>2, <2>1
  <2> QED
    BY <1>4, <2>1, <2>2 DEF ElementsOf
<1>7. ElementsOf(v) = ElementsOf(w) \ {w[1]}
  <2>1. ElementsOf(v) \subseteq ElementsOf(w) \ {w[1]}
    BY <1>4, <1>5 DEF ElementsOf
  <2>2. ElementsOf(w) \ {w[1]} \subseteq ElementsOf(v)
    BY <1>1, <1>6 DEF ElementsOf
  <2> QED
    BY <2>1, <2>2
<1> QED
  BY <1>2, <1>7 DEF v

\* A queue does not notice what is written to blocks outside.
LEMMA Elsewhere ==
  ASSUME NEW q, NEW w, Holds(q, w, Blocks), NEW r, QueueOver(r, Blocks),
         r.head = q.head, r.tail = q.tail,
         \A b \in ElementsOf(w) : r.next[b] = q.next[b]
  PROVE  Holds(r, w, Blocks)
<1>1. \A i \in 1..Len(w) : w[i] \in ElementsOf(w)
  BY Members
<1>2. \A i \in 1..Len(w) : r.next[w[i]] = IF i = Len(w) THEN NULL ELSE w[i + 1]
  BY <1>1 DEF Holds
<1> QED
  BY <1>2, Zenon DEF Holds

-----------------------------------------------------------------------------
(* Where the blocks are.                                                   *)

\* Each block that a zone made is in its free queue, whose blocks are Q[z], or
\* in the chain of a string, P[s], that uses it, once.
Placed(P, Q, user, made) ==
  \A z \in Zones :
    /\ \A b : b \in MadeBy(z, made[z]) <=>
                b \in Q[z] \/ \E s \in Strings : user[s] = z /\ b \in P[s]
    /\ \A s \in Strings : user[s] = z =>
         /\ P[s] \cap Q[z] = {}
         /\ \A t \in Strings \ {s} : user[t] = z => P[s] \cap P[t] = {}

\* The sets of blocks of the strings and of the free queues.
Parts == [s \in Strings |-> ElementsOf(OfString(s))]
Waits == [z \in Zones |-> ElementsOf(OfZone(z))]
AtHome == Placed(Parts, Waits, zone, fresh)

\* BlocksComeHome in terms of these sets.
LEMMA PlacedIs ==
  BlocksComeHome <=> AtHome
<1> DEFINE P == Parts
           Q == Waits
           users(z) == {s \in Strings : zone[s] = z}
           parts(z) == {OfZone(z)} \cup {OfString(s) : s \in users(z)}
           all(z) == {b \in Blocks : Home(b) = z /\ b <= z * BlockNum + fresh[z]}
           here(z, b) == b \in Q[z] \/ \E s \in Strings : zone[s] = z /\ b \in P[s]
<1>1. ASSUME NEW z \in Zones
      PROVE  \A b : b \in UNION {ElementsOf(q) : q \in parts(z)} <=> here(z, b)
  <2> HIDE DEF P, Q
  <2>1. \A b : b \in UNION {ElementsOf(q) : q \in parts(z)} <=> \E q \in parts(z) : b \in ElementsOf(q)
    OBVIOUS
  <2>2. \A b : (\E q \in parts(z) : b \in ElementsOf(q)) <=>
                 b \in ElementsOf(OfZone(z)) \/ \E s \in users(z) : b \in ElementsOf(OfString(s))
    OBVIOUS
  <2>3. Q[z] = ElementsOf(OfZone(z)) /\ \A s \in Strings : P[s] = ElementsOf(OfString(s))
    BY DEF P, Q, Parts, Waits
  <2> QED
    BY <2>1, <2>2, <2>3
<1>2. ASSUME NEW z \in Zones
      PROVE  UNION {ElementsOf(q) : q \in parts(z)} = all(z) <=> \A b : b \in all(z) <=> here(z, b)
  <2> DEFINE U == UNION {ElementsOf(q) : q \in parts(z)}
  <2>1. \A b : b \in U <=> here(z, b)
    BY <1>1
  <2> HIDE DEF U, all, here
  <2>2. U = all(z) <=> \A b : b \in U <=> b \in all(z)
    OBVIOUS
  <2> QED
    BY <2>1, <2>2 DEF U
<1>3. ASSUME NEW z \in Zones
      PROVE  (\A s \in users(z) :
               /\ ElementsOf(OfString(s)) \cap ElementsOf(OfZone(z)) = {}
               /\ \A t \in users(z) \ {s} :
                    ElementsOf(OfString(s)) \cap ElementsOf(OfString(t)) = {})
             <=> (\A s \in Strings : zone[s] = z =>
                   /\ P[s] \cap Q[z] = {}
                   /\ \A t \in Strings \ {s} : zone[t] = z => P[s] \cap P[t] = {})
  <2>1. Q[z] = ElementsOf(OfZone(z)) /\ \A s \in Strings : P[s] = ElementsOf(OfString(s))
    BY DEF Parts, Waits
  <2> HIDE DEF P, Q
  <2> QED
    BY <2>1
<1>4. \A z \in Zones : all(z) = MadeBy(z, fresh[z])
  BY DEF MadeBy
<1> HIDE DEF P, Q
<1>5. BlocksComeHome <=>
        \A z \in Zones :
          /\ UNION {ElementsOf(q) : q \in parts(z)} = all(z)
          /\ \A s \in users(z) :
               /\ ElementsOf(OfString(s)) \cap ElementsOf(OfZone(z)) = {}
               /\ \A t \in users(z) \ {s} :
                    ElementsOf(OfString(s)) \cap ElementsOf(OfString(t)) = {}
  BY DEF BlocksComeHome
<1> HIDE DEF users, parts, all
<1>6. BlocksComeHome <=>
        \A z \in Zones :
          /\ \A b : b \in MadeBy(z, fresh[z]) <=> here(z, b)
          /\ \A s \in Strings : zone[s] = z =>
               /\ P[s] \cap Q[z] = {}
               /\ \A t \in Strings \ {s} : zone[t] = z => P[s] \cap P[t] = {}
  BY <1>2, <1>3, <1>4, <1>5
<1> QED
  BY <1>6, Zenon DEF AtHome, Placed, P, Q, here

\* The same after a step.
LEMMA PlacedNext ==
  /\ BlocksComeHome' <=> Placed(Parts', Waits', zone', fresh')
  /\ Parts' = [s \in Strings |-> ElementsOf(OfString(s)')]
  /\ Waits' = [z \in Zones |-> ElementsOf(OfZone(z)')]
<1>1. (BlocksComeHome <=> AtHome)'
  BY PlacedIs, PTL
<1>2. AtHome' <=> Placed(Parts', Waits', zone', fresh')
  BY Zenon DEF AtHome, Placed, MadeBy
<1>3. Parts' = [s \in Strings |-> ElementsOf(OfString(s)')]
  BY DEF Parts, ElementsOf
<1>4. Waits' = [z \in Zones |-> ElementsOf(OfZone(z)')]
  BY DEF Waits, ElementsOf
<1> QED
  BY <1>1, <1>2, <1>3, <1>4

\* No block is in two places, of one zone or of two.
LEMMA PlacesApart ==
  ASSUME NEW P, NEW Q, NEW user \in [Strings -> Zones], NEW made, Placed(P, Q, user, made)
  PROVE  /\ \A s, t \in Strings : s # t => P[s] \cap P[t] = {}
         /\ \A s \in Strings, z \in Zones : P[s] \cap Q[z] = {}
         /\ \A y, z \in Zones : y # z => Q[y] \cap Q[z] = {}
<1>1. \A z \in Zones : \A b \in Q[z] : Home(b) = z
  BY DEF Placed, MadeBy
<1>2. \A s \in Strings : \A b \in P[s] : Home(b) = user[s]
  <2>1. ASSUME NEW s \in Strings, NEW b \in P[s] PROVE b \in MadeBy(user[s], made[user[s]])
    <3>1. user[s] \in Zones
      OBVIOUS
    <3> QED
      BY <3>1, Zenon DEF Placed
  <2> QED
    BY <2>1 DEF MadeBy
<1>3. ASSUME NEW s \in Strings, NEW t \in Strings, s # t PROVE P[s] \cap P[t] = {}
  <2>1. CASE user[s] = user[t]
    BY <1>3, <2>1 DEF Placed
  <2>2. CASE user[s] # user[t]
    BY <1>2, <2>2
  <2> QED
    BY <2>1, <2>2
<1>4. ASSUME NEW s \in Strings, NEW z \in Zones PROVE P[s] \cap Q[z] = {}
  <2>1. CASE user[s] = z
    BY <2>1 DEF Placed
  <2>2. CASE user[s] # z
    BY <1>1, <1>2, <2>2
  <2> QED
    BY <2>1, <2>2
<1>5. \A y, z \in Zones : y # z => Q[y] \cap Q[z] = {}
  BY <1>1
<1> QED
  BY <1>3, <1>4, <1>5

\* A string takes a block out of the free queue of its zone ...
LEMMA PlacedTake ==
  ASSUME NEW P, NEW Q, NEW user \in [Strings -> Zones], NEW made, Placed(P, Q, user, made),
         NEW s \in Strings, NEW b \in Q[user[s]], NEW P2, NEW Q2,
         P2[s] = P[s] \cup {b}, \A t \in Strings \ {s} : P2[t] = P[t],
         Q2[user[s]] = Q[user[s]] \ {b}, \A y \in Zones \ {user[s]} : Q2[y] = Q[y]
  PROVE  Placed(P2, Q2, user, made)
<1> DEFINE z == user[s]
<1>1. /\ \A r, t \in Strings : r # t => P[r] \cap P[t] = {}
      /\ \A r \in Strings, y \in Zones : P[r] \cap Q[y] = {}
  BY PlacesApart
<1>2. z \in Zones
  OBVIOUS
<1>3. ASSUME NEW y \in Zones, NEW c
      PROVE  c \in Q2[y] \/ (\E r \in Strings : user[r] = y /\ c \in P2[r]) <=>
             c \in Q[y] \/ \E r \in Strings : user[r] = y /\ c \in P[r]
  <2>1. CASE y = z
    BY <2>1
  <2>2. CASE y # z
    BY <2>2
  <2> QED
    BY <2>1, <2>2
<1>4. ASSUME NEW r \in Strings PROVE P2[r] \cap Q2[user[r]] = {}
  BY <1>1, <1>2
<1>5. ASSUME NEW r \in Strings, NEW t \in Strings \ {r} PROVE P2[r] \cap P2[t] = {}
  BY <1>1, <1>2
<1> QED
  BY <1>3, <1>4, <1>5 DEF Placed

\* ... or gives some of its blocks back ...
LEMMA PlacedGive ==
  ASSUME NEW P, NEW Q, NEW user \in [Strings -> Zones], NEW made, Placed(P, Q, user, made),
         NEW s \in Strings, NEW P2, NEW Q2,
         P2[s] \subseteq P[s], \A t \in Strings \ {s} : P2[t] = P[t],
         Q2[user[s]] = Q[user[s]] \cup (P[s] \ P2[s]), \A y \in Zones \ {user[s]} : Q2[y] = Q[y]
  PROVE  Placed(P2, Q2, user, made)
<1> DEFINE z == user[s]
<1>1. /\ \A r, t \in Strings : r # t => P[r] \cap P[t] = {}
      /\ \A r \in Strings, y \in Zones : P[r] \cap Q[y] = {}
  BY PlacesApart
<1>2. z \in Zones
  OBVIOUS
<1>3. ASSUME NEW y \in Zones, NEW c
      PROVE  c \in Q2[y] \/ (\E r \in Strings : user[r] = y /\ c \in P2[r]) <=>
             c \in Q[y] \/ \E r \in Strings : user[r] = y /\ c \in P[r]
  <2>1. CASE y = z
    BY <2>1
  <2>2. CASE y # z
    BY <2>2
  <2> QED
    BY <2>1, <2>2
<1>4. ASSUME NEW r \in Strings PROVE P2[r] \cap Q2[user[r]] = {}
  BY <1>1, <1>2
<1>5. ASSUME NEW r \in Strings, NEW t \in Strings \ {r} PROVE P2[r] \cap P2[t] = {}
  BY <1>1, <1>2
<1> QED
  BY <1>3, <1>4, <1>5 DEF Placed

\* ... or takes one that its zone has just made.
LEMMA PlacedMake ==
  ASSUME NEW P, NEW Q, NEW user \in [Strings -> Zones], NEW made, Placed(P, Q, user, made),
         NEW s \in Strings, NEW b, NEW P2, NEW made2,
         b \notin MadeBy(user[s], made[user[s]]), Home(b) = user[s],
         MadeBy(user[s], made2[user[s]]) = MadeBy(user[s], made[user[s]]) \cup {b},
         \A y \in Zones \ {user[s]} : made2[y] = made[y],
         P2[s] = P[s] \cup {b}, \A t \in Strings \ {s} : P2[t] = P[t]
  PROVE  /\ Placed(P2, Q, user, made2)
         /\ \A t \in Strings : b \notin P[t]
         /\ \A y \in Zones : b \notin Q[y]
<1> DEFINE z == user[s]
<1>1. /\ \A r, t \in Strings : r # t => P[r] \cap P[t] = {}
      /\ \A r \in Strings, y \in Zones : P[r] \cap Q[y] = {}
  BY PlacesApart
<1>2. z \in Zones
  OBVIOUS
<1>3. \A y \in Zones : b \notin MadeBy(y, made[y])
  BY DEF MadeBy
<1>4. \A y \in Zones : b \notin Q[y]
  BY <1>3, Zenon DEF Placed
<1>5. ASSUME NEW t \in Strings PROVE b \notin P[t]
  <2>1. user[t] \in Zones
    OBVIOUS
  <2> QED
    BY <1>3, <2>1, Zenon DEF Placed
<1>6. ASSUME NEW y \in Zones, NEW c
      PROVE  c \in MadeBy(y, made2[y]) <=> c \in Q[y] \/ \E r \in Strings : user[r] = y /\ c \in P2[r]
  <2>1. c \in MadeBy(y, made[y]) <=> c \in Q[y] \/ \E r \in Strings : user[r] = y /\ c \in P[r]
    BY DEF Placed
  <2>2. CASE y = z
    BY <2>1, <2>2
  <2>3. CASE y # z
    BY <2>1, <2>3
  <2> QED
    BY <2>2, <2>3
<1>7. ASSUME NEW r \in Strings PROVE P2[r] \cap Q[user[r]] = {}
  BY <1>1, <1>2, <1>4
<1>8. ASSUME NEW r \in Strings, NEW t \in Strings \ {r} PROVE P2[r] \cap P2[t] = {}
  BY <1>1, <1>5
<1> QED
  BY <1>4, <1>5, <1>6, <1>7, <1>8 DEF Placed

\* A string without blocks may go to another zone.
LEMMA PlacedMove ==
  ASSUME NEW P, NEW Q, NEW user \in [Strings -> Zones], NEW made, Placed(P, Q, user, made),
         NEW s \in Strings, P[s] = {}, NEW z \in Zones, NEW user2, user2 = [user EXCEPT ![s] = z]
  PROVE  Placed(P, Q, user2, made)
<1>1. /\ \A r, t \in Strings : r # t => P[r] \cap P[t] = {}
      /\ \A r \in Strings, y \in Zones : P[r] \cap Q[y] = {}
  BY PlacesApart
<1>2. user2[s] = z /\ \A t \in Strings \ {s} : user2[t] = user[t]
  OBVIOUS
<1>3. ASSUME NEW y \in Zones, NEW c
      PROVE  (\E r \in Strings : user2[r] = y /\ c \in P[r]) <=>
             \E r \in Strings : user[r] = y /\ c \in P[r]
  BY <1>2
<1> QED
  BY <1>1, <1>3 DEF Placed

-----------------------------------------------------------------------------
(* A step of one string, with the free queue of one zone.                  *)

\* The pointers and the memory of a chain and of a queue have their types.
LEMMA TypesOf ==
  TypeInv => /\ \A s \in Strings : QueueOver(Line(s), Blocks)
             /\ \A z \in Zones : QueueOver(Queue(z), Blocks)
<1> SUFFICES ASSUME TypeInv
             PROVE  /\ \A s \in Strings : QueueOver(Line(s), Blocks)
                    /\ \A z \in Zones : QueueOver(Queue(z), Blocks)
  OBVIOUS
<1>1. NULL \notin Blocks
  BY DEF NULL, Blocks
<1>2. ASSUME NEW s \in Strings PROVE QueueOver(Line(s), Blocks)
  BY <1>1 DEF TypeInv, Line, QueueOver
<1>3. ASSUME NEW z \in Zones PROVE QueueOver(Queue(z), Blocks)
  BY <1>1 DEF TypeInv, Queue, QueueOver
<1> QED
  BY <1>2, <1>3

\* The same after a step.
LEMMA TypesNext ==
  TypeInv' => /\ \A s \in Strings : QueueOver(Line(s)', Blocks)
              /\ \A z \in Zones : QueueOver(Queue(z)', Blocks)
<1>1. (TypeInv => /\ \A s \in Strings : QueueOver(Line(s), Blocks)
                  /\ \A z \in Zones : QueueOver(Queue(z), Blocks))'
  BY TypesOf, PTL
<1> QED
  BY <1>1, Zenon DEF QueueOver, Blocks

\* The others do not notice, if the step writes to no block of theirs.
LEMMA OneChange ==
  ASSUME IInv, TypeInv', NEW s \in Strings, NEW z \in Zones, NEW c, NEW w,
         Holds(Line(s)', c, Blocks), Holds(Queue(z)', w, Blocks),
         \A t \in Strings \ {s} : head'[t] = head[t] /\ tail'[t] = tail[t] /\ cursor'[t] = cursor[t],
         \A y \in Zones \ {z} : free'[y] = free[y],
         \A t \in Strings \ {s} : \A b \in Parts[t] : next'[b] = next[b],
         \A y \in Zones \ {z} : \A b \in Waits[y] : next'[b] = next[b]
  PROVE  /\ Linked' /\ OfZone(z)' = w
         /\ \A y \in Zones \ {z} : OfZone(y)' = OfZone(y)
         /\ Parts'[s] = ElementsOf(c) /\ \A t \in Strings \ {s} : Parts'[t] = Parts[t]
         /\ Waits'[z] = ElementsOf(w) /\ \A y \in Zones \ {z} : Waits'[y] = Waits[y]
<1>1. TypeInv /\ Linked
  BY DEF IInv
<1>2. /\ \A t \in Strings : QueueOver(Line(t)', Blocks)
      /\ \A y \in Zones : QueueOver(Queue(y)', Blocks)
  BY TypesNext
<1>3. /\ \A t \in Strings : Holds(Line(t), OfString(t), Blocks)
      /\ \A y \in Zones : Holds(Queue(y), OfZone(y), Blocks)
      /\ \A t \in Strings : Parts[t] = ElementsOf(OfString(t))
      /\ \A y \in Zones : Waits[y] = ElementsOf(OfZone(y))
  BY <1>1 DEF Linked, Parts, Waits
<1>4. ASSUME NEW t \in Strings \ {s} PROVE Holds(Line(t)', OfString(t), Blocks)
  <2>1. Line(t)'.head = Line(t).head /\ Line(t)'.tail = Line(t).tail
    BY DEF Line, Idle
  <2>2. Line(t)'.next = next' /\ Line(t).next = next
    BY DEF Line
  <2> QED
    BY <1>2, <1>3, <2>1, <2>2, Elsewhere
<1>5. ASSUME NEW y \in Zones \ {z} PROVE Holds(Queue(y)', OfZone(y), Blocks)
  <2>1. Queue(y)'.head = Queue(y).head /\ Queue(y)'.tail = Queue(y).tail
    BY DEF Queue
  <2>2. Queue(y)'.next = next' /\ Queue(y).next = next
    BY DEF Queue
  <2> QED
    BY <1>2, <1>3, <2>1, <2>2, Elsewhere
<1>6. ASSUME NEW t \in Strings, NEW d, Holds(Line(t)', d, Blocks) PROVE OfString(t)' = d
  <2>1. Chain(Line(t)', ZoneNum * BlockNum) = d
    BY <1>6, ShortEnough, ChainIs
  <2> QED
    BY <2>1 DEF OfString
<1>7. ASSUME NEW y \in Zones, NEW d, Holds(Queue(y)', d, Blocks) PROVE OfZone(y)' = d
  <2>1. Chain(Queue(y)', ZoneNum * BlockNum) = d
    BY <1>7, ShortEnough, ChainIs
  <2> QED
    BY <2>1 DEF OfZone
<1>8. OfString(s)' = c /\ \A t \in Strings \ {s} : OfString(t)' = OfString(t)
  BY <1>4, <1>6
<1>9. OfZone(z)' = w /\ \A y \in Zones \ {z} : OfZone(y)' = OfZone(y)
  BY <1>5, <1>7
<1>10. Linked'
  <2>1. \A t \in Strings : Holds(Line(t)', OfString(t)', Blocks)
    BY <1>4, <1>8
  <2>2. \A y \in Zones : Holds(Queue(y)', OfZone(y)', Blocks)
    BY <1>5, <1>9
  <2> QED
    BY <2>1, <2>2, Zenon DEF Linked, Holds, QueueOver, Blocks
<1> QED
  BY <1>3, <1>8, <1>9, <1>10, PlacedNext

-----------------------------------------------------------------------------
(* The operations.                                                         *)

\* What IInv says of the queues of a string and of a zone.
LEMMA InvIs ==
  ASSUME IInv
  PROVE  /\ \A s \in Strings : /\ Holds(Line(s), OfString(s), Blocks)
                               /\ Parts[s] = ElementsOf(OfString(s)) /\ zone[s] \in Zones
         /\ \A z \in Zones : /\ Holds(Queue(z), OfZone(z), Blocks)
                             /\ Waits[z] = ElementsOf(OfZone(z)) /\ fresh[z] \in 0..BlockNum
         /\ Placed(Parts, Waits, zone, fresh) /\ zone \in [Strings -> Zones]
         /\ \A s, t \in Strings : s # t => Parts[s] \cap Parts[t] = {}
         /\ \A s \in Strings, z \in Zones : Parts[s] \cap Waits[z] = {}
         /\ \A y, z \in Zones : y # z => Waits[y] \cap Waits[z] = {}
<1>1. TypeInv /\ Linked /\ AtHome
  BY PlacedIs DEF IInv
<1>2. Placed(Parts, Waits, zone, fresh) /\ zone \in [Strings -> Zones]
  BY <1>1 DEF AtHome, TypeInv
<1>3. \A z \in Zones : fresh[z] \in 0..BlockNum
  BY <1>1 DEF TypeInv
<1> QED
  BY <1>1, <1>2, <1>3, PlacesApart DEF Linked, Parts, Waits

\* One block goes from zone z to string s: it waited there longest, or is new.
TakesOld(z, b) ==
  /\ OfZone(z) # << >> /\ b = Head(OfZone(z)) /\ OfZone(z)' = Tail(OfZone(z))
  /\ fresh' = fresh
TakesNew(z, b) ==
  /\ OfZone(z) = << >> /\ OfZone(z)' = << >>
  /\ fresh[z] < BlockNum /\ b = z * BlockNum + fresh[z] + 1
  /\ fresh' = [fresh EXCEPT ![z] = @ + 1]
Takes(s, z, b) ==
  /\ z = zone[s] /\ (TakesOld(z, b) \/ TakesNew(z, b))
  /\ \A y \in Zones \ {z} : OfZone(y)' = OfZone(y)
  /\ Parts'[s] = Parts[s] \cup {b}
  /\ \A t \in Strings \ {s} : Parts'[t] = Parts[t]
  /\ zone' = zone

\* What Allocate gives is not in the chain of a string.
LEMMA AllocateIs ==
  ASSUME IInv, NEW z \in Zones, NEW b \in Blocks, Allocate(z, b)
  PROVE  /\ \A t \in Strings : b \notin Parts[t]
         /\ \A y \in Zones \ {z} : b \notin Waits[y]
         /\ free' \in [Zones -> [head : Blocks \cup {NULL}, tail : Blocks \cup {NULL}]]
         /\ fresh' \in [Zones -> 0..BlockNum]
         /\ \A y \in Zones \ {z} : free'[y] = free[y]
         /\ \/ /\ OfZone(z) # << >> /\ b = OfZone(z)[1] /\ fresh' = fresh
               /\ free'[z].head = RemoveHead(Queue(z)).head
               /\ free'[z].tail = RemoveHead(Queue(z)).tail
            \/ /\ OfZone(z) = << >> /\ free' = free /\ fresh[z] < BlockNum
               /\ b = z * BlockNum + fresh[z] + 1 /\ fresh' = [fresh EXCEPT ![z] = @ + 1]
<1>1. /\ Holds(Queue(z), OfZone(z), Blocks) /\ Waits[z] = ElementsOf(OfZone(z))
      /\ Placed(Parts, Waits, zone, fresh) /\ fresh[z] \in 0..BlockNum
  BY InvIs
<1>2. /\ \A t \in Strings, y \in Zones : Parts[t] \cap Waits[y] = {}
      /\ \A y \in Zones : y # z => Waits[y] \cap Waits[z] = {}
  BY InvIs
<1>3. Queue(z).head = free[z].head /\ Queue(z).tail = free[z].tail /\ Queue(z).next = next
  BY DEF Queue
<1>4. TypeInv
  BY DEF IInv
<1>5. CASE free[z].head # NULL
  <2> DEFINE r == RemoveHead(Queue(z))
  <2>1. b = free[z].head /\ free' = [free EXCEPT ![z] = Ends(r)] /\ fresh' = fresh
    BY <1>5 DEF Allocate
  <2>2. OfZone(z) # << >> /\ b = OfZone(z)[1] /\ b \in Waits[z]
    BY <1>1, <1>3, <1>5, <2>1, Members
  <2>3. QueueOver(r, Blocks)
    BY <1>1, <2>2, RemoveHeadHolds DEF Holds
  <2> HIDE DEF r
  <2>4. Ends(r) \in [head : Blocks \cup {NULL}, tail : Blocks \cup {NULL}]
        /\ Ends(r).head = r.head /\ Ends(r).tail = r.tail
    BY <2>3 DEF Ends, QueueOver
  <2>5. /\ free' \in [Zones -> [head : Blocks \cup {NULL}, tail : Blocks \cup {NULL}]]
        /\ free'[z] = Ends(r) /\ \A y \in Zones \ {z} : free'[y] = free[y]
    BY <1>4, <2>1, <2>4 DEF TypeInv
  <2>6. (\A t \in Strings : b \notin Parts[t]) /\ \A y \in Zones \ {z} : b \notin Waits[y]
    BY <1>2, <2>2
  <2>7. fresh' \in [Zones -> 0..BlockNum]
    BY <1>4, <2>1 DEF TypeInv
  <2> QED
    BY <2>1, <2>2, <2>4, <2>5, <2>6, <2>7 DEF r
<1>6. CASE free[z].head = NULL
  <2>1. /\ fresh[z] < BlockNum /\ b = z * BlockNum + fresh[z] + 1
        /\ fresh' = [fresh EXCEPT ![z] = @ + 1] /\ free' = free
    BY <1>6 DEF Allocate
  <2>2. OfZone(z) = << >>
    BY <1>1, <1>3, <1>6, Members
  <2>3. Home(b) = z /\ b \notin MadeBy(z, fresh[z])
    BY <1>1, <2>1, NewBlock
  <2>4. \A y \in Zones : b \notin MadeBy(y, fresh[y])
    BY <2>3 DEF MadeBy
  <2>5. \A y \in Zones : b \notin Waits[y]
    BY <1>1, <2>4, Zenon DEF Placed
  <2>6. ASSUME NEW t \in Strings PROVE b \notin Parts[t]
    <3>1. zone[t] \in Zones
      BY InvIs
    <3> QED
      BY <1>1, <2>4, <3>1, Zenon DEF Placed
  <2>7. fresh[z] + 1 \in 0..BlockNum
    BY <1>1, <2>1, ZoneAssumption
  <2>8. fresh' \in [Zones -> 0..BlockNum] /\ free' \in [Zones -> [head : Blocks \cup {NULL}, tail : Blocks \cup {NULL}]]
    BY <1>4, <2>1, <2>7 DEF TypeInv
  <2> QED
    BY <2>1, <2>2, <2>5, <2>6, <2>8
<1> QED
  BY <1>5, <1>6

\* ensure_first_block and append put the block behind the chain of the string.
LEMMA TakeStep ==
  ASSUME IInv, NEW s \in Strings, NEW z \in Zones, z = zone[s],
         EnsureFirstBlock(s) \/ Extend(s)
  PROVE  IInv' /\ \E b \in Blocks : Takes(s, z, b)
<1> DEFINE c == OfString(s)
           w == OfZone(z)
<1>1. PICK b \in Blocks :
        /\ Allocate(z, b) /\ Idle(s) /\ cursor' = cursor /\ zone' = zone
        /\ tail' = [tail EXCEPT ![s] = b]
        /\ \/ /\ head[s] = NULL /\ head' = [head EXCEPT ![s] = b]
              /\ next' = [next EXCEPT ![b] = NULL]
           \/ /\ head[s] # NULL /\ head' = head
              /\ next' = [next EXCEPT ![b] = NULL, ![tail[s]] = b]
  BY DEF EnsureFirstBlock, Extend
<1>2. /\ Holds(Line(s), c, Blocks) /\ Holds(Queue(z), w, Blocks) /\ z \in Zones
      /\ Parts[s] = ElementsOf(c) /\ Waits[z] = ElementsOf(w)
      /\ Placed(Parts, Waits, zone, fresh) /\ zone \in [Strings -> Zones]
      /\ fresh[z] \in 0..BlockNum
  BY InvIs
<1>3. /\ \A t \in Strings : t # s => Parts[s] \cap Parts[t] = {}
      /\ \A y \in Zones : Parts[s] \cap Waits[y] = {}
  BY InvIs
<1>4. TypeInv /\ NULL \notin Blocks
  BY DEF IInv, NULL, Blocks
<1>5. Line(s).head = head[s] /\ Line(s).tail = tail[s] /\ Line(s).next = next
  BY <1>1 DEF Line
<1>6. /\ c = << >> <=> head[s] = NULL
      /\ c = << >> <=> tail[s] = NULL
      /\ tail[s] # NULL => tail[s] \in Parts[s]
      /\ c \in Seq(Blocks) /\ Parts[s] \subseteq Blocks
  BY <1>2, <1>5, Members
<1> HIDE DEF c, w
<1>7. /\ \A t \in Strings : b \notin Parts[t]
      /\ \A y \in Zones \ {z} : b \notin Waits[y]
      /\ free' \in [Zones -> [head : Blocks \cup {NULL}, tail : Blocks \cup {NULL}]]
      /\ fresh' \in [Zones -> 0..BlockNum]
      /\ \A y \in Zones \ {z} : free'[y] = free[y]
      /\ \/ /\ w # << >> /\ b = w[1] /\ fresh' = fresh
            /\ free'[z].head = RemoveHead(Queue(z)).head
            /\ free'[z].tail = RemoveHead(Queue(z)).tail
         \/ /\ w = << >> /\ free' = free /\ fresh[z] < BlockNum
            /\ b = z * BlockNum + fresh[z] + 1 /\ fresh' = [fresh EXCEPT ![z] = @ + 1]
  BY <1>1, <1>2, AllocateIs DEF w
<1>8. /\ next' \in [Blocks -> Blocks \cup {NULL}]
      /\ \A m \in Blocks : next'[m] = IF m = b THEN NULL ELSE IF m = tail[s] THEN b ELSE next[m]
  <2>1. b # tail[s]
    BY <1>4, <1>6, <1>7
  <2>2. next \in [Blocks -> Blocks \cup {NULL}]
    BY <1>4 DEF TypeInv
  <2>3. CASE head[s] = NULL
    BY <1>1, <1>4, <1>6, <2>2, <2>3
  <2>4. CASE head[s] # NULL
    <3>1. tail[s] \in Blocks /\ next' = [next EXCEPT ![b] = NULL, ![tail[s]] = b]
      BY <1>1, <1>6, <2>4
    <3> QED
      BY <2>1, <2>2, <3>1
  <2> QED
    BY <2>3, <2>4
<1>9. TypeInv'
  <2>1. /\ head' \in [Strings -> Blocks \cup {NULL}] /\ tail' \in [Strings -> Blocks \cup {NULL}]
        /\ cursor' \in [Strings -> Blocks \cup {NULL}] /\ zone' \in [Strings -> Zones]
    BY <1>1, <1>4 DEF TypeInv
  <2> QED
    BY <1>7, <1>8, <2>1, Zenon DEF TypeInv, Zones, Blocks
<1>10. Holds(Line(s)', Append(c, b), Blocks)
  <2> DEFINE q == AddTail(Line(s), b)
             r == Line(s)'
  <2>1. Holds(q, Append(c, b), Blocks)
    <3>1. \A i \in 1..Len(c) : c[i] # b
      BY <1>2, <1>7, Members
    <3> QED
      BY <1>2, <3>1, AddTailHolds
  <2>2. /\ q.head = IF tail[s] = NULL THEN b ELSE head[s]
        /\ q.tail = b
        /\ \A m \in Blocks : q.next[m] = IF m = b THEN NULL ELSE IF m = tail[s] THEN b ELSE next[m]
    BY <1>4, <1>5 DEF AddTail, TypeInv
  <2>3. r.head = head'[s] /\ r.tail = tail'[s] /\ r.next = next'
    BY <1>1 DEF Line, Idle
  <2>4. head'[s] = (IF tail[s] = NULL THEN b ELSE head[s]) /\ tail'[s] = b
    BY <1>1, <1>4, <1>6 DEF TypeInv
  <2>5. QueueOver(r, Blocks)
    BY <1>9, TypesNext
  <2>6. ElementsOf(Append(c, b)) \subseteq Blocks
    BY <2>1, Members
  <2> HIDE DEF q, r
  <2>7. r.head = q.head /\ r.tail = q.tail /\ \A m \in Blocks : r.next[m] = q.next[m]
    BY <1>8, <2>2, <2>3, <2>4
  <2>8. Holds(r, Append(c, b), Blocks)
    BY <2>1, <2>5, <2>6, <2>7, Elsewhere
  <2> QED
    BY <2>8 DEF r
<1>11. \A m \in Blocks : m # b /\ m \notin Parts[s] => next'[m] = next[m]
  BY <1>4, <1>6, <1>8
<1>12. /\ \A t \in Strings \ {s} : \A m \in Parts[t] : next'[m] = next[m]
       /\ \A y \in Zones \ {z} : \A m \in Waits[y] : next'[m] = next[m]
  <2>1. /\ \A t \in Strings : Parts[t] \subseteq Blocks
        /\ \A y \in Zones : Waits[y] \subseteq Blocks
    BY InvIs, Members
  <2> QED
    BY <1>3, <1>7, <1>11, <2>1
<1>13. ElementsOf(Append(c, b)) = Parts[s] \cup {b}
  BY <1>2, <1>6, MembersAfter
<1> DEFINE d == Append(c, b)
<1> HIDE DEF d
<1>14. /\ Holds(Line(s)', d, Blocks) /\ ElementsOf(d) = Parts[s] \cup {b}
       /\ \A t \in Strings \ {s} : head'[t] = head[t] /\ tail'[t] = tail[t] /\ cursor'[t] = cursor[t]
       /\ \A y \in Zones \ {z} : free'[y] = free[y]
  BY <1>1, <1>4, <1>7, <1>10, <1>13 DEF TypeInv, d
<1>15. Queue(z)'.head = free'[z].head /\ Queue(z)'.tail = free'[z].tail /\ Queue(z)'.next = next'
  BY DEF Queue
<1>16. QueueOver(Queue(z)', Blocks)
  BY <1>9, TypesNext
<1>17. CASE /\ w # << >> /\ b = w[1] /\ fresh' = fresh
            /\ free'[z].head = RemoveHead(Queue(z)).head
            /\ free'[z].tail = RemoveHead(Queue(z)).tail
  <2> DEFINE q == RemoveHead(Queue(z))
             v == Tail(w)
  <2>1. Holds(q, v, Blocks) /\ ElementsOf(v) = Waits[z] \ {b} /\ b = Head(w) /\ b \in Waits[z]
    BY <1>2, <1>17, RemoveHeadHolds, MembersOfTail, Members
  <2>2. q.next = next
    BY DEF RemoveHead, Queue
  <2>3. ElementsOf(v) \subseteq Blocks
    BY <2>1, Members
  <2> HIDE DEF q, v
  <2>4. Holds(Queue(z)', v, Blocks)
    <3>1. \A m \in ElementsOf(v) : next'[m] = next[m]
      BY <1>2, <1>3, <1>11, <2>1, <2>3
    <3>2. q.head = free'[z].head /\ q.tail = free'[z].tail
      BY <1>17 DEF q
    <3> QED
      BY <1>15, <1>16, <2>1, <2>2, <3>1, <3>2, Elsewhere
  <2>5. /\ Linked' /\ OfZone(z)' = v
        /\ \A y \in Zones \ {z} : OfZone(y)' = OfZone(y)
        /\ Parts'[s] = Parts[s] \cup {b} /\ \A t \in Strings \ {s} : Parts'[t] = Parts[t]
        /\ Waits'[z] = Waits[z] \ {b} /\ \A y \in Zones \ {z} : Waits'[y] = Waits[y]
    BY <1>2, <1>9, <1>12, <1>14, <2>1, <2>4, OneChange
  <2>6. Placed(Parts', Waits', zone, fresh)
    BY <1>2, <2>1, <2>5, PlacedTake
  <2>7. BlocksComeHome'
    BY <1>1, <1>17, <2>6, PlacedNext
  <2>8. TakesOld(z, b)
    BY <1>17, <2>1, <2>5 DEF TakesOld, w, v
  <2> QED
    BY <1>1, <1>9, <2>5, <2>7, <2>8 DEF IInv, Takes
<1>18. CASE /\ w = << >> /\ free' = free /\ fresh[z] < BlockNum
            /\ b = z * BlockNum + fresh[z] + 1 /\ fresh' = [fresh EXCEPT ![z] = @ + 1]
  <2>1. Waits[z] = {}
    BY <1>2, <1>18, MembersAfter
  <2>2. Holds(Queue(z)', w, Blocks)
    <3>1. Queue(z).head = free[z].head /\ Queue(z).tail = free[z].tail
      BY DEF Queue
    <3>2. \A m \in ElementsOf(w) : next'[m] = Queue(z).next[m]
      BY <1>2, <2>1
    <3> QED
      BY <1>2, <1>15, <1>16, <1>18, <3>1, <3>2, Elsewhere
  <2>3. /\ Linked' /\ OfZone(z)' = w
        /\ \A y \in Zones \ {z} : OfZone(y)' = OfZone(y)
        /\ Parts'[s] = Parts[s] \cup {b} /\ \A t \in Strings \ {s} : Parts'[t] = Parts[t]
        /\ Waits'[z] = Waits[z] /\ \A y \in Zones \ {z} : Waits'[y] = Waits[y]
    BY <1>2, <1>9, <1>12, <1>14, <2>2, OneChange, SMTT(30)
  <2>4. Waits' = Waits
    BY <2>3, PlacedNext DEF Waits
  <2>5. fresh'[z] = fresh[z] + 1 /\ \A y \in Zones \ {z} : fresh'[y] = fresh[y]
    BY <1>2, <1>4, <1>18 DEF TypeInv
  <2>6. /\ Home(b) = z /\ b \notin MadeBy(z, fresh[z])
        /\ MadeBy(z, fresh'[z]) = MadeBy(z, fresh[z]) \cup {b}
    BY <1>2, <1>18, <2>5, NewBlock
  <2>7. Placed(Parts', Waits, zone, fresh')
    BY <1>2, <2>3, <2>5, <2>6, PlacedMake
  <2>8. BlocksComeHome'
    BY <1>1, <2>4, <2>7, PlacedNext
  <2>9. TakesNew(z, b)
    BY <1>18, <2>3 DEF TakesNew, w
  <2> QED
    BY <1>1, <1>9, <2>3, <2>8, <2>9 DEF IInv, Takes
<1> QED
  BY <1>7, <1>17, <1>18

\* Blocks go from string s back to its zone, in this order, behind those that
\* wait there; a string that has none left may change its zone.
Gives(s, z, back) ==
  /\ z \in Zones /\ z = zone[s]
  /\ back \in Seq(Blocks) /\ \A i, j \in 1..Len(back) : back[i] = back[j] => i = j
  /\ ElementsOf(back) \subseteq Parts[s]
  /\ OfZone(z)' = OfZone(z) \o back
  /\ \A y \in Zones \ {z} : OfZone(y)' = OfZone(y)
  /\ Parts'[s] = Parts[s] \ ElementsOf(back)
  /\ \A t \in Strings \ {s} : Parts'[t] = Parts[t] /\ zone'[t] = zone[t]
  /\ zone'[s] = zone[s] \/ Parts'[s] = {}
  /\ fresh' = fresh

\* A call that moves no block, and writes to none.
LEMMA NothingMoves ==
  ASSUME IInv, TypeInv', next' = next, free' = free, fresh' = fresh,
         NEW s \in Strings, NEW y \in Zones, y = zone[s],
         \A t \in Strings : Line(t)'.head = Line(t).head /\ Line(t)'.tail = Line(t).tail,
         zone' = zone \/ (OfString(s) = << >> /\ \E z \in Zones : zone' = [zone EXCEPT ![s] = z])
  PROVE  IInv' /\ Gives(s, y, << >>)
<1>1. ASSUME NEW t \in Strings PROVE Line(t)' = Line(t)
  BY DEF Line
<1>2. ASSUME NEW x \in Zones PROVE Queue(x)' = Queue(x)
  BY DEF Queue
<1>3. /\ \A t \in Strings : OfString(t)' = OfString(t)
      /\ \A x \in Zones : OfZone(x)' = OfZone(x)
  BY <1>1, <1>2 DEF OfString, OfZone
<1>4. Linked'
  <2>1. /\ \A t \in Strings : Holds(Line(t)', OfString(t)', Blocks)
        /\ \A x \in Zones : Holds(Queue(x)', OfZone(x)', Blocks)
    BY <1>1, <1>2, <1>3, InvIs
  <2> QED
    BY <2>1, Zenon DEF Linked, Holds, QueueOver, Blocks
<1>5. Parts' = Parts /\ Waits' = Waits
  BY <1>3, PlacedNext DEF Parts, Waits
<1>6. /\ Placed(Parts, Waits, zone, fresh) /\ zone \in [Strings -> Zones]
      /\ Parts[s] = ElementsOf(OfString(s))
  BY InvIs
<1>7. ElementsOf(<< >>) = {}
  BY MembersAfter
<1>8. Placed(Parts, Waits, zone', fresh) /\ (zone'[s] = zone[s] \/ Parts[s] = {})
      /\ \A t \in Strings \ {s} : zone'[t] = zone[t]
  <2>1. CASE zone' = zone
    BY <1>6, <2>1
  <2>2. CASE OfString(s) = << >> /\ \E z \in Zones : zone' = [zone EXCEPT ![s] = z]
    <3>1. PICK z \in Zones : zone' = [zone EXCEPT ![s] = z]
      BY <2>2
    <3>2. Parts[s] = {}
      BY <1>6, <1>7, <2>2
    <3>3. Placed(Parts, Waits, zone', fresh)
      BY <1>6, <3>1, <3>2, PlacedMove
    <3> QED
      BY <1>6, <3>1, <3>2, <3>3
  <2> QED
    BY <2>1, <2>2
<1>9. BlocksComeHome'
  BY <1>5, <1>8, PlacedNext
<1>10. \A x \in Zones : OfZone(x)' = OfZone(x) \o << >>
  <2>1. \A x \in Zones : OfZone(x) \in Seq(Blocks)
    BY InvIs, Members
  <2> QED
    BY <1>3, <2>1
<1>11. << >> \in Seq(Blocks) /\ \A i, j \in 1..Len(<< >>) : << >>[i] = << >>[j] => i = j
  OBVIOUS
<1>12. zone[s] \in Zones
  BY <1>6
<1>13. Gives(s, y, << >>)
  BY <1>3, <1>5, <1>7, <1>8, <1>10, <1>11, <1>12 DEF Gives
<1> QED
  BY <1>4, <1>9, <1>13 DEF IInv

\* Blocks that leave the chain of a string and enter the queue of its zone: back
\* are these, c those that stay.
Giving(s, z, back, c) ==
  /\ z = zone[s] /\ fresh' = fresh
  /\ back \in Seq(Blocks) /\ \A i, j \in 1..Len(back) : back[i] = back[j] => i = j
  /\ Holds(Line(s)', c, Blocks) /\ Holds(Queue(z)', OfZone(z) \o back, Blocks)
  /\ ElementsOf(back) \subseteq Parts[s] /\ ElementsOf(c) = Parts[s] \ ElementsOf(back)
  /\ \A t \in Strings \ {s} : head'[t] = head[t] /\ tail'[t] = tail[t] /\ cursor'[t] = cursor[t]
  /\ \A y \in Zones \ {z} : free'[y] = free[y]
  /\ \A b \in Blocks : b \notin Parts[s] /\ b \notin Waits[z] => next'[b] = next[b]
  /\ zone' = zone \/ (c = << >> /\ \E y \in Zones : zone' = [zone EXCEPT ![s] = y])

\* The others do not notice that, and each block is still in one place.
LEMMA Given ==
  ASSUME IInv, TypeInv', NEW s \in Strings, NEW z \in Zones, NEW c, NEW back,
         Giving(s, z, back, c)
  PROVE  IInv' /\ Gives(s, z, back)
<1> DEFINE w == OfZone(z)
<1>1. /\ Placed(Parts, Waits, zone, fresh) /\ zone \in [Strings -> Zones]
      /\ w \in Seq(Blocks) /\ Waits[z] = ElementsOf(w)
      /\ \A t \in Strings : Parts[t] \subseteq Blocks
      /\ \A y \in Zones : Waits[y] \subseteq Blocks
  BY InvIs, Members
<1>2. /\ \A t \in Strings \ {s} : Parts[s] \cap Parts[t] = {}
      /\ \A t \in Strings, y \in Zones : Parts[t] \cap Waits[y] = {}
      /\ \A y \in Zones \ {z} : Waits[y] \cap Waits[z] = {}
  BY InvIs
<1>3. /\ \A t \in Strings \ {s} : \A b \in Parts[t] : next'[b] = next[b]
      /\ \A y \in Zones \ {z} : \A b \in Waits[y] : next'[b] = next[b]
  BY <1>1, <1>2 DEF Giving
<1>4. /\ Linked' /\ OfZone(z)' = w \o back
      /\ \A y \in Zones \ {z} : OfZone(y)' = OfZone(y)
      /\ Parts'[s] = ElementsOf(c) /\ \A t \in Strings \ {s} : Parts'[t] = Parts[t]
      /\ Waits'[z] = ElementsOf(w \o back) /\ \A y \in Zones \ {z} : Waits'[y] = Waits[y]
  <2> DEFINE u == w \o back
  <2>1. /\ Holds(Line(s)', c, Blocks) /\ Holds(Queue(z)', u, Blocks)
        /\ \A t \in Strings \ {s} : head'[t] = head[t] /\ tail'[t] = tail[t] /\ cursor'[t] = cursor[t]
        /\ \A y \in Zones \ {z} : free'[y] = free[y]
    BY DEF Giving
  <2> HIDE DEF w, u
  <2>2. /\ Linked' /\ OfZone(z)' = u
        /\ \A y \in Zones \ {z} : OfZone(y)' = OfZone(y)
        /\ Parts'[s] = ElementsOf(c) /\ \A t \in Strings \ {s} : Parts'[t] = Parts[t]
        /\ Waits'[z] = ElementsOf(u) /\ \A y \in Zones \ {z} : Waits'[y] = Waits[y]
    BY <1>3, <2>1, OneChange
  <2> QED
    BY <2>2 DEF u
<1>5. Waits'[z] = Waits[z] \cup ElementsOf(back)
  BY <1>1, <1>4, MembersAfter DEF Giving
<1> HIDE DEF w
<1>6. Placed(Parts', Waits', zone, fresh)
  <2>0. Placed(Parts, Waits, zone, fresh) /\ zone \in [Strings -> Zones]
    BY <1>1
  <2>1. PICK P : P = Parts'
    OBVIOUS
  <2>2. PICK Q : Q = Waits'
    OBVIOUS
  <2>3. zone[s] = z
    BY DEF Giving
  <2>4. /\ P[s] \subseteq Parts[s] /\ \A t \in Strings \ {s} : P[t] = Parts[t]
        /\ Q[zone[s]] = Waits[zone[s]] \cup (Parts[s] \ P[s])
        /\ \A y \in Zones \ {zone[s]} : Q[y] = Waits[y]
    BY <1>4, <1>5, <2>1, <2>2, <2>3 DEF Giving
  <2>5. Placed(P, Q, zone, fresh)
    BY <2>0, <2>3, <2>4, PlacedGive
  <2> QED
    BY <2>1, <2>2, <2>5
<1>7. Placed(Parts', Waits', zone', fresh) /\ (zone'[s] = zone[s] \/ Parts'[s] = {})
      /\ \A t \in Strings \ {s} : zone'[t] = zone[t]
  <2>0. zone' = zone \/ (c = << >> /\ \E y \in Zones : zone' = [zone EXCEPT ![s] = y])
    BY DEF Giving
  <2>1. CASE zone' = zone
    BY <1>6, <2>1
  <2>2. CASE c = << >> /\ \E y \in Zones : zone' = [zone EXCEPT ![s] = y]
    <3>1. PICK y \in Zones : zone' = [zone EXCEPT ![s] = y]
      BY <2>2
    <3>2. Parts'[s] = {}
      BY <1>4, <2>2, MembersAfter
    <3>3. PICK P : P = Parts'
      OBVIOUS
    <3>4. PICK Q : Q = Waits'
      OBVIOUS
    <3>5. Placed(P, Q, zone', fresh)
      BY <1>1, <1>6, <3>1, <3>2, <3>3, <3>4, PlacedMove
    <3> QED
      BY <1>1, <3>1, <3>2, <3>3, <3>4, <3>5
  <2> QED
    BY <2>0, <2>1, <2>2
<1>8. BlocksComeHome'
  BY <1>7, PlacedNext DEF Giving
<1>9. Gives(s, z, back)
  BY <1>4, <1>7 DEF Gives, Giving, w
<1> QED
  BY <1>4, <1>8, <1>9 DEF IInv

\* pop_lambda returns the first block it has not returned yet.
LEMMA PopBlockStep ==
  ASSUME IInv, NEW s \in Strings, NEW z \in Zones, z = zone[s], PopBlock(s)
  PROVE  IInv' /\ \E back : Gives(s, z, back)
<1> DEFINE c == OfString(s)
           w == OfZone(z)
           v == Tail(c)
           q == AddTail(Queue(z), cursor[s])
<1>1. /\ cursor[s] # NULL /\ next[cursor[s]] # NULL
      /\ cursor' = [cursor EXCEPT ![s] = next[cursor[s]]]
      /\ free' = [free EXCEPT ![z] = Ends(q)] /\ next' = q.next
      /\ fresh' = fresh /\ zone' = zone /\ head' = head /\ tail' = tail
  BY DEF PopBlock, Idle, Return
<1>2. PICK b : b = cursor[s]
  OBVIOUS
<1>3. TypeInv /\ NULL \notin Blocks
  BY DEF IInv, NULL, Blocks
<1>4. b \in Blocks /\ next[b] \in Blocks /\ next \in [Blocks -> Blocks \cup {NULL}]
  BY <1>1, <1>2, <1>3 DEF TypeInv
<1>5. /\ Holds(Line(s), c, Blocks) /\ Holds(Queue(z), w, Blocks)
      /\ Parts[s] = ElementsOf(c) /\ Waits[z] = ElementsOf(w) /\ Parts[s] \cap Waits[z] = {}
  BY InvIs
<1>6. Line(s).head = b /\ Line(s).tail = tail[s] /\ Line(s).next = next
  BY <1>1, <1>2 DEF Line, Idle
<1>7. /\ c # << >> /\ b = c[1] /\ b \in Parts[s] /\ Parts[s] \subseteq Blocks
      /\ \A i \in 1..Len(w) : w[i] \in Waits[z]
  BY <1>3, <1>4, <1>5, <1>6, Members
<1> HIDE DEF c, w
<1>8. /\ Holds(RemoveHead(Line(s)), v, Blocks) /\ ElementsOf(v) = Parts[s] \ {b}
      /\ v \in Seq(Blocks)
  BY <1>5, <1>7, RemoveHeadHolds, MembersOfTail
<1> HIDE DEF v
<1>9. Holds(q, Append(w, b), Blocks)
  <2>1. \A i \in 1..Len(w) : w[i] # b
    BY <1>5, <1>7
  <2> QED
    BY <1>2, <1>4, <1>5, <2>1, AddTailHolds
<1>10. \A m \in Blocks : q.next[m] = IF m = b THEN NULL ELSE IF m = free[z].tail THEN b ELSE next[m]
  BY <1>2, <1>4 DEF AddTail, Queue
<1>11. QueueOver(q, Blocks)
  BY <1>9 DEF Holds
<1> HIDE DEF q
<1>12. /\ Ends(q) \in [head : Blocks \cup {NULL}, tail : Blocks \cup {NULL}]
       /\ Ends(q).head = q.head /\ Ends(q).tail = q.tail
       /\ q.next \in [Blocks -> Blocks \cup {NULL}]
  BY <1>11 DEF Ends, QueueOver
<1>13. /\ free' \in [Zones -> [head : Blocks \cup {NULL}, tail : Blocks \cup {NULL}]]
       /\ free'[z] = Ends(q) /\ \A y \in Zones \ {z} : free'[y] = free[y]
  BY <1>1, <1>3, <1>12 DEF TypeInv
<1>14. /\ cursor' \in [Strings -> Blocks \cup {NULL}] /\ cursor'[s] = next[b]
       /\ \A t \in Strings \ {s} : cursor'[t] = cursor[t]
  BY <1>1, <1>2, <1>3, <1>4 DEF TypeInv
<1>15. TypeInv'
  <2>1. /\ next' \in [Blocks -> Blocks \cup {NULL}] /\ fresh' \in [Zones -> 0..BlockNum]
        /\ zone' \in [Strings -> Zones]
        /\ head' \in [Strings -> Blocks \cup {NULL}] /\ tail' \in [Strings -> Blocks \cup {NULL}]
    BY <1>1, <1>3, <1>12 DEF TypeInv
  <2> QED
    BY <1>13, <1>14, <2>1, Zenon DEF TypeInv, Zones, Blocks
<1>16. Holds(Queue(z)', Append(w, b), Blocks)
  <2>1. Queue(z)'.head = q.head /\ Queue(z)'.tail = q.tail /\ Queue(z)'.next = q.next
    BY <1>1, <1>12, <1>13 DEF Queue
  <2>2. QueueOver(Queue(z)', Blocks)
    BY <1>15, TypesNext
  <2> QED
    BY <1>9, <2>1, <2>2, Elsewhere
<1>17. free[z].tail # NULL => free[z].tail \in Waits[z]
  <2>1. Queue(z).tail = free[z].tail
    BY DEF Queue
  <2> QED
    BY <1>5, <2>1, Members
<1>18. \A m \in Blocks : m # b /\ m \notin Waits[z] => next'[m] = next[m]
  BY <1>1, <1>3, <1>10, <1>17
<1>19. Holds(Line(s)', v, Blocks)
  <2> DEFINE r == RemoveHead(Line(s))
             p == Line(s)'
  <2>1. QueueOver(p, Blocks)
    BY <1>15, TypesNext
  <2>2. p.head = next[b] /\ p.tail = tail[s] /\ p.next = next'
    BY <1>1, <1>3, <1>4, <1>14 DEF Line, Idle
  <2>3. r.head = next[b] /\ r.tail = tail[s] /\ r.next = next
    BY <1>3, <1>4, <1>6 DEF RemoveHead, Line
  <2>4. \A m \in ElementsOf(v) : next'[m] = next[m]
    BY <1>5, <1>7, <1>8, <1>18
  <2> HIDE DEF p, r
  <2>5. Holds(p, v, Blocks)
    BY <1>8, <2>1, <2>2, <2>3, <2>4, Elsewhere DEF r
  <2> QED
    BY <2>5 DEF p
<1> DEFINE back == << b >>
<1>20. /\ back \in Seq(Blocks) /\ \A i, j \in 1..Len(back) : back[i] = back[j] => i = j
       /\ ElementsOf(back) = {b} /\ w \o back = Append(w, b)
  <2>1. w \in Seq(Blocks) /\ ElementsOf(<< >>) = {} /\ back = Append(<< >>, b) /\ << >> \in Seq(Blocks)
    BY <1>5, Members, MembersAfter
  <2>2. ElementsOf(Append(<< >>, b)) = ElementsOf(<< >>) \cup {b}
    BY <1>4, <2>1, MembersAfter
  <2>3. ElementsOf(back) = {b}
    BY <2>1, <2>2
  <2>4. back \in Seq(Blocks) /\ Len(back) = 1 /\ w \o back = Append(w, b)
    BY <1>4, <2>1
  <2> QED
    BY <2>3, <2>4
<1> HIDE DEF back
<1>21. Giving(s, z, back, v)
  <2>1. Holds(Queue(z)', OfZone(z) \o back, Blocks)
    BY <1>16, <1>20 DEF w
  <2>2. /\ ElementsOf(back) \subseteq Parts[s] /\ ElementsOf(v) = Parts[s] \ ElementsOf(back)
    BY <1>7, <1>8, <1>20
  <2>3. \A m \in Blocks : m \notin Parts[s] /\ m \notin Waits[z] => next'[m] = next[m]
    BY <1>7, <1>18
  <2>4. \A t \in Strings \ {s} : head'[t] = head[t] /\ tail'[t] = tail[t] /\ cursor'[t] = cursor[t]
    BY <1>1, <1>14
  <2> QED
    BY <1>1, <1>13, <1>19, <1>20, <2>1, <2>2, <2>3, <2>4 DEF Giving
<1> QED
  BY <1>15, <1>21, Given

\* clear and use_zone of a string with blocks return the whole chain.
LEMMA FreeBlocksStep ==
  ASSUME IInv, NEW s \in Strings, NEW z \in Zones, z = zone[s], Idle(s), head[s] # NULL,
         FreeBlocks(s, z), fresh' = fresh, cursor' = cursor,
         zone' = zone \/ \E y \in Zones : zone' = [zone EXCEPT ![s] = y]
  PROVE  IInv' /\ \E back : Gives(s, z, back)
<1> DEFINE c == OfString(s)
           w == OfZone(z)
           q == AddQueue(Queue(z), head[s], tail[s])
<1>1. /\ free' = [free EXCEPT ![z] = Ends(q)] /\ next' = q.next
      /\ head' = [head EXCEPT ![s] = NULL] /\ tail' = [tail EXCEPT ![s] = NULL]
  BY DEF FreeBlocks, Return
<1>2. TypeInv /\ NULL \notin Blocks
  BY DEF IInv, NULL, Blocks
<1>3. /\ Holds(Line(s), c, Blocks) /\ Holds(Queue(z), w, Blocks)
      /\ Parts[s] = ElementsOf(c) /\ Waits[z] = ElementsOf(w) /\ Parts[s] \cap Waits[z] = {}
  BY InvIs
<1>4. Line(s).head = head[s] /\ Line(s).tail = tail[s] /\ Line(s).next = next /\ Queue(z).next = next
  BY DEF Line, Queue
<1>5. /\ c # << >> /\ head[s] = c[1] /\ tail[s] = c[Len(c)] /\ c \in Seq(Blocks) /\ w \in Seq(Blocks)
      /\ \A i \in 1..Len(c) : c[i] \in Parts[s]
      /\ \A i \in 1..Len(w) : w[i] \in Waits[z]
  BY <1>3, <1>4, Members
<1> HIDE DEF c, w
<1>6. /\ \A i, j \in 1..Len(c) : c[i] = c[j] => i = j
      /\ \A i \in 1..Len(c) : next[c[i]] = IF i = Len(c) THEN NULL ELSE c[i + 1]
  BY <1>3, <1>4 DEF Holds
<1>7. Holds(q, w \o c, Blocks)
  <2>1. \A i \in 1..Len(w), j \in 1..Len(c) : w[i] # c[j]
    BY <1>3, <1>5
  <2> QED
    BY <1>3, <1>4, <1>5, <1>6, <2>1, AddQueueHolds
<1>8. \A m \in Blocks : q.next[m] = IF m = free[z].tail THEN head[s] ELSE next[m]
  BY <1>2 DEF AddQueue, Queue, TypeInv
<1>9. QueueOver(q, Blocks)
  BY <1>7 DEF Holds
<1> HIDE DEF q
<1>10. /\ Ends(q) \in [head : Blocks \cup {NULL}, tail : Blocks \cup {NULL}]
       /\ Ends(q).head = q.head /\ Ends(q).tail = q.tail
       /\ q.next \in [Blocks -> Blocks \cup {NULL}]
  BY <1>9 DEF Ends, QueueOver
<1>11. /\ free' \in [Zones -> [head : Blocks \cup {NULL}, tail : Blocks \cup {NULL}]]
       /\ free'[z] = Ends(q) /\ \A y \in Zones \ {z} : free'[y] = free[y]
  BY <1>1, <1>2, <1>10 DEF TypeInv
<1>12. TypeInv'
  <2>1. /\ next' \in [Blocks -> Blocks \cup {NULL}] /\ fresh' \in [Zones -> 0..BlockNum]
        /\ zone' \in [Strings -> Zones] /\ cursor' \in [Strings -> Blocks \cup {NULL}]
    BY <1>1, <1>2, <1>10 DEF TypeInv
  <2>2. /\ head' \in [Strings -> Blocks \cup {NULL}] /\ tail' \in [Strings -> Blocks \cup {NULL}]
    BY <1>1, <1>2 DEF TypeInv
  <2> QED
    BY <1>11, <2>1, <2>2, Zenon DEF TypeInv, Zones, Blocks
<1>13. Holds(Queue(z)', w \o c, Blocks)
  <2>1. Queue(z)'.head = q.head /\ Queue(z)'.tail = q.tail /\ Queue(z)'.next = q.next
    BY <1>1, <1>10, <1>11 DEF Queue
  <2>2. QueueOver(Queue(z)', Blocks)
    BY <1>12, TypesNext
  <2> DEFINE u == w \o c
  <2> HIDE DEF u
  <2>3. Holds(q, u, Blocks)
    BY <1>7 DEF u
  <2>4. Holds(Queue(z)', u, Blocks)
    BY <2>1, <2>2, <2>3, Elsewhere
  <2> QED
    BY <2>4 DEF u
<1>14. Holds(Line(s)', << >>, Blocks)
  <2>1. QueueOver(Line(s)', Blocks)
    BY <1>12, TypesNext
  <2>2. Line(s)'.head = NULL /\ Line(s)'.tail = NULL
    BY <1>1, <1>2 DEF Line, Idle, TypeInv
  <2> QED
    BY <2>1, <2>2 DEF Holds
<1>15. free[z].tail # NULL => free[z].tail \in Waits[z]
  <2>1. Queue(z).tail = free[z].tail
    BY DEF Queue
  <2> QED
    BY <1>3, <2>1, Members
<1>16. \A m \in Blocks : m \notin Parts[s] /\ m \notin Waits[z] => next'[m] = next[m]
  BY <1>1, <1>2, <1>8, <1>15
<1>17. Giving(s, z, c, << >>)
  <2>1. Holds(Queue(z)', OfZone(z) \o c, Blocks)
    BY <1>13 DEF w
  <2>2. ElementsOf(c) \subseteq Parts[s] /\ ElementsOf(<< >>) = Parts[s] \ ElementsOf(c)
    BY <1>3, MembersAfter
  <2>3. \A t \in Strings \ {s} : head'[t] = head[t] /\ tail'[t] = tail[t] /\ cursor'[t] = cursor[t]
    BY <1>1, <1>2 DEF TypeInv
  <2> QED
    BY <1>5, <1>6, <1>11, <1>14, <1>16, <2>1, <2>2, <2>3 DEF Giving
<1> QED
  BY <1>12, <1>17, Given

\* The calls that return blocks, and those that move none.
LEMMA GiveStep ==
  ASSUME IInv, NEW s \in Strings, NEW z \in Zones, z = zone[s],
         \/ Pop(s) \/ PopBlock(s) \/ PopEnd(s) \/ Clear(s)
         \/ \E y \in Zones : UseZone(s, y)
  PROVE  IInv' /\ \E back : Gives(s, z, back)
<1>1. TypeInv /\ Holds(Line(s), OfString(s), Blocks)
  BY InvIs DEF IInv
<1>2. CASE Pop(s) \/ PopEnd(s)
  <2>1. /\ next' = next /\ free' = free /\ fresh' = fresh /\ zone' = zone /\ tail' = tail
        /\ \/ cursor[s] = NULL /\ head[s] # NULL
              /\ cursor' = [cursor EXCEPT ![s] = head[s]] /\ head' = head
           \/ cursor[s] # NULL
              /\ head' = [head EXCEPT ![s] = cursor[s]] /\ cursor' = [cursor EXCEPT ![s] = NULL]
    BY <1>2 DEF Pop, PopEnd, Idle
  <2>2. /\ head' \in [Strings -> Blocks \cup {NULL}] /\ cursor' \in [Strings -> Blocks \cup {NULL}]
    BY <1>1, <2>1 DEF TypeInv
  <2>3. TypeInv'
    <3>1. /\ next' \in [Blocks -> Blocks \cup {NULL}] /\ fresh' \in [Zones -> 0..BlockNum]
          /\ free' \in [Zones -> [head : Blocks \cup {NULL}, tail : Blocks \cup {NULL}]]
          /\ zone' \in [Strings -> Zones] /\ tail' \in [Strings -> Blocks \cup {NULL}]
      BY <1>1, <2>1 DEF TypeInv
    <3> QED
      BY <2>2, <3>1, Zenon DEF TypeInv, Zones, Blocks
  <2>4. ASSUME NEW t \in Strings
        PROVE  Line(t)'.head = Line(t).head /\ Line(t)'.tail = Line(t).tail
    BY <1>1, <2>1 DEF Line, Idle, TypeInv
  <2> QED
    BY <2>1, <2>3, <2>4, NothingMoves
<1>3. CASE PopBlock(s)
  BY <1>3, PopBlockStep
<1>4. CASE Clear(s)
  <2>1. /\ Idle(s) /\ head[s] # NULL /\ FreeBlocks(s, z)
        /\ fresh' = fresh /\ zone' = zone /\ cursor' = cursor
    BY <1>4 DEF Clear
  <2> QED
    BY <2>1, FreeBlocksStep
<1>5. CASE \E y \in Zones : UseZone(s, y)
  <2>1. PICK y \in Zones : /\ Idle(s) /\ zone' = [zone EXCEPT ![s] = y]
                           /\ fresh' = fresh /\ cursor' = cursor
                           /\ IF head[s] # NULL THEN FreeBlocks(s, z)
                              ELSE UNCHANGED <<next, free, head, tail>>
    BY <1>5 DEF UseZone
  <2>2. CASE head[s] # NULL
    BY <2>1, <2>2, FreeBlocksStep
  <2>3. CASE head[s] = NULL
    <3>1. next' = next /\ free' = free /\ head' = head /\ tail' = tail
      BY <2>1, <2>3
    <3>2. OfString(s) = << >>
      <4>1. Line(s).head = NULL
        BY <2>1, <2>3 DEF Line
      <4> QED
        BY <1>1, <4>1, Members
    <3>3. TypeInv'
      BY <1>1, <2>1, <3>1 DEF TypeInv, Zones, Blocks
    <3>4. ASSUME NEW t \in Strings
          PROVE  Line(t)'.head = Line(t).head /\ Line(t)'.tail = Line(t).tail
      BY <2>1, <3>1 DEF Line, Idle
    <3>5. zone' = zone \/ (OfString(s) = << >> /\ \E x \in Zones : zone' = [zone EXCEPT ![s] = x])
      BY <2>1, <3>2
    <3> QED
      BY <2>1, <3>1, <3>3, <3>4, <3>5, NothingMoves
  <2> QED
    BY <2>2, <2>3
<1> QED
  BY <1>2, <1>3, <1>4, <1>5

\* At the start there is no block anywhere.
LEMMA InitHolds ==
  Init => IInv /\ OfZone(0) = << >> /\ \A s \in Strings : Parts[s] = {}
<1> SUFFICES ASSUME Init
             PROVE  IInv /\ OfZone(0) = << >> /\ \A s \in Strings : Parts[s] = {}
  OBVIOUS
<1>1. BlockNum \in Nat /\ 0 \in Zones
  BY ZoneAssumption DEF Zones
<1>2. TypeInv
  BY <1>1 DEF Init, TypeInv
<1>3. ASSUME NEW q, QueueOver(q, Blocks), q.head = NULL, q.tail = NULL
      PROVE  Holds(q, << >>, Blocks) /\ Chain(q, ZoneNum * BlockNum) = << >>
  <2>1. Holds(q, << >>, Blocks)
    BY <1>3 DEF Holds
  <2> QED
    BY <2>1, ShortEnough, ChainIs
<1>4. ASSUME NEW s \in Strings PROVE Holds(Line(s), << >>, Blocks) /\ OfString(s) = << >>
  <2>1. Line(s).head = NULL /\ Line(s).tail = NULL
    BY DEF Init, Line, Idle
  <2> QED
    BY <1>2, <1>3, <2>1, TypesOf DEF OfString
<1>5. ASSUME NEW z \in Zones PROVE Holds(Queue(z), << >>, Blocks) /\ OfZone(z) = << >>
  <2>1. Queue(z).head = NULL /\ Queue(z).tail = NULL
    BY DEF Init, Queue
  <2> QED
    BY <1>2, <1>3, <2>1, TypesOf DEF OfZone
<1>6. Linked
  BY <1>4, <1>5 DEF Linked
<1>7. (\A s \in Strings : Parts[s] = {}) /\ \A z \in Zones : Waits[z] = {}
  BY <1>4, <1>5, MembersAfter DEF Parts, Waits
<1>8. ASSUME NEW z \in Zones PROVE MadeBy(z, 0) = {}
  <2>1. ASSUME NEW b \in Blocks, Home(b) = z, b <= z * BlockNum + 0 PROVE FALSE
    <3> DEFINE d == b - 1
    <3>1. BlockNum \in Nat \ {0} /\ d \in Nat /\ z \in Nat
      BY ZoneAssumption DEF Blocks, Zones
    <3>2. z = d \div BlockNum
      BY <2>1 DEF Home
    <3>3. d < z * BlockNum
      <4>1. z * BlockNum \in Nat
        BY <3>1
      <4> QED
        BY <2>1, <3>1, <4>1 DEF Blocks
    <3> HIDE DEF d
    <3>4. BlockNum * (d \div BlockNum) <= d
      BY <3>1
    <3>5. BlockNum * z <= d /\ BlockNum * z = z * BlockNum /\ z * BlockNum \in Nat
      BY <3>1, <3>2, <3>4
    <3> QED
      BY <3>1, <3>3, <3>5
  <2> QED
    BY <2>1 DEF MadeBy
<1>9. \A z \in Zones : fresh[z] = 0
  BY DEF Init
<1>10. BlocksComeHome
  BY <1>7, <1>8, <1>9, PlacedIs DEF AtHome, Placed
<1> QED
  BY <1>1, <1>2, <1>5, <1>6, <1>7, <1>10 DEF IInv

\* A step takes a block, or gives some back, in some order; none to give too.
LEMMA StepHolds ==
  ASSUME IInv, [Next]_vars
  PROVE  /\ IInv'
         /\ \/ \E s \in Strings, z \in Zones, b \in Blocks : Takes(s, z, b)
            \/ \E s \in Strings, z \in Zones : \E back : Gives(s, z, back)
            \/ UNCHANGED vars
<1>1. CASE UNCHANGED vars
  <2>1. /\ \A t \in Strings : OfString(t)' = OfString(t) /\ Line(t)' = Line(t)
        /\ \A y \in Zones : OfZone(y)' = OfZone(y) /\ Queue(y)' = Queue(y)
    BY <1>1 DEF vars, OfString, OfZone, Line, Queue, Idle
  <2>2. TypeInv'
    BY <1>1 DEF IInv, vars, TypeInv, Zones, Blocks
  <2>3. Linked'
    <3>1. /\ \A t \in Strings : Holds(Line(t)', OfString(t)', Blocks)
          /\ \A y \in Zones : Holds(Queue(y)', OfZone(y)', Blocks)
      BY <2>1, InvIs
    <3> QED
      BY <3>1, Zenon DEF Linked, Holds, QueueOver, Blocks
  <2>4. BlocksComeHome'
    <3>1. Parts' = Parts /\ Waits' = Waits
      BY <2>1, PlacedNext DEF Parts, Waits
    <3>2. Placed(Parts, Waits, zone, fresh) /\ zone' = zone /\ fresh' = fresh
      BY <1>1, InvIs DEF vars
    <3> QED
      BY <3>1, <3>2, PlacedNext
  <2> QED
    BY <1>1, <2>2, <2>3, <2>4 DEF IInv
<1>2. CASE Next
  <2>1. PICK s \in Strings :
          \/ EnsureFirstBlock(s) \/ Extend(s)
          \/ Pop(s) \/ PopBlock(s) \/ PopEnd(s) \/ Clear(s) \/ \E z \in Zones : UseZone(s, z)
    BY <1>2 DEF Next
  <2>2. PICK z \in Zones : z = zone[s]
    BY InvIs
  <2>3. CASE EnsureFirstBlock(s) \/ Extend(s)
    BY <2>2, <2>3, TakeStep
  <2>4. CASE \/ Pop(s) \/ PopBlock(s) \/ PopEnd(s) \/ Clear(s) \/ \E y \in Zones : UseZone(s, y)
    BY <2>2, <2>4, GiveStep
  <2> QED
    BY <2>1, <2>3, <2>4
<1> QED
  BY <1>1, <1>2

-----------------------------------------------------------------------------
(* The first zone as a pool.                                               *)

\* The blocks that its strings have.
Objects == UNION {ElementsOf(OfString(s)) : s \in {t \in Strings : zone[t] = 0}}

\* They are the blocks in the chains of the strings that use it.
LEMMA ObjectsAre ==
  \A b : b \in Objects <=> \E s \in Strings : zone[s] = 0 /\ b \in Parts[s]
<1>1. \A s \in Strings : Parts[s] = ElementsOf(OfString(s))
  BY DEF Parts
<1> QED
  BY <1>1 DEF Objects

\* The same after a step.
LEMMA ObjectsNext ==
  \A b : b \in Objects' <=> \E s \in Strings : zone'[s] = 0 /\ b \in Parts'[s]
<1>1. (\A b : b \in Objects <=> \E s \in Strings : zone[s] = 0 /\ b \in Parts[s])'
  BY ObjectsAre, PTL
<1> QED
  BY <1>1

\* The pool's variables are waiting, objects and made, and a batch is one block.
LEMMA PoolIs ==
  /\ OfZone(0) = << >> /\ Objects = {} /\ fresh[0] = 0 => Pool!Init
  /\ /\ OfZone(0) # << >> /\ Objects' = Objects \cup {Head(OfZone(0))}
     /\ OfZone(0)' = Tail(OfZone(0)) /\ fresh'[0] = fresh[0]
     => Pool!Take
  /\ /\ OfZone(0) = << >> /\ fresh[0] + 1 <= BlockNum
     /\ fresh[0] \in Nat /\ BlockNum \in Nat /\ fresh'[0] = fresh[0] + 1
     /\ Objects' = Objects \cup {fresh[0] + 1} /\ OfZone(0)' = << >>
     => Pool!TakeNew
  /\ /\ Objects' \subseteq Objects
     /\ \E back \in Pool!SetToSeqs(Objects \ Objects') : OfZone(0)' = OfZone(0) \o back
     /\ fresh'[0] = fresh[0]
     => Pool!Return
  /\ OfZone(0)' = OfZone(0) /\ Objects' = Objects /\ fresh'[0] = fresh[0]
     => UNCHANGED Pool!vars
<1>1. OfZone(0) = << >> /\ Objects = {} /\ fresh[0] = 0 => Pool!Init
  BY DEF Pool!Init, Objects
<1>2. /\ OfZone(0) # << >> /\ Objects' = Objects \cup {Head(OfZone(0))}
      /\ OfZone(0)' = Tail(OfZone(0)) /\ fresh'[0] = fresh[0]
      => Pool!Take
  BY Zenon DEF Pool!Take, Objects
<1>3. /\ OfZone(0) = << >> /\ fresh[0] + 1 <= BlockNum
      /\ fresh[0] \in Nat /\ BlockNum \in Nat /\ fresh'[0] = fresh[0] + 1
      /\ Objects' = Objects \cup {fresh[0] + 1} /\ OfZone(0)' = << >>
      => Pool!TakeNew
  <2> SUFFICES ASSUME OfZone(0) = << >>, fresh[0] + 1 <= BlockNum,
                      fresh[0] \in Nat, BlockNum \in Nat, fresh'[0] = fresh[0] + 1,
                      Objects' = Objects \cup {fresh[0] + 1}, OfZone(0)' = << >>
               PROVE  Pool!TakeNew
    OBVIOUS
  <2>1. (fresh[0] + 1) * 1 <= BlockNum /\ fresh[0] * 1 + 1 = fresh[0] + 1
    OBVIOUS
  <2>2. [i \in 1..(1 - 1) |-> fresh[0] * 1 + 1 + i] = << >>
    OBVIOUS
  <2>3. OfZone(0)' = [i \in 1..(1 - 1) |-> fresh[0] * 1 + 1 + i]
    BY <2>2
  <2>4. Objects' = Objects \cup {fresh[0] * 1 + 1}
    BY <2>1
  <2> QED
    BY <2>1, <2>3, <2>4, Zenon DEF Pool!TakeNew, Objects
<1>4. /\ Objects' \subseteq Objects
      /\ \E back \in Pool!SetToSeqs(Objects \ Objects') : OfZone(0)' = OfZone(0) \o back
      /\ fresh'[0] = fresh[0]
      => Pool!Return
  BY Zenon DEF Pool!Return, Objects
<1>5. OfZone(0)' = OfZone(0) /\ Objects' = Objects /\ fresh'[0] = fresh[0]
      => UNCHANGED Pool!vars
  BY Zenon DEF Pool!vars, Objects
<1> QED
  BY <1>1, <1>2, <1>3, <1>4, <1>5

\* A sequence of different blocks is an order of its elements.
LEMMA AnOrder ==
  ASSUME NEW back \in Seq(Blocks), \A i, j \in 1..Len(back) : back[i] = back[j] => i = j
  PROVE  back \in Pool!SetToSeqs(ElementsOf(back))
<1> DEFINE n == Len(back)
           S == ElementsOf(back)
<1>1. n \in Nat /\ DOMAIN back = 1..n /\ back \in [1..n -> Blocks]
  OBVIOUS
<1>2. back \in [1..n -> S] /\ \A b \in S : \E i \in 1..n : back[i] = b
  BY <1>1 DEF ElementsOf
<1> HIDE DEF n, S
<1>3. \A i, j \in 1..n : back[i] = back[j] => i = j
  BY DEF n
<1>4. ExistsBijection(1..n, S)
  BY <1>2, <1>3 DEF ExistsBijection, Bijection, Injection, Surjection, IsInjective
<1>5. Cardinality(S) = n
  BY <1>1, <1>4, FS_CountingElements
<1>6. Pool!Cardinality(S) = Cardinality(S)
  BY Zenon DEF Pool!Cardinality, Cardinality
<1> DEFINE D == 1..Pool!Cardinality(S)
<1>7. D = 1..n
  BY <1>5, <1>6, Zenon
<1> HIDE DEF D
<1>8. back \in {f \in [D -> S] : \A i, j \in D : i # j => f[i] # f[j]}
  BY <1>2, <1>3, <1>7
<1>9. back \in Pool!SetToSeqs(S)
  BY <1>8, Zenon DEF Pool!SetToSeqs, D
<1> QED
  BY <1>9 DEF S

\* A block that a string of the first zone takes is taken from the pool.
LEMMA TakesIsPoolStep ==
  ASSUME IInv, NEW s \in Strings, NEW z \in Zones, NEW b \in Blocks, Takes(s, z, b)
  PROVE  Pool!Take \/ Pool!TakeNew \/ UNCHANGED Pool!vars
<1>1. /\ 0 \in Zones /\ BlockNum \in Nat /\ fresh[0] \in 0..BlockNum
      /\ fresh \in [Zones -> 0..BlockNum]
  BY ZoneAssumption DEF IInv, TypeInv, Zones
<1>2. CASE z # 0
  <2>1. OfZone(0)' = OfZone(0)
    BY <1>1, <1>2 DEF Takes
  <2>2. fresh'[0] = fresh[0]
    BY <1>1, <1>2 DEF Takes, TakesOld, TakesNew
  <2>3. Objects' = Objects
    <3>1. \A t \in Strings : zone'[t] = zone[t] /\ (zone[t] = 0 => Parts'[t] = Parts[t])
      BY <1>2 DEF Takes
    <3> QED
      BY <3>1, ObjectsAre, ObjectsNext
  <2> QED
    BY <2>1, <2>2, <2>3, PoolIs
<1>3. CASE z = 0
  <2>1. Objects' = Objects \cup {b}
    <3>1. /\ \A t \in Strings : zone'[t] = zone[t]
          /\ zone[s] = 0 /\ Parts'[s] = Parts[s] \cup {b}
          /\ \A t \in Strings \ {s} : Parts'[t] = Parts[t]
      BY <1>3 DEF Takes
    <3> QED
      BY <3>1, ObjectsAre, ObjectsNext
  <2>2. CASE TakesOld(0, b)
    <3>1. /\ OfZone(0) # << >> /\ b = Head(OfZone(0)) /\ OfZone(0)' = Tail(OfZone(0))
          /\ fresh'[0] = fresh[0]
      BY <2>2 DEF TakesOld
    <3> QED
      BY <2>1, <3>1, PoolIs
  <2>3. CASE TakesNew(0, b)
    <3>1. /\ OfZone(0) = << >> /\ OfZone(0)' = << >> /\ fresh[0] < BlockNum
          /\ b = 0 * BlockNum + fresh[0] + 1 /\ fresh'[0] = fresh[0] + 1
      BY <1>1, <2>3 DEF TakesNew
    <3>2. b = fresh[0] + 1 /\ fresh[0] + 1 <= BlockNum /\ fresh[0] \in Nat
      BY <1>1, <3>1
    <3> QED
      BY <1>1, <2>1, <3>1, <3>2, PoolIs
  <2> QED
    BY <1>3, <2>2, <2>3 DEF Takes
<1> QED
  BY <1>2, <1>3

\* Blocks that a string of the first zone gives back return to the pool.
LEMMA GivesIsPoolStep ==
  ASSUME IInv, NEW s \in Strings, NEW z \in Zones, NEW back, Gives(s, z, back)
  PROVE  Pool!Return \/ UNCHANGED Pool!vars
<1>1. 0 \in Zones
  BY ZoneAssumption DEF Zones
<1>2. fresh'[0] = fresh[0]
  BY DEF Gives
<1>3. /\ z = zone[s] /\ ElementsOf(back) \subseteq Parts[s]
      /\ Parts'[s] = Parts[s] \ ElementsOf(back)
      /\ \A t \in Strings \ {s} : Parts'[t] = Parts[t] /\ zone'[t] = zone[t]
      /\ zone'[s] = zone[s] \/ Parts'[s] = {}
  BY DEF Gives
<1>4. CASE z # 0
  <2>1. OfZone(0)' = OfZone(0)
    BY <1>1, <1>4 DEF Gives
  <2>2. ASSUME NEW b, NEW t \in Strings
        PROVE  zone'[t] = 0 /\ b \in Parts'[t] <=> zone[t] = 0 /\ b \in Parts[t]
    BY <1>3, <1>4
  <2>3. Objects' = Objects
    BY <2>2, ObjectsAre, ObjectsNext
  <2> QED
    BY <1>2, <2>1, <2>3, PoolIs
<1>5. CASE z = 0
  <2>1. \A t \in Strings \ {s} : Parts[s] \cap Parts[t] = {}
    BY InvIs
  <2>2. ASSUME NEW b, NEW t \in Strings
        PROVE  zone'[t] = 0 /\ b \in Parts'[t]
               <=> zone[t] = 0 /\ b \in Parts[t] /\ b \notin ElementsOf(back)
    BY <1>3, <1>5, <2>1
  <2>3. \A b : b \in Objects' <=> b \in Objects /\ b \notin ElementsOf(back)
    BY <2>2, ObjectsAre, ObjectsNext
  <2>4. \A b \in ElementsOf(back) : b \in Objects
    BY <1>3, <1>5, ObjectsAre
  <2>5. Objects' \subseteq Objects /\ Objects \ Objects' = ElementsOf(back)
    BY <2>3, <2>4
  <2>6. back \in Pool!SetToSeqs(ElementsOf(back))
    BY AnOrder DEF Gives
  <2>7. OfZone(0)' = OfZone(0) \o back
    BY <1>5 DEF Gives
  <2>8. \E v \in Pool!SetToSeqs(Objects \ Objects') : OfZone(0)' = OfZone(0) \o v
    BY <2>5, <2>6, <2>7, Zenon
  <2> QED
    BY <1>2, <2>5, <2>8, PoolIs
<1> QED
  BY <1>4, <1>5

\* Each step of the zones is a step of the pool, or none of its own.
LEMMA PoolStep ==
  ASSUME IInv, [Next]_vars
  PROVE  [Pool!Next]_Pool!vars
<1>1. CASE UNCHANGED vars
  <2>1. OfZone(0)' = OfZone(0) /\ Objects' = Objects /\ fresh'[0] = fresh[0]
    BY <1>1 DEF vars, OfZone, Objects, OfString, Queue, Line, Idle, ElementsOf
  <2> QED
    BY <2>1, PoolIs
<1>2. CASE \E s \in Strings, z \in Zones, b \in Blocks : Takes(s, z, b)
  BY <1>2, TakesIsPoolStep DEF Pool!Next
<1>3. CASE \E s \in Strings, z \in Zones : \E back : Gives(s, z, back)
  BY <1>3, GivesIsPoolStep DEF Pool!Next
<1> QED
  BY <1>1, <1>2, <1>3, StepHolds

-----------------------------------------------------------------------------
(* The theorems.                                                           *)

\* The inductive invariant holds throughout.
THEOREM ZoneInvariance == Spec => []IInv
<1>1. Init => IInv
  BY InitHolds
<1>2. IInv /\ [Next]_vars => IInv'
  BY StepHolds
<1> QED
  BY <1>1, <1>2, PTL DEF Spec

\* Following the next pointers of a string or of a free queue ends at the block
\* that its owner takes for the last one, also while a pop gives blocks back.
THEOREM ChainsEndAtTail == Spec => []WalksEndAtTail
<1>1. IInv => WalksEndAtTail
  BY DEF IInv, Linked, WalksEndAtTail, EndsAt, Holds, Line, Queue
<1> QED
  BY <1>1, ZoneInvariance, PTL

\* No block is lost, and none is in two places or comes to another zone than
\* the one that made it.
THEOREM BlocksStayHome == Spec => []BlocksComeHome
<1>1. IInv => BlocksComeHome
  BY DEF IInv
<1> QED
  BY <1>1, ZoneInvariance, PTL

\* The first zone is the pool of blocks that its strings see: each step is one
\* of the pool, or none.
THEOREM ZoneIsBlockPool == Spec => ZoneIsPool
<1>1. Init => Pool!Init
  <2>1. ASSUME Init PROVE OfZone(0) = << >> /\ Objects = {} /\ fresh[0] = 0
    <3>1. 0 \in Zones
      BY ZoneAssumption DEF Zones
    <3>2. fresh[0] = 0
      BY <2>1, <3>1 DEF Init
    <3>3. OfZone(0) = << >> /\ \A s \in Strings : Parts[s] = {}
      BY <2>1, InitHolds
    <3> QED
      BY <3>2, <3>3, ObjectsAre
  <2> QED
    BY <2>1, PoolIs
<1>2. IInv /\ [Next]_vars => [Pool!Next]_Pool!vars
  BY PoolStep
<1> QED
  BY <1>1, <1>2, ZoneInvariance, PTL DEF Spec, ZoneIsPool, Pool!Spec
=============================================================================
