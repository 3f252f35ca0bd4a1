--------------------------- MODULE MetadataProofs ----------------------------
(***************************************************************************)
(* What a command of the metadata state machine does to the ranges, and     *)
(* what it promises about leadership: the chain of the epochs, the          *)
(* refinement of RangeLease, an elected lease that lasts as long as its     *)
(* holder counts on, one owner per range of a group, and cursors that keep  *)
(* their place.  Then what it keeps of ranges and segments: however the     *)
(* ranges of a topic split, each key has one owner; where segments end,     *)
(* their copies while they move, and what backs their deletion.  For any    *)
(* number of nodes, ranges, epochs and segments, and any width of the keys. *)
(***************************************************************************)
EXTENDS Metadata, TLAPS, Sequences

Kinds == { "Administrative", "Election" }

Lease == [ holder : Nodes \cup {NoNode}, epoch : Nat, until : Int ]

RangeRecord ==
  [ topic : Topics, prefix : Nat, bits : 0 .. KeyBits, lineage : Nat, parents : SUBSET RangeIds,
    epoch : Nat, lease : Lease, split : [ sealed : BOOLEAN, barrier : Nat ] ]

Transition ==
  [ from : Nat, holder : Nodes, previous : Nodes \cup {NoNode}, kind : Kinds,
    outcome : { "Pending", "Refused", "Established" }, holding : SUBSET Nodes ]

\* The records of the ranges and of the transitions are what they should be.
RangesTyped ==
  /\ scen \in Scenarios
  /\ DOMAIN ranges \subseteq RangeIds
  /\ ranges \in [ DOMAIN ranges -> RangeRecord ]
  /\ chain \in [ DOMAIN chain -> Transition ]

\* The keys of the chain are the epochs minted, and each follows the one before.
ChainWhole ==
  /\ \A k \in DOMAIN chain : \E r \in DOMAIN ranges, e \in Nat :
       k = << r, e >> /\ 1 <= e /\ e <= ranges[r].epoch
  /\ \A r \in DOMAIN ranges, e \in Nat :
       1 <= e /\ e <= ranges[r].epoch => << r, e >> \in DOMAIN chain /\ chain[<< r, e >>].from = e - 1

\* A lease in force is the newest epoch's.
LeaseNewest ==
  \A r \in DOMAIN ranges :
    ranges[r].lease # NoLease =>
      /\ ranges[r].epoch >= 1
      /\ ranges[r].lease.epoch = ranges[r].epoch
      /\ ranges[r].lease.holder = chain[<< r, ranges[r].epoch >>].holder

ChainInv == RangesTyped /\ ChainWhole /\ LeaseNewest

-----------------------------------------------------------------------------
LEMMA ChainInvImplies == ChainInv => EpochChain
  <1> SUFFICES ASSUME ChainInv PROVE EpochChain
    BY Zenon
  <1>1. \A r \in DOMAIN ranges : ranges[r].epoch \in Nat
    BY Zenon DEF ChainInv, RangesTyped, RangeRecord
  <1>2. \A k \in DOMAIN chain : k \in UNION { { << r, e >> : e \in 1 .. ranges[r].epoch } : r \in DOMAIN ranges }
    BY <1>1 DEF ChainInv, ChainWhole
  <1>3. \A k \in UNION { { << r, e >> : e \in 1 .. ranges[r].epoch } : r \in DOMAIN ranges } : k \in DOMAIN chain
    BY <1>1 DEF ChainInv, ChainWhole
  <1>4. DOMAIN chain = UNION { { << r, e >> : e \in 1 .. ranges[r].epoch } : r \in DOMAIN ranges }
    BY <1>2, <1>3, Zenon
  <1>5. \A k \in DOMAIN chain : chain[k].from = k[2] - 1
    BY DEF ChainInv, ChainWhole
  <1>6. \A r \in DOMAIN ranges :
          ranges[r].lease # NoLease =>
            /\ ranges[r].lease.epoch = ranges[r].epoch
            /\ ranges[r].lease.holder = chain[<< r, ranges[r].epoch >>].holder
    BY Zenon DEF ChainInv, LeaseNewest
  <1> QED BY <1>4, <1>5, <1>6, Zenon DEF EpochChain

LEMMA ChainInit == Init => ChainInv
  <1> SUFFICES ASSUME Init PROVE ChainInv
    BY Zenon
  <1>1. scen \in Scenarios /\ (scen.created => 1 \in Topics /\ 1 \in RangeIds)
    BY ScenarioAssumption, Zenon DEF Init
  <1>2. DOMAIN ranges = IF scen.created THEN {1} ELSE {}
    BY Zenon DEF Init
  <1>3. \A r \in DOMAIN ranges : ranges[r] = Newborn(1, 0, 0, 0, {})
    BY <1>2, Zenon DEF Init
  <1>4. scen.created => Newborn(1, 0, 0, 0, {}) \in RangeRecord
    BY <1>1, KeyBitsAssumption DEF Newborn, RangeRecord, Lease, NoLease, Open, Never
  <1>5. DOMAIN chain = {} /\ chain \in [ DOMAIN chain -> Transition ]
    BY DEF Init
  <1>6. RangesTyped
    BY <1>1, <1>2, <1>3, <1>4, <1>5, Zenon DEF RangesTyped, Init
  <1>7. ChainWhole /\ LeaseNewest
    BY <1>3, <1>5 DEF ChainWhole, LeaseNewest, Newborn
  <1> QED BY <1>6, <1>7, Zenon DEF ChainInv

-----------------------------------------------------------------------------
LEMMA MintEffect ==
  ASSUME ChainInv, NEW r \in DOMAIN ranges, NEW n \in Nodes, NEW until \in Int, NEW kind \in Kinds, Mint(r, n, until, kind)
  PROVE  /\ DOMAIN ranges' = DOMAIN ranges
         /\ \A x \in DOMAIN ranges : x # r => ranges'[x] = ranges[x]
         /\ ranges'[r].epoch = ranges[r].epoch + 1
         /\ ranges'[r].lease.holder = n
         /\ ranges'[r].lease.epoch = ranges[r].epoch + 1
         /\ ranges'[r].lease.until = until
  <1>1. ranges[r] \in RangeRecord
    BY Zenon DEF ChainInv, RangesTyped
  <1> QED BY <1>1, Zenon DEF Mint, RangeRecord

\* A grant, by an operator or by election, adds the next link to the chain.
LEMMA MintChain ==
  ASSUME ChainInv, UNCHANGED scen, NEW r \in DOMAIN ranges, NEW n \in Nodes, NEW until \in Int,
         NEW kind \in Kinds, Mint(r, n, until, kind)
  PROVE  ChainInv'
  <1> DEFINE e == ranges[r].epoch + 1
             granted == [ holder |-> n, epoch |-> e, until |-> until ]
             link == [ from |-> e - 1, holder |-> n, previous |-> ranges[r].lease.holder,
                       kind |-> kind, outcome |-> "Pending", holding |-> {} ]
  <1>1. ranges[r] \in RangeRecord /\ e \in Nat /\ ranges[r].epoch \in Nat /\ ranges[r].lease \in Lease
    BY DEF ChainInv, RangesTyped, RangeRecord
  <1>2. granted \in Lease /\ link \in Transition
    BY <1>1 DEF Lease, Transition
  <1>3. /\ DOMAIN ranges' = DOMAIN ranges
        /\ \A x \in DOMAIN ranges : x # r => ranges'[x] = ranges[x]
        /\ ranges'[r] \in RangeRecord /\ ranges'[r].epoch = e /\ ranges'[r].lease = granted
    BY <1>1, <1>2, Zenon DEF Mint, RangeRecord
  <1>4. chain' = Put(chain, << r, e >>, link)
    BY Zenon DEF Mint
  <1>5. /\ DOMAIN chain' = DOMAIN chain \cup { << r, e >> }
        /\ chain'[<< r, e >>] = link
        /\ \A k \in DOMAIN chain : k # << r, e >> => chain'[k] = chain[k]
        /\ chain' = [ k \in DOMAIN chain' |-> chain'[k] ]
    BY <1>4, Zenon DEF Put
  <1>6. granted.holder = n /\ granted.epoch = e /\ link.holder = n /\ link.from = e - 1
    BY Zenon
  <1> HIDE DEF granted, link
  <1>7. RangesTyped'
    <2>1. ranges' \in [ DOMAIN ranges' -> RangeRecord ]
      BY <1>3, Zenon DEF ChainInv, RangesTyped, Mint
    <2>2. chain' \in [ DOMAIN chain' -> Transition ]
      BY <1>2, <1>5, Zenon DEF ChainInv, RangesTyped
    <2> QED BY <1>3, <2>1, <2>2, Zenon DEF ChainInv, RangesTyped
  <1>8. ChainWhole'
    <2>1. ASSUME NEW k \in DOMAIN chain'
          PROVE  \E x \in DOMAIN ranges', i \in Nat : k = << x, i >> /\ 1 <= i /\ i <= ranges'[x].epoch
      <3>1. CASE k = << r, e >>
        BY <1>1, <1>3, <3>1
      <3>2. CASE k \in DOMAIN chain
        <4>1. PICK x \in DOMAIN ranges, i \in Nat : k = << x, i >> /\ 1 <= i /\ i <= ranges[x].epoch
          BY <3>2, Zenon DEF ChainInv, ChainWhole
        <4>2. i <= ranges'[x].epoch
          BY <1>1, <1>3, <4>1
        <4> QED BY <1>3, <4>1, <4>2, Zenon
      <3> QED BY <1>5, <3>1, <3>2, Zenon
    <2>2. ASSUME NEW x \in DOMAIN ranges', NEW i \in Nat, 1 <= i, i <= ranges'[x].epoch
          PROVE  << x, i >> \in DOMAIN chain' /\ chain'[<< x, i >>].from = i - 1
      <3>1. CASE x = r /\ i = e
        BY <1>5, <1>6, <3>1, Zenon
      <3>2. CASE ~(x = r /\ i = e)
        <4>1. x \in DOMAIN ranges /\ i <= ranges[x].epoch /\ << x, i >> # << r, e >>
          BY <1>1, <1>3, <2>2, <3>2
        <4>2. << x, i >> \in DOMAIN chain /\ chain[<< x, i >>].from = i - 1
          BY <2>2, <4>1, Zenon DEF ChainInv, ChainWhole
        <4> QED BY <1>5, <4>1, <4>2, Zenon
      <3> QED BY <3>1, <3>2, Zenon
    <2> QED BY <2>1, <2>2, Zenon DEF ChainWhole
  <1>9. LeaseNewest'
    <2> SUFFICES ASSUME NEW x \in DOMAIN ranges', ranges'[x].lease # NoLease
                 PROVE  /\ ranges'[x].epoch >= 1
                        /\ ranges'[x].lease.epoch = ranges'[x].epoch
                        /\ ranges'[x].lease.holder = chain'[<< x, ranges'[x].epoch >>].holder
      BY Zenon DEF LeaseNewest, NoLease
    <2>1. CASE x = r
      BY <1>1, <1>3, <1>5, <1>6, <2>1
    <2>2. CASE x # r
      <3>1. ranges'[x] = ranges[x] /\ ranges[x].epoch \in Nat
        BY <1>3, <2>2, Zenon DEF ChainInv, RangesTyped, RangeRecord
      <3>2. /\ ranges[x].epoch >= 1 /\ ranges[x].lease.epoch = ranges[x].epoch
            /\ ranges[x].lease.holder = chain[<< x, ranges[x].epoch >>].holder
        BY <1>3, <3>1, Zenon DEF ChainInv, LeaseNewest
      <3>3. << x, ranges[x].epoch >> \in DOMAIN chain /\ << x, ranges[x].epoch >> # << r, e >>
        BY <1>3, <2>2, <3>1, <3>2 DEF ChainInv, ChainWhole
      <3> QED BY <1>5, <3>1, <3>2, <3>3, Zenon
    <2> QED BY <2>1, <2>2, Zenon
  <1> QED BY <1>7, <1>8, <1>9, Zenon DEF ChainInv

-----------------------------------------------------------------------------
(* Every other command leaves the epochs and their holders alone: it lapses  *)
(* at most one lease, renews one, or adds ranges nobody has led.             *)

SameLease(r) ==
  /\ ranges'[r].epoch = ranges[r].epoch
  /\ ranges'[r].lease.epoch = ranges[r].lease.epoch
  /\ ranges'[r].lease.holder = ranges[r].lease.holder
  /\ ranges[r].lease = NoLease => ranges'[r].lease = NoLease
  /\ Election \/ ranges'[r].lease = ranges[r].lease

Lapsed(r) == ranges'[r].epoch = ranges[r].epoch /\ ranges'[r].lease = NoLease

\* A step that mints no epoch; L are the ranges whose lease it ends.
Steady(L) ==
  /\ DOMAIN ranges \subseteq DOMAIN ranges'
  /\ \A r \in DOMAIN ranges : IF r \in L THEN Lapsed(r) ELSE SameLease(r)
  /\ \A r \in DOMAIN ranges' \ DOMAIN ranges : ranges'[r].epoch = 0 /\ ranges'[r].lease = NoLease
  /\ DOMAIN chain' = DOMAIN chain
  /\ \A k \in DOMAIN chain : chain'[k].from = chain[k].from /\ chain'[k].holder = chain[k].holder

LEMMA SteadyChain ==
  ASSUME ChainInv, RangesTyped', NEW L, Steady(L)
  PROVE  ChainInv'
  <1>1. \A r \in DOMAIN ranges : ranges[r].epoch \in Nat /\ ranges'[r].epoch = ranges[r].epoch
    BY Zenon DEF ChainInv, RangesTyped, RangeRecord, Steady, Lapsed, SameLease
  <1>2. ChainWhole'
    <2>1. ASSUME NEW k \in DOMAIN chain'
          PROVE  \E x \in DOMAIN ranges', i \in Nat : k = << x, i >> /\ 1 <= i /\ i <= ranges'[x].epoch
      <3>1. PICK x \in DOMAIN ranges, i \in Nat : k = << x, i >> /\ 1 <= i /\ i <= ranges[x].epoch
        BY Zenon DEF ChainInv, ChainWhole, Steady
      <3> QED BY <1>1, <3>1, Zenon DEF Steady
    <2>2. ASSUME NEW x \in DOMAIN ranges', NEW i \in Nat, 1 <= i, i <= ranges'[x].epoch
          PROVE  << x, i >> \in DOMAIN chain' /\ chain'[<< x, i >>].from = i - 1
      <3>1. x \in DOMAIN ranges
        BY <2>2 DEF Steady
      <3> QED BY <1>1, <2>2, <3>1, Zenon DEF ChainInv, ChainWhole, Steady
    <2> QED BY <2>1, <2>2, Zenon DEF ChainWhole
  <1>3. LeaseNewest'
    <2> SUFFICES ASSUME NEW x \in DOMAIN ranges', ranges'[x].lease # NoLease
                 PROVE  /\ ranges'[x].epoch >= 1
                        /\ ranges'[x].lease.epoch = ranges'[x].epoch
                        /\ ranges'[x].lease.holder = chain'[<< x, ranges'[x].epoch >>].holder
      BY Zenon DEF LeaseNewest, NoLease
    <2>1. x \in DOMAIN ranges /\ SameLease(x)
      BY Zenon DEF Steady, Lapsed
    <2>2. /\ ranges[x].epoch >= 1 /\ ranges[x].lease.epoch = ranges[x].epoch
          /\ ranges[x].lease.holder = chain[<< x, ranges[x].epoch >>].holder
      BY <2>1, Zenon DEF ChainInv, LeaseNewest, SameLease
    <2>3. << x, ranges[x].epoch >> \in DOMAIN chain
      BY <1>1, <2>1, <2>2 DEF ChainInv, ChainWhole
    <2> QED BY <2>1, <2>2, <2>3, Zenon DEF Steady, SameLease
  <1> QED BY <1>2, <1>3, Zenon DEF ChainInv

\* A step that touches neither the ranges nor the chain.
LEMMA UntouchedSteady ==
  ASSUME ChainInv, UNCHANGED << ranges, chain, scen >>
  PROVE  RangesTyped' /\ Steady({})
  BY Zenon DEF ChainInv, RangesTyped, Steady, SameLease

\* The lease of one range ends, or an election command renews it.
LEMMA FieldSteady ==
  ASSUME ChainInv, UNCHANGED << chain, scen >>, NEW r \in DOMAIN ranges, NEW l \in Lease,
         ranges' = [ ranges EXCEPT ![r].lease = l ],
         l = NoLease \/ (Election /\ ranges[r].lease # NoLease /\ l.epoch = ranges[r].lease.epoch /\ l.holder = ranges[r].lease.holder)
  PROVE  RangesTyped' /\ (Steady({}) \/ Steady({r}))
  <1>1. ranges[r] \in RangeRecord
    BY Zenon DEF ChainInv, RangesTyped
  <1>2. /\ DOMAIN ranges' = DOMAIN ranges
        /\ \A x \in DOMAIN ranges : x # r => ranges'[x] = ranges[x]
        /\ ranges'[r] \in RangeRecord /\ ranges'[r].epoch = ranges[r].epoch /\ ranges'[r].lease = l
    BY <1>1, Zenon DEF RangeRecord
  <1>3. RangesTyped'
    BY <1>2, Zenon DEF ChainInv, RangesTyped
  <1>4. CASE l = NoLease
    BY <1>2, <1>3, <1>4, Zenon DEF Steady, Lapsed, SameLease
  <1>5. CASE l # NoLease
    BY <1>2, <1>3, <1>5, Zenon DEF Steady, Lapsed, SameLease
  <1> QED BY <1>4, <1>5, Zenon

LEMMA FreshIsNew ==
  ASSUME NEW taken, NEW r \in FreshRange(taken)
  PROVE  r \in RangeIds /\ r \notin DOMAIN ranges /\ r \notin taken
  BY Zenon DEF FreshRange, Fresh

LEMMA NewbornTyped ==
  ASSUME NEW t \in Topics, NEW prefix \in Nat, NEW bits \in 0 .. KeyBits, NEW lineage \in Nat,
         NEW parents \in SUBSET RangeIds
  PROVE  /\ Newborn(t, prefix, bits, lineage, parents) \in RangeRecord
         /\ Newborn(t, prefix, bits, lineage, parents).epoch = 0
         /\ Newborn(t, prefix, bits, lineage, parents).lease = NoLease
  BY DEF Newborn, RangeRecord, Lease, NoLease, Open, Never

\* The root range of a topic is born without an epoch.
LEMMA CreateTopicSteady ==
  ASSUME ChainInv, UNCHANGED scen, NEW t \in Topics, NEW r \in FreshRange({}), CreateTopic(t, r)
  PROVE  RangesTyped' /\ Steady({})
  <1> DEFINE child == Newborn(t, 0, 0, 0, {})
  <1>1. child \in RangeRecord /\ child.epoch = 0 /\ child.lease = NoLease
    BY NewbornTyped, KeyBitsAssumption
  <1>2. ranges' = Put(ranges, r, child) /\ chain' = chain
    BY Zenon DEF CreateTopic
  <1> HIDE DEF child
  <1>3. /\ DOMAIN ranges' = DOMAIN ranges \cup {r} /\ ranges'[r] = child
        /\ \A x \in DOMAIN ranges : x # r => ranges'[x] = ranges[x]
        /\ ranges' = [ x \in DOMAIN ranges' |-> ranges'[x] ]
    BY <1>2, Zenon DEF Put
  <1>4. r \in RangeIds /\ r \notin DOMAIN ranges
    BY FreshIsNew, Zenon
  <1>5. RangesTyped'
    BY <1>1, <1>2, <1>3, <1>4, Zenon DEF ChainInv, RangesTyped
  <1> QED BY <1>1, <1>2, <1>3, <1>4, <1>5, Zenon DEF Steady, SameLease

\* The halves of a split range are born without an epoch; the parent keeps its own.
LEMMA SplitSteady ==
  ASSUME ChainInv, UNCHANGED scen, NEW r \in DOMAIN ranges, NEW n, NEW e, NEW barrier \in Nat, NEW ends,
         NEW left \in FreshRange({}), NEW right \in FreshRange({left}),
         SplitRange(r, n, e, left, right, barrier, ends)
  PROVE  RangesTyped' /\ Steady({})
  <1> DEFINE parent == ranges[r]
             halves == Children(parent.prefix, parent.bits)
             Child(prefix) == Newborn(parent.topic, prefix, parent.bits + 1, parent.lineage + 1, {r})
             sealed == [ ranges EXCEPT ![r].split = [ sealed |-> TRUE, barrier |-> barrier ] ]
             one == Put(sealed, left, Child(halves[1]))
  <1>1. parent \in RangeRecord /\ r \in RangeIds
    BY Zenon DEF ChainInv, RangesTyped
  <1>2. parent.bits < KeyBits /\ parent.bits \in Nat /\ parent.prefix \in Nat /\ parent.topic \in Topics /\ parent.lineage \in Nat
    BY <1>1, KeyBitsAssumption DEF SplitRange, RangeRecord
  <1>3. halves[1] \in Nat /\ halves[2] \in Nat
    <2>1. KeyBits - (parent.bits + 1) \in 0 .. KeyBits
      BY <1>2, KeyBitsAssumption
    <2>2. 2 ^ (KeyBits - (parent.bits + 1)) \in Nat
      BY <2>1, KeyBitsAssumption, Zenon
    <2> QED BY <1>2, <2>2 DEF Children
  <1>4. parent.bits + 1 \in 0 .. KeyBits /\ parent.lineage + 1 \in Nat
    BY <1>2, KeyBitsAssumption
  <1>5. \A i \in {1, 2} : Child(halves[i]) \in RangeRecord /\ Child(halves[i]).epoch = 0 /\ Child(halves[i]).lease = NoLease
    BY <1>1, <1>2, <1>3, <1>4, NewbornTyped
  <1>6. /\ DOMAIN sealed = DOMAIN ranges
        /\ \A x \in DOMAIN ranges : x # r => sealed[x] = ranges[x]
        /\ sealed[r] \in RangeRecord /\ sealed[r].epoch = parent.epoch /\ sealed[r].lease = parent.lease
    BY <1>1, Zenon DEF RangeRecord
  <1>7. ranges' = Put(one, right, Child(halves[2])) /\ chain' = chain
    BY Zenon DEF SplitRange
  <1>8. left \in RangeIds /\ right \in RangeIds /\ left # right /\ left \notin DOMAIN ranges /\ right \notin DOMAIN ranges
    BY FreshIsNew, Zenon
  <1> DEFINE c1 == Child(halves[1])
             c2 == Child(halves[2])
  <1>9. c1 \in RangeRecord /\ c1.epoch = 0 /\ c1.lease = NoLease /\ c2 \in RangeRecord /\ c2.epoch = 0 /\ c2.lease = NoLease
    BY <1>5, Zenon
  <1>10. one = Put(sealed, left, c1) /\ ranges' = Put(one, right, c2)
    BY <1>7, Zenon
  <1> HIDE DEF c1, c2, one, sealed, Child, halves
  <1>11. /\ DOMAIN ranges' = DOMAIN ranges \cup {left, right}
         /\ ranges'[left] = c1 /\ ranges'[right] = c2
         /\ \A x \in DOMAIN ranges : ranges'[x] = sealed[x]
         /\ ranges' = [ x \in DOMAIN ranges' |-> ranges'[x] ]
    BY <1>6, <1>8, <1>10, Zenon DEF Put
  <1>12. RangesTyped'
    BY <1>6, <1>7, <1>8, <1>9, <1>11 DEF ChainInv, RangesTyped
  <1> QED BY <1>6, <1>7, <1>8, <1>9, <1>11, <1>12, Zenon DEF Steady, SameLease

\* The report of an outcome changes neither the link's epoch nor its holder.
LEMMA ReportSteady ==
  ASSUME ChainInv, UNCHANGED scen, NEW r, NEW n, NEW e, NEW outcome \in { "Refused", "Established" },
         NEW holding \in SUBSET Nodes, ReportPromotionOutcome(r, n, e, outcome, holding)
  PROVE  RangesTyped' /\ Steady({})
  <1> DEFINE k == << r, e >>
             told == IF outcome = "Established" THEN holding ELSE {}
             link == [ chain[k] EXCEPT !.outcome = outcome, !.holding = told ]
  <1>1. k \in DOMAIN chain /\ chain[k] \in Transition /\ told \in SUBSET Nodes
    BY Zenon DEF ReportPromotionOutcome, ChainInv, RangesTyped
  <1>2. link \in Transition /\ link.from = chain[k].from /\ link.holder = chain[k].holder
    BY <1>1, Zenon DEF Transition
  <1>3. chain' = [ chain EXCEPT ![k] = link ] /\ ranges' = ranges
    BY Zenon DEF ReportPromotionOutcome
  <1> HIDE DEF link, k
  <1>4. /\ DOMAIN chain' = DOMAIN chain /\ chain'[k] = link
        /\ \A x \in DOMAIN chain : x # k => chain'[x] = chain[x]
        /\ chain' \in [ DOMAIN chain' -> Transition ]
    BY <1>1, <1>2, <1>3, Zenon DEF ChainInv, RangesTyped
  <1>5. RangesTyped'
    BY <1>3, <1>4, Zenon DEF ChainInv, RangesTyped
  <1> QED BY <1>2, <1>3, <1>4, <1>5, Zenon DEF Steady, SameLease

\* A renewal moves the deadline and nothing else.
LEMMA RenewSteady ==
  ASSUME ChainInv, UNCHANGED scen, NEW r \in DOMAIN ranges, NEW n \in Nodes, NEW e, NEW t \in Int,
         Election, RenewRangeLease(r, n, e, t, Duration)
  PROVE  RangesTyped' /\ (Steady({}) \/ Steady({r}))
  <1> DEFINE lease == ranges[r].lease
             until == IF t + Duration > lease.until THEN t + Duration ELSE lease.until
             l == [ lease EXCEPT !.until = until ]
  <1>1. ranges[r] \in RangeRecord /\ lease \in Lease /\ until \in Int
    BY ClockAssumption DEF ChainInv, RangesTyped, RangeRecord, Lease
  <1>2. l \in Lease /\ l.epoch = lease.epoch /\ l.holder = lease.holder
    BY <1>1, Zenon DEF Lease
  <1>3. lease.holder = n
    BY Zenon DEF RenewRangeLease, Held
  <1>4. lease # NoLease
    BY <1>3, NodesAssumption DEF NoLease
  <1>5. ranges' = [ ranges EXCEPT ![r].lease = l ] /\ chain' = chain
    BY <1>1, Zenon DEF RenewRangeLease, RangeRecord
  <1> QED BY <1>2, <1>4, <1>5, FieldSteady, Zenon

Minted ==
  \E r \in DOMAIN ranges, n \in Nodes, until \in Int, kind \in Kinds :
    Mint(r, n, until, kind) /\ (Election \/ until = Never)

Kept == RangesTyped' /\ (Steady({}) \/ \E r \in DOMAIN ranges : Steady({r}))

\* What a step does to the epochs and their holders.
LEMMA LeaseMoves ==
  ASSUME ChainInv, [Next]_vars
  PROVE  Minted \/ Kept
  <1>1. CASE UNCHANGED << ranges, chain, scen >>
    BY <1>1, UntouchedSteady, Zenon DEF Kept
  <1>2. CASE Administration /\ UNCHANGED scen
    <2>1. ASSUME NEW t \in Topics, NEW r \in FreshRange({}), CreateTopic(t, r) PROVE Kept
      BY <1>2, <2>1, CreateTopicSteady, Zenon DEF Kept
    <2>2. ASSUME NEW r \in DOMAIN ranges, NEW n \in Nodes, GrantRangeLease(r, n) PROVE Minted
      BY <1>2, <2>2 DEF GrantRangeLease, Never, Kinds, Minted
    <2>3. ASSUME NEW r \in DOMAIN ranges, UNCHANGED chain, ranges' = [ ranges EXCEPT ![r].lease = NoLease ] PROVE Kept
      <3>1. NoLease \in Lease /\ r \in RangeIds
        BY DEF NoLease, Lease, Never, ChainInv, RangesTyped
      <3> QED BY <1>2, <2>3, <3>1, FieldSteady, Zenon DEF Kept
    <2>4. ASSUME NEW r \in DOMAIN ranges, NEW e, ReleaseRangeLease(r, e) PROVE Kept
      BY <2>3, <2>4, Zenon DEF ReleaseRangeLease
    <2>5. ASSUME NEW r \in DOMAIN ranges, NEW Q, SetRangeReplicaSet(r, Q) PROVE Kept
      BY <2>3, <2>5, Zenon DEF SetRangeReplicaSet
    <2>6. ASSUME NEW r, NEW n, NEW e, NEW holding \in SUBSET { m \in Nodes : Registered(m) },
                 NEW outcome \in { "Refused", "Established" }, ReportPromotionOutcome(r, n, e, outcome, holding)
          PROVE Kept
      <3>1. holding \in SUBSET Nodes
        BY Zenon
      <3> QED BY <1>2, <2>6, <3>1, ReportSteady, Zenon DEF Kept
    <2>7. ASSUME NEW r \in DOMAIN ranges, NEW n, NEW e, NEW barrier \in Offsets, NEW ends,
                 NEW left \in FreshRange({}), NEW right \in FreshRange({left}),
                 SplitRange(r, n, e, left, right, barrier, ends)
          PROVE Kept
      <3>1. barrier \in Nat
        BY ScenarioAssumption DEF Offsets, ChainInv, RangesTyped
      <3> QED BY <1>2, <2>7, <3>1, SplitSteady, Zenon DEF Kept
    <2>8. ASSUME \/ \E l : SetFeatureLevel(l)
                 \/ \E n : RegisterNode(n)
                 \/ \E n, state : SetNodeState(n, state)
                 \/ \E n, d : SetNodePlacementAttrs(n, d)
          PROVE Kept
      BY <1>1, <1>2, <2>8, UntouchedSteady, Zenon DEF Kept, SetFeatureLevel, RegisterNode, SetNodeState, SetNodePlacementAttrs
    <2> QED BY <1>2, <2>1, <2>2, <2>4, <2>5, <2>6, <2>7, <2>8, Zenon DEF Administration
  <1>3. CASE Election /\ UNCHANGED scen
    <2>1. PICK r \in DOMAIN ranges, n \in Nodes, t \in Readings :
            \/ AcquireRangeLease(r, n, t, Duration)
            \/ \E e \in Epochs : RenewRangeLease(r, n, e, t, Duration)
      BY <1>3, Zenon DEF Election
    <2>2. t \in Int /\ t + Duration \in Int /\ r \in RangeIds
      BY ClockAssumption DEF Readings, ChainInv, RangesTyped
    <2>3. CASE AcquireRangeLease(r, n, t, Duration)
      BY <1>3, <2>2, <2>3, Zenon DEF AcquireRangeLease, Kinds, Minted
    <2>4. ASSUME NEW e, RenewRangeLease(r, n, e, t, Duration) PROVE Kept
      BY <1>3, <2>2, <2>4, RenewSteady, Zenon DEF Kept
    <2> QED BY <2>1, <2>3, <2>4, Zenon
  <1> QED BY <1>1, <1>2, <1>3, Zenon DEF Next, vars, rangeVars

LEMMA ChainStep == ChainInv /\ [Next]_vars => ChainInv'
  <1> SUFFICES ASSUME ChainInv, [Next]_vars PROVE ChainInv'
    BY Zenon
  <1>1. UNCHANGED scen
    BY Zenon DEF Next, vars
  <1>2. CASE Minted
    BY <1>1, <1>2, MintChain, Zenon DEF Minted
  <1>3. CASE Kept
    BY <1>3, SteadyChain, Zenon DEF Kept
  <1> QED BY <1>2, <1>3, LeaseMoves, Zenon

\* The chain of every range has no gap and no second link for an epoch, and only
\* the newest epoch can be in force, whatever is granted, elected, released, split
\* or reconfigured (mint_transition, grant_range_lease, acquire_range_lease).
THEOREM EpochChainHolds == Spec => []EpochChain
  <1>1. Spec => []ChainInv
    BY ChainInit, ChainStep, PTL DEF Spec
  <1> QED BY <1>1, ChainInvImplies, PTL

-----------------------------------------------------------------------------
(* The refinement. *)

LEMMA FunctionIsSeq ==
  ASSUME NEW S, NEW n \in Nat, NEW f \in [ 1 .. n -> S ]
  PROVE  f \in Seq(S) /\ Len(f) = n
  <1>1. f \in Seq(S)
    OBVIOUS
  <1>2. DOMAIN f = 1 .. n /\ DOMAIN f = 1 .. Len(f) /\ Len(f) \in Nat
    BY <1>1
  <1> QED BY <1>1, <1>2

LEMMA SameSequence ==
  ASSUME NEW S, NEW s \in Seq(S), NEW t \in Seq(S), Len(s) = Len(t), \A i \in 1 .. Len(s) : s[i] = t[i]
  PROVE  s = t
  OBVIOUS

\* Seen from the data plane, a mint is a grant.
LEMMA MintGrants ==
  ASSUME ChainInv, ChainInv', NEW r \in DOMAIN ranges, NEW n \in Nodes, NEW until \in Int, NEW kind \in Kinds,
         Mint(r, n, until, kind)
  PROVE  /\ Holders' = [ Holders EXCEPT ![r] = Append(@, n) ]
         /\ Current' = [ Current EXCEPT ![r] = Len(Holders[r]) + 1 ]
  <1> DEFINE e == ranges[r].epoch + 1
  <1>1. ranges[r] \in RangeRecord /\ ranges[r].epoch \in Nat /\ r \in RangeIds
    BY Zenon DEF ChainInv, RangesTyped, RangeRecord
  <1>2. /\ DOMAIN ranges' = DOMAIN ranges
        /\ \A x \in DOMAIN ranges : x # r => ranges'[x] = ranges[x]
        /\ ranges'[r].epoch = e /\ ranges'[r].lease.epoch = e
    BY MintEffect, Zenon
  <1>3. /\ chain'[<< r, e >>].holder = n
        /\ \A k \in DOMAIN chain : k # << r, e >> => chain'[k] = chain[k]
    BY Zenon DEF Mint, Put
  <1>4. \A x \in DOMAIN ranges, i \in Nat : 1 <= i /\ i <= ranges[x].epoch => << x, i >> \in DOMAIN chain /\ << x, i >> # << r, e >>
    BY <1>1 DEF ChainInv, ChainWhole
  <1>5. \A x \in DOMAIN ranges : x # r => HolderOf(x)' = HolderOf(x)
    <2> SUFFICES ASSUME NEW x \in DOMAIN ranges, x # r PROVE HolderOf(x)' = HolderOf(x)
      BY Zenon
    <2>1. ranges'[x].epoch = ranges[x].epoch /\ ranges[x].epoch \in Nat
      BY <1>2, Zenon DEF ChainInv, RangesTyped, RangeRecord
    <2>2. \A i \in 1 .. ranges[x].epoch : chain'[<< x, i >>].holder = chain[<< x, i >>].holder
      BY <1>3, <1>4, <2>1
    <2> QED BY <2>1, <2>2, Zenon DEF HolderOf
  <1>6. HolderOf(r) \in Seq(Nodes) /\ Len(HolderOf(r)) = ranges[r].epoch
    <2>1. \A i \in 1 .. ranges[r].epoch : chain[<< r, i >>].holder \in Nodes
      BY <1>1, <1>4 DEF ChainInv, RangesTyped, Transition
    <2>2. HolderOf(r) \in [ 1 .. ranges[r].epoch -> Nodes ]
      BY <2>1, Zenon DEF HolderOf
    <2> QED BY <1>1, <2>2, FunctionIsSeq, Zenon
  <1>7. HolderOf(r)' = Append(HolderOf(r), n)
    <2>1. DOMAIN HolderOf(r)' = 1 .. e /\ HolderOf(r)' = [ i \in 1 .. e |-> chain'[<< r, i >>].holder ]
      BY <1>2, Zenon DEF HolderOf
    <2>2. \A i \in 1 .. e : chain'[<< r, i >>].holder = Append(HolderOf(r), n)[i]
      <3>1. \A i \in 1 .. ranges[r].epoch : chain'[<< r, i >>].holder = HolderOf(r)[i]
        BY <1>1, <1>3, <1>4 DEF HolderOf
      <3>2. /\ \A i \in 1 .. ranges[r].epoch : Append(HolderOf(r), n)[i] = HolderOf(r)[i]
            /\ Append(HolderOf(r), n)[e] = n
        BY <1>6
      <3>3. \A i \in 1 .. e : i = e \/ i \in 1 .. ranges[r].epoch
        BY <1>1
      <3> QED BY <1>3, <3>1, <3>2, <3>3, Zenon
    <2>3. Append(HolderOf(r), n) \in Seq(Nodes) /\ Len(Append(HolderOf(r), n)) = e
      BY <1>6
    <2>4. HolderOf(r)' \in [ 1 .. e -> Nodes ]
      BY <1>6, <2>1, <2>2, <2>3
    <2>5. HolderOf(r)' \in Seq(Nodes) /\ Len(HolderOf(r)') = e
      BY <1>1, <2>4, FunctionIsSeq
    <2>6. \A i \in 1 .. Len(HolderOf(r)') : HolderOf(r)'[i] = Append(HolderOf(r), n)[i]
      BY <2>1, <2>2, <2>5, Zenon
    <2> QED BY <2>3, <2>5, <2>6, SameSequence, Zenon
  <1>8. Holders' = [ Holders EXCEPT ![r] = Append(@, n) ]
    BY <1>1, <1>2, <1>5, <1>7, Zenon DEF Holders
  <1>9. Current' = [ Current EXCEPT ![r] = Len(Holders[r]) + 1 ]
    BY <1>1, <1>2, <1>6, Zenon DEF Current, Holders
  <1> QED BY <1>8, <1>9, Zenon

\* Any other step lapses one lease that is in force, or shows nothing.
LEMMA SteadyLapses ==
  ASSUME ChainInv, ChainInv', NEW L, Steady(L)
  PROVE  /\ Holders' = Holders
         /\ \A r \in RangeIds : Current'[r] = IF r \in L /\ r \in DOMAIN ranges THEN 0 ELSE Current[r]
  <1>1. \A r \in DOMAIN ranges, i \in Nat : 1 <= i /\ i <= ranges[r].epoch => << r, i >> \in DOMAIN chain
    BY Zenon DEF ChainInv, ChainWhole
  <1>2. \A r \in DOMAIN ranges : r \in DOMAIN ranges' /\ ranges'[r].epoch = ranges[r].epoch /\ ranges[r].epoch \in Nat
    BY Zenon DEF Steady, Lapsed, SameLease, ChainInv, RangesTyped, RangeRecord
  <1>3. \A r \in DOMAIN ranges : HolderOf(r)' = HolderOf(r)
    BY <1>1, <1>2 DEF HolderOf, Steady
  <1>4. \A r \in DOMAIN ranges' \ DOMAIN ranges : HolderOf(r)' = << >>
    BY DEF HolderOf, Steady
  <1>5. Holders' = Holders
    BY <1>2, <1>3, <1>4, Zenon DEF Holders
  <1>6. \A r \in RangeIds : Current'[r] = IF r \in L /\ r \in DOMAIN ranges THEN 0 ELSE Current[r]
    BY <1>2 DEF Current, Steady, Lapsed, SameLease, NoLease
  <1> QED BY <1>5, <1>6, Zenon

\* The metadata machine implements the lease the data plane relies on: the
\* epochs of a range are minted one after the other, each for one holder that it
\* keeps, and only the newest is ever in force (current_lease of the range).
THEOREM ImplementsRangeLeaseHolds == Spec => ImplementsRangeLease
  <1>1. Init => Abstract!Init
    BY DEF Init, Abstract!Init, Holders, HolderOf, Current, Newborn, NoLease
  <1>2. ASSUME ChainInv, [Next]_vars PROVE [Abstract!Next]_<< Holders, Current >>
    <2>0. ChainInv' /\ DOMAIN ranges \subseteq RangeIds
      BY <1>2, ChainStep, Zenon DEF ChainInv, RangesTyped
    <2>1. ASSUME NEW r \in DOMAIN ranges, NEW n \in Nodes, NEW until \in Int, NEW kind \in Kinds, Mint(r, n, until, kind)
          PROVE  Abstract!Next
      <3>1. Abstract!Grant(r, n)
        BY <1>2, <2>0, <2>1, MintGrants, Zenon DEF Abstract!Grant
      <3> QED BY <2>0, <3>1, Zenon DEF Abstract!Next
    <2>2. CASE Steady({})
      <3>1. Holders' = Holders /\ \A r \in RangeIds : Current'[r] = Current[r]
        BY <1>2, <2>0, <2>2, SteadyLapses
      <3>2. Current' = Current
        BY <3>1, Zenon DEF Current
      <3> QED BY <3>1, <3>2, Zenon
    <2>3. ASSUME NEW r \in DOMAIN ranges, Steady({r}) PROVE [Abstract!Next]_<< Holders, Current >>
      <3>1. Holders' = Holders /\ \A x \in RangeIds : Current'[x] = IF x = r THEN 0 ELSE Current[x]
        BY <1>2, <2>0, <2>3, SteadyLapses, Zenon
      <3>2. CASE Current[r] = 0
        <4>1. Current' = Current
          BY <3>1, <3>2, Zenon DEF Current
        <4> QED BY <3>1, <4>1, Zenon
      <3>3. CASE Current[r] # 0
        <4>1. Current' = [ Current EXCEPT ![r] = 0 ]
          BY <2>0, <3>1, Zenon DEF Current
        <4>2. Abstract!Lapse(r)
          BY <2>0, <3>1, <3>3, <4>1, Zenon DEF Abstract!Lapse
        <4> QED BY <2>0, <4>2, Zenon DEF Abstract!Next
      <3> QED BY <3>2, <3>3, Zenon
    <2> QED BY <1>2, <2>1, <2>2, <2>3, LeaseMoves, Zenon DEF Minted, Kept
  <1>3. Spec => []ChainInv
    BY ChainInit, ChainStep, PTL DEF Spec
  <1>4. Spec => Abstract!Init /\ [][Abstract!Next]_<< Holders, Current >>
    BY <1>1, <1>2, <1>3, PTL DEF Spec
  <1> QED BY <1>4, Zenon DEF ImplementsRangeLease, Abstract!Spec

-----------------------------------------------------------------------------
(* The clocks. *)

Skew == SkewBound(Duration)

\* No holder was promised more than its own deadline less the clock error.
TimeInv ==
  /\ now \in Int /\ promised \in [ RangeIds -> Int ]
  /\ \A r \in RangeIds : promised[r] <= now + Duration - 2 * Skew
  /\ \A r \in DOMAIN ranges :
       ranges[r].lease # NoLease /\ ranges[r].lease.until # Never => promised[r] <= ranges[r].lease.until - Skew

LEMMA SkewSmall == Skew \in Nat /\ 2 * Skew <= Duration
  BY ClockAssumption DEF Skew, SkewBound, Smaller, Larger

LEMMA TimeInit == Init => TimeInv
  BY SkewSmall, ClockAssumption DEF Init, TimeInv, Newborn

LEMMA TimeStep ==
  ASSUME ChainInv, TimeInv, [Next]_vars
  PROVE  TimeInv'
  <1>0. ChainInv' /\ DOMAIN ranges \subseteq RangeIds /\ DOMAIN ranges' \subseteq RangeIds
    BY ChainStep, Zenon DEF ChainInv, RangesTyped
  <1>1. CASE Election /\ UNCHANGED now
    <2>1. PICK r \in DOMAIN ranges, n \in Nodes, t \in Readings :
            /\ \/ AcquireRangeLease(r, n, t, Duration)
               \/ \E e \in Epochs : RenewRangeLease(r, n, e, t, Duration)
            /\ promised' = [ promised EXCEPT ![r] = Larger(@, now + Duration - 2 * Skew) ]
      BY <1>1, Zenon DEF Election, Skew
    <2>2. t \in Int /\ now - Skew <= t
      BY SkewSmall DEF Readings, TimeInv, Skew
    <2>3. /\ promised' \in [ RangeIds -> Int ]
          /\ promised'[r] = now + Duration - 2 * Skew
          /\ \A x \in RangeIds : x # r => promised'[x] = promised[x]
      BY <1>0, <2>1, SkewSmall, ClockAssumption DEF TimeInv, Larger
    <2>4. ranges[r] \in RangeRecord /\ ranges[r].lease \in Lease /\ ranges[r].lease.until \in Int
      BY Zenon DEF ChainInv, RangesTyped, RangeRecord, Lease
    <2>5. /\ DOMAIN ranges' = DOMAIN ranges
          /\ \A x \in DOMAIN ranges : x # r => ranges'[x] = ranges[x]
          /\ ranges'[r].lease.until >= t + Duration
      <3>1. CASE AcquireRangeLease(r, n, t, Duration)
        <4>1. Mint(r, n, t + Duration, "Election") /\ "Election" \in Kinds /\ t + Duration \in Int
          BY <2>2, <3>1, ClockAssumption DEF AcquireRangeLease, Kinds
        <4> QED BY <4>1, MintEffect
      <3>2. ASSUME NEW e \in Epochs, RenewRangeLease(r, n, e, t, Duration)
            PROVE  /\ DOMAIN ranges' = DOMAIN ranges
                   /\ \A x \in DOMAIN ranges : x # r => ranges'[x] = ranges[x]
                   /\ ranges'[r].lease.until >= t + Duration
        <4> DEFINE lease == ranges[r].lease
                   until == IF t + Duration > lease.until THEN t + Duration ELSE lease.until
                   l == [ lease EXCEPT !.until = until ]
        <4>1. until \in Int /\ until >= t + Duration /\ l.until = until
          BY <2>2, <2>4, ClockAssumption DEF Lease
        <4>2. ranges' = [ ranges EXCEPT ![r].lease = l ]
          BY <2>4, <3>2, Zenon DEF RenewRangeLease, RangeRecord
        <4> HIDE DEF l
        <4>3. /\ DOMAIN ranges' = DOMAIN ranges /\ ranges'[r].lease = l
              /\ \A x \in DOMAIN ranges : x # r => ranges'[x] = ranges[x]
          BY <2>4, <4>2, Zenon DEF RangeRecord
        <4> QED BY <4>1, <4>3, Zenon
      <3> QED BY <2>1, <3>1, <3>2, Zenon
    <2>6. ranges'[r].lease.until \in Int
      BY <1>0, <2>5, Zenon DEF ChainInv, RangesTyped, RangeRecord, Lease
    <2>7. promised'[r] <= ranges'[r].lease.until - Skew
      BY <2>2, <2>3, <2>5, <2>6, SkewSmall, ClockAssumption DEF TimeInv
    <2> QED BY <1>0, <1>1, <2>3, <2>5, <2>7, ClockAssumption, SkewSmall DEF TimeInv
  <1>2. CASE ~Election
    <2>1. promised' = promised /\ (now' = now \/ now' = now + 1)
      BY <1>2, Zenon DEF Next, vars, Tick
    <2>2. \A r \in DOMAIN ranges' : ranges'[r].lease # NoLease =>
            ranges'[r].lease.until = Never \/ (r \in DOMAIN ranges /\ ranges'[r].lease = ranges[r].lease)
      <3>1. ASSUME NEW r \in DOMAIN ranges, NEW n \in Nodes, NEW kind \in Kinds, Mint(r, n, Never, kind)
            PROVE  /\ DOMAIN ranges' = DOMAIN ranges /\ ranges'[r].lease.until = Never
                   /\ \A x \in DOMAIN ranges : x # r => ranges'[x] = ranges[x]
        <4>1. Never \in Int
          BY DEF Never
        <4> QED BY <3>1, <4>1, MintEffect, Zenon
      <3>2. ASSUME NEW L, Steady(L)
            PROVE  \A r \in DOMAIN ranges' : ranges'[r].lease # NoLease => r \in DOMAIN ranges /\ ranges'[r].lease = ranges[r].lease
        BY <1>2, <3>2, Zenon DEF Steady, Lapsed, SameLease
      <3> QED BY <1>2, <3>1, <3>2, LeaseMoves, Zenon DEF Minted, Kept
    <2>3. \A r \in RangeIds : promised[r] <= now' + Duration - 2 * Skew
      BY <2>1, ClockAssumption, SkewSmall DEF TimeInv
    <2>4. \A r \in DOMAIN ranges' : ranges'[r].lease # NoLease /\ ranges'[r].lease.until # Never
            => promised[r] <= ranges'[r].lease.until - Skew
      BY <2>2, Zenon DEF TimeInv
    <2>5. now' \in Int
      BY <2>1 DEF TimeInv
    <2> QED BY <2>1, <2>3, <2>4, <2>5, Zenon DEF TimeInv, NoLease, Never, Skew, SkewBound, Smaller, Larger
  <1>3. CASE UNCHANGED << ranges, promised >> /\ (now' = now \/ now' = now + 1)
    BY <1>3, ClockAssumption, SkewSmall DEF TimeInv, NoLease, Never, Skew, SkewBound, Smaller, Larger
  <1> QED BY <1>1, <1>2, <1>3, Zenon DEF Next, vars, rangeVars, Tick

\* However far the two nodes' clocks are apart within the tolerated error, an
\* election takes a lease from another node only once the time its holder could
\* count on is over, and never takes one an operator granted (Electable).
THEOREM LeaseLastsHolds == Spec => LeaseLasts
  <1> DEFINE Lasts(r) == LET old == ranges[r].lease new == ranges'[r].lease IN
                         (old # NoLease /\ new # NoLease /\ new.until # Never /\ new.epoch # old.epoch /\ new.holder # old.holder)
                           => old.until # Never /\ now >= promised[r]
             A == \A r \in DOMAIN ranges : Lasts(r)
  <1>1. ASSUME ChainInv, TimeInv, [Next]_vars PROVE A
    <2>0. ASSUME NEW r \in DOMAIN ranges, NEW n \in Nodes, NEW until \in Int, NEW kind \in Kinds, Mint(r, n, until, kind)
          PROVE  /\ \A x \in DOMAIN ranges : x # r => ranges'[x] = ranges[x]
                 /\ ranges'[r].lease.holder = n /\ ranges'[r].lease.until = until
      BY <1>1, <2>0, MintEffect, Zenon
    <2>1. ASSUME NEW L, Steady(L) PROVE A
      BY <2>1, Zenon DEF Steady, Lapsed, SameLease
    <2>2. CASE ~Election
      <3>1. ASSUME NEW r \in DOMAIN ranges, NEW n \in Nodes, NEW kind \in Kinds, Mint(r, n, Never, kind) PROVE A
        <4>1. Never \in Int
          BY DEF Never
        <4> QED BY <2>0, <3>1, <4>1, Zenon
      <3> QED BY <1>1, <2>1, <2>2, <3>1, LeaseMoves, Zenon DEF Minted, Kept
    <2>3. CASE Election /\ UNCHANGED scen
      <3>1. PICK r \in DOMAIN ranges, n \in Nodes, t \in Readings :
              \/ AcquireRangeLease(r, n, t, Duration)
              \/ \E e \in Epochs : RenewRangeLease(r, n, e, t, Duration)
        BY <2>3, Zenon DEF Election
      <3>2. t \in Int /\ t <= now + Skew /\ t + Duration \in Int
        BY <1>1, SkewSmall, ClockAssumption DEF Readings, TimeInv, Skew
      <3>3. ranges[r].lease.until \in Int /\ r \in RangeIds
        BY <1>1, Zenon DEF ChainInv, RangesTyped, RangeRecord, Lease
      <3>4. CASE AcquireRangeLease(r, n, t, Duration)
        <4>1. Electable(r, n, t) /\ Mint(r, n, t + Duration, "Election") /\ "Election" \in Kinds
          BY <3>4, Zenon DEF AcquireRangeLease, Kinds
        <4>2. /\ \A x \in DOMAIN ranges : x # r => ranges'[x] = ranges[x]
              /\ ranges'[r].lease.holder = n
          BY <2>0, <3>2, <4>1, Zenon
        <4>3. ASSUME ranges[r].lease # NoLease, n # ranges[r].lease.holder
              PROVE  ranges[r].lease.until # Never /\ now >= promised[r]
          <5>1. ranges[r].lease.until # Never /\ t >= ranges[r].lease.until
            BY <3>2, <3>3, <4>1, <4>3 DEF Electable, LiveAt
          <5>2. promised[r] <= ranges[r].lease.until - Skew
            BY <1>1, <4>3, <5>1, Zenon DEF TimeInv
          <5> QED BY <1>1, <3>2, <3>3, <5>1, <5>2, SkewSmall DEF TimeInv
        <4> QED BY <4>2, <4>3, Zenon
      <3>5. ASSUME NEW e, RenewRangeLease(r, n, e, t, Duration) PROVE A
        BY <1>1, <2>1, <2>3, <3>2, <3>5, RenewSteady, Zenon
      <3> QED BY <3>1, <3>4, <3>5, Zenon
    <2> QED BY <1>1, <2>2, <2>3, Zenon DEF Next, vars
  <1>2. Spec => [](ChainInv /\ TimeInv)
    BY ChainInit, ChainStep, TimeInit, TimeStep, PTL DEF Spec
  <1>3. Spec => [][A]_vars
    BY <1>1, <1>2, PTL DEF Spec
  <1> QED BY <1>3, Zenon DEF LeaseLasts

-----------------------------------------------------------------------------
(* Groups and cursors. *)

\* The ranges a member of g may come to hold are nobody else's.
LEMMA SetOwned ==
  ASSUME OneOwner, NEW g, NEW m, NEW rs, NEW known,
         known = IF g \in DOMAIN members THEN members[g] ELSE << >>,
         g \in DOMAIN members => Unclaimed(g, m, rs),
         members' = Put(members, g, Put(known, m, rs))
  PROVE  OneOwner'
  <1>1. /\ DOMAIN members' = DOMAIN members \cup {g}
        /\ \A x \in DOMAIN members : x # g => members'[x] = members[x]
        /\ members'[g] = Put(known, m, rs)
    BY Zenon DEF Put
  <1>2. /\ DOMAIN members'[g] = DOMAIN known \cup {m}
        /\ members'[g][m] = rs
        /\ \A o \in DOMAIN known : o # m => members'[g][o] = known[o]
    BY <1>1, Zenon DEF Put
  <1>3. \A o \in DOMAIN known : o # m => known[o] \cap rs = {}
    BY DEF Unclaimed
  <1>4. \A o, p \in DOMAIN known : o # p => known[o] \cap known[p] = {}
    BY DEF OneOwner
  <1>5. \A o, p \in DOMAIN members'[g] : o # p => members'[g][o] \cap members'[g][p] = {}
    BY <1>2, <1>3, <1>4
  <1> QED BY <1>1, <1>5 DEF OneOwner

LEMMA GroupOwned ==
  ASSUME OneOwner, Group
  PROVE  OneOwner'
  <1>1. ASSUME NEW g, CreateConsumerGroup(g) PROVE OneOwner'
    BY <1>1 DEF CreateConsumerGroup, OneOwner, Put
  <1>2. ASSUME NEW g, NEW m, JoinConsumerGroup(g, m) PROVE OneOwner'
    BY <1>2 DEF JoinConsumerGroup, OneOwner, Put
  <1>3. ASSUME NEW g, NEW m, LeaveConsumerGroup(g, m) \/ ExpireStaleMember(g, m) PROVE OneOwner'
    BY <1>3 DEF LeaveConsumerGroup, ExpireStaleMember, OneOwner, Drop
  <1>4. ASSUME NEW g, NEW m, NEW rs, AssignMemberRanges(g, m, rs) PROVE OneOwner'
    BY <1>4 DEF AssignMemberRanges, OneOwner, Belongs, Unclaimed
  <1>5. ASSUME NEW g, NEW m, NEW r, EnsureGroupMember(g, m, r) PROVE OneOwner'
    <2> DEFINE known == IF g \in DOMAIN members THEN members[g] ELSE << >>
               rs == (IF m \in DOMAIN known THEN known[m] ELSE {}) \cup {r}
    <2>1. g \in DOMAIN members => Unclaimed(g, m, rs)
      BY <1>5, Zenon DEF EnsureGroupMember, Unclaimed, OneOwner
    <2>2. members' = Put(members, g, Put(known, m, rs)) /\ known = IF g \in DOMAIN members THEN members[g] ELSE << >>
      BY <1>5, Zenon DEF EnsureGroupMember
    <2> HIDE DEF known, rs
    <2> QED BY <2>1, <2>2, SetOwned, Zenon
  <1>6. ASSUME NEW g, NEW m, NEW r, NEW lineage, NEW s, NEW offset, CommitGroupCursor(g, m, r, lineage, s, offset)
        PROVE  OneOwner'
    BY <1>6, Zenon DEF OneOwner, CommitGroupCursor
  <1> QED BY <1>1, <1>2, <1>3, <1>4, <1>5, <1>6, Zenon DEF Group

\* A range belongs to one member of a group at most, whichever way the gateways
\* and the coordinator hand the ranges out (assign_member_ranges,
\* ensure_group_member).
THEOREM OneOwnerHolds == Spec => []OneOwner
  <1>1. Init => OneOwner
    BY DEF Init, OneOwner
  <1>2. OneOwner /\ [Next]_vars => OneOwner'
    <2>1. OneOwner /\ UNCHANGED members => OneOwner'
      BY Zenon DEF OneOwner
    <2> QED BY <2>1, GroupOwned, Zenon DEF Next, vars, groupVars
  <1> QED BY <1>1, <1>2, PTL DEF Spec

\* The offsets of the cursors are numbers.
CursorsTyped == scen \in Scenarios /\ \A k \in DOMAIN cursors : cursors[k].offset \in Nat

LEMMA CursorMoves ==
  ASSUME CursorsTyped, NEW g, NEW m, NEW r, NEW lineage, NEW s, NEW offset \in Nat,
         CommitGroupCursor(g, m, r, lineage, s, offset)
  PROVE  /\ \A k \in DOMAIN cursors' : cursors'[k].offset \in Nat
         /\ \A k \in DOMAIN cursors :
              /\ k \in DOMAIN cursors'
              /\ cursors'[k].offset < cursors[k].offset => Unpinned(cursors[k]) /\ Unpinned(cursors'[k])
  <1> DEFINE new == [ offset |-> offset, segment |-> s, lineage |-> ranges[r].lineage,
                      generation |-> IF s = NoSegment THEN 0 ELSE segments[s].generation ]
             key == << g, r >>
  <1>1. cursors' = Put(cursors, key, new) /\ (key \in DOMAIN cursors => MovesTo(cursors[key], new))
    BY Zenon DEF CommitGroupCursor
  <1>2. new.offset = offset
    BY Zenon
  <1> HIDE DEF new, key
  <1>3. /\ DOMAIN cursors' = DOMAIN cursors \cup {key} /\ cursors'[key] = new
        /\ \A k \in DOMAIN cursors : k # key => cursors'[k] = cursors[k]
    BY <1>1, Zenon DEF Put
  <1>4. key \in DOMAIN cursors /\ new.offset < cursors[key].offset => Unpinned(cursors[key]) /\ Unpinned(new)
    BY <1>1, <1>2, SMTT(20) DEF MovesTo, CursorsTyped, Unpinned
  <1>5. \A k \in DOMAIN cursors' : cursors'[k].offset \in Nat
    BY <1>2, <1>3, Zenon DEF CursorsTyped
  <1>6. ASSUME NEW k \in DOMAIN cursors
        PROVE  /\ k \in DOMAIN cursors'
               /\ cursors'[k].offset < cursors[k].offset => Unpinned(cursors[k]) /\ Unpinned(cursors'[k])
    BY <1>3, <1>4 DEF CursorsTyped
  <1> QED BY <1>5, <1>6, SMTT(20)

\* A durable cursor is never lost with its member, and moves backward only as a
\* head cursor that stays one (commit_group_cursor, expire_stale_member).
THEOREM CursorsKeepPlaceHolds == Spec => CursorsKeepPlace
  <1> DEFINE Keeps == \A k \in DOMAIN cursors :
                        /\ k \in DOMAIN cursors'
                        /\ cursors'[k].offset < cursors[k].offset => Unpinned(cursors[k]) /\ Unpinned(cursors'[k])
  <1>1. Init => CursorsTyped
    BY DEF Init, CursorsTyped
  <1>2. CursorsTyped /\ [Next]_vars => CursorsTyped' /\ Keeps
    <2> SUFFICES ASSUME CursorsTyped, [Next]_vars PROVE CursorsTyped' /\ Keeps
      BY Zenon
    <2>1. scen' = scen
      BY Zenon DEF Next, vars
    <2>2. CASE UNCHANGED cursors
      BY <2>1, <2>2 DEF CursorsTyped
    <2>3. ASSUME NEW g, NEW m, NEW r, NEW lineage, NEW s, NEW offset \in Offsets,
                 CommitGroupCursor(g, m, r, lineage, s, offset)
          PROVE  CursorsTyped' /\ Keeps
      <3>1. offset \in Nat
        BY ScenarioAssumption DEF CursorsTyped, Offsets
      <3> QED BY <2>1, <2>3, <3>1, CursorMoves, Zenon DEF CursorsTyped
    <2>4. CASE Group
      BY <2>2, <2>3, <2>4, Zenon DEF Group, CreateConsumerGroup, JoinConsumerGroup, LeaveConsumerGroup, ExpireStaleMember,
         AssignMemberRanges, EnsureGroupMember
    <2> QED BY <2>2, <2>4, Zenon DEF Next, vars, groupVars
  <1> QED BY <1>1, <1>2, PTL DEF Spec, CursorsKeepPlace

-----------------------------------------------------------------------------
(* The interval of a range, its topic and its split: only the creation of a  *)
(* topic and a split touch them.                                             *)

SameShape(r) ==
  /\ ranges'[r].topic = ranges[r].topic /\ ranges'[r].split = ranges[r].split
  /\ ranges'[r].prefix = ranges[r].prefix /\ ranges'[r].bits = ranges[r].bits

Unshaped ==
  /\ DOMAIN ranges' = DOMAIN ranges /\ topics' = topics
  /\ \A r \in DOMAIN ranges : SameShape(r)

Created(t, root) ==
  /\ t \in Topics /\ topics[t] = 0 /\ root \notin DOMAIN ranges
  /\ \E latest \in Nat : topics' = [ topics EXCEPT ![t] = latest + 1 ]
  /\ DOMAIN ranges' = DOMAIN ranges \cup {root}
  /\ \A r \in DOMAIN ranges : SameShape(r)
  /\ ranges'[root].topic = t /\ ~ranges'[root].split.sealed
  /\ ranges'[root].prefix = 0 /\ ranges'[root].bits = 0

\* The half of parent r that starts at `prefix`.
Half(r, child, prefix) ==
  /\ ranges'[child].topic = ranges[r].topic /\ ~ranges'[child].split.sealed
  /\ ranges'[child].prefix = prefix /\ ranges'[child].bits = ranges[r].bits + 1

Split(r, left, right, barrier) ==
  /\ r \in DOMAIN ranges /\ ~ranges[r].split.sealed /\ ranges[r].bits < KeyBits
  /\ left # right /\ left \notin DOMAIN ranges /\ right \notin DOMAIN ranges
  /\ barrier \in Nat /\ \A s \in DOMAIN segments : segments[s].range = r => segments[s].next <= barrier
  /\ topics' = topics
  /\ DOMAIN ranges' = DOMAIN ranges \cup {left, right}
  /\ \A x \in DOMAIN ranges : x # r => SameShape(x)
  /\ ranges'[r].topic = ranges[r].topic /\ ranges'[r].split.sealed /\ ranges'[r].split.barrier = barrier
  /\ ranges'[r].prefix = ranges[r].prefix /\ ranges'[r].bits = ranges[r].bits
  /\ Half(r, left, ranges[r].prefix)
  /\ Half(r, right, ranges[r].prefix + 2 ^ (KeyBits - (ranges[r].bits + 1)))

LEMMA SplitShape ==
  ASSUME RangesTyped, NEW r \in DOMAIN ranges, NEW n, NEW e, NEW barrier \in Nat, NEW ends,
         \A s \in DOMAIN segments : segments[s].range = r => segments[s].next \in ends,
         NEW left \in FreshRange({}), NEW right \in FreshRange({left}),
         SplitRange(r, n, e, left, right, barrier, ends)
  PROVE  Split(r, left, right, barrier)
  <1> DEFINE parent == ranges[r]
             halves == Children(parent.prefix, parent.bits)
             Child(prefix) == Newborn(parent.topic, prefix, parent.bits + 1, parent.lineage + 1, {r})
             sealed == [ ranges EXCEPT ![r].split = [ sealed |-> TRUE, barrier |-> barrier ] ]
             one == Put(sealed, left, Child(halves[1]))
             c1 == Child(halves[1])
             c2 == Child(halves[2])
  <1>1. parent \in RangeRecord
    BY Zenon DEF RangesTyped
  <1>2. /\ DOMAIN sealed = DOMAIN ranges
        /\ \A x \in DOMAIN ranges : x # r => sealed[x] = ranges[x]
        /\ sealed[r].topic = parent.topic /\ sealed[r].prefix = parent.prefix /\ sealed[r].bits = parent.bits
        /\ sealed[r].split.sealed /\ sealed[r].split.barrier = barrier
    BY <1>1, Zenon DEF RangeRecord
  <1>3. one = Put(sealed, left, c1) /\ ranges' = Put(one, right, c2) /\ topics' = topics
    BY Zenon DEF SplitRange
  <1>4. left # right /\ left \notin DOMAIN ranges /\ right \notin DOMAIN ranges
    BY FreshIsNew, Zenon
  <1>5. /\ c1.topic = parent.topic /\ c1.prefix = parent.prefix /\ c1.bits = parent.bits + 1 /\ ~c1.split.sealed
        /\ c2.topic = parent.topic /\ c2.prefix = parent.prefix + 2 ^ (KeyBits - (parent.bits + 1))
        /\ c2.bits = parent.bits + 1 /\ ~c2.split.sealed
    BY Zenon DEF Newborn, Children, Open
  <1>6. /\ ~ranges[r].split.sealed /\ ranges[r].bits < KeyBits
        /\ \A s \in DOMAIN segments : segments[s].range = r => segments[s].next <= barrier
    BY Zenon DEF SplitRange
  <1> HIDE DEF c1, c2, one, sealed, Child, halves
  <1>7. /\ DOMAIN ranges' = DOMAIN ranges \cup {left, right}
        /\ ranges'[left] = c1 /\ ranges'[right] = c2
        /\ \A x \in DOMAIN ranges : ranges'[x] = sealed[x]
    <2>1. DOMAIN one = DOMAIN ranges \cup {left} /\ one[left] = c1 /\ \A x \in DOMAIN ranges : one[x] = sealed[x]
      BY <1>2, <1>3, <1>4, Zenon DEF Put
    <2> QED BY <1>3, <1>4, <2>1, Zenon DEF Put
  <1> QED BY <1>2, <1>3, <1>4, <1>5, <1>6, <1>7, ZenonT(20) DEF Split, Half, SameShape

\* The lease of a range is not part of its shape, nor is its epoch.
LEMMA MintShape ==
  ASSUME RangesTyped, NEW r \in DOMAIN ranges, NEW n, NEW until, NEW kind, Mint(r, n, until, kind)
  PROVE  Unshaped
  <1>1. ranges[r] \in RangeRecord
    BY Zenon DEF RangesTyped
  <1> QED BY <1>1, Zenon DEF Mint, RangeRecord, Unshaped, SameShape

LEMMA LapseShape ==
  ASSUME RangesTyped, NEW r \in DOMAIN ranges, UNCHANGED topics, ranges' = [ ranges EXCEPT ![r].lease = NoLease ]
  PROVE  Unshaped
  <1>1. ranges[r] \in RangeRecord
    BY Zenon DEF RangesTyped
  <1> QED BY <1>1, Zenon DEF RangeRecord, Unshaped, SameShape

LEMMA RenewShape ==
  ASSUME RangesTyped, NEW r \in DOMAIN ranges, NEW n, NEW e, NEW t, RenewRangeLease(r, n, e, t, Duration)
  PROVE  Unshaped
  <1>1. ranges[r] \in RangeRecord
    BY Zenon DEF RangesTyped
  <1> QED BY <1>1, Zenon DEF RenewRangeLease, RangeRecord, Unshaped, SameShape

LEMMA CreateShape ==
  ASSUME topics \in [ Topics -> Nat ], NEW t \in Topics, NEW root, CreateTopic(t, root)
  PROVE  Created(t, root)
  <1> DEFINE child == Newborn(t, 0, 0, 0, {})
  <1>1. child.topic = t /\ child.prefix = 0 /\ child.bits = 0 /\ ~child.split.sealed
    BY Zenon DEF Newborn, Open
  <1>2. ranges' = Put(ranges, root, child) /\ topics[t] = 0 /\ root \notin DOMAIN ranges
    BY Zenon DEF CreateTopic
  <1>3. \E latest \in Nat : topics' = [ topics EXCEPT ![t] = latest + 1 ]
    BY Zenon DEF CreateTopic
  <1> HIDE DEF child
  <1>4. /\ DOMAIN ranges' = DOMAIN ranges \cup {root} /\ ranges'[root] = child
        /\ \A x \in DOMAIN ranges : ranges'[x] = ranges[x]
    BY <1>2, Zenon DEF Put
  <1> QED BY <1>1, <1>2, <1>3, <1>4, Zenon DEF Created, SameShape

Reshaped ==
  \/ \E t \in Topics, root \in RangeIds : Created(t, root)
  \/ \E r \in DOMAIN ranges, left, right \in RangeIds, barrier \in Nat : Split(r, left, right, barrier)

\* What a step does to the shapes of the ranges.
LEMMA ShapeMoves ==
  ASSUME RangesTyped, topics \in [ Topics -> Nat ], [Next]_vars
  PROVE  Unshaped \/ (Reshaped /\ Administration)
  <1>1. ASSUME UNCHANGED << ranges, topics >> PROVE Unshaped
    BY <1>1, Zenon DEF Unshaped, SameShape
  <1>2. CASE Administration
    <2>1. ASSUME NEW t \in Topics, NEW r \in FreshRange({}), CreateTopic(t, r) PROVE Reshaped
      BY <2>1, CreateShape, FreshIsNew, Zenon DEF Reshaped
    <2>2. ASSUME NEW r \in DOMAIN ranges, NEW n, GrantRangeLease(r, n) PROVE Unshaped
      BY <2>2, MintShape, Zenon DEF GrantRangeLease
    <2>3. ASSUME NEW r \in DOMAIN ranges, NEW e, ReleaseRangeLease(r, e) PROVE Unshaped
      BY <2>3, LapseShape, Zenon DEF ReleaseRangeLease
    <2>4. ASSUME NEW r \in DOMAIN ranges, NEW Q, SetRangeReplicaSet(r, Q) PROVE Unshaped
      BY <2>4, LapseShape, Zenon DEF SetRangeReplicaSet
    <2>5. ASSUME NEW r \in DOMAIN ranges, NEW n, NEW e, NEW barrier \in Offsets,
                 NEW left \in FreshRange({}), NEW right \in FreshRange({left}),
                 SplitRange(r, n, e, left, right, barrier,
                    Positions(r) \cup { segments[s].next : s \in { s \in DOMAIN segments : segments[s].range = r } })
          PROVE Reshaped
      <3> DEFINE ends == Positions(r) \cup { segments[s].next : s \in { s \in DOMAIN segments : segments[s].range = r } }
      <3>1. barrier \in Nat
        BY ScenarioAssumption DEF Offsets, RangesTyped
      <3>2. \A s \in DOMAIN segments : segments[s].range = r => segments[s].next \in ends
        BY Zenon
      <3>3. SplitRange(r, n, e, left, right, barrier, ends)
        BY <2>5, Zenon
      <3> HIDE DEF ends
      <3>4. Split(r, left, right, barrier)
        BY <3>1, <3>2, <3>3, SplitShape, Zenon
      <3> QED BY <3>1, <3>4, FreshIsNew, Zenon DEF Reshaped
    <2>6. ASSUME \/ \E l : SetFeatureLevel(l)
                 \/ \E n : RegisterNode(n)
                 \/ \E n, state : SetNodeState(n, state)
                 \/ \E n, d : SetNodePlacementAttrs(n, d)
                 \/ \E r, n, e, holding, outcome : ReportPromotionOutcome(r, n, e, outcome, holding)
          PROVE Unshaped
      BY <1>1, <2>6, Zenon DEF SetFeatureLevel, RegisterNode, SetNodeState, SetNodePlacementAttrs, ReportPromotionOutcome
    <2> QED BY <1>2, <2>1, <2>2, <2>3, <2>4, <2>5, <2>6, Zenon DEF Administration
  <1>3. CASE Election
    <2>1. PICK r \in DOMAIN ranges, n \in Nodes, t \in Readings :
            \/ AcquireRangeLease(r, n, t, Duration)
            \/ \E e \in Epochs : RenewRangeLease(r, n, e, t, Duration)
      BY <1>3, Zenon DEF Election
    <2>2. CASE AcquireRangeLease(r, n, t, Duration)
      BY <2>2, MintShape, Zenon DEF AcquireRangeLease
    <2>3. ASSUME NEW e, RenewRangeLease(r, n, e, t, Duration) PROVE Unshaped
      BY <2>3, RenewShape, Zenon
    <2> QED BY <2>1, <2>2, <2>3, Zenon
  <1> QED BY <1>1, <1>2, <1>3, Zenon DEF Next, vars, rangeVars

-----------------------------------------------------------------------------
(* Every key has one owner. *)

Keys == 0 .. 2 ^ KeyBits - 1

\* A range starts at a multiple of its width.
Aligned(r) == \E q \in Nat : ranges[r].prefix = q * 2 ^ (KeyBits - ranges[r].bits)

Owns(r, t, key) == ranges[r].topic = t /\ ~ranges[r].split.sealed /\ Contains(r, key)

Owned(t, key) ==
  \E r \in DOMAIN ranges : Owns(r, t, key) /\ \A x \in DOMAIN ranges : Owns(x, t, key) => x = r

KeysInv ==
  /\ topics \in [ Topics -> Nat ]
  /\ \A r \in DOMAIN ranges : topics[ranges[r].topic] > 0 /\ Aligned(r)
  /\ \A t \in Topics, key \in Keys : topics[t] > 0 => Owned(t, key)

LEMMA MultipleDiv ==
  ASSUME NEW H \in Nat \ {0}, NEW q \in Nat
  PROVE  (q * H) \div H = q
  OBVIOUS

LEMMA Halved ==
  ASSUME NEW H \in Nat \ {0}, NEW q \in Nat
  PROVE  q * (2 * H) = (2 * q) * H /\ q * (2 * H) + H = (2 * q + 1) * H
  OBVIOUS

LEMMA BelowDiv ==
  ASSUME NEW H \in Nat \ {0}, NEW k \in 0 .. H - 1
  PROVE  k \div H = 0 /\ 0 \div H = 0
  OBVIOUS

LEMMA KeyIsNat == Keys \subseteq Nat /\ 2 ^ KeyBits \in Nat \ {0}
  <1>1. KeyBits \in 0 .. KeyBits
    BY KeyBitsAssumption
  <1> QED BY <1>1, KeyBitsAssumption DEF Keys

LEMMA SameContains ==
  ASSUME NEW r, NEW key, SameShape(r)
  PROVE  /\ Contains(r, key)' <=> Contains(r, key)
         /\ \A t : Owns(r, t, key)' <=> Owns(r, t, key)
         /\ Aligned(r)' <=> Aligned(r)
  BY Zenon DEF SameShape, Contains, Owns, Aligned

\* The two halves of a range share its keys out between them.
LEMMA SplitKeys ==
  ASSUME RangesTyped, KeysInv, NEW r, NEW left, NEW right, NEW barrier, Split(r, left, right, barrier), NEW key \in Keys
  PROVE  /\ Contains(r, key) <=> (Contains(left, key)' \/ Contains(right, key)')
         /\ ~(Contains(left, key)' /\ Contains(right, key)')
         /\ Aligned(r)' /\ Aligned(left)' /\ Aligned(right)'
  <1> DEFINE b == ranges[r].bits
             p == ranges[r].prefix
             c == KeyBits - (b + 1)
             H == 2 ^ c
  <1>1. b \in Nat /\ b < KeyBits /\ p \in Nat /\ key \in Nat
    BY KeyIsNat, KeyBitsAssumption, SMTT(30) DEF Split, RangesTyped, RangeRecord
  <1>2. c \in 0 .. KeyBits /\ c + 1 = KeyBits - b /\ KeyBits - (b + 1) = c
    BY <1>1, KeyBitsAssumption
  <1>3. H \in Nat \ {0} /\ 2 ^ (KeyBits - b) = 2 * H
    <2>1. 2 ^ (c + 1) = 2 * 2 ^ c /\ 2 ^ c \in Nat \ {0}
      BY <1>2, KeyBitsAssumption, Zenon
    <2> HIDE DEF c
    <2> QED BY <1>2, <2>1, Zenon
  <1>4. PICK q \in Nat : p = q * (2 * H)
    <2>1. Aligned(r)
      BY Zenon DEF KeysInv, Split
    <2> QED BY <1>3, <2>1, Zenon DEF Aligned
  <1>5. /\ Contains(r, key) <=> key \div (2 * H) = p \div (2 * H)
        /\ Contains(left, key)' <=> key \div H = p \div H
        /\ Contains(right, key)' <=> key \div H = (p + H) \div H
    <2>1. /\ ranges'[left].bits = b + 1 /\ ranges'[left].prefix = p
          /\ ranges'[right].bits = b + 1 /\ ranges'[right].prefix = p + H
      BY Zenon DEF Split, Half
    <2>2. Contains(r, key) <=> key \div (2 * H) = p \div (2 * H)
      BY <1>3, Zenon DEF Contains
    <2>3. Contains(left, key)' <=> key \div H = p \div H
      BY <2>1, Zenon DEF Contains
    <2>4. Contains(right, key)' <=> key \div H = (p + H) \div H
      BY <2>1, Zenon DEF Contains
    <2> QED BY <2>2, <2>3, <2>4, Zenon
  <1>6. /\ Aligned(r)' <=> Aligned(r)
        /\ Aligned(left)' <=> \E i \in Nat : p = i * H
        /\ Aligned(right)' <=> \E i \in Nat : p + H = i * H
    BY Zenon DEF Aligned, Split, Half
  <1>7. Aligned(r)
    BY Zenon DEF KeysInv, Split
  <1> HIDE DEF b, p, c, H
  <1>8. 2 * H \in Nat \ {0} /\ 2 * q \in Nat /\ 2 * q + 1 \in Nat
    BY <1>3
  <1>9. p = (2 * q) * H /\ p + H = (2 * q + 1) * H
    BY <1>3, <1>4, Halved, Zenon
  <1>10. p \div (2 * H) = q /\ p \div H = 2 * q /\ (p + H) \div H = 2 * q + 1
    BY <1>3, <1>4, <1>8, <1>9, MultipleDiv, Zenon
  <1>11. (key \div (2 * H) = q) <=> (key \div H = 2 * q \/ key \div H = 2 * q + 1)
    BY <1>1, <1>3
  <1> QED BY <1>5, <1>6, <1>7, <1>8, <1>9, <1>10, <1>11

LEMMA KeysUnshaped ==
  ASSUME KeysInv, Unshaped
  PROVE  KeysInv'
  <1>1. \A r \in DOMAIN ranges : \A key : Aligned(r)' /\ \A t : Owns(r, t, key)' <=> Owns(r, t, key)
    BY SameContains, Zenon DEF Unshaped, KeysInv
  <1>2. \A r \in DOMAIN ranges' : topics'[ranges'[r].topic] > 0
    BY Zenon DEF KeysInv, Unshaped, SameShape
  <1>3. ASSUME NEW t \in Topics, NEW key \in Keys, topics'[t] > 0 PROVE Owned(t, key)'
    <2>1. Owned(t, key)
      BY <1>3, Zenon DEF KeysInv, Unshaped
    <2> QED BY <1>1, <2>1, Zenon DEF Owned, Unshaped
  <1> QED BY <1>1, <1>2, <1>3, Zenon DEF KeysInv, Unshaped

\* The root of a new topic takes all its keys.
LEMMA KeysCreated ==
  ASSUME RangesTyped, KeysInv, NEW t, NEW root, Created(t, root)
  PROVE  KeysInv'
  <1>1. PICK latest \in Nat : topics' = [ topics EXCEPT ![t] = latest + 1 ]
    BY Zenon DEF Created
  <1>2. topics' \in [ Topics -> Nat ] /\ topics'[t] > 0 /\ \A u \in Topics : u # t => topics'[u] = topics[u]
    BY <1>1 DEF KeysInv, Created
  <1>3. \A r \in DOMAIN ranges : ranges[r].topic # t /\ ranges[r].topic \in Topics
    BY DEF KeysInv, Created, RangesTyped, RangeRecord
  <1>4. \A r \in DOMAIN ranges : \A key : Aligned(r)' /\ \A u : Owns(r, u, key)' <=> Owns(r, u, key)
    BY SameContains, Zenon DEF Created, KeysInv
  <1>5. Aligned(root)'
    <2>1. ranges'[root].prefix = 0 /\ ranges'[root].bits = 0
      BY Zenon DEF Created
    <2>2. KeyBits - 0 = KeyBits
      BY KeyBitsAssumption
    <2>3. 0 = 0 * 2 ^ KeyBits
      BY KeyIsNat, SMTT(30)
    <2> QED BY <2>1, <2>2, <2>3, Zenon DEF Aligned
  <1>6. \A r \in DOMAIN ranges' : topics'[ranges'[r].topic] > 0 /\ Aligned(r)'
    BY <1>2, <1>3, <1>4, <1>5 DEF KeysInv, Created, SameShape
  <1>7. ASSUME NEW u \in Topics, NEW key \in Keys, topics'[u] > 0 PROVE Owned(u, key)'
    <2>1. CASE u = t
      <3>1. Owns(root, t, key)'
        <4>1. /\ ranges'[root].topic = t /\ ~ranges'[root].split.sealed
              /\ ranges'[root].prefix = 0 /\ ranges'[root].bits = 0
          BY Zenon DEF Created
        <4>2. KeyBits - 0 = KeyBits
          BY KeyBitsAssumption
        <4>3. key \div 2 ^ KeyBits = 0 \div 2 ^ KeyBits
          BY BelowDiv, KeyIsNat, Zenon DEF Keys
        <4> QED BY <4>1, <4>2, <4>3, Zenon DEF Owns, Contains
      <3>2. \A r \in DOMAIN ranges : ~Owns(r, t, key)'
        BY <1>3, <1>4, Zenon DEF Owns
      <3> QED BY <2>1, <3>1, <3>2, Zenon DEF Owned, Created
    <2>2. CASE u # t
      <3>1. Owned(u, key)
        BY <1>2, <1>7, <2>2, Zenon DEF KeysInv
      <3>2. ~Owns(root, u, key)'
        BY <2>2, Zenon DEF Owns, Created
      <3> QED BY <1>4, <3>1, <3>2, Zenon DEF Owned, Created
    <2> QED BY <2>1, <2>2, Zenon
  <1> QED BY <1>2, <1>6, <1>7, Zenon DEF KeysInv

\* The keys of a sealed range go to its halves, and every other key stays.
LEMMA KeysSplit ==
  ASSUME RangesTyped, KeysInv, NEW r, NEW left, NEW right, NEW barrier, Split(r, left, right, barrier)
  PROVE  KeysInv'
  <1>0. 0 \in Keys
    BY KeyIsNat DEF Keys
  <1>1. /\ topics' = topics /\ DOMAIN ranges' = DOMAIN ranges \cup {left, right}
        /\ r \in DOMAIN ranges /\ left \notin DOMAIN ranges /\ right \notin DOMAIN ranges /\ left # right
        /\ \A x \in DOMAIN ranges : x # r => SameShape(x)
    BY Zenon DEF Split
  <1>2. /\ ranges'[r].topic = ranges[r].topic /\ ranges'[left].topic = ranges[r].topic /\ ranges'[right].topic = ranges[r].topic
        /\ ranges'[r].split.sealed /\ ~ranges[r].split.sealed
        /\ ~ranges'[left].split.sealed /\ ~ranges'[right].split.sealed
    BY Zenon DEF Split, Half
  <1>3. \A x \in DOMAIN ranges : x # r => Aligned(x)' /\ \A t, key : Owns(x, t, key)' <=> Owns(x, t, key)
    BY <1>1, SameContains, Zenon DEF KeysInv
  <1>4. \A x \in DOMAIN ranges' : topics'[ranges'[x].topic] > 0 /\ Aligned(x)'
    <2>1. Aligned(r)' /\ Aligned(left)' /\ Aligned(right)'
      BY <1>0, SplitKeys, Zenon
    <2>2. \A x \in DOMAIN ranges' : topics'[ranges'[x].topic] > 0
      BY <1>1, <1>2, ZenonT(20) DEF KeysInv, SameShape
    <2> QED BY <1>1, <1>3, <2>1, <2>2, Zenon
  <1>5. ASSUME NEW t \in Topics, NEW key \in Keys, topics'[t] > 0 PROVE Owned(t, key)'
    <2>1. PICK o \in DOMAIN ranges : Owns(o, t, key) /\ \A x \in DOMAIN ranges : Owns(x, t, key) => x = o
      BY <1>1, <1>5, Zenon DEF KeysInv, Owned
    <2>2. /\ ~Owns(r, t, key)'
          /\ Owns(r, t, key) <=> (Owns(left, t, key)' \/ Owns(right, t, key)')
          /\ ~(Owns(left, t, key)' /\ Owns(right, t, key)')
      BY <1>2, SplitKeys, Zenon DEF Owns
    <2>3. CASE o = r
      BY <1>1, <1>3, <2>1, <2>2, <2>3, Zenon DEF Owned
    <2>4. CASE o # r
      BY <1>1, <1>3, <2>1, <2>2, <2>4 DEF Owned
    <2> QED BY <2>3, <2>4, Zenon
  <1> QED BY <1>1, <1>4, <1>5, Zenon DEF KeysInv

LEMMA KeysStep == RangesTyped /\ KeysInv /\ [Next]_vars => KeysInv'
  <1> SUFFICES ASSUME RangesTyped, KeysInv, [Next]_vars PROVE KeysInv'
    BY Zenon
  <1>1. Unshaped \/ Reshaped
    BY ShapeMoves, Zenon DEF KeysInv
  <1> QED BY <1>1, KeysUnshaped, KeysCreated, KeysSplit, Zenon DEF Reshaped

LEMMA KeysInit == Init => KeysInv
  <1> SUFFICES ASSUME Init PROVE KeysInv
    BY Zenon
  <1>1. /\ topics = [ t \in Topics |-> IF t = 1 /\ scen.created THEN 1 ELSE 0 ]
        /\ DOMAIN ranges = IF scen.created THEN {1} ELSE {}
        /\ \A r \in DOMAIN ranges : ranges[r] = Newborn(1, 0, 0, 0, {})
        /\ scen.created => 1 \in Topics
    BY ScenarioAssumption, Zenon DEF Init
  <1>2. \A r \in DOMAIN ranges :
          /\ ranges[r].topic = 1 /\ ranges[r].prefix = 0 /\ ranges[r].bits = 0 /\ ~ranges[r].split.sealed
    <2> DEFINE b == Newborn(1, 0, 0, 0, {})
    <2>1. b.topic = 1 /\ b.prefix = 0 /\ b.bits = 0 /\ ~b.split.sealed
      BY Zenon DEF Newborn, Open
    <2> QED BY <1>1, <2>1, Zenon
  <1>3. KeyBits - 0 = KeyBits /\ 0 = 0 * 2 ^ KeyBits /\ \A key \in Keys : key \div 2 ^ KeyBits = 0 \div 2 ^ KeyBits
    <2> DEFINE H == 2 ^ KeyBits
    <2>1. H \in Nat \ {0} /\ Keys = 0 .. H - 1
      BY KeyIsNat, Zenon DEF Keys
    <2> HIDE DEF H
    <2>2. \A key \in Keys : key \div H = 0 \div H
      BY <2>1, BelowDiv, Zenon
    <2>3. KeyBits - 0 = KeyBits
      BY KeyBitsAssumption
    <2>4. 0 = 0 * H
      BY <2>1
    <2> QED BY <2>2, <2>3, <2>4, Zenon DEF H
  <1>4. \A r \in DOMAIN ranges : Aligned(r) /\ \A key \in Keys : Owns(r, 1, key)
    BY <1>2, <1>3, Zenon DEF Aligned, Owns, Contains
  <1>5. \A t \in Topics : topics[t] > 0 => t = 1 /\ 1 \in DOMAIN ranges /\ \A x \in DOMAIN ranges : x = 1
    BY <1>1
  <1> QED BY <1>1, <1>2, <1>4, <1>5 DEF KeysInv, Owned


-----------------------------------------------------------------------------
(* Segments. *)

States == { "SealedUnverified", "Verified", "RetirePlanned", "RetentionPlanned", "RetentionExpired" }

SegmentRecord == [ range : RangeIds, base : Nat, next : Nat, root : Roots, state : States, generation : Nat ]

SegmentsTyped ==
  /\ segments \in [ DOMAIN segments -> SegmentRecord ]
  /\ placement \in [ DOMAIN placement -> [ factor : 1 .. Cardinality(Nodes), replicas : SUBSET Nodes ] ]
  /\ intent \in [ DOMAIN intent -> [ from : Nodes, to : Nodes ] ]
  /\ policy \in [ Topics -> BOOLEAN ]
  /\ \A s \in DOMAIN segments : segments[s].range \in DOMAIN ranges

\* A registered segment of a split range ends at or before the barrier.
WithinBarrier ==
  \A s \in DOMAIN segments :
    LET split == ranges[segments[s].range].split
    IN  split.sealed => segments[s].next <= split.barrier

\* The proof held beside a move is of that move.
ProofOfMove ==
  /\ DOMAIN intent \subseteq DOMAIN placement
  /\ \A s \in DOMAIN intent : s \in DOMAIN proof => proof[s].source = intent[s].from /\ proof[s].dest = intent[s].to

PolicyRecorded == \A t \in Topics : policy[t] => t \in allowed

SegmentInv == SegmentsTyped /\ WithinBarrier /\ ProofOfMove /\ PolicyRecorded /\ DeletionBacked

\* Commands about the ranges: a range keeps its topic, and a split bounds the
\* segments there are.
LEMMA SegmentsUnderRanges ==
  ASSUME SegmentInv, RangesTyped, Unshaped \/ Reshaped, UNCHANGED << segmentVars, allowed >>
  PROVE  SegmentInv'
  <1>1. /\ DOMAIN ranges \subseteq DOMAIN ranges'
        /\ \A r \in DOMAIN ranges : ranges'[r].topic = ranges[r].topic
    <2>1. CASE Unshaped
      BY <2>1, Zenon DEF Unshaped, SameShape
    <2>2. ASSUME NEW t, NEW root, Created(t, root)
          PROVE  DOMAIN ranges \subseteq DOMAIN ranges' /\ \A r \in DOMAIN ranges : SameShape(r)
      BY <2>2, Zenon DEF Created
    <2>3. ASSUME NEW r, NEW left, NEW right, NEW barrier, Split(r, left, right, barrier)
          PROVE  /\ DOMAIN ranges \subseteq DOMAIN ranges'
                 /\ \A x \in DOMAIN ranges : ranges'[x].topic = ranges[x].topic
      BY <2>3, Zenon DEF Split, SameShape
    <2> QED BY <2>1, <2>2, <2>3, Zenon DEF Reshaped, SameShape
  <1>2. /\ segments' = segments /\ placement' = placement /\ intent' = intent /\ proof' = proof /\ tier' = tier /\ policy' = policy
        /\ allowed' = allowed
    BY Zenon DEF segmentVars
  <1>3. SegmentsTyped'
    BY <1>1, <1>2, Zenon DEF SegmentInv, SegmentsTyped
  <1>4. DeletionBacked'
    BY <1>1, <1>2, Zenon DEF SegmentInv, SegmentsTyped, DeletionBacked
  <1>5. ProofOfMove' /\ PolicyRecorded'
    BY <1>2, Zenon DEF SegmentInv, ProofOfMove, PolicyRecorded
  <1>6. WithinBarrier'
    <2> SUFFICES ASSUME NEW s \in DOMAIN segments, ranges'[segments[s].range].split.sealed
                 PROVE  segments[s].next <= ranges'[segments[s].range].split.barrier
      BY <1>2, Zenon DEF WithinBarrier
    <2>1. segments[s].range \in DOMAIN ranges
      BY Zenon DEF SegmentInv, SegmentsTyped
    <2>2. CASE SameShape(segments[s].range)
      BY <2>1, <2>2, Zenon DEF SameShape, SegmentInv, WithinBarrier
    <2>3. CASE \E left, right, barrier : Split(segments[s].range, left, right, barrier)
      BY <2>3, Zenon DEF Split
    <2>4. CASE Unshaped
      BY <2>1, <2>2, <2>4, Zenon DEF Unshaped
    <2>5. ASSUME NEW t, NEW root, Created(t, root) PROVE SameShape(segments[s].range)
      BY <2>1, <2>5, Zenon DEF Created
    <2>6. ASSUME NEW r, NEW left, NEW right, NEW barrier, Split(r, left, right, barrier), r # segments[s].range
          PROVE  SameShape(segments[s].range)
      BY <2>1, <2>6, Zenon DEF Split
    <2> QED BY <2>2, <2>3, <2>4, <2>5, <2>6, Zenon DEF Reshaped
  <1> QED BY <1>3, <1>4, <1>5, <1>6, Zenon DEF SegmentInv

Deleted(s) == segments[s].state \in { "RetentionPlanned", "RetentionExpired" }

\* What DeletionBacked asks of a segment planned for deletion.
Backed(s) ==
  /\ \/ s \in DOMAIN tier /\ tier[s].pinned /\ tier[s].root = segments[s].root
     \/ ranges[segments[s].range].topic \in allowed
  /\ s \notin DOMAIN intent /\ s \notin DOMAIN proof

\* A move in flight loses no copy but the one it ends on.
CopiesKept ==
  \A s \in DOMAIN intent :
    LET lost == placement[s].replicas \ placement'[s].replicas IN
    lost # {} => /\ s \notin DOMAIN intent'
                 /\ \/ lost = { intent[s].from } /\ s \in DOMAIN proof
                    \/ lost = { intent[s].to } /\ s \notin DOMAIN proof

\* What surrounds a command about segments.
About == UNCHANGED << ranges, scen >> /\ allowed' = allowed \cup { t \in Topics : policy'[t] }

LEMMA SteppedFields ==
  ASSUME SegmentInv, NEW s \in DOMAIN segments, NEW state \in States, segments' = Stepped(s, state)
  PROVE  /\ segments' \in [ DOMAIN segments -> SegmentRecord ] /\ DOMAIN segments' = DOMAIN segments
         /\ \A x \in DOMAIN segments : x # s => segments'[x] = segments[x]
         /\ segments'[s].state = state
         /\ \A x \in DOMAIN segments : /\ segments'[x].range = segments[x].range /\ segments'[x].next = segments[x].next
                                       /\ segments'[x].root = segments[x].root
  <1> DEFINE old == segments[s]
             new == [ old EXCEPT !.state = state, !.generation = old.generation + 1 ]
  <1>1. old \in SegmentRecord /\ old.generation + 1 \in Nat
    BY DEF SegmentInv, SegmentsTyped, SegmentRecord
  <1>2. new \in SegmentRecord /\ new.state = state /\ new.range = old.range /\ new.next = old.next /\ new.root = old.root
    BY <1>1, Zenon DEF SegmentRecord
  <1>3. segments' = [ segments EXCEPT ![s] = new ]
    BY <1>1, Zenon DEF Stepped, SegmentRecord
  <1> HIDE DEF new
  <1> QED BY <1>2, <1>3, Zenon DEF SegmentInv, SegmentsTyped

\* A step of one segment's state, into deletion only with backing.
LEMMA StateStep ==
  ASSUME SegmentInv, About, NEW s \in DOMAIN segments, NEW state \in States, segments' = Stepped(s, state),
         UNCHANGED << placement, intent, proof, tier, policy >>,
         state \in { "RetentionPlanned", "RetentionExpired" } => Backed(s)
  PROVE  SegmentInv' /\ CopiesKept
  <1>1. /\ segments' \in [ DOMAIN segments -> SegmentRecord ] /\ DOMAIN segments' = DOMAIN segments
        /\ \A x \in DOMAIN segments : x # s => segments'[x] = segments[x]
        /\ segments'[s].state = state
        /\ \A x \in DOMAIN segments : /\ segments'[x].range = segments[x].range /\ segments'[x].next = segments[x].next
                                      /\ segments'[x].root = segments[x].root
    BY SteppedFields, Zenon
  <1>2. SegmentsTyped' /\ WithinBarrier'
    BY <1>1, Zenon DEF SegmentInv, SegmentsTyped, WithinBarrier, About
  <1>3. ProofOfMove' /\ PolicyRecorded'
    BY Zenon DEF SegmentInv, ProofOfMove, PolicyRecorded, About
  <1>4. DeletionBacked'
    BY <1>1 DEF SegmentInv, DeletionBacked, Backed, About
  <1>5. CopiesKept
    BY Zenon DEF CopiesKept
  <1> QED BY <1>2, <1>3, <1>4, <1>5, Zenon DEF SegmentInv

LEMMA RegisterStep ==
  ASSUME SegmentInv, RangesTyped, About, NEW s, NEW r, NEW base \in Nat, NEW next \in Nat, NEW root \in Roots, NEW e,
         RegisterSealedSegment(s, r, base, next, root, e)
  PROVE  SegmentInv' /\ CopiesKept
  <1> DEFINE new == [ range |-> r, base |-> base, next |-> next, root |-> root, state |-> "SealedUnverified", generation |-> 0 ]
  <1>1. /\ r \in DOMAIN ranges /\ r \in RangeIds /\ s \notin DOMAIN segments
        /\ ranges[r].split.sealed => next <= ranges[r].split.barrier
        /\ segments' = Put(segments, s, new) /\ UNCHANGED << placement, intent, proof, tier, policy >>
    BY Zenon DEF RegisterSealedSegment, RangesTyped
  <1>2. new \in SegmentRecord /\ new.range = r /\ new.next = next /\ new.state = "SealedUnverified"
    BY <1>1, Zenon DEF SegmentRecord, States
  <1> HIDE DEF new
  <1>3. /\ DOMAIN segments' = DOMAIN segments \cup {s} /\ segments'[s] = new
        /\ \A x \in DOMAIN segments : segments'[x] = segments[x]
        /\ segments' = [ x \in DOMAIN segments' |-> segments'[x] ]
    BY <1>1, Zenon DEF Put
  <1>4. SegmentsTyped' /\ WithinBarrier'
    BY <1>1, <1>2, <1>3, SMTT(20) DEF SegmentInv, SegmentsTyped, WithinBarrier, About
  <1>5. ProofOfMove' /\ PolicyRecorded'
    BY <1>1, Zenon DEF SegmentInv, ProofOfMove, PolicyRecorded, About
  <1>6. DeletionBacked'
    BY <1>1, <1>2, <1>3 DEF SegmentInv, DeletionBacked, About
  <1>7. CopiesKept
    BY <1>1, Zenon DEF CopiesKept
  <1> QED BY <1>4, <1>5, <1>6, <1>7, Zenon DEF SegmentInv

LEMMA PlaceStep ==
  ASSUME SegmentInv, About, NEW s, NEW factor \in 1 .. Cardinality(Nodes), NEW Q, CommitSegmentPlacement(s, factor, Q)
  PROVE  SegmentInv' /\ CopiesKept
  <1> DEFINE new == [ factor |-> factor, replicas |-> Q ]
  <1>1. s \notin DOMAIN intent /\ placement' = Put(placement, s, new) /\ UNCHANGED << segments, intent, proof, tier, policy >>
    BY Zenon DEF CommitSegmentPlacement
  <1>2. Q \in SUBSET Nodes
    BY Zenon DEF CommitSegmentPlacement, Selections
  <1>3. new \in [ factor : 1 .. Cardinality(Nodes), replicas : SUBSET Nodes ]
    BY <1>2, Zenon
  <1> HIDE DEF new
  <1>4. /\ DOMAIN placement' = DOMAIN placement \cup {s} /\ placement'[s] = new
        /\ \A x \in DOMAIN placement : x # s => placement'[x] = placement[x]
        /\ placement' = [ x \in DOMAIN placement' |-> placement'[x] ]
    BY <1>1, Zenon DEF Put
  <1>5. SegmentsTyped' /\ WithinBarrier'
    BY <1>1, <1>3, <1>4, Zenon DEF SegmentInv, SegmentsTyped, WithinBarrier, About
  <1>6. ProofOfMove' /\ PolicyRecorded'
    BY <1>1, <1>4, Zenon DEF SegmentInv, ProofOfMove, PolicyRecorded, About
  <1>7. DeletionBacked'
    BY <1>1, Zenon DEF SegmentInv, DeletionBacked, About
  <1>8. CopiesKept
    BY <1>1, <1>4, Zenon DEF CopiesKept, SegmentInv, ProofOfMove
  <1> QED BY <1>5, <1>6, <1>7, <1>8, Zenon DEF SegmentInv

LEMMA ProofStep ==
  ASSUME SegmentInv, About, NEW s, NEW from, NEW to, NEW verifier, NEW root, NEW e,
         CommitReplacementProof(s, from, to, verifier, root, e)
  PROVE  SegmentInv' /\ CopiesKept
  <1> DEFINE this == [ generation |-> segments[s].generation, source |-> from, dest |-> to, epoch |-> e ]
  <1>1. /\ Is(s, "Verified") /\ proof' = Put(proof, s, this) /\ UNCHANGED << segments, placement, intent, tier, policy >>
        /\ s \in DOMAIN intent => intent[s].from = from /\ intent[s].to = to
    BY DEF CommitReplacementProof
  <1>2. this.source = from /\ this.dest = to
    BY Zenon
  <1> HIDE DEF this
  <1>3. /\ DOMAIN proof' = DOMAIN proof \cup {s} /\ proof'[s] = this
        /\ \A x \in DOMAIN proof : x # s => proof'[x] = proof[x]
    BY <1>1, Zenon DEF Put
  <1>4. SegmentsTyped' /\ WithinBarrier'
    BY <1>1, Zenon DEF SegmentInv, SegmentsTyped, WithinBarrier, About
  <1>5. ProofOfMove' /\ PolicyRecorded'
    BY <1>1, <1>2, <1>3, Zenon DEF SegmentInv, ProofOfMove, PolicyRecorded, About
  <1>6. DeletionBacked'
    BY <1>1, <1>3, Zenon DEF SegmentInv, DeletionBacked, About, Is
  <1>7. CopiesKept
    BY <1>1, Zenon DEF CopiesKept
  <1> QED BY <1>4, <1>5, <1>6, <1>7, Zenon DEF SegmentInv

LEMMA ReplicasFields ==
  ASSUME SegmentInv, NEW s \in DOMAIN placement, NEW Q \in SUBSET Nodes,
         placement' = [ placement EXCEPT ![s].replicas = Q ]
  PROVE  /\ DOMAIN placement' = DOMAIN placement /\ placement'[s].replicas = Q
         /\ \A x \in DOMAIN placement : x # s => placement'[x] = placement[x]
         /\ placement' \in [ DOMAIN placement -> [ factor : 1 .. Cardinality(Nodes), replicas : SUBSET Nodes ] ]
  <1>1. placement[s] \in [ factor : 1 .. Cardinality(Nodes), replicas : SUBSET Nodes ]
    BY Zenon DEF SegmentInv, SegmentsTyped
  <1> QED BY <1>1, Zenon DEF SegmentInv, SegmentsTyped

\* The retired copy is the one the move of its proof leaves.
LEMMA RetiredStep ==
  ASSUME SegmentInv, About, NEW s, NEW n, ConfirmReplicaRetired(s, n)
  PROVE  SegmentInv' /\ CopiesKept
  <1> DEFINE Q == placement[s].replicas \ {n}
  <1>1. /\ Is(s, "RetirePlanned") /\ s \in DOMAIN proof /\ proof[s].source = n
        /\ s \in DOMAIN placement /\ n \in placement[s].replicas
        /\ segments' = Stepped(s, "Verified") /\ UNCHANGED << tier, policy >>
        /\ placement' = [ placement EXCEPT ![s].replicas = Q ]
        /\ proof' = Drop(proof, s)
    BY Zenon DEF ConfirmReplicaRetired
  <1>2. IF s \in DOMAIN intent THEN intent' = Drop(intent, s) /\ n = intent[s].from ELSE intent' = intent
    <2>1. CASE s \in DOMAIN intent
      <3>1. intent[s] = [ from |-> n, to |-> proof[s].dest ]
        BY <1>1, <2>1, Zenon DEF SegmentInv, SegmentsTyped, ProofOfMove
      <3> QED BY <2>1, <3>1 DEF ConfirmReplicaRetired
    <2>2. CASE s \notin DOMAIN intent
      BY <2>2, Zenon DEF ConfirmReplicaRetired
    <2> QED BY <2>1, <2>2, Zenon
  <1>3. placement[s].replicas \in SUBSET Nodes /\ Q \in SUBSET Nodes
    BY <1>1, Zenon DEF SegmentInv, SegmentsTyped
  <1>4. /\ DOMAIN placement' = DOMAIN placement /\ placement'[s].replicas = Q
        /\ \A x \in DOMAIN placement : x # s => placement'[x] = placement[x]
        /\ placement' \in [ DOMAIN placement -> [ factor : 1 .. Cardinality(Nodes), replicas : SUBSET Nodes ] ]
    BY <1>1, <1>3, ReplicasFields, Zenon
  <1>5. /\ segments' \in [ DOMAIN segments -> SegmentRecord ] /\ DOMAIN segments' = DOMAIN segments
        /\ \A x \in DOMAIN segments : x # s => segments'[x] = segments[x]
        /\ segments'[s].state = "Verified"
        /\ \A x \in DOMAIN segments : /\ segments'[x].range = segments[x].range /\ segments'[x].next = segments[x].next
                                      /\ segments'[x].root = segments[x].root
    BY <1>1, SteppedFields, Zenon DEF Is, States
  <1>6. /\ DOMAIN intent' = DOMAIN intent \ {s} /\ \A x \in DOMAIN intent' : intent'[x] = intent[x]
        /\ intent' \in [ DOMAIN intent' -> [ from : Nodes, to : Nodes ] ]
        /\ DOMAIN proof' = DOMAIN proof \ {s} /\ \A x \in DOMAIN proof' : proof'[x] = proof[x]
    BY <1>1, <1>2, Zenon DEF Drop, SegmentInv, SegmentsTyped
  <1>7. SegmentsTyped' /\ WithinBarrier'
    BY <1>1, <1>4, <1>5, <1>6 DEF SegmentInv, SegmentsTyped, WithinBarrier, About
  <1>8. ProofOfMove' /\ PolicyRecorded'
    BY <1>4, <1>6, Zenon DEF SegmentInv, ProofOfMove, PolicyRecorded, About
  <1>9. DeletionBacked'
    BY <1>1, <1>5, <1>6 DEF SegmentInv, DeletionBacked, About
  <1>10. CopiesKept
    <2>1. placement[s].replicas \ placement'[s].replicas = {n}
      BY <1>1, <1>4, Zenon
    <2> QED BY <1>1, <1>2, <1>4, <1>6, <2>1, SMTT(30) DEF CopiesKept, SegmentInv, ProofOfMove
  <1> QED BY <1>7, <1>8, <1>9, <1>10, Zenon DEF SegmentInv

\* A move adds its destination before it takes anything away.
LEMMA ProposeStep ==
  ASSUME SegmentInv, About, NEW s, NEW from \in Nodes, NEW to \in Nodes, ProposeRebalance(s, from, to)
  PROVE  SegmentInv' /\ CopiesKept
  <1> DEFINE move == [ from |-> from, to |-> to ]
             Q == placement[s].replicas \cup {to}
  <1>1. /\ Is(s, "Verified") /\ s \in DOMAIN placement /\ s \notin DOMAIN intent /\ s \notin DOMAIN proof
        /\ intent' = Put(intent, s, move) /\ placement' = [ placement EXCEPT ![s].replicas = Q ]
        /\ UNCHANGED << segments, proof, tier, policy >>
    BY Zenon DEF ProposeRebalance
  <1>2. Q \in SUBSET Nodes /\ move \in [ from : Nodes, to : Nodes ]
    BY <1>1, Zenon DEF SegmentInv, SegmentsTyped
  <1> HIDE DEF move
  <1>3. /\ DOMAIN placement' = DOMAIN placement /\ placement'[s].replicas = Q
        /\ \A x \in DOMAIN placement : x # s => placement'[x] = placement[x]
        /\ placement' \in [ DOMAIN placement -> [ factor : 1 .. Cardinality(Nodes), replicas : SUBSET Nodes ] ]
    BY <1>1, <1>2, ReplicasFields, Zenon
  <1>4. /\ DOMAIN intent' = DOMAIN intent \cup {s} /\ \A x \in DOMAIN intent : intent'[x] = intent[x]
        /\ intent' \in [ DOMAIN intent' -> [ from : Nodes, to : Nodes ] ]
    BY <1>1, <1>2, Zenon DEF Put, SegmentInv, SegmentsTyped
  <1>5. SegmentsTyped' /\ WithinBarrier'
    BY <1>1, <1>3, <1>4, Zenon DEF SegmentInv, SegmentsTyped, WithinBarrier, About
  <1>6. ProofOfMove' /\ PolicyRecorded'
    BY <1>1, <1>3, <1>4 DEF SegmentInv, ProofOfMove, PolicyRecorded, About
  <1>7. DeletionBacked'
    BY <1>1, <1>4, Zenon DEF SegmentInv, DeletionBacked, About, Is
  <1>8. CopiesKept
    BY <1>1, <1>3, Zenon DEF CopiesKept, SegmentInv, ProofOfMove
  <1> QED BY <1>5, <1>6, <1>7, <1>8, Zenon DEF SegmentInv

\* Only a move nothing was proven of is cancelled.
LEMMA CancelStep ==
  ASSUME SegmentInv, About, NEW s, CancelRebalance(s)
  PROVE  SegmentInv' /\ CopiesKept
  <1> DEFINE Q == placement[s].replicas \ { intent[s].to }
  <1>1. /\ s \in DOMAIN intent /\ intent' = Drop(intent, s) /\ placement' = [ placement EXCEPT ![s].replicas = Q ]
        /\ UNCHANGED << segments, proof, tier, policy >>
    BY Zenon DEF CancelRebalance
  <1>2. s \notin DOMAIN proof /\ s \in DOMAIN placement
    BY <1>1, Zenon DEF CancelRebalance, SegmentInv, ProofOfMove
  <1>3. placement[s].replicas \in SUBSET Nodes /\ Q \in SUBSET Nodes
    BY <1>2, Zenon DEF SegmentInv, SegmentsTyped
  <1>4. /\ DOMAIN placement' = DOMAIN placement /\ placement'[s].replicas = Q
        /\ \A x \in DOMAIN placement : x # s => placement'[x] = placement[x]
        /\ placement' \in [ DOMAIN placement -> [ factor : 1 .. Cardinality(Nodes), replicas : SUBSET Nodes ] ]
    BY <1>1, <1>2, <1>3, ReplicasFields, Zenon
  <1>5. /\ DOMAIN intent' = DOMAIN intent \ {s} /\ \A x \in DOMAIN intent' : intent'[x] = intent[x]
        /\ intent' \in [ DOMAIN intent' -> [ from : Nodes, to : Nodes ] ]
    BY <1>1, Zenon DEF Drop, SegmentInv, SegmentsTyped
  <1>6. SegmentsTyped' /\ WithinBarrier'
    BY <1>1, <1>4, <1>5, Zenon DEF SegmentInv, SegmentsTyped, WithinBarrier, About
  <1>7. ProofOfMove' /\ PolicyRecorded'
    BY <1>1, <1>4, <1>5 DEF SegmentInv, ProofOfMove, PolicyRecorded, About
  <1>8. DeletionBacked'
    BY <1>1, <1>5, Zenon DEF SegmentInv, DeletionBacked, About
  <1>9. CopiesKept
    <2>1. placement[s].replicas \ placement'[s].replicas \subseteq { intent[s].to }
      BY <1>4, Zenon
    <2> QED BY <1>2, <1>4, <1>5, <2>1 DEF CopiesKept, SegmentInv, ProofOfMove
  <1> QED BY <1>6, <1>7, <1>8, <1>9, Zenon DEF SegmentInv

\* Evidence of a cold copy is added, never replaced; a policy that allows
\* deletion is remembered.
LEMMA EvidenceStep ==
  ASSUME SegmentInv, About, NEW s, NEW root, NEW pinned, NEW verifier, NEW e, CommitTierEvidence(s, root, pinned, verifier, e)
  PROVE  SegmentInv' /\ CopiesKept
  <1>1. s \notin DOMAIN tier /\ UNCHANGED << segments, placement, intent, proof, policy >>
        /\ \A x \in DOMAIN tier : x \in DOMAIN tier' /\ tier'[x] = tier[x]
    BY Zenon DEF CommitTierEvidence, Put
  <1>2. SegmentsTyped' /\ WithinBarrier' /\ ProofOfMove' /\ PolicyRecorded'
    BY <1>1, Zenon DEF SegmentInv, SegmentsTyped, WithinBarrier, ProofOfMove, PolicyRecorded, About
  <1>3. DeletionBacked'
    BY <1>1, Zenon DEF SegmentInv, DeletionBacked, About
  <1>4. CopiesKept
    BY <1>1, Zenon DEF CopiesKept
  <1> QED BY <1>2, <1>3, <1>4, Zenon DEF SegmentInv

LEMMA PolicyStep ==
  ASSUME SegmentInv, About, NEW t \in Topics, NEW yes \in BOOLEAN, SetTopicRetentionPolicy(t, yes)
  PROVE  SegmentInv' /\ CopiesKept
  <1>1. UNCHANGED << segments, placement, intent, proof, tier >> /\ policy' \in [ Topics -> BOOLEAN ]
    BY Zenon DEF SetTopicRetentionPolicy, SegmentInv, SegmentsTyped
  <1>2. SegmentsTyped' /\ WithinBarrier' /\ ProofOfMove' /\ PolicyRecorded'
    BY <1>1, Zenon DEF SegmentInv, SegmentsTyped, WithinBarrier, ProofOfMove, PolicyRecorded, About
  <1>3. DeletionBacked'
    BY <1>1, Zenon DEF SegmentInv, DeletionBacked, About
  <1>4. CopiesKept
    BY <1>1, Zenon DEF CopiesKept
  <1> QED BY <1>2, <1>3, <1>4, Zenon DEF SegmentInv

LEMMA PlanDeletionStep ==
  ASSUME SegmentInv, RangesTyped, About, NEW s, NEW e, NEW positions, PlanRetention(s, e, positions)
  PROVE  SegmentInv' /\ CopiesKept
  <1>1. /\ s \in DOMAIN segments /\ segments' = Stepped(s, "RetentionPlanned")
        /\ UNCHANGED << placement, intent, proof, tier, policy >>
        /\ s \notin DOMAIN intent /\ s \notin DOMAIN proof /\ Deletable(s)
    BY Zenon DEF PlanRetention, Is
  <1>2. ranges[segments[s].range].topic \in Topics
    BY <1>1, Zenon DEF SegmentInv, SegmentsTyped, RangesTyped, RangeRecord
  <1>3. Backed(s)
    BY <1>1, <1>2, Zenon DEF Backed, Deletable, Archived, SegmentInv, PolicyRecorded
  <1>4. "RetentionPlanned" \in States
    BY Zenon DEF States
  <1> QED BY <1>1, <1>3, <1>4, StateStep, Zenon

\* The replicas of an expired segment go; no move of it was in flight.
LEMMA ExpiredStep ==
  ASSUME SegmentInv, About, NEW s, ConfirmRetentionExpired(s)
  PROVE  SegmentInv' /\ CopiesKept
  <1>1. /\ s \in DOMAIN segments /\ segments[s].state = "RetentionPlanned" /\ segments' = Stepped(s, "RetentionExpired")
        /\ UNCHANGED << intent, proof, tier, policy >>
    BY Zenon DEF ConfirmRetentionExpired, Is
  <1>2. Backed(s)
    BY <1>1, Zenon DEF Backed, SegmentInv, DeletionBacked
  <1>3. /\ DOMAIN placement' = DOMAIN placement /\ \A x \in DOMAIN placement : x # s => placement'[x] = placement[x]
        /\ placement' \in [ DOMAIN placement -> [ factor : 1 .. Cardinality(Nodes), replicas : SUBSET Nodes ] ]
    <2>1. CASE s \in DOMAIN placement
      <3>1. placement' = [ placement EXCEPT ![s].replicas = {} ]
        BY <2>1, Zenon DEF ConfirmRetentionExpired
      <3>2. {} \in SUBSET Nodes
        BY Zenon
      <3> QED BY <2>1, <3>1, <3>2, ReplicasFields, Zenon
    <2>2. CASE s \notin DOMAIN placement
      BY <2>2, Zenon DEF ConfirmRetentionExpired, SegmentInv, SegmentsTyped
    <2> QED BY <2>1, <2>2, Zenon
  <1>4. /\ segments' \in [ DOMAIN segments -> SegmentRecord ] /\ DOMAIN segments' = DOMAIN segments
        /\ \A x \in DOMAIN segments : x # s => segments'[x] = segments[x]
        /\ \A x \in DOMAIN segments : /\ segments'[x].range = segments[x].range /\ segments'[x].next = segments[x].next
                                      /\ segments'[x].root = segments[x].root
    BY <1>1, SteppedFields, Zenon DEF States
  <1>5. SegmentsTyped' /\ WithinBarrier'
    BY <1>1, <1>3, <1>4, Zenon DEF SegmentInv, SegmentsTyped, WithinBarrier, About
  <1>6. ProofOfMove' /\ PolicyRecorded'
    BY <1>1, <1>3, ZenonT(20) DEF SegmentInv, ProofOfMove, PolicyRecorded, About
  <1>7. DeletionBacked'
    BY <1>1, <1>2, <1>4 DEF SegmentInv, DeletionBacked, Backed, About
  <1>8. CopiesKept
    BY <1>2, <1>3, Zenon DEF CopiesKept, Backed, SegmentInv, ProofOfMove
  <1> QED BY <1>5, <1>6, <1>7, <1>8, Zenon DEF SegmentInv

LEMMA SegmentCommand ==
  ASSUME SegmentInv, RangesTyped, About, Segment
  PROVE  SegmentInv' /\ CopiesKept
  <1>0. scen.roots \subseteq Roots /\ Offsets \subseteq Nat
    BY ScenarioAssumption DEF RangesTyped, Offsets
  <1>1. ASSUME NEW s, NEW r, NEW root \in scen.roots, NEW e, NEW base \in Offsets, NEW next \in Offsets,
               RegisterSealedSegment(s, r, base, next, root, e)
        PROVE SegmentInv' /\ CopiesKept
    BY <1>0, <1>1, RegisterStep, Zenon
  <1>2. ASSUME NEW s, NEW root, MarkSegmentVerified(s, root) PROVE SegmentInv' /\ CopiesKept
    BY <1>2, StateStep, Zenon DEF MarkSegmentVerified, Is, States
  <1>3. ASSUME NEW s, NEW n, NEW e, PlanReplicaRetirement(s, n, e) PROVE SegmentInv' /\ CopiesKept
    BY <1>3, StateStep, ZenonT(20) DEF PlanReplicaRetirement, Is, States
  <1> QED BY <1>1, <1>2, <1>3, PlaceStep, ProofStep, RetiredStep, ProposeStep, CancelStep, EvidenceStep, PolicyStep,
             PlanDeletionStep, ExpiredStep, Zenon DEF Segment

LEMMA SegmentInit == Init => SegmentInv
  BY DEF Init, SegmentInv, SegmentsTyped, WithinBarrier, ProofOfMove, PolicyRecorded, DeletionBacked

LEMMA SegmentStep ==
  RangesTyped /\ KeysInv /\ SegmentInv /\ [Next]_vars => SegmentInv' /\ CopiesKept
  <1> SUFFICES ASSUME RangesTyped, KeysInv, SegmentInv, [Next]_vars PROVE SegmentInv' /\ CopiesKept
    BY Zenon
  <1>1. Unshaped \/ Reshaped
    BY ShapeMoves, Zenon DEF KeysInv
  <1>2. CASE UNCHANGED << segmentVars, allowed >>
    <2>1. CopiesKept
      BY <1>2, Zenon DEF segmentVars, CopiesKept
    <2> QED BY <1>1, <1>2, <2>1, SegmentsUnderRanges, Zenon
  <1>3. CASE Segment /\ About
    BY <1>3, SegmentCommand, Zenon
  <1> QED BY <1>2, <1>3, Zenon DEF Next, vars, About, rangeVars

RecordInv == ChainInv /\ KeysInv /\ SegmentInv

LEMMA RecordInvHolds == Spec => []RecordInv
  <1>1. Init => RecordInv
    BY ChainInit, KeysInit, SegmentInit, Zenon DEF RecordInv
  <1>2. RecordInv /\ [Next]_vars => RecordInv'
    BY ChainStep, KeysStep, SegmentStep, Zenon DEF RecordInv, ChainInv
  <1> QED BY <1>1, <1>2, PTL DEF Spec

\* However the ranges of a topic split, each of its keys has one owner, and no
\* segment of a split range reaches past the barrier (create_topic, split_range,
\* register_sealed_segment).
THEOREM SplitsExactHolds == Spec => []SplitsExact
  <1>1. RecordInv => SplitsExact
    <2> SUFFICES ASSUME RecordInv PROVE SplitsExact
      BY Zenon
    <2>1. ASSUME NEW t \in Topics, NEW key \in Keys, topics[t] > 0 PROVE \E r \in DOMAIN ranges : Owners(t, key) = {r}
      <3>1. PICK r \in DOMAIN ranges : Owns(r, t, key) /\ \A x \in DOMAIN ranges : Owns(x, t, key) => x = r
        BY <2>1, Zenon DEF RecordInv, KeysInv, Owned
      <3> QED BY <3>1, Zenon DEF Owners, Owns
    <2>2. WithinBarrier
      BY Zenon DEF RecordInv, SegmentInv
    <2> QED BY <2>1, <2>2, Zenon DEF SplitsExact, WithinBarrier, Keys
  <1> QED BY <1>1, RecordInvHolds, PTL

\* A segment planned for deletion has its pinned cold copy on record, or a topic
\* that allowed deletion without one, and no move in flight (plan_retention,
\* commit_tier_evidence, set_topic_retention_policy).
THEOREM DeletionBackedHolds == Spec => []DeletionBacked
  <1>1. RecordInv => DeletionBacked
    BY Zenon DEF RecordInv, SegmentInv
  <1> QED BY <1>1, RecordInvHolds, PTL

\* A move in flight costs no copy: the source goes once the destination is proven,
\* or the destination once the move is cancelled (propose_rebalance,
\* cancel_rebalance, confirm_replica_retired).
THEOREM RebalanceKeepsCopiesHolds == Spec => RebalanceKeepsCopies
  <1>1. RecordInv /\ [Next]_vars => CopiesKept
    BY SegmentStep, Zenon DEF RecordInv, ChainInv
  <1>2. RecordInv /\ [Next]_vars => [CopiesKept]_vars
    BY <1>1, Zenon
  <1>3. Spec => [][CopiesKept]_vars
    BY <1>2, RecordInvHolds, PTL DEF Spec
  <1> QED BY <1>3, Zenon DEF RebalanceKeepsCopies, CopiesKept
=============================================================================
