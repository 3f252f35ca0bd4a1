----------------------------- MODULE VoteProofs ------------------------------
(***************************************************************************)
(* A vote stands until its promotion is decided, for any replica set and    *)
(* any number of leaderships, records and crashes. It rests on who may hold *)
(* an epoch, and is inductive without a word about histories.  Then what    *)
(* leaders have sent, and who answered.                                     *)
(***************************************************************************)
EXTENDS Replication, TLAPS

Roles == { "follower", "candidate", "leader", "down" }
Message == [ epoch : Nat, base : Nat, rec : Nat \ {0}, upto : Nat ]

\* A promotion's record; its votes are offsets of nodes.
IsProbe(p) ==
  /\ p = [ epoch |-> p.epoch, starts |-> p.starts, votes |-> p.votes, boundary |-> p.boundary,
           sent |-> p.sent, reported |-> p.reported ]
  /\ p.epoch \in Nat /\ p.reported \in BOOLEAN /\ DOMAIN p.votes \subseteq Nodes

IsFence(r) ==
  /\ r = [ from |-> r.from, epoch |-> r.epoch, starts |-> r.starts, stage |-> r.stage, at |-> r.at ]
  /\ r.epoch \in Nat

\* Logs are sequences of the epochs their records were written under.
LogsTyped == log \in [ Nodes -> Seq(Nat \ {0}) ]

TypeOK ==
  /\ scen \in Scenarios
  /\ lease \in [ epoch : 0 .. MaxEpoch, holder : SUBSET Nodes ]
  /\ outcome = [ e \in 1 .. MaxEpoch |-> outcome[e] ]
  /\ role \in [ Nodes -> Roles ]
  /\ LogsTyped
  /\ active \in [ Nodes -> BOOLEAN ]
  /\ held \in [ Nodes -> Nat ] /\ view \in [ Nodes -> Nat ]
  /\ probe = [ n \in Nodes |-> probe[n] ] /\ \A n \in Nodes : IsProbe(probe[n])
  /\ fencing = [ n \in Nodes |-> fencing[n] ] /\ \A n \in Nodes : IsFence(fencing[n])
  /\ requests \subseteq Message

-----------------------------------------------------------------------------
(* Epochs and who has them. *)

\* Node n is a candidate of the epoch it holds, or leads under it.
Stands(n) == role[n] \in { "candidate", "leader" }

\* Nobody knows of an epoch that was not granted, and an epoch has one owner.
EpochsOwned ==
  /\ lease.epoch = 0 => lease.holder = {}
  /\ \A n \in Nodes : held[n] <= lease.epoch /\ view[n] <= lease.epoch
  /\ \A n \in Nodes : Stands(n) =>
       /\ 1 <= held[n] /\ (held[n] = lease.epoch => lease.holder = {n})
       /\ \A m \in Nodes : Stands(m) /\ held[m] = held[n] => m = n
  /\ \A n \in Nodes : role[n] = "candidate" => held[n] = probe[n].epoch /\ view[n] <= held[n]
  /\ \A n \in Nodes : role[n] # "candidate" => probe[n] = NoProbe
  /\ \A n \in Nodes : role[n] = "down" => view[n] = 0

\* A fence under way was asked for by the owner of its epoch, of another node.
FenceOwned(f) ==
  /\ role[f] \in { "follower", "candidate" }
  /\ 1 <= fencing[f].epoch /\ fencing[f].epoch <= held[f] /\ fencing[f].epoch <= view[f]
  /\ f \notin fencing[f].from
  /\ fencing[f].epoch = lease.epoch => lease.holder = fencing[f].from
  /\ \A m \in Nodes : Stands(m) /\ held[m] = fencing[f].epoch =>
       fencing[f].from = {m} /\ f \notin DOMAIN probe[m].votes

FencesOwned == \A f \in Nodes : fencing[f] # NoFence => FenceOwned(f)

\* Only a promotion that was reported leads, and only a leader sends appends.
LeadsReported ==
  /\ \A n \in Nodes : role[n] = "leader" => outcome[held[n]] # -1
  /\ \A n \in Nodes : probe[n].reported => outcome[probe[n].epoch] # -1
  /\ \A m \in requests : m.epoch \in 1 .. lease.epoch /\ outcome[m.epoch] # -1

\* A node that voted under the lease in force follows it, or has forgotten all.
VoterFollows(c, f) ==
  f # c /\ probe[c].epoch = lease.epoch =>
    /\ role[f] \in { "follower", "down" } /\ fencing[f] = NoFence
    /\ \/ view[f] = lease.epoch /\ held[f] = lease.epoch
       \/ view[f] = 0 /\ held[f] = 0 /\ ~active[f]

VotersFollow == \A c \in Nodes : \A f \in DOMAIN probe[c].votes : VoterFollows(c, f)

\* VoteStands, also for a voter that has forgotten its vote while the lease is
\* still the candidate's.
VoteKept(c, f) ==
  f \notin overtaken /\ outcome[probe[c].epoch] = -1
    /\ (held[f] = probe[c].epoch \/ lease.epoch = probe[c].epoch) => End(f) = probe[c].votes[f]

VotesKept == \A c \in Nodes : \A f \in DOMAIN probe[c].votes : VoteKept(c, f)

\* A log is about to be cut at an offset it has.
CutInLog(f) == fencing[f].stage = "bounded" => fencing[f].at \in 0 .. End(f)

CutsInLogs == \A f \in Nodes : CutInLog(f)

VoteInv ==
  TypeOK /\ EpochsOwned /\ FencesOwned /\ LeadsReported /\ VotersFollow /\ VotesKept /\ CutsInLogs

-----------------------------------------------------------------------------
(* A vote stands. *)

voteVars ==
  << scen, lease, outcome, role, log, active, held, view, probe, fencing, requests, overtaken >>

LEMMA Blank ==
  /\ IsProbe(NoProbe) /\ NoProbe.epoch = 0 /\ ~NoProbe.reported /\ DOMAIN NoProbe.votes = {}
  /\ IsFence(NoFence) /\ NoFence.epoch = 0 /\ NoFence.stage = "none"
  BY DEF IsProbe, NoProbe, IsFence, NoFence

LEMMA UpdatedByNode ==
  ASSUME NEW F, F = [ m \in Nodes |-> F[m] ], NEW n, NEW v, NEW G, G = [ F EXCEPT ![n] = v ]
  PROVE  G = [ m \in Nodes |-> G[m] ]
  OBVIOUS

\* A log that is not cut keeps the place of the cut that is being made.
LEMMA CutsKept ==
  ASSUME VoteInv, LogsTyped', \A f \in Nodes : Len(log[f]) <= Len(log'[f]),
         \A f \in Nodes : fencing'[f] = fencing[f] \/ fencing'[f].stage # "bounded"
  PROVE  CutsInLogs'
  <1> SUFFICES ASSUME NEW f \in Nodes, fencing'[f].stage = "bounded" PROVE fencing'[f].at \in 0 .. Len(log'[f])
    BY Zenon DEF CutsInLogs, CutInLog, End
  <1>1. fencing'[f].at \in 0 .. Len(log[f]) /\ Len(log[f]) <= Len(log'[f])
    BY Zenon DEF VoteInv, CutsInLogs, CutInLog, End
  <1>2. Len(log[f]) \in Nat /\ Len(log'[f]) \in Nat
    BY DEF VoteInv, TypeOK, LogsTyped
  <1> QED BY <1>1, <1>2

LEMMA CutsSame ==
  ASSUME VoteInv, UNCHANGED log, \A f \in Nodes : fencing'[f] = fencing[f] \/ fencing'[f].stage # "bounded"
  PROVE  CutsInLogs'
  BY Zenon DEF VoteInv, CutsInLogs, CutInLog, End

\* Who votes for whom.
LEMMA Voter ==
  ASSUME VoteInv, NEW c \in Nodes, NEW f \in DOMAIN probe[c].votes
  PROVE  /\ f \in Nodes /\ role[c] = "candidate" /\ Stands(c)
         /\ held[c] = probe[c].epoch /\ probe[c].epoch \in 1 .. lease.epoch
  BY Blank DEF VoteInv, TypeOK, EpochsOwned, Stands, IsProbe

\* A candidate's epoch has an outcome of its own.
LEMMA StandsFor ==
  ASSUME VoteInv, NEW n \in Nodes, Stands(n)
  PROVE  held[n] \in 1 .. MaxEpoch /\ held[n] <= lease.epoch /\ lease.epoch \in 0 .. MaxEpoch /\ MaxEpoch \in Nat
  BY ScenarioAssumption DEF VoteInv, TypeOK, EpochsOwned, MaxEpoch

LEMMA FrameStep == VoteInv /\ UNCHANGED voteVars => VoteInv'
  <1> SUFFICES ASSUME VoteInv, UNCHANGED voteVars PROVE VoteInv'
    BY Zenon
  <1> USE DEF VoteInv, voteVars
  <1>1. TypeOK'
    BY Zenon DEF TypeOK, LogsTyped, MaxEpoch, IsProbe, IsFence
  <1>2. EpochsOwned' /\ FencesOwned'
    BY DEF EpochsOwned, FencesOwned, FenceOwned, Stands
  <1>3. LeadsReported' /\ VotersFollow'
    BY Zenon DEF LeadsReported, VotersFollow, VoterFollows
  <1>4. VotesKept'
    BY Zenon DEF VotesKept, VoteKept, End
  <1>5. CutsInLogs'
    BY CutsSame, Zenon
  <1> QED BY <1>1, <1>2, <1>3, <1>4, <1>5, Zenon

LEMMA AcquireStep ==
  ASSUME VoteInv, NEW n \in Nodes, Acquire(n), UNCHANGED scen PROVE VoteInv'
  <1> USE DEF VoteInv, Acquire, disk, follower, network, ghosts
  <1>0. /\ lease'.epoch = lease.epoch + 1 /\ lease'.holder = {n} /\ lease.epoch \in Nat
        /\ lease' \in [ epoch : 0 .. MaxEpoch, holder : SUBSET Nodes ]
    BY ScenarioAssumption DEF TypeOK, LogsTyped, MaxEpoch
  <1>1. TypeOK'
    BY <1>0, Zenon DEF TypeOK, LogsTyped, MaxEpoch
  <1>2. EpochsOwned'
    BY <1>0 DEF EpochsOwned, TypeOK, Stands
  <1>3. FencesOwned'
    BY <1>0 DEF FencesOwned, FenceOwned, EpochsOwned, TypeOK, Stands
  <1>4. LeadsReported'
    BY <1>0 DEF LeadsReported, TypeOK, Message
  <1>5. ASSUME NEW c \in Nodes, NEW f \in DOMAIN probe'[c].votes PROVE VoterFollows(c, f)'
    BY <1>0, Voter DEF VotersFollow, VoterFollows
  <1>6. ASSUME NEW c \in Nodes, NEW f \in DOMAIN probe'[c].votes PROVE VoteKept(c, f)'
    BY <1>0, Voter DEF VotesKept, VoteKept, End
  <1>7. CutsInLogs'
    BY CutsSame, Zenon
  <1> QED BY <1>1, <1>2, <1>3, <1>4, <1>5, <1>6, <1>7, Zenon DEF VotersFollow, VotesKept

\* A node that takes up the lease's epoch, as a follower or as its candidate.
LEMMA AdoptsLease ==
  ASSUME VoteInv, NEW n \in Nodes, Adopt(n, lease.epoch)
  PROVE  held' = [ held EXCEPT ![n] = lease.epoch ] /\ lease.epoch \in Nat
  <1>1. held[n] \in Nat /\ lease.epoch \in Nat /\ held[n] <= lease.epoch
    BY DEF VoteInv, TypeOK, EpochsOwned
  <1>2. Larger(held[n], lease.epoch) = lease.epoch
    BY <1>1 DEF Larger
  <1> QED BY <1>1, <1>2, Zenon DEF Adopt

LEMMA ObserveStep ==
  ASSUME VoteInv, NEW n \in Nodes, Observe(n), UNCHANGED scen PROVE VoteInv'
  <1> USE DEF VoteInv, Observe, metadata, network, ghosts
  <1>0. /\ held' = [ held EXCEPT ![n] = lease.epoch ] /\ lease.epoch \in Nat
        /\ role[n] \in { "follower", "candidate" } /\ role'[n] = "follower" /\ probe'[n] = NoProbe
    BY AdoptsLease, Zenon DEF Serving, TypeOK
  <1>1. TypeOK'
    BY <1>0, Blank, Zenon DEF TypeOK, LogsTyped, MaxEpoch, Roles
  <1>2. EpochsOwned'
    BY <1>0 DEF EpochsOwned, TypeOK, Stands
  <1>3. FencesOwned'
    <2> SUFFICES ASSUME NEW f \in Nodes, fencing[f] # NoFence, FenceOwned(f) PROVE FenceOwned(f)'
      BY Zenon DEF FencesOwned
    <2>1. held[f] <= held'[f] /\ view[f] <= view'[f] /\ role'[f] \in { "follower", "candidate" }
      BY <1>0 DEF EpochsOwned, TypeOK, FenceOwned
    <2>2. \A m \in Nodes : Stands(m)' => Stands(m) /\ held'[m] = held[m] /\ probe'[m] = probe[m]
      BY <1>0, Zenon DEF Stands, TypeOK
    <2> QED BY <2>1, <2>2, <1>0 DEF FenceOwned, Stands, TypeOK, IsFence
  <1>4. LeadsReported'
    BY <1>0, Blank, Zenon DEF LeadsReported, TypeOK, Message
  <1>5. ASSUME NEW c \in Nodes, NEW f \in DOMAIN probe'[c].votes PROVE VoterFollows(c, f)'
    BY <1>0, Voter, Blank, ZenonT(20) DEF VotersFollow, VoterFollows, TypeOK
  <1>6. ASSUME NEW c \in Nodes, NEW f \in DOMAIN probe'[c].votes PROVE VoteKept(c, f)'
    BY <1>0, Voter, Blank, Zenon DEF VotesKept, VoteKept, End, TypeOK
  <1>7. CutsInLogs'
    BY CutsSame, Zenon
  <1> QED BY <1>1, <1>2, <1>3, <1>4, <1>5, <1>6, <1>7, Zenon DEF VotersFollow, VotesKept

\* A node that becomes the lease's candidate votes for itself alone.
LEMMA FenceLocallyStep ==
  ASSUME VoteInv, NEW n \in Nodes, FenceLocally(n), UNCHANGED scen PROVE VoteInv'
  <1> USE DEF VoteInv, FenceLocally, metadata, network, ghosts
  <1>0. held' = [ held EXCEPT ![n] = lease.epoch ] /\ lease.epoch \in Nat /\ lease.holder = {n}
    BY AdoptsLease, Zenon
  <1>1. /\ probe' = [ probe EXCEPT ![n] = probe'[n] ] /\ IsProbe(probe'[n]) /\ ~probe'[n].reported
        /\ probe'[n].epoch = lease.epoch /\ DOMAIN probe'[n].votes = {n} /\ probe'[n].votes[n] = End(n)
    BY <1>0, Zenon DEF NoProbe, IsProbe, TypeOK
  <1>2. lease.epoch >= 1
    BY <1>0 DEF TypeOK, EpochsOwned
  <1>3. \A m \in Nodes : Stands(m) => m = n \/ held[m] # lease.epoch
    BY <1>0, Zenon DEF EpochsOwned
  <1>a. TypeOK'
    BY <1>0, <1>1, Zenon DEF TypeOK, LogsTyped, MaxEpoch, Roles
  <1>b. EpochsOwned'
    BY <1>0, <1>1, <1>2, <1>3 DEF EpochsOwned, TypeOK, Stands
  <1>c. FencesOwned'
    <2> SUFFICES ASSUME NEW f \in Nodes, fencing[f] # NoFence, FenceOwned(f) PROVE FenceOwned(f)'
      BY Zenon DEF FencesOwned
    <2>1. held[f] <= held'[f] /\ held[f] \in Nat /\ held'[f] \in Nat /\ fencing[f].epoch \in Nat
      BY <1>0 DEF EpochsOwned, TypeOK, IsFence
    <2>2. role'[f] \in { "follower", "candidate" }
      BY Zenon DEF TypeOK, FenceOwned
    <2>3. ASSUME NEW m \in Nodes, Stands(m)', held'[m] = fencing[f].epoch
          PROVE  fencing[f].from = {m} /\ f \notin DOMAIN probe'[m].votes
      <3>1. CASE m = n
        BY <3>1, <2>3, <1>0, <1>1, Zenon DEF TypeOK, FenceOwned
      <3>2. CASE m # n
        BY <3>2, <2>3, <1>0, <1>1, Zenon DEF TypeOK, Stands, FenceOwned
      <3> QED BY <3>1, <3>2, Zenon
    <2>4. 1 <= fencing[f].epoch /\ fencing[f].epoch <= held'[f] /\ fencing[f].epoch <= view[f]
      BY <2>1 DEF FenceOwned
    <2>5. f \notin fencing[f].from /\ (fencing[f].epoch = lease.epoch => lease.holder = fencing[f].from)
      BY Zenon DEF FenceOwned
    <2> QED BY <2>2, <2>3, <2>4, <2>5, Zenon DEF FenceOwned
  <1>d. LeadsReported'
    BY <1>0, <1>1, Zenon DEF LeadsReported, TypeOK, Message
  <1>e. ASSUME NEW c \in Nodes, NEW f \in DOMAIN probe'[c].votes PROVE VoterFollows(c, f)'
    <2>1. CASE c = n
      BY <2>1, <1>1, Zenon DEF VoterFollows
    <2>2. CASE c # n
      <3>1. probe'[c] = probe[c] /\ probe[c].epoch # lease.epoch
        BY <2>2, <1>1, <1>3, Voter DEF TypeOK
      <3> QED BY <3>1, Zenon DEF VoterFollows
    <2> QED BY <2>1, <2>2, Zenon
  <1>f. ASSUME NEW c \in Nodes, NEW f \in DOMAIN probe'[c].votes PROVE VoteKept(c, f)'
    <2>1. CASE c = n
      BY <2>1, <1>1, Zenon DEF VoteKept, End
    <2>2. CASE c # n
      <3>1. probe'[c] = probe[c] /\ probe[c].epoch # lease.epoch /\ VoteKept(c, f) /\ f \in Nodes
        BY <2>2, <1>1, <1>3, Voter DEF TypeOK, VotesKept
      <3> QED BY <3>1, <1>0, Zenon DEF VoteKept, End, TypeOK
    <2> QED BY <2>1, <2>2, Zenon
  <1>g. CutsInLogs'
    BY CutsSame, Zenon
  <1> QED BY <1>a, <1>b, <1>c, <1>d, <1>e, <1>f, <1>g, Zenon DEF VotersFollow, VotesKept

\* A step of a promotion that leaves its epoch and its votes alone.
LEMMA DecidesStep ==
  ASSUME VoteInv, NEW n \in Nodes, role[n] = "candidate",
         NEW p, IsProbe(p), p.epoch = probe[n].epoch, p.votes = probe[n].votes,
         probe' = [ probe EXCEPT ![n] = p ],
         outcome' = [ e \in 1 .. MaxEpoch |-> outcome'[e] ],
         p.reported => outcome'[p.epoch] # -1,
         \A e \in 1 .. MaxEpoch : outcome[e] # -1 => outcome'[e] # -1,
         UNCHANGED << scen, lease, role, log, active, held, view, fencing, requests, overtaken >>
  PROVE  VoteInv'
  <1> USE DEF VoteInv
  <1>0. /\ \A m \in Nodes : probe'[m].epoch = probe[m].epoch /\ probe'[m].votes = probe[m].votes
        /\ \A m \in Nodes : m # n => probe'[m] = probe[m]
        /\ probe'[n] = p
    BY Zenon DEF TypeOK
  <1>1. TypeOK'
    BY <1>0, Zenon DEF TypeOK, LogsTyped, MaxEpoch
  <1>2. EpochsOwned' /\ FencesOwned'
    BY <1>0 DEF EpochsOwned, FencesOwned, FenceOwned, Stands
  <1>3. LeadsReported'
    <2>1. \A m \in Nodes : role[m] = "leader" => outcome'[held[m]] # -1
      BY StandsFor, Zenon DEF LeadsReported, Stands
    <2>2. \A m \in Nodes : probe'[m].reported => outcome'[probe'[m].epoch] # -1
      <3> SUFFICES ASSUME NEW m \in Nodes, m # n, probe[m].reported PROVE outcome'[probe[m].epoch] # -1
        BY <1>0
      <3>1. role[m] = "candidate"
        BY Blank, Zenon DEF EpochsOwned
      <3> QED BY <3>1, StandsFor, Zenon DEF LeadsReported, Stands, EpochsOwned
    <2>3. \A m \in requests : m.epoch \in 1 .. MaxEpoch
      BY ScenarioAssumption DEF LeadsReported, TypeOK, LogsTyped, MaxEpoch
    <2> QED BY <2>1, <2>2, <2>3, Zenon DEF LeadsReported
  <1>4. VotersFollow'
    BY <1>0 DEF VotersFollow, VoterFollows
  <1>5. ASSUME NEW c \in Nodes, NEW f \in DOMAIN probe'[c].votes PROVE VoteKept(c, f)'
    <2>1. f \in DOMAIN probe[c].votes /\ probe[c].epoch \in 1 .. MaxEpoch
      BY <1>0, Voter, StandsFor, Zenon
    <2> QED BY <1>0, <2>1 DEF VotesKept, VoteKept, End
  <1>6. CutsInLogs'
    BY CutsSame, Zenon
  <1> QED BY <1>1, <1>2, <1>3, <1>4, <1>5, <1>6, Zenon DEF VotesKept

LEMMA EstablishedStep ==
  ASSUME VoteInv, NEW n \in Nodes, Established(n), UNCHANGED scen PROVE VoteInv'
  <1> DEFINE p == [ probe[n] EXCEPT !.boundary = Verdict(n).boundary ]
  <1>0. IsProbe(probe[n])
    BY Zenon DEF VoteInv, TypeOK
  <1>1. IsProbe(p) /\ p.epoch = probe[n].epoch /\ p.votes = probe[n].votes /\ p.reported = probe[n].reported
    BY <1>0 DEF IsProbe
  <1>2. role[n] = "candidate" /\ probe' = [ probe EXCEPT ![n] = p ]
    BY Zenon DEF Established
  <1>3. p.reported => outcome'[p.epoch] # -1
    BY <1>1, Zenon DEF Established, metadata, VoteInv, LeadsReported
  <1>4. /\ outcome' = outcome /\ outcome = [ e \in 1 .. MaxEpoch |-> outcome[e] ]
        /\ UNCHANGED << lease, role, log, active, held, view, fencing, requests, overtaken >>
    BY Zenon DEF Established, metadata, disk, follower, network, ghosts, VoteInv, TypeOK
  <1>5. outcome' = [ e \in 1 .. MaxEpoch |-> outcome'[e] ]
    BY <1>4, Zenon
  <1> HIDE DEF p
  <1> QED BY <1>1, <1>2, <1>3, <1>4, <1>5, DecidesStep, Zenon

\* Recording a boundary undoes no outcome.
LEMMA RecordedKeeps ==
  ASSUME VoteInv, NEW n \in Nodes, Recorded(n)
  PROVE  /\ role[n] = "candidate" /\ outcome' = [ e \in 1 .. MaxEpoch |-> outcome'[e] ]
         /\ \A e \in 1 .. MaxEpoch : outcome[e] # -1 => outcome'[e] # -1
         /\ MaxEpoch' = MaxEpoch => outcome'[probe[n].epoch] # -1
  <1>1. probe[n].epoch \in 1 .. MaxEpoch /\ probe[n].boundary # -1
    BY StandsFor, Zenon DEF Recorded, Stands, VoteInv, EpochsOwned
  <1> QED BY <1>1, Zenon DEF Recorded, VoteInv, TypeOK

LEMMA ReportStep ==
  ASSUME VoteInv, NEW n \in Nodes, Report(n) \/ ReportUnanswered(n), UNCHANGED scen PROVE VoteInv'
  <1>1. Recorded(n) /\ UNCHANGED << lease, role, log, active, held, view, fencing, requests, overtaken >>
    BY Zenon DEF Report, ReportUnanswered, disk, follower, network, ghosts
  <1>2. PICK p : /\ probe' = [ probe EXCEPT ![n] = p ]
                 /\ p = [ probe[n] EXCEPT !.reported = TRUE ] \/ p = [ probe[n] EXCEPT !.sent = TRUE ]
    BY Zenon DEF Report, ReportUnanswered
  <1>3. IsProbe(p) /\ p.epoch = probe[n].epoch /\ p.votes = probe[n].votes
    BY <1>2, Zenon DEF VoteInv, TypeOK, IsProbe
  <1>4. outcome'[p.epoch] # -1
    BY <1>1, <1>3, RecordedKeeps, Zenon DEF MaxEpoch
  <1> QED BY <1>1, <1>2, <1>3, <1>4, RecordedKeeps, DecidesStep, Zenon

\* A candidate that stands aside still holds its epoch.
LEMMA StandAsideStep ==
  ASSUME VoteInv, NEW n \in Nodes, StandAside(n), UNCHANGED scen PROVE VoteInv'
  <1> USE DEF VoteInv, StandAside, metadata, disk, follower, network, ghosts
  <1>0. /\ role[n] = "candidate" /\ role'[n] = "follower" /\ probe'[n] = NoProbe
        /\ \A m \in Nodes : Stands(m)' => Stands(m) /\ m # n
        /\ \A m \in Nodes : m # n => role'[m] = role[m] /\ probe'[m] = probe[m]
    BY Zenon DEF TypeOK, Stands
  <1>1. TypeOK'
    BY <1>0, Blank, Zenon DEF TypeOK, LogsTyped, MaxEpoch, Roles
  <1>2. EpochsOwned'
    BY <1>0 DEF EpochsOwned, TypeOK, Stands
  <1>3. FencesOwned'
    BY <1>0, Zenon DEF FencesOwned, FenceOwned, TypeOK
  <1>4. LeadsReported'
    BY <1>0, Blank, Zenon DEF LeadsReported, TypeOK
  <1>5. ASSUME NEW c \in Nodes, NEW f \in DOMAIN probe'[c].votes PROVE VoterFollows(c, f)'
    <2>1. c # n /\ probe'[c] = probe[c] /\ VoterFollows(c, f) /\ f \in Nodes
      BY <1>0, Blank, Voter, Zenon DEF VotersFollow
    <2> QED BY <2>1, <1>0, Zenon DEF VoterFollows
  <1>6. ASSUME NEW c \in Nodes, NEW f \in DOMAIN probe'[c].votes PROVE VoteKept(c, f)'
    BY <1>0, Blank DEF VotesKept, VoteKept, End
  <1>7. CutsInLogs'
    BY CutsSame, Zenon
  <1> QED BY <1>1, <1>2, <1>3, <1>4, <1>5, <1>6, <1>7, Zenon DEF VotersFollow, VotesKept

\* A candidate that was reported leads under the epoch it already holds.
LEMMA PromoteStep ==
  ASSUME VoteInv, NEW n \in Nodes, Promote(n), UNCHANGED scen PROVE VoteInv'
  <1> USE DEF VoteInv, Promote, Drained, metadata, network, ghosts
  <1>0. /\ role[n] = "candidate" /\ role'[n] = "leader" /\ probe'[n] = NoProbe /\ fencing'[n] = NoFence
        /\ held' = held /\ view'[n] = held[n] /\ view[n] <= held[n]
        /\ \A m \in Nodes : Stands(m)' <=> Stands(m)
        /\ \A m \in Nodes : m # n =>
             role'[m] = role[m] /\ probe'[m] = probe[m] /\ view'[m] = view[m] /\ fencing'[m] = fencing[m]
             /\ active'[m] = active[m]
    BY DEF TypeOK, Stands, EpochsOwned
  <1>1. TypeOK'
    <2>1. role' \in [ Nodes -> Roles ] /\ view' \in [ Nodes -> Nat ] /\ active' \in [ Nodes -> BOOLEAN ]
      BY Zenon DEF TypeOK, Roles, IsProbe
    <2>2. probe' = [ m \in Nodes |-> probe'[m] ] /\ \A m \in Nodes : IsProbe(probe'[m])
      BY Blank, Zenon DEF TypeOK
    <2>3. fencing' = [ m \in Nodes |-> fencing'[m] ]
      BY Zenon DEF TypeOK
    <2>4. \A m \in Nodes : IsFence(fencing'[m])
      BY Zenon DEF TypeOK
    <2> QED BY <1>0, <2>1, <2>2, <2>3, <2>4 DEF TypeOK, LogsTyped, MaxEpoch
  <1>2. EpochsOwned'
    BY <1>0 DEF EpochsOwned, TypeOK, Stands
  <1>3. FencesOwned'
    BY <1>0, Blank DEF FencesOwned, FenceOwned, TypeOK
  <1>4. LeadsReported'
    <2>1. \A m \in Nodes : role'[m] = "leader" => outcome[held[m]] # -1
      BY <1>0 DEF LeadsReported, EpochsOwned
    <2>2. \A m \in Nodes : probe'[m].reported => outcome[probe'[m].epoch] # -1
      BY <1>0, Blank DEF LeadsReported
    <2> QED BY <1>0, <2>1, <2>2 DEF LeadsReported
  <1>5. ASSUME NEW c \in Nodes, NEW f \in DOMAIN probe'[c].votes PROVE VoterFollows(c, f)'
    <2>1. c # n /\ probe'[c] = probe[c] /\ VoterFollows(c, f) /\ f \in Nodes
      BY <1>0, Blank, Voter, Zenon DEF VotersFollow
    <2> QED BY <2>1, <1>0, Zenon DEF VoterFollows
  <1>6. ASSUME NEW c \in Nodes, NEW f \in DOMAIN probe'[c].votes PROVE VoteKept(c, f)'
    BY <1>0, Blank DEF VotesKept, VoteKept, End
  <1>7. CutsInLogs'
    BY <1>0, CutsSame, Blank, Zenon
  <1> QED BY <1>1, <1>2, <1>3, <1>4, <1>5, <1>6, <1>7, Zenon DEF VotersFollow, VotesKept

\* A process that ends, or is rebuilt, forgets its epoch, its fence and its
\* candidacy.
Forgets(n, r) ==
  /\ role' = [ role EXCEPT ![n] = r ] /\ held' = [ held EXCEPT ![n] = 0 ]
  /\ active' = [ active EXCEPT ![n] = FALSE ]
  /\ probe' = [ probe EXCEPT ![n] = NoProbe ] /\ fencing' = [ fencing EXCEPT ![n] = NoFence ]

LEMMA ForgetsStep ==
  ASSUME VoteInv, NEW n \in Nodes, NEW r \in { "follower", "down" }, Forgets(n, r),
         UNCHANGED << scen, lease, outcome, log, requests, overtaken >>,
         \/ view' = [ view EXCEPT ![n] = 0 ]
         \/ view' = view /\ role[n] # "follower" /\ r = "follower"
  PROVE  VoteInv'
  <1> USE DEF VoteInv
  <1>0. /\ role'[n] = r /\ probe'[n] = NoProbe /\ fencing'[n] = NoFence /\ held'[n] = 0 /\ ~active'[n]
        /\ view'[n] = 0 \/ view'[n] = view[n]
        /\ \A m \in Nodes : Stands(m)' => Stands(m) /\ m # n
        /\ \A m \in Nodes : m # n =>
             /\ role'[m] = role[m] /\ probe'[m] = probe[m] /\ view'[m] = view[m] /\ fencing'[m] = fencing[m]
             /\ active'[m] = active[m] /\ held'[m] = held[m]
    BY Zenon DEF TypeOK, Stands, Forgets
  <1>1. TypeOK'
    <2>1. role' \in [ Nodes -> Roles ] /\ active' \in [ Nodes -> BOOLEAN ]
      BY Zenon DEF TypeOK, Roles, Forgets
    <2>5. held' \in [ Nodes -> Nat ]
      BY Zenon DEF TypeOK, Forgets
    <2>6. view' \in [ Nodes -> Nat ]
      <3>1. view \in [ Nodes -> Nat ]
        BY Zenon DEF TypeOK
      <3>2. CASE view' = [ view EXCEPT ![n] = 0 ]
        BY <3>1, <3>2, Zenon
      <3> QED BY <3>1, <3>2, Zenon
    <2>2. probe' = [ m \in Nodes |-> probe'[m] ] /\ \A m \in Nodes : IsProbe(probe'[m])
      <3>1. probe' = [ probe EXCEPT ![n] = NoProbe ] /\ probe = [ m \in Nodes |-> probe[m] ]
        BY Zenon DEF TypeOK, Forgets
      <3>2. probe'[n] = NoProbe /\ \A m \in Nodes : m # n => probe'[m] = probe[m]
        BY <3>1, Zenon
      <3>3. probe' = [ m \in Nodes |-> probe'[m] ]
        BY <3>1, UpdatedByNode, Zenon
      <3> QED BY <3>2, <3>3, Blank, Zenon DEF TypeOK
    <2>3. fencing' = [ m \in Nodes |-> fencing'[m] ]
      BY Zenon DEF TypeOK, Forgets
    <2>4. ASSUME NEW m \in Nodes PROVE IsFence(fencing'[m])
      <3>1. CASE m = n
        BY <3>1, <1>0, Blank
      <3>2. CASE m # n
        BY <3>2, <1>0, Zenon DEF TypeOK
      <3> QED BY <3>1, <3>2, Zenon
    <2> QED BY <2>1, <2>2, <2>3, <2>4, <2>5, <2>6, Zenon DEF TypeOK, LogsTyped, MaxEpoch
  <1>2. EpochsOwned'
    <2>1. \A m \in Nodes : held'[m] <= lease.epoch /\ view'[m] <= lease.epoch
      BY <1>0 DEF EpochsOwned, TypeOK
    <2>2. \A m \in Nodes : role'[m] = "candidate" => m # n /\ held'[m] = probe'[m].epoch /\ view'[m] <= held'[m]
      BY <1>0 DEF EpochsOwned
    <2>3. \A m \in Nodes : /\ role'[m] # "candidate" => probe'[m] = NoProbe
                           /\ role'[m] = "down" => view'[m] = 0
      BY <1>0 DEF EpochsOwned, TypeOK
    <2>4. ASSUME NEW m \in Nodes, Stands(m)'
          PROVE  /\ 1 <= held'[m] /\ (held'[m] = lease.epoch => lease.holder = {m})
                 /\ \A k \in Nodes : Stands(k)' /\ held'[k] = held'[m] => k = m
      BY <2>4, <1>0 DEF EpochsOwned
    <2>5. lease.epoch = 0 => lease.holder = {}
      BY Zenon DEF EpochsOwned
    <2> QED BY <2>1, <2>2, <2>3, <2>4, <2>5, Zenon DEF EpochsOwned
  <1>3. FencesOwned'
    <2> SUFFICES ASSUME NEW f \in Nodes, fencing'[f] # NoFence PROVE FenceOwned(f)'
      BY Zenon DEF FencesOwned
    <2>1. f # n /\ FenceOwned(f)
      BY <1>0, Zenon DEF FencesOwned
    <2> QED BY <1>0, <2>1 DEF FenceOwned
  <1>4. LeadsReported'
    <2>1. \A m \in Nodes : role'[m] = "leader" => m # n
      BY <1>0, Zenon
    <2>2. \A m \in Nodes : probe'[m].reported => m # n
      BY <1>0, Blank, Zenon
    <2>3. \A m \in Nodes : role'[m] = "leader" => outcome[held'[m]] # -1
      BY <1>0, <2>1 DEF LeadsReported
    <2>4. ASSUME NEW m \in Nodes, probe'[m].reported PROVE outcome[probe'[m].epoch] # -1
      <3>1. probe'[m] = probe[m]
        BY <2>2, <2>4, <1>0, Zenon
      <3> QED BY <3>1, <2>4, Zenon DEF LeadsReported
    <2> QED BY <2>3, <2>4, Zenon DEF LeadsReported
  <1>5. ASSUME NEW c \in Nodes, NEW f \in DOMAIN probe'[c].votes PROVE VoterFollows(c, f)'
    <2>1. c # n /\ probe'[c] = probe[c] /\ VoterFollows(c, f) /\ f \in Nodes /\ f \in DOMAIN probe[c].votes
      BY <1>0, Blank, Voter, Zenon DEF VotersFollow
    <2>2. CASE f # n
      BY <2>1, <2>2, <1>0, Zenon DEF VoterFollows
    <2>3. CASE f = n
      <3>1. role[n] = "down" => view[n] = 0
        BY Zenon DEF EpochsOwned
      <3> QED BY <2>1, <2>3, <3>1, <1>0, SMTT(20) DEF VoterFollows, TypeOK
    <2> QED BY <2>2, <2>3, Zenon
  <1>6. ASSUME NEW c \in Nodes, NEW f \in DOMAIN probe'[c].votes PROVE VoteKept(c, f)'
    <2>1. /\ c # n /\ probe'[c] = probe[c] /\ VoterFollows(c, f) /\ VoteKept(c, f) /\ f \in Nodes
          /\ probe[c].epoch >= 1
      BY <1>0, Blank, Voter DEF VotersFollow, VotesKept
    <2>2. CASE f # n
      BY <2>1, <2>2, <1>0, SMTT(20) DEF VoteKept, End
    <2>3. CASE f = n
      BY <2>1, <2>3, <1>0 DEF VoteKept, VoterFollows, End
    <2> QED BY <2>2, <2>3, Zenon
  <1>7. CutsInLogs'
    BY <1>0, CutsSame, Blank, Zenon
  <1> QED BY <1>1, <1>2, <1>3, <1>4, <1>5, <1>6, <1>7, Zenon DEF VotersFollow, VotesKept

\* What is cut stays a log.
LEMMA CutLogs ==
  ASSUME VoteInv, NEW f \in Nodes, FenceCutsLog(f), NEW o, o = fencing[f].at
  PROVE  /\ o \in 0 .. Len(log[f]) /\ LogsTyped' /\ Len(log'[f]) = o
         /\ \A m \in Nodes : m # f => log'[m] = log[m]
         /\ \A i \in 1 .. o : log'[f][i] = log[f][i]
         /\ overtaken \subseteq overtaken' /\ (f \notin overtaken' => ~(held[f] > fencing[f].epoch))
  <1>1. log[f] \in Seq(Nat \ {0}) /\ o \in 0 .. Len(log[f])
    BY Zenon DEF VoteInv, TypeOK, LogsTyped, CutsInLogs, CutInLog, End, FenceCutsLog, Handling
  <1>2. SubSeq(log[f], 1, o) \in Seq(Nat \ {0}) /\ Len(SubSeq(log[f], 1, o)) = o
        /\ \A i \in 1 .. o : SubSeq(log[f], 1, o)[i] = log[f][i]
    BY <1>1
  <1>3. log' = [ log EXCEPT ![f] = SubSeq(log[f], 1, o) ] /\ log \in [ Nodes -> Seq(Nat \ {0}) ]
    BY Zenon DEF FenceCutsLog, VoteInv, TypeOK, LogsTyped
  <1>4. LogsTyped' /\ log'[f] = SubSeq(log[f], 1, o) /\ \A m \in Nodes : m # f => log'[m] = log[m]
    BY <1>2, <1>3, Zenon DEF LogsTyped
  <1>5. overtaken \subseteq overtaken' /\ (f \notin overtaken' => ~(held[f] > fencing[f].epoch))
    BY Zenon DEF FenceCutsLog
  <1> QED BY <1>1, <1>2, <1>4, <1>5, Zenon

LEMMA RebuildStep ==
  ASSUME VoteInv, NEW n \in Nodes, Demote(n) \/ StandDown(n) \/ Restart(n), UNCHANGED scen PROVE VoteInv'
  <1>1. Forgets(n, "follower") /\ UNCHANGED << lease, outcome, log, view, requests, overtaken >>
    BY Zenon DEF Demote, StandDown, Restart, Reopened, Forgets, metadata, network, ghosts
  <1>2. role[n] # "follower"
    BY Zenon DEF Demote, StandDown, Restart
  <1> QED BY <1>1, <1>2, ForgetsStep, Zenon

LEMMA CrashStep ==
  ASSUME VoteInv, NEW n \in Nodes, Crash(n), UNCHANGED scen PROVE VoteInv'
  <1>1. /\ Forgets(n, "down") /\ UNCHANGED << lease, outcome, log, requests, overtaken >>
        /\ view' = [ view EXCEPT ![n] = 0 ]
    BY Zenon DEF Crash, Stop, Forgets, metadata, disk, ghosts
  <1> QED BY <1>1, ForgetsStep, Zenon

\* A record appended where no vote is counted, under an epoch that was decided.
LEMMA GrowsStep ==
  ASSUME VoteInv, NEW n \in Nodes, LogsTyped', \A m \in Nodes : m # n => log'[m] = log[m],
         Len(log[n]) <= Len(log'[n]),
         \A c \in Nodes : n \in DOMAIN probe[c].votes =>
           outcome[probe[c].epoch] # -1 \/ (held[n] # probe[c].epoch /\ lease.epoch # probe[c].epoch),
         requests' \subseteq Message,
         \A m \in requests' : m.epoch \in 1 .. lease.epoch /\ outcome[m.epoch] # -1,
         UNCHANGED << scen, lease, outcome, role, active, held, view, probe, fencing, overtaken >>
  PROVE  VoteInv'
  <1> USE DEF VoteInv
  <1>1. TypeOK'
    BY Zenon DEF TypeOK, MaxEpoch
  <1>2. EpochsOwned' /\ FencesOwned'
    BY DEF EpochsOwned, FencesOwned, FenceOwned, Stands
  <1>3. LeadsReported' /\ VotersFollow'
    BY Zenon DEF LeadsReported, VotersFollow, VoterFollows
  <1>4. ASSUME NEW c \in Nodes, NEW f \in DOMAIN probe[c].votes PROVE VoteKept(c, f)'
    BY Voter DEF VotesKept, VoteKept, End
  <1>5. CutsInLogs'
    <2>1. ASSUME NEW m \in Nodes PROVE Len(log[m]) <= Len(log'[m])
      <3>1. Len(log[m]) \in Nat
        BY DEF TypeOK, LogsTyped
      <3> QED BY <3>1
    <2> QED BY <2>1, CutsKept, Zenon
  <1> QED BY <1>1, <1>2, <1>3, <1>4, <1>5, Zenon DEF VotesKept

\* A leader's log is not voted with, and its requests carry its epoch.
LEMMA LeaderFree ==
  ASSUME VoteInv, NEW n \in Nodes, role[n] = "leader"
  PROVE  /\ held[n] \in 1 .. lease.epoch /\ outcome[held[n]] # -1
         /\ \A c \in Nodes : n \in DOMAIN probe[c].votes =>
              held[n] # probe[c].epoch /\ lease.epoch # probe[c].epoch
  <1>1. Stands(n)
    BY Zenon DEF Stands
  <1>2. ASSUME NEW c \in Nodes, n \in DOMAIN probe[c].votes
        PROVE  held[n] # probe[c].epoch /\ lease.epoch # probe[c].epoch
    <2>1. role[c] = "candidate" /\ Stands(c) /\ held[c] = probe[c].epoch /\ VoterFollows(c, n)
      BY <1>2, Voter, Zenon DEF VoteInv, VotersFollow
    <2>2. c # n
      BY <2>1, Zenon
    <2> QED BY <1>1, <2>1, <2>2, Zenon DEF VoterFollows, VoteInv, EpochsOwned
  <1> QED BY <1>1, <1>2, StandsFor DEF VoteInv, LeadsReported

LEMMA AppendStep ==
  ASSUME VoteInv, NEW n \in Nodes, AppendLocal(n) \/ Resend(n), UNCHANGED scen PROVE VoteInv'
  <1>1. role[n] = "leader" /\ UNCHANGED << lease, outcome, role, active, held, view, probe, fencing, overtaken >>
    BY Zenon DEF AppendLocal, Resend, metadata, follower, ghosts, disk
  <1>2. log[n] \in Seq(Nat \ {0}) /\ log \in [ Nodes -> Seq(Nat \ {0}) ] /\ requests \subseteq Message
    BY Zenon DEF VoteInv, TypeOK, LogsTyped
  <1>3. held[n] \in Nat \ {0} /\ held[n] \in 1 .. lease.epoch /\ outcome[held[n]] # -1
    <2>1. held[n] \in 1 .. lease.epoch /\ outcome[held[n]] # -1
      BY <1>1, LeaderFree, Zenon
    <2>2. held[n] \in Nat
      BY Zenon DEF VoteInv, TypeOK
    <2> QED BY <2>1, <2>2
  <1>4. log' = log \/ log' = [ log EXCEPT ![n] = Append(log[n], held[n]) ]
    BY Zenon DEF AppendLocal, Resend, disk
  <1>5. LogsTyped' /\ (\A m \in Nodes : m # n => log'[m] = log[m]) /\ Len(log[n]) <= Len(log'[n])
    <2>1. /\ Append(log[n], held[n]) \in Seq(Nat \ {0}) /\ Len(log[n]) <= Len(log[n])
          /\ Len(log[n]) <= Len(Append(log[n], held[n]))
      BY <1>2, <1>3
    <2>2. CASE log' = [ log EXCEPT ![n] = Append(log[n], held[n]) ]
      BY <2>1, <2>2, <1>2, Zenon DEF LogsTyped
    <2>3. CASE log' = log
      BY <2>1, <2>3, <1>2, Zenon DEF LogsTyped
    <2> QED BY <2>2, <2>3, <1>4, Zenon
  <1>6. \E m \in Message : requests' = requests \cup {m} /\ m.epoch = held[n]
    <2>1. CASE AppendLocal(n)
      <3>1. End(n) \in Nat /\ End(n) + 1 \in Nat
        BY <1>2 DEF End
      <3>2. [ epoch |-> held[n], base |-> End(n), rec |-> held[n], upto |-> End(n) + 1 ] \in Message
        BY <3>1, <1>3, Zenon DEF Message
      <3> QED BY <2>1, <3>2, Zenon DEF AppendLocal
    <2>2. CASE Resend(n)
      <3>1. PICK o \in 0 .. End(n) - 1 :
              requests' = requests \cup
                { [ epoch |-> held[n], base |-> o, rec |-> log[n][o + 1], upto |-> End(n) ] }
        BY <2>2, Zenon DEF Resend
      <3>2. o \in Nat /\ log[n][o + 1] \in Nat \ {0} /\ End(n) \in Nat
        BY <1>2 DEF End
      <3>3. [ epoch |-> held[n], base |-> o, rec |-> log[n][o + 1], upto |-> End(n) ] \in Message
        BY <3>2, <1>3, Zenon DEF Message
      <3> QED BY <3>1, <3>3, Zenon
    <2> QED BY <2>1, <2>2, Zenon
  <1>7. /\ requests' \subseteq Message
        /\ \A m \in requests' : m.epoch \in 1 .. lease.epoch /\ outcome[m.epoch] # -1
    BY <1>2, <1>3, <1>6, SMTT(20) DEF VoteInv, LeadsReported
  <1> QED BY <1>1, <1>5, <1>7, LeaderFree, GrowsStep, Zenon

\* An append is taken only from a leader, under an epoch that was decided.
LEMMA ApplyStep ==
  ASSUME VoteInv, NEW f \in Nodes, NEW m \in requests, ApplyAppend(f, m), UNCHANGED scen PROVE VoteInv'
  <1>1. UNCHANGED << lease, outcome, role, active, held, view, probe, fencing, overtaken, requests >>
    BY Zenon DEF ApplyAppend, metadata, follower, ghosts
  <1>2. /\ log[f] \in Seq(Nat \ {0}) /\ log \in [ Nodes -> Seq(Nat \ {0}) ] /\ requests \subseteq Message
        /\ m.rec \in Nat \ {0}
    BY Zenon DEF VoteInv, TypeOK, LogsTyped, Message
  <1>3. log' = log \/ log' = [ log EXCEPT ![f] = Append(log[f], m.rec) ]
    BY Zenon DEF ApplyAppend
  <1>4. LogsTyped' /\ (\A k \in Nodes : k # f => log'[k] = log[k]) /\ Len(log[f]) <= Len(log'[f])
    <2>1. /\ Append(log[f], m.rec) \in Seq(Nat \ {0}) /\ Len(log[f]) <= Len(log[f])
          /\ Len(log[f]) <= Len(Append(log[f], m.rec))
      BY <1>2
    <2>2. CASE log' = [ log EXCEPT ![f] = Append(log[f], m.rec) ]
      BY <2>1, <2>2, <1>2, Zenon DEF LogsTyped
    <2>3. CASE log' = log
      BY <2>1, <2>3, <1>2, Zenon DEF LogsTyped
    <2> QED BY <2>2, <2>3, <1>3, Zenon
  <1>5. m.epoch = held[f] /\ m.epoch = view[f] /\ active[f] /\ outcome[m.epoch] # -1
    BY Zenon DEF ApplyAppend, Admitted, VoteInv, LeadsReported
  <1>6. ASSUME NEW c \in Nodes, f \in DOMAIN probe[c].votes
        PROVE  outcome[probe[c].epoch] # -1 \/ (held[f] # probe[c].epoch /\ lease.epoch # probe[c].epoch)
    <2>1. held[c] = probe[c].epoch /\ VoterFollows(c, f)
      BY <1>6, Voter, Zenon DEF VoteInv, VotersFollow
    <2> QED BY <1>5, <2>1, Zenon DEF VoterFollows
  <1>7. /\ requests' \subseteq Message
        /\ \A k \in requests' : k.epoch \in 1 .. lease.epoch /\ outcome[k.epoch] # -1
    BY <1>1, <1>2, Zenon DEF VoteInv, LeadsReported
  <1> QED BY <1>1, <1>4, <1>6, <1>7, GrowsStep, Zenon

\* Who may be fenced: another node, which does not stand.
LEMMA FencedFollows ==
  ASSUME VoteInv, NEW f \in Nodes, NEW c \in Nodes, FenceAdopt(f, c)
  PROVE  /\ role[f] = "follower" /\ role[c] = "candidate" /\ Stands(c) /\ ~Stands(f) /\ f # c
         /\ f \notin DOMAIN probe[c].votes
         /\ held[c] = probe[c].epoch /\ 1 <= held[c] /\ held[c] <= lease.epoch
         /\ held[f] <= held[c] /\ held[c] <= view[f]
         /\ held' = [ held EXCEPT ![f] = held[c] ]
  <1>1. /\ role[f] \in { "follower", "candidate" } /\ role[c] = "candidate" /\ Stands(c) /\ f # c
        /\ f \notin DOMAIN probe[c].votes
        /\ held[c] = probe[c].epoch /\ 1 <= held[c] /\ held[c] <= lease.epoch
    BY Zenon DEF FenceAdopt, Serving, Stands, VoteInv, EpochsOwned
  <1>2. held[f] <= held[c] /\ held[c] <= view[f] /\ held[f] \in Nat /\ held[c] \in Nat /\ view[f] \in Nat
    BY <1>1, Zenon DEF FenceAdopt, Fenceable, VoteInv, TypeOK
  <1>3. role[f] = "follower"
    BY <1>1, <1>2 DEF VoteInv, EpochsOwned, Stands
  <1>4. held' = [ held EXCEPT ![f] = held[c] ]
    <2>1. Larger(held[f], held[c]) = held[c]
      BY <1>2, SMTT(20) DEF Larger
    <2> QED BY <1>1, <2>1, Zenon DEF FenceAdopt, Adopt
  <1> QED BY <1>1, <1>2, <1>3, <1>4, Zenon DEF Stands

LEMMA FenceAdoptStep ==
  ASSUME VoteInv, NEW f \in Nodes, NEW c \in Nodes, FenceAdopt(f, c), UNCHANGED scen PROVE VoteInv'
  <1> USE DEF VoteInv
  <1>0. /\ held'[f] = held[c] /\ \A m \in Nodes : m # f => held'[m] = held[m]
        /\ fencing'[f].from = {c} /\ fencing'[f].epoch = held[c] /\ fencing'[f].stage = "stopped"
        /\ \A m \in Nodes : m # f => fencing'[m] = fencing[m]
        /\ UNCHANGED << lease, outcome, role, log, active, view, probe, requests, overtaken >>
        /\ \A m \in Nodes : Stands(m)' <=> Stands(m)
    <2>1. held' = [ held EXCEPT ![f] = held[c] ] /\ held \in [ Nodes -> Nat ] /\ held[c] = probe[c].epoch
      BY FencedFollows, Zenon DEF TypeOK
    <2>2. /\ fencing' = [ fencing EXCEPT ![f] =
                           [ from |-> {c}, epoch |-> probe[c].epoch, starts |-> probe[c].starts,
                             stage |-> "stopped", at |-> 0 ] ]
          /\ fencing = [ m \in Nodes |-> fencing[m] ]
      BY Zenon DEF FenceAdopt, TypeOK
    <2>3. UNCHANGED << lease, outcome, role, log, active, view, probe, requests, overtaken >>
      BY Zenon DEF FenceAdopt, metadata, network, ghosts
    <2> QED BY <2>1, <2>2, <2>3, Zenon DEF Stands
  <1>1. TypeOK'
    <2>1. held' \in [ Nodes -> Nat ]
      <3>1. held' = [ held EXCEPT ![f] = held[c] ] /\ held \in [ Nodes -> Nat ]
        BY FencedFollows, Zenon DEF TypeOK
      <3> QED BY <3>1, Zenon
    <2>2. fencing' = [ m \in Nodes |-> fencing'[m] ]
      BY Zenon DEF FenceAdopt, TypeOK
    <2>3. \A m \in Nodes : IsFence(fencing'[m])
      <3>1. fencing'[f] = [ from |-> {c}, epoch |-> probe[c].epoch, starts |-> probe[c].starts,
                            stage |-> "stopped", at |-> 0 ]
        BY Zenon DEF FenceAdopt, TypeOK
      <3>2. probe[c].epoch \in Nat
        BY Zenon DEF TypeOK, IsProbe
      <3> DEFINE r == [ from |-> {c}, epoch |-> probe[c].epoch, starts |-> probe[c].starts,
                        stage |-> "stopped", at |-> 0 ]
      <3>4. /\ r.epoch = probe[c].epoch
            /\ r = [ from |-> r.from, epoch |-> r.epoch, starts |-> r.starts, stage |-> r.stage, at |-> r.at ]
        OBVIOUS
      <3> HIDE DEF r
      <3>5. fencing'[f] = r
        BY <3>1 DEF r
      <3>3. IsFence(fencing'[f])
        BY <3>2, <3>4, <3>5, Zenon DEF IsFence
      <3> QED BY <1>0, <3>3, Zenon DEF TypeOK
    <2> QED BY <1>0, <2>1, <2>2, <2>3, Zenon DEF TypeOK, LogsTyped, MaxEpoch
  <1>2. EpochsOwned'
    BY <1>0, FencedFollows DEF EpochsOwned
  <1>3. ASSUME NEW g \in Nodes, fencing'[g] # NoFence PROVE FenceOwned(g)'
    <2>1. CASE g = f
      <3>1. ASSUME NEW m \in Nodes, Stands(m), held'[m] = held[c]
            PROVE  m = c
        BY <3>1, <1>0, FencedFollows DEF EpochsOwned
      <3>2. held[c] = lease.epoch => lease.holder = {c}
        BY FencedFollows, Zenon DEF EpochsOwned
      <3>3. held[c] <= held[c]
        BY DEF TypeOK
      <3> QED BY <2>1, <3>1, <3>2, <3>3, <1>0, FencedFollows, Zenon DEF FenceOwned
    <2>2. CASE g # f
      <3>1. FenceOwned(g)
        BY <2>2, <1>3, <1>0, Zenon DEF FencesOwned
      <3> QED BY <2>2, <3>1, <1>0, FencedFollows DEF FenceOwned
    <2> QED BY <2>1, <2>2, Zenon
  <1>4. LeadsReported'
    BY <1>0, FencedFollows DEF LeadsReported
  <1>5. ASSUME NEW d \in Nodes, NEW g \in DOMAIN probe[d].votes PROVE VoterFollows(d, g)'
    <2>1. VoterFollows(d, g) /\ g \in Nodes /\ Stands(d) /\ held[d] = probe[d].epoch
      BY <1>5, Voter, SMTT(20) DEF VotersFollow
    <2>2. CASE g # f
      BY <2>1, <2>2, <1>0, Zenon DEF VoterFollows
    <2>3. CASE g = f
      <3>1. d # c
        BY <2>3, FencedFollows, Zenon
      <3>2. held[d] # held[c]
        BY <2>1, <3>1, FencedFollows, Zenon DEF EpochsOwned
      <3> QED BY <2>1, <2>3, <3>2, <1>0, FencedFollows DEF VoterFollows, TypeOK
    <2> QED BY <2>2, <2>3, Zenon
  <1>6. ASSUME NEW d \in Nodes, NEW g \in DOMAIN probe[d].votes PROVE VoteKept(d, g)'
    <2>1. VoteKept(d, g) /\ g \in Nodes /\ Stands(d) /\ held[d] = probe[d].epoch
      BY <1>6, Voter, Zenon DEF VotesKept
    <2>2. CASE g # f
      BY <2>1, <2>2, <1>0, Zenon DEF VoteKept, End
    <2>3. CASE g = f
      <3>1. d # c
        BY <2>3, FencedFollows, Zenon
      <3>2. held[d] # held[c]
        BY <2>1, <3>1, FencedFollows, Zenon DEF EpochsOwned
      <3> QED BY <2>1, <2>3, <3>2, <1>0, Zenon DEF VoteKept, End
    <2> QED BY <2>2, <2>3, Zenon
  <1>7. CutsInLogs'
    BY <1>0, CutsSame, Zenon
  <1> QED BY <1>0, <1>1, <1>2, <1>3, <1>4, <1>5, <1>6, <1>7, Zenon DEF FencesOwned, VotersFollow, VotesKept

\* An answer counts one more vote, or none.
LEMMA AnswerCounts ==
  ASSUME VoteInv, NEW f \in Nodes, NEW o, NEW d, Answered(f, o, d), NEW c \in Nodes
  PROVE  \/ probe'[c] = probe[c]
         \/ /\ fencing[f].from = {c} /\ role[c] = "candidate" /\ probe[c].epoch = fencing[f].epoch
            /\ probe'[c].epoch = probe[c].epoch /\ probe'[c].reported = probe[c].reported /\ IsProbe(probe'[c])
            /\ probe'[c].boundary = probe[c].boundary /\ probe'[c].sent = probe[c].sent
            /\ DOMAIN probe'[c].votes = DOMAIN probe[c].votes \cup {f} /\ probe'[c].votes[f] = o
            /\ \A g \in DOMAIN probe[c].votes : g # f => probe'[c].votes[g] = probe[c].votes[g]
  <1> DEFINE counts == d /\ fencing[f].from = {c} /\ role[c] = "candidate"
                         /\ probe[c].epoch = fencing[f].epoch /\ probe[c].boundary = -1
             votes == [ m \in DOMAIN probe[c].votes \cup {f} |-> IF m = f THEN o ELSE probe[c].votes[m] ]
             p == [ probe[c] EXCEPT !.votes = votes ]
  <1>1. probe'[c] = IF counts THEN p ELSE probe[c]
    BY Zenon DEF Answered
  <1>2. IsProbe(probe[c])
    BY Zenon DEF VoteInv, TypeOK
  <1>3. /\ DOMAIN votes = DOMAIN probe[c].votes \cup {f} /\ votes[f] = o
        /\ \A g \in DOMAIN probe[c].votes : g # f => votes[g] = probe[c].votes[g]
    BY Zenon
  <1> HIDE DEF votes
  <1>4. /\ p.epoch = probe[c].epoch /\ p.reported = probe[c].reported /\ p.votes = votes
        /\ p.boundary = probe[c].boundary /\ p.sent = probe[c].sent
        /\ p = [ epoch |-> p.epoch, starts |-> p.starts, votes |-> p.votes, boundary |-> p.boundary,
                 sent |-> p.sent, reported |-> p.reported ]
    BY <1>2 DEF IsProbe
  <1> HIDE DEF p
  <1>5. IsProbe(p)
    BY <1>2, <1>3, <1>4, Zenon DEF IsProbe
  <1> QED BY <1>1, <1>3, <1>4, <1>5, Zenon

FenceAt(q, stage, o) == [ q EXCEPT !.stage = stage, !.at = o ]

IsFenceAt(r, q, stage, o) ==
  /\ r = [ from |-> r.from, epoch |-> r.epoch, starts |-> r.starts, stage |-> r.stage, at |-> r.at ]
  /\ r.from = q.from /\ r.epoch = q.epoch /\ r.starts = q.starts /\ r.stage = stage /\ r.at = o

LEMMA FenceAdvances ==
  ASSUME NEW q, IsFence(q), NEW stage, NEW o
  PROVE  IsFenceAt(FenceAt(q, stage, o), q, stage, o)
  <1>1. PICK a, b, c, d, e : q = [ from |-> a, epoch |-> b, starts |-> c, stage |-> d, at |-> e ]
    BY Zenon DEF IsFence
  <1>2. PICK r : r = [ q EXCEPT !.stage = stage, !.at = o ]
    BY Zenon
  <1>3. r = [ from |-> a, epoch |-> b, starts |-> c, stage |-> stage, at |-> o ]
    BY <1>1, <1>2
  <1>4. IsFenceAt(r, q, stage, o)
    BY <1>1, <1>3 DEF IsFenceAt
  <1>5. FenceAt(q, stage, o) = r
    BY <1>2, Zenon DEF FenceAt
  <1> QED BY <1>4, <1>5, Zenon

\* What a fence's next step leaves of its record.
LEMMA Reached ==
  ASSUME VoteInv, NEW f \in Nodes, NEW stage, NEW o, Reaches(f, stage, o)
  PROVE  /\ IsFence(fencing'[f]) /\ fencing'[f].from = fencing[f].from /\ fencing'[f].epoch = fencing[f].epoch
         /\ fencing'[f].starts = fencing[f].starts /\ fencing'[f].stage = stage /\ fencing'[f].at = o
         /\ fencing' = [ m \in Nodes |-> fencing'[m] ] /\ \A m \in Nodes : m # f => fencing'[m] = fencing[m]
  <1>1. IsFence(fencing[f]) /\ fencing = [ m \in Nodes |-> fencing[m] ]
    BY Zenon DEF VoteInv, TypeOK
  <1>2. IsFenceAt(FenceAt(fencing[f], stage, o), fencing[f], stage, o)
    BY <1>1, FenceAdvances, Zenon
  <1>3. fencing' = [ fencing EXCEPT ![f] = FenceAt(fencing[f], stage, o) ]
    BY Zenon DEF Reaches, FenceAt
  <1>4. fencing'[f] = FenceAt(fencing[f], stage, o) /\ \A m \in Nodes : m # f => fencing'[m] = fencing[m]
    BY <1>1, <1>3, Zenon
  <1>5. fencing' = [ m \in Nodes |-> fencing'[m] ]
    BY <1>1, <1>3, UpdatedByNode, Zenon
  <1> QED BY <1>1, <1>2, <1>4, <1>5, Zenon DEF IsFence, IsFenceAt

LEMMA HandlingFences ==
  ASSUME NEW f, NEW stage, Handling(f, stage), stage # "none"
  PROVE  fencing[f] # NoFence
  BY Zenon, Blank DEF Handling

\* A fence goes on: the log may be cut, under the epoch the replica holds, or
\* the replica counts as overtaken.
LEMMA FenceMovesStep ==
  ASSUME VoteInv, NEW f \in Nodes, fencing[f] # NoFence, NEW stage, NEW o, Reaches(f, stage, o),
         LogsTyped', \A m \in Nodes : m # f => log'[m] = log[m], overtaken \subseteq overtaken',
         log' = log \/ (f \notin overtaken' => ~(held[f] > fencing[f].epoch)),
         stage = "bounded" => o \in 0 .. Len(log'[f]),
         UNCHANGED << scen, lease, outcome, role, active, held, view, probe, requests >>
  PROVE  VoteInv'
  <1>0. /\ IsFence(fencing'[f]) /\ fencing'[f].from = fencing[f].from /\ fencing'[f].epoch = fencing[f].epoch
        /\ fencing'[f].stage = stage /\ fencing'[f].at = o
        /\ fencing' = [ m \in Nodes |-> fencing'[m] ] /\ \A m \in Nodes : m # f => fencing'[m] = fencing[m]
    BY Reached
  <1> USE DEF VoteInv
  <1>1. FenceOwned(f) /\ \A m \in Nodes : Stands(m)' <=> Stands(m)
    BY Zenon DEF FencesOwned, Stands
  <1>2. TypeOK'
    <2>1. \A m \in Nodes : IsFence(fencing'[m])
      BY <1>0, Zenon DEF TypeOK
    <2> QED BY <1>0, <2>1, ZenonT(20) DEF TypeOK, MaxEpoch
  <1>3. EpochsOwned' /\ LeadsReported'
    BY <1>1, Zenon DEF EpochsOwned, LeadsReported
  <1>4. ASSUME NEW g \in Nodes, fencing'[g] # NoFence PROVE FenceOwned(g)'
    <2>1. FenceOwned(g) /\ fencing'[g].from = fencing[g].from /\ fencing'[g].epoch = fencing[g].epoch
      BY <1>4, <1>0, <1>1, Zenon DEF FencesOwned
    <2> HIDE DEF VoteInv
    <2> QED BY <2>1, <1>1, Zenon DEF FenceOwned
  <1>5. VotersFollow'
    <2> SUFFICES ASSUME NEW c \in Nodes, NEW g \in DOMAIN probe[c].votes PROVE VoterFollows(c, g)'
      BY Zenon DEF VotersFollow
    <2>1. VoterFollows(c, g) /\ g \in Nodes
      BY Voter, Zenon DEF VotersFollow
    <2> QED BY <2>1, <1>0, <1>1, Zenon DEF VoterFollows
  <1>6. ASSUME NEW c \in Nodes, NEW g \in DOMAIN probe[c].votes PROVE VoteKept(c, g)'
    <2>1. VoteKept(c, g) /\ g \in Nodes /\ VoterFollows(c, g) /\ Stands(c) /\ held[c] = probe[c].epoch
      BY Voter, SMTT(20) DEF VotesKept, VotersFollow
    <2>2. CASE g # f \/ log' = log
      <3>1. log'[g] = log[g]
        BY <2>1, <2>2, Zenon
      <3> QED BY <2>1, <3>1, Zenon DEF VoteKept, End
    <2>3. CASE g = f /\ (f \notin overtaken' => ~(held[f] > fencing[f].epoch))
      <3>1. held[c] # fencing[f].epoch
        BY <2>1, <2>3, <1>1, SMTT(20) DEF FenceOwned
      <3>2. f \notin overtaken' => held[f] = fencing[f].epoch
        BY <2>3, <1>1 DEF FenceOwned, TypeOK, IsFence
      <3> QED BY <2>1, <2>3, <3>1, <3>2, Zenon DEF VoteKept, VoterFollows
    <2> QED BY <2>2, <2>3, Zenon
  <1>7. ASSUME NEW g \in Nodes PROVE CutInLog(g)'
    BY <1>0, Zenon DEF CutsInLogs, CutInLog, End
  <1> QED BY <1>2, <1>3, <1>4, <1>5, <1>6, <1>7, Zenon DEF FencesOwned, VotesKept, CutsInLogs

LEMMA FenceProceedsStep ==
  ASSUME VoteInv, NEW f \in Nodes, UNCHANGED scen,
         FenceCompares(f) \/ FenceBounded(f) \/ FenceCutsLog(f) \/ FenceCutsHistory(f)
  PROVE  VoteInv'
  <1>1. UNCHANGED << lease, outcome, role, active, held, view, probe, requests >>
    BY Zenon DEF FenceCompares, FenceBounded, FenceCutsLog, FenceCutsHistory, metadata, follower, network
  <1>2. ASSUME log' = log
        PROVE  LogsTyped' /\ \A m \in Nodes : m # f => log'[m] = log[m]
    BY <1>2, Zenon DEF VoteInv, TypeOK, LogsTyped
  <1>3. CASE FenceCompares(f)
    <2>1. log' = log /\ overtaken' = overtaken /\ fencing[f] # NoFence
      BY <1>3, HandlingFences, Zenon DEF FenceCompares, disk, ghosts
    <2>2. PICK stage, o : Reaches(f, stage, o) /\ stage # "bounded"
      <3>1. "settled" # "bounded" /\ "diverged" # "bounded"
        OBVIOUS
      <3> QED BY <1>3, <3>1, Zenon DEF FenceCompares
    <2> QED BY <1>1, <1>2, <2>1, <2>2, FenceMovesStep, Zenon
  <1>4. CASE FenceBounded(f)
    <2>1. log' = log /\ overtaken' = overtaken /\ fencing[f] # NoFence
      BY <1>4, HandlingFences, Zenon DEF FenceBounded, disk, ghosts
    <2>2. fencing[f].at \in 0 .. Len(log[f]) - 1 => fencing[f].at \in 0 .. Len(log'[f])
      <3>1. Len(log[f]) \in Nat /\ Len(log'[f]) = Len(log[f])
        BY <2>1 DEF VoteInv, TypeOK, LogsTyped
      <3> QED BY <3>1
    <2>3. PICK stage, o : Reaches(f, stage, o) /\ (stage = "bounded" => o \in 0 .. Len(log'[f]))
      <3>1. "settled" # "bounded"
        OBVIOUS
      <3>2. CASE Reaches(f, "settled", 0)
        BY <3>1, <3>2, Zenon
      <3>3. CASE fencing[f].at \in 0 .. Len(log[f]) - 1 /\ Reaches(f, "bounded", fencing[f].at)
        BY <2>2, <3>3, Zenon
      <3> QED BY <1>4, <3>2, <3>3, Zenon DEF FenceBounded, End
    <2> QED BY <1>1, <1>2, <2>1, <2>3, FenceMovesStep, Zenon
  <1>5. CASE FenceCutsLog(f)
    <2>1. fencing[f] # NoFence /\ Reaches(f, "logCut", fencing[f].at)
      BY <1>5, HandlingFences, Zenon DEF FenceCutsLog
    <2> QED BY <1>1, <1>5, <2>1, CutLogs, FenceMovesStep, Zenon
  <1>6. CASE FenceCutsHistory(f)
    <2>1. log' = log /\ overtaken' = overtaken /\ fencing[f] # NoFence /\ Reaches(f, "settled", 0)
      BY <1>6, HandlingFences, Zenon DEF FenceCutsHistory, ghosts
    <2> QED BY <1>1, <1>2, <2>1, FenceMovesStep, Zenon
  <1> QED BY <1>3, <1>4, <1>5, <1>6, Zenon

\* A fence ends: the replica answers with what it then has.
LEMMA FenceEndsStep ==
  ASSUME VoteInv, NEW f \in Nodes, fencing[f] # NoFence, NEW d, Answered(f, Len(log[f]), d),
         fencing' = [ fencing EXCEPT ![f] = NoFence ],
         UNCHANGED << scen, lease, outcome, log, role, active, held, view, requests, overtaken >>
  PROVE  VoteInv'
  <1> USE DEF VoteInv
  <1>0. /\ FenceOwned(f) /\ fencing'[f] = NoFence /\ \A m \in Nodes : m # f => fencing'[m] = fencing[m]
        /\ \A m \in Nodes : Stands(m)' <=> Stands(m)
    BY Zenon DEF FencesOwned, TypeOK, Stands
  <1>1. ASSUME NEW c \in Nodes
        PROVE  /\ IsProbe(probe'[c]) /\ probe'[c].epoch = probe[c].epoch /\ probe'[c].reported = probe[c].reported
               /\ role[c] # "candidate" => probe'[c] = probe[c]
               /\ DOMAIN probe'[c].votes \subseteq DOMAIN probe[c].votes \cup {f}
               /\ \A g \in DOMAIN probe'[c].votes : g # f =>
                    g \in DOMAIN probe[c].votes /\ probe'[c].votes[g] = probe[c].votes[g]
    BY AnswerCounts DEF TypeOK
  <1>2. TypeOK'
    <2>1. probe' = [ c \in Nodes |-> probe'[c] ]
      BY Zenon DEF Answered
    <2>2. fencing' = [ m \in Nodes |-> fencing'[m] ]
      BY UpdatedByNode, Zenon DEF TypeOK
    <2>3. \A m \in Nodes : IsFence(fencing'[m])
      BY <1>0, Blank, Zenon DEF TypeOK
    <2> QED BY <1>1, <2>1, <2>2, <2>3, Zenon DEF TypeOK, LogsTyped, MaxEpoch
  <1>3. EpochsOwned'
    BY <1>0, <1>1, ZenonT(20) DEF EpochsOwned
  <1>4. ASSUME NEW g \in Nodes, fencing'[g] # NoFence PROVE FenceOwned(g)'
    <2>1. g # f /\ FenceOwned(g)
      BY <1>4, <1>0, Zenon DEF FencesOwned
    <2>2. fencing'[g] = fencing[g]
      BY <2>1, <1>0, Zenon
    <2>3. \A m \in Nodes : g \notin DOMAIN probe[m].votes => g \notin DOMAIN probe'[m].votes
      BY <2>1, <1>1, Zenon
    <2>4. \A m \in Nodes : Stands(m)' => Stands(m)
      BY <1>0, Zenon
    <2> HIDE DEF VoteInv
    <2> QED BY <2>1, <2>2, <2>3, <2>4, Zenon DEF FenceOwned
  <1>5. LeadsReported'
    BY <1>1 DEF LeadsReported
  <1>6. ASSUME NEW c \in Nodes, NEW g \in DOMAIN probe'[c].votes PROVE VoterFollows(c, g)'
    <2>1. CASE g \in DOMAIN probe[c].votes
      <3>1. VoterFollows(c, g) /\ g \in Nodes
        BY <2>1, Voter, Zenon DEF VotersFollow
      <3> QED BY <3>1, <1>0, <1>1, Zenon DEF VoterFollows
    <2>2. CASE g \notin DOMAIN probe[c].votes
      <3>1. g = f /\ fencing[f].from = {c} /\ probe[c].epoch = fencing[f].epoch
        BY <2>2, <1>1, AnswerCounts
      <3>2. ASSUME probe[c].epoch = lease.epoch PROVE held[f] = lease.epoch /\ view[f] = lease.epoch
        BY <3>1, <3>2, <1>0 DEF FenceOwned, EpochsOwned, TypeOK
      <3>3. ASSUME probe[c].epoch = lease.epoch PROVE role[f] = "follower"
        BY <3>1, <3>2, <3>3, <1>0, SMTT(20) DEF FenceOwned, Stands
      <3> QED BY <3>1, <3>2, <3>3, <1>0, <1>1, Zenon DEF VoterFollows
    <2> QED BY <2>1, <2>2, Zenon
  <1>7. ASSUME NEW c \in Nodes, NEW g \in DOMAIN probe'[c].votes PROVE VoteKept(c, g)'
    <2>1. CASE g # f
      <3>1. g \in DOMAIN probe[c].votes /\ probe'[c].votes[g] = probe[c].votes[g] /\ VoteKept(c, g) /\ g \in Nodes
        BY <2>1, <1>1, Voter, Zenon DEF VotesKept
      <3> QED BY <2>1, <3>1, <1>1, SMTT(20) DEF VoteKept, End
    <2>2. CASE g = f /\ probe'[c] # probe[c]
      <3>1. probe'[c].votes[f] = Len(log[f])
        BY <2>2, AnswerCounts
      <3> QED BY <2>2, <3>1, Zenon DEF VoteKept, End
    <2>3. CASE g = f /\ probe'[c] = probe[c]
      <3>1. VoteKept(c, f)
        BY <2>3, Zenon DEF VotesKept
      <3> QED BY <2>3, <3>1, ZenonT(20) DEF VoteKept, End
    <2> QED BY <2>1, <2>2, <2>3, SMTT(20)
  <1>8. CutsInLogs'
    BY <1>0, Blank, CutsSame, Zenon
  <1> QED BY <1>2, <1>3, <1>4, <1>5, <1>6, <1>7, <1>8, Zenon DEF FencesOwned, VotersFollow, VotesKept

LEMMA FenceAnswerStep ==
  ASSUME VoteInv, NEW f \in Nodes, FenceAnswers(f) \/ FenceRefused(f), UNCHANGED scen
  PROVE  VoteInv'
  <1>1. /\ fencing[f] # NoFence /\ fencing' = [ fencing EXCEPT ![f] = NoFence ]
        /\ UNCHANGED << lease, outcome, log, role, active, held, view, requests, overtaken >>
    BY HandlingFences, Zenon DEF FenceAnswers, FenceRefused, metadata, disk, follower, network, ghosts
  <1>2. PICK d \in BOOLEAN : Answered(f, Len(log[f]), d)
    <2>1. CASE FenceAnswers(f)
      BY <2>1, Zenon DEF FenceAnswers, End
    <2>2. CASE FenceRefused(f)
      <3>1. probe' = probe
        BY <2>2, Zenon DEF FenceRefused
      <3>2. Answered(f, Len(log[f]), FALSE)
        BY <3>1, Zenon DEF Answered, VoteInv, TypeOK
      <3> QED BY <3>2, Zenon
    <2> QED BY <2>1, <2>2, Zenon
  <1> QED BY <1>1, <1>2, FenceEndsStep, Zenon

LEMMA VoteInit == Init => VoteInv
  <1> SUFFICES ASSUME Init PROVE VoteInv
    BY Zenon
  <1>0. /\ scen \in Scenarios /\ MaxEpoch \in Nat /\ Inherited \in Nat /\ (Inherited > 0 => MaxEpoch > 0)
        /\ lease.epoch \in 0 .. 1 /\ lease.holder = {}
        /\ lease = [ epoch |-> IF Inherited > 0 THEN 1 ELSE 0, holder |-> {} ]
    BY ScenarioAssumption DEF Init, MaxEpoch, Inherited
  <1>1. /\ \A n \in Nodes : role[n] = "follower" /\ held[n] = 0 /\ view[n] = 0 /\ ~active[n]
        /\ \A n \in Nodes : probe[n] = NoProbe /\ fencing[n] = NoFence
        /\ requests = {}
    BY Zenon DEF Init
  <1>2. LogsTyped
    <2>1. PICK holders : log = [ n \in Nodes |-> IF n \in holders THEN << 1 >> ELSE << >> ]
      BY Zenon DEF Init
    <2>2. << 1 >> \in Seq(Nat \ {0}) /\ << >> \in Seq(Nat \ {0})
      OBVIOUS
    <2> QED BY <2>1, <2>2, Zenon DEF LogsTyped
  <1>3. TypeOK
    <2>1. lease \in [ epoch : 0 .. MaxEpoch, holder : SUBSET Nodes ] /\ outcome = [ e \in 1 .. MaxEpoch |-> outcome[e] ]
      BY <1>0 DEF Init
    <2>2. /\ role \in [ Nodes -> Roles ] /\ active \in [ Nodes -> BOOLEAN ] /\ held \in [ Nodes -> Nat ]
          /\ view \in [ Nodes -> Nat ] /\ probe = [ n \in Nodes |-> probe[n] ]
          /\ fencing = [ n \in Nodes |-> fencing[n] ]
      BY Zenon DEF Init, Roles
    <2> QED BY <1>0, <1>1, <1>2, <2>1, <2>2, Blank DEF TypeOK
  <1>4. EpochsOwned /\ FencesOwned
    BY <1>0, <1>1, SMTT(20) DEF EpochsOwned, FencesOwned, Stands
  <1>5. LeadsReported /\ VotersFollow /\ VotesKept /\ CutsInLogs
    BY <1>1, Blank, Zenon DEF LeadsReported, VotersFollow, VotesKept, CutsInLogs, CutInLog
  <1> QED BY <1>3, <1>4, <1>5, Zenon DEF VoteInv

LEMMA VoteStep == VoteInv /\ [Next]_vars => VoteInv'
  <1> SUFFICES ASSUME VoteInv, [Next]_vars PROVE VoteInv'
    BY Zenon
  <1>1. CASE UNCHANGED vars
    BY <1>1, FrameStep, Zenon DEF vars, voteVars, metadata, disk, follower, network, ghosts
  <1>2. CASE Next
    <2>1. UNCHANGED scen /\ Replicas \subseteq Nodes
      BY <1>2, ScenarioAssumption, Zenon DEF Next, Replicas, VoteInv, TypeOK
    <2>2. PICK n \in Replicas : Candidacy(n) \/ Leadership(n) \/ Fencing(n) \/ Following(n) \/ Failing(n)
      BY <1>2, Zenon DEF Next, Step
    <2>3. n \in Nodes
      BY <2>1, Zenon
    <2>4. CASE Candidacy(n)
      BY <2>1, <2>3, <2>4, AcquireStep, FenceLocallyStep, EstablishedStep, StandAsideStep, ReportStep,
         PromoteStep, RebuildStep, Zenon DEF Candidacy
    <2>5. CASE Leadership(n)
      <3>1. CASE Commit(n)
        BY <2>1, <3>1, FrameStep, Zenon DEF Commit, voteVars, metadata, disk
      <3> QED BY <2>1, <2>3, <2>5, <3>1, AppendStep, RebuildStep, SMTT(20) DEF Leadership
    <2>6. CASE Fencing(n)
      BY <2>1, <2>3, <2>6, FenceAdoptStep, FenceProceedsStep, FenceAnswerStep, Zenon DEF Fencing
    <2>7. CASE Following(n)
      <3>1. CASE \E m \in hwms : ObserveHwm(n, m)
        BY <2>1, <3>1, FrameStep, Zenon DEF ObserveHwm, voteVars, metadata, network, ghosts
      <3> QED BY <2>1, <2>3, <2>7, <3>1, ObserveStep, ApplyStep, Zenon DEF Following
    <2>8. CASE Failing(n)
      BY <2>1, <2>3, <2>8, CrashStep, RebuildStep, Zenon DEF Failing
    <2> QED BY <2>2, <2>4, <2>5, <2>6, <2>7, <2>8, Zenon
  <1> QED BY <1>1, <1>2, Zenon

\* The offset a candidate counts for a replica is what that replica still has
\* when the promotion is decided, unless it has moved to another epoch or was
\* answering an older fence (VoteStands), for any replica set and any number of
\* leaderships, records and crashes.
THEOREM VoteStandsHolds == Spec => []VoteStands
  <1>1. VoteInv => VoteStands
    BY Zenon DEF VoteInv, VotesKept, VoteKept, VoteStands
  <1> QED BY <1>1, VoteInit, VoteStep, PTL DEF Spec

-----------------------------------------------------------------------------
(* What leaders have sent. *)

\* A fan-out covers what its leader holds, and is answered by replicas.
FanOutsTrue ==
  /\ \A m \in requests : 1 <= m.upto
  /\ \A n \in Nodes : \A m \in requests : role[n] = "leader" /\ held[n] = m.epoch => m.upto <= End(n)
  /\ \A a \in acks : a.of \in requests /\ a.from \in Replicas

\* A promotion is reported before the first append of its epoch.
ReportsFirst ==
  \A c \in Nodes : probe[c].sent \/ probe[c].reported =>
    \A m \in requests : m.epoch # probe[c].epoch

FanInv == FanOutsTrue /\ ReportsFirst

LEMMA BlankProbe == ~NoProbe.sent /\ ~NoProbe.reported /\ NoProbe.boundary = -1 /\ DOMAIN NoProbe.votes = {}
  BY DEF NoProbe

\* Only a candidate has voters or a boundary.
LEMMA Proposes ==
  ASSUME VoteInv, NEW c \in Nodes, probe[c] # NoProbe
  PROVE  /\ role[c] = "candidate" /\ Stands(c) /\ held[c] = probe[c].epoch
         /\ probe[c].epoch \in 1 .. MaxEpoch /\ probe[c].epoch <= lease.epoch
  <1>1. role[c] = "candidate" /\ Stands(c) /\ held[c] = probe[c].epoch
    BY Zenon DEF VoteInv, EpochsOwned, Stands
  <1> QED BY <1>1, StandsFor, Zenon

\* What a step leaves of the promotions: a probe as it was, or no probe.
ProbesKept == \A c \in Nodes : probe'[c] = probe[c] \/ probe'[c] = NoProbe

LEMMA ProbesKeptStep ==
  ASSUME VoteInv, NEW n \in Nodes,
         Candidacy(n) \/ Leadership(n) \/ Fencing(n) \/ Following(n) \/ Failing(n)
  PROVE  \/ ProbesKept
         \/ FenceLocally(n) \/ Established(n) \/ Report(n) \/ ReportUnanswered(n)
         \/ FenceAnswers(n)
  <1>1. CASE \/ Acquire(n) \/ AppendLocal(n) \/ Resend(n) \/ Commit(n)
             \/ (\E c \in Nodes : FenceAdopt(n, c)) \/ FenceCompares(n) \/ FenceBounded(n)
             \/ FenceRefused(n) \/ FenceCutsLog(n) \/ FenceCutsHistory(n)
             \/ (\E m \in requests : ApplyAppend(n, m)) \/ (\E m \in hwms : ObserveHwm(n, m))
    <2>1. probe' = probe
      BY <1>1, Zenon DEF Acquire, AppendLocal, Resend, Commit, FenceAdopt, FenceCompares, FenceBounded,
         FenceRefused, FenceCutsLog, FenceCutsHistory, ApplyAppend, ObserveHwm
    <2> QED BY <2>1, Zenon DEF ProbesKept
  <1>2. CASE \/ Demote(n) \/ StandDown(n) \/ Restart(n) \/ Crash(n)
             \/ Observe(n) \/ StandAside(n) \/ Promote(n)
    <2>1. probe' = [ probe EXCEPT ![n] = NoProbe ]
      BY <1>2, Zenon DEF Demote, StandDown, Restart, Reopened, Crash, Stop, Observe,
         StandAside, Promote
    <2>2. probe = [ c \in Nodes |-> probe[c] ]
      BY Zenon DEF VoteInv, TypeOK
    <2> QED BY <2>1, <2>2, Zenon DEF ProbesKept
  <1> QED BY <1>1, <1>2, Zenon DEF Candidacy, Leadership, Fencing, Following, Failing

\* An answer to a fence comes with an offset of the replica's log.
LEMMA AnswerOf ==
  ASSUME VoteInv, NEW n \in Nodes, FenceAnswers(n)
  PROVE  /\ \E o \in Nat : \E d \in BOOLEAN : Answered(n, o, d)
         /\ fencing[n] # NoFence /\ UNCHANGED << outcome, requests >>
  <1>1. End(n) \in Nat
    BY DEF VoteInv, TypeOK, LogsTyped, End
  <1>2. fencing[n] # NoFence /\ UNCHANGED << outcome, requests >>
    BY HandlingFences, Zenon DEF FenceAnswers, metadata, network
  <1> QED BY <1>1, <1>2, Zenon DEF FenceAnswers

\* Nobody comes to lead, and no leader's log shrinks.
LeadersKept ==
  \A l \in Nodes : role'[l] = "leader" => role[l] = "leader" /\ held'[l] = held[l] /\ End(l) <= End(l)'

LEMMA FanOutsKept ==
  ASSUME VoteInv, VoteInv', FanOutsTrue, LeadersKept, UNCHANGED << scen, requests >>,
         \A a \in acks' : a \in acks \/ (a.of \in requests /\ a.from \in Replicas)
  PROVE  FanOutsTrue'
  <1>1. ASSUME NEW n \in Nodes, NEW m \in requests, role'[n] = "leader", held'[n] = m.epoch
        PROVE  m.upto <= End(n)'
    <2>1. role[n] = "leader" /\ held[n] = m.epoch /\ End(n) <= End(n)'
      BY <1>1, Zenon DEF LeadersKept
    <2>2. m.upto <= End(n)
      BY <2>1, Zenon DEF FanOutsTrue
    <2>3. m.upto \in Nat
      BY Zenon DEF VoteInv, TypeOK, Message
    <2>4. log'[n] \in Seq(Nat \ {0}) /\ log[n] \in Seq(Nat \ {0})
      BY Zenon DEF VoteInv, TypeOK, LogsTyped
    <2>5. End(n) \in Nat /\ End(n)' \in Nat
      BY <2>4 DEF End
    <2> QED BY <2>1, <2>2, <2>3, <2>5
  <1>2. \A a \in acks' : a.of \in requests' /\ a.from \in Replicas'
    BY Zenon DEF FanOutsTrue, Replicas
  <1> QED BY <1>1, <1>2, Zenon DEF FanOutsTrue

\* A step of one node that leads neither before nor after keeps the leaders.
LEMMA LeadersElsewhere ==
  ASSUME VoteInv, NEW n \in Nodes, role'[n] # "leader",
         \A m \in Nodes : m # n => role'[m] = role[m] /\ held'[m] = held[m] /\ log'[m] = log[m]
  PROVE  LeadersKept
  <1> SUFFICES ASSUME NEW l \in Nodes, l # n PROVE End(l) <= End(l)'
    BY Zenon DEF LeadersKept
  <1>1. log'[l] = log[l] /\ Len(log[l]) \in Nat
    BY DEF VoteInv, TypeOK, LogsTyped
  <1> QED BY <1>1 DEF End

LEMMA LeadersUnmoved ==
  ASSUME VoteInv, UNCHANGED << role, held, log >> PROVE LeadersKept
  <1> SUFFICES ASSUME NEW l \in Nodes PROVE End(l) <= End(l)'
    BY Zenon DEF LeadersKept
  <1>1. Len(log[l]) \in Nat
    BY DEF VoteInv, TypeOK, LogsTyped
  <1> QED BY <1>1 DEF End

\* A leader's new fan-out covers its log, and no other leader's is touched.
LEMMA FanOutsSent ==
  ASSUME VoteInv, VoteInv', FanOutsTrue, NEW n \in Nodes, AppendLocal(n) \/ Resend(n), UNCHANGED scen
  PROVE  FanOutsTrue'
  <1>1. role[n] = "leader" /\ UNCHANGED << role, held, acks >>
    BY Zenon DEF AppendLocal, Resend, follower
  <1>2. log[n] \in Seq(Nat \ {0}) /\ log \in [ Nodes -> Seq(Nat \ {0}) ]
    BY Zenon DEF VoteInv, TypeOK, LogsTyped
  <1>a. held[n] \in Nat \ {0}
    <2>1. held[n] \in 1 .. lease.epoch /\ held[n] \in Nat
      BY <1>1, LeaderFree, Zenon DEF VoteInv, TypeOK
    <2> QED BY <2>1
  <1>3. PICK r : requests' = requests \cup {r} /\ r.epoch = held[n] /\ r.upto = End(n)' /\ 1 <= r.upto
    <2>1. CASE AppendLocal(n)
      <3>1. log' = [ log EXCEPT ![n] = Append(log[n], held[n]) ]
        BY <2>1, Zenon DEF AppendLocal
      <3>2. log'[n] = Append(log[n], held[n])
        BY <1>2, <3>1, Zenon
      <3>4. Len(log'[n]) = Len(log[n]) + 1 /\ Len(log[n]) \in Nat
        BY <1>2, <1>a, <3>2
      <3>5. End(n)' = End(n) + 1 /\ 1 <= End(n) + 1
        BY <3>4 DEF End
      <3> DEFINE r == [ epoch |-> held[n], base |-> End(n), rec |-> held[n], upto |-> End(n) + 1 ]
      <3>6. requests' = requests \cup {r}
        BY <2>1, Zenon DEF AppendLocal
      <3>7. r.epoch = held[n] /\ r.upto = End(n) + 1
        OBVIOUS
      <3> HIDE DEF r
      <3> QED BY <3>5, <3>6, <3>7, Zenon
    <2>2. CASE Resend(n)
      <3>1. PICK o \in 0 .. End(n) - 1 :
              requests' = requests \cup
                { [ epoch |-> held[n], base |-> o, rec |-> log[n][o + 1], upto |-> End(n) ] }
        BY <2>2, Zenon DEF Resend
      <3>2. End(n)' = End(n) /\ End(n) \in Nat
        BY <1>2, <2>2 DEF Resend, disk, End
      <3> DEFINE r == [ epoch |-> held[n], base |-> o, rec |-> log[n][o + 1], upto |-> End(n) ]
      <3>3. r.epoch = held[n] /\ r.upto = End(n)' /\ 1 <= End(n)'
        BY <3>2
      <3>4. requests' = requests \cup {r}
        BY <3>1, Zenon
      <3> HIDE DEF r
      <3> QED BY <3>3, <3>4, Zenon
    <2> QED BY <2>1, <2>2, Zenon
  <1>4. \A l \in Nodes : role[l] = "leader" => End(l) <= End(l)'
    <2>1. log' = log \/ log' = [ log EXCEPT ![n] = Append(log[n], held[n]) ]
      BY Zenon DEF AppendLocal, Resend, disk
    <2> SUFFICES ASSUME NEW l \in Nodes PROVE Len(log[l]) <= Len(log'[l])
      BY Zenon DEF End
    <2>2. Len(log[l]) \in Nat /\ log[l] \in Seq(Nat \ {0})
      BY <1>2
    <2>3. log'[l] = log[l] \/ log'[l] = Append(log[l], held[n])
      BY <1>2, <2>1, Zenon
    <2> QED BY <1>a, <2>2, <2>3
  <1>5. ASSUME NEW l \in Nodes, NEW m \in requests', role[l] = "leader", held[l] = m.epoch
        PROVE  m.upto <= End(l)'
    <2>1. CASE m \in requests
      <3>1. m.upto <= End(l) /\ End(l) <= End(l)'
        BY <1>4, <1>5, <2>1, Zenon DEF FanOutsTrue
      <3>2. m.upto \in Nat
        BY <2>1, Zenon DEF VoteInv, TypeOK, Message
      <3>3. log'[l] \in Seq(Nat \ {0}) /\ log[l] \in Seq(Nat \ {0})
        BY Zenon DEF VoteInv, TypeOK, LogsTyped
      <3>4. End(l) \in Nat /\ End(l)' \in Nat
        BY <3>3 DEF End
      <3> QED BY <3>1, <3>2, <3>4
    <2>2. CASE m = r
      <3>1. l = n
        <4>1. Stands(l) /\ Stands(n) /\ held[l] = held[n]
          BY <1>1, <1>3, <1>5, <2>2, Zenon DEF Stands
        <4> QED BY <4>1, Zenon DEF VoteInv, EpochsOwned
      <3>2. End(n)' \in Nat
        BY DEF VoteInv, TypeOK, LogsTyped, End
      <3> QED BY <1>3, <2>2, <3>1, <3>2
    <2> QED BY <1>3, <1>5, <2>1, <2>2, Zenon
  <1>6. /\ \A m \in requests' : 1 <= m.upto
        /\ \A a \in acks' : a.of \in requests' /\ a.from \in Replicas'
    BY <1>1, <1>3, Zenon DEF FanOutsTrue, Replicas
  <1> QED BY <1>1, <1>5, <1>6, Zenon DEF FanOutsTrue

\* A candidate that comes to lead has sent nothing under its epoch.
LEMMA FanOutsPromoted ==
  ASSUME VoteInv, VoteInv', FanOutsTrue, ReportsFirst, NEW n \in Nodes, Promote(n), UNCHANGED scen
  PROVE  FanOutsTrue'
  <1>1. /\ probe[n].reported /\ UNCHANGED << log, requests, acks >>
        /\ held' = [ held EXCEPT ![n] = probe[n].epoch ] /\ held \in [ Nodes -> Nat ]
        /\ role' = [ role EXCEPT ![n] = "leader" ] /\ role \in [ Nodes -> Roles ]
    BY Zenon DEF Promote, network, VoteInv, TypeOK
  <1>2. held'[n] = probe[n].epoch /\ \A m \in Nodes : m # n => role'[m] = role[m] /\ held'[m] = held[m]
    BY <1>1, Zenon
  <1>3. \A m \in requests : m.epoch # probe[n].epoch
    BY <1>1, Zenon DEF ReportsFirst
  <1>4. ASSUME NEW l \in Nodes, NEW m \in requests, role'[l] = "leader", held'[l] = m.epoch
        PROVE  m.upto <= End(l)'
    BY <1>1, <1>2, <1>3, <1>4, Zenon DEF FanOutsTrue, End
  <1> QED BY <1>1, <1>4, Zenon DEF FanOutsTrue, Replicas

LEMMA FanOutsStep ==
  ASSUME VoteInv, VoteInv', FanInv, NEW n \in Replicas, n \in Nodes, UNCHANGED scen,
         Candidacy(n) \/ Leadership(n) \/ Fencing(n) \/ Following(n) \/ Failing(n)
  PROVE  FanOutsTrue'
  <1>0. /\ FanOutsTrue /\ ReportsFirst /\ role \in [ Nodes -> Roles ] /\ held \in [ Nodes -> Nat ]
        /\ log \in [ Nodes -> Seq(Nat \ {0}) ]
    BY Zenon DEF FanInv, VoteInv, TypeOK, LogsTyped
  <1>1. CASE AppendLocal(n) \/ Resend(n) \/ Promote(n)
    BY <1>0, <1>1, FanOutsSent, FanOutsPromoted, Zenon
  <1>2. CASE \E m \in requests : ApplyAppend(n, m)
    <2>1. PICK m \in requests : ApplyAppend(n, m)
      BY <1>2
    <2>2. UNCHANGED << role, held, requests >> /\ role[n] # "leader"
      BY <2>1, Zenon DEF ApplyAppend, Serving, follower
    <2>3. \A k \in Nodes : k # n => log'[k] = log[k]
      BY <1>0, <2>1, Zenon DEF ApplyAppend
    <2>4. ASSUME NEW a \in acks' PROVE a \in acks \/ (a.of \in requests /\ a.from \in Replicas)
      <3>1. a \in acks \/ \E l \in Nodes : a = [ of |-> m, from |-> n ]
        BY <2>1, <2>4, Zenon DEF ApplyAppend
      <3> QED BY <3>1
    <2> QED BY <1>0, <2>2, <2>3, <2>4, LeadersElsewhere, FanOutsKept, Zenon
  <1>3. CASE \/ Demote(n) \/ StandDown(n) \/ Restart(n) \/ Crash(n)
             \/ Observe(n) \/ FenceLocally(n) \/ StandAside(n)
    <2>1. /\ requests' = requests /\ \A a \in acks' : a \in acks
          /\ \E r \in { "follower", "down", "candidate" } : role' = [ role EXCEPT ![n] = r ]
      BY <1>3, Zenon DEF Demote, StandDown, Restart, Reopened, Crash, Stop, Hangup,
         Observe, FenceLocally, StandAside, network
    <2>2. held' = held \/ \E e : held' = [ held EXCEPT ![n] = e ]
      BY <1>3, Zenon DEF Demote, StandDown, Restart, Reopened, Crash, Stop,
         Observe, FenceLocally, StandAside, Adopt, follower
    <2>3. log' = log \/ \E s : log' = [ log EXCEPT ![n] = s ]
      BY <1>3, Zenon DEF Demote, StandDown, Restart, Crash,
         Observe, FenceLocally, StandAside, disk
    <2>4. /\ role'[n] # "leader"
          /\ \A m \in Nodes : m # n => role'[m] = role[m] /\ held'[m] = held[m] /\ log'[m] = log[m]
      BY <1>0, <2>1, <2>2, <2>3, Zenon
    <2> QED BY <1>0, <2>1, <2>4, LeadersElsewhere, FanOutsKept, Zenon
  <1>4. CASE (\E c \in Nodes : FenceAdopt(n, c)) \/ FenceCutsLog(n)
    <2>1. /\ UNCHANGED << requests, acks, role >> /\ role[n] # "leader"
          /\ held' = held \/ \E e : held' = [ held EXCEPT ![n] = e ]
          /\ log' = log \/ \E s : log' = [ log EXCEPT ![n] = s ]
      BY <1>4, Zenon DEF FenceAdopt, FenceCutsLog, Handling, Adopt, Serving, network, follower
    <2>2. \A m \in Nodes : m # n => role'[m] = role[m] /\ held'[m] = held[m] /\ log'[m] = log[m]
      BY <1>0, <2>1, Zenon
    <2> QED BY <1>0, <2>1, <2>2, LeadersElsewhere, FanOutsKept, Zenon
  <1>5. CASE \/ Acquire(n) \/ Established(n) \/ Report(n) \/ ReportUnanswered(n) \/ Commit(n)
             \/ FenceCompares(n) \/ FenceBounded(n) \/ FenceRefused(n) \/ FenceCutsHistory(n) \/ FenceAnswers(n)
             \/ (\E m \in hwms : ObserveHwm(n, m))
    <2>1. UNCHANGED << role, held, log, requests, acks >>
      BY <1>5, Zenon DEF Acquire, Established, Report, ReportUnanswered, Commit, FenceCompares, FenceBounded,
         FenceRefused, FenceCutsHistory, FenceAnswers, ObserveHwm, disk, follower, network
    <2> QED BY <1>0, <2>1, LeadersUnmoved, FanOutsKept, Zenon
  <1> QED BY <1>1, <1>2, <1>3, <1>4, <1>5, Zenon DEF Candidacy, Leadership, Fencing, Following, Failing

\* Appends are sent under the epoch of a leader, which no candidate has.
LEMMA ReportsFirstStep ==
  ASSUME VoteInv, FanInv, NEW n \in Nodes,
         Candidacy(n) \/ Leadership(n) \/ Fencing(n) \/ Following(n) \/ Failing(n)
  PROVE  ReportsFirst'
  <1>0. ReportsFirst /\ IsProbe(probe[n]) /\ probe = [ c \in Nodes |-> probe[c] ]
    BY Zenon DEF FanInv, VoteInv, TypeOK
  <1>1. CASE AppendLocal(n) \/ Resend(n)
    <2>1. probe' = probe /\ role[n] = "leader"
      BY <1>1, Zenon DEF AppendLocal, Resend
    <2>2. ASSUME NEW m \in requests' PROVE m \in requests \/ m.epoch = held[n]
      <3>1. \/ m \in requests
            \/ m = [ epoch |-> held[n], base |-> End(n), rec |-> held[n], upto |-> End(n) + 1 ]
            \/ \E o \in 0 .. End(n) - 1 :
                 m = [ epoch |-> held[n], base |-> o, rec |-> log[n][o + 1], upto |-> End(n) ]
        BY <1>1, <2>2, Zenon DEF AppendLocal, Resend
      <3> QED BY <3>1
    <2>3. ASSUME NEW c \in Nodes, probe[c].sent \/ probe[c].reported PROVE probe[c].epoch # held[n]
      <3>1. role[c] = "candidate" /\ Stands(c) /\ held[c] = probe[c].epoch
        BY <2>3, BlankProbe, Proposes, Zenon
      <3>2. Stands(n) /\ c # n
        BY <2>1, <3>1, Zenon DEF Stands
      <3> QED BY <3>1, <3>2, Zenon DEF VoteInv, EpochsOwned
    <2> QED BY <1>0, <2>1, <2>2, <2>3, Zenon DEF ReportsFirst
  <1>2. CASE ~AppendLocal(n) /\ ~Resend(n)
    <2>1. requests' = requests
      BY <1>2, Zenon DEF Candidacy, Leadership, Fencing, Following, Failing, Acquire, FenceLocally,
         Established, StandAside, Report, ReportUnanswered, Promote, StandDown, Demote, Commit,
         FenceAdopt, FenceCompares, FenceBounded, FenceRefused, FenceCutsLog, FenceCutsHistory, FenceAnswers,
         Observe, ApplyAppend, ObserveHwm, Crash, Restart, network
    <2>2. CASE ProbesKept
      BY <1>0, <2>1, <2>2, BlankProbe, Zenon DEF ReportsFirst, ProbesKept
    <2>3. CASE FenceLocally(n)
      <3>1. ~probe'[n].sent /\ ~probe'[n].reported /\ \A c \in Nodes : c # n => probe'[c] = probe[c]
        BY <1>0, <2>3, Zenon DEF FenceLocally, NoProbe
      <3> QED BY <1>0, <2>1, <3>1, Zenon DEF ReportsFirst
    <2>4. CASE FenceAnswers(n)
      <3>1. PICK o \in Nat : \E d \in BOOLEAN : Answered(n, o, d)
        BY <2>4, AnswerOf, Zenon
      <3>2. PICK d \in BOOLEAN : Answered(n, o, d)
        BY <3>1, Zenon
      <3>3. ASSUME NEW c \in Nodes
            PROVE  /\ probe'[c].epoch = probe[c].epoch /\ probe'[c].sent = probe[c].sent
                   /\ probe'[c].reported = probe[c].reported
        BY <3>2, AnswerCounts
      <3> QED BY <1>0, <2>1, <3>3, Zenon DEF ReportsFirst
    <2>5. CASE Established(n)
      <3>1. probe' = [ probe EXCEPT ![n] = [ probe[n] EXCEPT !.boundary = Verdict(n).boundary ] ]
        BY <2>5, Zenon DEF Established
      <3>2. /\ probe'[n].epoch = probe[n].epoch /\ probe'[n].sent = probe[n].sent
            /\ probe'[n].reported = probe[n].reported /\ \A c \in Nodes : c # n => probe'[c] = probe[c]
        BY <1>0, <3>1, Zenon DEF IsProbe
      <3> QED BY <1>0, <2>1, <3>2, Zenon DEF ReportsFirst
    <2>6. CASE Report(n) \/ ReportUnanswered(n)
      <3>1. PICK p : /\ probe' = [ probe EXCEPT ![n] = p ]
                     /\ p = [ probe[n] EXCEPT !.reported = TRUE ] \/ p = [ probe[n] EXCEPT !.sent = TRUE ]
        BY <2>6, Zenon DEF Report, ReportUnanswered
      <3>2. p.epoch = probe[n].epoch
        BY <1>0, <3>1, Zenon DEF IsProbe
      <3>3. probe'[n] = p /\ \A c \in Nodes : c # n => probe'[c] = probe[c]
        BY <1>0, <3>1, Zenon
      <3>4. \A m \in requests : m.epoch # probe[n].epoch
        BY <1>0, <2>6, Zenon DEF Report, ReportUnanswered, Recorded, ReportsFirst, VoteInv, LeadsReported
      <3> QED BY <1>0, <2>1, <3>2, <3>3, <3>4, Zenon DEF ReportsFirst
    <2> QED BY <2>2, <2>3, <2>4, <2>5, <2>6, ProbesKeptStep, Zenon
  <1> QED BY <1>1, <1>2, Zenon

LEMMA FanInit == Init => FanInv
  <1> SUFFICES ASSUME Init PROVE FanInv
    BY Zenon
  <1>1. requests = {} /\ acks = {} /\ \A c \in Nodes : probe[c] = NoProbe
    BY Zenon DEF Init
  <1> QED BY <1>1, BlankProbe, Zenon DEF FanInv, FanOutsTrue, ReportsFirst

LEMMA FanStep == VoteInv /\ FanInv /\ [Next]_vars => FanInv'
  <1> SUFFICES ASSUME VoteInv, FanInv, [Next]_vars PROVE FanInv'
    BY Zenon
  <1>1. CASE UNCHANGED vars
    BY <1>1, Zenon DEF vars, metadata, disk, follower, network, FanInv, FanOutsTrue, ReportsFirst, End, Replicas
  <1>2. CASE Next
    <2>1. UNCHANGED scen /\ VoteInv' /\ Replicas \subseteq Nodes
      BY <1>2, VoteStep, ScenarioAssumption, Zenon DEF Next, Replicas, VoteInv, TypeOK
    <2>2. PICK n \in Replicas : Candidacy(n) \/ Leadership(n) \/ Fencing(n) \/ Following(n) \/ Failing(n)
      BY <1>2, Zenon DEF Next, Step
    <2> QED BY <2>1, <2>2, FanOutsStep, ReportsFirstStep, Zenon DEF FanInv
  <1> QED BY <1>1, <1>2, Zenon
=============================================================================
