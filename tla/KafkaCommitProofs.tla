-------------------------- MODULE KafkaCommitProofs --------------------------
(***************************************************************************)
(* The newest offset commit stands, and CAS_ATTEMPTS is enough, for any     *)
(* number of gateways, requests, lost answers and moves of the lease.       *)
(***************************************************************************)
EXTENDS KafkaCommits, TLAPS

Cursor == [ checkpoint : Int, by : [ epoch : Nat, stamp : Nat ] ]
Guess  == [ stands : BOOLEAN, checkpoint : Int, lineage : Nat ]
Plane  == [ holder : Gateways, epoch : Nat, member : { "none", "stands", "other" }, lineage : Nat, cursor : Cursor ]

Write ==
  [ pc : { "stand", "propose", "read" }, at : Gateways, stamp : Nat, waits : BOOLEAN, epoch : Nat, guess : Guess,
    tries : Nat, again : BOOLEAN, moves : Nat ]

Active(c) == c.pc = "judged" \/ Writing(c)

\* A request on its way to the store, as far as the proofs need to know it.
CallOK(c) ==
  /\ c.pc \in { "idle", "waiting", "judged", "stand", "propose", "read", "done" }
  /\ c.pc = "waiting" => c.at \in Gateways
  /\ Active(c) => c.at \in Gateways /\ c.stamp \in Nat
  /\ Writing(c) => c \in Write

TypeOK ==
  /\ plane \in Plane
  /\ view \in [ Gateways -> Nat ]
  /\ known \in [ Gateways -> Guess ] /\ fetched \in [ Gateways -> Cursor ]
  /\ turn \in [ Gateways -> Requests \cup {Nobody} ]
  /\ commit = [ r \in Requests |-> commit[r] ] /\ \A r \in Requests : CallOK(commit[r])
  /\ late \subseteq Write
  /\ judged \in Nat /\ moves \in Nat

\* From its judgement until it ends, a commit has its gateway's turn.
TurnHeld ==
  \A r \in Requests : Active(commit[r]) => turn[commit[r].at] = r /\ commit[r].stamp <= judged

\* Checkpoints only grow, so that whatever is remembered of the cursor is its
\* past.
PastKnown ==
  /\ plane.cursor # NoCursor => plane.cursor.checkpoint >= 0
  /\ \A g \in Gateways : known[g].checkpoint <= plane.cursor.checkpoint /\ fetched[g].checkpoint <= plane.cursor.checkpoint
  /\ \A r \in Requests : Writing(commit[r]) => commit[r].guess.checkpoint <= plane.cursor.checkpoint
  /\ \A c \in late : c.guess.checkpoint <= plane.cursor.checkpoint

\* The lease of an epoch is one gateway's.
LeaseOfOne ==
  /\ plane.epoch >= 1
  /\ \A g \in Gateways : view[g] <= plane.epoch /\ (view[g] = plane.epoch => g = plane.holder)
  /\ \A r \in Requests : Writing(commit[r]) =>
       commit[r].epoch <= plane.epoch /\ (commit[r].epoch = plane.epoch => commit[r].at = plane.holder)
  /\ \A c \in late : c.epoch <= plane.epoch /\ (c.epoch = plane.epoch => c.at = plane.holder)

\* The cursor of the lease in force was judged before any commit at work under
\* it; so was every proposal without an answer; and a proposal that could still
\* be taken was judged after the cursor.
JudgedInOrder ==
  /\ plane.cursor.by.epoch <= plane.epoch
  /\ plane.cursor.by.epoch = plane.epoch =>
       \A r \in Requests : Active(commit[r]) /\ commit[r].at = plane.holder => commit[r].stamp > plane.cursor.by.stamp
  /\ \A c \in late : c.stamp <= judged
  /\ plane.cursor.by.stamp <= judged
  /\ \A c \in late, r \in Requests : Active(commit[r]) /\ commit[r].at = c.at => commit[r].stamp > c.stamp
  /\ \A c \in late :
       c.epoch = plane.epoch /\ plane.cursor.by.epoch = plane.epoch /\ c.guess.checkpoint = plane.cursor.checkpoint
         => c.stamp > plane.cursor.by.stamp

\* What a commit has corrected so far: the membership, the lineage, the
\* checkpoint.
Corrected(c) ==
  (IF c.again THEN 1 ELSE 0) + (IF c.guess.lineage = plane.lineage THEN 1 ELSE 0)
    + (IF c.pc = "read" \/ c.guess.checkpoint = plane.cursor.checkpoint THEN 1 ELSE 0)

\* While nothing else moves the plane, every attempt corrects something, under
\* the lease.
TriesCorrect(c) ==
  /\ c.moves <= moves
  /\ c.moves = moves /\ c.tries > 0 => Held(plane, c.at, c.epoch) /\ c.tries <= Corrected(c)

TriesCounted == \A r \in Requests : Writing(commit[r]) => TriesCorrect(commit[r])

CommitInv ==
  TypeOK /\ TurnHeld /\ PastKnown /\ LeaseOfOne /\ JudgedInOrder /\ TriesCounted /\ GivesUpOnlyWhenMoved

-----------------------------------------------------------------------------
LEMMA CommitsInitial == CommitsInit => CommitInv
  <1> SUFFICES ASSUME CommitsInit PROVE CommitInv
    OBVIOUS
  <1>1. plane.holder \in Gateways /\ cscen.lineage \in Nat
    BY CommitsAssumption DEF CommitsInit
  <1>2. plane \in Plane /\ plane.cursor = NoCursor /\ plane.epoch = 1
    BY <1>1 DEF CommitsInit, Plane, Cursor, NoCursor, None
  <1>3. \A r \in Requests : commit[r] = NotMade
    BY DEF CommitsInit
  <1>4. NotMade.pc = "idle"
    BY DEF NotMade
  <1>5. \A r \in Requests : CallOK(commit[r]) /\ ~Active(commit[r]) /\ ~Writing(commit[r])
    BY <1>3, <1>4 DEF CallOK, Active, Writing
  <1>6. Unknown \in Guess /\ NoCursor \in Cursor /\ Unknown.checkpoint = None /\ NoCursor.checkpoint = None /\ NoCursor.by.epoch = 0
        /\ NoCursor.by.stamp = 0 /\ None \in Int
    BY DEF Unknown, Guess, NoCursor, Cursor, None
  <1>7. TypeOK
    BY <1>2, <1>5, <1>6 DEF TypeOK, CommitsInit, Gone, Nobody
  <1>8. TurnHeld /\ PastKnown
    BY <1>2, <1>5, <1>6 DEF TurnHeld, PastKnown, CommitsInit
  <1>9. LeaseOfOne /\ JudgedInOrder
    BY <1>1, <1>2, <1>5, <1>6 DEF LeaseOfOne, JudgedInOrder, CommitsInit, Gone
  <1>10. TriesCounted /\ GivesUpOnlyWhenMoved
    BY <1>3, <1>4, <1>5, Zenon DEF TriesCounted, GivesUpOnlyWhenMoved
  <1> QED BY <1>7, <1>8, <1>9, <1>10 DEF CommitInv

-----------------------------------------------------------------------------
(* A step that touches one request at most, and of the plane the member only. *)

KeptPlane ==
  /\ plane' \in Plane
  /\ plane'.holder = plane.holder /\ plane'.epoch = plane.epoch
  /\ plane'.lineage = plane.lineage /\ plane'.cursor = plane.cursor

\* What gateways remember stays the cursor's past.
Remembered ==
  /\ known' \in [ Gateways -> Guess ] /\ fetched' \in [ Gateways -> Cursor ]
  /\ \A g \in Gateways :
       known'[g].checkpoint <= plane'.cursor.checkpoint /\ fetched'[g].checkpoint <= plane'.cursor.checkpoint

\* Request r becomes n.
Becomes(r, n) == commit' = [ s \in Requests |-> IF s = r THEN n ELSE commit[s] ]

\* It ends or waits and may hand its turn back, or goes on under the turn it has.
TurnKept(r, n) ==
  /\ turn' \in [ Gateways -> Requests \cup {Nobody} ]
  /\ \A g \in Gateways : turn'[g] = turn[g] \/ turn[g] = r
  /\ Active(n) => Active(commit[r]) /\ n.at = commit[r].at /\ n.stamp = commit[r].stamp /\ turn' = turn

\* What n knows, if it writes, is allowed.
WriteOK(n) ==
  Writing(n) =>
    /\ n.guess.checkpoint <= plane.cursor.checkpoint
    /\ n.epoch <= plane.epoch /\ (n.epoch = plane.epoch => n.at = plane.holder)
    /\ TriesCorrect(n)

\* A write that ends may leave a proposal behind.
LateKept(r, n) == late' = late \/ (Writing(commit[r]) /\ ~Active(n) /\ late' = late \cup {commit[r]})

LEMMA CallStep ==
  ASSUME CommitInv, NEW r \in Requests, NEW n, KeptPlane, Remembered, Becomes(r, n), TurnKept(r, n), CallOK(n), WriteOK(n),
         n.pc = "done" /\ n.outcome = "kept moving" => ~n.calm, LateKept(r, n),
         view' = view, judged' = judged, moves' = moves
  PROVE  CommitInv'
  <1> DEFINE others == \A s \in Requests : s # r => commit'[s] = commit[s]
  <1>1. commit'[r] = n /\ others
    BY Zenon DEF Becomes
  <1>0. Active(commit[r]) => commit[r].at \in Gateways /\ turn[commit[r].at] = r /\ commit[r].stamp <= judged
    BY Zenon DEF CommitInv, TypeOK, TurnHeld, CallOK
  <1>2. TypeOK'
    <2>1. late' \subseteq Write
      BY Zenon DEF LateKept, CommitInv, TypeOK, CallOK
    <2> QED BY <1>1, <2>1, Zenon DEF CommitInv, TypeOK, KeptPlane, Remembered, Becomes, TurnKept, CallOK, Active, Writing
  <1>3. TurnHeld'
    <2> SUFFICES ASSUME NEW s \in Requests, Active(commit'[s]) PROVE turn'[commit'[s].at] = s /\ commit'[s].stamp <= judged
      BY Zenon DEF TurnHeld, Active, Writing
    <2>1. Active(commit[s]) => commit[s].at \in Gateways /\ turn[commit[s].at] = s /\ commit[s].stamp <= judged
      BY Zenon DEF CommitInv, TypeOK, TurnHeld, CallOK
    <2>2. CASE s = r
      BY <1>1, <2>1, <2>2, Zenon DEF TurnKept
    <2>3. CASE s # r
      <3>1. commit'[s] = commit[s] /\ turn[commit[s].at] # r
        BY <1>1, <2>1, <2>3, Zenon
      <3> QED BY <2>1, <3>1, Zenon DEF TurnKept
    <2> QED BY <2>2, <2>3, Zenon
  <1>4. PastKnown'
    BY <1>1, Zenon DEF CommitInv, PastKnown, KeptPlane, Remembered, WriteOK, LateKept, Writing
  <1>5. LeaseOfOne'
    BY <1>1, Zenon DEF CommitInv, LeaseOfOne, KeptPlane, WriteOK, LateKept, Writing
  <1>6. JudgedInOrder'
    <2>1. \A s \in Requests :
            Active(commit'[s]) => Active(commit[s]) /\ commit'[s].at = commit[s].at /\ commit'[s].stamp = commit[s].stamp
      BY <1>1, Zenon DEF TurnKept
    <2>2. plane'.cursor = plane.cursor /\ plane'.epoch = plane.epoch /\ plane'.holder = plane.holder
      BY Zenon DEF KeptPlane
    <2>3. \A s \in Requests : Active(commit[s])' <=> Active(commit'[s])
      BY Zenon DEF Active, Writing
    <2>4. CASE late' = late
      BY <2>1, <2>2, <2>3, <2>4, Zenon DEF CommitInv, JudgedInOrder
    <2>5. CASE Writing(commit[r]) /\ ~Active(n) /\ late' = late \cup {commit[r]}
      <3>1. Active(commit[r]) /\ turn[commit[r].at] = r /\ commit[r].stamp <= judged
        BY <1>0, <2>5, Zenon DEF Active
      <3>2. \A s \in Requests : Active(commit'[s]) => Active(commit[s]) /\ commit[s].at # commit[r].at
        BY <1>1, <2>1, <2>5, <3>1, Zenon DEF CommitInv, TurnHeld
      <3>3. commit[r].epoch = plane.epoch => commit[r].at = plane.holder
        BY <2>5, Zenon DEF CommitInv, LeaseOfOne
      <3> QED BY <2>1, <2>2, <2>3, <2>5, <3>1, <3>2, <3>3, ZenonT(20) DEF CommitInv, JudgedInOrder
    <2> QED BY <2>4, <2>5, Zenon DEF LateKept
  <1>7. TriesCounted'
    <2>1. \A c : TriesCorrect(c)' <=> TriesCorrect(c)
      BY Zenon DEF KeptPlane, TriesCorrect, Corrected, Held
    <2> QED BY <1>1, <2>1, Zenon DEF CommitInv, TriesCounted, WriteOK, Writing
  <1>8. GivesUpOnlyWhenMoved'
    BY <1>1, Zenon DEF CommitInv, GivesUpOnlyWhenMoved
  <1> QED BY <1>2, <1>3, <1>4, <1>5, <1>6, <1>7, <1>8, Zenon DEF CommitInv

LEMMA SameRemembered ==
  ASSUME CommitInv, plane'.cursor = plane.cursor, known' = known, fetched' = fetched
  PROVE  Remembered
  BY DEF CommitInv, TypeOK, PastKnown, Remembered

LEMMA SamePlane ==
  ASSUME CommitInv, plane' = plane
  PROVE  KeptPlane
  BY DEF CommitInv, TypeOK, KeptPlane

\* A request that is not at work asks nothing of the rest.
LEMMA Idle ==
  ASSUME NEW n, n.pc \in { "waiting", "done" }, n.pc = "waiting" => n.at \in Gateways
  PROVE  CallOK(n) /\ ~Active(n) /\ WriteOK(n)
  BY DEF CallOK, Active, Writing, WriteOK

LEMMA IssueStep ==
  ASSUME CommitInv, NEW r \in Requests, NEW g \in Gateways, Issue(r, g)
  PROVE  CommitInv'
  <1> DEFINE n == [ pc |-> "waiting", at |-> g, token |-> generation[g] ]
  <1>1. n.pc = "waiting" /\ n.at = g /\ Becomes(r, n)
    BY DEF Issue, Becomes, CommitInv, TypeOK
  <1> HIDE DEF n
  <1>2. KeptPlane /\ Remembered
    BY SamePlane, SameRemembered DEF Issue
  <1>3. CallOK(n) /\ ~Active(n) /\ WriteOK(n)
    BY <1>1, Idle
  <1>4. TurnKept(r, n)
    BY <1>3 DEF Issue, TurnKept, CommitInv, TypeOK
  <1> QED BY <1>1, <1>2, <1>3, <1>4, CallStep, Zenon DEF Issue, LateKept

LEMMA RefuseStep ==
  ASSUME CommitInv, NEW r \in Requests, Refuse(r)
  PROVE  CommitInv'
  <1> DEFINE n == Done("refused")
  <1>1. n.pc = "done" /\ n.outcome = "refused" /\ Becomes(r, n)
    BY DEF Refuse, Done, Becomes, CommitInv, TypeOK
  <1> HIDE DEF n
  <1>2. KeptPlane /\ Remembered
    BY SamePlane, SameRemembered DEF Refuse
  <1>3. CallOK(n) /\ ~Active(n) /\ WriteOK(n)
    BY <1>1, Idle
  <1>4. TurnKept(r, n)
    BY <1>3 DEF Refuse, TurnKept, CommitInv, TypeOK
  <1> QED BY <1>1, <1>2, <1>3, <1>4, CallStep, Zenon DEF Refuse, LateKept

\* The end of a write, whatever it learnt; "kept moving" needs an argument.
LEMMA EndStep ==
  ASSUME CommitInv, NEW r \in Requests, NEW outcome, Writing(commit[r]), Ends(r, outcome),
         outcome = "kept moving" => moves # commit[r].moves,
         KeptPlane, Remembered, late' = late \/ late' = late \cup {commit[r]},
         view' = view, judged' = judged, moves' = moves
  PROVE  CommitInv'
  <1> DEFINE n == [ pc |-> "done", outcome |-> outcome, calm |-> moves = commit[r].moves ]
  <1>0. n.pc = "done"
    BY Zenon
  <1>1. Becomes(r, n)
    BY Zenon DEF Ends, Becomes, CommitInv, TypeOK
  <1>2. n.outcome = "kept moving" => ~n.calm
    BY Zenon
  <1> HIDE DEF n
  <1>3. CallOK(n) /\ ~Active(n) /\ WriteOK(n)
    BY <1>0, Zenon DEF CallOK, Active, Writing, WriteOK
  <1>4. TurnKept(r, n)
    BY <1>3, Zenon DEF Ends, TurnKept, CommitInv, TypeOK
  <1>5. LateKept(r, n)
    BY <1>3, Zenon DEF LateKept
  <1> QED BY <1>0, <1>1, <1>2, <1>3, <1>4, <1>5, CallStep, Zenon

LEMMA JudgeStep ==
  ASSUME CommitInv, NEW r \in Requests, Judge(r)
  PROVE  CommitInv'
  <1> DEFINE c == commit[r]
  <1>0. c.pc = "waiting" /\ c.at \in Gateways /\ ~Active(c) /\ turn[c.at] = Nobody /\ r # Nobody
    BY CommitsAssumption DEF Judge, CommitInv, TypeOK, CallOK, Active, Writing
  <1>1. KeptPlane /\ Remembered
    BY SamePlane, SameRemembered DEF Judge
  <1>2. CASE ~(view[c.at] # Gone /\ c.token = generation[c.at])
    <2> DEFINE n == Done("refused")
    <2>1. n.pc = "done" /\ n.outcome = "refused" /\ Becomes(r, n)
      BY <1>2 DEF Judge, Done, Becomes, CommitInv, TypeOK
    <2> HIDE DEF n
    <2>2. CallOK(n) /\ ~Active(n) /\ WriteOK(n)
      BY <2>1, Idle
    <2>3. TurnKept(r, n)
      BY <1>2, <2>2 DEF Judge, TurnKept, CommitInv, TypeOK
    <2> QED BY <1>1, <1>2, <2>1, <2>2, <2>3, CallStep, Zenon DEF Judge, LateKept
  <1>3. CASE view[c.at] # Gone /\ c.token = generation[c.at]
    <2> DEFINE n == [ pc |-> "judged", at |-> c.at, stamp |-> judged + 1, waits |-> TRUE ]
    <2>1. n.pc = "judged" /\ n.at = c.at /\ n.stamp = judged + 1 /\ Becomes(r, n) /\ turn' = [ turn EXCEPT ![c.at] = r ]
          /\ judged' = judged + 1
      BY <1>3 DEF Judge, Becomes, CommitInv, TypeOK
    <2> HIDE DEF n
    <2>2. CallOK(n) /\ ~Writing(n) /\ Active(n)
      BY <1>0, <2>1 DEF CallOK, Active, Writing, CommitInv, TypeOK
    <2>3. commit'[r] = n /\ \A s \in Requests : s # r => commit'[s] = commit[s]
      BY <2>1 DEF Becomes
    <2>4. judged \in Nat /\ \A s \in Requests : Active(commit[s]) => commit[s].at \in Gateways /\ turn[commit[s].at] = s
                                                                     /\ commit[s].stamp \in Nat /\ commit[s].stamp <= judged
      BY DEF CommitInv, TypeOK, TurnHeld, CallOK
    <2>5. \A s \in Requests : Active(commit[s]) => commit[s].at # c.at
      BY <1>0, <2>4, CommitsAssumption
    <2>6. TypeOK'
      BY <1>0, <2>1, <2>2, <2>3 DEF Judge, CommitInv, TypeOK, Becomes, CallOK, Active, Writing
    <2>7. TurnHeld'
      BY <1>0, <2>1, <2>3, <2>4, <2>5 DEF CommitInv, TypeOK, TurnHeld, Active, Writing
    <2>8. PastKnown' /\ LeaseOfOne'
      BY <2>2, <2>3 DEF Judge, CommitInv, PastKnown, LeaseOfOne, Writing
    <2>9. JudgedInOrder'
      <3>1. plane' = plane /\ late' = late /\ \A d \in late : d.stamp \in Nat /\ d.stamp <= judged
        BY DEF Judge, CommitInv, TypeOK, JudgedInOrder, Write
      <3>2. plane.cursor.by.stamp \in Nat /\ plane.cursor.by.stamp <= judged
        BY DEF CommitInv, TypeOK, JudgedInOrder, Plane, Cursor
      <3>3. \A s \in Requests : Active(commit[s])' <=> Active(commit'[s])
        BY DEF Active, Writing
      <3> QED BY <2>1, <2>3, <2>4, <3>1, <3>2, <3>3 DEF CommitInv, JudgedInOrder
    <2>10. TriesCounted' /\ GivesUpOnlyWhenMoved'
      <3>1. \A d : TriesCorrect(d)' <=> TriesCorrect(d)
        BY Zenon DEF Judge, TriesCorrect, Corrected
      <3>2. TriesCounted'
        BY <2>2, <2>3, <3>1, Zenon DEF CommitInv, TriesCounted, Writing
      <3>3. GivesUpOnlyWhenMoved'
        BY <2>1, <2>3, Zenon DEF CommitInv, GivesUpOnlyWhenMoved
      <3> QED BY <3>2, <3>3
    <2> QED BY <2>6, <2>7, <2>8, <2>9, <2>10 DEF CommitInv
  <1> QED BY <1>2, <1>3

LEMMA StartStep ==
  ASSUME CommitInv, NEW r \in Requests, Start(r)
  PROVE  CommitInv'
  <1> DEFINE c == commit[r]
             n == [ pc |-> IF known[c.at].stands THEN "propose" ELSE "stand", at |-> c.at, stamp |-> c.stamp,
                    waits |-> TRUE, epoch |-> view[c.at], guess |-> known[c.at], tries |-> 0, again |-> FALSE,
                    moves |-> moves ]
  <1>0. c.pc = "judged" /\ Active(c) /\ c.at \in Gateways /\ c.stamp \in Nat
    BY DEF Start, CommitInv, TypeOK, CallOK, Active
  <1>1. n \in Write /\ n.at = c.at /\ n.stamp = c.stamp /\ n.epoch = view[c.at] /\ n.guess = known[c.at] /\ n.tries = 0
        /\ n.moves = moves
    BY <1>0 DEF CommitInv, TypeOK, Write
  <1>2. Becomes(r, n)
    BY Zenon DEF Start, Becomes, CommitInv, TypeOK
  <1> HIDE DEF n
  <1>3. KeptPlane /\ Remembered
    BY SamePlane, SameRemembered DEF Start
  <1>4. CallOK(n) /\ Writing(n) /\ Active(n) /\ n.pc # "done"
    BY <1>1 DEF CallOK, Active, Writing, Write
  <1>5. WriteOK(n)
    BY <1>0, <1>1 DEF WriteOK, CommitInv, TypeOK, LeaseOfOne, PastKnown, TriesCorrect
  <1>6. TurnKept(r, n)
    BY <1>0, <1>1 DEF Start, TurnKept, CommitInv, TypeOK
  <1> QED BY <1>2, <1>3, <1>4, <1>5, <1>6, CallStep, Zenon DEF Start, LateKept

\* A write goes on, with another guess perhaps.
GoesOn(r, n) ==
  /\ n \in Write
  /\ n.at = commit[r].at /\ n.stamp = commit[r].stamp /\ n.epoch = commit[r].epoch /\ n.moves = commit[r].moves
  /\ n.guess.checkpoint <= plane.cursor.checkpoint
  /\ n.moves = moves /\ n.tries > 0 => Held(plane, n.at, n.epoch) /\ n.tries <= Corrected(n)

\* What is known of a write.
LEMMA WriteKnown ==
  ASSUME CommitInv, NEW r \in Requests, Writing(commit[r])
  PROVE  /\ commit[r] \in Write
         /\ commit[r].guess.checkpoint <= plane.cursor.checkpoint
         /\ turn[commit[r].at] = r /\ commit[r].stamp <= judged
         /\ commit[r].epoch <= plane.epoch /\ (commit[r].epoch = plane.epoch => commit[r].at = plane.holder)
         /\ TriesCorrect(commit[r])
  BY DEF CommitInv, TypeOK, CallOK, PastKnown, TurnHeld, Active, LeaseOfOne, TriesCounted

LEMMA WriteStep ==
  ASSUME CommitInv, NEW r \in Requests, NEW n, Writing(commit[r]), GoesOn(r, n), Becomes(r, n),
         KeptPlane, Remembered, view' = view, turn' = turn, late' = late, judged' = judged, moves' = moves
  PROVE  CommitInv'
  <1>1. CallOK(n) /\ Writing(n) /\ Active(n) /\ n.pc # "done"
    BY DEF GoesOn, CallOK, Active, Writing, Write
  <1>2. WriteOK(n)
    BY WriteKnown DEF GoesOn, WriteOK, TriesCorrect
  <1>3. TurnKept(r, n)
    BY DEF TurnKept, CommitInv, TypeOK, GoesOn, Active
  <1> QED BY <1>1, <1>2, <1>3, CallStep, Zenon DEF LateKept

LEMMA AbandonStep ==
  ASSUME CommitInv, NEW r \in Requests, Abandon(r)
  PROVE  CommitInv'
  <1> DEFINE c == commit[r]
             n == [ c EXCEPT !.waits = FALSE ]
  <1>0. Writing(c)
    BY DEF Abandon
  <1>1. c \in Write /\ c.guess.checkpoint <= plane.cursor.checkpoint /\ TriesCorrect(c)
    BY <1>0, WriteKnown
  <1>2. n \in Write /\ n.pc = c.pc /\ n.at = c.at /\ n.stamp = c.stamp /\ n.epoch = c.epoch /\ n.moves = c.moves
        /\ n.guess = c.guess /\ n.tries = c.tries /\ n.again = c.again
    BY <1>1, Zenon DEF Write
  <1>3. Becomes(r, n)
    BY Zenon DEF Abandon, Becomes, CommitInv, TypeOK
  <1> HIDE DEF n
  <1>4. GoesOn(r, n)
    BY <1>1, <1>2 DEF GoesOn, TriesCorrect, Corrected
  <1>5. KeptPlane /\ Remembered
    BY SamePlane, SameRemembered DEF Abandon
  <1> QED BY <1>0, <1>3, <1>4, <1>5, WriteStep DEF Abandon

LEMMA ReadStep ==
  ASSUME CommitInv, NEW r \in Requests, Read(r)
  PROVE  CommitInv'
  <1> DEFINE c == commit[r]
             n == [ c EXCEPT !.pc = "propose", !.guess.checkpoint = plane.cursor.checkpoint ]
  <1>0. Writing(c) /\ c.pc = "read"
    BY DEF Read, Writing
  <1>1. c \in Write /\ TriesCorrect(c) /\ plane.cursor.checkpoint \in Int
    BY <1>0, WriteKnown DEF CommitInv, TypeOK, Plane, Cursor
  <1>2. n \in Write /\ n.at = c.at /\ n.stamp = c.stamp /\ n.epoch = c.epoch /\ n.moves = c.moves
        /\ n.guess.lineage = c.guess.lineage /\ n.guess.checkpoint = plane.cursor.checkpoint
        /\ n.tries = c.tries /\ n.again = c.again
    BY <1>1, Zenon DEF Write, Guess
  <1>3. Becomes(r, n)
    BY Zenon DEF Read, Becomes, CommitInv, TypeOK
  <1> HIDE DEF n
  <1>4. GoesOn(r, n)
    BY <1>0, <1>1, <1>2 DEF GoesOn, TriesCorrect, Corrected
  <1>5. KeptPlane /\ Remembered
    BY SamePlane, SameRemembered DEF Read
  <1> QED BY <1>0, <1>3, <1>4, <1>5, WriteStep DEF Read

LEMMA KeptMovingStep ==
  ASSUME CommitInv, NEW r \in Requests, KeptMoving(r)
  PROVE  CommitInv'
  <1> DEFINE c == commit[r]
  <1>0. Writing(c) /\ c.tries = 4
    BY Zenon DEF KeptMoving, Writing, CasAttempts
  <1>1. c \in Write /\ c.guess.checkpoint <= plane.cursor.checkpoint /\ TriesCorrect(c)
    BY <1>0, WriteKnown
  <1>2. Corrected(c) <= 3
    BY DEF Corrected
  <1>3. moves # c.moves
    BY <1>0, <1>1, <1>2 DEF TriesCorrect, Corrected
  <1>4. KeptPlane
    BY SamePlane, Zenon DEF KeptMoving
  <1>5. Remembered
    BY <1>1, Zenon DEF KeptMoving, Remembers, Remembered, CommitInv, TypeOK, PastKnown, Write
  <1> QED BY <1>0, <1>3, <1>4, <1>5, EndStep, Zenon DEF KeptMoving

-----------------------------------------------------------------------------
(* The steps that ask the plane. *)

LEMMA StoodKeeps ==
  ASSUME CommitInv, NEW c, plane' = Stood(plane, c)
  PROVE  KeptPlane
  BY DEF CommitInv, TypeOK, Stood, KeptPlane, Plane

LEMMA AnswerSays ==
  ASSUME NEW p, NEW c, c.guess.checkpoint \in Int, p.cursor.checkpoint \in Int
  PROVE  /\ Answer(p, c) # "NotLeaseholder" => Held(p, c.at, c.epoch)
         /\ Answer(p, c) = "Committed" => p.cursor.checkpoint = c.guess.checkpoint
         /\ Answer(p, c) = "LineageMismatch" => p.lineage # c.guess.lineage
         /\ Answer(p, c) = "GenerationMismatch" => p.cursor.checkpoint # c.guess.checkpoint
         /\ Answer(p, c) = "AlreadyExists" => p.cursor # NoCursor /\ c.guess.checkpoint = None
  <1>1. NoCursor.checkpoint = None
    BY DEF NoCursor
  <1>2. Answer(p, c) # "NotLeaseholder" => Held(p, c.at, c.epoch)
    BY DEF Answer, Held
  <1>3. Answer(p, c) = "Committed" => p.cursor.checkpoint = c.guess.checkpoint
    BY <1>1 DEF Answer, Held
  <1>4. Answer(p, c) = "LineageMismatch" => p.lineage # c.guess.lineage
    BY DEF Answer, Held
  <1>5. Answer(p, c) = "GenerationMismatch" => p.cursor.checkpoint # c.guess.checkpoint
    BY DEF Answer, Held
  <1>6. Answer(p, c) = "AlreadyExists" => p.cursor # NoCursor /\ c.guess.checkpoint = None
    BY DEF Answer, Held
  <1> QED BY <1>2, <1>3, <1>4, <1>5, <1>6

LEMMA StandStep ==
  ASSUME CommitInv, NEW r \in Requests, Stand(r)
  PROVE  CommitInv'
  <1> DEFINE c     == commit[r]
             guess == [ c.guess EXCEPT !.stands = TRUE ]
             n     == [ c EXCEPT !.pc = "propose", !.guess = guess ]
  <1>0. Writing(c) /\ c.pc = "stand"
    BY DEF Stand, Writing
  <1>1. c \in Write /\ c.guess.checkpoint <= plane.cursor.checkpoint /\ TriesCorrect(c) /\ c.guess \in Guess
    BY <1>0, WriteKnown DEF Write
  <1>2. KeptPlane
    BY StoodKeeps DEF Stand
  <1>3. guess \in Guess /\ guess.lineage = c.guess.lineage /\ guess.checkpoint = c.guess.checkpoint
    BY <1>1, Zenon DEF Guess
  <1>4. CASE Held(plane, c.at, c.epoch) /\ plane.member # "other"
    <2>1. n \in Write /\ n.pc = "propose" /\ n.at = c.at /\ n.stamp = c.stamp /\ n.epoch = c.epoch /\ n.moves = c.moves
          /\ n.guess = guess /\ n.tries = c.tries /\ n.again = c.again
      BY <1>1, <1>3, Zenon DEF Write
    <2>2. Becomes(r, n)
      BY <1>4 DEF Stand, Becomes, CommitInv, TypeOK
    <2>3. Remembered
      <3>1. known' = known \/ known' = [ known EXCEPT ![c.at] = guess ]
        BY <1>4 DEF Stand, Remembers
      <3> HIDE DEF guess
      <3> QED BY <1>1, <1>2, <1>3, <3>1 DEF Stand, Remembered, KeptPlane, CommitInv, TypeOK, PastKnown
    <2> HIDE DEF n, guess
    <2>4. GoesOn(r, n)
      BY <1>0, <1>1, <1>3, <2>1 DEF GoesOn, TriesCorrect, Corrected
    <2> QED BY <1>0, <1>2, <1>4, <2>2, <2>3, <2>4, WriteStep DEF Stand
  <1>5. CASE ~(Held(plane, c.at, c.epoch) /\ plane.member # "other")
    <2>1. Ends(r, "refused") /\ known' = known
      BY <1>5 DEF Stand
    <2>2. Remembered
      BY <1>2, <2>1, SameRemembered DEF Stand, KeptPlane
    <2> QED BY <1>0, <1>2, <2>1, <2>2, EndStep, Zenon DEF Stand
  <1> QED BY <1>4, <1>5

LEMMA UnansweredStep ==
  ASSUME CommitInv, NEW r \in Requests, Unanswered(r)
  PROVE  CommitInv'
  <1>1. KeptPlane
    <2>1. plane' = plane \/ plane' = Stood(plane, commit[r])
      BY DEF Unanswered
    <2> QED BY <2>1, SamePlane, StoodKeeps
  <1>2. Remembered
    BY <1>1, SameRemembered DEF Unanswered, KeptPlane
  <1>3. late' = late \/ late' = late \cup {commit[r]}
    BY DEF Unanswered
  <1> QED BY <1>1, <1>2, <1>3, EndStep, Zenon DEF Unanswered

\* An answer that is not the last corrects what it found wrong.
LEMMA LearnStep ==
  ASSUME CommitInv, NEW r \in Requests, NEW pc \in { "stand", "propose", "read" }, NEW guess \in Guess,
         commit[r].pc = "propose", Held(plane, commit[r].at, commit[r].epoch),
         guess.checkpoint <= plane.cursor.checkpoint,
         commit' = [ commit EXCEPT ![r].pc = pc, ![r].guess = guess, ![r].tries = @ + 1, ![r].again = @ \/ pc = "stand" ],
         \/ pc = "stand" /\ ~commit[r].again /\ guess.lineage = commit[r].guess.lineage
            /\ guess.checkpoint = commit[r].guess.checkpoint
         \/ pc = "propose" /\ commit[r].guess.lineage # plane.lineage /\ guess.lineage = plane.lineage
            /\ guess.checkpoint = commit[r].guess.checkpoint
         \/ /\ pc = "read" \/ guess.checkpoint = plane.cursor.checkpoint
            /\ pc # "stand" /\ commit[r].guess.checkpoint # plane.cursor.checkpoint
            /\ guess.lineage = commit[r].guess.lineage,
         plane' = plane, UNCHANGED << view, known, turn, late, fetched, judged, moves >>
  PROVE  CommitInv'
  <1> DEFINE c == commit[r]
             n == [ c EXCEPT !.pc = pc, !.guess = guess, !.tries = @ + 1, !.again = @ \/ pc = "stand" ]
  <1>0. Writing(c)
    BY DEF Writing
  <1>1. c \in Write /\ TriesCorrect(c)
    BY <1>0, WriteKnown
  <1>2. n \in Write /\ n.pc = pc /\ n.at = c.at /\ n.stamp = c.stamp /\ n.epoch = c.epoch /\ n.moves = c.moves
        /\ n.guess = guess /\ n.tries = c.tries + 1 /\ (n.again <=> c.again \/ pc = "stand")
    <2>1. c.again \in BOOLEAN /\ c.tries + 1 \in Nat /\ (c.again \/ pc = "stand") \in BOOLEAN
      BY <1>1 DEF Write
    <2> QED BY <1>1, <2>1, Zenon DEF Write
  <1>3. Becomes(r, n)
    BY DEF Becomes, CommitInv, TypeOK
  <1> HIDE DEF n
  <1>4. c.again \in BOOLEAN /\ c.tries \in Nat /\ (c.moves = moves => c.tries <= Corrected(c))
    BY <1>1 DEF TriesCorrect, Write, Corrected
  <1>5. Corrected(n) = Corrected(c) + 1
    <2>1. CASE pc = "stand" /\ ~c.again /\ guess.lineage = c.guess.lineage /\ guess.checkpoint = c.guess.checkpoint
      BY <1>2, <2>1 DEF Corrected
    <2>2. CASE pc = "propose" /\ c.guess.lineage # plane.lineage /\ guess.lineage = plane.lineage
               /\ guess.checkpoint = c.guess.checkpoint
      BY <1>2, <2>2 DEF Corrected
    <2>3. CASE /\ pc = "read" \/ guess.checkpoint = plane.cursor.checkpoint
               /\ pc # "stand" /\ c.guess.checkpoint # plane.cursor.checkpoint
               /\ guess.lineage = c.guess.lineage
      BY <1>2, <2>3 DEF Corrected
    <2> QED BY <2>1, <2>2, <2>3
  <1>6. Corrected(c) \in Nat
    BY DEF Corrected
  <1>7. GoesOn(r, n)
    BY <1>2, <1>4, <1>5, <1>6 DEF GoesOn
  <1>8. KeptPlane /\ Remembered
    BY SamePlane, SameRemembered
  <1> QED BY <1>0, <1>3, <1>7, <1>8, WriteStep

LEMMA UntakenStep ==
  ASSUME CommitInv, NEW r \in Requests, Propose(r), Answer(plane, commit[r]) # "Committed"
  PROVE  CommitInv'
  <1> DEFINE c == commit[r]
             a == Answer(plane, c)
  <1>0. Writing(c) /\ c.pc = "propose"
    BY DEF Propose, Writing
  <1>1. c \in Write /\ c.guess \in Guess /\ c.guess.checkpoint <= plane.cursor.checkpoint /\ plane.cursor.checkpoint \in Int
        /\ c.guess.checkpoint \in Int /\ plane.lineage \in Nat
    BY <1>0, WriteKnown DEF Write, Guess, CommitInv, TypeOK, Plane, Cursor
  <1>2. plane' = plane /\ Learns(r, a)
    BY DEF Propose, CommitApplied
  <1>3. a # "NotLeaseholder" => Held(plane, c.at, c.epoch)
    BY <1>1, AnswerSays
  <1>4. CASE a = "LineageMismatch"
    <2> DEFINE guess == [ c.guess EXCEPT !.lineage = plane.lineage ]
    <2>1. guess \in Guess /\ guess.lineage = plane.lineage /\ guess.checkpoint = c.guess.checkpoint
      BY <1>1 DEF Guess
    <2>2. c.guess.lineage # plane.lineage
      BY <1>1, <1>4, AnswerSays
    <2>3. /\ commit' = [ commit EXCEPT ![r].pc = "propose", ![r].guess = guess, ![r].tries = @ + 1,
                                       ![r].again = @ \/ "propose" = "stand" ]
          /\ UNCHANGED << known, turn >>
      BY <1>2, <1>4 DEF Learns
    <2> HIDE DEF guess
    <2> QED BY <1>0, <1>1, <1>2, <1>3, <1>4, <2>1, <2>2, <2>3, LearnStep, Zenon DEF Propose
  <1>5. CASE a = "GenerationMismatch"
    <2> DEFINE guess == [ c.guess EXCEPT !.checkpoint = plane.cursor.checkpoint ]
    <2>1. guess \in Guess /\ guess.lineage = c.guess.lineage /\ guess.checkpoint = plane.cursor.checkpoint
      BY <1>1 DEF Guess
    <2>2. c.guess.checkpoint # plane.cursor.checkpoint
      BY <1>1, <1>5, AnswerSays
    <2>3. /\ commit' = [ commit EXCEPT ![r].pc = "propose", ![r].guess = guess, ![r].tries = @ + 1,
                                       ![r].again = @ \/ "propose" = "stand" ]
          /\ UNCHANGED << known, turn >>
      BY <1>2, <1>5 DEF Learns
    <2> HIDE DEF guess
    <2>4. guess.checkpoint <= plane.cursor.checkpoint /\ Held(plane, c.at, c.epoch)
          /\ UNCHANGED << view, known, turn, late, fetched, judged, moves >>
      BY <1>1, <1>3, <1>5, <2>1, <2>3 DEF Propose
    <2> QED BY <1>0, <1>2, <2>1, <2>2, <2>3, <2>4, LearnStep, Zenon
  <1>6. CASE a = "AlreadyExists"
    <2>1. c.guess.checkpoint # plane.cursor.checkpoint
      BY <1>1, <1>6, AnswerSays DEF CommitInv, PastKnown, None
    <2>2. /\ commit' = [ commit EXCEPT ![r].pc = "read", ![r].guess = c.guess, ![r].tries = @ + 1,
                                       ![r].again = @ \/ "read" = "stand" ]
          /\ UNCHANGED << known, turn >>
      BY <1>2, <1>6 DEF Learns
    <2> QED BY <1>0, <1>1, <1>2, <1>3, <1>6, <2>1, <2>2, LearnStep, Zenon DEF Propose
  <1>7. CASE a = "NotFound" /\ ~c.again
    <2> DEFINE guess == [ c.guess EXCEPT !.stands = FALSE ]
    <2>1. guess \in Guess /\ guess.lineage = c.guess.lineage /\ guess.checkpoint = c.guess.checkpoint
      BY <1>1, Zenon DEF Guess
    <2>2. /\ commit' = [ commit EXCEPT ![r].pc = "stand", ![r].guess = guess, ![r].tries = @ + 1,
                                       ![r].again = @ \/ "stand" = "stand" ]
          /\ UNCHANGED << known, turn >>
      BY <1>2, <1>7 DEF Learns
    <2> HIDE DEF guess
    <2> QED BY <1>0, <1>1, <1>2, <1>3, <1>7, <2>1, <2>2, LearnStep, Zenon DEF Propose
  <1>8. CASE a = "NotLeaseholder" \/ (a = "NotFound" /\ c.again)
    <2>1. Ends(r, "refused") /\ known' = [ known EXCEPT ![c.at] = c.guess ]
      BY <1>2, <1>8 DEF Learns, Remembers
    <2>2. Remembered
      BY <1>1, <1>2, <2>1, Zenon DEF Propose, Remembered, CommitInv, TypeOK, PastKnown
    <2> QED BY <1>0, <1>2, <2>1, <2>2, SamePlane, EndStep, Zenon DEF Propose
  <1>9. a \in { "NotLeaseholder", "NotFound", "LineageMismatch", "AlreadyExists", "GenerationMismatch", "Committed" }
    BY DEF Answer
  <1> QED BY <1>4, <1>5, <1>6, <1>7, <1>8, <1>9

-----------------------------------------------------------------------------
(* The cursor moves: on a proposal taken, at once or late. *)

\* Proposal c becomes the cursor.
Taken(c) ==
  /\ Held(plane, c.at, c.epoch)
  /\ plane.cursor.checkpoint = c.guess.checkpoint
  /\ plane' \in Plane
  /\ plane'.holder = plane.holder /\ plane'.epoch = plane.epoch /\ plane'.lineage = plane.lineage
  /\ plane'.cursor.checkpoint = plane.cursor.checkpoint + 1
  /\ plane'.cursor.by.epoch = c.epoch /\ plane'.cursor.by.stamp = c.stamp

LEMMA TakenOrNot ==
  ASSUME CommitInv, NEW c \in Write, plane' = CommitApplied(plane, c)
  PROVE  \/ Answer(plane, c) # "Committed" /\ plane' = plane
         \/ Answer(plane, c) = "Committed" /\ Taken(c)
  <1>1. c.guess.checkpoint \in Int /\ plane.cursor.checkpoint \in Int /\ c.epoch \in Nat /\ c.stamp \in Nat /\ plane \in Plane
    BY DEF CommitInv, TypeOK, Plane, Cursor, Write, Guess
  <1>2. CASE Answer(plane, c) = "Committed"
    <2>1. Held(plane, c.at, c.epoch) /\ plane.cursor.checkpoint = c.guess.checkpoint
      BY <1>1, <1>2, AnswerSays
    <2> DEFINE k == [ checkpoint |-> plane.cursor.checkpoint + 1, by |-> [ epoch |-> c.epoch, stamp |-> c.stamp ] ]
    <2>2. plane' = [ plane EXCEPT !.cursor = k ]
      BY <1>2 DEF CommitApplied
    <2>3. k \in Cursor /\ k.checkpoint = plane.cursor.checkpoint + 1 /\ k.by.epoch = c.epoch /\ k.by.stamp = c.stamp
      BY <1>1 DEF Cursor
    <2> HIDE DEF k
    <2>4. plane' \in Plane /\ plane'.holder = plane.holder /\ plane'.epoch = plane.epoch /\ plane'.lineage = plane.lineage
          /\ plane'.cursor = k
      BY <1>1, <2>2, <2>3 DEF Plane
    <2> QED BY <1>2, <2>1, <2>3, <2>4 DEF Taken
  <1>3. CASE Answer(plane, c) # "Committed"
    BY <1>3 DEF CommitApplied
  <1> QED BY <1>2, <1>3

\* The cursor that was is older than a proposal taken.
LEMMA TakenNewer ==
  ASSUME CommitInv, NEW c \in Write, Taken(c),
         c \in late \/ \E r \in Requests : c = commit[r] /\ Writing(commit[r])
  PROVE  Newer(plane'.cursor.by, plane.cursor.by)
  <1>1. plane.cursor.by.epoch \in Nat /\ c.epoch \in Nat /\ plane.epoch = c.epoch /\ plane.cursor.by.epoch <= plane.epoch
        /\ c.at = plane.holder
    BY DEF CommitInv, TypeOK, Plane, Cursor, Write, JudgedInOrder, Taken, Held
  <1>2. plane.cursor.by.epoch = plane.epoch => c.stamp > plane.cursor.by.stamp
    BY <1>1 DEF CommitInv, JudgedInOrder, Taken, Active
  <1> QED BY <1>1, <1>2 DEF Taken, Newer

\* No one remembers the cursor it becomes.
LEMMA TakenPast ==
  ASSUME CommitInv, NEW c \in Write, Taken(c)
  PROVE  /\ plane'.cursor.checkpoint > plane.cursor.checkpoint /\ plane'.cursor.checkpoint >= 0
         /\ \A g \in Gateways :
              known[g].checkpoint < plane'.cursor.checkpoint /\ fetched[g].checkpoint < plane'.cursor.checkpoint
         /\ \A r \in Requests : Writing(commit[r]) => commit[r].guess.checkpoint < plane'.cursor.checkpoint
         /\ \A d \in late : d.guess.checkpoint < plane'.cursor.checkpoint
  <1>1. plane.cursor.checkpoint \in Int /\ plane.cursor.checkpoint >= -1
    BY DEF CommitInv, TypeOK, Plane, Cursor, PastKnown, NoCursor, None
  <1>2. \A g \in Gateways : known[g].checkpoint \in Int /\ fetched[g].checkpoint \in Int
    BY DEF CommitInv, TypeOK, Guess, Cursor
  <1>3. \A r \in Requests : Writing(commit[r]) => commit[r].guess.checkpoint \in Int
    BY DEF CommitInv, TypeOK, CallOK, Write, Guess
  <1>4. \A d \in late : d.guess.checkpoint \in Int
    BY DEF CommitInv, TypeOK, Write, Guess
  <1> QED BY <1>1, <1>2, <1>3, <1>4 DEF CommitInv, PastKnown, Taken

\* Under the lease, the write that was taken is the only one at work.
LEMMA TakenAlone ==
  ASSUME CommitInv, NEW r \in Requests, Writing(commit[r]), Held(plane, commit[r].at, commit[r].epoch),
         NEW s \in Requests, s # r
  PROVE  /\ Active(commit[s]) => commit[s].at # plane.holder
         /\ Writing(commit[s]) => ~Held(plane, commit[s].at, commit[s].epoch)
  <1>1. turn[commit[r].at] = r /\ commit[r].at = plane.holder
    BY WriteKnown DEF Held
  <1>2. Active(commit[s]) => turn[commit[s].at] = s
    BY DEF CommitInv, TurnHeld
  <1> QED BY <1>1, <1>2 DEF Active, Held

LEMMA TakenStep ==
  ASSUME CommitInv, NEW r \in Requests, Propose(r), Answer(plane, commit[r]) = "Committed"
  PROVE  CommitInv'
  <1> DEFINE c == commit[r]
             n == [ pc |-> "done", outcome |-> "ok", calm |-> moves = c.moves ]
             guess == [ c.guess EXCEPT !.checkpoint = plane.cursor.checkpoint + 1 ]
  <1>0. Writing(c) /\ c \in Write /\ c.at \in Gateways /\ c.guess \in Guess /\ c.stamp \in Nat /\ c.stamp <= judged
    BY WriteKnown DEF Propose, Writing, Write
  <1>1. Taken(c)
    BY <1>0, TakenOrNot DEF Propose
  <1>2. Ends(r, "ok") /\ known' = [ known EXCEPT ![c.at] = guess ]
    BY DEF Propose, Learns, Remembers
  <1>3. n.pc = "done" /\ n.outcome = "ok" /\ commit'[r] = n
    BY <1>2 DEF Ends, CommitInv, TypeOK
  <1>4. Becomes(r, n)
    BY <1>2 DEF Ends, Becomes, CommitInv, TypeOK
  <1>5. guess \in Guess /\ guess.checkpoint = plane'.cursor.checkpoint
    <2>1. plane.cursor.checkpoint + 1 \in Int
      BY DEF CommitInv, TypeOK, Plane, Cursor
    <2> QED BY <1>0, <1>1, <2>1 DEF Guess, Taken
  <1> HIDE DEF n, guess
  <1>6. CallOK(n) /\ ~Active(n) /\ ~Writing(n)
    BY <1>3 DEF CallOK, Active, Writing
  <1>7. \A s \in Requests : commit'[s] = IF s = r THEN n ELSE commit[s]
    BY <1>4 DEF Becomes
  <1>8. view' = view /\ late' = late /\ fetched' = fetched /\ judged' = judged /\ moves' = moves
    BY DEF Propose
  <1>9. \A s \in Requests : /\ Active(commit'[s]) => s # r /\ Active(commit[s]) /\ commit'[s] = commit[s]
                                                     /\ commit[s].at # plane.holder
                            /\ Writing(commit'[s]) => s # r /\ Writing(commit[s]) /\ commit'[s] = commit[s]
                                                      /\ ~Held(plane, commit[s].at, commit[s].epoch)
    BY <1>0, <1>1, <1>6, <1>7, TakenAlone DEF Taken
  <1>10. turn' \in [ Gateways -> Requests \cup {Nobody} ] /\ \A g \in Gateways : turn'[g] = turn[g] \/ turn[g] = r
    BY <1>2, Zenon DEF Ends, CommitInv, TypeOK
  <1>11. TypeOK'
    <2>1. known' \in [ Gateways -> Guess ]
      BY <1>2, <1>5, Zenon DEF CommitInv, TypeOK
    <2> QED BY <1>1, <1>4, <1>6, <1>7, <1>8, <1>10, <2>1
            DEF CommitInv, TypeOK, Taken, Becomes, CallOK, Active, Writing
  <1>12. TurnHeld'
    <2>1. \A s \in Requests : Active(commit[s]) => commit[s].at \in Gateways /\ turn[commit[s].at] = s /\ commit[s].stamp <= judged
      BY DEF CommitInv, TypeOK, CallOK, TurnHeld
    <2>2. \A s \in Requests : Active(commit[s])' <=> Active(commit'[s])
      BY DEF Active, Writing
    <2> QED BY <1>8, <1>9, <1>10, <2>1, <2>2 DEF TurnHeld
  <1>13. PastKnown'
    <2>1. plane'.cursor.checkpoint \in Int
      BY <1>1 DEF Taken, Plane, Cursor
    <2>2. \A g \in Gateways : known'[g].checkpoint <= plane'.cursor.checkpoint
      <3>1. \A g \in Gateways : known'[g] = known[g] \/ known'[g] = guess
        BY <1>2 DEF CommitInv, TypeOK
      <3>2. \A g \in Gateways : known[g].checkpoint \in Int
        BY DEF CommitInv, TypeOK, Guess
      <3> QED BY <1>0, <1>1, <1>5, <2>1, <3>1, <3>2, TakenPast
    <2>3. \A g \in Gateways : fetched[g].checkpoint <= plane'.cursor.checkpoint
      BY <1>0, <1>1, <2>1, TakenPast DEF CommitInv, TypeOK, Cursor
    <2>4. \A s \in Requests : Writing(commit[s]) => commit[s].guess.checkpoint <= plane'.cursor.checkpoint
      BY <1>0, <1>1, <2>1, TakenPast DEF CommitInv, TypeOK, CallOK, Write, Guess
    <2>5. \A d \in late : d.guess.checkpoint <= plane'.cursor.checkpoint
      BY <1>0, <1>1, <2>1, TakenPast DEF CommitInv, TypeOK, Write, Guess
    <2>6. plane'.cursor.checkpoint >= 0
      BY <1>0, <1>1, TakenPast
    <2>7. \A s \in Requests : Writing(commit[s])' <=> Writing(commit'[s])
      BY DEF Writing
    <2> QED BY <1>8, <1>9, <2>2, <2>3, <2>4, <2>5, <2>6, <2>7 DEF PastKnown
  <1>14. LeaseOfOne'
    BY <1>1, <1>8, <1>9, SMTT(30) DEF CommitInv, LeaseOfOne, Taken, Writing
  <1>15. JudgedInOrder'
    <2>1. plane'.cursor.by.epoch = plane'.epoch /\ plane'.cursor.by.stamp <= judged /\ plane.epoch \in Nat
          /\ plane'.epoch = plane.epoch /\ plane'.holder = plane.holder
      BY <1>0, <1>1 DEF Taken, Held, CommitInv, TypeOK, Plane
    <2>2. \A d \in late : d.guess.checkpoint # plane'.cursor.checkpoint
      BY <1>0, <1>1, TakenPast DEF CommitInv, TypeOK, Write, Guess
    <2>3. \A s \in Requests : Active(commit[s])' <=> Active(commit'[s])
      BY DEF Active, Writing
    <2> QED BY <1>8, <1>9, <2>1, <2>2, <2>3 DEF CommitInv, JudgedInOrder
  <1>16. TriesCounted'
    BY <1>1, <1>8, <1>9 DEF CommitInv, TriesCounted, TriesCorrect, Writing
  <1>17. GivesUpOnlyWhenMoved'
    BY <1>3, <1>7, Zenon DEF CommitInv, GivesUpOnlyWhenMoved
  <1> QED BY <1>11, <1>12, <1>13, <1>14, <1>15, <1>16, <1>17 DEF CommitInv

LEMMA LandStep ==
  ASSUME CommitInv, NEW c \in late, Land(c)
  PROVE  CommitInv'
  <1>0. c \in Write /\ c.stamp \in Nat /\ c.stamp <= judged /\ late' = late \ {c}
    BY DEF Land, CommitInv, TypeOK, JudgedInOrder, Write
  <1>1. view' = view /\ known' = known /\ turn' = turn /\ commit' = commit /\ fetched' = fetched /\ judged' = judged
    BY DEF Land
  <1>2. CASE plane' = plane
    <2>1. moves' = moves
      BY <1>2 DEF Land
    <2> QED BY <1>0, <1>1, <1>2, <2>1, Zenon
            DEF CommitInv, TypeOK, TurnHeld, PastKnown, LeaseOfOne, JudgedInOrder, TriesCounted, TriesCorrect, Corrected,
                GivesUpOnlyWhenMoved, CallOK, Active, Writing
  <1>3. CASE Taken(c)
    <2>1. plane'.cursor.checkpoint \in Int /\ plane.cursor.checkpoint \in Int
      BY <1>3 DEF Taken, CommitInv, TypeOK, Plane, Cursor
    <2>2. moves' = moves + 1
      BY <1>0, <1>3, <2>1, TakenPast DEF Land
    <2>3. TypeOK' /\ TurnHeld' /\ GivesUpOnlyWhenMoved'
      <3>1. plane' \in Plane /\ late' \subseteq Write /\ moves' \in Nat
        BY <1>0, <1>3, <2>2 DEF Taken, CommitInv, TypeOK
      <3>2. TypeOK'
        BY <1>1, <3>1 DEF CommitInv, TypeOK, CallOK, Active, Writing
      <3>3. TurnHeld' /\ GivesUpOnlyWhenMoved'
        BY <1>1, Zenon DEF CommitInv, TurnHeld, GivesUpOnlyWhenMoved, Active, Writing
      <3> QED BY <3>2, <3>3
    <2>4. PastKnown'
      <3>1. \A g \in Gateways : known[g].checkpoint <= plane'.cursor.checkpoint /\ fetched[g].checkpoint <= plane'.cursor.checkpoint
        BY <1>0, <1>3, <2>1, TakenPast DEF CommitInv, TypeOK, Cursor, Guess
      <3>2. \A s \in Requests : Writing(commit[s]) => commit[s].guess.checkpoint <= plane'.cursor.checkpoint
        BY <1>0, <1>3, <2>1, TakenPast DEF CommitInv, TypeOK, CallOK, Write, Guess
      <3>3. \A d \in late : d.guess.checkpoint <= plane'.cursor.checkpoint
        BY <1>0, <1>3, <2>1, TakenPast DEF CommitInv, TypeOK, Write, Guess
      <3>4. plane'.cursor.checkpoint >= 0
        BY <1>0, <1>3, TakenPast
      <3> QED BY <1>0, <1>1, <3>1, <3>2, <3>3, <3>4 DEF PastKnown, Writing
    <2>5. LeaseOfOne'
      BY <1>0, <1>1, <1>3 DEF CommitInv, LeaseOfOne, Taken, Writing
    <2>6. JudgedInOrder'
      <3>1. plane'.cursor.by.epoch = plane'.epoch /\ plane'.cursor.by.stamp = c.stamp /\ plane.epoch \in Nat
            /\ plane'.epoch = plane.epoch /\ plane'.holder = plane.holder /\ c.at = plane.holder
        BY <1>0, <1>3 DEF Taken, Held, CommitInv, TypeOK, Plane
      <3>2. \A d \in late : d.guess.checkpoint # plane'.cursor.checkpoint
        BY <1>0, <1>3, TakenPast DEF CommitInv, TypeOK, Write, Guess
      <3>3. \A s \in Requests : Active(commit[s]) /\ commit[s].at = plane.holder => commit[s].stamp > c.stamp
        BY <3>1 DEF CommitInv, JudgedInOrder
      <3>4. \A s \in Requests : Active(commit[s])' <=> Active(commit[s])
        BY <1>1 DEF Active, Writing
      <3> QED BY <1>0, <1>1, <3>1, <3>2, <3>3, <3>4 DEF CommitInv, JudgedInOrder
    <2>7. TriesCounted'
      <3>1. moves \in Nat /\ \A s \in Requests : Writing(commit[s]) => commit[s].moves \in Nat /\ commit[s].moves <= moves
        BY DEF CommitInv, TypeOK, CallOK, Write, TriesCounted, TriesCorrect
      <3> QED BY <1>1, <2>2, <3>1 DEF TriesCounted, TriesCorrect, Writing
    <2> QED BY <2>3, <2>4, <2>5, <2>6, <2>7 DEF CommitInv
  <1> QED BY <1>0, <1>2, <1>3, TakenOrNot DEF Land

-----------------------------------------------------------------------------
(* What the gateways hear, and what else moves. *)

LEMMA HearStep ==
  ASSUME CommitInv, NEW g \in Gateways, Fetch(g) \/ FetchRemembers(g) \/ Notice(g) \/ Rebalance(g)
  PROVE  CommitInv'
  <1>1. plane' = plane /\ turn' = turn /\ commit' = commit /\ late' = late /\ judged' = judged /\ moves' = moves
    BY DEF Fetch, FetchRemembers, Notice, Rebalance, Moved
  <1>2. Remembered
    <2>1. CASE Fetch(g)
      BY <1>1, <2>1 DEF Fetch, Remembered, CommitInv, TypeOK, PastKnown, Plane, Cursor
    <2>2. CASE FetchRemembers(g)
      <3> DEFINE k == [ known[g] EXCEPT !.checkpoint = fetched[g].checkpoint, !.lineage = plane.lineage ]
      <3>0. known[g] \in Guess /\ fetched[g].checkpoint \in Int /\ plane.lineage \in Nat
        BY DEF CommitInv, TypeOK, Plane, Cursor
      <3>1. k \in Guess /\ k.checkpoint = fetched[g].checkpoint
        BY <3>0, Zenon DEF Guess
      <3>2. known' = [ known EXCEPT ![g] = k ] /\ fetched' = [ fetched EXCEPT ![g] = NoCursor ]
        BY <2>2 DEF FetchRemembers, Remembers
      <3>3. NoCursor \in Cursor /\ NoCursor.checkpoint = -1 /\ plane.cursor.checkpoint \in Int /\ plane.cursor.checkpoint >= -1
        BY DEF NoCursor, None, Cursor, CommitInv, TypeOK, Plane, PastKnown
      <3> HIDE DEF k
      <3> QED BY <1>1, <3>1, <3>2, <3>3 DEF Remembered, CommitInv, TypeOK, PastKnown
    <2>3. CASE Notice(g) \/ Rebalance(g)
      BY <1>1, <2>3, SameRemembered DEF Notice, Rebalance, Moved
    <2> QED BY <2>1, <2>2, <2>3
  <1>3. view' \in [ Gateways -> Nat ] /\ \A h \in Gateways : view'[h] <= plane.epoch /\ (view'[h] = plane.epoch => h = plane.holder)
    <2>1. view' = view \/ view' = [ view EXCEPT ![g] = IF plane.holder = g THEN plane.epoch ELSE Gone ]
      BY DEF Fetch, FetchRemembers, Notice, Rebalance
    <2>2. plane.epoch \in Nat /\ plane.epoch >= 1
      BY DEF CommitInv, TypeOK, Plane, LeaseOfOne
    <2> QED BY <2>1, <2>2 DEF CommitInv, TypeOK, LeaseOfOne, Gone
  <1>4. TypeOK' /\ PastKnown'
    BY <1>1, <1>2, <1>3 DEF CommitInv, TypeOK, PastKnown, Remembered, CallOK, Active, Writing
  <1>5. LeaseOfOne'
    BY <1>1, <1>3 DEF CommitInv, LeaseOfOne, Writing
  <1>6. TurnHeld' /\ JudgedInOrder'
    BY <1>1 DEF CommitInv, TurnHeld, JudgedInOrder, Active, Writing
  <1>7. TriesCounted' /\ GivesUpOnlyWhenMoved'
    BY <1>1, Zenon DEF CommitInv, TriesCounted, TriesCorrect, Corrected, GivesUpOnlyWhenMoved, Writing
  <1> QED BY <1>4, <1>5, <1>6, <1>7 DEF CommitInv

\* A lease that moves is a new one, under an epoch nobody has; a member that is
\* reassigned leaves the cursor where it is.  Either is a move.
LEMMA MoveStep ==
  ASSUME CommitInv,
         (\E g \in Gateways : Grant(g)) \/ (\E member \in {"none", "other"} : Reassign(member))
  PROVE  CommitInv' /\ plane'.cursor = plane.cursor
  <1>1. view' = view /\ known' = known /\ turn' = turn /\ commit' = commit /\ late' = late /\ fetched' = fetched
        /\ judged' = judged /\ moves' = moves + 1
    BY Zenon DEF Grant, Reassign, Moved
  <1>2. plane \in Plane /\ plane.epoch \in Nat /\ plane.cursor.by.epoch \in Nat /\ plane.cursor.by.epoch <= plane.epoch
        /\ plane.epoch >= 1
    BY DEF CommitInv, TypeOK, Plane, Cursor, JudgedInOrder, LeaseOfOne
  <1>3. plane' \in Plane /\ plane'.cursor = plane.cursor
        /\ (plane'.epoch = plane.epoch + 1 \/ (plane'.epoch = plane.epoch /\ plane'.holder = plane.holder))
    <2>1. CASE \E g \in Gateways : Grant(g)
      <3>1. PICK g \in Gateways : plane' = [ plane EXCEPT !.holder = g, !.epoch = @ + 1 ]
        BY <2>1, Zenon DEF Grant
      <3>2. plane.epoch + 1 \in Nat
        BY <1>2
      <3>3. plane' \in Plane
        BY <1>2, <3>1, <3>2, Zenon DEF Plane
      <3>4. plane'.cursor = plane.cursor /\ plane'.epoch = plane.epoch + 1
        BY <1>2, <3>1 DEF Plane
      <3> QED BY <3>3, <3>4
    <2>2. CASE \E member \in {"none", "other"} : Reassign(member)
      BY <1>2, <2>2 DEF Reassign, Plane
    <2> QED BY <2>1, <2>2
  <1>4. moves \in Nat /\ \A s \in Requests : Writing(commit[s]) =>
          commit[s].moves \in Nat /\ commit[s].moves <= moves /\ commit[s].epoch \in Nat
    BY DEF CommitInv, TypeOK, CallOK, Write, TriesCounted, TriesCorrect
  <1>5. (\A g \in Gateways : view[g] \in Nat) /\ (\A d \in late : d.epoch \in Nat)
    BY DEF CommitInv, TypeOK, Write
  <1>6. TypeOK' /\ PastKnown'
    BY <1>1, <1>3, <1>4 DEF CommitInv, TypeOK, PastKnown, CallOK, Active, Writing
  <1>7. LeaseOfOne'
    BY <1>1, <1>2, <1>3, <1>4, <1>5 DEF CommitInv, LeaseOfOne, Writing
  <1>8. JudgedInOrder'
    BY <1>1, <1>2, <1>3, <1>5 DEF CommitInv, JudgedInOrder, Active, Writing
  <1>9. TurnHeld' /\ GivesUpOnlyWhenMoved'
    BY <1>1, Zenon DEF CommitInv, TurnHeld, GivesUpOnlyWhenMoved, Active, Writing
  <1>10. TriesCounted'
    BY <1>1, <1>4 DEF TriesCounted, TriesCorrect, Writing
  <1> QED BY <1>3, <1>6, <1>7, <1>8, <1>9, <1>10 DEF CommitInv

-----------------------------------------------------------------------------
(* The theorems. *)

LEMMA CommitsStep == CommitInv /\ [CommitsNext]_commitVars => CommitInv'
  <1> SUFFICES ASSUME CommitInv, [CommitsNext]_commitVars PROVE CommitInv'
    OBVIOUS
  <1>1. ASSUME NEW r \in Requests,
               (\E g \in Gateways : Issue(r, g)) \/ Judge(r) \/ Start(r) \/ Refuse(r) \/ Abandon(r)
        PROVE  CommitInv'
    BY <1>1, IssueStep, JudgeStep, StartStep, RefuseStep, AbandonStep
  <1>2. ASSUME NEW r \in Requests, Stand(r) \/ Propose(r) \/ KeptMoving(r) \/ Read(r) \/ Unanswered(r)
        PROVE  CommitInv'
    BY <1>2, StandStep, UntakenStep, TakenStep, KeptMovingStep, ReadStep, UnansweredStep
  <1>3. ASSUME NEW c \in late, Land(c) PROVE CommitInv'
    BY <1>3, LandStep
  <1>4. ASSUME NEW g \in Gateways, Fetch(g) \/ FetchRemembers(g) \/ Notice(g) \/ Rebalance(g) PROVE CommitInv'
    BY <1>4, HearStep
  <1>5. CASE (\E g \in Gateways : Grant(g)) \/ (\E member \in {"none", "other"} : Reassign(member))
    BY <1>5, MoveStep
  <1>6. CASE UNCHANGED commitVars
    BY <1>6, Zenon DEF commitVars, CommitInv, TypeOK, TurnHeld, PastKnown, LeaseOfOne, JudgedInOrder, TriesCounted, TriesCorrect,
                Corrected, GivesUpOnlyWhenMoved, CallOK, Active, Writing
  <1> QED BY <1>1, <1>2, <1>3, <1>4, <1>5, <1>6 DEF CommitsNext

LEMMA CommitsInvariant == CommitsSpec => []CommitInv
  BY CommitsInitial, CommitsStep, PTL DEF CommitsSpec

\* CAS_ATTEMPTS is enough (MetadataOffsetStore::commit): with any number of
\* gateways and requests, a commit answers "kept moving" only if something else
\* moved the plane while it ran, since each refused attempt has corrected one of
\* the membership, the lineage and the checkpoint for good.
THEOREM GivesUpOnlyWhenMovedHolds == CommitsSpec => []GivesUpOnlyWhenMoved
  <1>1. CommitInv => GivesUpOnlyWhenMoved
    BY DEF CommitInv
  <1> QED BY <1>1, CommitsInvariant, PTL

\* A group's position is only replaced by one judged later under the same lease
\* or by one of a newer lease (offset_commit's turn, CommitGroupCursorFenced's
\* fence and checkpoint), however long an unanswered proposal takes to land.
THEOREM NewestCommitStandsHolds == CommitsSpec => NewestCommitStands
  <1>1. CommitInv /\ [CommitsNext]_commitVars
          => [plane'.cursor # plane.cursor => Newer(plane'.cursor.by, plane.cursor.by)]_commitVars
    <2> SUFFICES ASSUME CommitInv, CommitsNext, plane'.cursor # plane.cursor
                 PROVE  Newer(plane'.cursor.by, plane.cursor.by)
      OBVIOUS
    <2>1. ASSUME NEW r \in Requests, Stand(r) \/ Unanswered(r) PROVE FALSE
      <3>1. plane' = plane \/ plane' = Stood(plane, commit[r])
        BY <2>1 DEF Stand, Unanswered
      <3> QED BY <3>1, SamePlane, StoodKeeps DEF KeptPlane
    <2>2. ASSUME NEW r \in Requests, Propose(r) PROVE Newer(plane'.cursor.by, plane.cursor.by)
      <3>1. Writing(commit[r]) /\ commit[r] \in Write
        BY <2>2, WriteKnown DEF Propose, Writing
      <3>2. Taken(commit[r])
        BY <2>2, <3>1, TakenOrNot DEF Propose
      <3> QED BY <3>1, <3>2, TakenNewer
    <2>3. ASSUME NEW c \in late, Land(c) PROVE Newer(plane'.cursor.by, plane.cursor.by)
      <3>1. c \in Write
        BY DEF CommitInv, TypeOK
      <3>2. Taken(c)
        BY <2>3, <3>1, TakenOrNot DEF Land
      <3> QED BY <3>1, <3>2, TakenNewer
    <2>4. ~((\E g \in Gateways : Grant(g)) \/ (\E member \in {"none", "other"} : Reassign(member)))
      BY MoveStep
    <2>5. \A r \in Requests : ~(\/ \E g \in Gateways : Issue(r, g)
                                \/ Judge(r) \/ Start(r) \/ Refuse(r) \/ Abandon(r) \/ KeptMoving(r) \/ Read(r))
      BY Zenon DEF Issue, Judge, Start, Refuse, Abandon, KeptMoving, Read
    <2>6. \A g \in Gateways : ~(Fetch(g) \/ FetchRemembers(g) \/ Notice(g) \/ Rebalance(g))
      BY DEF Fetch, FetchRemembers, Notice, Rebalance
    <2> QED BY <2>1, <2>2, <2>3, <2>4, <2>5, <2>6 DEF CommitsNext
  <1> QED BY <1>1, CommitsInvariant, PTL DEF CommitsSpec, NewestCommitStands
=============================================================================
