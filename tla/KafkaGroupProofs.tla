-------------------------- MODULE KafkaGroupProofs ---------------------------
(***************************************************************************)
(* What a group's coordinator promises, for any number of clients, members, *)
(* rounds and disturbances: a token that a commit was taken under, and then *)
(* no longer, is never good again (the refinement of CommitTokens); and a   *)
(* parked request is answered before its own wait ends.                     *)
(***************************************************************************)
EXTENDS KafkaGroups, TLAPS

States == { "Empty", "Preparing", "Completing", "Stable" }

IsMember(m) ==
  /\ m = [ protocols |-> m.protocols, idle |-> m.idle, inRound |-> m.inRound,
           joinWaiter |-> m.joinWaiter, syncWaiter |-> m.syncWaiter ]
  /\ m.joinWaiter \in BOOLEAN /\ m.syncWaiter \in BOOLEAN

Shaped(g) ==
  /\ g = [ state |-> g.state, generation |-> g.generation, leader |-> g.leader, protocol |-> g.protocol,
           members |-> g.members, order |-> g.order, minted |-> g.minted, round |-> g.round,
           syncLeft |-> g.syncLeft ]
  /\ g.state \in States /\ g.generation \in Nat
  /\ g.round = [ openIn |-> g.round.openIn, left |-> g.round.left ]

IsGroup(g) ==
  /\ Shaped(g)
  /\ g.members = [ id \in In(g) |-> g.members[id] ]
  /\ \A id \in In(g) : IsMember(g.members[id])

-----------------------------------------------------------------------------
(* What the operators on a group change. *)

\* The group's fields but its members.
Frame(g, h) ==
  /\ h.state = g.state /\ h.generation = g.generation /\ h.leader = g.leader
  /\ h.minted = g.minted /\ h.round = g.round /\ h.syncLeft = g.syncLeft

\* The members g and h both have wait for the same.
SameWaiters(g, h) ==
  \A id \in In(h) : /\ h.members[id].joinWaiter = g.members[id].joinWaiter
                    /\ h.members[id].syncWaiter = g.members[id].syncWaiter

Dropped(g, gone, h) ==
  IsGroup(h) /\ In(h) = In(g) \ gone /\ Frame(g, h) /\ \A id \in In(h) : h.members[id] = g.members[id]

LEMMA LessGives ==
  ASSUME NEW g, IsGroup(g), NEW gone
  PROVE  Dropped(g, gone, Less(g, gone))
  <1> SUFFICES ASSUME NEW h, h = Less(g, gone) PROVE Dropped(g, gone, h)
    BY Zenon
  <1> DEFINE ms == [ id \in In(g) \ gone |-> g.members[id] ]
  <1>1. h = [ g EXCEPT !.members = ms, !.order = Without(g.order, gone) ]
    BY Zenon DEF Less, Restrict
  <1>2. DOMAIN ms = In(g) \ gone /\ \A id \in DOMAIN ms : ms[id] = g.members[id]
    BY Zenon
  <1>3. ms = [ id \in DOMAIN ms |-> ms[id] ]
    BY Zenon
  <1> HIDE DEF ms
  <1>4. Frame(g, h) /\ h.members = ms
    BY <1>1, Zenon DEF IsGroup, Shaped, Frame
  <1>5. Shaped(h)
    BY <1>1, Zenon DEF IsGroup, Shaped
  <1> QED BY <1>2, <1>3, <1>4, <1>5, Zenon DEF Dropped, IsGroup, Frame, In

\* Nothing changes but what members last did.
Alike(g, h) == IsGroup(h) /\ In(h) = In(g) /\ Frame(g, h) /\ SameWaiters(g, h)

LEMMA OutOfRoundGives ==
  ASSUME NEW g, IsGroup(g)
  PROVE  Alike(g, OutOfRound(g))
  <1> SUFFICES ASSUME NEW h, h = OutOfRound(g) PROVE Alike(g, h)
    BY Zenon
  <1> DEFINE ms == [ id \in In(g) |-> [ g.members[id] EXCEPT !.inRound = FALSE ] ]
  <1>1. h = [ g EXCEPT !.members = ms ]
    BY Zenon DEF OutOfRound
  <1>2. DOMAIN ms = In(g)
    BY Zenon
  <1>3. ASSUME NEW id \in In(g)
        PROVE  /\ IsMember(ms[id]) /\ ms[id].joinWaiter = g.members[id].joinWaiter
               /\ ms[id].syncWaiter = g.members[id].syncWaiter
    <2>1. IsMember(g.members[id]) /\ ms[id] = [ g.members[id] EXCEPT !.inRound = FALSE ]
      BY <1>3, Zenon DEF IsGroup
    <2> QED BY <2>1, Zenon DEF IsMember
  <1>4. ms = [ id \in DOMAIN ms |-> ms[id] ]
    BY Zenon
  <1> HIDE DEF ms
  <1>5. Frame(g, h) /\ h.members = ms
    BY <1>1, Zenon DEF IsGroup, Shaped, Frame
  <1>6. Shaped(h)
    BY <1>1, Zenon DEF IsGroup, Shaped
  <1> QED BY <1>2, <1>3, <1>4, <1>5, <1>6, Zenon DEF Alike, IsGroup, Frame, In, SameWaiters

Rested(g, h) ==
  /\ IsGroup(h) /\ In(h) = In(g) /\ h.members = g.members /\ h.state = "Empty"
  /\ h.generation = g.generation /\ h.minted = g.minted

LEMMA RestGives ==
  ASSUME NEW g, IsGroup(g)
  PROVE  Rested(g, Rest(g))
  <1> SUFFICES ASSUME NEW h, h = Rest(g) PROVE Rested(g, h)
    BY Zenon
  <1>1. "Empty" \in States /\ NoRound = [ openIn |-> Never, left |-> Never ]
    BY DEF States, NoRound
  <1>2. NoRound = [ openIn |-> NoRound.openIn, left |-> NoRound.left ]
    BY <1>1, Zenon
  <1>3. Shaped(h) /\ h.members = g.members /\ h.state = "Empty" /\ h.generation = g.generation /\ h.minted = g.minted
    BY <1>1, <1>2, Zenon DEF Rest, IsGroup, Shaped
  <1> QED BY <1>3, Zenon DEF Rested, IsGroup, In

\* A round that begins keeps the joins and releases the syncs.
Begun(g, h) ==
  /\ IsGroup(h) /\ In(h) = In(g) /\ h.state = "Preparing" /\ h.generation = g.generation
  /\ h.minted = g.minted /\ h.round.left = RebalanceTimeout
  /\ \A id \in In(h) : h.members[id].joinWaiter = g.members[id].joinWaiter /\ ~h.members[id].syncWaiter

LEMMA BeginRoundGives ==
  ASSUME NEW g, IsGroup(g), g.state # "Preparing", NEW b \in BOOLEAN
  PROVE  Begun(g, BeginRound(g, b))
  <1> SUFFICES ASSUME NEW h, h = BeginRound(g, b) PROVE Begun(g, h)
    BY Zenon
  <1> DEFINE ms == [ id \in In(g) |-> [ g.members[id] EXCEPT !.syncWaiter = FALSE ] ]
             r  == [ openIn |-> IF b THEN InitialDelay ELSE 0, left |-> RebalanceTimeout ]
  <1>1. h = [ g EXCEPT !.state = "Preparing", !.round = r, !.syncLeft = Never, !.members = ms ]
    BY Zenon DEF BeginRound
  <1>2. DOMAIN ms = In(g) /\ r = [ openIn |-> r.openIn, left |-> r.left ] /\ r.left = RebalanceTimeout
    BY Zenon
  <1>3. ASSUME NEW id \in In(g)
        PROVE  /\ IsMember(ms[id]) /\ ms[id].joinWaiter = g.members[id].joinWaiter /\ ~ms[id].syncWaiter
    <2>1. IsMember(g.members[id]) /\ ms[id] = [ g.members[id] EXCEPT !.syncWaiter = FALSE ]
      BY <1>3, Zenon DEF IsGroup
    <2>2. /\ ms[id] = [ protocols |-> g.members[id].protocols, idle |-> g.members[id].idle,
                        inRound |-> g.members[id].inRound, joinWaiter |-> g.members[id].joinWaiter,
                        syncWaiter |-> FALSE ]
      BY <2>1, Zenon DEF IsMember
    <2> QED BY <2>1, <2>2, Zenon DEF IsMember
  <1>4. ms = [ id \in DOMAIN ms |-> ms[id] ]
    BY Zenon
  <1> HIDE DEF ms, r
  <1>5. "Preparing" \in States
    BY DEF States
  <1>6. /\ Shaped(h) /\ h.members = ms /\ h.state = "Preparing" /\ h.generation = g.generation
        /\ h.minted = g.minted /\ h.round = r
    BY <1>1, <1>2, <1>5, Zenon DEF IsGroup, Shaped
  <1> QED BY <1>2, <1>3, <1>4, <1>6, Zenon DEF Begun, IsGroup, In

\* A member left: the round under way goes on, or one begins, or nobody is in.
Unmanned(g, h) ==
  /\ IsGroup(h) /\ In(h) = In(g) /\ h.generation = g.generation /\ h.minted = g.minted
  /\ \/ In(g) = {} /\ h.state = "Empty"
     \/ g.state = "Preparing" /\ h = g
     \/ g.state # "Preparing" /\ Begun(g, h)

LEMMA MemberLeftGives ==
  ASSUME NEW g, IsGroup(g)
  PROVE  Unmanned(g, MemberLeft(g))
  <1> SUFFICES ASSUME NEW h, h = MemberLeft(g) PROVE Unmanned(g, h)
    BY Zenon
  <1>1. CASE In(g) = {}
    BY <1>1, RestGives, Zenon DEF MemberLeft, Unmanned, Rested
  <1>2. CASE In(g) # {} /\ g.state = "Preparing"
    BY <1>2, Zenon DEF MemberLeft, Unmanned
  <1>3. CASE In(g) # {} /\ g.state # "Preparing"
    <2>1. PICK o : o = OutOfRound(g)
      BY Zenon
    <2>2. Alike(g, o) /\ IsGroup(o)
      BY <2>1, OutOfRoundGives, Zenon DEF Alike
    <2>3. o.state # "Preparing" /\ FALSE \in BOOLEAN
      BY <1>3, <2>2, Zenon DEF Alike, Frame
    <2>4. Begun(o, h)
      BY <1>3, <2>1, <2>2, <2>3, BeginRoundGives, Zenon DEF MemberLeft
    <2> QED BY <1>3, <2>2, <2>4, Zenon DEF Unmanned, Alike, Begun, Frame, SameWaiters
  <1> QED BY <1>1, <1>2, <1>3, Zenon

\* A round ends by nobody waiting for it any more, in the next generation.
Ends(g, h) ==
  /\ IsGroup(h) /\ h.state \in { "Empty", "Completing" } /\ h.generation = g.generation + 1
  /\ In(h) \subseteq In(g) /\ h.minted = g.minted
  /\ \A id \in In(h) : ~h.members[id].joinWaiter /\ h.members[id].syncWaiter = g.members[id].syncWaiter
  /\ h.state = "Empty" => In(h) = {}
  /\ h.state = "Completing" => h.syncLeft = RebalanceTimeout

LEMMA CompletedGives ==
  ASSUME NEW g, IsGroup(g), NEW leader
  PROVE  Ends(g, Completed(g, leader))
  <1> SUFFICES ASSUME NEW h, h = Completed(g, leader) PROVE Ends(g, h)
    BY Zenon
  <1> DEFINE ms == [ id \in In(g) |-> [ g.members[id] EXCEPT !.inRound = FALSE, !.idle = 0, !.joinWaiter = FALSE ] ]
             p  == Elect(g, leader)
  <1>1. h = [ g EXCEPT !.state = "Completing", !.leader = leader, !.protocol = p,
                       !.generation = g.generation + 1, !.round = NoRound, !.syncLeft = RebalanceTimeout,
                       !.members = ms ]
    BY Zenon DEF Completed
  <1>2. DOMAIN ms = In(g)
    BY Zenon
  <1>3. ASSUME NEW id \in In(g)
        PROVE  IsMember(ms[id]) /\ ~ms[id].joinWaiter /\ ms[id].syncWaiter = g.members[id].syncWaiter
    <2>1. /\ IsMember(g.members[id])
          /\ ms[id] = [ g.members[id] EXCEPT !.inRound = FALSE, !.idle = 0, !.joinWaiter = FALSE ]
      BY <1>3, Zenon DEF IsGroup
    <2>2. /\ ms[id] = [ protocols |-> g.members[id].protocols, idle |-> 0, inRound |-> FALSE,
                        joinWaiter |-> FALSE, syncWaiter |-> g.members[id].syncWaiter ]
      BY <2>1, Zenon DEF IsMember
    <2> QED BY <2>1, <2>2, Zenon DEF IsMember
  <1>4. ms = [ id \in DOMAIN ms |-> ms[id] ]
    BY Zenon
  <1> HIDE DEF ms, p
  <1>5. "Completing" \in States /\ NoRound = [ openIn |-> NoRound.openIn, left |-> NoRound.left ]
    BY DEF States, NoRound
  <1>6. g.generation + 1 \in Nat
    BY DEF IsGroup, Shaped
  <1>7. /\ Shaped(h) /\ h.members = ms /\ h.state = "Completing" /\ h.generation = g.generation + 1
        /\ h.minted = g.minted /\ h.syncLeft = RebalanceTimeout
    BY <1>1, <1>5, <1>6, Zenon DEF IsGroup, Shaped
  <1> QED BY <1>2, <1>3, <1>4, <1>7, Zenon DEF Ends, IsGroup, In

\* Nobody of a round that ends is left in it.
LEMMA EmptiedGives ==
  ASSUME NEW g, IsGroup(g), In(g) = {}
  PROVE  Ends(g, [ Rest(g) EXCEPT !.generation = @ + 1 ])
  <1>1. PICK r : r = Rest(g)
    BY Zenon
  <1>2. Rested(g, r) /\ IsGroup(r)
    BY <1>1, RestGives, Zenon DEF Rested
  <1>3. PICK h : h = [ r EXCEPT !.generation = g.generation + 1 ]
    BY Zenon
  <1>4. h = [ Rest(g) EXCEPT !.generation = @ + 1 ]
    BY <1>1, <1>2, <1>3, Zenon DEF Rested
  <1>5. g.generation + 1 \in Nat
    BY DEF IsGroup, Shaped
  <1>6. Shaped(h) /\ h.members = r.members /\ h.state = "Empty" /\ h.generation = g.generation + 1 /\ h.minted = g.minted
    BY <1>2, <1>3, <1>5, Zenon DEF Rested, IsGroup, Shaped
  <1>7. Ends(g, h)
    BY <1>2, <1>6, Zenon DEF Ends, Rested, IsGroup, In
  <1> QED BY <1>4, <1>7, Zenon

\* The round goes on, or ends.
Goes(g, h) ==
  \/ h = g /\ (g.state = "Preparing" => ~(g.round.left <= 0))
  \/ g.state = "Preparing" /\ Ends(g, h)

LEMMA MaybeCompleteGives ==
  ASSUME NEW g, IsGroup(g)
  PROVE  Goes(g, MaybeComplete(g))
  <1> SUFFICES ASSUME NEW h, h = MaybeComplete(g) PROVE Goes(g, h)
    BY Zenon
  <1> DEFINE out == { id \in In(g) : ~g.members[id].inRound }
  <1>1. PICK stayed : stayed = Less(g, out)
    BY Zenon
  <1>2. PICK none : none = Less(stayed, In(stayed))
    BY Zenon
  <1>3. PICK leader : leader = IF g.leader \in In(stayed) THEN g.leader ELSE stayed.order[1]
    BY Zenon
  <1>4. \/ h = g /\ (g.state = "Preparing" => ~(g.round.left <= 0))
        \/ g.state = "Preparing" /\ In(stayed) = {} /\ h = [ Rest(stayed) EXCEPT !.generation = @ + 1 ]
        \/ g.state = "Preparing" /\ h = [ Rest(none) EXCEPT !.generation = @ + 1 ]
        \/ g.state = "Preparing" /\ h = Completed(stayed, leader)
    BY <1>1, <1>2, <1>3, Zenon DEF MaybeComplete
  <1> HIDE DEF out
  <1>5. Dropped(g, out, stayed) /\ IsGroup(stayed)
    BY <1>1, LessGives, Zenon DEF Dropped
  <1>6. Dropped(stayed, In(stayed), none) /\ IsGroup(none) /\ In(none) = {}
    <2>1. Dropped(stayed, In(stayed), none)
      BY <1>2, <1>5, LessGives, Zenon
    <2> QED BY <2>1, Zenon DEF Dropped
  <1>7. ASSUME Ends(stayed, h) \/ Ends(none, h) PROVE Ends(g, h)
    BY <1>5, <1>6, <1>7, Zenon DEF Ends, Dropped, Frame
  <1>8. g.state = "Preparing" /\ h # g => Ends(stayed, h) \/ Ends(none, h)
    BY <1>4, <1>5, <1>6, EmptiedGives, CompletedGives, Zenon
  <1>9. CASE h = g /\ g.state = "Preparing" /\ g.round.left <= 0
    <2>1. Ends(stayed, h) \/ Ends(none, h)
      BY <1>4, <1>5, <1>6, <1>9, EmptiedGives, CompletedGives, Zenon
    <2> QED BY <1>7, <1>9, <2>1, Zenon DEF Goes
  <1> QED BY <1>4, <1>7, <1>8, <1>9, Zenon DEF Goes

\* A member is in the round, which goes on or begins.
Joined(g, id, h) ==
  /\ IsGroup(h) /\ In(h) = In(g) \cup {id} /\ h.state = "Preparing" /\ h.generation = g.generation
  /\ h.minted = g.minted /\ h.members[id].joinWaiter
  /\ \A x \in In(h) : x # id => h.members[x].joinWaiter = g.members[x].joinWaiter
  /\ g.state = "Preparing" =>
       /\ h.round.left = g.round.left
       /\ \A x \in In(h) : h.members[x].syncWaiter => x \in In(g) /\ g.members[x].syncWaiter
  /\ g.state # "Preparing" =>
       h.round.left = RebalanceTimeout /\ \A x \in In(h) : ~h.members[x].syncWaiter

\* Only the window before which a first round does not complete moves.
Windowed(g, h) ==
  /\ IsGroup(h) /\ In(h) = In(g) /\ h.members = g.members /\ h.state = g.state
  /\ h.generation = g.generation /\ h.minted = g.minted /\ h.round.left = g.round.left

LEMMA WindowMoves ==
  ASSUME NEW g, IsGroup(g), NEW t
  PROVE  Windowed(g, [ g EXCEPT !.round.openIn = t ])
  <1> SUFFICES ASSUME NEW h, h = [ g EXCEPT !.round.openIn = t ] PROVE Windowed(g, h)
    BY Zenon
  <1>1. PICK r : r = [ openIn |-> t, left |-> g.round.left ]
    BY Zenon
  <1>2. h = [ g EXCEPT !.round = r ]
    <2>1. PICK a, b : g.round = [ openIn |-> a, left |-> b ]
      BY Zenon DEF IsGroup, Shaped
    <2>2. [ [ openIn |-> a, left |-> b ] EXCEPT !.openIn = t ] = [ openIn |-> t, left |-> b ]
      OBVIOUS
    <2>3. g.round.left = b
      BY <2>1
    <2> QED BY <1>1, <2>1, <2>2, <2>3, Zenon
  <1>3. r = [ openIn |-> r.openIn, left |-> r.left ] /\ r.left = g.round.left
    BY <1>1, Zenon
  <1>4. /\ Shaped(h) /\ h.members = g.members /\ h.state = g.state
        /\ h.generation = g.generation /\ h.minted = g.minted /\ h.round = r
    BY <1>2, <1>3, Zenon DEF IsGroup, Shaped
  <1> QED BY <1>3, <1>4, Zenon DEF Windowed, IsGroup, In

LEMMA AdmittedGives ==
  ASSUME NEW g, IsGroup(g), NEW id, NEW offered
  PROVE  Joined(g, id, Admitted(g, id, offered))
  <1>1. PICK m : m = [ protocols |-> offered, idle |-> 0, inRound |-> TRUE, joinWaiter |-> TRUE,
                       syncWaiter |-> FALSE ]
    BY Zenon
  <1>2. PICK ms : ms = Put(g.members, id, m)
    BY Zenon
  <1>3. PICK o : o = IF id \notin In(g) THEN Append(g.order, id) ELSE g.order
    BY Zenon
  <1>4. PICK g1 : g1 = [ g EXCEPT !.members = ms, !.order = o ]
    BY Zenon
  <1>5. PICK g2 : g2 = BeginRound(g1, In(g) = {})
    BY Zenon
  <1>6. PICK h : h = Admitted(g, id, offered)
    BY Zenon
  <1>7. h = g2 \/ h = [ g2 EXCEPT !.round.openIn = Min({ InitialDelay, g2.round.left }) ]
    <2>1. g1 = [ g EXCEPT !.members = Put(@, id, m), !.order = IF id \notin In(g) THEN Append(@, id) ELSE @ ]
      BY <1>2, <1>3, <1>4, Zenon DEF IsGroup, Shaped
    <2> QED BY <1>1, <1>5, <1>6, <2>1, Zenon DEF Admitted
  <1>8. /\ DOMAIN ms = In(g) \cup {id} /\ ms[id] = m /\ ms = [ x \in DOMAIN ms |-> ms[x] ]
        /\ \A x \in In(g) : x # id => ms[x] = g.members[x]
    BY <1>2, Zenon DEF Put, In
  <1>9. IsMember(m) /\ m.joinWaiter /\ ~m.syncWaiter
    BY <1>1, Zenon DEF IsMember
  <1>10. Shaped(g1) /\ g1.members = ms /\ Frame(g, g1)
    BY <1>4, Zenon DEF IsGroup, Shaped, Frame
  <1>11. \A x \in DOMAIN ms : IsMember(ms[x])
    BY <1>8, <1>9, Zenon DEF IsGroup
  <1>12. IsGroup(g1) /\ In(g1) = In(g) \cup {id}
    BY <1>8, <1>10, <1>11, Zenon DEF IsGroup, In
  <1>13. Joined(g, id, g2)
    <2>1. CASE g.state = "Preparing"
      <3>1. g2 = g1 /\ g1.state = "Preparing"
        BY <1>5, <1>10, <2>1, Zenon DEF BeginRound, Frame
      <3> QED BY <1>8, <1>9, <1>10, <1>12, <2>1, <3>1, Zenon DEF Joined, Frame
    <2>2. CASE g.state # "Preparing"
      <3>1. Begun(g1, g2)
        <4>1. g1.state # "Preparing" /\ (In(g) = {}) \in BOOLEAN
          BY <1>10, <2>2, Zenon DEF Frame
        <4> QED BY <1>5, <1>12, <4>1, BeginRoundGives, Zenon
      <3> QED BY <1>8, <1>9, <1>10, <1>12, <2>2, <3>1, Zenon DEF Joined, Frame, Begun
    <2> QED BY <2>1, <2>2, Zenon
  <1>14. Joined(g, id, h)
    <2>1. IsGroup(g2)
      BY <1>13, Zenon DEF Joined
    <2>2. CASE h = [ g2 EXCEPT !.round.openIn = Min({ InitialDelay, g2.round.left }) ]
      <3>1. Windowed(g2, h)
        BY <2>1, <2>2, WindowMoves, Zenon
      <3> QED BY <1>13, <3>1, Zenon DEF Joined, Windowed
    <2> QED BY <1>7, <1>13, <2>2, Zenon
  <1> QED BY <1>6, <1>14, Zenon

\* One member's record changes.
Touched(g, id, m, h) ==
  /\ IsGroup(h) /\ h.members[id] = m /\ In(h) = In(g) /\ Frame(g, h)
  /\ \A x \in In(h) : x # id => h.members[x] = g.members[x]

LEMMA TouchedGives ==
  ASSUME NEW g, IsGroup(g), NEW id \in In(g), NEW m, IsMember(m)
  PROVE  Touched(g, id, m, [ g EXCEPT !.members[id] = m ])
  <1> SUFFICES ASSUME NEW h, h = [ g EXCEPT !.members[id] = m ] PROVE Touched(g, id, m, h)
    BY Zenon
  <1>1. PICK ms : ms = [ g.members EXCEPT ![id] = m ]
    BY Zenon
  <1>2. /\ DOMAIN ms = In(g) /\ ms[id] = m /\ ms = [ x \in DOMAIN ms |-> ms[x] ]
        /\ \A x \in In(g) : x # id => ms[x] = g.members[x]
    BY <1>1, Zenon DEF In, IsGroup
  <1>3. Shaped(h) /\ h.members = ms /\ Frame(g, h)
    BY <1>1, Zenon DEF IsGroup, Shaped, Frame
  <1> QED BY <1>2, <1>3, Zenon DEF IsGroup, In, Touched

LEMMA IdleGives ==
  ASSUME NEW g, IsGroup(g), NEW id \in In(g)
  PROVE  Alike(g, [ g EXCEPT !.members[id].idle = 0 ])
  <1>1. PICK m : m = [ g.members[id] EXCEPT !.idle = 0 ]
    BY Zenon
  <1>2. PICK h : h = [ g EXCEPT !.members[id].idle = 0 ]
    BY Zenon
  <1>3. h = [ g EXCEPT !.members[id] = m ]
    BY <1>1, <1>2, Zenon
  <1>4. IsMember(m) /\ m.joinWaiter = g.members[id].joinWaiter /\ m.syncWaiter = g.members[id].syncWaiter
    <2>1. PICK q : q = g.members[id] /\ IsMember(q)
      BY Zenon DEF IsGroup
    <2> QED BY <1>1, <2>1, Zenon DEF IsMember
  <1>5. Touched(g, id, m, h)
    BY <1>3, <1>4, TouchedGives, Zenon
  <1>6. Alike(g, h)
    BY <1>4, <1>5, Zenon DEF Touched, Alike, SameWaiters
  <1> QED BY <1>2, <1>6, Zenon

\* A sync is parked.
Parks(g, id, h) ==
  /\ IsGroup(h) /\ In(h) = In(g) /\ Frame(g, h) /\ h.members[id].syncWaiter
  /\ h.members[id].joinWaiter = g.members[id].joinWaiter
  /\ \A x \in In(h) : x # id => h.members[x] = g.members[x]

LEMMA ParkGives ==
  ASSUME NEW g, IsGroup(g), NEW id \in In(g)
  PROVE  Parks(g, id, [ g EXCEPT !.members[id].idle = 0, !.members[id].syncWaiter = TRUE ])
  <1> SUFFICES ASSUME NEW h, h = [ g EXCEPT !.members[id].idle = 0, !.members[id].syncWaiter = TRUE ]
               PROVE  Parks(g, id, h)
    BY Zenon
  <1>1. PICK n : n = [ g.members[id] EXCEPT !.idle = 0 ]
    BY Zenon
  <1>2. PICK m : m = [ n EXCEPT !.syncWaiter = TRUE ]
    BY Zenon
  <1>3. PICK q : q = g.members[id] /\ IsMember(q)
    BY Zenon DEF IsGroup
  <1>4. IsMember(n) /\ n.joinWaiter = g.members[id].joinWaiter
    BY <1>1, <1>3, Zenon DEF IsMember
  <1>5. IsMember(m) /\ m.joinWaiter = g.members[id].joinWaiter /\ m.syncWaiter
    BY <1>2, <1>4, Zenon DEF IsMember
  <1>6. PICK k : k = [ g EXCEPT !.members[id] = n ]
    BY Zenon
  <1>7. Touched(g, id, n, k)
    BY <1>4, <1>6, TouchedGives, Zenon
  <1>8. h = [ k EXCEPT !.members[id] = m ]
    <2>1. k = [ g EXCEPT !.members[id].idle = 0 ]
      BY <1>1, <1>6, Zenon
    <2>2. h = [ k EXCEPT !.members[id].syncWaiter = TRUE ]
      BY <2>1, Zenon
    <2> QED BY <1>2, <1>7, <2>2, Zenon DEF Touched
  <1>9. Touched(k, id, m, h)
    <2>1. IsGroup(k) /\ id \in In(k)
      BY <1>7, Zenon DEF Touched
    <2>2. Touched(k, id, m, [ k EXCEPT !.members[id] = m ])
      BY <1>5, <2>1, TouchedGives, Zenon
    <2> QED BY <1>8, <2>2, Zenon
  <1> QED BY <1>5, <1>7, <1>9, Zenon DEF Parks, Touched, Frame

\* The assignment stands: no sync waits.
Assigned(g, h) ==
  /\ IsGroup(h) /\ In(h) = In(g) /\ h.state = "Stable" /\ h.generation = g.generation /\ h.minted = g.minted
  /\ \A id \in In(h) : h.members[id].joinWaiter = g.members[id].joinWaiter /\ ~h.members[id].syncWaiter

LEMMA AppliedGives ==
  ASSUME NEW g, IsGroup(g)
  PROVE  Assigned(g, Applied(g))
  <1> SUFFICES ASSUME NEW h, h = Applied(g) PROVE Assigned(g, h)
    BY Zenon
  <1> DEFINE ms == [ id \in In(g) |-> [ g.members[id] EXCEPT !.idle = 0, !.syncWaiter = FALSE ] ]
  <1>1. h = [ g EXCEPT !.state = "Stable", !.syncLeft = Never, !.members = ms ]
    BY Zenon DEF Applied
  <1>2. DOMAIN ms = In(g)
    BY Zenon
  <1>3. ASSUME NEW id \in In(g)
        PROVE  IsMember(ms[id]) /\ ms[id].joinWaiter = g.members[id].joinWaiter /\ ~ms[id].syncWaiter
    <2>1. IsMember(g.members[id]) /\ ms[id] = [ g.members[id] EXCEPT !.idle = 0, !.syncWaiter = FALSE ]
      BY <1>3, Zenon DEF IsGroup
    <2>2. /\ ms[id] = [ protocols |-> g.members[id].protocols, idle |-> 0,
                        inRound |-> g.members[id].inRound, joinWaiter |-> g.members[id].joinWaiter,
                        syncWaiter |-> FALSE ]
      BY <2>1, Zenon DEF IsMember
    <2> QED BY <2>1, <2>2, Zenon DEF IsMember
  <1>4. ms = [ id \in DOMAIN ms |-> ms[id] ]
    BY Zenon
  <1> HIDE DEF ms
  <1>5. "Stable" \in States
    BY DEF States
  <1>6. /\ Shaped(h) /\ h.members = ms /\ h.state = "Stable" /\ h.generation = g.generation /\ h.minted = g.minted
    BY <1>1, <1>5, Zenon DEF IsGroup, Shaped
  <1> QED BY <1>2, <1>3, <1>4, <1>6, Zenon DEF Assigned, IsGroup, In

\* Only minted ids go, or come.
Minting(g, h) ==
  /\ IsGroup(h) /\ In(h) = In(g) /\ h.members = g.members /\ h.state = g.state
  /\ h.generation = g.generation /\ h.round = g.round /\ h.syncLeft = g.syncLeft /\ h.leader = g.leader

LEMMA MintingGives ==
  ASSUME NEW g, IsGroup(g), NEW ids
  PROVE  Minting(g, [ g EXCEPT !.minted = ids ]) /\ [ g EXCEPT !.minted = ids ].minted = ids
  <1>1. PICK h : h = [ g EXCEPT !.minted = ids ]
    BY Zenon
  <1>2. Shaped(h) /\ h.minted = ids /\ h.members = g.members
    BY <1>1, Zenon DEF IsGroup, Shaped
  <1>3. /\ h.state = g.state /\ h.generation = g.generation /\ h.round = g.round /\ h.syncLeft = g.syncLeft
        /\ h.leader = g.leader
    BY <1>1, Zenon DEF IsGroup, Shaped
  <1> QED BY <1>1, <1>2, <1>3, Zenon DEF Minting, IsGroup, In

LEMMA FreshGives ==
  ASSUME NEW g, IsGroup(g)
  PROVE  Minting(g, Fresh(g)) /\ DOMAIN Fresh(g).minted \subseteq DOMAIN g.minted
  <1>1. PICK ids : ids = Restrict(g.minted, { id \in DOMAIN g.minted : g.minted[id] < MintedTtl })
    BY Zenon
  <1>2. Fresh(g) = [ g EXCEPT !.minted = ids ]
    BY <1>1, Zenon DEF Fresh
  <1>3. DOMAIN ids \subseteq DOMAIN g.minted
    BY <1>1, Zenon DEF Restrict
  <1>4. Minting(g, [ g EXCEPT !.minted = ids ]) /\ [ g EXCEPT !.minted = ids ].minted = ids
    BY MintingGives, Zenon
  <1> QED BY <1>2, <1>3, <1>4, Zenon

-----------------------------------------------------------------------------
(* What a step is to the members: who waits goes on waiting for the same. *)

Taking(g) == g.state \in { "Stable", "Preparing" }

Waiters(g) ==
  \A x \in In(g) : /\ g.members[x].joinWaiter => g.state = "Preparing"
                   /\ g.members[x].syncWaiter => g.state = "Completing"

\* Whoever waits in h, but N, waited in g, for the same deadline.
Follows(g, h, N) ==
  \A x \in In(h) \ N :
    /\ h.members[x].joinWaiter => x \in In(g) /\ g.members[x].joinWaiter /\ h.round.left = g.round.left
    /\ h.members[x].syncWaiter => x \in In(g) /\ g.members[x].syncWaiter /\ h.syncLeft = g.syncLeft

\* A step within a generation, and one that ends it.
Turns(g, h) ==
  /\ IsGroup(h) /\ Waiters(h) /\ Follows(g, h, {})
  /\ In(h) \subseteq In(g) /\ DOMAIN h.minted \subseteq DOMAIN g.minted
  /\ h.generation = g.generation /\ (Taking(g) => Taking(h) \/ In(h) = {})

Closes(g, h, N) ==
  /\ IsGroup(h) /\ Waiters(h) /\ Follows(g, h, N)
  /\ In(h) \subseteq In(g) \cup N /\ DOMAIN h.minted \subseteq DOMAIN g.minted
  /\ h.generation = g.generation + 1 /\ ~Taking(h)

\* No deadline of the group is earlier than low.
Timed(g, low) ==
  /\ g.state = "Preparing" => g.round.left \in Int /\ low <= g.round.left
  /\ g.state = "Completing" => g.syncLeft \in Int /\ low <= g.syncLeft

LEMMA TurnsOn ==
  ASSUME NEW g, NEW h, NEW k, Turns(g, h), Turns(h, k) PROVE Turns(g, k)
  BY Zenon DEF Turns, Follows

LEMMA ClosesAfter ==
  ASSUME NEW g, NEW h, NEW k, Turns(g, h), Closes(h, k, {}) PROVE Closes(g, k, {})
  BY Zenon DEF Turns, Closes, Follows

LEMMA AlikeTurns ==
  ASSUME NEW g, Waiters(g), NEW h, Alike(g, h) PROVE Turns(g, h)
  BY Zenon DEF Turns, Alike, Frame, SameWaiters, Waiters, Follows, Taking

LEMMA DroppedTurns ==
  ASSUME NEW g, Waiters(g), NEW gone, NEW h, Dropped(g, gone, h) PROVE Turns(g, h)
  BY Zenon DEF Turns, Dropped, Frame, Waiters, Follows, Taking

LEMMA MintingTurns ==
  ASSUME NEW g, Waiters(g), NEW h, Minting(g, h), DOMAIN h.minted \subseteq DOMAIN g.minted PROVE Turns(g, h)
  BY Zenon DEF Turns, Minting, Waiters, Follows, Taking

LEMMA BegunTurns ==
  ASSUME NEW g, Waiters(g), g.state # "Preparing", NEW h, Begun(g, h) PROVE Turns(g, h)
  BY Zenon DEF Turns, Begun, Waiters, Follows, Taking

LEMMA UnmannedTurns ==
  ASSUME NEW g, Waiters(g), NEW h, Unmanned(g, h) PROVE Turns(g, h)
  <1>1. CASE In(g) = {} /\ h.state = "Empty"
    BY <1>1, Zenon DEF Turns, Unmanned, Waiters, Follows, Taking
  <1>2. CASE g.state = "Preparing" /\ h = g
    BY <1>2, Zenon DEF Turns, Unmanned, Waiters, Follows, Taking
  <1> QED BY <1>1, <1>2, BegunTurns, Zenon DEF Unmanned

LEMMA AssignedTurns ==
  ASSUME NEW g, Waiters(g), g.state = "Completing", NEW h, Assigned(g, h) PROVE Turns(g, h)
  BY Zenon DEF Turns, Assigned, Waiters, Follows, Taking

LEMMA EndsCloses ==
  ASSUME NEW g, Waiters(g), g.state = "Preparing", NEW h, Ends(g, h) PROVE Closes(g, h, {})
  <1>1. "Preparing" # "Completing" /\ ~Taking(h)
    BY Zenon DEF Ends, Taking
  <1> QED BY <1>1, Zenon DEF Closes, Ends, Waiters, Follows

\* A leader that did not sync is out, and a round begins without it.
LEMMA LeaderOutGives ==
  ASSUME NEW g, IsGroup(g), Waiters(g), Timed(g, -1)
  PROVE  LET h == LeaderOut(g) IN
         /\ Turns(g, h) /\ IsGroup(h) /\ Waiters(h) /\ Timed(h, -1)
         /\ h.state = "Completing" => ~(h.syncLeft < 0)
         /\ g.state # "Completing" => h = g
  <1> SUFFICES ASSUME NEW h, h = LeaderOut(g)
               PROVE  /\ Turns(g, h) /\ IsGroup(h) /\ Waiters(h) /\ Timed(h, -1)
                      /\ h.state = "Completing" => ~(h.syncLeft < 0)
                      /\ g.state # "Completing" => h = g
    BY Zenon
  <1>1. CASE ~(g.state = "Completing" /\ g.syncLeft < 0)
    <2>1. h = g /\ Turns(g, g)
      BY <1>1, Zenon DEF LeaderOut, Turns, Follows, Taking
    <2> QED BY <1>1, <2>1, Zenon
  <1>2. CASE g.state = "Completing" /\ g.syncLeft < 0
    <2>1. PICK d : d = Less(g, {g.leader})
      BY Zenon
    <2>2. PICK e : e = [ d EXCEPT !.syncLeft = Never ]
      BY Zenon
    <2>3. Dropped(g, {g.leader}, d) /\ IsGroup(d)
      BY <2>1, LessGives, ZenonT(20) DEF Dropped
    <2>4. Shaped(e) /\ e.members = d.members /\ e.state = d.state /\ e.generation = d.generation /\ e.minted = d.minted
      BY <2>2, <2>3, Zenon DEF IsGroup, Shaped
    <2>5. /\ IsGroup(e) /\ In(e) \subseteq In(g) /\ e.state = "Completing" /\ e.generation = g.generation
          /\ e.minted = g.minted /\ \A x \in In(e) : e.members[x] = g.members[x]
      BY <1>2, <2>3, <2>4, Zenon DEF IsGroup, In, Dropped, Frame
    <2>6. Unmanned(e, h)
      BY <1>2, <2>1, <2>2, <2>5, MemberLeftGives, Zenon DEF LeaderOut
    <2>7. \/ In(h) = {} /\ h.state = "Empty"
          \/ /\ h.state = "Preparing" /\ h.round.left = RebalanceTimeout
             /\ \A x \in In(h) : ~h.members[x].joinWaiter /\ ~h.members[x].syncWaiter
      BY <1>2, <2>5, <2>6, Zenon DEF Unmanned, Begun, Waiters
    <2>8. IsGroup(h) /\ In(h) = In(e) /\ h.generation = e.generation /\ h.minted = e.minted
      BY <2>6, Zenon DEF Unmanned
    <2>9. Turns(g, h) /\ Waiters(h)
      BY <1>2, <2>5, <2>7, <2>8, Zenon DEF Turns, Waiters, Follows, Taking
    <2>10. RebalanceTimeout \in Int /\ -1 <= RebalanceTimeout
      BY TimesAssumption
    <2> QED BY <1>2, <2>7, <2>8, <2>9, <2>10, Zenon DEF Timed
  <1> QED BY <1>1, <1>2, Zenon

\* The clock's work on a group leaves it with no deadline passed, or none.
Sweeps(g, h) == h = NoGroup \/ ((Turns(g, h) \/ Closes(g, h, {})) /\ Timed(h, 0))

LEMMA SweptGives ==
  ASSUME NEW g, IsGroup(g), Waiters(g), Timed(g, -1)
  PROVE  Sweeps(g, Swept(g))
  <1>1. PICK lapsed : lapsed = Lapsed(g)
    BY Zenon
  <1>2. PICK f : f = Fresh(g)
    BY Zenon
  <1>3. PICK h : h = LeaderOut(f)
    BY Zenon
  <1>4. PICK rest : rest = IF lapsed = {} THEN h ELSE MemberLeft(Less(h, lapsed))
    BY Zenon
  <1>5. PICK done : done = MaybeComplete(rest)
    BY Zenon
  <1>6. Swept(g) = NoGroup \/ Swept(g) = done
    BY <1>1, <1>2, <1>3, <1>4, <1>5, Zenon DEF Swept
  <1>7. Turns(g, f) /\ IsGroup(f) /\ Waiters(f) /\ Timed(f, -1) /\ f.state = g.state
    <2>1. Minting(g, f) /\ DOMAIN f.minted \subseteq DOMAIN g.minted
      BY <1>2, FreshGives, Zenon
    <2>2. Turns(g, f)
      BY <2>1, MintingTurns, Zenon
    <2> QED BY <2>1, <2>2, Zenon DEF Minting, Turns, Timed
  <1>8. /\ Turns(f, h) /\ IsGroup(h) /\ Waiters(h) /\ Timed(h, -1)
        /\ h.state = "Completing" => ~(h.syncLeft < 0)
        /\ f.state # "Completing" => h = f
    BY <1>3, <1>7, LeaderOutGives, Zenon
  <1>9. lapsed # {} => g.state # "Completing" /\ h = f
    BY <1>1, <1>7, <1>8, Zenon DEF Lapsed
  <1>10. /\ Turns(h, rest) /\ IsGroup(rest) /\ Waiters(rest)
         /\ rest.state = "Completing" => rest.syncLeft \in Int /\ 0 <= rest.syncLeft
         /\ rest.state = "Preparing" => rest.round.left \in Int
    <2>1. CASE lapsed = {}
      <3>1. rest = h
        BY <1>4, <2>1, Zenon
      <3>2. Turns(h, h)
        BY <1>8, Zenon DEF Turns, Follows, Taking
      <3>3. h.state = "Completing" => h.syncLeft \in Int /\ 0 <= h.syncLeft
        BY <1>8 DEF Timed
      <3> QED BY <1>8, <3>1, <3>2, <3>3, Zenon DEF Timed
    <2>2. CASE lapsed # {}
      <3>1. PICK d : d = Less(h, lapsed)
        BY Zenon
      <3>2. Dropped(h, lapsed, d) /\ IsGroup(d)
        BY <1>8, <3>1, LessGives, Zenon DEF Dropped
      <3>3. Turns(h, d) /\ Waiters(d)
        BY <1>8, <3>2, DroppedTurns, Zenon DEF Turns
      <3>4. Unmanned(d, rest)
        BY <1>4, <2>2, <3>1, <3>2, MemberLeftGives, Zenon
      <3>5. Turns(d, rest) /\ IsGroup(rest) /\ Waiters(rest)
        BY <3>3, <3>4, UnmannedTurns, Zenon DEF Turns
      <3>6. d.state # "Completing" /\ d.round = h.round
        BY <1>7, <1>9, <2>2, <3>2, Zenon DEF Dropped, Frame
      <3>7. \/ rest.state = "Empty"
            \/ rest.state = "Preparing" /\ rest.round.left = h.round.left /\ h.state = "Preparing"
            \/ rest.state = "Preparing" /\ rest.round.left = RebalanceTimeout
        BY <3>2, <3>4, <3>6, Zenon DEF Unmanned, Begun, Dropped, Frame
      <3>8. RebalanceTimeout \in Int
        BY TimesAssumption
      <3> QED BY <1>8, <3>3, <3>5, <3>7, <3>8, TurnsOn, Zenon DEF Timed
    <2> QED BY <2>1, <2>2, Zenon
  <1>11. Turns(g, rest)
    BY <1>7, <1>8, <1>10, TurnsOn, Zenon
  <1>12. Goes(rest, done)
    BY <1>5, <1>10, MaybeCompleteGives, Zenon
  <1>13. CASE done = rest /\ (rest.state = "Preparing" => ~(rest.round.left <= 0))
    <2>1. rest.state = "Preparing" => rest.round.left \in Int /\ 0 <= rest.round.left
      BY <1>10, <1>13
    <2> QED BY <1>6, <1>10, <1>11, <1>13, <2>1, Zenon DEF Sweeps, Timed
  <1>14. CASE rest.state = "Preparing" /\ Ends(rest, done)
    <2>1. Closes(g, done, {})
      BY <1>10, <1>11, <1>14, EndsCloses, ClosesAfter, Zenon
    <2>2. RebalanceTimeout \in Int /\ 0 <= RebalanceTimeout
      BY TimesAssumption
    <2>3. Timed(done, 0)
      BY <1>14, <2>2, Zenon DEF Ends, Timed
    <2> QED BY <1>6, <2>1, <2>3, Zenon DEF Sweeps
  <1> QED BY <1>12, <1>13, <1>14, Zenon DEF Goes

\* A join, or a rejoin, of id: the round goes on or begins, or ends at once.
Joins(g, id, h) ==
  /\ IsGroup(h) /\ Waiters(h) /\ Follows(g, h, {id})
  /\ In(h) \subseteq In(g) \cup {id} /\ h.minted = g.minted
  /\ \/ /\ h.state = "Preparing" /\ h.generation = g.generation
        /\ In(h) = In(g) \cup {id} /\ h.members[id].joinWaiter
     \/ h.generation = g.generation + 1 /\ ~Taking(h)

LEMMA JoinGives ==
  ASSUME NEW g, IsGroup(g), Waiters(g), NEW low \in {-1, 0}, Timed(g, low), NEW id, NEW offered
  PROVE  LET h == MaybeComplete(Admitted(g, id, offered)) IN Joins(g, id, h) /\ Timed(h, low)
  <1>1. PICK asked : asked = Admitted(g, id, offered)
    BY Zenon
  <1> SUFFICES ASSUME NEW h, h = MaybeComplete(asked) PROVE Joins(g, id, h) /\ Timed(h, low)
    BY <1>1, Zenon
  <1>3. Joined(g, id, asked) /\ IsGroup(asked)
    <2>1. Joined(g, id, asked)
      BY <1>1, AdmittedGives, Zenon
    <2> QED BY <2>1, Zenon DEF Joined
  <1>4. Goes(asked, h)
    BY <1>3, MaybeCompleteGives, Zenon
  <1>5. RebalanceTimeout \in Int /\ low <= RebalanceTimeout
    BY TimesAssumption
  <1>6. \A x \in In(asked) : ~asked.members[x].syncWaiter
    BY <1>3, Zenon DEF Joined, Waiters
  <1>7. Follows(g, asked, {id}) /\ Waiters(asked)
    <2>1. ASSUME NEW x \in In(asked), x # id, asked.members[x].joinWaiter
          PROVE  x \in In(g) /\ g.members[x].joinWaiter /\ asked.round.left = g.round.left
      <3>1. x \in In(g) /\ g.members[x].joinWaiter
        BY <1>3, <2>1, Zenon DEF Joined
      <3> QED BY <1>3, <3>1, Zenon DEF Joined, Waiters
    <2> QED BY <1>3, <1>6, <2>1, Zenon DEF Follows, Waiters, Joined
  <1>8. Timed(asked, low)
    BY <1>3, <1>5, Zenon DEF Joined, Timed
  <1>9. CASE h = asked
    BY <1>3, <1>7, <1>8, <1>9, Zenon DEF Joins, Joined
  <1>10. CASE asked.state = "Preparing" /\ Ends(asked, h)
    <2>1. Closes(asked, h, {})
      BY <1>7, <1>10, EndsCloses, Zenon
    <2>2. Follows(g, h, {id})
      BY <1>10, <1>6, Zenon DEF Follows, Ends
    <2>3. Joins(g, id, h)
      BY <1>3, <1>10, <2>1, <2>2, Zenon DEF Joins, Closes, Joined, Ends
    <2>4. Timed(h, low)
      BY <1>5, <1>10, Zenon DEF Ends, Timed
    <2> QED BY <2>3, <2>4, Zenon
  <1> QED BY <1>4, <1>9, <1>10, Zenon DEF Goes

-----------------------------------------------------------------------------
(* Tokens. *)

\* The group, or the one a join would make.
Base == IF group = NoGroup THEN NewGroup ELSE group

LEMMA NewIsGroup ==
  /\ IsGroup(NewGroup) /\ In(NewGroup) = {} /\ DOMAIN NewGroup.minted = {}
  /\ NewGroup.state = "Empty" /\ NewGroup.generation = 0
  <1>1. << >> = [ id \in {} |-> 0 ] /\ DOMAIN << >> = {}
    OBVIOUS
  <1>2. /\ NewGroup.members = << >> /\ NewGroup.minted = << >> /\ NewGroup.state = "Empty"
        /\ NewGroup.generation = 0 /\ NewGroup.round = NoRound
    BY DEF NewGroup
  <1>3. NoRound = [ openIn |-> NoRound.openIn, left |-> NoRound.left ] /\ "Empty" \in States /\ 0 \in Nat
    BY DEF NoRound, States
  <1>4. Shaped(NewGroup)
    BY <1>2, <1>3, Zenon DEF Shaped, NewGroup
  <1>5. In(NewGroup) = {}
    BY <1>1, <1>2, Zenon DEF In
  <1>6. [ id \in {} |-> 0 ] = [ id \in {} |-> NewGroup.members[id] ]
    OBVIOUS
  <1> QED BY <1>1, <1>2, <1>4, <1>5, <1>6, Zenon DEF IsGroup

Taken(g) == IF Taking(g) THEN In(g) \X {g.generation} ELSE {}

LEMMA GoodIs ==
  ASSUME NEW g, IsGroup(g) PROVE g # NoGroup /\ Good(g) = Taken(g)
  <1>1. NoGroup.state = "None" /\ "None" \notin States
    BY DEF NoGroup, States
  <1>2. g # NoGroup
    BY <1>1, Zenon DEF IsGroup, Shaped
  <1>3. ASSUME NEW t PROVE t \in Good(g) <=> t \in Taken(g)
    <2>1. t \in In(g) \X {g.generation} => t[1] \in In(g) /\ t[2] = g.generation
      OBVIOUS
    <2> QED BY <1>2, <2>1, Zenon DEF Good, CheckCommit, Taken, Taking
  <1> QED BY <1>2, <1>3, Zenon

\* The earliest a deadline may be: the sweeper runs once in every tick.
Low == IF swept THEN 0 ELSE -1

GroupInv == group = NoGroup \/ (IsGroup(group) /\ Waiters(group) /\ Timed(group, Low))

\* An id is a member's or waits to become one's; a token that was good is of
\* an id that is gone, or of an earlier generation.
TokenInv ==
  /\ minted \in Nat
  /\ In(Base) \subseteq 1 .. minted /\ DOMAIN Base.minted \subseteq 1 .. minted
  /\ In(Base) \cap DOMAIN Base.minted = {}
  /\ \A t \in spent : /\ t \in Nat \X Nat /\ t[1] \in 1 .. minted /\ t[1] \notin DOMAIN Base.minted
                      /\ t[1] \in In(Base) => t[2] < Base.generation

LEMMA BaseIs ==
  ASSUME GroupInv
  PROVE  /\ IsGroup(Base) /\ Waiters(Base) /\ Timed(Base, Low) /\ Base # NoGroup /\ Good(group) = Taken(Base)
         /\ Low \in {-1, 0} /\ (group # NoGroup => Base = group)
  <1>0. Low \in {-1, 0}
    BY Zenon DEF Low
  <1>1. CASE group = NoGroup
    <2>1. Base = NewGroup
      BY <1>1, Zenon DEF Base
    <2>2. Waiters(NewGroup) /\ Timed(NewGroup, Low)
      BY NewIsGroup, Zenon DEF Waiters, Timed
    <2>3. Good(group) = {} /\ Taken(NewGroup) = {}
      BY <1>1, NewIsGroup, Zenon DEF Good, Taken, Taking
    <2> QED BY <1>0, <1>1, <2>1, <2>2, <2>3, NewIsGroup, GoodIs, Zenon
  <1>2. CASE group # NoGroup
    BY <1>0, <1>2, GoodIs, Zenon DEF Base, GroupInv
  <1> QED BY <1>1, <1>2, Zenon

\* Tokens end, or come, and never come back.
LEMMA TokensMove ==
  ASSUME GroupInv, TokenInv, NEW h, IsGroup(h), group' = h, Remember, minted' \in Nat, minted <= minted',
         \/ /\ h.generation = Base.generation /\ (Taking(Base) => Taking(h) \/ In(h) = {})
            /\ In(h) \subseteq In(Base) \/ In(Base) \subseteq In(h)
         \/ h.generation = Base.generation + 1 /\ ~Taking(h),
         In(h) \subseteq 1 .. minted', DOMAIN h.minted \subseteq 1 .. minted',
         In(h) \cap DOMAIN h.minted = {}, In(Base) \cap DOMAIN h.minted = {},
         \A t \in spent : t[1] \notin DOMAIN h.minted /\ (t[1] \in In(h) => t[1] \in In(Base))
  PROVE  TokenInv' /\ Tok!Next
  <1>1. IsGroup(Base) /\ Good(group) = Taken(Base)
    BY BaseIs, Zenon
  <1>2. h # NoGroup /\ Good(h) = Taken(h) /\ Good(group)' = Taken(h) /\ Base' = h
    BY GoodIs, Zenon DEF Base
  <1>3. spent' = spent \cup (Taken(Base) \ Taken(h))
    BY <1>1, <1>2, Zenon DEF Remember
  <1>4. Base.generation \in Nat /\ h.generation \in Nat
    BY <1>1, Zenon DEF IsGroup, Shaped
  <1>5. \A g : \A t \in Taken(g) : t[1] \in In(g) /\ t[2] = g.generation /\ Taking(g) /\ t = << t[1], t[2] >>
    BY DEF Taken
  <1>6. ASSUME NEW t \in Taken(Base) \ Taken(h)
        PROVE  /\ t \in Nat \X Nat /\ t[1] \in 1 .. minted /\ t[1] \notin DOMAIN h.minted
               /\ t[1] \in In(h) => t[2] < h.generation
    <2>1. t[1] \in In(Base) /\ t[2] = Base.generation /\ Taking(Base) /\ t = << t[1], t[2] >>
      BY <1>5, Zenon
    <2>2. t[1] \in 1 .. minted /\ t[1] \in Nat /\ t[2] \in Nat
      BY <1>4, <2>1 DEF TokenInv
    <2>3. t \in Nat \X Nat
      BY <2>1, <2>2
    <2>4. ASSUME t[1] \in In(h) PROVE h.generation = Base.generation + 1
      <3> SUFFICES ASSUME h.generation # Base.generation + 1 PROVE FALSE
        BY Zenon
      <3>1. h.generation = Base.generation /\ Taking(h)
        BY <2>1, <2>4, Zenon
      <3>2. t \in Taken(h)
        BY <2>1, <2>4, <3>1, Zenon DEF Taken
      <3> QED BY <3>2, Zenon
    <2>5. Base.generation < Base.generation + 1
      BY <1>4
    <2> QED BY <2>1, <2>2, <2>3, <2>4, <2>5, Zenon
  <1>7. ASSUME NEW t \in spent
        PROVE  /\ t \in Nat \X Nat /\ t[1] \in 1 .. minted /\ t[1] \notin DOMAIN h.minted
               /\ t[1] \in In(h) => t[2] < h.generation
    <2>1. t \in Nat \X Nat /\ t[1] \in 1 .. minted /\ (t[1] \in In(Base) => t[2] < Base.generation)
      BY Zenon DEF TokenInv
    <2>2. t[2] \in Nat /\ (t[1] \in In(h) => t[2] < Base.generation)
      BY <2>1
    <2>3. Base.generation <= h.generation
      BY <1>4
    <2> QED BY <1>4, <2>1, <2>2, <2>3
  <1>8. TokenInv'
    <2>1. \A t \in spent' : /\ t \in Nat \X Nat /\ t[1] \in 1 .. minted' /\ t[1] \notin DOMAIN h.minted
                            /\ t[1] \in In(h) => t[2] < h.generation
      <3>1. \A n \in 1 .. minted : n \in 1 .. minted'
        BY DEF TokenInv
      <3> QED BY <1>3, <1>6, <1>7, <3>1, Zenon
    <2> QED BY <1>2, <2>1, Zenon DEF TokenInv
  <1>9. CASE Taken(Base) \subseteq Taken(h)
    <2>1. UNCHANGED spent
      BY <1>3, <1>9, Zenon
    <2>2. \A t \in Taken(h) : t \in Nat \X Nat /\ t \notin spent
      <3> SUFFICES ASSUME NEW t \in Taken(h) PROVE t \in Nat \X Nat /\ t \notin spent
        BY Zenon
      <3>1. t[1] \in In(h) /\ t[2] = h.generation /\ t = << t[1], t[2] >>
        BY <1>5, Zenon
      <3>2. t[1] \in Nat
        BY <3>1
      <3>3. ~(t[2] < h.generation)
        BY <1>4, <3>1
      <3>4. t \in Nat \X Nat
        BY <1>4, <3>1, <3>2
      <3> QED BY <1>7, <3>1, <3>3, <3>4, Zenon
    <2>3. \A s, t \in Taken(h) : s[2] = t[2]
      BY <1>5, Zenon
    <2> QED BY <1>1, <1>2, <1>8, <1>9, <2>1, <2>2, <2>3, Zenon DEF Tok!Next, Tok!Grant
  <1>10. CASE Taken(h) \subseteq Taken(Base)
    <2>1. Taken(h) = Taken(Base) \ (Taken(Base) \ Taken(h))
      BY <1>10, Zenon
    <2> QED BY <1>1, <1>2, <1>3, <1>8, <2>1, Zenon DEF Tok!Next, Tok!Revoke
  <1>11. Taken(h) \subseteq Taken(Base) \/ Taken(Base) \subseteq Taken(h)
    BY Zenon DEF Taken
  <1> QED BY <1>9, <1>10, <1>11, Zenon

\* What a step leaves of the group, its tokens, and who waits, but N.
Moves(N) ==
  /\ GroupInv' /\ TokenInv' /\ (Tok!Next \/ UNCHANGED << Good(group), spent >>)
  /\ group' = NoGroup \/ Follows(Base, group', N)

LEMMA StaysMoves ==
  ASSUME GroupInv, TokenInv, UNCHANGED << group, minted, swept >>, spent' = spent \/ Remember
  PROVE  Moves({})
  <1>1. spent' = spent
    BY Zenon DEF Remember
  <1>2. Base' = Base /\ Low' = Low /\ Good(group)' = Good(group)
    BY Zenon DEF Base, Low
  <1>3. group = NoGroup \/ Follows(Base, group, {})
    BY Zenon DEF Base, Follows
  <1>4. GroupInv' /\ TokenInv'
    BY <1>1, <1>2, Zenon DEF GroupInv, TokenInv
  <1> QED BY <1>1, <1>2, <1>3, <1>4, Zenon DEF Moves

LEMMA GoneMoves ==
  ASSUME GroupInv, TokenInv, group' = NoGroup, minted' = minted, Remember
  PROVE  Moves({})
  <1>1. Good(group)' = {} /\ Base' = NewGroup
    BY Zenon DEF Good, Base
  <1>2. spent' = spent \cup Good(group)
    BY <1>1, Zenon DEF Remember, Good
  <1>3. Tok!Next
    BY <1>1, <1>2, Zenon DEF Tok!Next, Tok!Revoke
  <1>4. \A t \in spent' : t \in Nat \X Nat /\ t[1] \in 1 .. minted
    <2>1. ASSUME NEW t \in Good(group) PROVE t \in Nat \X Nat /\ t[1] \in 1 .. minted
      <3>1. t \in Taken(Base) /\ IsGroup(Base)
        BY <2>1, BaseIs, Zenon
      <3>2. t \in In(Base) \X {Base.generation} /\ Base.generation \in Nat
        BY <3>1, Zenon DEF Taken, IsGroup, Shaped
      <3> QED BY <3>2 DEF TokenInv
    <2> QED BY <1>2, <2>1, Zenon DEF TokenInv
  <1>5. TokenInv'
    BY <1>1, <1>4, NewIsGroup, Zenon DEF TokenInv
  <1> QED BY <1>3, <1>5, Zenon DEF Moves, GroupInv

LEMMA TurnsMoves ==
  ASSUME GroupInv, TokenInv, NEW h, group' = h, Turns(Base, h), Timed(h, Low)', Remember,
         minted' \in {minted, minted + 1}
  PROVE  Moves({})
  <1>1. IsGroup(h) /\ Waiters(h) /\ Follows(Base, h, {})
    BY Zenon DEF Turns
  <1>2. In(h) \subseteq In(Base) /\ DOMAIN h.minted \subseteq DOMAIN Base.minted
    BY Zenon DEF Turns
  <1>3. minted' \in Nat /\ minted <= minted' /\ \A n \in 1 .. minted : n \in 1 .. minted'
    BY DEF TokenInv
  <1>4. TokenInv' /\ Tok!Next
    BY <1>1, <1>2, <1>3, TokensMove, Zenon DEF Turns, TokenInv
  <1> QED BY <1>1, <1>4, Zenon DEF Moves, GroupInv

LEMMA ClosesMoves ==
  ASSUME GroupInv, TokenInv, NEW h, group' = h, Closes(Base, h, {}), Timed(h, Low)', minted' = minted, Remember
  PROVE  Moves({})
  <1>1. IsGroup(h) /\ Waiters(h) /\ Follows(Base, h, {})
    BY Zenon DEF Closes
  <1>2. In(h) \subseteq In(Base) /\ DOMAIN h.minted \subseteq DOMAIN Base.minted
    BY Zenon DEF Closes
  <1>3. minted \in Nat /\ minted <= minted
    BY DEF TokenInv
  <1>4. TokenInv' /\ Tok!Next
    BY <1>1, <1>2, <1>3, TokensMove, Zenon DEF Closes, TokenInv
  <1> QED BY <1>1, <1>4, Zenon DEF Moves, GroupInv

\* A member joins the group as a request found it.
LEMMA JoinsMoves ==
  ASSUME GroupInv, TokenInv, NEW g, Turns(Base, g), In(g) = In(Base), Taking(Base) => Taking(g),
         NEW id, NEW h, group' = h, Joins(g, id, h), Timed(h, Low)', Remember,
         minted' \in Nat, minted <= minted', id \in 1 .. minted', id \notin DOMAIN g.minted,
         id \in In(Base) \/ \A t \in spent : t[1] # id
  PROVE  Moves({id})
  <1>1. IsGroup(h) /\ Waiters(h) /\ Follows(Base, h, {id})
    BY Zenon DEF Joins, Turns, Follows
  <1>2. /\ In(h) \subseteq In(Base) \cup {id} /\ DOMAIN h.minted \subseteq DOMAIN Base.minted
        /\ id \notin DOMAIN h.minted
    BY Zenon DEF Joins, Turns
  <1>3. \A n \in 1 .. minted : n \in 1 .. minted'
    BY DEF TokenInv
  <1>4. In(h) \subseteq 1 .. minted' /\ DOMAIN h.minted \subseteq 1 .. minted'
    BY <1>2, <1>3, Zenon DEF TokenInv
  <1>5. In(h) \cap DOMAIN h.minted = {} /\ In(Base) \cap DOMAIN h.minted = {}
    BY <1>2, Zenon DEF TokenInv
  <1>6. \A t \in spent : t[1] \notin DOMAIN h.minted /\ (t[1] \in In(h) => t[1] \in In(Base))
    BY <1>2, Zenon DEF TokenInv
  <1>7. \/ /\ h.generation = Base.generation /\ (Taking(Base) => Taking(h) \/ In(h) = {})
           /\ In(h) \subseteq In(Base) \/ In(Base) \subseteq In(h)
        \/ h.generation = Base.generation + 1 /\ ~Taking(h)
    BY Zenon DEF Joins, Turns, Taking
  <1>8. TokenInv' /\ Tok!Next
    BY <1>1, <1>4, <1>5, <1>6, <1>7, TokensMove, Zenon
  <1> QED BY <1>1, <1>8, Zenon DEF Moves, GroupInv

\* The same members, and one more id to come back with.
LEMMA MintsMoves ==
  ASSUME GroupInv, TokenInv, NEW g, Turns(Base, g), In(g) = In(Base), NEW h, group' = h, Minting(g, h),
         minted' = minted + 1, DOMAIN h.minted \subseteq DOMAIN g.minted \cup {minted + 1},
         Timed(h, Low)', Remember
  PROVE  Moves({})
  <1>1. Waiters(h) /\ IsGroup(h) /\ Follows(Base, h, {})
    BY Zenon DEF Turns, Minting, Waiters, Follows
  <1>2. minted' \in Nat /\ minted <= minted' /\ minted + 1 \in 1 .. minted' /\ ~(minted + 1 \in 1 .. minted)
    BY DEF TokenInv
  <1>3. \A n \in 1 .. minted : n \in 1 .. minted'
    BY DEF TokenInv
  <1>4. In(h) = In(Base) /\ DOMAIN h.minted \subseteq DOMAIN Base.minted \cup {minted + 1}
    BY Zenon DEF Turns, Minting
  <1>5. In(h) \subseteq 1 .. minted' /\ DOMAIN h.minted \subseteq 1 .. minted'
    BY <1>2, <1>3, <1>4, Zenon DEF TokenInv
  <1>6. In(h) \cap DOMAIN h.minted = {} /\ In(Base) \cap DOMAIN h.minted = {}
    BY <1>2, <1>4, Zenon DEF TokenInv
  <1>7. \A t \in spent : t[1] \notin DOMAIN h.minted /\ (t[1] \in In(h) => t[1] \in In(Base))
    BY <1>2, <1>4, Zenon DEF TokenInv
  <1>8. h.generation = Base.generation /\ (Taking(Base) => Taking(h) \/ In(h) = {})
    BY Zenon DEF Turns, Minting, Taking
  <1>9. TokenInv' /\ Tok!Next
    BY <1>1, <1>2, <1>4, <1>5, <1>6, <1>7, <1>8, TokensMove, Zenon
  <1> QED BY <1>1, <1>9, Zenon DEF Moves, GroupInv

\* Steps that nobody remembers change no token.
LEMMA SameTokens ==
  ASSUME GroupInv, NEW h, IsGroup(h), group' = h, In(h) = In(Base), h.state = Base.state,
         h.generation = Base.generation, spent' = spent
  PROVE  Remember
  <1>1. Good(group) = Taken(Base) /\ Good(group)' = Taken(h) /\ Good(h) = Taken(h)
    BY BaseIs, GoodIs, Zenon
  <1>2. Taken(h) = Taken(Base)
    BY Zenon DEF Taken, Taking
  <1> QED BY <1>1, <1>2, Zenon DEF Remember

-----------------------------------------------------------------------------
(* A tick. *)

LEMMA DownIs ==
  ASSUME NEW n \in Int, 0 <= n
  PROVE  Down(n) = n - 1
  <1>1. n # Never
    BY DEF Never
  <1>2. PICK S : S = { n - 1, -1 }
    BY Zenon
  <1>3. n - 1 \in S /\ \A y \in S : n - 1 >= y
    BY <1>2
  <1>4. Max(S) \in S /\ \A y \in S : Max(S) >= y
    <2>1. \E x \in S : \A y \in S : x >= y
      BY <1>3, Zenon
    <2> QED BY <2>1, Zenon DEF Max
  <1>5. S \subseteq Int
    BY <1>2
  <1>6. Max(S) = n - 1
    <2>1. PICK x : x = Max(S)
      BY Zenon
    <2>2. x \in Int /\ n - 1 >= x /\ x >= n - 1
      BY <1>3, <1>4, <1>5, <2>1, Zenon
    <2>3. x = n - 1
      BY <2>2
    <2> QED BY <2>1, <2>3, Zenon
  <1> QED BY <1>1, <1>2, <1>6, Zenon DEF Down

Ages(g, h) ==
  /\ IsGroup(h) /\ In(h) = In(g) /\ h.state = g.state /\ h.generation = g.generation
  /\ DOMAIN h.minted = DOMAIN g.minted /\ SameWaiters(g, h)
  /\ h.round.left = Down(g.round.left) /\ h.syncLeft = Down(g.syncLeft)

LEMMA AgedGives ==
  ASSUME NEW g, IsGroup(g)
  PROVE  Ages(g, Aged(g))
  <1> SUFFICES ASSUME NEW h, h = Aged(g) PROVE Ages(g, h)
    BY Zenon
  <1>1. PICK ms : ms = [ id \in In(g) |-> [ g.members[id] EXCEPT !.idle = Min({ g.members[id].idle + 1, SessionTimeout + 1 }) ] ]
    BY Zenon
  <1>2. PICK ids : ids = [ id \in DOMAIN g.minted |-> Min({ g.minted[id] + 1, MintedTtl }) ]
    BY Zenon
  <1>3. PICK a, b, s : a = Down(g.round.openIn) /\ b = Down(g.round.left) /\ s = Down(g.syncLeft)
    BY Zenon
  <1>4. PICK r : r = [ openIn |-> a, left |-> b ]
    BY Zenon
  <1>5. h = [ g EXCEPT !.round = r, !.syncLeft = s, !.minted = ids, !.members = ms ]
    <2>1. g # NoGroup
      BY GoodIs, Zenon
    <2>2. h = [ g EXCEPT !.round = [ openIn |-> Down(g.round.openIn), left |-> Down(g.round.left) ],
                         !.syncLeft = Down(g.syncLeft),
                         !.minted = [ id \in DOMAIN g.minted |-> Min({ g.minted[id] + 1, MintedTtl }) ],
                         !.members = [ id \in In(g) |->
                           [ g.members[id] EXCEPT !.idle = Min({ g.members[id].idle + 1, SessionTimeout + 1 }) ] ] ]
      BY <2>1 DEF Aged
    <2> QED BY <1>1, <1>2, <1>3, <1>4, <2>2, Zenon
  <1>6. r.left = b /\ r = [ openIn |-> r.openIn, left |-> r.left ]
    BY <1>4
  <1>7. /\ Shaped(h) /\ h.members = ms /\ h.minted = ids /\ h.round = r /\ h.syncLeft = s
        /\ h.state = g.state /\ h.generation = g.generation
    BY <1>5, <1>6, Zenon DEF IsGroup, Shaped
  <1>8. DOMAIN ms = In(g) /\ DOMAIN ids = DOMAIN g.minted
    BY <1>1, <1>2, Zenon
  <1>9. ASSUME NEW id \in In(g)
        PROVE  /\ IsMember(ms[id]) /\ ms[id].joinWaiter = g.members[id].joinWaiter
               /\ ms[id].syncWaiter = g.members[id].syncWaiter
    <2>1. PICK m : m = g.members[id] /\ IsMember(m)
      BY Zenon DEF IsGroup
    <2>2. PICK n : n = Min({ m.idle + 1, SessionTimeout + 1 })
      BY Zenon
    <2>3. ms[id] = [ m EXCEPT !.idle = n ]
      BY <1>1, <2>1, <2>2, Zenon
    <2> QED BY <2>1, <2>3, Zenon DEF IsMember
  <1>10. ms = [ id \in DOMAIN ms |-> ms[id] ]
    BY <1>1, Zenon
  <1>11. IsGroup(h) /\ In(h) = In(g) /\ SameWaiters(g, h)
    BY <1>7, <1>8, <1>9, <1>10, Zenon DEF IsGroup, In, SameWaiters
  <1> QED BY <1>3, <1>6, <1>7, <1>8, <1>11, Zenon DEF Ages

LEMMA TickMoves ==
  ASSUME GroupInv, TokenInv, Tick
  PROVE  /\ GroupInv' /\ TokenInv' /\ (Tok!Next \/ UNCHANGED << Good(group), spent >>)
         /\ group = NoGroup => group' = NoGroup
         /\ group # NoGroup => group' # NoGroup /\ Ages(group, group')
  <1>1. Low' = -1 /\ Low = 0 /\ minted' = minted /\ spent' = spent /\ group' = Aged(group)
    BY Zenon DEF Tick, Low
  <1>2. CASE group = NoGroup
    <2>1. group' = group
      BY <1>1, <1>2, Zenon DEF Aged
    <2>2. Base' = Base /\ Good(group)' = Good(group)
      BY <2>1, Zenon DEF Base
    <2> QED BY <1>1, <1>2, <2>1, <2>2, Zenon DEF GroupInv, TokenInv
  <1>3. CASE group # NoGroup
    <2>1. IsGroup(group) /\ Waiters(group) /\ Timed(group, 0) /\ Base = group
      BY <1>1, <1>3, Zenon DEF GroupInv, Base
    <2>2. PICK h : h = Aged(group)
      BY Zenon
    <2>3. Ages(group, h) /\ IsGroup(h) /\ h # NoGroup
      BY <2>1, <2>2, AgedGives, GoodIs, Zenon DEF Ages
    <2>4. Waiters(h)
      BY <2>1, <2>3, Zenon DEF Waiters, Ages, SameWaiters
    <2>5. Timed(h, -1)
      <3>1. ASSUME NEW n \in Int, 0 <= n PROVE Down(n) \in Int /\ -1 <= Down(n)
        <4>1. Down(n) = n - 1
          BY DownIs, <3>1, Zenon
        <4>2. n - 1 \in Int /\ -1 <= n - 1
          BY <3>1
        <4> QED BY <4>1, <4>2, Zenon
      <3> QED BY <2>1, <2>3, <3>1, Zenon DEF Timed, Ages
    <2>6. Remember
      BY <1>1, <2>1, <2>2, <2>3, SameTokens, Zenon DEF Ages
    <2>7. minted \in Nat /\ minted <= minted
      BY DEF TokenInv
    <2>8. TokenInv' /\ Tok!Next
      BY <1>1, <2>1, <2>2, <2>3, <2>6, <2>7, TokensMove, Zenon DEF Ages, TokenInv, Taking
    <2> QED BY <1>1, <1>3, <2>2, <2>3, <2>4, <2>5, <2>8, Zenon DEF GroupInv
  <1> QED BY <1>2, <1>3, Zenon

-----------------------------------------------------------------------------
(* The clients. *)

IsClient(k) == k = [ pc |-> k.pc, id |-> k.id, gen |-> k.gen, left |-> k.left ]

\* A parked request is the waiter its member holds, and outlasts its deadline
\* by the grace.
WaitsFor(k, g) ==
  /\ k.pc = "joining" => /\ g # NoGroup /\ k.id \in In(g) /\ g.members[k.id].joinWaiter
                         /\ k.left = g.round.left + Grace
  /\ k.pc = "syncing" => /\ g # NoGroup /\ k.id \in In(g) /\ g.members[k.id].syncWaiter
                         /\ k.left = g.syncLeft + Grace

ClientInv ==
  /\ \A c \in DOMAIN client : /\ IsClient(client[c]) /\ client[c].id \in 0 .. minted
                              /\ WaitsFor(client[c], group)
  /\ \A c, d \in DOMAIN client : c # d /\ client[c].id = client[d].id => client[c].id = NoId

\* An answer: the request waits no more.
Answered(k, m) == IsClient(m) /\ m.id \in {k.id, NoId} /\ m.pc \notin { "joining", "syncing" }

LEMMA AnswersGive ==
  ASSUME NEW k, NEW m, IsClient(m), m.pc \in { "joined", "rejoin", "member", "out", "gone", "judging" },
         m.id = k.id \/ m.id = NoId
  PROVE  Answered(k, m)
  <1>1. m.pc # "joining" /\ m.pc # "syncing"
    OBVIOUS
  <1> QED BY <1>1, Zenon DEF Answered

LEMMA AnsweredWaits ==
  ASSUME NEW k, NEW m, Answered(k, m), NEW g PROVE WaitsFor(m, g)
  BY Zenon DEF Answered, WaitsFor

\* Who is not told goes on waiting for the same.
LEMMA ToldGives ==
  ASSUME NEW d, IsClient(client[d]), WaitsFor(client[d], group), NEW h, NEW N,
         h = NoGroup \/ (group # NoGroup => IsGroup(group) /\ IsGroup(h) /\ Follows(group, h, N)),
         client[d].pc \in { "joining", "syncing" } => client[d].id \notin N
  PROVE  \/ Told(d, group, h) = client[d] /\ WaitsFor(client[d], h)
         \/ Answered(client[d], Told(d, group, h))
  <1> SUFFICES ASSUME NEW t, t = Told(d, group, h)
               PROVE  (t = client[d] /\ WaitsFor(client[d], h)) \/ Answered(client[d], t)
    BY Zenon
  <1>1. PICK k : k = client[d] /\ IsClient(k)
    BY Zenon
  <1>2. CASE k.pc \notin { "joining", "syncing" }
    <2>1. t = k
      BY <1>1, <1>2 DEF Told
    <2> QED BY <1>1, <1>2, <2>1, Zenon DEF WaitsFor
  <1>3. CASE k.pc = "joining"
    <2>0. group # NoGroup /\ k.id \in In(group) /\ group.members[k.id].joinWaiter /\ k.left = group.round.left + Grace
      BY <1>1, <1>3, Zenon DEF WaitsFor
    <2>1. CASE h # NoGroup /\ k.id \in In(h) /\ h.members[k.id].joinWaiter
      <3>1. t = k
        BY <1>1, <1>3, <2>1 DEF Told
      <3>2. h.round.left = group.round.left
        BY <1>1, <1>3, <2>0, <2>1, Zenon DEF Follows
      <3> QED BY <1>1, <1>3, <2>0, <2>1, <3>1, <3>2, Zenon DEF WaitsFor
    <2>2. CASE ~(h # NoGroup /\ k.id \in In(h) /\ h.members[k.id].joinWaiter)
      <3>1. t = [ k EXCEPT !.pc = "joined", !.gen = h.generation, !.left = Never ] \/ t = [ k EXCEPT !.pc = "rejoin", !.left = Never ]
        BY <1>1, <1>3, <2>0, <2>2 DEF Told
      <3>2. IsClient(t) /\ (t.pc = "joined" \/ t.pc = "rejoin") /\ t.id = k.id
        BY <1>1, <3>1, Zenon DEF IsClient
      <3>3. Answered(k, t)
        BY <3>2, AnswersGive, Zenon
      <3> QED BY <1>1, <3>3, Zenon
    <2> QED BY <2>1, <2>2, Zenon
  <1>4. CASE k.pc = "syncing"
    <2>0. group # NoGroup /\ k.id \in In(group) /\ group.members[k.id].syncWaiter /\ k.left = group.syncLeft + Grace
      BY <1>1, <1>4, Zenon DEF WaitsFor
    <2>1. CASE h # NoGroup /\ k.id \in In(h) /\ h.members[k.id].syncWaiter
      <3>1. t = k
        BY <1>1, <1>4, <2>1 DEF Told
      <3>2. h.syncLeft = group.syncLeft
        BY <1>1, <1>4, <2>0, <2>1, Zenon DEF Follows
      <3> QED BY <1>1, <1>4, <2>0, <2>1, <3>1, <3>2, Zenon DEF WaitsFor
    <2>2. CASE ~(h # NoGroup /\ k.id \in In(h) /\ h.members[k.id].syncWaiter)
      <3>1. \/ t = [ k EXCEPT !.pc = "member", !.left = Never ] \/ t = [ k EXCEPT !.pc = "rejoin", !.left = Never ]
            \/ t = [ k EXCEPT !.pc = "out", !.id = NoId, !.left = Never ]
        BY <1>1, <1>4, <2>0, <2>2 DEF Told
      <3>2. IsClient(t) /\ (t.pc = "member" \/ t.pc = "rejoin" \/ t.pc = "out") /\ (t.id = k.id \/ t.id = NoId)
        BY <1>1, <3>1, Zenon DEF IsClient
      <3>3. Answered(k, t)
        BY <3>2, AnswersGive, Zenon
      <3> QED BY <1>1, <3>3, Zenon
    <2> QED BY <2>1, <2>2, Zenon
  <1> QED BY <1>2, <1>3, <1>4, Zenon

\* What becomes of one client, whoever acts.
LEMMA ClientTold ==
  ASSUME GroupInv, TokenInv, ClientInv, NEW h, NEW N, h = NoGroup \/ (IsGroup(h) /\ Follows(Base, h, N)),
         NEW d \in DOMAIN client, client[d].id = NoId \/ client[d].id \notin N
  PROVE  LET t == Told(d, group, h) IN IsClient(t) /\ t.id \in {client[d].id, NoId} /\ WaitsFor(t, h)
  <1> SUFFICES ASSUME NEW t, t = Told(d, group, h)
               PROVE  IsClient(t) /\ t.id \in {client[d].id, NoId} /\ WaitsFor(t, h)
    BY Zenon
  <1>1. IsClient(client[d]) /\ WaitsFor(client[d], group)
    BY Zenon DEF ClientInv
  <1>2. group # NoGroup => IsGroup(group) /\ Base = group
    BY Zenon DEF GroupInv, Base
  <1>3. ASSUME client[d].pc \in { "joining", "syncing" } PROVE client[d].id \notin N
    <2>1. group # NoGroup /\ client[d].id \in In(group)
      BY <1>1, <1>3, Zenon DEF WaitsFor
    <2>2. client[d].id \in 1 .. minted
      BY <1>2, <2>1, Zenon DEF TokenInv
    <2>3. client[d].id # NoId
      BY <2>2 DEF TokenInv, NoId
    <2> QED BY <2>3, Zenon
  <1>4. \/ t = client[d] /\ WaitsFor(client[d], h)
        \/ Answered(client[d], t)
    BY <1>1, <1>2, <1>3, ToldGives, Zenon
  <1>5. CASE t = client[d] /\ WaitsFor(client[d], h)
    BY <1>1, <1>5, Zenon
  <1>6. CASE Answered(client[d], t)
    BY <1>6, AnsweredWaits, Zenon DEF Answered
  <1> QED BY <1>4, <1>5, <1>6, Zenon

LEMMA AllTold ==
  ASSUME GroupInv, TokenInv, ClientInv, minted' = minted, NEW h, group' = h,
         h = NoGroup \/ (IsGroup(h) /\ Follows(Base, h, {})),
         client' = [ c \in DOMAIN client |-> Told(c, group, h) ]
  PROVE  ClientInv'
  <1>1. ASSUME NEW d \in DOMAIN client
        PROVE  IsClient(client'[d]) /\ client'[d].id \in {client[d].id, NoId} /\ WaitsFor(client'[d], h)
    <2>1. PICK t : t = Told(d, group, h) /\ client'[d] = t
      BY Zenon
    <2>2. PICK N : N = {}
      BY Zenon
    <2>3. client[d].id \notin N /\ (h = NoGroup \/ (IsGroup(h) /\ Follows(Base, h, N)))
      BY <2>2, Zenon
    <2> QED BY <2>1, <2>3, ClientTold, Zenon
  <1>2. DOMAIN client' = DOMAIN client
    BY Zenon
  <1>3. NoId \in 0 .. minted
    BY DEF NoId, TokenInv
  <1>4. \A d \in DOMAIN client : client'[d].id \in 0 .. minted
    BY <1>1, <1>3, Zenon DEF ClientInv
  <1>5. \A c, d \in DOMAIN client : c # d /\ client'[c].id = client'[d].id => client'[c].id = NoId
    BY <1>1, Zenon DEF ClientInv
  <1> QED BY <1>1, <1>2, <1>4, <1>5, Zenon DEF ClientInv

LEMMA ClientMoves ==
  ASSUME GroupInv, TokenInv, ClientInv, minted' \in {minted, minted + 1}, NEW c \in DOMAIN client,
         NEW h, NEW k, Becomes(h, c, k), NEW N, N \subseteq {client[c].id, minted + 1},
         h = NoGroup \/ (IsGroup(h) /\ Follows(Base, h, N)),
         IsClient(k), WaitsFor(k, h),
         k.id \in {client[c].id, NoId} \/ (k.id = minted + 1 /\ minted' = minted + 1)
  PROVE  ClientInv'
  <1>1. group' = h /\ DOMAIN client' = DOMAIN client /\ client'[c] = k
        /\ \A d \in DOMAIN client : d # c => client'[d] = Told(d, group, h)
    BY Zenon DEF Becomes
  <1>2. minted + 1 \notin 0 .. minted /\ NoId \in 0 .. minted'
    BY DEF NoId, TokenInv
  <1>3. \A n \in 0 .. minted : n \in 0 .. minted'
    BY DEF TokenInv
  <1>4. ASSUME NEW d \in DOMAIN client, d # c
        PROVE  IsClient(client'[d]) /\ client'[d].id \in {client[d].id, NoId} /\ WaitsFor(client'[d], h)
    <2>1. client[d].id = NoId \/ client[d].id \notin N
      BY <1>2, <1>4, Zenon DEF ClientInv
    <2> QED BY <1>1, <1>4, <2>1, ClientTold, Zenon
  <1>5. ASSUME k.id = minted + 1, minted' = minted + 1 PROVE k.id \in 0 .. minted'
    BY <1>5 DEF TokenInv
  <1>6. \A d \in DOMAIN client : IsClient(client'[d]) /\ client'[d].id \in 0 .. minted' /\ WaitsFor(client'[d], h)
    BY <1>1, <1>2, <1>3, <1>4, <1>5, Zenon DEF ClientInv
  <1>7. \A d \in DOMAIN client : d # c /\ client'[c].id = client'[d].id => client'[c].id = NoId
    BY <1>1, <1>2, <1>4, Zenon DEF ClientInv
  <1>8. \A d, e \in DOMAIN client : d # e /\ client'[d].id = client'[e].id => client'[d].id = NoId
    BY <1>4, <1>7, Zenon DEF ClientInv
  <1> QED BY <1>1, <1>6, <1>8, Zenon DEF ClientInv

-----------------------------------------------------------------------------
(* The steps. *)

CoordInv == GroupInv /\ TokenInv /\ ClientInv

Steps == CoordInv' /\ (Tok!Next \/ UNCHANGED << Good(group), spent >>)

LEMMA ActorMoves ==
  ASSUME CoordInv, NEW c \in DOMAIN client, NEW h, NEW k, Becomes(h, c, k),
         NEW N, Moves(N), N \subseteq {client[c].id, minted + 1}, minted' \in {minted, minted + 1},
         IsClient(k), WaitsFor(k, h),
         k.id \in {client[c].id, NoId} \/ (k.id = minted + 1 /\ minted' = minted + 1)
  PROVE  Steps
  <1>1. group' = h
    BY Zenon DEF Becomes
  <1>2. h = NoGroup \/ (IsGroup(h) /\ Follows(Base, h, N))
    BY <1>1, Zenon DEF Moves, GroupInv
  <1>3. ClientInv'
    BY <1>2, ClientMoves, Zenon DEF CoordInv
  <1> QED BY <1>3, Zenon DEF Moves, Steps, CoordInv

\* A join, of an id that is a member's or was never one's.
LEMMA JoinAsSteps ==
  ASSUME CoordInv, NEW c \in DOMAIN client, client[c].pc \notin { "joining", "syncing" },
         NEW g, Turns(Base, g), In(g) = In(Base), Taking(Base) => Taking(g), Timed(g, Low),
         NEW id \in 1 .. minted', id \notin DOMAIN g.minted, id \in In(Base) \/ \A t \in spent : t[1] # id,
         (id = client[c].id /\ minted' = minted) \/ (id = minted + 1 /\ minted' = minted + 1),
         NEW offered, JoinAs(c, g, id, offered), Remember, swept' = swept
  PROVE  Steps
  <1>1. GroupInv /\ TokenInv /\ IsClient(client[c]) /\ Low' = Low /\ IsGroup(g) /\ Waiters(g) /\ Low \in {-1, 0}
    BY Zenon DEF CoordInv, ClientInv, Turns, Low
  <1>2. minted' \in {minted, minted + 1} /\ {} \subseteq {client[c].id, minted + 1} /\ {id} \subseteq {client[c].id, minted + 1}
    BY Zenon
  <1>3. PICK k : k = [ client[c] EXCEPT !.id = id ]
    BY Zenon
  <1>4. IsClient(k) /\ k.id = id
    BY <1>1, <1>3, Zenon DEF IsClient
  <1>5. ASSUME NEW m, m.id = id PROVE m.id \in {client[c].id, NoId} \/ (m.id = minted + 1 /\ minted' = minted + 1)
    BY <1>5, Zenon
  <1>6. CASE ~Compatible(g, id, offered)
    <2>1. Becomes(g, c, client[c])
      BY <1>6, Zenon DEF JoinAs
    <2>2. group' = g
      BY <2>1, Zenon DEF Becomes
    <2>3. Moves({})
      BY <1>1, <1>2, <2>2, TurnsMoves, Zenon
    <2>4. WaitsFor(client[c], g) /\ client[c].id \in {client[c].id, NoId}
      BY Zenon DEF WaitsFor
    <2> QED BY <1>1, <1>2, <2>1, <2>3, <2>4, ActorMoves, Zenon
  <1>7. CASE Compatible(g, id, offered) /\ Replays(g, id, offered)
    <2>1. PICK h : h = [ g EXCEPT !.members[id].idle = 0 ]
      BY Zenon
    <2>2. PICK m : m = [ k EXCEPT !.pc = "joined", !.gen = g.generation, !.left = Never ]
      BY Zenon
    <2>3. Becomes(h, c, m)
      BY <1>3, <1>7, <2>1, <2>2, Zenon DEF JoinAs
    <2>4. Alike(g, h)
      BY <1>1, <1>7, <2>1, IdleGives, Zenon DEF Replays
    <2>5. Turns(Base, h) /\ Timed(h, Low)
      BY <1>1, <2>4, AlikeTurns, TurnsOn, Zenon DEF Alike, Frame, Timed
    <2>6. group' = h
      BY <2>3, Zenon DEF Becomes
    <2>7. Moves({})
      BY <1>1, <1>2, <2>5, <2>6, TurnsMoves, Zenon
    <2>8. IsClient(m) /\ m.id = id /\ m.pc = "joined"
      BY <1>4, <2>2, Zenon DEF IsClient
    <2>9. WaitsFor(m, h)
      BY <2>8, AnswersGive, AnsweredWaits, Zenon
    <2> QED BY <1>2, <1>5, <2>3, <2>7, <2>8, <2>9, ActorMoves, Zenon
  <1>8. CASE Compatible(g, id, offered) /\ ~Replays(g, id, offered)
    <2>1. PICK h : h = MaybeComplete(Admitted(g, id, offered))
      BY Zenon
    <2>2. PICK m : m = CASE h.state = "Completing" -> [ k EXCEPT !.pc = "joined", !.gen = h.generation ]
                         [] h.state = "Preparing"  -> [ k EXCEPT !.pc = "joining", !.left = h.round.left + Grace ]
                         [] OTHER                  -> Again(k)
      BY Zenon
    <2>3. Becomes(h, c, m)
      BY <1>3, <1>8, <2>1, <2>2, Zenon DEF JoinAs
    <2>4. Joins(g, id, h) /\ Timed(h, Low)
      BY <1>1, <2>1, JoinGives, Zenon
    <2>5. group' = h
      BY <2>3, Zenon DEF Becomes
    <2>6. minted' \in Nat /\ minted <= minted'
      BY <1>1 DEF TokenInv
    <2>7. Moves({id})
      BY <1>1, <2>4, <2>5, <2>6, JoinsMoves, Zenon
    <2>8. CASE h.state = "Preparing"
      <3>1. m = [ k EXCEPT !.pc = "joining", !.left = h.round.left + Grace ]
        BY <2>2, <2>8
      <3>2. IsClient(m) /\ m.id = id /\ m.pc = "joining" /\ m.left = h.round.left + Grace
        BY <1>4, <3>1, Zenon DEF IsClient
      <3>3. id \in In(h) /\ h.members[id].joinWaiter
        BY <2>4, <2>8, Zenon DEF Joins, Taking
      <3>4. h # NoGroup
        BY <2>4, GoodIs, Zenon DEF Joins
      <3>5. WaitsFor(m, h)
        BY <3>2, <3>3, <3>4, Zenon DEF WaitsFor
      <3> QED BY <1>2, <1>5, <2>3, <2>7, <3>2, <3>5, ActorMoves, Zenon
    <2>9. CASE h.state # "Preparing"
      <3>1. m = [ k EXCEPT !.pc = "joined", !.gen = h.generation ] \/ m = [ k EXCEPT !.pc = "rejoin", !.left = Never ]
        BY <2>2, <2>9 DEF Again
      <3>2. IsClient(m) /\ m.id = id /\ (m.pc = "joined" \/ m.pc = "rejoin")
        BY <1>4, <3>1, Zenon DEF IsClient
      <3>3. WaitsFor(m, h)
        BY <3>2, AnswersGive, AnsweredWaits, Zenon
      <3> QED BY <1>2, <1>5, <2>3, <2>7, <3>2, <3>3, ActorMoves, Zenon
    <2> QED BY <2>8, <2>9, Zenon
  <1> QED BY <1>6, <1>7, <1>8, Zenon

\* The group a join finds: the same, less the minted ids that lapsed.
LEMMA FoundIs ==
  ASSUME GroupInv
  PROVE  /\ Turns(Base, Found) /\ In(Found) = In(Base) /\ (Taking(Base) => Taking(Found)) /\ Timed(Found, Low)
         /\ DOMAIN Found.minted \subseteq DOMAIN Base.minted
  <1>1. IsGroup(Base) /\ Waiters(Base) /\ Timed(Base, Low)
    BY BaseIs, Zenon
  <1>2. Found = Fresh(Base)
    BY Zenon DEF Found, Base
  <1>3. Minting(Base, Found) /\ DOMAIN Found.minted \subseteq DOMAIN Base.minted
    BY <1>1, <1>2, FreshGives, Zenon
  <1> QED BY <1>1, <1>3, MintingTurns, Zenon DEF Minting, Taking, Timed

\* A step that changes nobody's wait, and answers c.
LEMMA AnswerSteps ==
  ASSUME CoordInv, NEW c \in DOMAIN client, NEW h, NEW m, Becomes(h, c, m), Moves({}),
         minted' \in {minted, minted + 1}, IsClient(m),
         m.pc \in { "joined", "rejoin", "member", "out", "gone", "judging" },
         m.id \in {client[c].id, NoId} \/ (m.id = minted + 1 /\ minted' = minted + 1)
  PROVE  Steps
  <1>1. {} \subseteq {client[c].id, minted + 1}
    BY Zenon
  <1>2. m.pc # "joining" /\ m.pc # "syncing"
    OBVIOUS
  <1>3. WaitsFor(m, h)
    BY <1>2, Zenon DEF WaitsFor
  <1> QED BY <1>1, <1>3, ActorMoves, Zenon

LEMMA FirstJoinSteps ==
  ASSUME CoordInv, NEW c \in DOMAIN client, NEW offered, FirstJoin(c, offered)
  PROVE  Steps
  <1>1. GroupInv /\ TokenInv /\ IsClient(client[c]) /\ Low' = Low /\ Remember /\ swept' = swept /\ client[c].pc = "out"
    BY Zenon DEF CoordInv, ClientInv, FirstJoin, Low
  <1>2. PICK g : g = Found
    BY Zenon
  <1>3. /\ Turns(Base, g) /\ In(g) = In(Base) /\ (Taking(Base) => Taking(g)) /\ Timed(g, Low) /\ Timed(g, Low)'
        /\ DOMAIN g.minted \subseteq DOMAIN Base.minted /\ IsGroup(g)
    BY <1>1, <1>2, FoundIs, Zenon DEF Turns
  <1>4. CASE Becomes(Found, c, client[c]) /\ UNCHANGED minted
    <2>1. Becomes(g, c, client[c]) /\ group' = g /\ minted' \in {minted, minted + 1}
      BY <1>2, <1>4, Zenon DEF Becomes
    <2>2. Moves({})
      BY <1>1, <1>3, <2>1, TurnsMoves, Zenon
    <2> QED BY <1>1, <2>1, <2>2, AnswerSteps, Zenon
  <1>5. CASE /\ minted' = minted + 1
             /\ Becomes([ Found EXCEPT !.minted = Put(@, minted + 1, 0) ], c,
                        [ client[c] EXCEPT !.pc = "rejoin", !.id = minted + 1 ])
    <2>1. PICK ids : ids = Put(g.minted, minted + 1, 0)
      BY Zenon
    <2>2. PICK h : h = [ g EXCEPT !.minted = ids ]
      BY Zenon
    <2>3. PICK m : m = [ client[c] EXCEPT !.pc = "rejoin", !.id = minted + 1 ]
      BY Zenon
    <2>4. Becomes(h, c, m) /\ group' = h
      BY <1>2, <1>5, <2>1, <2>2, <2>3, Zenon DEF Becomes
    <2>5. Minting(g, h) /\ h.minted = ids /\ DOMAIN ids = DOMAIN g.minted \cup {minted + 1}
      <3>1. DOMAIN ids = DOMAIN g.minted \cup {minted + 1}
        BY <2>1, Zenon DEF Put
      <3>2. Minting(g, [ g EXCEPT !.minted = ids ]) /\ [ g EXCEPT !.minted = ids ].minted = ids
        BY <1>3, MintingGives, Zenon
      <3> QED BY <2>2, <3>1, <3>2, Zenon
    <2>6. Timed(h, Low)'
      BY <1>1, <1>3, <2>5, Zenon DEF Timed, Minting
    <2>7. Moves({})
      BY <1>1, <1>3, <1>5, <2>4, <2>5, <2>6, MintsMoves, Zenon
    <2>8. IsClient(m) /\ m.pc = "rejoin" /\ m.id = minted + 1
      BY <1>1, <2>3, Zenon DEF IsClient
    <2> QED BY <1>5, <2>4, <2>7, <2>8, AnswerSteps, Zenon
  <1>6. CASE minted' = minted + 1 /\ JoinAs(c, Found, minted + 1, offered)
    <2>1. PICK id : id = minted + 1
      BY Zenon
    <2>2. id \in 1 .. minted' /\ id \notin 1 .. minted
      BY <1>1, <1>6, <2>1 DEF TokenInv
    <2>3. id \notin DOMAIN g.minted /\ \A t \in spent : t[1] # id
      BY <1>1, <1>3, <2>2, Zenon DEF TokenInv
    <2>4. client[c].pc \notin { "joining", "syncing" }
      BY <1>1
    <2>5. JoinAs(c, g, id, offered)
      BY <1>2, <1>6, <2>1, Zenon
    <2> QED BY <1>1, <1>3, <1>6, <2>1, <2>2, <2>3, <2>4, <2>5, JoinAsSteps, Zenon
  <1> QED BY <1>4, <1>5, <1>6, Zenon DEF FirstJoin

LEMMA RejoinSteps ==
  ASSUME CoordInv, NEW c \in DOMAIN client, NEW offered, Rejoin(c, offered)
  PROVE  Steps
  <1>1. /\ GroupInv /\ TokenInv /\ IsClient(client[c]) /\ Low' = Low /\ Remember /\ swept' = swept
        /\ client[c].pc = "rejoin" /\ minted' = minted
    BY Zenon DEF CoordInv, ClientInv, Rejoin, Low
  <1>2. PICK g : g = Found
    BY Zenon
  <1>3. /\ Turns(Base, g) /\ In(g) = In(Base) /\ (Taking(Base) => Taking(g)) /\ Timed(g, Low) /\ Timed(g, Low)'
        /\ DOMAIN g.minted \subseteq DOMAIN Base.minted /\ IsGroup(g) /\ Waiters(g)
    BY <1>1, <1>2, FoundIs, Zenon DEF Turns
  <1>4. PICK id : id = client[c].id
    BY Zenon
  <1>5. PICK ids : ids = Restrict(g.minted, DOMAIN g.minted \ {id})
    BY Zenon
  <1>6. PICK b : b = [ g EXCEPT !.minted = ids ]
    BY Zenon
  <1>7. Minting(g, b) /\ b.minted = ids /\ DOMAIN ids = DOMAIN g.minted \ {id} /\ IsGroup(b)
    <2>1. DOMAIN ids = DOMAIN g.minted \ {id}
      BY <1>5, Zenon DEF Restrict
    <2>2. Minting(g, [ g EXCEPT !.minted = ids ]) /\ [ g EXCEPT !.minted = ids ].minted = ids
      BY <1>3, MintingGives, Zenon
    <2>3. Minting(g, b) /\ b.minted = ids
      BY <1>6, <2>2, Zenon
    <2> QED BY <2>1, <2>3, Zenon DEF Minting
  <1>8. /\ Turns(Base, b) /\ In(b) = In(Base) /\ (Taking(Base) => Taking(b)) /\ Timed(b, Low) /\ Timed(b, Low)'
    <2>1. Turns(g, b)
      BY <1>3, <1>7, MintingTurns, Zenon
    <2> QED BY <1>1, <1>3, <1>7, <2>1, TurnsOn, Zenon DEF Minting, Timed, Taking
  <1>9. client[c].pc \notin { "joining", "syncing" } /\ minted' \in {minted, minted + 1}
    BY <1>1
  <1>10. b = [ Found EXCEPT !.minted = Restrict(@, DOMAIN @ \ {client[c].id}) ]
    BY <1>2, <1>4, <1>5, <1>6, Zenon
  <1>11. CASE id \in In(g) /\ JoinAs(c, g, id, offered)
    <2>1. id \in 1 .. minted' /\ id \notin DOMAIN g.minted /\ id \in In(Base)
      BY <1>1, <1>3, <1>11, Zenon DEF TokenInv
    <2> QED BY <1>1, <1>3, <1>4, <1>9, <1>11, <2>1, JoinAsSteps, Zenon
  <1>12. CASE Becomes(g, c, Lost(client[c]))
    <2>1. PICK m : m = [ client[c] EXCEPT !.pc = "out", !.id = NoId, !.left = Never ]
      BY Zenon
    <2>2. Becomes(g, c, m) /\ group' = g
      BY <1>12, <2>1, Zenon DEF Becomes, Lost
    <2>3. Moves({})
      BY <1>1, <1>3, <1>9, <2>2, TurnsMoves, Zenon
    <2>4. IsClient(m) /\ m.pc = "out" /\ m.id = NoId
      BY <1>1, <2>1, Zenon DEF IsClient
    <2> QED BY <1>9, <2>2, <2>3, <2>4, AnswerSteps, Zenon
  <1>13. CASE Becomes(b, c, client[c])
    <2>1. group' = b
      BY <1>13, Zenon DEF Becomes
    <2>2. Moves({})
      BY <1>1, <1>8, <1>9, <2>1, TurnsMoves, Zenon
    <2> QED BY <1>1, <1>9, <1>13, <2>2, AnswerSteps, Zenon
  <1>14. CASE id \in DOMAIN g.minted /\ JoinAs(c, b, id, offered)
    <2>1. id \in 1 .. minted' /\ id \notin DOMAIN b.minted /\ \A t \in spent : t[1] # id
      BY <1>1, <1>3, <1>7, <1>14, Zenon DEF TokenInv
    <2> QED BY <1>1, <1>4, <1>8, <1>9, <1>14, <2>1, JoinAsSteps, Zenon
  <1>15. \/ id \in In(g) /\ JoinAs(c, g, id, offered)
         \/ Becomes(g, c, Lost(client[c]))
         \/ Becomes(b, c, client[c])
         \/ id \in DOMAIN g.minted /\ JoinAs(c, b, id, offered)
    BY <1>2, <1>4, <1>10, Zenon DEF Rejoin
  <1> QED BY <1>11, <1>12, <1>13, <1>14, <1>15, Zenon

\* The group stays as it is.
LEMMA KeepSteps ==
  ASSUME CoordInv, NEW c \in DOMAIN client, NEW m, Becomes(group, c, m), UNCHANGED << minted, swept >>,
         spent' = spent \/ Remember, IsClient(m), m.id \in {client[c].id, NoId},
         m.pc \in { "joined", "rejoin", "member", "out", "gone", "judging" }
  PROVE  Steps
  <1>1. UNCHANGED << group, minted, swept >> /\ minted' \in {minted, minted + 1}
    BY Zenon DEF Becomes
  <1>2. Moves({})
    BY <1>1, StaysMoves, Zenon DEF CoordInv
  <1> QED BY <1>1, <1>2, AnswerSteps, Zenon

\* The group turns, within its generation.
LEMMA TurnSteps ==
  ASSUME CoordInv, NEW c \in DOMAIN client, group # NoGroup, NEW h, NEW m, Becomes(h, c, m),
         Turns(group, h), Timed(h, Low), UNCHANGED << minted, swept >>, Remember,
         IsClient(m), m.id \in {client[c].id, NoId},
         m.pc \in { "joined", "rejoin", "member", "out", "gone", "judging" }
  PROVE  Steps
  <1>1. group' = h /\ minted' \in {minted, minted + 1} /\ Timed(h, Low)' /\ Base = group
    BY Zenon DEF Becomes, Low, Base
  <1>2. Moves({})
    BY <1>1, TurnsMoves, Zenon DEF CoordInv
  <1> QED BY <1>1, <1>2, AnswerSteps, Zenon

\* The answers a client may get.
LEMMA LostAgain ==
  ASSUME NEW k, IsClient(k)
  PROVE  /\ IsClient(Lost(k)) /\ Lost(k).pc = "out" /\ Lost(k).id = NoId
         /\ IsClient(Again(k)) /\ Again(k).pc = "rejoin" /\ Again(k).id = k.id
  <1>1. PICK l, a : l = Lost(k) /\ a = Again(k)
    BY Zenon
  <1>2. IsClient(l) /\ l.pc = "out" /\ l.id = NoId
    BY <1>1, Zenon DEF Lost, IsClient
  <1>3. IsClient(a) /\ a.pc = "rejoin" /\ a.id = k.id
    BY <1>1, Zenon DEF Again, IsClient
  <1> QED BY <1>1, <1>2, <1>3, Zenon

LEMMA AssignmentRefusedSteps ==
  ASSUME CoordInv, NEW c \in DOMAIN client, AssignmentRefused(c)
  PROVE  Steps
  <1>1. Remember /\ UNCHANGED << minted, swept >> /\ IsClient(client[c]) /\ GroupInv
    BY Zenon DEF AssignmentRefused, CoordInv, ClientInv
  <1>2. PICK m : m = Again(client[c])
    BY Zenon
  <1>3. IsClient(m) /\ m.pc = "rejoin" /\ m.id = client[c].id
    BY <1>1, <1>2, LostAgain, Zenon
  <1>4. CASE Becomes(group, c, m)
    BY <1>1, <1>3, <1>4, KeepSteps, Zenon
  <1>5. CASE Leads(c) /\ Becomes(BeginRound(OutOfRound(group), FALSE), c, m)
    <2>1. group # NoGroup /\ IsGroup(group) /\ Waiters(group) /\ group.state = "Completing"
      BY <1>1, <1>5, Zenon DEF Leads, GroupInv
    <2>2. PICK g : g = OutOfRound(group)
      BY Zenon
    <2>3. Alike(group, g) /\ IsGroup(g) /\ g.state = "Completing"
      BY <2>1, <2>2, OutOfRoundGives, Zenon DEF Alike, Frame
    <2>4. PICK h : h = BeginRound(g, FALSE)
      BY Zenon
    <2>5. Begun(g, h)
      <3>1. g.state # "Preparing" /\ FALSE \in BOOLEAN
        BY <2>3
      <3> QED BY <2>3, <2>4, <3>1, BeginRoundGives, Zenon
    <2>6. Turns(group, g) /\ Waiters(g)
      BY <2>1, <2>3, AlikeTurns, Zenon DEF Turns
    <2>7. Turns(group, h)
      <3>1. g.state # "Preparing"
        BY <2>3
      <3> QED BY <2>5, <2>6, <3>1, BegunTurns, TurnsOn, Zenon
    <2>8. Timed(h, Low)
      <3>1. RebalanceTimeout \in Int /\ -1 <= RebalanceTimeout /\ 0 <= RebalanceTimeout
        BY TimesAssumption
      <3>2. Low \in {-1, 0} /\ h.state = "Preparing" /\ h.round.left = RebalanceTimeout
        BY <2>5, Zenon DEF Low, Begun
      <3>3. h.state # "Completing"
        BY <3>2
      <3> QED BY <3>1, <3>2, <3>3, Zenon DEF Timed
    <2> QED BY <1>1, <1>3, <1>5, <2>1, <2>2, <2>4, <2>7, <2>8, TurnSteps, Zenon
  <1> QED BY <1>2, <1>4, <1>5, Zenon DEF AssignmentRefused

LEMMA HeartbeatSteps ==
  ASSUME CoordInv, NEW c \in DOMAIN client, Heartbeat(c)
  PROVE  Steps
  <1>1. spent' = spent /\ UNCHANGED << minted, swept >> /\ IsClient(client[c]) /\ GroupInv /\ client[c].pc \in { "joined", "member" }
    BY Zenon DEF Heartbeat, CoordInv, ClientInv
  <1>2. PICK a, l : a = Again(client[c]) /\ l = Lost(client[c])
    BY Zenon
  <1>3. IsClient(a) /\ a.pc = "rejoin" /\ a.id = client[c].id /\ IsClient(l) /\ l.pc = "out" /\ l.id = NoId
    BY <1>1, <1>2, LostAgain, Zenon
  <1>4. CASE Becomes(group, c, a) \/ Becomes(group, c, l)
    BY <1>1, <1>3, <1>4, KeepSteps, Zenon
  <1>5. ASSUME NEW m \in {client[c], a}, group # NoGroup, client[c].id \in In(group),
               Becomes([ group EXCEPT !.members[client[c].id].idle = 0 ], c, m)
        PROVE  Steps
    <2>1. IsGroup(group) /\ Waiters(group) /\ Timed(group, Low) /\ Base = group
      BY <1>1, <1>5, Zenon DEF GroupInv, Base
    <2>2. PICK h : h = [ group EXCEPT !.members[client[c].id].idle = 0 ]
      BY Zenon
    <2>3. Alike(group, h) /\ group' = h
      BY <1>5, <2>1, <2>2, IdleGives, Zenon DEF Becomes
    <2>4. Turns(group, h) /\ Timed(h, Low)
      BY <2>1, <2>3, AlikeTurns, Zenon DEF Alike, Frame, Timed
    <2>5. Remember
      BY <1>1, <2>1, <2>3, SameTokens, Zenon DEF Alike, Frame
    <2> QED BY <1>1, <1>3, <1>5, <2>2, <2>4, <2>5, TurnSteps, Zenon
  <1> QED BY <1>2, <1>4, <1>5, Zenon DEF Heartbeat

LEMMA LeaveSteps ==
  ASSUME CoordInv, NEW c \in DOMAIN client, Leave(c)
  PROVE  Steps
  <1>1. Remember /\ UNCHANGED << minted, swept >> /\ IsClient(client[c]) /\ GroupInv
    BY Zenon DEF Leave, Disturb, CoordInv, ClientInv
  <1>2. PICK l : l = Lost(client[c])
    BY Zenon
  <1>3. PICK m : m = [ l EXCEPT !.pc = "gone" ]
    BY Zenon
  <1>4. IsClient(l) /\ l.id = NoId
    BY <1>1, <1>2, LostAgain, Zenon
  <1>5. IsClient(m) /\ m.pc = "gone" /\ m.id = NoId
    BY <1>3, <1>4, Zenon DEF IsClient
  <1>6. CASE Becomes(group, c, m)
    BY <1>1, <1>5, <1>6, KeepSteps, Zenon
  <1>7. CASE group # NoGroup /\ Becomes(MemberLeft(Less(group, {client[c].id})), c, m)
    <2>1. IsGroup(group) /\ Waiters(group) /\ Timed(group, Low)
      BY <1>1, <1>7, Zenon DEF GroupInv
    <2>2. PICK g : g = Less(group, {client[c].id})
      BY Zenon
    <2>3. PICK h : h = MemberLeft(g)
      BY Zenon
    <2>4. Dropped(group, {client[c].id}, g) /\ IsGroup(g)
      BY <2>1, <2>2, LessGives, ZenonT(20) DEF Dropped
    <2>5. Turns(group, g) /\ Waiters(g) /\ Timed(g, Low)
      <3>1. Turns(group, g)
        BY <2>1, <2>4, DroppedTurns, Zenon
      <3>2. Timed(g, Low)
        BY <2>1, <2>4, Zenon DEF Dropped, Frame, Timed
      <3> QED BY <3>1, <3>2, Zenon DEF Turns
    <2>6. Unmanned(g, h)
      BY <2>3, <2>4, MemberLeftGives, Zenon
    <2>7. Turns(group, h)
      BY <2>5, <2>6, UnmannedTurns, TurnsOn, Zenon
    <2>8. Timed(h, Low)
      <3>1. RebalanceTimeout \in Int /\ -1 <= RebalanceTimeout /\ 0 <= RebalanceTimeout
        BY TimesAssumption
      <3>2. Low \in {-1, 0}
        BY Zenon DEF Low
      <3>3. "Empty" # "Preparing" /\ "Empty" # "Completing" /\ "Preparing" # "Completing"
        OBVIOUS
      <3> QED BY <2>5, <2>6, <3>1, <3>2, <3>3, Zenon DEF Timed, Unmanned, Begun
    <2> QED BY <1>1, <1>5, <1>7, <2>2, <2>3, <2>7, <2>8, TurnSteps, Zenon
  <1> QED BY <1>2, <1>3, <1>6, <1>7, Zenon DEF Leave

\* A follower's sync is parked: it waits for the group's own deadline.
LEMMA ParkSteps ==
  ASSUME CoordInv, NEW c \in DOMAIN client, group # NoGroup, client[c].id \in In(group),
         group.state = "Completing", Remember, UNCHANGED << minted, swept >>,
         Becomes([ group EXCEPT !.members[client[c].id].idle = 0, !.members[client[c].id].syncWaiter = TRUE ], c,
                 [ client[c] EXCEPT !.pc = "syncing", !.left = group.syncLeft + Grace ])
  PROVE  Steps
  <1>1. GroupInv /\ TokenInv /\ IsClient(client[c]) /\ IsGroup(group) /\ Waiters(group) /\ Timed(group, Low) /\ Base = group
    BY Zenon DEF CoordInv, GroupInv, ClientInv, Base
  <1>2. PICK id : id = client[c].id
    BY Zenon
  <1>3. PICK h : h = [ group EXCEPT !.members[client[c].id].idle = 0, !.members[client[c].id].syncWaiter = TRUE ]
    BY Zenon
  <1>4. PICK m : m = [ client[c] EXCEPT !.pc = "syncing", !.left = group.syncLeft + Grace ]
    BY Zenon
  <1>5. Becomes(h, c, m) /\ group' = h
    <2>1. Becomes(h, c, m)
      BY <1>3, <1>4, Zenon
    <2> QED BY <2>1, Zenon DEF Becomes
  <1>6. /\ IsGroup(h) /\ In(h) = In(group) /\ Frame(group, h) /\ h.members[id].syncWaiter
        /\ h.members[id].joinWaiter = group.members[id].joinWaiter
        /\ \A x \in In(h) : x # id => h.members[x] = group.members[x]
    <2>1. Parks(group, client[c].id, h)
      BY <1>1, <1>3, ParkGives, Zenon
    <2> QED BY <1>2, <2>1, Zenon DEF Parks
  <1>7. Waiters(h) /\ Follows(group, h, {id}) /\ Timed(h, Low)
    <2>1. Waiters(h)
      BY <1>1, <1>2, <1>6, Zenon DEF Waiters, Frame
    <2>2. Follows(group, h, {id})
      BY <1>6, Zenon DEF Follows, Frame
    <2>3. Timed(h, Low)
      BY <1>1, <1>6, Zenon DEF Timed, Frame
    <2> QED BY <2>1, <2>2, <2>3, Zenon
  <1>8. TokenInv' /\ Tok!Next
    <2>1. minted' \in Nat /\ minted <= minted' /\ minted' = minted
      BY <1>1 DEF TokenInv
    <2>2. h.generation = group.generation /\ h.minted = group.minted /\ h.state = group.state
      BY <1>6, Zenon DEF Frame
    <2>3. Taking(group) => Taking(h)
      BY <2>2, Zenon DEF Taking
    <2>4. /\ In(h) \subseteq 1 .. minted' /\ DOMAIN h.minted \subseteq 1 .. minted'
          /\ In(h) \cap DOMAIN h.minted = {} /\ In(group) \cap DOMAIN h.minted = {}
          /\ \A t \in spent : t[1] \notin DOMAIN h.minted /\ (t[1] \in In(h) => t[1] \in In(group))
      BY <1>1, <1>6, <2>1, <2>2, Zenon DEF TokenInv
    <2>5. In(h) \subseteq In(group)
      BY <1>6, Zenon
    <2> QED BY <1>1, <1>5, <1>6, <2>1, <2>2, <2>3, <2>4, <2>5, TokensMove, Zenon
  <1>9. Moves({id})
    <2>1. Low' = Low
      BY Zenon DEF Low
    <2> QED BY <1>1, <1>5, <1>6, <1>7, <1>8, <2>1, Zenon DEF Moves, GroupInv
  <1>10. IsClient(m) /\ m.id = id /\ m.pc = "syncing" /\ m.left = h.syncLeft + Grace
    BY <1>1, <1>2, <1>4, <1>6, Zenon DEF IsClient, Frame
  <1>11. WaitsFor(m, h)
    <2>1. h # NoGroup
      BY <1>6, GoodIs, Zenon
    <2>2. m.pc # "joining"
      BY <1>10
    <2> QED BY <1>2, <1>6, <1>10, <2>1, <2>2, Zenon DEF WaitsFor
  <1>12. {id} \subseteq {client[c].id, minted + 1} /\ minted' \in {minted, minted + 1} /\ m.id \in {client[c].id, NoId}
    BY <1>2, <1>10, Zenon
  <1> QED BY <1>5, <1>9, <1>10, <1>11, <1>12, ActorMoves, Zenon

LEMMA SyncSteps ==
  ASSUME CoordInv, NEW c \in DOMAIN client, Sync(c)
  PROVE  Steps
  <1>1. Remember /\ UNCHANGED << minted, swept >> /\ IsClient(client[c]) /\ GroupInv /\ SyncAnswered(c)
    BY Zenon DEF Sync, CoordInv, ClientInv
  <1>2. PICK a, l : a = Again(client[c]) /\ l = Lost(client[c])
    BY Zenon
  <1>3. PICK m : m = [ client[c] EXCEPT !.pc = "member" ]
    BY Zenon
  <1>4. /\ IsClient(a) /\ a.pc = "rejoin" /\ a.id = client[c].id /\ IsClient(l) /\ l.pc = "out" /\ l.id = NoId
    BY <1>1, <1>2, LostAgain, Zenon
  <1>5. IsClient(m) /\ m.pc = "member" /\ m.id = client[c].id
    BY <1>1, <1>3, Zenon DEF IsClient
  <1>6. CASE Becomes(group, c, a) \/ Becomes(group, c, l)
    BY <1>1, <1>4, <1>6, KeepSteps, Zenon
  <1>7. CASE group # NoGroup /\ client[c].id \in In(group)
             /\ Becomes([ group EXCEPT !.members[client[c].id].idle = 0 ], c, m)
    <2>1. IsGroup(group) /\ Waiters(group) /\ Timed(group, Low)
      BY <1>1, <1>7, Zenon DEF GroupInv
    <2>2. PICK h : h = [ group EXCEPT !.members[client[c].id].idle = 0 ]
      BY Zenon
    <2>3. Alike(group, h)
      BY <1>7, <2>1, <2>2, IdleGives, Zenon
    <2>4. Turns(group, h) /\ Timed(h, Low)
      BY <2>1, <2>3, AlikeTurns, Zenon DEF Alike, Frame, Timed
    <2> QED BY <1>1, <1>5, <1>7, <2>2, <2>4, TurnSteps, Zenon
  <1>8. CASE group # NoGroup /\ group.state = "Completing" /\ Becomes(Applied(group), c, m)
    <2>1. IsGroup(group) /\ Waiters(group)
      BY <1>1, <1>8, Zenon DEF GroupInv
    <2>2. PICK h : h = Applied(group)
      BY Zenon
    <2>3. Assigned(group, h)
      BY <2>1, <2>2, AppliedGives, Zenon
    <2>4. Turns(group, h)
      BY <1>8, <2>1, <2>3, AssignedTurns, Zenon
    <2>5. Timed(h, Low)
      <3>1. "Stable" # "Preparing" /\ "Stable" # "Completing"
        OBVIOUS
      <3> QED BY <2>3, <3>1, Zenon DEF Assigned, Timed
    <2> QED BY <1>1, <1>5, <1>8, <2>2, <2>4, <2>5, TurnSteps, Zenon
  <1>9. CASE /\ group # NoGroup /\ client[c].id \in In(group) /\ group.state = "Completing"
             /\ Becomes([ group EXCEPT !.members[client[c].id].idle = 0, !.members[client[c].id].syncWaiter = TRUE ], c,
                        [ client[c] EXCEPT !.pc = "syncing", !.left = group.syncLeft + Grace ])
    BY <1>1, <1>9, ParkSteps, Zenon
  <1>10. group # NoGroup => group.state \in States
    BY <1>1, Zenon DEF GroupInv, IsGroup, Shaped
  <1>11. CASE group = NoGroup \/ client[c].id \notin In(group)
    <2>1. Becomes(group, c, l)
      BY <1>1, <1>2, <1>11, Zenon DEF SyncAnswered
    <2> QED BY <1>6, <2>1, Zenon
  <1>12. CASE group # NoGroup /\ client[c].id \in In(group)
    <2>1. CASE group.generation # client[c].gen \/ group.state \in { "Empty", "Preparing" }
      <3>1. Becomes(group, c, a)
        BY <1>1, <1>2, <1>12, <2>1, Zenon DEF SyncAnswered
      <3> QED BY <1>6, <3>1, Zenon
    <2>2. CASE group.generation = client[c].gen /\ group.state = "Stable"
      <3>1. Becomes([ group EXCEPT !.members[client[c].id].idle = 0 ], c, m)
        BY <1>1, <1>3, <1>12, <2>2, Zenon DEF SyncAnswered
      <3> QED BY <1>7, <1>12, <3>1, Zenon
    <2>3. CASE group.generation = client[c].gen /\ group.state = "Completing" /\ Leads(c)
      <3>1. Becomes(Applied(group), c, m)
        BY <1>1, <1>3, <1>12, <2>3, Zenon DEF SyncAnswered
      <3> QED BY <1>8, <1>12, <2>3, <3>1, Zenon
    <2>4. CASE group.generation = client[c].gen /\ group.state = "Completing" /\ ~Leads(c)
      <3>1. Becomes([ group EXCEPT !.members[client[c].id].idle = 0, !.members[client[c].id].syncWaiter = TRUE ], c,
                    [ client[c] EXCEPT !.pc = "syncing", !.left = group.syncLeft + Grace ])
        BY <1>1, <1>12, <2>4, Zenon DEF SyncAnswered
      <3> QED BY <1>9, <1>12, <2>4, <3>1, Zenon
    <2> QED BY <1>10, <1>12, <2>1, <2>2, <2>3, <2>4, Zenon DEF States
  <1> QED BY <1>11, <1>12, Zenon

\* The steps of a client that leave the group alone.
LEMMA OwnSteps ==
  ASSUME CoordInv, NEW c \in DOMAIN client, JudgeAssignments(c) \/ WantRejoin(c) \/ Cut(c) \/ Stop(c)
  PROVE  Steps
  <1>1. spent' = spent /\ UNCHANGED << minted, swept >> /\ IsClient(client[c])
    BY Zenon DEF JudgeAssignments, WantRejoin, Cut, Stop, Disturb, CoordInv, ClientInv
  <1>2. CASE JudgeAssignments(c)
    <2>1. PICK m : m = [ client[c] EXCEPT !.pc = "judging" ]
      BY Zenon
    <2>2. IsClient(m) /\ m.pc = "judging" /\ m.id = client[c].id
      BY <1>1, <2>1, Zenon DEF IsClient
    <2> QED BY <1>1, <1>2, <2>1, <2>2, KeepSteps, Zenon DEF JudgeAssignments
  <1>3. CASE WantRejoin(c) \/ Cut(c)
    <2>1. PICK m : m = Again(client[c])
      BY Zenon
    <2>2. IsClient(m) /\ m.pc = "rejoin" /\ m.id = client[c].id
      BY <1>1, <2>1, LostAgain, Zenon
    <2> QED BY <1>1, <1>3, <2>1, <2>2, KeepSteps, Zenon DEF WantRejoin, Cut
  <1>4. CASE Stop(c)
    <2>1. PICK m : m = [ client[c] EXCEPT !.pc = "gone", !.left = Never ]
      BY Zenon
    <2>2. IsClient(m) /\ m.pc = "gone" /\ m.id = client[c].id
      BY <1>1, <2>1, Zenon DEF IsClient
    <2> QED BY <1>1, <1>4, <2>1, <2>2, KeepSteps, Zenon DEF Stop
  <1> QED BY <1>2, <1>3, <1>4, Zenon

LEMMA ShutdownSteps ==
  ASSUME CoordInv, Shutdown
  PROVE  Steps
  <1>1. group' = NoGroup /\ minted' = minted /\ Remember /\ client' = [ c \in DOMAIN client |-> Told(c, group, NoGroup) ]
    BY Zenon DEF Shutdown, Disturb
  <1>2. Moves({})
    BY <1>1, GoneMoves, Zenon DEF CoordInv
  <1>3. ClientInv'
    BY <1>1, AllTold, Zenon DEF CoordInv
  <1> QED BY <1>2, <1>3, Zenon DEF Steps, Moves, CoordInv

LEMMA SweepSteps ==
  ASSUME CoordInv, Sweep
  PROVE  Steps
  <1>1. PICK h : h = IF group = NoGroup THEN NoGroup ELSE Swept(group)
    BY Zenon
  <1>2. group' = h /\ minted' = minted /\ Remember /\ client' = [ c \in DOMAIN client |-> Told(c, group, h) ] /\ swept'
    BY <1>1, Zenon DEF Sweep
  <1>3. Low' = 0 /\ GroupInv /\ TokenInv
    BY <1>2, Zenon DEF Low, CoordInv
  <1>4. CASE h = NoGroup
    <2>1. Moves({})
      BY <1>2, <1>3, <1>4, GoneMoves, Zenon
    <2>2. ClientInv'
      BY <1>2, <1>4, AllTold, Zenon DEF CoordInv
    <2> QED BY <2>1, <2>2, Zenon DEF Steps, Moves, CoordInv
  <1>5. CASE h # NoGroup
    <2>1. group # NoGroup /\ h = Swept(group)
      BY <1>1, <1>5, Zenon
    <2>2. IsGroup(group) /\ Waiters(group) /\ Timed(group, Low) /\ Base = group
      BY <1>3, <2>1, Zenon DEF GroupInv, Base
    <2>3. Timed(group, -1)
      <3>1. Low \in {-1, 0} /\ \A n \in Int : Low <= n => -1 <= n
        BY DEF Low
      <3> QED BY <2>2, <3>1, Zenon DEF Timed
    <2>4. (Turns(Base, h) \/ Closes(Base, h, {})) /\ Timed(h, 0)
      BY <1>5, <2>1, <2>2, <2>3, SweptGives, Zenon DEF Sweeps
    <2>5. Timed(h, Low)' /\ minted' \in {minted, minted + 1}
      BY <1>2, <1>3, <2>4, Zenon
    <2>6. Moves({})
      BY <1>2, <1>3, <2>4, <2>5, TurnsMoves, ClosesMoves, Zenon
    <2>7. IsGroup(h) /\ Follows(Base, h, {})
      BY <2>4, Zenon DEF Turns, Closes
    <2>8. ClientInv'
      BY <1>2, <2>7, AllTold, Zenon DEF CoordInv
    <2> QED BY <2>6, <2>8, Zenon DEF Steps, Moves, CoordInv
  <1> QED BY <1>4, <1>5, Zenon

\* The deadline and the wait shrink together.
LEMMA TickSteps ==
  ASSUME CoordInv, Tick
  PROVE  Steps
  <1>1. GroupInv /\ TokenInv /\ minted' = minted /\ Low = 0
    BY Zenon DEF CoordInv, Tick, Low
  <1>2. /\ GroupInv' /\ TokenInv' /\ (Tok!Next \/ UNCHANGED << Good(group), spent >>)
        /\ group = NoGroup => group' = NoGroup
        /\ group # NoGroup => group' # NoGroup /\ Ages(group, group')
    BY <1>1, TickMoves, Zenon
  <1>3. client' = [ c \in DOMAIN client |-> [ client[c] EXCEPT !.left = Down(@) ] ]
    BY Zenon DEF Tick
  <1>4. ASSUME NEW n \in Int, 0 <= n PROVE Down(n + Grace) = Down(n) + Grace
    <2>1. n + Grace \in Int /\ 0 <= n + Grace /\ (n - 1) + Grace = (n + Grace) - 1
      BY <1>4, TimesAssumption
    <2>2. Down(n) = n - 1 /\ Down(n + Grace) = (n + Grace) - 1
      BY <1>4, <2>1, DownIs, Zenon
    <2> QED BY <2>1, <2>2, Zenon
  <1>5. ASSUME NEW c \in DOMAIN client
        PROVE  IsClient(client'[c]) /\ client'[c].id = client[c].id /\ WaitsFor(client'[c], group')
    <2>1. PICK k : k = client[c] /\ IsClient(k) /\ WaitsFor(k, group)
      BY Zenon DEF CoordInv, ClientInv
    <2>2. PICK l : l = Down(k.left)
      BY Zenon
    <2>3. PICK m : m = [ k EXCEPT !.left = l ]
      BY Zenon
    <2>4. client'[c] = m
      BY <1>3, <2>1, <2>2, <2>3, Zenon
    <2>5. IsClient(m) /\ m.id = k.id /\ m.pc = k.pc /\ m.left = l
      BY <2>1, <2>3, Zenon DEF IsClient
    <2>6. ASSUME k.pc = "joining"
          PROVE  /\ group' # NoGroup /\ k.id \in In(group') /\ group'.members[k.id].joinWaiter
                 /\ l = group'.round.left + Grace
      <3>1. group # NoGroup /\ k.id \in In(group) /\ group.members[k.id].joinWaiter /\ k.left = group.round.left + Grace
        BY <2>1, <2>6, Zenon DEF WaitsFor
      <3>2. Waiters(group) /\ Timed(group, 0)
        BY <1>1, <3>1, Zenon DEF GroupInv
      <3>3. group.round.left \in Int /\ 0 <= group.round.left
        BY <3>1, <3>2, Zenon DEF Waiters, Timed
      <3>4. l = Down(group.round.left) + Grace
        BY <1>4, <2>2, <3>1, <3>3, Zenon
      <3> QED BY <1>2, <3>1, <3>4, Zenon DEF Ages, SameWaiters
    <2>7. ASSUME k.pc = "syncing"
          PROVE  /\ group' # NoGroup /\ k.id \in In(group') /\ group'.members[k.id].syncWaiter
                 /\ l = group'.syncLeft + Grace
      <3>1. group # NoGroup /\ k.id \in In(group) /\ group.members[k.id].syncWaiter /\ k.left = group.syncLeft + Grace
        BY <2>1, <2>7, Zenon DEF WaitsFor
      <3>2. Waiters(group) /\ Timed(group, 0)
        BY <1>1, <3>1, Zenon DEF GroupInv
      <3>3. group.syncLeft \in Int /\ 0 <= group.syncLeft
        BY <3>1, <3>2, Zenon DEF Waiters, Timed
      <3>4. l = Down(group.syncLeft) + Grace
        BY <1>4, <2>2, <3>1, <3>3, Zenon
      <3> QED BY <1>2, <3>1, <3>4, Zenon DEF Ages, SameWaiters
    <2>8. WaitsFor(m, group')
      BY <2>5, <2>6, <2>7, Zenon DEF WaitsFor
    <2> QED BY <2>1, <2>4, <2>5, <2>8, Zenon
  <1>6. DOMAIN client' = DOMAIN client
    BY <1>3, Zenon
  <1>7. ClientInv'
    BY <1>1, <1>5, <1>6, Zenon DEF CoordInv, ClientInv
  <1> QED BY <1>2, <1>7, Zenon DEF Steps, CoordInv

LEMMA CoordInit ==
  ASSUME KafkaInit
  PROVE  CoordInv /\ Tok!Init
  <1>1. group = NoGroup /\ minted = 0 /\ spent = {}
    BY Zenon DEF KafkaInit
  <1>2. Base = NewGroup /\ Good(group) = {}
    BY <1>1, Zenon DEF Base, Good
  <1>3. TokenInv
    BY <1>1, <1>2, NewIsGroup DEF TokenInv
  <1>4. PICK k : k = [ pc |-> "out", id |-> NoId, gen |-> 0, left |-> Never ]
    BY Zenon
  <1>5. IsClient(k) /\ k.id = NoId /\ k.pc = "out"
    BY <1>4 DEF IsClient
  <1>6. \A c \in DOMAIN client : client[c] = k
    BY <1>4, Zenon DEF KafkaInit
  <1>7. NoId \in 0 .. 0 /\ "out" # "joining" /\ "out" # "syncing"
    BY DEF NoId
  <1>8. ClientInv
    BY <1>1, <1>5, <1>6, <1>7, Zenon DEF ClientInv, WaitsFor
  <1> QED BY <1>1, <1>2, <1>3, <1>8, Zenon DEF CoordInv, GroupInv, Tok!Init

LEMMA CoordStep ==
  ASSUME CoordInv, [KafkaNext]_kafkaVars
  PROVE  Steps
  <1>1. ASSUME NEW c \in DOMAIN client,
               \/ \E offered \in kscen.offers[c] : FirstJoin(c, offered)
               \/ \E offered \in kscen.offers[c] : Rejoin(c, offered)
               \/ JudgeAssignments(c) \/ Sync(c) \/ AssignmentRefused(c) \/ Heartbeat(c)
               \/ Leave(c) \/ WantRejoin(c) \/ Cut(c) \/ Stop(c)
        PROVE  Steps
    <2>1. CASE \E offered \in kscen.offers[c] : FirstJoin(c, offered)
      BY <1>1, <2>1, FirstJoinSteps, Zenon
    <2>2. CASE \E offered \in kscen.offers[c] : Rejoin(c, offered)
      BY <1>1, <2>2, RejoinSteps, Zenon
    <2>3. CASE JudgeAssignments(c) \/ WantRejoin(c) \/ Cut(c) \/ Stop(c)
      BY <1>1, <2>3, OwnSteps, Zenon
    <2>4. CASE Sync(c)
      BY <1>1, <2>4, SyncSteps, Zenon
    <2>5. CASE AssignmentRefused(c)
      BY <1>1, <2>5, AssignmentRefusedSteps, Zenon
    <2>6. CASE Heartbeat(c)
      BY <1>1, <2>6, HeartbeatSteps, Zenon
    <2>7. CASE Leave(c)
      BY <1>1, <2>7, LeaveSteps, Zenon
    <2> QED BY <1>1, <2>1, <2>2, <2>3, <2>4, <2>5, <2>6, <2>7, Zenon
  <1>2. CASE Shutdown
    BY <1>2, ShutdownSteps, Zenon
  <1>3. CASE Sweep
    BY <1>3, SweepSteps, Zenon
  <1>4. CASE Tick
    BY <1>4, TickSteps, Zenon
  <1>5. CASE UNCHANGED kafkaVars
    <2>1. UNCHANGED << group, client, minted, swept, spent >>
      BY <1>5, Zenon DEF kafkaVars
    <2>2. Base' = Base /\ Low' = Low /\ Good(group)' = Good(group)
      BY <2>1, Zenon DEF Base, Low
    <2>3. CoordInv'
      BY <2>1, <2>2, Zenon DEF CoordInv, GroupInv, TokenInv, ClientInv
    <2> QED BY <2>1, <2>2, <2>3, Zenon DEF Steps
  <1> QED BY <1>1, <1>2, <1>3, <1>4, <1>5, Zenon DEF KafkaNext

\* A commit that check_commit once took under a member and a generation, and
\* then no longer, is never taken again, and only one generation is at a time.
THEOREM ImplementsCommitTokensHolds == KafkaSpec => ImplementsCommitTokens
  <1>1. KafkaInit => CoordInv /\ Tok!Init
    BY CoordInit, Zenon
  <1>2. CoordInv /\ [KafkaNext]_kafkaVars => CoordInv' /\ [Tok!Next]_<< Good(group), spent >>
    BY CoordStep, Zenon DEF Steps
  <1> QED BY <1>1, <1>2, PTL DEF KafkaSpec, ImplementsCommitTokens, Tok!Spec

\* A parked join or sync is answered before its own wait ends: its member holds
\* a waiter whose deadline the group still has, and the sweeper lets no deadline
\* pass by more than its period.
THEOREM NoWaitRunsOutHolds == KafkaSpec => []NoWaitRunsOut
  <1>1. KafkaInit => CoordInv
    BY CoordInit, Zenon
  <1>2. CoordInv /\ [KafkaNext]_kafkaVars => CoordInv'
    BY CoordStep, Zenon DEF Steps
  <1>3. CoordInv => NoWaitRunsOut
    <2> SUFFICES ASSUME CoordInv, NEW c \in DOMAIN client, Parked(c) PROVE client[c].left > 0
      BY Zenon DEF NoWaitRunsOut
    <2>1. ASSUME NEW n \in Int, Low <= n, client[c].left = n + Grace PROVE client[c].left > 0
      <3>1. n >= -1
        BY <2>1 DEF Low
      <3> QED BY <2>1, <3>1, TimesAssumption
    <2>2. WaitsFor(client[c], group) /\ GroupInv /\ client[c].pc \in { "joining", "syncing" }
      BY Zenon DEF CoordInv, ClientInv, Parked
    <2>3. CASE client[c].pc = "joining"
      BY <2>1, <2>2, <2>3, Zenon DEF WaitsFor, GroupInv, Waiters, Timed
    <2>4. CASE client[c].pc = "syncing"
      BY <2>1, <2>2, <2>4, Zenon DEF WaitsFor, GroupInv, Waiters, Timed
    <2> QED BY <2>2, <2>3, <2>4, Zenon
  <1> QED BY <1>1, <1>2, <1>3, PTL DEF KafkaSpec
=============================================================================
