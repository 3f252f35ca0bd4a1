----------------------------- MODULE KafkaGroups -----------------------------
(***************************************************************************)
(* One consumer group on its coordinator (crates/vtop-kafka/src/groups.rs)  *)
(* and the clients that are, or were, its members.                          *)
(*                                                                          *)
(* Every operation runs under the coordinator's lock and is one action.     *)
(* A join or a sync that waits is parked: the member holds the waiter, the  *)
(* client hears the answer in the step that releases it.  Instants are kept *)
(* as the time that is left (or, for a session, has passed), in ticks; the  *)
(* sweeper runs at least once in every tick.                                *)
(*                                                                          *)
(* Every member asks for the same timeouts and the protocol type is one     *)
(* more protocol name.  The group's slot among max_groups is always free.   *)
(* What the leader assigns is the clients' business and is left out: the    *)
(* model is of who hears an answer, when, and under which generation.       *)
(***************************************************************************)
EXTENDS Integers, Sequences, Functions, FiniteSets, FiniteSetsExt

CONSTANTS
  Clients,
  KafkaScenarios,
  InitialDelay,     \* initial_rebalance_delay
  RebalanceTimeout,
  SessionTimeout,
  MintedTtl,        \* MINTED_ID_TTL
  Grace             \* how much longer than the deadline a parked request waits

\* A request's wait outlasts its deadline by more than a period of the sweeper.
ASSUME TimesAssumption == RebalanceTimeout \in Nat /\ Grace \in Nat /\ Grace > 1

VARIABLES
  kscen,   \* the bounds of this behaviour
  group,   \* the group, or NoGroup
  client,  \* client -> what it knows
  minted,  \* how many member ids were ever minted
  events,  \* disturbances that may still happen
  lag,     \* ticks that may still pass while a client has something to do
  closed,  \* the coordinator was shut down
  swept,   \* the sweeper ran since the last tick
  spent    \* tokens that a commit was taken under, and no longer is

kafkaVars == << kscen, group, client, minted, events, lag, closed, swept, spent >>

Never   == -2   \* below every time that is left
NoId    == 0
Ids     == 1 .. kscen.ids
NoRound == [ openIn |-> Never, left |-> Never ]
NoGroup == [ state |-> "None" ]
NewGroup ==
  [ state |-> "Empty", generation |-> 0, leader |-> NoId, protocol |-> "",
    members |-> << >>, order |-> << >>, minted |-> << >>, round |-> NoRound, syncLeft |-> Never ]

Put(f, k, v) == [ x \in DOMAIN f \cup {k} |-> IF x = k THEN v ELSE f[x] ]
Down(n)      == IF n = Never THEN Never ELSE Max({ n - 1, -1 })

In(g)    == DOMAIN g.members
Rest(g)  == [ g EXCEPT !.state = "Empty", !.leader = NoId, !.protocol = "", !.round = NoRound ]
Without(order, gone) == SelectSeq(order, LAMBDA id : id \notin gone)
Less(g, gone) ==
  [ g EXCEPT !.members = Restrict(@, In(g) \ gone), !.order = Without(@, gone) ]
OutOfRound(g) ==
  [ g EXCEPT !.members = [ id \in In(g) |-> [ @[id] EXCEPT !.inRound = FALSE ] ] ]

-----------------------------------------------------------------------------
(* Rounds. *)

\* The round under way keeps its deadline; a new one releases every parked sync.
BeginRound(g, wasEmpty) ==
  IF g.state = "Preparing" THEN g
  ELSE [ g EXCEPT !.state = "Preparing",
                  !.round = [ openIn |-> IF wasEmpty THEN InitialDelay ELSE 0, left |-> RebalanceTimeout ],
                  !.syncLeft = Never,
                  !.members = [ id \in In(g) |-> [ @[id] EXCEPT !.syncWaiter = FALSE ] ] ]

MemberLeft(g) ==
  IF In(g) = {} THEN Rest(g)
  ELSE IF g.state = "Preparing" THEN g ELSE BeginRound(OutOfRound(g), FALSE)

\* Of the protocols every member has, the one most members put first; a tie
\* goes to the leader's preference.
Candidates(g, leader) ==
  SelectSeq(g.members[leader].protocols,
            LAMBDA p : \A id \in In(g) : p \in Range(g.members[id].protocols))
Elect(g, leader) ==
  LET candidates == Candidates(g, leader)
      vote(id)   == SelectSeq(g.members[id].protocols, LAMBDA p : p \in Range(candidates))[1]
      votes(p)   == Cardinality({ id \in In(g) : vote(id) = p })
  IN SelectSeq(candidates, LAMBDA p : \A q \in Range(candidates) : votes(q) <= votes(p))[1]

\* Variant: a round that keeps its leader keeps its generation.
CompletedSameGeneration(g, leader) ==
  [ g EXCEPT !.state = "Completing", !.leader = leader, !.protocol = Elect(g, leader),
             !.generation = IF leader = g.leader THEN @ ELSE @ + 1,
             !.round = NoRound, !.syncLeft = RebalanceTimeout,
             !.members = [ id \in In(g) |->
               [ @[id] EXCEPT !.inRound = FALSE, !.idle = 0, !.joinWaiter = FALSE ] ] ]

\* Every member of the round hears the new generation; the leader's
\* assignment is awaited from here.
Completed(g, leader) ==
  [ g EXCEPT !.state = "Completing", !.leader = leader, !.protocol = Elect(g, leader),
             !.generation = @ + 1, !.round = NoRound, !.syncLeft = RebalanceTimeout,
             !.members = [ id \in In(g) |->
               [ @[id] EXCEPT !.inRound = FALSE, !.idle = 0, !.joinWaiter = FALSE ] ] ]

\* Everybody is in and the window is open, or the deadline passed and whoever
\* is not in is out.
MaybeComplete(g) ==
  LET stayed == Less(g, { id \in In(g) : ~g.members[id].inRound })
      leader == IF g.leader \in In(stayed) THEN g.leader ELSE stayed.order[1]
  IN
  IF \/ g.state # "Preparing"
     \/ ~(g.round.left <= 0 \/ (In(stayed) = In(g) /\ g.round.openIn <= 0)) THEN g
  ELSE IF In(stayed) = {} THEN [ Rest(stayed) EXCEPT !.generation = @ + 1 ]
  ELSE IF Candidates(stayed, leader) = << >>
       THEN [ Rest(Less(stayed, In(stayed))) EXCEPT !.generation = @ + 1 ]
       ELSE Completed(stayed, leader)

-----------------------------------------------------------------------------
(* What the clients hear. *)

Parked(c) == client[c].pc \in {"joining", "syncing"}

\* The waiters g holds and h does not: a parked join hears the round's
\* generation, a parked sync its assignment, unless the group moved on.
Told(c, g, h) ==
  LET k  == client[c]
      id == k.id
      waits(x, w) == x # NoGroup /\ id \in In(x) /\ x.members[id][w]
      stays == h # NoGroup /\ id \in In(h)
  IN
  CASE k.pc = "joining" /\ waits(g, "joinWaiter") /\ ~waits(h, "joinWaiter") ->
         IF stays /\ h.state = "Completing"
         THEN [ k EXCEPT !.pc = "joined", !.gen = h.generation, !.left = Never ]
         ELSE [ k EXCEPT !.pc = "rejoin", !.left = Never ]
    [] k.pc = "syncing" /\ waits(g, "syncWaiter") /\ ~waits(h, "syncWaiter") ->
         IF stays /\ h.state = "Stable" THEN [ k EXCEPT !.pc = "member", !.left = Never ]
         ELSE IF stays \/ h = NoGroup THEN [ k EXCEPT !.pc = "rejoin", !.left = Never ]
         ELSE [ k EXCEPT !.pc = "out", !.id = NoId, !.left = Never ]
    [] OTHER -> k

\* The group becomes h, and client c is left with k by the answer it gets.
Becomes(h, c, k) ==
  /\ group' = h
  /\ client' = [ d \in DOMAIN client |-> IF d = c THEN k ELSE Told(d, group, h) ]

\* A member's commit is taken under its group's generation, except while the
\* assignment is awaited.
CheckCommit(g, id, gen) ==
  /\ g # NoGroup /\ id \in In(g)
  /\ g.generation = gen
  /\ g.state \in {"Stable", "Preparing"}
Good(g) == IF g = NoGroup THEN {} ELSE { t \in In(g) \X {g.generation} : CheckCommit(g, t[1], t[2]) }
Remember == spent' = spent \cup (Good(group) \ Good(group'))

Lost(k)   == [ k EXCEPT !.pc = "out", !.id = NoId, !.left = Never ]
Again(k)  == [ k EXCEPT !.pc = "rejoin", !.left = Never ]

-----------------------------------------------------------------------------
(* Joining. *)

\* One protocol that every member of the group has.
Compatible(g, id, offered) ==
  \E p \in Range(offered) :
    \A other \in In(g) \ {id} : p \in Range(g.members[other].protocols)

\* An unchanged rejoin is a retry: answered from the round that completed,
\* except that a stable group's leader asks for a rebalance by it.
Replays(g, id, offered) ==
  /\ id \in In(g) /\ g.members[id].protocols = offered
  /\ g.state = "Completing" \/ (g.state = "Stable" /\ g.leader # id)

Admitted(g, id, offered) ==
  LET new == id \notin In(g)
      m   == [ protocols |-> offered, idle |-> 0, inRound |-> TRUE, joinWaiter |-> TRUE,
               syncWaiter |-> FALSE ]
      g1  == [ g EXCEPT !.members = Put(@, id, m), !.order = IF new THEN Append(@, id) ELSE @ ]
      g2  == BeginRound(g1, In(g) = {})
  IN IF new /\ g2.round.openIn > 0
     THEN [ g2 EXCEPT !.round.openIn = Min({ InitialDelay, g2.round.left }) ]
     ELSE g2

\* A member joins, or rejoins: every path that a join can take.
JoinAs(c, g, id, offered) ==
  LET k == [ client[c] EXCEPT !.id = id ] IN
  IF ~Compatible(g, id, offered) THEN Becomes(g, c, client[c])
  ELSE IF Replays(g, id, offered)
  THEN Becomes([ g EXCEPT !.members[id].idle = 0 ], c,
               [ k EXCEPT !.pc = "joined", !.gen = g.generation, !.left = Never ])
  ELSE LET asked == Admitted(g, id, offered)
           h     == MaybeComplete(asked)
       IN Becomes(h, c,
            CASE h.state = "Completing" -> [ k EXCEPT !.pc = "joined", !.gen = h.generation ]
              [] h.state = "Preparing"  -> [ k EXCEPT !.pc = "joining", !.left = h.round.left + Grace ]
              [] OTHER                  -> Again(k))

\* The ids minted for first joins that still may come back.
Fresh(g) == [ g EXCEPT !.minted = Restrict(@, { id \in DOMAIN @ : @[id] < MintedTtl }) ]
Found    == Fresh(IF group = NoGroup THEN NewGroup ELSE group)

\* The first join, with no id: one is minted, and where the protocol asks for
\* it the member has to come back with it.
FirstJoin(c, offered) ==
  /\ client[c].pc = "out" /\ ~closed /\ minted < kscen.ids
  /\ IF Cardinality(In(Found)) + Cardinality(DOMAIN Found.minted) >= kscen.maxMembers
     THEN Becomes(Found, c, client[c]) /\ UNCHANGED minted
     ELSE /\ minted' = minted + 1
          /\ IF kscen.requireId
             THEN Becomes([ Found EXCEPT !.minted = Put(@, minted + 1, 0) ], c,
                          [ client[c] EXCEPT !.pc = "rejoin", !.id = minted + 1 ])
             ELSE JoinAs(c, Found, minted + 1, offered)
  /\ Remember
  /\ UNCHANGED << kscen, events, lag, closed, swept >>

Rejoin(c, offered) ==
  LET id   == client[c].id
      back == [ Found EXCEPT !.minted = Restrict(@, DOMAIN @ \ {id}) ]
  IN
  /\ client[c].pc = "rejoin" /\ ~closed
  /\ IF id \in In(Found) THEN JoinAs(c, Found, id, offered)
     ELSE IF id \notin DOMAIN Found.minted THEN Becomes(Found, c, Lost(client[c]))
     ELSE IF Cardinality(In(back)) >= kscen.maxMembers THEN Becomes(back, c, client[c])
     ELSE JoinAs(c, back, id, offered)
  /\ Remember
  /\ UNCHANGED << kscen, minted, events, lag, closed, swept >>
-----------------------------------------------------------------------------
(* Syncing. *)

\* The leader's assignment stands: every parked sync hears it.
Applied(g) ==
  [ g EXCEPT !.state = "Stable", !.syncLeft = Never,
             !.members = [ id \in In(g) |-> [ @[id] EXCEPT !.idle = 0, !.syncWaiter = FALSE ] ] ]

Leads(c) == group # NoGroup /\ group.state = "Completing" /\ group.leader = client[c].id

\* What a sync is answered, or that it waits; the leader's is answered apart.
SyncAnswered(c) ==
  LET k  == client[c]
      id == k.id
  IN
  IF group = NoGroup \/ id \notin In(group) THEN Becomes(group, c, Lost(k))
  ELSE IF group.generation # k.gen \/ group.state \in {"Empty", "Preparing"} THEN Becomes(group, c, Again(k))
  ELSE IF group.state = "Stable"
       THEN Becomes([ group EXCEPT !.members[id].idle = 0 ], c, [ k EXCEPT !.pc = "member" ])
  ELSE IF Leads(c) THEN Becomes(Applied(group), c, [ k EXCEPT !.pc = "member" ])
  ELSE Becomes([ group EXCEPT !.members[id].idle = 0, !.members[id].syncWaiter = TRUE ], c,
               [ k EXCEPT !.pc = "syncing", !.left = group.syncLeft + Grace ])

\* check_sync finds the leader of a completing round: its assignments are
\* judged first, which waits on the topics' enumeration.
JudgeAssignments(c) ==
  /\ client[c].pc = "joined" /\ Leads(c) /\ group.generation = client[c].gen
  /\ Becomes(group, c, [ client[c] EXCEPT !.pc = "judging" ])
  /\ UNCHANGED << kscen, minted, events, lag, closed, swept, spent >>

\* A follower's sync, and the leader's once its assignments were judged.
Sync(c) ==
  /\ \/ client[c].pc = "judging"
     \/ client[c].pc = "joined" /\ ~(Leads(c) /\ group.generation = client[c].gen)
  /\ SyncAnswered(c)
  /\ Remember
  /\ UNCHANGED << kscen, minted, events, lag, closed, swept >>

\* The assignment was refused: the round it was for is over, if it still is
\* this leader's to end.
AssignmentRefused(c) ==
  /\ client[c].pc = "judging" /\ events > 0 /\ "refuse" \in kscen.may
  /\ Becomes(IF Leads(c) /\ group.generation = client[c].gen
             THEN BeginRound(OutOfRound(group), FALSE) ELSE group,
             c, Again(client[c]))
  /\ events' = events - 1
  /\ Remember
  /\ UNCHANGED << kscen, minted, lag, closed, swept >>

-----------------------------------------------------------------------------
(* Heartbeats, leaving, and the clients' own troubles. *)

Heartbeat(c) ==
  LET k == client[c] IN
  /\ k.pc \in {"joined", "member"}
  /\ IF group = NoGroup \/ k.id \notin In(group) THEN Becomes(group, c, Lost(k))
     ELSE IF group.generation # k.gen THEN Becomes(group, c, Again(k))
     ELSE Becomes([ group EXCEPT !.members[k.id].idle = 0 ], c,
                  IF group.state \in {"Stable", "Completing"} THEN k ELSE Again(k))
  /\ UNCHANGED << kscen, minted, events, lag, closed, swept, spent >>

Disturb(kind) ==
  /\ events > 0 /\ kind \in kscen.may
  /\ events' = events - 1
  /\ UNCHANGED << kscen, minted, lag, swept >>

Leave(c) ==
  LET k == client[c] IN
  /\ k.pc = "member" /\ Disturb("leave")
  /\ Becomes(IF group # NoGroup /\ k.id \in In(group) THEN MemberLeft(Less(group, {k.id})) ELSE group,
             c, [ Lost(k) EXCEPT !.pc = "gone" ])
  /\ Remember
  /\ UNCHANGED closed

\* A member that wants a rebalance: its subscription changed.
WantRejoin(c) ==
  /\ client[c].pc = "member" /\ Disturb("rejoin")
  /\ Becomes(group, c, Again(client[c]))
  /\ UNCHANGED << closed, spent >>

\* The connection breaks under a parked request: its answer goes nowhere and
\* the client comes back with its id.
Cut(c) ==
  /\ Parked(c) /\ Disturb("cut")
  /\ Becomes(group, c, Again(client[c]))
  /\ UNCHANGED << closed, spent >>

\* The client dies, whatever it waits for.
Stop(c) ==
  /\ client[c].pc # "gone" /\ Disturb("stop")
  /\ Becomes(group, c, [ client[c] EXCEPT !.pc = "gone", !.left = Never ])
  /\ UNCHANGED << closed, spent >>

\* The listener stops: every parked request is released, no group is left.
Shutdown ==
  /\ ~closed /\ Disturb("shutdown")
  /\ closed' = TRUE
  /\ group' = NoGroup
  /\ client' = [ c \in DOMAIN client |-> Told(c, group, NoGroup) ]
  /\ Remember

-----------------------------------------------------------------------------
(* The clock's work. *)

\* A member in a round waits on the coordinator, and so does everybody while
\* the leader's assignment is awaited: no session lapses then.
Lapsed(g) ==
  { id \in In(g) : /\ ~(g.state = "Preparing" /\ g.members[id].inRound)
                   /\ g.state # "Completing"
                   /\ g.members[id].idle > SessionTimeout }

\* Variant: a leader that never syncs is waited for.
LeaderStays(g) == g

\* A leader that has not synced by the deadline is out.
LeaderOut(g) ==
  IF g.state = "Completing" /\ g.syncLeft < 0
  THEN MemberLeft([ Less(g, {g.leader}) EXCEPT !.syncLeft = Never ])
  ELSE g

Swept(g) ==
  LET lapsed == Lapsed(g)
      h      == LeaderOut(Fresh(g))
      rest   == IF lapsed = {} THEN h ELSE MemberLeft(Less(h, lapsed))
      done   == MaybeComplete(rest)
  IN IF In(done) = {} /\ DOMAIN done.minted = {} THEN NoGroup ELSE done

Sweep ==
  /\ ~closed
  /\ LET h == IF group = NoGroup THEN NoGroup ELSE Swept(group) IN
     /\ group' = h
     /\ client' = [ c \in DOMAIN client |-> Told(c, group, h) ]
  /\ swept' = TRUE
  /\ Remember
  /\ UNCHANGED << kscen, minted, events, lag, closed >>

Aged(g) ==
  IF g = NoGroup THEN NoGroup
  ELSE [ g EXCEPT !.round = [ openIn |-> Down(@.openIn), left |-> Down(@.left) ],
                  !.syncLeft = Down(@),
                  !.minted = [ id \in DOMAIN @ |-> Min({ @[id] + 1, MintedTtl }) ],
                  !.members = [ id \in In(g) |->
                    [ @[id] EXCEPT !.idle = Min({ g.members[id].idle + 1, SessionTimeout + 1 }) ] ] ]

\* A client that answers within the tick: it joins, syncs and heartbeats.
Due(c) ==
  LET k == client[c] IN
  \/ k.pc = "out" /\ minted < kscen.ids
  \/ k.pc \in {"rejoin", "joined", "judging"}
  \/ /\ k.pc = "member"
     /\ \/ group = NoGroup
        \/ group # NoGroup /\ k.id \notin In(group)
        \/ group # NoGroup /\ k.id \in In(group)
             /\ (group.generation # k.gen \/ group.state = "Preparing" \/ group.members[k.id].idle >= SessionTimeout)

Tick ==
  /\ swept /\ ~closed
  /\ \/ UNCHANGED lag /\ \A c \in DOMAIN client : ~Due(c)
     \/ lag > 0 /\ lag' = lag - 1 /\ \E c \in DOMAIN client : Due(c)
  /\ group' = Aged(group)
  /\ client' = [ c \in DOMAIN client |-> [ client[c] EXCEPT !.left = Down(@) ] ]
  /\ swept' = FALSE
  /\ UNCHANGED << kscen, minted, events, closed, spent >>

KafkaInit ==
  /\ kscen \in KafkaScenarios
  /\ group = NoGroup
  /\ client = [ c \in DOMAIN kscen.offers |-> [ pc |-> "out", id |-> NoId, gen |-> 0, left |-> Never ] ]
  /\ minted = 0 /\ events = kscen.events /\ lag = kscen.lag
  /\ closed = FALSE /\ swept = FALSE /\ spent = {}

Answers(c) ==
  \/ \E offered \in kscen.offers[c] : FirstJoin(c, offered) \/ Rejoin(c, offered)
  \/ JudgeAssignments(c) \/ Sync(c) \/ Heartbeat(c)

KafkaNext ==
  \/ \E c \in DOMAIN client :
       \/ \E offered \in kscen.offers[c] : FirstJoin(c, offered)
       \/ \E offered \in kscen.offers[c] : Rejoin(c, offered)
       \/ JudgeAssignments(c) \/ Sync(c) \/ AssignmentRefused(c) \/ Heartbeat(c)
       \/ Leave(c) \/ WantRejoin(c) \/ Cut(c) \/ Stop(c)
  \/ Shutdown \/ Sweep \/ Tick

KafkaFairness ==
  /\ WF_kafkaVars(Tick) /\ WF_kafkaVars(Sweep)
  /\ \A c \in Clients : WF_kafkaVars(c \in DOMAIN client /\ Due(c) /\ Answers(c))

KafkaSpec == KafkaInit /\ [][KafkaNext]_kafkaVars /\ KafkaFairness

-----------------------------------------------------------------------------
(* Properties. *)

\* A parked join or sync is answered before its own wait ends: the round under
\* way keeps the deadline its joins saw (begin_round), and the sweeper ends a
\* round, or one whose leader never synced, at its deadline.
NoWaitRunsOut == \A c \in DOMAIN client : Parked(c) => client[c].left > 0

\* A commit that check_commit once took under a member and a generation, and
\* then no longer, is never taken again, across rebalances, lapsed sessions
\* and the removal of the group; and only one generation is taken at a time.
Tok == INSTANCE CommitTokens WITH good <- Good(group), Tokens <- Nat \X Nat
ImplementsCommitTokens == Tok!Spec

Live == { c \in DOMAIN client : client[c].pc # "gone" }
Settled ==
  IF Live = {} THEN group = NoGroup
  ELSE /\ group # NoGroup /\ group.state = "Stable"
       /\ In(group) = { client[c].id : c \in Live }
       /\ \A c \in Live : client[c].pc = "member" /\ client[c].gen = group.generation

\* When the disturbances end, clients that answer within the tick all end up
\* members of one stable generation, and nobody else is left in the group.
EventuallySettled == <>[](closed \/ ~kscen.agree \/ Settled \/ minted = kscen.ids)

=============================================================================
