------------------------------- MODULE Ledger -------------------------------
(***************************************************************************)
(* The batch ledger shared by the archive engines (crates/vtop-state): the  *)
(* rows, the claim that hands incomplete rows to one engine, and the claim  *)
(* fence that refuses the writes of an engine whose claim was taken over.   *)
(*                                                                          *)
(* A session is one run of one engine process.  A restart is a further      *)
(* session with the same owner name, and two sessions may share an owner    *)
(* name while both are alive.  Every SQL statement is one atomic step; what *)
(* a process remembers between two statements is its own, so a transition   *)
(* is three steps: read the state, write conditionally, look at the result. *)
(* Every request runs under a deadline: an expired one leaves its statement *)
(* in flight, to be executed by the server later or never.                  *)
(***************************************************************************)
EXTENDS Naturals, Sequences, FiniteSets, BatchState

CONSTANTS
  Batches,       \* batch ids; each is inserted at most once
  Sessions,      \* runs of engine processes
  Owners,        \* configured engine names
  OwnerOf,       \* the name each session runs under
  LeaseTtl,      \* length of a claim's lease, in clock ticks
  Concurrency,   \* batches one session works on at a time
  MaxConflictRetries, \* re-validations of a write that lost a race
  MaxParked,     \* parked tokens a session keeps
  Bounds         \* what is explored: a set of records, see bound

ASSUME OwnerAssumption  == OwnerOf \in [Sessions -> Owners]
ASSUME LeaseAssumption  == LeaseTtl \in Nat
ASSUME LimitAssumption  ==
  Concurrency \in Nat /\ MaxConflictRetries \in Nat /\ MaxParked \in Nat
ASSUME BoundAssumption  ==
  \A e \in Bounds :
    /\ e.sessions \subseteq Sessions /\ e.batches \subseteq Batches
    /\ e.targets \subseteq BatchStates
    /\ {e.clock, e.gen, e.inFlight} \subseteq Nat

VARIABLES
  bound,    \* the sessions, batches, target states, clock ticks, claims of a
            \* row and unanswered requests this behaviour is limited to
  rows,     \* the batches table: id -> row
  tokens,   \* ClaimFence of each session: session -> id -> token
  parked,   \* order in which a session parked its tokens, oldest first
  ops,      \* the update_batch_state call in progress for a session and batch
  orphans,  \* UPDATE statements whose caller stopped waiting
  claims,   \* claims the server executed whose rows are not yet returned
  clock,    \* wall clock the leases are compared with
  alive,    \* sessions still running
  holder,   \* history: the session that inserted or last claimed each row
  grants    \* history: generations a session was given and has not finished

vars == << bound, rows, tokens, parked, ops, orphans, claims, clock, alive,
           holder, grants >>

NoRow   == [ state |-> "NoRow" ]
NoToken == [ gen |-> 0, kept |-> "none" ]
Idle    == [ pc |-> "idle" ]
Nobody  == "nobody"

Row   == [ state : BatchStates, owner : Owners, lease : Nat, gen : Nat ]
Token == [ gen : Nat, kept : {"active", "parked"} ]
Op    == [ pc : {"read", "write", "check", "wrote"}, to : BatchStates,
           from : BatchStates, gen : Nat, held : BOOLEAN, attempt : Nat ]
Statement == [ session : Sessions, batch : Batches, from : BatchStates,
               to : BatchStates, gen : Nat ]
Claimed   == [ session : Sessions, taken : SUBSET Batches,
               gens : [ Batches -> Nat ] ]

\* Type invariant (rows of the batches table, tokens of the claim fence, calls
\* in progress).
TypeOK ==
  /\ rows \in [ Batches -> Row \cup {NoRow} ]
  /\ tokens \in [ Sessions -> [ Batches -> Token \cup {NoToken} ] ]
  /\ ops \in [ Sessions -> [ Batches -> Op \cup {Idle} ] ]
  /\ orphans \subseteq Statement
  /\ claims \subseteq Claimed
  /\ clock \in Nat
  /\ alive \subseteq Sessions
  /\ holder \in [ Batches -> Sessions \cup {Nobody} ]
  /\ grants \in [ Sessions -> [ Batches -> SUBSET Nat ] ]

Init ==
  /\ bound \in Bounds
  /\ rows = [ b \in Batches |-> NoRow ]
  /\ tokens = [ s \in Sessions |-> [ b \in Batches |-> NoToken ] ]
  /\ parked = [ s \in Sessions |-> << >> ]
  /\ ops = [ s \in Sessions |-> [ b \in Batches |-> Idle ] ]
  /\ orphans = {}
  /\ claims = {}
  /\ clock = 0
  /\ alive = bound.sessions
  /\ holder = [ b \in Batches |-> Nobody ]
  /\ grants = [ s \in Sessions |-> [ b \in Batches |-> {} ] ]

-----------------------------------------------------------------------------
(* The claim fence: the generations one session holds.                      *)

Holds(s, b) == tokens[s][b].kept # "none"

\* The park queue without batch b.
Unparked(q, b) ==
  IF \E i \in 1 .. Len(q) : q[i] = b
  THEN LET at == CHOOSE i \in 1 .. Len(q) : q[i] = b
       IN  [ i \in 1 .. Len(q) - 1 |-> IF i < at THEN q[i] ELSE q[i + 1] ]
  ELSE q

\* Variant: the last answer wins.
ActivatedLastWins(tok, g) == [ gen |-> g, kept |-> "active" ]

\* A row this session inserted (generation 0) or claimed.  The highest
\* generation wins, so a claim answered late cannot displace a newer one.
Activated(tok, g) ==
  [ gen  |-> IF tok.kept # "none" /\ tok.gen > g THEN tok.gen ELSE g,
    kept |-> "active" ]

\* The tokens t after the queue gave up its entry for b: an entry whose token
\* is no longer parked evicts nothing.
Evicted(t, b) == IF t[b].kept = "parked" THEN [ t EXCEPT ![b] = NoToken ] ELSE t

\* The fence of session s after the token of b ended or was parked, each
\* only for the token still at generation g.  Parking beyond MaxParked drops
\* the token parked longest ago.
Release(s, b, g) ==
  IF Holds(s, b) /\ tokens[s][b].gen = g
  THEN /\ tokens' = [ tokens EXCEPT ![s][b] = NoToken ]
       /\ parked' = [ parked EXCEPT ![s] = Unparked(parked[s], b) ]
  ELSE UNCHANGED << tokens, parked >>

Park(s, b, g) ==
  IF Holds(s, b) /\ tokens[s][b].gen = g
  THEN LET q == Append(Unparked(parked[s], b), b)
           t == [ tokens[s] EXCEPT ![b].kept = "parked" ]
       IN  IF Len(q) > MaxParked
           THEN /\ tokens' = [ tokens EXCEPT ![s] = Evicted(t, Head(q)) ]
                /\ parked' = [ parked EXCEPT ![s] = Tail(q) ]
           ELSE /\ tokens' = [ tokens EXCEPT ![s] = t ]
                /\ parked' = [ parked EXCEPT ![s] = q ]
  ELSE UNCHANGED << tokens, parked >>

-----------------------------------------------------------------------------
(* save_batch_state: a plain INSERT, then the token.                        *)

Inserted(s) == [ state |-> "Batching", owner |-> OwnerOf[s],
                 lease |-> clock + LeaseTtl, gen |-> 0 ]

Insert(s, b) ==
  /\ s \in alive /\ b \in bound.batches
  /\ rows[b] = NoRow
  /\ rows' = [ rows EXCEPT ![b] = Inserted(s) ]
  /\ holder' = [ holder EXCEPT ![b] = s ]
  /\ UNCHANGED << ops, orphans, claims, clock, alive >>

Save(s, b) ==
  /\ Insert(s, b)
  /\ tokens' = [ tokens EXCEPT ![s][b] = Activated(@, 0) ]
  /\ parked' = [ parked EXCEPT ![s] = Unparked(@, b) ]
  /\ grants' = [ grants EXCEPT ![s][b] = @ \cup {0} ]

\* The deadline expired but the row is there: nobody holds a token for it.
SaveTimedOut(s, b) ==
  /\ Insert(s, b)
  /\ UNCHANGED << tokens, parked, grants >>

-----------------------------------------------------------------------------
(* update_batch_state, and mark_failed / mark_verified /                    *)
(* mark_source_committed, which are calls of it.                            *)

Call(s, b, op) == ops' = [ ops EXCEPT ![s][b] = op ]

\* The generation held is looked up once, before the first read.
BeginUpdate(s, b, to) ==
  /\ s \in alive /\ to \in bound.targets
  /\ ops[s][b] = Idle
  /\ Cardinality({ c \in Batches : ops[s][c] # Idle }) < Concurrency
  /\ Call(s, b, [ pc |-> "read", to |-> to, from |-> to,
                  gen |-> tokens[s][b].gen, held |-> Holds(s, b),
                  attempt |-> 0 ])
  /\ UNCHANGED << rows, tokens, parked, orphans, claims, clock, alive,
                  holder, grants >>

\* SELECT state: a missing row, an illegal transition and a batch this
\* session holds no generation for all end the call with an error.
ReadState(s, b) ==
  LET op == ops[s][b] IN
  /\ op.pc = "read"
  /\ IF rows[b] # NoRow /\ CanTransition(rows[b].state, op.to) /\ op.held
     THEN Call(s, b, [ op EXCEPT !.pc = "write", !.from = rows[b].state ])
     ELSE Call(s, b, Idle)
  /\ UNCHANGED << rows, tokens, parked, orphans, claims, clock, alive,
                  holder, grants >>

\* Variant: the fence test is missing from the WHERE.
MatchesUnfenced(b, from, g) == rows[b] # NoRow /\ rows[b].state = from

\* UPDATE ... WHERE batch_id = b AND state = from AND claim_gen = gen.
Matches(b, from, g) == rows[b] # NoRow /\ rows[b].state = from /\ rows[b].gen = g

Moved(b, to) == rows' = [ rows EXCEPT ![b].state = to ]

WriteState(s, b) ==
  LET op == ops[s][b] IN
  /\ op.pc = "write"
  /\ IF Matches(b, op.from, op.gen)
     THEN Moved(b, op.to) /\ Call(s, b, [ op EXCEPT !.pc = "wrote" ])
     ELSE UNCHANGED rows /\ Call(s, b, [ op EXCEPT !.pc = "check" ])
  /\ UNCHANGED << tokens, parked, orphans, claims, clock, alive, holder, grants >>

\* ClaimFence::wrote: a committed or handed-back batch releases its token, a
\* failed one parks it.
Wrote(s, b) ==
  LET op == ops[s][b] IN
  /\ op.pc = "wrote"
  /\ CASE op.to \in {"SourceCommitted", "ReplayRequired"} -> Release(s, b, op.gen)
       [] op.to = "Failed" -> Park(s, b, op.gen)
       [] OTHER -> UNCHANGED << tokens, parked >>
  /\ grants' = IF op.to \in {"SourceCommitted", "ReplayRequired", "Failed"}
               THEN [ grants EXCEPT ![s][b] = @ \ {op.gen} ] ELSE grants
  /\ Call(s, b, Idle)
  /\ UNCHANGED << rows, orphans, claims, clock, alive, holder >>

\* lost_claim: no row matched.  A moved generation is final; a moved state is
\* validated again, a bounded number of times.
LostClaim(s, b) ==
  LET op == ops[s][b] IN
  /\ op.pc = "check"
  /\ \/ /\ rows[b].gen # op.gen
        /\ Park(s, b, op.gen)
        /\ Call(s, b, Idle)
     \/ /\ rows[b].gen = op.gen
        /\ IF op.attempt + 1 > MaxConflictRetries
           THEN Call(s, b, Idle)
           ELSE Call(s, b, [ op EXCEPT !.pc = "read", !.attempt = @ + 1 ])
        /\ UNCHANGED << tokens, parked >>
  /\ UNCHANGED << rows, orphans, claims, clock, alive, holder, grants >>

-----------------------------------------------------------------------------
(* DeadlineStore: the caller gives up; an UPDATE already sent may still be  *)
(* executed by the server, at any later moment or never.                    *)

InFlight(s, b) ==
  LET op == ops[s][b] IN
  IF op.pc = "write"
  THEN { [ session |-> s, batch |-> b, from |-> op.from, to |-> op.to,
           gen |-> op.gen ] }
  ELSE {}

Abandon(s, b) ==
  /\ s \in alive
  /\ ops[s][b] # Idle
  /\ Cardinality(orphans \cup InFlight(s, b)) <= bound.inFlight
  /\ orphans' = orphans \cup InFlight(s, b)
  /\ Call(s, b, Idle)
  /\ UNCHANGED << rows, tokens, parked, claims, clock, alive, holder,
                  grants >>

LateWrite(o) ==
  /\ o \in orphans
  /\ orphans' = orphans \ {o}
  /\ IF Matches(o.batch, o.from, o.gen)
     THEN Moved(o.batch, o.to)
     ELSE UNCHANGED rows
  /\ UNCHANGED << tokens, parked, ops, claims, clock, alive, holder, grants >>

-----------------------------------------------------------------------------
(* claim_incomplete_batches: one statement takes every claimable row and    *)
(* returns exactly the rows it took, with their new generation.             *)

Claimable(s) ==
  { b \in Batches :
      /\ rows[b] # NoRow
      /\ rows[b].state # "SourceCommitted"
      /\ rows[b].owner = OwnerOf[s] \/ rows[b].lease <= clock }

\* Variant: the claim renews owner and lease but not the generation.
TakenOverSameGen(s, r) ==
  [ r EXCEPT !.owner = OwnerOf[s], !.lease = clock + LeaseTtl ]

TakenOver(s, r) ==
  [ r EXCEPT !.owner = OwnerOf[s], !.lease = clock + LeaseTtl, !.gen = @ + 1 ]

Claim(s) ==
  /\ s \in alive
  /\ \A b \in Claimable(s) : rows[b].gen < bound.gen
  /\ Cardinality(claims) < bound.inFlight
  /\ rows' = [ b \in Batches |->
                 IF b \in Claimable(s)
                 THEN TakenOver(s, rows[b]) ELSE rows[b] ]
  /\ claims' = claims \cup
       { [ session |-> s, taken |-> Claimable(s),
           gens |-> [ b \in Batches |-> IF b \in Claimable(s)
                                       THEN TakenOver(s, rows[b]).gen ELSE 0 ] ] }
  /\ holder' = [ b \in Batches |-> IF b \in Claimable(s) THEN s ELSE holder[b] ]
  /\ UNCHANGED << tokens, parked, ops, orphans, clock, alive, grants >>

\* The rows come back and each token is recorded.
ClaimReturned(c) ==
  LET s == c.session IN
  /\ c \in claims
  /\ s \in alive
  /\ claims' = claims \ {c}
  /\ tokens' = [ tokens EXCEPT ![s] =
                  [ b \in Batches |-> IF b \in c.taken
                                     THEN Activated(@[b], c.gens[b]) ELSE @[b] ] ]
  /\ parked' = [ parked EXCEPT ![s] = SelectSeq(@, LAMBDA b : b \notin c.taken) ]
  /\ grants' = [ grants EXCEPT ![s] =
                  [ b \in Batches |-> IF b \in c.taken
                                     THEN @[b] \cup {c.gens[b]} ELSE @[b] ] ]
  /\ UNCHANGED << rows, ops, orphans, clock, alive, holder >>

\* The claim took effect but its answer never arrived (deadline or crash).
ClaimLost(c) ==
  /\ c \in claims
  /\ claims' = claims \ {c}
  /\ UNCHANGED << rows, tokens, parked, ops, orphans, clock, alive, holder, grants >>

-----------------------------------------------------------------------------
\* The process dies: its fence goes with it, its statements may still land.
Crash(s) ==
  /\ s \in alive
  /\ Cardinality(orphans \cup UNION { InFlight(s, b) : b \in Batches }) <= bound.inFlight
  /\ alive' = alive \ {s}
  /\ orphans' = orphans \cup UNION { InFlight(s, b) : b \in Batches }
  /\ ops' = [ ops EXCEPT ![s] = [ b \in Batches |-> Idle ] ]
  /\ tokens' = [ tokens EXCEPT ![s] = [ b \in Batches |-> NoToken ] ]
  /\ parked' = [ parked EXCEPT ![s] = << >> ]
  /\ grants' = [ grants EXCEPT ![s] = [ b \in Batches |-> {} ] ]
  /\ UNCHANGED << rows, claims, clock, holder >>

Tick ==
  /\ clock < bound.clock
  /\ clock' = clock + 1
  /\ UNCHANGED << rows, tokens, parked, ops, orphans, claims, alive, holder, grants >>

Step ==
  \/ \E s \in Sessions, b \in Batches :
       \/ Save(s, b) \/ SaveTimedOut(s, b)
       \/ \E to \in BatchStates : BeginUpdate(s, b, to)
       \/ ReadState(s, b) \/ WriteState(s, b) \/ Wrote(s, b)
       \/ LostClaim(s, b) \/ Abandon(s, b)
  \/ \E o \in orphans : LateWrite(o)
  \/ \E s \in Sessions : Claim(s) \/ Crash(s)
  \/ \E c \in claims : ClaimReturned(c) \/ ClaimLost(c)
  \/ Tick

Next == Step /\ UNCHANGED bound

Spec == Init /\ [][Next]_vars

-----------------------------------------------------------------------------
(* Properties.                                                              *)

\* A process that may still write a row at its current generation - through a
\* token, a call in progress, a claim not yet answered or a statement left in
\* flight - is the one that inserted or last claimed the row: two engines,
\* even under one owner name, never both pass the claim_gen test.
ExclusiveClaim ==
  \A b \in Batches : rows[b] # NoRow =>
    /\ \A s \in Sessions :
         /\ Holds(s, b) /\ tokens[s][b].gen = rows[b].gen => s = holder[b]
         /\ ops[s][b] # Idle /\ ops[s][b].held /\ ops[s][b].gen = rows[b].gen
              => s = holder[b]
    /\ \A c \in claims : b \in c.taken /\ c.gens[b] = rows[b].gen
         => c.session = holder[b]
    /\ \A o \in orphans : o.batch = b /\ o.gen = rows[b].gen
         => o.session = holder[b]

\* The inductive invariant behind ExclusiveClaim: every generation a session
\* knows for a row, wherever it keeps it, is no newer than the row's, and the
\* row's own generation is known to its holder alone.
Fenced(s, b, g) ==
  rows[b] # NoRow /\ g <= rows[b].gen /\ (g = rows[b].gen => s = holder[b])

TokensFenced ==
  \A s \in Sessions, b \in Batches : Holds(s, b) => Fenced(s, b, tokens[s][b].gen)

OpsFenced ==
  \A s \in Sessions, b \in Batches :
    ops[s][b] # Idle /\ (ops[s][b].held \/ ops[s][b].pc # "read")
      => ops[s][b].held /\ Fenced(s, b, ops[s][b].gen)

ClaimsFenced ==
  \A c \in claims, b \in Batches : b \in c.taken => Fenced(c.session, b, c.gens[b])

OrphansFenced ==
  \A o \in orphans : Fenced(o.session, o.batch, o.gen)

ClaimInv == TypeOK /\ TokensFenced /\ OpsFenced /\ ClaimsFenced /\ OrphansFenced

\* No writer moves a row that another session has since claimed, however long
\* it stalled, and whatever state the new owner has reached.
FencedWrites ==
  [][ \A b \in Batches :
        rows[b] # NoRow /\ rows'[b].state # rows[b].state
          => \/ /\ ops[holder[b]][b].pc = "write"
                /\ ops'[holder[b]][b].pc = "wrote"
             \/ \E o \in orphans \ orphans' :
                  o.session = holder[b] /\ o.batch = b ]_vars

\* A row only moves along the batch lifecycle, also when a statement that
\* outlived its caller lands between another call's read and its write; in
\* particular it reaches SourceCommitted only from Verified and stays there.
LegalTransitions ==
  [][ \A b \in Batches :
        rows[b] # NoRow /\ rows'[b].state # rows[b].state
          => CanTransition(rows[b].state, rows'[b].state) ]_vars

\* What a call or a statement left in flight is about to write was legal from
\* the state it was read at.
StatementsLegal ==
  /\ \A s \in Sessions, b \in Batches :
       ops[s][b].pc = "write" => CanTransition(ops[s][b].from, ops[s][b].to)
  /\ \A o \in orphans : CanTransition(o.from, o.to)

\* A generation a session was granted is no newer than the row's.
GrantsFenced ==
  \A s \in Sessions, b \in Batches : \A g \in grants[s][b] :
    rows[b] # NoRow /\ g <= rows[b].gen

\* The session whose claim is the newest, whose claim was answered and who has
\* not ended its work on the batch keeps an active token at that generation:
\* neither a late answer to an older claim, nor the completion of an older
\* write, nor eviction of parked tokens refuses the rightful writer.
NewestClaimKeepsToken ==
  \A s \in Sessions, b \in Batches :
    rows[b] # NoRow /\ rows[b].gen \in grants[s][b]
      => tokens[s][b] = [ gen |-> rows[b].gen, kept |-> "active" ]

\* What makes it inductive: a token is evicted only while parked, and no
\* generation a session was granted, or holds, is newer than its row's.
KeepInv == ClaimInv /\ GrantsFenced /\ NewestClaimKeepsToken

=============================================================================
