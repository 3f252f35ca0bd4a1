---------------------------- MODULE LedgerProofs -----------------------------
(***************************************************************************)
(* Type correctness of Ledger and the life cycle of its rows; claims        *)
(* exclude one another and fence the writes of superseded holders. For      *)
(* every set of batches, sessions and owners.                               *)
(***************************************************************************)
EXTENDS Ledger, TLAPS

LEMMA TypeInit == Init => TypeOK
  BY BoundAssumption DEF Init, TypeOK

\* Releasing or parking a token keeps the fence a table of tokens.
LEMMA ReleaseTyped ==
  ASSUME TypeOK, NEW s \in Sessions, NEW b \in Batches, NEW g, Release(s, b, g)
  PROVE  tokens' \in [ Sessions -> [ Batches -> Token \cup {NoToken} ] ]
  <1>1. CASE Holds(s, b) /\ tokens[s][b].gen = g
    <2>1. tokens' = [ tokens EXCEPT ![s] = [ tokens[s] EXCEPT ![b] = NoToken ] ]
      BY <1>1, Zenon DEF Release
    <2> QED BY <2>1, Zenon DEF TypeOK
  <1>2. CASE ~(Holds(s, b) /\ tokens[s][b].gen = g)
    BY <1>2, Zenon DEF Release, TypeOK
  <1> QED BY <1>1, <1>2, Zenon

LEMMA ParkTyped ==
  ASSUME TypeOK, NEW s \in Sessions, NEW b \in Batches, NEW g, Park(s, b, g)
  PROVE  tokens' \in [ Sessions -> [ Batches -> Token \cup {NoToken} ] ]
  <1> DEFINE t == [ tokens[s] EXCEPT ![b].kept = "parked" ]
  <1>1. CASE Holds(s, b) /\ tokens[s][b].gen = g
    <2>1. tokens[s][b] \in Token
      BY <1>1 DEF TypeOK, Holds, NoToken
    <2>2. [ tokens[s][b] EXCEPT !.kept = "parked" ] \in Token
      BY <2>1, Zenon DEF Token
    <2>3. t = [ tokens[s] EXCEPT ![b] = [ tokens[s][b] EXCEPT !.kept = "parked" ] ]
      BY Zenon
    <2>4. t \in [ Batches -> Token \cup {NoToken} ]
      BY <2>2, <2>3, Zenon DEF TypeOK
    <2>5. \A x : [ t EXCEPT ![x] = NoToken ] \in [ Batches -> Token \cup {NoToken} ]
      BY <2>4, Zenon
    <2>6. \E x : tokens' = [ tokens EXCEPT ![s] = [ t EXCEPT ![x] = NoToken ] ]
               \/ tokens' = [ tokens EXCEPT ![s] = t ]
      BY <1>1, Zenon DEF Park, Evicted
    <2> HIDE DEF t
    <2> QED BY <2>4, <2>5, <2>6, Zenon DEF TypeOK
  <1>2. CASE ~(Holds(s, b) /\ tokens[s][b].gen = g)
    BY <1>2, Zenon DEF Park, TypeOK
  <1> QED BY <1>1, <1>2, Zenon

LEMMA StepTyped ==
  ASSUME TypeOK, NEW s \in Sessions, NEW b \in Batches,
         NEW op \in Op \cup {Idle}, Call(s, b, op)
  PROVE  ops' \in [ Sessions -> [ Batches -> Op \cup {Idle} ] ]
  BY Zenon DEF Call, TypeOK

\* A call past its beginning has the fields of an operation.
LEMMA OpFields ==
  ASSUME TypeOK, NEW s \in Sessions, NEW b \in Batches,
         ops[s][b].pc \in {"read", "write", "check", "wrote"}
  PROVE  ops[s][b] \in Op
  BY DEF TypeOK, Idle

LEMMA RowFields ==
  ASSUME TypeOK, NEW b \in Batches, rows[b] # NoRow
  PROVE  rows[b] \in Row
  BY Zenon DEF TypeOK

LEMMA MovedTyped ==
  ASSUME TypeOK, NEW b \in Batches, NEW to \in BatchStates,
         rows[b] # NoRow, Moved(b, to)
  PROVE  rows' \in [ Batches -> Row \cup {NoRow} ]
  <1>1. [ rows[b] EXCEPT !.state = to ] \in Row
    BY RowFields, Zenon DEF Row
  <1>2. rows' = [ rows EXCEPT ![b] = [ rows[b] EXCEPT !.state = to ] ]
    BY Zenon DEF Moved
  <1> QED BY <1>1, <1>2, Zenon DEF TypeOK

LEMMA ActivatedTyped ==
  ASSUME NEW tok \in Token \cup {NoToken}, NEW g \in Nat
  PROVE  Activated(tok, g) \in Token
  BY DEF Activated, Token, NoToken

\* The statement a call leaves behind.
LEMMA InFlightTyped ==
  ASSUME TypeOK, NEW s \in Sessions, NEW b \in Batches
  PROVE  InFlight(s, b) \subseteq Statement
  <1>1. CASE ops[s][b].pc = "write"
    BY <1>1, OpFields DEF InFlight, Statement, Op
  <1>2. CASE ops[s][b].pc # "write"
    BY <1>2, Zenon DEF InFlight
  <1> QED BY <1>1, <1>2, Zenon

LEMMA TakenOverTyped ==
  ASSUME TypeOK, NEW s \in Sessions, NEW b \in Batches, rows[b] # NoRow
  PROVE  TakenOver(s, rows[b]) \in Row /\ TakenOver(s, rows[b]).gen = rows[b].gen + 1
         /\ rows[b].gen \in Nat /\ TakenOver(s, rows[b]) # NoRow
  <1>1. rows[b] \in Row
    BY RowFields, Zenon
  <1>2. OwnerOf[s] \in Owners /\ clock + LeaseTtl \in Nat
    BY OwnerAssumption, LeaseAssumption DEF TypeOK
  <1>3. \A r \in Row : r.state # "NoRow"
    BY Zenon DEF Row, BatchStates
  <1>4. TakenOver(s, rows[b]) \in Row /\ TakenOver(s, rows[b]).gen = rows[b].gen + 1
         /\ rows[b].gen \in Nat
    <2>1. rows[b].gen \in Nat /\ rows[b].gen + 1 \in Nat
      BY <1>1 DEF Row
    <2>2. TakenOver(s, rows[b]).gen = rows[b].gen + 1
      BY <1>1, Zenon DEF TakenOver, Row
    <2>3. TakenOver(s, rows[b]) \in Row
      BY <1>1, <1>2, <2>1, Zenon DEF TakenOver, Row
    <2> QED BY <2>1, <2>2, <2>3, Zenon
  <1> QED BY <1>3, <1>4 DEF NoRow

LEMMA TypeSave ==
  ASSUME TypeOK, NEW s \in Sessions, NEW b \in Batches,
         Save(s, b) \/ SaveTimedOut(s, b)
  PROVE  TypeOK'
  <1>1. Inserted(s) \in Row
    BY OwnerAssumption, LeaseAssumption DEF TypeOK, Inserted, Row, BatchStates
  <1>2. Insert(s, b)
    BY Zenon DEF Save, SaveTimedOut
  <1>3. rows' \in [ Batches -> Row \cup {NoRow} ]
    BY <1>1, <1>2, Zenon DEF Insert, TypeOK
  <1>4. Activated(tokens[s][b], 0) \in Token
    <2>1. tokens[s][b] \in Token \cup {NoToken}
      BY DEF TypeOK
    <2> QED BY <2>1, ActivatedTyped, Zenon
  <1>5. tokens' \in [ Sessions -> [ Batches -> Token \cup {NoToken} ] ]
    <2>1. \/ tokens' = tokens
          \/ tokens' = [ tokens EXCEPT ![s] =
                           [ tokens[s] EXCEPT ![b] = Activated(tokens[s][b], 0) ] ]
      BY Zenon DEF Save, SaveTimedOut
    <2>2. [ tokens[s] EXCEPT ![b] = Activated(tokens[s][b], 0) ]
            \in [ Batches -> Token \cup {NoToken} ]
      BY <1>4, Zenon DEF TypeOK
    <2> QED BY <2>1, <2>2, Zenon DEF TypeOK
  <1>6. grants' \in [ Sessions -> [ Batches -> SUBSET Nat ] ]
    <2>1. \/ grants' = grants
          \/ grants' = [ grants EXCEPT ![s] =
                           [ grants[s] EXCEPT ![b] = grants[s][b] \cup {0} ] ]
      BY Zenon DEF Save, SaveTimedOut
    <2>2. grants[s][b] \cup {0} \in SUBSET Nat
      BY DEF TypeOK
    <2>3. [ grants[s] EXCEPT ![b] = grants[s][b] \cup {0} ] \in [ Batches -> SUBSET Nat ]
      BY <2>2, Zenon DEF TypeOK
    <2> QED BY <2>1, <2>3, Zenon DEF TypeOK
  <1>7. holder' \in [ Batches -> Sessions \cup {Nobody} ]
    BY <1>2, Zenon DEF Insert, TypeOK
  <1> QED BY <1>2, <1>3, <1>5, <1>6, <1>7, Zenon DEF Insert, TypeOK

LEMMA TypeUpdate ==
  ASSUME TypeOK, NEW s \in Sessions, NEW b \in Batches,
         \/ \E to \in BatchStates : BeginUpdate(s, b, to)
         \/ ReadState(s, b)
         \/ WriteState(s, b)
         \/ Wrote(s, b)
         \/ LostClaim(s, b)
  PROVE  TypeOK'
  <1> DEFINE op == ops[s][b]
  <1>1. ASSUME NEW to \in BatchStates, BeginUpdate(s, b, to) PROVE TypeOK'
    <2>1. to \in BatchStates
      BY Zenon
    <2>2. tokens[s][b].gen \in Nat
      BY DEF TypeOK, Token, NoToken
    <2>3. Holds(s, b) \in BOOLEAN
      BY Zenon DEF Holds
    <2>4. [ pc |-> "read", to |-> to, from |-> to, gen |-> tokens[s][b].gen,
            held |-> Holds(s, b), attempt |-> 0 ] \in Op
      BY <2>1, <2>2, <2>3, Zenon DEF Op
    <2>5. ops' \in [ Sessions -> [ Batches -> Op \cup {Idle} ] ]
      BY <1>1, <2>4, StepTyped, Zenon DEF BeginUpdate
    <2> QED BY <1>1, <2>5, Zenon DEF BeginUpdate, TypeOK
  <1>2. CASE ReadState(s, b)
    <2>1. op \in Op
      BY <1>2, OpFields, Zenon DEF ReadState
    <2>2. rows[b] # NoRow => rows[b].state \in BatchStates
      BY RowFields, Zenon DEF Row
    <2>3. rows[b] # NoRow => [ op EXCEPT !.pc = "write", !.from = rows[b].state ] \in Op
      BY <2>1, <2>2, Zenon DEF Op
    <2>4. ops' \in [ Sessions -> [ Batches -> Op \cup {Idle} ] ]
      BY <1>2, <2>3, StepTyped, Zenon DEF ReadState
    <2> QED BY <1>2, <2>4, Zenon DEF ReadState, TypeOK
  <1>3. CASE WriteState(s, b)
    <2>1. op \in Op
      BY <1>3, OpFields, Zenon DEF WriteState
    <2>2. /\ [ op EXCEPT !.pc = "wrote" ] \in Op
          /\ [ op EXCEPT !.pc = "check" ] \in Op
          /\ op.to \in BatchStates
      BY <2>1, Zenon DEF Op
    <2>3. ops' \in [ Sessions -> [ Batches -> Op \cup {Idle} ] ]
      BY <1>3, <2>2, StepTyped, Zenon DEF WriteState
    <2>4. rows' \in [ Batches -> Row \cup {NoRow} ]
      BY <1>3, <2>2, MovedTyped, Zenon DEF WriteState, Matches, TypeOK
    <2> QED BY <1>3, <2>3, <2>4, Zenon DEF WriteState, TypeOK
  <1>4. CASE Wrote(s, b)
    <2>1. Release(s, b, op.gen) \/ Park(s, b, op.gen) \/ UNCHANGED << tokens, parked >>
      BY <1>4, Zenon DEF Wrote
    <2>2. tokens' \in [ Sessions -> [ Batches -> Token \cup {NoToken} ] ]
      BY <2>1, ReleaseTyped, ParkTyped, Zenon DEF TypeOK
    <2>3. ops' \in [ Sessions -> [ Batches -> Op \cup {Idle} ] ]
      BY <1>4, StepTyped, Zenon DEF Wrote
    <2>4. grants' \in [ Sessions -> [ Batches -> SUBSET Nat ] ]
      BY <1>4 DEF Wrote, TypeOK
    <2> QED BY <1>4, <2>2, <2>3, <2>4, Zenon DEF Wrote, TypeOK
  <1>5. CASE LostClaim(s, b)
    <2>1. op \in Op
      BY <1>5, OpFields, Zenon DEF LostClaim
    <2>2. [ op EXCEPT !.pc = "read", !.attempt = @ + 1 ] \in Op
      <3>1. op.attempt + 1 \in Nat
        BY <2>1 DEF Op
      <3>2. [ op EXCEPT !.pc = "read", !.attempt = op.attempt + 1 ] \in Op
        BY <2>1, <3>1, Zenon DEF Op
      <3> QED BY <3>2, Zenon
    <2>3. Park(s, b, op.gen) \/ UNCHANGED << tokens, parked >>
      BY <1>5, Zenon DEF LostClaim
    <2>4. tokens' \in [ Sessions -> [ Batches -> Token \cup {NoToken} ] ]
      BY <2>3, ParkTyped, Zenon DEF TypeOK
    <2>5. ops' \in [ Sessions -> [ Batches -> Op \cup {Idle} ] ]
      BY <1>5, <2>2, StepTyped, Zenon DEF LostClaim
    <2> QED BY <1>5, <2>4, <2>5, Zenon DEF LostClaim, TypeOK
  <1> QED BY <1>1, <1>2, <1>3, <1>4, <1>5, Zenon

LEMMA TypeClaim ==
  ASSUME TypeOK, NEW s \in Sessions, Claim(s)
  PROVE  TypeOK'
  <1>1. \A b \in Claimable(s) : b \in Batches /\ rows[b] # NoRow
    BY Zenon DEF Claimable
  <1>2. rows' \in [ Batches -> Row \cup {NoRow} ]
    BY <1>1, TakenOverTyped, Zenon DEF Claim, TypeOK
  <1> DEFINE c == [ session |-> s, taken |-> Claimable(s),
                    gens |-> [ b \in Batches |->
                       IF b \in Claimable(s) THEN TakenOver(s, rows[b]).gen ELSE 0 ] ]
  <1>3. \A b \in Claimable(s) : TakenOver(s, rows[b]).gen \in Nat
    BY <1>1, TakenOverTyped
  <1>4. c \in Claimed
    BY <1>1, <1>3, Zenon DEF Claimed
  <1>5. claims' \subseteq Claimed
    BY <1>4, Zenon DEF Claim, TypeOK
  <1>6. holder' \in [ Batches -> Sessions \cup {Nobody} ]
    BY Zenon DEF Claim, TypeOK
  <1> QED BY <1>2, <1>5, <1>6, Zenon DEF Claim, TypeOK

LEMMA TypeClaimReturned ==
  ASSUME TypeOK, NEW c \in claims, ClaimReturned(c)
  PROVE  TypeOK'
  <1>1. c \in Claimed
    BY Zenon DEF TypeOK
  <1>2. /\ c.session \in Sessions
        /\ \A b \in Batches : c.gens[b] \in Nat
    BY <1>1, Zenon DEF Claimed
  <1>3. \A b \in Batches : Activated(tokens[c.session][b], c.gens[b]) \in Token
    BY <1>2, ActivatedTyped, Zenon DEF TypeOK
  <1>4. tokens' \in [ Sessions -> [ Batches -> Token \cup {NoToken} ] ]
    BY <1>2, <1>3, Zenon DEF ClaimReturned, TypeOK
  <1>5. grants' \in [ Sessions -> [ Batches -> SUBSET Nat ] ]
    BY <1>2 DEF ClaimReturned, TypeOK
  <1> QED BY <1>4, <1>5, Zenon DEF ClaimReturned, TypeOK

LEMMA TypeStep == TypeOK /\ [Next]_vars => TypeOK'
  <1> SUFFICES ASSUME TypeOK, [Next]_vars PROVE TypeOK'
    BY Zenon
  <1>1. ASSUME NEW s \in Sessions, NEW b \in Batches, Abandon(s, b) PROVE TypeOK'
    BY <1>1, InFlightTyped, StepTyped, Zenon DEF Abandon, TypeOK
  <1>2. ASSUME NEW o \in orphans, LateWrite(o) PROVE TypeOK'
    <2>1. o.batch \in Batches /\ o.to \in BatchStates
      BY Zenon DEF TypeOK, Statement
    <2>2. rows' \in [ Batches -> Row \cup {NoRow} ]
      BY <1>2, <2>1, MovedTyped, Zenon DEF LateWrite, Matches, TypeOK
    <2> QED BY <1>2, <2>2, Zenon DEF LateWrite, TypeOK
  <1>3. ASSUME NEW c \in claims, ClaimLost(c) PROVE TypeOK'
    BY <1>3, Zenon DEF ClaimLost, TypeOK
  <1>4. ASSUME NEW s \in Sessions, Crash(s) PROVE TypeOK'
    <2>1. UNION { InFlight(s, b) : b \in Batches } \subseteq Statement
      BY InFlightTyped, Zenon
    <2> QED BY <1>4, <2>1, Zenon DEF Crash, TypeOK
  <1>5. CASE Tick
    BY <1>5 DEF Tick, TypeOK
  <1>6. CASE UNCHANGED vars
    BY <1>6, Zenon DEF vars, TypeOK
  <1> QED
    BY <1>1, <1>2, <1>3, <1>4, <1>5, <1>6, TypeSave, TypeUpdate, TypeClaim,
       TypeClaimReturned, Zenon DEF Next, Step

\* The ledger, the fences and the calls in progress keep their types.
THEOREM TypeCorrect == Spec => []TypeOK
  BY TypeInit, TypeStep, PTL DEF Spec

-----------------------------------------------------------------------------
\* A step of a call changes that call alone.
LEMMA OpsStep ==
  ASSUME TypeOK, NEW s \in Sessions, NEW b \in Batches, NEW op, Call(s, b, op)
  PROVE  \A t \in Sessions, c \in Batches :
           ops'[t][c] = IF t = s /\ c = b THEN op ELSE ops[t][c]
  BY Zenon DEF Call, TypeOK

\* A row changes state only through a statement that matched it: the write of
\* a call in progress, or one that outlived its caller.
LEMMA RowMoves ==
  ASSUME TypeOK, Next, NEW b \in Batches, rows[b] # NoRow,
         rows'[b].state # rows[b].state
  PROVE  \/ \E s \in Sessions :
              /\ WriteState(s, b)
              /\ Matches(b, ops[s][b].from, ops[s][b].gen)
              /\ rows'[b].state = ops[s][b].to
         \/ \E o \in orphans :
              /\ o.batch = b
              /\ LateWrite(o)
              /\ Matches(b, o.from, o.gen)
              /\ rows'[b].state = o.to
  <1>0. rows[b] \in Row
    BY RowFields, Zenon
  <1>1. ASSUME NEW s \in Sessions, NEW c \in Batches, WriteState(s, c)
        PROVE  /\ c = b
               /\ Matches(b, ops[s][b].from, ops[s][b].gen)
               /\ rows'[b].state = ops[s][b].to
    <2>1. Matches(c, ops[s][c].from, ops[s][c].gen) /\ Moved(c, ops[s][c].to)
      BY <1>1, Zenon DEF WriteState
    <2>2. c = b
      BY <2>1, Zenon DEF Moved, TypeOK
    <2> QED BY <1>0, <2>1, <2>2, Zenon DEF Moved, TypeOK, Row
  <1>2. ASSUME NEW o \in orphans, LateWrite(o)
        PROVE  o.batch = b /\ Matches(b, o.from, o.gen) /\ rows'[b].state = o.to
    <2>0. o.batch \in Batches
      BY Zenon DEF TypeOK, Statement
    <2>1. Matches(o.batch, o.from, o.gen) /\ Moved(o.batch, o.to)
      BY <1>2, Zenon DEF LateWrite
    <2>2. o.batch = b
      BY <2>0, <2>1, Zenon DEF Moved, TypeOK
    <2> QED BY <1>0, <2>1, <2>2, Zenon DEF Moved, TypeOK, Row
  <1>3. ASSUME NEW s \in Sessions, NEW c \in Batches,
               \/ Save(s, c) \/ SaveTimedOut(s, c)
               \/ \E to \in BatchStates : BeginUpdate(s, c, to)
               \/ ReadState(s, c) \/ Wrote(s, c) \/ LostClaim(s, c) \/ Abandon(s, c)
        PROVE  FALSE
    BY <1>3, Zenon DEF Save, SaveTimedOut, Insert, BeginUpdate, ReadState, Wrote, LostClaim,
                Abandon, TypeOK
  <1>4. ASSUME NEW s \in Sessions, Claim(s) PROVE FALSE
    <2>1. TakenOver(s, rows[b]).state = rows[b].state
      BY <1>0, Zenon DEF TakenOver, Row
    <2> QED BY <1>4, <2>1, Zenon DEF Claim
  <1>5. ASSUME NEW s \in Sessions, Crash(s) PROVE FALSE
    BY <1>5, Zenon DEF Crash
  <1>6. ASSUME NEW k \in claims, ClaimReturned(k) \/ ClaimLost(k) PROVE FALSE
    BY <1>6, Zenon DEF ClaimReturned, ClaimLost
  <1>7. ~Tick
    BY Zenon DEF Tick
  <1> QED BY <1>1, <1>2, <1>3, <1>4, <1>5, <1>6, <1>7, Zenon DEF Next, Step

-----------------------------------------------------------------------------
(* What a step has to keep for the claims to stay fenced. *)

\* A step that leaves generations and holders alone.
SameGens ==
  /\ \A b \in Batches : rows[b] # NoRow => rows'[b] # NoRow /\ rows'[b].gen = rows[b].gen
  /\ holder' = holder

\* Fenced in the state a step leads to, for a generation known before it.
FencedAfter(s, b, g) ==
  rows'[b] # NoRow /\ g <= rows'[b].gen /\ (g = rows'[b].gen => s = holder'[b])

LEMMA SameGensFenced ==
  ASSUME SameGens, NEW s, NEW b \in Batches, NEW g, Fenced(s, b, g)
  PROVE  FencedAfter(s, b, g)
  BY Zenon DEF SameGens, Fenced, FencedAfter

LEMMA MovedSameGens ==
  ASSUME TypeOK, NEW b \in Batches, NEW to \in BatchStates, rows[b] # NoRow,
         Moved(b, to), holder' = holder
  PROVE  SameGens
  <1>1. rows[b] \in Row
    BY RowFields, Zenon
  <1>2. [ rows[b] EXCEPT !.state = to ] \in Row
        /\ [ rows[b] EXCEPT !.state = to ].gen = rows[b].gen
    BY <1>1, Zenon DEF Row
  <1>3. rows' = [ rows EXCEPT ![b] = [ rows[b] EXCEPT !.state = to ] ]
    BY Zenon DEF Moved
  <1>4. \A r \in Row : r # NoRow
    BY DEF Row, NoRow, BatchStates
  <1> QED BY <1>2, <1>3, <1>4, Zenon DEF SameGens, TypeOK

\* Ending or parking one token leaves every other generation as it was.
LEMMA ReleaseKeeps ==
  ASSUME TypeOK, NEW s \in Sessions, NEW b \in Batches, NEW g,
         Release(s, b, g) \/ Park(s, b, g) \/ UNCHANGED << tokens, parked >>
  PROVE  \A t \in Sessions, c \in Batches :
           Holds(t, c)' => Holds(t, c) /\ tokens'[t][c].gen = tokens[t][c].gen
  <1> SUFFICES ASSUME NEW t \in Sessions, NEW c \in Batches, Holds(t, c)'
               PROVE  Holds(t, c) /\ tokens'[t][c].gen = tokens[t][c].gen
    BY Zenon
  <1>1. CASE UNCHANGED tokens
    BY <1>1, Zenon DEF Holds
  <1>2. CASE Holds(s, b) /\ tokens' = [ tokens EXCEPT ![s] = [ tokens[s] EXCEPT ![b] = NoToken ] ]
    BY <1>2, Zenon DEF Holds, TypeOK, NoToken
  <1>3. CASE Holds(s, b) /\ Park(s, b, g)
    <2> DEFINE n == [ tokens[s] EXCEPT ![b].kept = "parked" ]
    <2>0. tokens[s][b] \in Token
      BY <1>3 DEF TypeOK, Holds, NoToken
    <2>1. \A y \in Batches : n[y].gen = tokens[s][y].gen /\ (n[y].kept # "none" => Holds(s, y))
      BY <1>3, <2>0, Zenon DEF TypeOK, Holds, Token
    <2>2. n \in [ Batches -> Token \cup {NoToken} ]
      <3>1. [ tokens[s][b] EXCEPT !.kept = "parked" ] \in Token
        BY <2>0, Zenon DEF Token
      <3>2. n = [ tokens[s] EXCEPT ![b] = [ tokens[s][b] EXCEPT !.kept = "parked" ] ]
        BY Zenon
      <3> QED BY <3>1, <3>2, Zenon DEF TypeOK
    <2>3. \/ tokens' = tokens
          \/ tokens' = [ tokens EXCEPT ![s] = n ]
          \/ \E x : tokens' = [ tokens EXCEPT ![s] = [ n EXCEPT ![x] = NoToken ] ]
      BY <1>3, Zenon DEF Park, Evicted
    <2> HIDE DEF n
    <2>4. CASE tokens' = [ tokens EXCEPT ![s] = n ]
      BY <2>1, <2>4, Zenon DEF Holds, TypeOK
    <2>5. ASSUME NEW x, tokens' = [ tokens EXCEPT ![s] = [ n EXCEPT ![x] = NoToken ] ]
          PROVE  Holds(t, c) /\ tokens'[t][c].gen = tokens[t][c].gen
      <3>1. CASE t = s
        <4>1. tokens'[t] = [ n EXCEPT ![x] = NoToken ]
          BY <2>5, <3>1, Zenon DEF TypeOK
        <4>2. c # x
          BY <4>1, <2>2 DEF Holds, NoToken
        <4>3. tokens'[t][c] = n[c]
          BY <4>1, <4>2, <2>2, Zenon
        <4> QED BY <4>3, <3>1, <2>1, Zenon DEF Holds
      <3>2. CASE t # s
        BY <2>5, <3>2, Zenon DEF Holds, TypeOK
      <3> QED BY <3>1, <3>2, Zenon
    <2> QED BY <1>1, <2>3, <2>4, <2>5, Zenon
  <1> QED BY <1>1, <1>2, <1>3, Zenon DEF Release, Park

\* A step that brings no generation to a place it was not known before: what
\* is known afterwards was known, to the same session, before.
Knows(s, b, g) ==
  \/ Holds(s, b) /\ tokens[s][b].gen = g
  \/ /\ ops[s][b] # Idle
     /\ ops[s][b].held \/ ops[s][b].pc # "read"
     /\ ops[s][b].gen = g

NothingLearned ==
  /\ \A s \in Sessions, b \in Batches :
       Holds(s, b)' => Knows(s, b, tokens'[s][b].gen)
  /\ \A s \in Sessions, b \in Batches :
       ops'[s][b] # Idle /\ (ops'[s][b].held \/ ops'[s][b].pc # "read")
         => ops'[s][b].held /\ Knows(s, b, ops'[s][b].gen)
  /\ \A o \in orphans' \ orphans : Knows(o.session, o.batch, o.gen)
  /\ claims' \subseteq claims

LEMMA KnownFenced ==
  ASSUME ClaimInv, NEW s \in Sessions, NEW b \in Batches, NEW g, Knows(s, b, g)
  PROVE  Fenced(s, b, g)
  BY Zenon DEF ClaimInv, TokensFenced, OpsFenced, Knows

LEMMA Frame ==
  ASSUME ClaimInv, TypeOK', SameGens, NothingLearned
  PROVE  ClaimInv'
  <1>1. TokensFenced'
    <2> SUFFICES ASSUME NEW s \in Sessions, NEW b \in Batches, Holds(s, b)'
                 PROVE  Fenced(s, b, tokens[s][b].gen)'
      BY Zenon DEF TokensFenced
    <2> DEFINE g == tokens'[s][b].gen
    <2>1. Fenced(s, b, g)
      BY KnownFenced, Zenon DEF NothingLearned
    <2> HIDE DEF g
    <2>2. FencedAfter(s, b, g)
      BY <2>1, SameGensFenced, Zenon
    <2> QED BY <2>2, Zenon DEF g, Fenced, FencedAfter
  <1>2. OpsFenced'
    <2> SUFFICES ASSUME NEW s \in Sessions, NEW b \in Batches,
                        ops'[s][b] # Idle, ops'[s][b].held \/ ops'[s][b].pc # "read"
                 PROVE  ops'[s][b].held /\ Fenced(s, b, ops[s][b].gen)'
      BY Zenon DEF OpsFenced, Idle
    <2> DEFINE g == ops'[s][b].gen
    <2>1. ops'[s][b].held /\ Fenced(s, b, g)
      BY KnownFenced, Zenon DEF NothingLearned
    <2> HIDE DEF g
    <2>2. FencedAfter(s, b, g)
      BY <2>1, SameGensFenced, Zenon
    <2> QED BY <2>1, <2>2, Zenon DEF g, Fenced, FencedAfter
  <1>3. ClaimsFenced'
    BY SameGensFenced DEF ClaimInv, ClaimsFenced, NothingLearned, Fenced, FencedAfter
  <1>4. OrphansFenced'
    <2> SUFFICES ASSUME NEW o \in orphans' PROVE Fenced(o.session, o.batch, o.gen)'
      BY Zenon DEF OrphansFenced
    <2>1. o.session \in Sessions /\ o.batch \in Batches
      BY Zenon DEF TypeOK, Statement
    <2>2. Fenced(o.session, o.batch, o.gen)
      BY <2>1, KnownFenced, Zenon DEF NothingLearned, ClaimInv, OrphansFenced
    <2> QED BY <2>1, <2>2, SameGensFenced, Zenon DEF Fenced, FencedAfter
  <1> QED BY <1>1, <1>2, <1>3, <1>4, Zenon DEF ClaimInv

-----------------------------------------------------------------------------
(* The batch life cycle. *)

LEMMA StatementsStep ==
  ASSUME TypeOK, StatementsLegal, [Next]_vars
  PROVE  StatementsLegal'
  <1>1. ASSUME NEW s \in Sessions, NEW b \in Batches,
               \/ \E to \in BatchStates : BeginUpdate(s, b, to)
               \/ WriteState(s, b) \/ Wrote(s, b) \/ LostClaim(s, b)
        PROVE  StatementsLegal'
    <2>1. \E x : x.pc # "write" /\ Call(s, b, x)
      <3>1. \A y \in {"wrote", "check", "read"} :
              ops[s][b].pc \in {"write", "check"} =>
                /\ [ ops[s][b] EXCEPT !.pc = y ].pc = y
                /\ [ ops[s][b] EXCEPT !.pc = y, !.attempt = @ + 1 ].pc = y
        BY OpFields, Zenon DEF Op
      <3>2. Idle.pc # "write"
        BY Zenon DEF Idle
      <3>3. CASE \E to \in BatchStates : BeginUpdate(s, b, to)
        BY <3>3, Zenon DEF BeginUpdate
      <3>4. CASE WriteState(s, b)
        BY <3>1, <3>4, Zenon DEF WriteState
      <3>5. CASE Wrote(s, b)
        BY <3>2, <3>5, Zenon DEF Wrote
      <3>6. CASE LostClaim(s, b)
        BY <3>1, <3>2, <3>6, Zenon DEF LostClaim
      <3> QED BY <1>1, <3>3, <3>4, <3>5, <3>6, Zenon
    <2>2. orphans' = orphans
      BY <1>1, Zenon DEF BeginUpdate, WriteState, Wrote, LostClaim
    <2>3. PICK x : x.pc # "write" /\ Call(s, b, x)
      BY <2>1, Zenon
    <2>4. \A t \in Sessions, c \in Batches :
            ops'[t][c] = IF t = s /\ c = b THEN x ELSE ops[t][c]
      BY <2>3, OpsStep
    <2> QED BY <2>2, <2>3, <2>4 DEF StatementsLegal
  <1>2. ASSUME NEW s \in Sessions, NEW b \in Batches, ReadState(s, b)
        PROVE  StatementsLegal'
    <2> DEFINE new == [ ops[s][b] EXCEPT !.pc = "write", !.from = rows[b].state ]
    <2>1. ops[s][b] \in Op
      BY <1>2, OpFields, Zenon DEF ReadState
    <2>2. new.to = ops[s][b].to /\ new.from = rows[b].state
      BY <2>1, Zenon DEF Op
    <2>3. \E x : /\ x = Idle \/ (x = new /\ CanTransition(new.from, new.to))
                 /\ Call(s, b, x)
      BY <1>2, <2>2, Zenon DEF ReadState
    <2> HIDE DEF new
    <2>4. PICK x : /\ x = Idle \/ (x = new /\ CanTransition(new.from, new.to))
                   /\ Call(s, b, x)
      BY <2>3, Zenon
    <2>5. \A t \in Sessions, c \in Batches :
            ops'[t][c] = IF t = s /\ c = b THEN x ELSE ops[t][c]
      BY <2>4, OpsStep
    <2>6. orphans' = orphans /\ Idle.pc # "write"
      BY <1>2, Zenon DEF ReadState, Idle
    <2> QED BY <2>4, <2>5, <2>6 DEF StatementsLegal
  <1>3. ASSUME NEW s \in Sessions, NEW b \in Batches, Abandon(s, b)
        PROVE  StatementsLegal'
    <2>1. \A t \in Sessions, c \in Batches :
            ops'[t][c] = IF t = s /\ c = b THEN Idle ELSE ops[t][c]
      BY <1>3, OpsStep DEF Abandon
    <2>2. orphans' = orphans \cup InFlight(s, b)
      BY <1>3, Zenon DEF Abandon
    <2> QED BY <2>1, <2>2 DEF StatementsLegal, InFlight, Idle
  <1>4. ASSUME NEW s \in Sessions, Crash(s) PROVE StatementsLegal'
    <2>1. \A t \in Sessions, c \in Batches :
            ops'[t][c] = IF t = s THEN Idle ELSE ops[t][c]
      BY <1>4, Zenon DEF Crash, TypeOK
    <2>2. orphans' = orphans \cup UNION { InFlight(s, b) : b \in Batches }
      BY <1>4, Zenon DEF Crash
    <2> QED BY <2>1, <2>2 DEF StatementsLegal, InFlight, Idle
  <1>5. ASSUME ops' = ops, orphans' \subseteq orphans PROVE StatementsLegal'
    BY <1>5, Zenon DEF StatementsLegal
  <1>6. ASSUME NEW s \in Sessions, NEW b \in Batches, Save(s, b) \/ SaveTimedOut(s, b)
        PROVE  StatementsLegal'
    BY <1>5, <1>6, Zenon DEF Save, SaveTimedOut, Insert
  <1>7. ASSUME \/ \E o \in orphans : LateWrite(o)
               \/ \E s \in Sessions : Claim(s)
               \/ \E k \in claims : ClaimReturned(k) \/ ClaimLost(k)
               \/ Tick \/ UNCHANGED vars
        PROVE  StatementsLegal'
    BY <1>5, <1>7, Zenon DEF LateWrite, Claim, ClaimReturned, ClaimLost, Tick, vars
  <1> QED BY <1>1, <1>2, <1>3, <1>4, <1>6, <1>7, Zenon DEF Next, Step

\* Whatever lands late or races, a row moves only along the batch lifecycle:
\* SourceCommitted is entered from Verified alone and never left.
THEOREM LegalTransitionsHold == Spec => LegalTransitions
  <1> DEFINE A == \A b \in Batches :
                    rows[b] # NoRow /\ rows'[b].state # rows[b].state
                      => CanTransition(rows[b].state, rows'[b].state)
  <1>1. Init => StatementsLegal
    <2> SUFFICES ASSUME Init PROVE StatementsLegal
      BY Zenon
    <2>1. Idle.pc # "write"
      BY Zenon DEF Idle
    <2>2. \A s \in Sessions, b \in Batches : ops[s][b] = Idle
      BY Zenon DEF Init
    <2>3. orphans = {}
      BY Zenon DEF Init
    <2> QED BY <2>1, <2>2, <2>3, Zenon DEF StatementsLegal
  <1>2. Spec => [](TypeOK /\ StatementsLegal)
    <2>1. Init => TypeOK /\ StatementsLegal
      BY TypeInit, <1>1, Zenon
    <2>2. TypeOK /\ StatementsLegal /\ [Next]_vars => (TypeOK /\ StatementsLegal)'
      BY TypeStep, StatementsStep, Zenon
    <2> QED BY <2>1, <2>2, PTL DEF Spec
  <1>3. ASSUME TypeOK, StatementsLegal, [Next]_vars PROVE [A]_vars
    <2> SUFFICES ASSUME Next, NEW b \in Batches, rows[b] # NoRow,
                        rows'[b].state # rows[b].state
                 PROVE  CanTransition(rows[b].state, rows'[b].state)
      BY <1>3, Zenon
    <2>1. ASSUME NEW s \in Sessions, WriteState(s, b),
                 Matches(b, ops[s][b].from, ops[s][b].gen),
                 rows'[b].state = ops[s][b].to
          PROVE  CanTransition(rows[b].state, rows'[b].state)
      BY <1>3, <2>1, Zenon DEF WriteState, Matches, StatementsLegal
    <2>2. ASSUME NEW o \in orphans, Matches(b, o.from, o.gen), rows'[b].state = o.to
          PROVE  CanTransition(rows[b].state, rows'[b].state)
      BY <1>3, <2>2, Zenon DEF Matches, StatementsLegal
    <2> QED BY <1>3, <2>1, <2>2, RowMoves, Zenon
  <1>4. Spec => [][A]_vars
    BY <1>2, <1>3, PTL DEF Spec
  <1> QED BY <1>4, Zenon DEF LegalTransitions

-----------------------------------------------------------------------------
(* Claims and the writes they fence. *)

LEMMA FenceUpdate ==
  ASSUME ClaimInv, TypeOK', NEW s \in Sessions, NEW b \in Batches,
         \/ \E to \in BatchStates : BeginUpdate(s, b, to)
         \/ ReadState(s, b)
         \/ WriteState(s, b)
         \/ Wrote(s, b)
         \/ LostClaim(s, b)
  PROVE  ClaimInv'
  <1> DEFINE op == ops[s][b]
  <1>0. TypeOK
    BY Zenon DEF ClaimInv
  <1>1. ASSUME NEW to \in BatchStates, BeginUpdate(s, b, to) PROVE ClaimInv'
    <2> DEFINE new == [ pc |-> "read", to |-> to, from |-> to,
                        gen |-> tokens[s][b].gen, held |-> Holds(s, b),
                        attempt |-> 0 ]
    <2>1. \A t \in Sessions, c \in Batches :
            ops'[t][c] = IF t = s /\ c = b THEN new ELSE ops[t][c]
      BY <1>0, <1>1, OpsStep DEF BeginUpdate
    <2>2. new.pc = "read" /\ new.gen = tokens[s][b].gen /\ new.held = Holds(s, b)
      BY Zenon
    <2> HIDE DEF new
    <2>3. UNCHANGED << rows, tokens, parked, orphans, claims, holder >>
      BY <1>1, Zenon DEF BeginUpdate
    <2>4. NothingLearned
      <3>1. \A t \in Sessions, c \in Batches :
              Holds(t, c)' => Knows(t, c, tokens'[t][c].gen)
        BY <2>3, Zenon DEF Knows, Holds
      <3>2. \A t \in Sessions, c \in Batches :
              ops'[t][c] # Idle /\ (ops'[t][c].held \/ ops'[t][c].pc # "read")
                => ops'[t][c].held /\ Knows(t, c, ops'[t][c].gen)
        BY <2>1, <2>2 DEF Knows, ClaimInv, OpsFenced
      <3> QED BY <2>3, <3>1, <3>2, Zenon DEF NothingLearned
    <2>5. SameGens
      BY <2>3, Zenon DEF SameGens
    <2> QED BY <2>4, <2>5, Frame, Zenon
  <1>2. CASE ReadState(s, b)
    <2> DEFINE new == [ op EXCEPT !.pc = "write", !.from = rows[b].state ]
    <2>1. op \in Op
      BY <1>0, <1>2, OpFields, Zenon DEF ReadState
    <2>2. new.pc = "write" /\ new.gen = op.gen /\ new.held = op.held /\ op # Idle
      BY <2>1 DEF Op, Idle
    <2>3. \E x : /\ x = Idle \/ (x = new /\ op.held)
                 /\ \A t \in Sessions, c \in Batches :
                      ops'[t][c] = IF t = s /\ c = b THEN x ELSE ops[t][c]
      BY <1>0, <1>2, OpsStep DEF ReadState
    <2> HIDE DEF new
    <2>4. UNCHANGED << rows, tokens, parked, orphans, claims, holder >>
      BY <1>2, SMTT(20) DEF ReadState
    <2>5. NothingLearned
      BY <2>2, <2>3, <2>4 DEF NothingLearned, Knows, Holds, ClaimInv, OpsFenced
    <2>6. SameGens
      BY <2>4, Zenon DEF SameGens
    <2> QED BY <2>5, <2>6, Frame, Zenon
  <1>3. CASE WriteState(s, b)
    <2>1. op \in Op
      BY <1>0, <1>3, OpFields, Zenon DEF WriteState
    <2>2. op # Idle /\ op.to \in BatchStates /\ op.pc = "write"
      BY <1>3, <2>1 DEF Op, Idle, WriteState
    <2>3. \A x \in {"wrote", "check"} :
            [ op EXCEPT !.pc = x ].gen = op.gen /\ [ op EXCEPT !.pc = x ].held = op.held
      BY <2>1, Zenon DEF Op
    <2>4. \E x \in {"wrote", "check"} : \A t \in Sessions, c \in Batches :
            ops'[t][c] = IF t = s /\ c = b THEN [ op EXCEPT !.pc = x ] ELSE ops[t][c]
      BY <1>0, <1>3, OpsStep DEF WriteState
    <2>5. UNCHANGED << tokens, parked, orphans, claims, holder >>
      BY <1>3, Zenon DEF WriteState
    <2>6. NothingLearned
      <3>1. \A t \in Sessions, c \in Batches :
              Holds(t, c)' => Knows(t, c, tokens'[t][c].gen)
        BY <2>5, Zenon DEF Knows, Holds
      <3>2. \A t \in Sessions, c \in Batches :
              ops'[t][c] # Idle /\ (ops'[t][c].held \/ ops'[t][c].pc # "read")
                => ops'[t][c].held /\ Knows(t, c, ops'[t][c].gen)
        <4>1. PICK x \in {"wrote", "check"} : \A t \in Sessions, c \in Batches :
                ops'[t][c] = IF t = s /\ c = b THEN [ op EXCEPT !.pc = x ] ELSE ops[t][c]
          BY <2>4, Zenon
        <4> DEFINE new == [ op EXCEPT !.pc = x ]
        <4>2. \A t \in Sessions, c \in Batches :
                ops'[t][c] = IF t = s /\ c = b THEN new ELSE ops[t][c]
          BY <4>1, Zenon
        <4>3. new.gen = op.gen /\ new.held = op.held /\ op.held
          BY <2>2, <2>3, Zenon DEF ClaimInv, OpsFenced
        <4> HIDE DEF new
        <4>4. Knows(s, b, op.gen)
          BY <2>2, <4>3, Zenon DEF Knows
        <4>5. \A t \in Sessions, c \in Batches :
                ops[t][c] # Idle /\ (ops[t][c].held \/ ops[t][c].pc # "read")
                  => ops[t][c].held /\ Knows(t, c, ops[t][c].gen)
          BY Zenon DEF Knows, ClaimInv, OpsFenced
        <4> SUFFICES ASSUME NEW t \in Sessions, NEW c \in Batches, ops'[t][c] # Idle,
                            ops'[t][c].held \/ ops'[t][c].pc # "read"
                     PROVE  ops'[t][c].held /\ Knows(t, c, ops'[t][c].gen)
          BY Zenon
        <4>6. CASE t = s /\ c = b
          <5>1. ops'[t][c] = new
            BY <4>2, <4>6, Zenon
          <5> QED BY <4>3, <4>4, <4>6, <5>1, Zenon
        <4>7. CASE ~(t = s /\ c = b)
          <5>1. ops'[t][c] = ops[t][c]
            BY <4>2, <4>7, Zenon
          <5> QED BY <4>5, <5>1, Zenon
        <4> QED BY <4>6, <4>7, Zenon
      <3> QED BY <2>5, <3>1, <3>2, Zenon DEF NothingLearned
    <2>7. SameGens
      BY <1>0, <1>3, <2>2, <2>5, MovedSameGens, Zenon DEF WriteState, Matches, SameGens
    <2> QED BY <2>6, <2>7, Frame, Zenon
  <1>4. CASE Wrote(s, b) \/ LostClaim(s, b)
    <2>1. op \in Op
      BY <1>0, <1>4, OpFields, Zenon DEF Wrote, LostClaim
    <2> DEFINE new == [ op EXCEPT !.pc = "read", !.attempt = @ + 1 ]
    <2>2. op # Idle /\ op.pc # "read" /\ new.gen = op.gen /\ new.held = op.held
      BY <1>4, <2>1, SMTT(30) DEF Op, Idle, Wrote, LostClaim
    <2>3. \E x \in {Idle, new} : \A t \in Sessions, c \in Batches :
            ops'[t][c] = IF t = s /\ c = b THEN x ELSE ops[t][c]
      BY <1>0, <1>4, OpsStep DEF Wrote, LostClaim
    <2> HIDE DEF new
    <2>4. Release(s, b, op.gen) \/ Park(s, b, op.gen) \/ UNCHANGED << tokens, parked >>
      BY <1>4, Zenon DEF Wrote, LostClaim
    <2>5. \A t \in Sessions, c \in Batches :
            Holds(t, c)' => Holds(t, c) /\ tokens'[t][c].gen = tokens[t][c].gen
      BY <1>0, <2>4, ReleaseKeeps, Zenon
    <2>6. UNCHANGED << rows, orphans, claims, holder >>
      BY <1>4, SMTT(20) DEF Wrote, LostClaim
    <2>7. NothingLearned
      BY <2>2, <2>3, <2>5, <2>6, ZenonT(20) DEF NothingLearned, Knows, ClaimInv, OpsFenced
    <2>8. SameGens
      BY <2>6, Zenon DEF SameGens
    <2> QED BY <2>7, <2>8, Frame, Zenon
  <1> QED BY <1>1, <1>2, <1>3, <1>4, Zenon

LEMMA FenceSave ==
  ASSUME ClaimInv, TypeOK', NEW s \in Sessions, NEW b \in Batches,
         Save(s, b) \/ SaveTimedOut(s, b)
  PROVE  ClaimInv'
  <1>0. TypeOK
    BY Zenon DEF ClaimInv
  <1>1. Insert(s, b)
    BY Zenon DEF Save, SaveTimedOut
  <1>2. /\ rows[b] = NoRow /\ rows' = [ rows EXCEPT ![b] = Inserted(s) ]
        /\ holder' = [ holder EXCEPT ![b] = s ]
        /\ UNCHANGED << ops, orphans, claims >>
    BY <1>1, Zenon DEF Insert
  <1>3. Inserted(s) # NoRow /\ Inserted(s).gen = 0
    BY Zenon DEF Inserted, NoRow
  <1>4. \A t, c, g : c \in Batches /\ Fenced(t, c, g) => c # b /\ FencedAfter(t, c, g)
    BY <1>0, <1>2, Zenon DEF Fenced, FencedAfter, TypeOK
  <1>5. FencedAfter(s, b, 0)
    BY <1>0, <1>2, <1>3 DEF FencedAfter, TypeOK
  <1>6. \A t \in Sessions, c \in Batches :
          Holds(t, c)' => \/ Holds(t, c) /\ tokens'[t][c] = tokens[t][c]
                          \/ t = s /\ c = b /\ tokens'[t][c].gen = 0
    <2>1. ~Holds(s, b)
      BY <1>2, Zenon DEF ClaimInv, TokensFenced, Fenced
    <2>2. Activated(tokens[s][b], 0).gen = 0
      BY <2>1, Zenon DEF Activated, Holds
    <2>3. \/ tokens' = tokens
          \/ tokens' = [ tokens EXCEPT ![s] =
                           [ tokens[s] EXCEPT ![b] = Activated(tokens[s][b], 0) ] ]
      BY Zenon DEF Save, SaveTimedOut
    <2> QED BY <1>0, <2>2, <2>3 DEF Holds, TypeOK
  <1>7. TokensFenced'
    <2> SUFFICES ASSUME NEW t \in Sessions, NEW c \in Batches, Holds(t, c)'
                 PROVE  FencedAfter(t, c, tokens'[t][c].gen)
      BY Zenon DEF TokensFenced, Fenced, FencedAfter
    <2> QED BY <1>4, <1>5, <1>6, Zenon DEF TokensFenced, ClaimInv
  <1>8. OpsFenced'
    BY <1>2, <1>4 DEF OpsFenced, ClaimInv, Fenced, FencedAfter
  <1>9. ClaimsFenced'
    BY <1>2, <1>4 DEF ClaimsFenced, ClaimInv, Fenced, FencedAfter
  <1>10. OrphansFenced'
    BY <1>0, <1>2, <1>4, Zenon DEF OrphansFenced, ClaimInv, Fenced, FencedAfter, TypeOK, Statement
  <1> QED BY <1>7, <1>8, <1>9, <1>10, Zenon DEF ClaimInv

LEMMA FenceClaim ==
  ASSUME ClaimInv, TypeOK', NEW s \in Sessions, Claim(s)
  PROVE  ClaimInv'
  <1>0. TypeOK
    BY Zenon DEF ClaimInv
  <1>1. \A b \in Claimable(s) : b \in Batches /\ rows[b] # NoRow
    BY SMTT(20) DEF Claimable
  <1>2. \A b \in Claimable(s) :
          /\ rows'[b] # NoRow /\ rows'[b].gen = rows[b].gen + 1
          /\ rows[b].gen \in Nat /\ holder'[b] = s
          /\ TakenOver(s, rows[b]).gen = rows[b].gen + 1
    BY <1>0, <1>1, TakenOverTyped, ZenonT(20) DEF Claim
  <1>3. \A b \in Batches \ Claimable(s) : rows'[b] = rows[b] /\ holder'[b] = holder[b]
    BY Zenon DEF Claim
  <1>4. \A t, c, g : c \in Batches /\ g \in Nat /\ Fenced(t, c, g) => FencedAfter(t, c, g)
    BY <1>2, <1>3 DEF Fenced, FencedAfter
  <1>5. UNCHANGED << tokens, ops, orphans >>
    BY Zenon DEF Claim
  <1>6. TokensFenced'
    <2> SUFFICES ASSUME NEW t \in Sessions, NEW c \in Batches, Holds(t, c)'
                 PROVE  FencedAfter(t, c, tokens'[t][c].gen)
      BY Zenon DEF TokensFenced, Fenced, FencedAfter
    <2>1. tokens[t][c].gen \in Nat
      BY <1>0 DEF TypeOK, Token, NoToken
    <2>2. Fenced(t, c, tokens[t][c].gen)
      BY <1>5, Zenon DEF TokensFenced, ClaimInv, Holds
    <2> QED BY <1>4, <1>5, <2>1, <2>2, Zenon
  <1>7. OpsFenced'
    <2>1. \A t \in Sessions, c \in Batches : ops[t][c] # Idle => ops[t][c].gen \in Nat
      BY <1>0 DEF TypeOK, Op
    <2> QED BY <1>4, <1>5, <2>1, SMTT(30) DEF OpsFenced, ClaimInv, Fenced, FencedAfter
  <1>8. ClaimsFenced'
    <2> SUFFICES ASSUME NEW c \in claims', NEW b \in Batches, b \in c.taken
                 PROVE  FencedAfter(c.session, b, c.gens[b])
      BY Zenon DEF ClaimsFenced, Fenced, FencedAfter
    <2>1. CASE c \in claims
      <3>1. c.gens[b] \in Nat
        BY <1>0, <2>1, Zenon DEF TypeOK, Claimed
      <3> QED BY <1>4, <2>1, <3>1, Zenon DEF ClaimsFenced, ClaimInv
    <2>2. CASE c \notin claims
      <3>1. c = [ session |-> s, taken |-> Claimable(s),
                  gens |-> [ x \in Batches |->
                     IF x \in Claimable(s) THEN TakenOver(s, rows[x]).gen ELSE 0 ] ]
        BY <2>2, Zenon DEF Claim
      <3>2. b \in Claimable(s) /\ c.session = s /\ c.gens[b] = rows[b].gen + 1
        BY <3>1, <1>2, Zenon
      <3> QED BY <3>2, <1>2, SMTT(20) DEF FencedAfter
    <2> QED BY <2>1, <2>2, Zenon
  <1>9. OrphansFenced'
    <2> SUFFICES ASSUME NEW o \in orphans
                 PROVE  FencedAfter(o.session, o.batch, o.gen)
      BY <1>5, Zenon DEF OrphansFenced, Fenced, FencedAfter
    <2>1. o.batch \in Batches /\ o.gen \in Nat
      BY <1>0, Zenon DEF TypeOK, Statement
    <2> QED BY <1>4, <2>1, Zenon DEF OrphansFenced, ClaimInv
  <1> QED BY <1>6, <1>7, <1>8, <1>9, Zenon DEF ClaimInv

LEMMA FenceClaimReturned ==
  ASSUME ClaimInv, TypeOK', NEW k \in claims, ClaimReturned(k)
  PROVE  ClaimInv'
  <1>0. TypeOK
    BY Zenon DEF ClaimInv
  <1>1. k.session \in Sessions
    BY <1>0, Zenon DEF TypeOK, Claimed
  <1>2. /\ claims' = claims \ {k}
        /\ UNCHANGED << rows, ops, orphans, holder >>
    BY Zenon DEF ClaimReturned
  <1>3. \A t, c, g : Fenced(t, c, g) => FencedAfter(t, c, g)
    BY <1>2, Zenon DEF Fenced, FencedAfter
  <1>4. \A t \in Sessions, b \in Batches :
          Holds(t, b)' => \/ Holds(t, b) /\ tokens'[t][b].gen = tokens[t][b].gen
                          \/ t = k.session /\ b \in k.taken /\ tokens'[t][b].gen = k.gens[b]
    <2>1. tokens' = [ tokens EXCEPT ![k.session] =
                        [ b \in Batches |-> IF b \in k.taken THEN Activated(@[b], k.gens[b]) ELSE @[b] ] ]
      BY Zenon DEF ClaimReturned
    <2> QED BY <1>0, <1>1, <2>1, Zenon DEF Activated, Holds, TypeOK
  <1>5. TokensFenced'
    <2> SUFFICES ASSUME NEW t \in Sessions, NEW c \in Batches, Holds(t, c)'
                 PROVE  FencedAfter(t, c, tokens'[t][c].gen)
      BY Zenon DEF TokensFenced, Fenced, FencedAfter
    <2> QED BY <1>3, <1>4, Zenon DEF TokensFenced, ClaimsFenced, ClaimInv
  <1>6. OpsFenced' /\ ClaimsFenced' /\ OrphansFenced'
    BY <1>2 DEF OpsFenced, ClaimsFenced, OrphansFenced, ClaimInv, Fenced
  <1> QED BY <1>5, <1>6, Zenon DEF ClaimInv

\* The statement a call leaves behind carries the generation of the call.
LEMMA InFlightKnown ==
  ASSUME TypeOK, NEW s \in Sessions, NEW b \in Batches, NEW o \in InFlight(s, b)
  PROVE  Knows(o.session, o.batch, o.gen)
  <1>1. ops[s][b].pc = "write" /\ o.session = s /\ o.batch = b /\ o.gen = ops[s][b].gen
    BY DEF InFlight
  <1>2. ops[s][b] # Idle
    BY <1>1 DEF Idle
  <1> QED BY <1>1, <1>2, Zenon DEF Knows

LEMMA ClaimStep == ClaimInv /\ [Next]_vars => ClaimInv'
  <1> SUFFICES ASSUME ClaimInv, [Next]_vars PROVE ClaimInv'
    BY Zenon
  <1>0. TypeOK /\ TypeOK'
    BY TypeStep, Zenon DEF ClaimInv
  <1>1. ASSUME NEW s \in Sessions, NEW b \in Batches, Abandon(s, b) PROVE ClaimInv'
    <2>1. \A t \in Sessions, c \in Batches :
            ops'[t][c] = IF t = s /\ c = b THEN Idle ELSE ops[t][c]
      BY <1>0, <1>1, OpsStep DEF Abandon
    <2>2. UNCHANGED << rows, tokens, claims, holder >> /\ orphans' = orphans \cup InFlight(s, b)
      BY <1>1, Zenon DEF Abandon
    <2>3. NothingLearned
      <3>1. \A o \in orphans' \ orphans : Knows(o.session, o.batch, o.gen)
        BY <1>0, <2>2, InFlightKnown, Zenon
      <3>2. \A t \in Sessions, c \in Batches :
              Holds(t, c)' => Knows(t, c, tokens'[t][c].gen)
        BY <2>2, Zenon DEF Knows, Holds
      <3>3. \A t \in Sessions, c \in Batches :
              ops'[t][c] # Idle /\ (ops'[t][c].held \/ ops'[t][c].pc # "read")
                => ops'[t][c].held /\ Knows(t, c, ops'[t][c].gen)
        BY <2>1 DEF Knows, ClaimInv, OpsFenced
      <3> QED BY <2>2, <3>1, <3>2, <3>3, Zenon DEF NothingLearned
    <2>4. SameGens
      BY <2>2, Zenon DEF SameGens
    <2> QED BY <1>0, <2>3, <2>4, Frame, Zenon
  <1>2. ASSUME NEW o \in orphans, LateWrite(o) PROVE ClaimInv'
    <2>1. o.batch \in Batches /\ o.to \in BatchStates
      BY <1>0, Zenon DEF TypeOK, Statement
    <2>2. SameGens
      BY <1>0, <1>2, <2>1, MovedSameGens, Zenon DEF LateWrite, Matches, SameGens
    <2>3. UNCHANGED << tokens, ops, claims >> /\ orphans' \subseteq orphans
      BY <1>2, Zenon DEF LateWrite
    <2>4. NothingLearned
      BY <2>3, Zenon DEF NothingLearned, Knows, Holds, ClaimInv, OpsFenced
    <2> QED BY <1>0, <2>2, <2>4, Frame, Zenon
  <1>3. ASSUME NEW k \in claims, ClaimLost(k) PROVE ClaimInv'
    <2>1. NothingLearned /\ SameGens
      BY <1>3, Zenon DEF ClaimLost, NothingLearned, SameGens, Knows, Holds, ClaimInv, OpsFenced
    <2> QED BY <1>0, <2>1, Frame, Zenon
  <1>4. ASSUME NEW s \in Sessions, Crash(s) PROVE ClaimInv'
    <2>1. \A t \in Sessions, c \in Batches :
            /\ ops'[t][c] = IF t = s THEN Idle ELSE ops[t][c]
            /\ tokens'[t][c] = IF t = s THEN NoToken ELSE tokens[t][c]
      BY <1>0, <1>4, Zenon DEF Crash, TypeOK
    <2>2. /\ UNCHANGED << rows, claims, holder >>
          /\ orphans' = orphans \cup UNION { InFlight(s, b) : b \in Batches }
      BY <1>4, Zenon DEF Crash
    <2>3. NothingLearned
      <3>1. \A o \in orphans' \ orphans : Knows(o.session, o.batch, o.gen)
        BY <1>0, <2>2, InFlightKnown, Zenon
      <3>2. \A t \in Sessions, c \in Batches :
              Holds(t, c)' => Knows(t, c, tokens'[t][c].gen)
        BY <2>1 DEF Knows, Holds, NoToken
      <3>3. \A t \in Sessions, c \in Batches :
              ops'[t][c] # Idle /\ (ops'[t][c].held \/ ops'[t][c].pc # "read")
                => ops'[t][c].held /\ Knows(t, c, ops'[t][c].gen)
        BY <2>1, Zenon DEF Knows, ClaimInv, OpsFenced
      <3> QED BY <2>2, <3>1, <3>2, <3>3, Zenon DEF NothingLearned
    <2>4. SameGens
      BY <2>2, Zenon DEF SameGens
    <2> QED BY <1>0, <2>3, <2>4, Frame, Zenon
  <1>5. CASE Tick \/ UNCHANGED vars
    <2>1. NothingLearned /\ SameGens
      BY <1>5, Zenon DEF Tick, vars, NothingLearned, SameGens, Knows, Holds, ClaimInv, OpsFenced
    <2> QED BY <1>0, <2>1, Frame, Zenon
  <1> QED
    BY <1>0, <1>1, <1>2, <1>3, <1>4, <1>5, FenceSave, FenceUpdate, FenceClaim,
       FenceClaimReturned, Zenon DEF Next, Step

LEMMA ClaimInitial == Init => ClaimInv
  <1> SUFFICES ASSUME Init PROVE ClaimInv
    BY Zenon
  <1>1. TypeOK
    BY TypeInit, Zenon
  <1>2. TokensFenced /\ OpsFenced
    BY Zenon DEF Init, TokensFenced, OpsFenced, Holds, NoToken
  <1>3. ClaimsFenced /\ OrphansFenced
    BY Zenon DEF Init, ClaimsFenced, OrphansFenced
  <1> QED BY <1>1, <1>2, <1>3, Zenon DEF ClaimInv

LEMMA ClaimInvImplies == ClaimInv => ExclusiveClaim
  BY Zenon DEF ClaimInv, TokensFenced, OpsFenced, ClaimsFenced, OrphansFenced, Fenced,
         ExclusiveClaim

\* Two engines never both hold the claim generation a row is at: whatever
\* stalls, times out, crashes or lands late, the only session that can still
\* pass the claim_gen test of update_batch_state is the last claimant.
THEOREM ExclusiveClaimHolds == Spec => []ExclusiveClaim
  <1>1. Spec => []ClaimInv
    BY ClaimInitial, ClaimStep, PTL DEF Spec
  <1> QED BY <1>1, ClaimInvImplies, PTL

\* An engine whose claim was taken over never moves the row again.
THEOREM FencedWritesHold == Spec => FencedWrites
  <1> DEFINE A == \A b \in Batches :
                    rows[b] # NoRow /\ rows'[b].state # rows[b].state
                      => \/ /\ ops[holder[b]][b].pc = "write"
                            /\ ops'[holder[b]][b].pc = "wrote"
                         \/ \E o \in orphans \ orphans' :
                              o.session = holder[b] /\ o.batch = b
  <1>1. ASSUME ClaimInv, [Next]_vars PROVE [A]_vars
    <2> SUFFICES ASSUME Next, NEW b \in Batches, rows[b] # NoRow,
                        rows'[b].state # rows[b].state
                 PROVE  \/ /\ ops[holder[b]][b].pc = "write"
                           /\ ops'[holder[b]][b].pc = "wrote"
                        \/ \E o \in orphans \ orphans' :
                             o.session = holder[b] /\ o.batch = b
      BY <1>1, Zenon
    <2>0. TypeOK
      BY <1>1, Zenon DEF ClaimInv
    <2>1. ASSUME NEW s \in Sessions, WriteState(s, b),
                 Matches(b, ops[s][b].from, ops[s][b].gen)
          PROVE  s = holder[b] /\ ops[s][b].pc = "write" /\ ops'[s][b].pc = "wrote"
      <3>1. ops[s][b].pc = "write" /\ Call(s, b, [ ops[s][b] EXCEPT !.pc = "wrote" ])
        BY <2>1, Zenon DEF WriteState
      <3>2. ops[s][b] \in Op
        BY <2>0, <3>1, OpFields, Zenon
      <3>3. ops'[s][b].pc = "wrote"
        BY <2>0, <3>1, <3>2, OpsStep DEF Op
      <3>4. ops[s][b] # Idle
        BY <3>1 DEF Idle
      <3> QED BY <1>1, <2>1, <3>1, <3>3, <3>4, Zenon DEF ClaimInv, OpsFenced, Fenced, Matches
    <2>2. ASSUME NEW o \in orphans, o.batch = b, LateWrite(o), Matches(b, o.from, o.gen)
          PROVE  o \in orphans \ orphans' /\ o.session = holder[b]
      BY <1>1, <2>2, Zenon DEF LateWrite, ClaimInv, OrphansFenced, Fenced, Matches
    <2> QED BY <2>0, <2>1, <2>2, RowMoves, Zenon
  <1>2. Spec => []ClaimInv
    BY ClaimInitial, ClaimStep, PTL DEF Spec
  <1>3. Spec => [][A]_vars
    BY <1>1, <1>2, PTL DEF Spec
  <1> QED BY <1>3, Zenon DEF FencedWrites

-----------------------------------------------------------------------------
(* The rightful writer keeps its token. *)

\* Releasing or parking touches the token it names and tokens that are parked.
LEMMA ActiveKept ==
  ASSUME TypeOK, NEW s \in Sessions, NEW b \in Batches, NEW g,
         Release(s, b, g) \/ Park(s, b, g) \/ UNCHANGED << tokens, parked >>,
         NEW t \in Sessions, NEW c \in Batches, tokens[t][c].kept = "active",
         ~(t = s /\ c = b /\ tokens[t][c].gen = g)
  PROVE  tokens'[t][c] = tokens[t][c]
  <1>1. CASE tokens' = tokens
    BY <1>1, Zenon
  <1>2. CASE Holds(s, b) /\ tokens[s][b].gen = g
    <2>0. ~(t = s /\ c = b)
      BY <1>2, Zenon
    <2>1. CASE tokens' = [ tokens EXCEPT ![s] = [ tokens[s] EXCEPT ![b] = NoToken ] ]
      BY <2>0, <2>1, Zenon DEF TypeOK
    <2>2. CASE Park(s, b, g)
      <3> DEFINE n == [ tokens[s] EXCEPT ![b].kept = "parked" ]
      <3>1. DOMAIN n = Batches
        BY Zenon DEF TypeOK
      <3>2. \A y \in Batches : y # b => n[y] = tokens[s][y]
        BY Zenon DEF TypeOK
      <3>3. \/ tokens' = [ tokens EXCEPT ![s] = n ]
            \/ \E x : tokens' = [ tokens EXCEPT ![s] = Evicted(n, x) ]
        BY <1>2, <2>2, Zenon DEF Park
      <3> HIDE DEF n
      <3>4. ASSUME NEW x PROVE t = s => Evicted(n, x)[c] = n[c]
        <4>1. SUFFICES ASSUME t = s, n[x].kept = "parked"
                       PROVE  [ n EXCEPT ![x] = NoToken ][c] = n[c]
          BY Zenon DEF Evicted
        <4>2. n[c].kept = "active"
          BY <2>0, <3>2, <4>1, Zenon
        <4>3. c # x
          BY <4>1, <4>2, Zenon
        <4> QED BY <3>1, <4>3, Zenon
      <3>5. CASE t = s
        <4>1. \/ tokens'[t] = n
              \/ \E x : tokens'[t] = Evicted(n, x)
          BY <3>3, <3>5, Zenon DEF TypeOK
        <4> QED BY <2>0, <3>2, <3>4, <3>5, <4>1, Zenon
      <3>6. CASE t # s
        BY <3>3, <3>6, Zenon DEF TypeOK
      <3> QED BY <3>5, <3>6, Zenon
    <2> QED BY <1>1, <1>2, <2>1, <2>2, Zenon DEF Release
  <1> QED BY <1>1, <1>2, Zenon DEF Release, Park

\* A step that leaves the generations of the rows alone, grants nothing and
\* keeps the tokens of the granted.
LEMMA KeepFrame ==
  ASSUME GrantsFenced, NewestClaimKeepsToken,
         \A b \in Batches : rows[b] # NoRow => rows'[b] # NoRow /\ rows'[b].gen = rows[b].gen,
         \A s \in Sessions, b \in Batches : grants'[s][b] \subseteq grants[s][b],
         \A s \in Sessions, b \in Batches :
           rows[b] # NoRow /\ rows[b].gen \in grants'[s][b] => tokens'[s][b] = tokens[s][b]
  PROVE  (GrantsFenced /\ NewestClaimKeepsToken)'
  <1>1. ASSUME NEW s \in Sessions, NEW b \in Batches, NEW g \in grants'[s][b]
        PROVE  /\ rows'[b] # NoRow /\ g <= rows'[b].gen /\ rows[b] # NoRow
               /\ rows'[b].gen = rows[b].gen
    BY <1>1, Zenon DEF GrantsFenced
  <1>2. GrantsFenced'
    BY <1>1, Zenon DEF GrantsFenced
  <1>3. NewestClaimKeepsToken'
    <2> SUFFICES ASSUME NEW s \in Sessions, NEW b \in Batches, rows'[b].gen \in grants'[s][b]
                 PROVE  tokens'[s][b] = [ gen |-> rows'[b].gen, kept |-> "active" ]
      BY Zenon DEF NewestClaimKeepsToken
    <2>1. rows[b] # NoRow /\ rows'[b].gen = rows[b].gen /\ rows[b].gen \in grants[s][b]
      BY <1>1, Zenon
    <2>2. tokens'[s][b] = tokens[s][b]
      BY <2>1, Zenon
    <2> QED BY <2>1, <2>2, Zenon DEF NewestClaimKeepsToken
  <1> QED BY <1>2, <1>3, Zenon

\* A call that ends: the token of its generation goes only with the grant, or
\* when the row has moved past it.
LEMMA KeepUpdate ==
  ASSUME KeepInv, NEW s \in Sessions, NEW b \in Batches,
         Wrote(s, b) \/ LostClaim(s, b)
  PROVE  (GrantsFenced /\ NewestClaimKeepsToken)'
  <1> DEFINE op == ops[s][b]
  <1>0. TypeOK /\ GrantsFenced /\ NewestClaimKeepsToken
    BY Zenon DEF KeepInv, ClaimInv
  <1>1. rows' = rows
    BY Zenon DEF Wrote, LostClaim
  <1>2. Release(s, b, op.gen) \/ Park(s, b, op.gen) \/ UNCHANGED << tokens, parked >>
    BY Zenon DEF Wrote, LostClaim
  <1>3. /\ grants' = grants \/ grants' = [ grants EXCEPT ![s][b] = @ \ {op.gen} ]
        /\ tokens' = tokens \/ rows[b].gen # op.gen
             \/ grants' = [ grants EXCEPT ![s][b] = @ \ {op.gen} ]
    BY Zenon DEF Wrote, LostClaim
  <1> HIDE DEF op
  <1>4. \A t \in Sessions, c \in Batches : grants'[t][c] \subseteq grants[t][c]
    BY <1>0, <1>3 DEF TypeOK
  <1>5. tokens' = tokens \/ rows[b].gen # op.gen \/ op.gen \notin grants'[s][b]
    BY <1>0, <1>3 DEF TypeOK
  <1>6. ASSUME NEW t \in Sessions, NEW c \in Batches, rows[c] # NoRow,
               rows[c].gen \in grants'[t][c]
        PROVE  tokens'[t][c] = tokens[t][c]
    <2>1. tokens[t][c] = [ gen |-> rows[c].gen, kept |-> "active" ]
      BY <1>0, <1>4, <1>6, Zenon DEF NewestClaimKeepsToken
    <2>2. tokens[t][c].kept = "active" /\ tokens[t][c].gen = rows[c].gen
      BY <2>1
    <2>3. CASE t = s /\ c = b /\ tokens[t][c].gen = op.gen
      BY <1>5, <1>6, <2>2, <2>3, Zenon
    <2>4. CASE ~(t = s /\ c = b /\ tokens[t][c].gen = op.gen)
      BY <1>0, <1>2, <2>2, <2>4, ActiveKept
    <2> QED BY <2>3, <2>4, Zenon
  <1> QED BY <1>0, <1>1, <1>4, <1>6, KeepFrame, Zenon

LEMMA KeepSave ==
  ASSUME KeepInv, NEW s \in Sessions, NEW b \in Batches,
         Save(s, b) \/ SaveTimedOut(s, b)
  PROVE  (GrantsFenced /\ NewestClaimKeepsToken)'
  <1>0. TypeOK /\ GrantsFenced /\ NewestClaimKeepsToken /\ TokensFenced
    BY Zenon DEF KeepInv, ClaimInv
  <1>1. rows[b] = NoRow /\ rows' = [ rows EXCEPT ![b] = Inserted(s) ]
    BY Zenon DEF Save, SaveTimedOut, Insert
  <1>2. Inserted(s) # NoRow /\ Inserted(s).gen = 0
    BY Zenon DEF Inserted, NoRow
  <1>3. /\ rows'[b] # NoRow /\ rows'[b].gen = 0
        /\ \A c \in Batches : c # b => rows'[c] = rows[c]
    BY <1>0, <1>1, <1>2, Zenon DEF TypeOK
  <1>4. \A t \in Sessions : grants[t][b] = {}
    BY <1>0, <1>1, Zenon DEF GrantsFenced
  <1>5. \A t \in Sessions, c \in Batches :
          /\ grants'[t][c] \subseteq IF t = s /\ c = b THEN {0} ELSE grants[t][c]
          /\ c # b => tokens'[t][c] = tokens[t][c]
    BY <1>0, <1>4 DEF Save, SaveTimedOut, TypeOK
  <1>6. 0 \in grants'[s][b] => tokens'[s][b] = [ gen |-> 0, kept |-> "active" ]
    <2>1. tokens[s][b].kept = "none"
      BY <1>0, <1>1, Zenon DEF TokensFenced, Fenced, Holds
    <2>2. Activated(tokens[s][b], 0) = [ gen |-> 0, kept |-> "active" ]
      BY <2>1, Zenon DEF Activated
    <2>3. CASE Save(s, b)
      BY <1>0, <2>2, <2>3, Zenon DEF Save, TypeOK
    <2>4. CASE SaveTimedOut(s, b)
      BY <1>4, <2>4, Zenon DEF SaveTimedOut
    <2> QED BY <2>3, <2>4, Zenon
  <1>7. ASSUME NEW t \in Sessions, NEW c \in Batches, NEW g \in grants'[t][c]
        PROVE  rows'[c] # NoRow /\ g <= rows'[c].gen
    <2>1. CASE c = b
      <3>1. g = 0
        BY <1>4, <1>5, <1>7, <2>1, Zenon
      <3> QED BY <1>3, <2>1, <3>1
    <2>2. CASE c # b
      BY <1>0, <1>3, <1>5, <1>7, <2>2, Zenon DEF GrantsFenced
    <2> QED BY <2>1, <2>2, Zenon
  <1>8. ASSUME NEW t \in Sessions, NEW c \in Batches, rows'[c] # NoRow,
               rows'[c].gen \in grants'[t][c]
        PROVE  tokens'[t][c] = [ gen |-> rows'[c].gen, kept |-> "active" ]
    <2>1. CASE c = b
      BY <1>3, <1>4, <1>5, <1>6, <1>8, <2>1, Zenon
    <2>2. CASE c # b
      BY <1>0, <1>3, <1>5, <1>8, <2>2 DEF NewestClaimKeepsToken
    <2> QED BY <2>1, <2>2, Zenon
  <1> QED BY <1>7, <1>8, Zenon DEF GrantsFenced, NewestClaimKeepsToken

\* A claim moves the row past every generation granted so far.
LEMMA KeepClaim ==
  ASSUME KeepInv, NEW s \in Sessions, Claim(s)
  PROVE  (GrantsFenced /\ NewestClaimKeepsToken)'
  <1>0. TypeOK /\ GrantsFenced /\ NewestClaimKeepsToken
    BY Zenon DEF KeepInv, ClaimInv
  <1>1. UNCHANGED << tokens, grants >>
    BY Zenon DEF Claim
  <1>2. ASSUME NEW b \in Batches, rows[b] # NoRow
        PROVE  /\ rows[b].gen \in Nat /\ rows'[b] # NoRow
               /\ rows'[b].gen = rows[b].gen \/ rows'[b].gen = rows[b].gen + 1
    BY <1>0, <1>2, TakenOverTyped, RowFields, Zenon DEF Claim, Row
  <1>3. ASSUME NEW t \in Sessions, NEW b \in Batches, NEW g \in grants[t][b]
        PROVE  /\ rows'[b] # NoRow /\ g <= rows'[b].gen
               /\ g = rows'[b].gen => g = rows[b].gen
    <2>1. g \in Nat
      BY <1>0, <1>3, Zenon DEF TypeOK
    <2>2. rows[b] # NoRow /\ g <= rows[b].gen
      BY <1>0, <1>3, Zenon DEF GrantsFenced
    <2> QED BY <1>2, <2>1, <2>2
  <1> QED BY <1>0, <1>1, <1>3, Zenon DEF GrantsFenced, NewestClaimKeepsToken

\* The answer of a claim: the higher generation wins, and none is higher than
\* the row's, so a grant of the row's generation leaves its token.
LEMMA KeepClaimReturned ==
  ASSUME KeepInv, NEW k \in claims, ClaimReturned(k)
  PROVE  (GrantsFenced /\ NewestClaimKeepsToken)'
  <1> DEFINE s == k.session
  <1>0. TypeOK /\ GrantsFenced /\ NewestClaimKeepsToken /\ TokensFenced /\ ClaimsFenced
    BY Zenon DEF KeepInv, ClaimInv
  <1>1. s \in Sessions /\ rows' = rows /\ k.gens \in [ Batches -> Nat ]
    BY <1>0, Zenon DEF TypeOK, Claimed, ClaimReturned
  <1>2. \A t \in Sessions, b \in Batches :
          /\ grants'[t][b] = IF t = s /\ b \in k.taken
                             THEN grants[t][b] \cup {k.gens[b]} ELSE grants[t][b]
          /\ tokens'[t][b] = IF t = s /\ b \in k.taken
                             THEN Activated(tokens[t][b], k.gens[b]) ELSE tokens[t][b]
    BY <1>0, <1>1, Zenon DEF ClaimReturned, TypeOK
  <1>3. ASSUME NEW b \in Batches, b \in k.taken
        PROVE  rows[b] # NoRow /\ k.gens[b] <= rows[b].gen
    BY <1>0, <1>3, Zenon DEF ClaimsFenced, Fenced
  <1> HIDE DEF s
  <1>a. ASSUME NEW t \in Sessions, NEW b \in Batches, t = s, b \in k.taken
        PROVE  /\ \A g : g \in grants'[t][b] => g \in grants[t][b] \/ g = k.gens[b]
               /\ tokens'[t][b] = Activated(tokens[t][b], k.gens[b])
    <2>1. grants'[t][b] = IF t = s /\ b \in k.taken
                          THEN grants[t][b] \cup {k.gens[b]} ELSE grants[t][b]
      BY <1>2, Zenon
    <2>2. grants'[t][b] = grants[t][b] \cup {k.gens[b]}
      BY <1>a, <2>1, Zenon
    <2>3. tokens'[t][b] = IF t = s /\ b \in k.taken
                          THEN Activated(tokens[t][b], k.gens[b]) ELSE tokens[t][b]
      BY <1>2, Zenon
    <2>4. tokens'[t][b] = Activated(tokens[t][b], k.gens[b])
      BY <1>a, <2>3, Zenon
    <2> QED BY <2>2, <2>4, Zenon
  <1>b. ASSUME NEW t \in Sessions, NEW b \in Batches, ~(t = s /\ b \in k.taken)
        PROVE  grants'[t][b] = grants[t][b] /\ tokens'[t][b] = tokens[t][b]
    BY <1>2, <1>b, Zenon
  <1>4. ASSUME NEW t \in Sessions, NEW b \in Batches, NEW g \in grants'[t][b]
        PROVE  rows'[b] # NoRow /\ g <= rows'[b].gen
    <2>1. g \in grants[t][b] => rows[b] # NoRow /\ g <= rows[b].gen
      BY <1>0, Zenon DEF GrantsFenced
    <2>2. g \in grants[t][b] \/ (b \in k.taken /\ g = k.gens[b])
      BY <1>a, <1>b, <1>4, Zenon
    <2> QED BY <1>1, <1>3, <2>1, <2>2, Zenon
  <1>5. ASSUME NEW b \in Batches, b \in k.taken, rows[b] # NoRow,
               rows[b].gen \in grants[s][b] \/ rows[b].gen = k.gens[b]
        PROVE  Activated(tokens[s][b], k.gens[b]) = [ gen |-> rows[b].gen, kept |-> "active" ]
    <2> DEFINE tok == tokens[s][b]
               g == k.gens[b]
               r == rows[b].gen
    <2>1. g \in Nat /\ g <= r
      BY <1>1, <1>3, <1>5, Zenon
    <2>2. r \in Nat
      BY <1>0, <1>5, RowFields, Zenon DEF Row
    <2>3. tok.kept # "none" => tok.gen \in Nat /\ tok.gen <= r
      <3>1. Holds(s, b) => tok.gen <= r
        BY <1>0, <1>1, Zenon DEF TokensFenced, Fenced
      <3>2. tok \in Token \/ tok = NoToken
        BY <1>0, <1>1 DEF TypeOK
      <3>3. tok \in Token => tok.gen \in Nat
        BY Zenon DEF Token
      <3>4. NoToken.kept = "none"
        BY Zenon DEF NoToken
      <3> QED BY <3>1, <3>2, <3>3, <3>4, Zenon DEF Holds
    <2>4. g # r => tok.kept # "none" /\ tok.gen = r
      <3>1. g # r => tok = [ gen |-> r, kept |-> "active" ]
        BY <1>0, <1>1, <1>5, Zenon DEF NewestClaimKeepsToken
      <3> HIDE DEF tok, r
      <3> QED BY <3>1
    <2> HIDE DEF tok, g, r
    <2>5. (IF tok.kept # "none" /\ tok.gen > g THEN tok.gen ELSE g) = r
      BY <2>1, <2>2, <2>3, <2>4
    <2> QED BY <2>5, Zenon DEF Activated, tok, g, r
  <1>6. ASSUME NEW t \in Sessions, NEW b \in Batches, rows'[b] # NoRow,
               rows'[b].gen \in grants'[t][b]
        PROVE  tokens'[t][b] = [ gen |-> rows'[b].gen, kept |-> "active" ]
    <2>1. CASE t = s /\ b \in k.taken
      <3>1. /\ rows[b].gen \in grants[s][b] \/ rows[b].gen = k.gens[b]
            /\ tokens'[t][b] = Activated(tokens[s][b], k.gens[b])
        BY <1>1, <1>a, <1>6, <2>1, Zenon
      <3> QED BY <1>1, <1>5, <1>6, <2>1, <3>1, Zenon
    <2>2. CASE ~(t = s /\ b \in k.taken)
      BY <1>0, <1>1, <1>b, <1>6, <2>2, Zenon DEF NewestClaimKeepsToken
    <2> QED BY <2>1, <2>2, Zenon
  <1> QED BY <1>4, <1>6, Zenon DEF GrantsFenced, NewestClaimKeepsToken

LEMMA KeepStep == KeepInv /\ [Next]_vars => KeepInv'
  <1> SUFFICES ASSUME KeepInv, [Next]_vars PROVE KeepInv'
    BY Zenon
  <1>0. TypeOK /\ GrantsFenced /\ NewestClaimKeepsToken
    BY Zenon DEF KeepInv, ClaimInv
  <1>1. ClaimInv'
    BY ClaimStep, Zenon DEF KeepInv
  <1> DEFINE Kept == (GrantsFenced /\ NewestClaimKeepsToken)'
  <1>2. ASSUME SameGens, UNCHANGED << tokens, grants >> PROVE Kept
    <2>1. \A s \in Sessions, b \in Batches : grants'[s][b] \subseteq grants[s][b]
      BY <1>2, Zenon
    <2> QED BY <1>0, <1>2, <2>1, KeepFrame, Zenon DEF SameGens
  <1>3. ASSUME NEW s \in Sessions, NEW b \in Batches, WriteState(s, b) PROVE Kept
    <2>1. ops[s][b] \in Op
      BY <1>0, <1>3, OpFields, Zenon DEF WriteState
    <2>2. ops[s][b].to \in BatchStates
      BY <2>1, Zenon DEF Op
    <2>3. SameGens
      BY <1>0, <1>3, <2>2, MovedSameGens, Zenon DEF WriteState, Matches, SameGens
    <2> QED BY <1>2, <1>3, <2>3, Zenon DEF WriteState
  <1>4. ASSUME NEW o \in orphans, LateWrite(o) PROVE Kept
    <2>1. o.batch \in Batches /\ o.to \in BatchStates
      BY <1>0, Zenon DEF TypeOK, Statement
    <2>2. SameGens
      BY <1>0, <1>4, <2>1, MovedSameGens, Zenon DEF LateWrite, Matches, SameGens
    <2> QED BY <1>2, <1>4, <2>2, Zenon DEF LateWrite
  <1>5. ASSUME NEW s \in Sessions, NEW b \in Batches,
               \/ \E to \in BatchStates : BeginUpdate(s, b, to)
               \/ ReadState(s, b) \/ Abandon(s, b)
        PROVE  Kept
    <2>1. SameGens /\ UNCHANGED << tokens, grants >>
      BY <1>5, Zenon DEF BeginUpdate, ReadState, Abandon, SameGens
    <2> QED BY <1>2, <2>1, Zenon
  <1>6. ASSUME NEW k \in claims, ClaimLost(k) PROVE Kept
    BY <1>2, <1>6, Zenon DEF ClaimLost, SameGens
  <1>7. ASSUME Tick \/ UNCHANGED vars PROVE Kept
    BY <1>2, <1>7, Zenon DEF Tick, vars, SameGens
  <1>8. ASSUME NEW s \in Sessions, Crash(s) PROVE Kept
    <2>1. \A t \in Sessions, c \in Batches :
            /\ grants'[t][c] = IF t = s THEN {} ELSE grants[t][c]
            /\ tokens'[t][c] = IF t = s THEN NoToken ELSE tokens[t][c]
      BY <1>0, <1>8, Zenon DEF Crash, TypeOK
    <2>2. rows' = rows
      BY <1>8, Zenon DEF Crash
    <2>3. \A t \in Sessions, c \in Batches : grants'[t][c] \subseteq grants[t][c]
      BY <2>1, Zenon
    <2>4. \A t \in Sessions, c \in Batches :
            rows[c].gen \in grants'[t][c] => tokens'[t][c] = tokens[t][c]
      BY <2>1, Zenon
    <2> QED BY <1>0, <2>2, <2>3, <2>4, KeepFrame, Zenon
  <1>9. Kept
    BY <1>3, <1>4, <1>5, <1>6, <1>7, <1>8, KeepSave, KeepUpdate, KeepClaim,
       KeepClaimReturned, Zenon DEF Next, Step
  <1> QED BY <1>1, <1>9, Zenon DEF KeepInv

\* However many claims of one process are answered late or in the wrong order,
\* and whatever is parked, evicted or completed meanwhile, the session whose
\* claim is the newest can write until it has ended its work on the batch.
THEOREM NewestClaimKeepsTokenHolds == Spec => []NewestClaimKeepsToken
  <1>1. Init => KeepInv
    <2> SUFFICES ASSUME Init PROVE KeepInv
      BY Zenon
    <2>1. \A s \in Sessions, b \in Batches : grants[s][b] = {}
      BY Zenon DEF Init
    <2> QED BY <2>1, ClaimInitial, Zenon DEF KeepInv, GrantsFenced, NewestClaimKeepsToken
  <1>2. KeepInv => NewestClaimKeepsToken
    BY Zenon DEF KeepInv
  <1> QED BY <1>1, <1>2, KeepStep, PTL DEF Spec
=============================================================================
