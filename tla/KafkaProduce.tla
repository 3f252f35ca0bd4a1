---------------------------- MODULE KafkaProduce ----------------------------
(***************************************************************************)
(* An idempotent Kafka producer's sets on their way into the range's log:   *)
(* the gateway's line of appends (gateway.rs, turnstile.rs), the native     *)
(* bridge's own line, its chunks and its memory of gaps (native.rs), and    *)
(* the broker's sequence check as the bridge meets it.                      *)
(*                                                                          *)
(* A set is a few native appends of one sequence each.  The client keeps   *)
(* several sets under way on one connection, sends them in sequence order   *)
(* and sends a set again, before any later one, when it is told to retry.   *)
(* A session reads one request at a time: it answers the last one first,    *)
(* with the append's outcome or at the deadline, past which the append goes *)
(* on.  A request of a connection the client dropped may still be read.     *)
(* A line is the sequence of the jobs with an outstanding ticket: the head  *)
(* holds the turn.                                                          *)
(***************************************************************************)
EXTENDS Integers, Sequences, FiniteSets, SequencesExt

CONSTANTS
  Jobs,              \* appends that can be under way at once
  ProduceScenarios   \* [ sets, chunks, faults, deadlines, late, evictions, reconnects, restarts ]

VARIABLES
  pscen,
  status,   \* set -> "ready" | "sent" | "acked" | "dead"
  conn,     \* the session the client sends on
  session,  \* session -> the requests not yet read, and the job it waits for
  job,      \* what an append is doing
  line,     \* place -> the map's entry, and the turnstiles by identity
  gap,      \* the first sequence of the producer remembered as missing
  next,     \* the sequence the log takes next
  split,    \* history: a second line was opened beside one still in use
  exposed,  \* history: sets turned away, or whose gap was dropped, that have not landed since
  orphan    \* history: the gap was noted for a set that had been answered for good

produceVars == << pscen, status, conn, session, job, line, gap, next, split, exposed, orphan >>

Sets     == 1 .. pscen.sets
Sessions == {1, 2}
Places   == {"gateway", "bridge"}
LineIds  == 1 .. Cardinality(Jobs) + 1
NoJob    == 0
NoLine   == 0
NoGap    == -1
Free     == [ pc |-> "free" ]
Quiet    == [ requests |-> << >>, job |-> NoJob ]

First(i) == (i - 1) * pscen.chunks
End(i)   == i * pscen.chunks
Running  == { j \in Jobs : job[j].pc # "free" }

Of(seq) == { i \in Sets : First(i) <= seq /\ seq < End(i) }

Least(S) == CHOOSE x \in S : \A y \in S : x <= y

-----------------------------------------------------------------------------
(* Turnstile, and the maps that hold one per producer. *)

FreshLine(place) ==
  Least({ t \in LineIds : t # line[place].entry
            /\ \A j \in Running : place \in DOMAIN job[j].lines => job[j].lines[place] # t })

\* The entry is found or made and the ticket taken, under the map's lock.
Enters(place, j) ==
  LET t == IF line[place].entry = NoLine THEN FreshLine(place) ELSE line[place].entry IN
  /\ line' = [ line EXCEPT ![place].entry = t, ![place].queue[t] = Append(@, j) ]
  /\ split' = (split \/ \E u \in LineIds \ {t} : line[place].queue[u] # << >>)

HoldsTurn(place, j) == Head(line[place].queue[job[j].lines[place]]) = j

Left(place, j) == [ line EXCEPT ![place].queue[job[j].lines[place]] = Tail(@) ]

\* The job's own turnstile is idle: the map's entry for the producer goes.
Cleared(place, j) ==
  IF line[place].queue[job[j].lines[place]] = << >>
  THEN [ line EXCEPT ![place].entry = NoLine ]
  ELSE line

-----------------------------------------------------------------------------
(* The client. *)

\* Sets are sent in order: never past one that must be sent again.
Send(i) ==
  /\ status[i] = "ready" /\ \A k \in 1 .. i - 1 : status[k] \in {"acked", "sent"}
  /\ status' = [ status EXCEPT ![i] = "sent" ]
  /\ session' = [ session EXCEPT ![conn].requests = Append(@, i) ]
  /\ UNCHANGED << pscen, conn, job, line, gap, next, split, exposed, orphan >>

\* What an answer on session s tells the client of set i.
Answered(s, i, outcome) ==
  status' = IF s # conn THEN status
            ELSE [ status EXCEPT ![i] = CASE outcome = "ok"    -> "acked"
                                          [] outcome = "retry" -> "ready"
                                          [] OTHER             -> "dead" ]

Unsettled == [ i \in Sets |-> IF status[i] = "sent" THEN "ready" ELSE status[i] ]

Reconnect ==
  /\ pscen.reconnects > 0
  /\ \E s \in Sessions \ {conn} : session[s] = Quiet /\ conn' = s
  /\ pscen' = [ pscen EXCEPT !.reconnects = @ - 1 ]
  /\ status' = Unsettled
  /\ UNCHANGED << session, job, line, gap, next, split, exposed, orphan >>

\* The rest of a dropped connection's requests is never read.
Hangup(s) ==
  /\ s # conn /\ session[s].requests # << >>
  /\ session' = [ session EXCEPT ![s].requests = << >> ]
  /\ UNCHANGED << pscen, status, conn, job, line, gap, next, split, exposed, orphan >>

-----------------------------------------------------------------------------
(* The gateway: produce_partition. *)

\* The next request of the session takes its place in the producer's line.
Receive(s) ==
  /\ session[s].job = NoJob /\ session[s].requests # << >> /\ Running # Jobs
  /\ LET j == Least(Jobs \ Running)
         i == Head(session[s].requests)
     IN
     /\ session' = [ session EXCEPT ![s] = [ requests |-> Tail(@.requests), job |-> j ] ]
     /\ Enters("gateway", j)
     /\ job' = [ job EXCEPT ![j] =
          [ pc |-> "queued", set |-> i, chunk |-> 0, outcome |-> "none",
            lines |-> [ p \in {"gateway"} |-> line'["gateway"].entry ] ] ]
  /\ UNCHANGED << pscen, status, conn, gap, next, exposed, orphan >>

\* The deadline has passed when the partition is reached: no place is taken.
Expired(s) ==
  /\ session[s].job = NoJob /\ session[s].requests # << >> /\ pscen.late > 0
  /\ pscen' = [ pscen EXCEPT !.late = @ - 1 ]
  /\ Answered(s, Head(session[s].requests), "retry")
  /\ session' = [ session EXCEPT ![s].requests = Tail(@) ]
  /\ exposed' = exposed \cup {Head(session[s].requests)}
  /\ UNCHANGED << conn, job, line, gap, next, split, orphan >>

\* The deadline passes while the append is under way: it runs on.
Deadline(s) ==
  /\ session[s].job # NoJob /\ pscen.deadlines > 0
  /\ pscen' = [ pscen EXCEPT !.deadlines = @ - 1 ]
  /\ Answered(s, job[session[s].job].set, "retry")
  /\ session' = [ session EXCEPT ![s].job = NoJob ]
  /\ UNCHANGED << conn, job, line, gap, next, split, exposed, orphan >>

\* The turn has come: the bridge is called, and takes a ticket of its own.
CallBridge(j) ==
  /\ job[j].pc = "queued" /\ HoldsTurn("gateway", j)
  /\ Enters("bridge", j)
  /\ job' = [ job EXCEPT ![j].pc = "called",
                         ![j].lines = [ p \in Places |-> IF p = "bridge" THEN line'["bridge"].entry ELSE @[p] ] ]
  /\ UNCHANGED << pscen, status, conn, session, gap, next, exposed, orphan >>

LeaveGateway(j) ==
  /\ job[j].pc = "returned"
  /\ line' = Left("gateway", j)
  /\ job' = [ job EXCEPT ![j].pc = "leaving" ]
  /\ UNCHANGED << pscen, status, conn, session, gap, next, split, exposed, orphan >>

\* The entry is cleared, the task ends, and a session still waiting answers.
EndJob(j) ==
  /\ job[j].pc = "leaving"
  /\ line' = Cleared("gateway", j)
  /\ job' = [ job EXCEPT ![j] = Free ]
  /\ IF \E s \in Sessions : session[s].job = j
     THEN LET s == CHOOSE x \in Sessions : session[x].job = j IN
          /\ Answered(s, job[j].set, job[j].outcome)
          /\ session' = [ session EXCEPT ![s].job = NoJob ]
     ELSE UNCHANGED << status, session >>
  /\ UNCHANGED << pscen, conn, gap, next, split, exposed, orphan >>

-----------------------------------------------------------------------------
(* The bridge: NativeBridge::produce and append_chunks. *)

\* The turn at the bridge: a set past a remembered gap is told to retry.
Begin(j) ==
  /\ job[j].pc = "called" /\ HoldsTurn("bridge", j)
  /\ IF gap # NoGap /\ First(job[j].set) > gap
     THEN /\ job' = [ job EXCEPT ![j].pc = "spoken", ![j].outcome = "retry" ]
          /\ line' = Left("bridge", j)
          /\ exposed' = exposed \cup {job[j].set}
     ELSE /\ job' = [ job EXCEPT ![j].pc = "appending" ]
          /\ UNCHANGED << line, exposed >>
  /\ UNCHANGED << pscen, status, conn, session, gap, next, split, orphan >>

\* Variant: only a set that landed in part is remembered.
NotedPartWay(j, missing) == IF missing = First(job[j].set) THEN gap ELSE missing

\* A failure the client retries: the first sequence that did not land.  The
\* producer is now the newest of those remembered.
Noted(j, missing) == missing

\* Enough other producers failed since for this one to be the oldest past the cap.
Evicted ==
  /\ gap # NoGap /\ pscen.evictions > 0
  /\ pscen' = [ pscen EXCEPT !.evictions = @ - 1 ]
  /\ gap' = NoGap
  /\ exposed' = exposed \cup Of(gap) /\ orphan' = FALSE
  /\ UNCHANGED << status, conn, session, job, line, next, split >>

\* Variant: a landed set fills only the gap it starts at.
GapSettledFirst(j) == IF gap = First(job[j].set) THEN NoGap ELSE gap

GapSettled(j) == IF gap \in First(job[j].set) .. End(job[j].set) - 1 THEN NoGap ELSE gap

\* The set's outcome stands: the gap memory, then the turn.
Speaks(j, outcome, memory) ==
  /\ gap' = memory
  /\ line' = Left("bridge", j)
  /\ job' = [ job EXCEPT ![j].pc = "spoken", ![j].outcome = outcome ]

\* One native append: the log takes its next sequence, knows an earlier one,
\* and refuses a later one.
AppendChunk(j) ==
  LET seq == First(job[j].set) + job[j].chunk IN
  /\ job[j].pc = "appending"
  /\ IF seq > next
     THEN /\ Speaks(j, "out of order", gap) /\ UNCHANGED next
          /\ exposed' = exposed \cup {job[j].set} /\ UNCHANGED orphan
     ELSE /\ next' = IF seq = next THEN next + 1 ELSE next
          /\ IF seq + 1 = End(job[j].set)
             THEN /\ Speaks(j, "ok", GapSettled(j))
                  /\ exposed' = exposed \ {job[j].set} /\ orphan' = (orphan /\ gap' # NoGap)
             ELSE job' = [ job EXCEPT ![j].chunk = @ + 1 ] /\ UNCHANGED << gap, line, exposed, orphan >>
  /\ UNCHANGED << pscen, status, conn, session, split >>

\* The set is acknowledged, or about to be: no retry of it is coming.
AnsweredFor(i) ==
  status[i] = "acked" \/ \E k \in Running : job[k].set = i /\ job[k].outcome = "ok" /\ session[conn].job = k

\* The broker cannot say that the append is safe (Overloaded, Storage, Fenced):
\* it may have landed.
ChunkFails(j) ==
  LET seq == First(job[j].set) + job[j].chunk IN
  /\ job[j].pc = "appending" /\ pscen.faults > 0
  /\ pscen' = [ pscen EXCEPT !.faults = @ - 1 ]
  /\ next' \in { next, IF seq = next THEN next + 1 ELSE next }
  /\ Speaks(j, "retry", Noted(j, seq))
  /\ exposed' = (exposed \cup Of(gap)) \ {job[j].set} /\ orphan' = AnsweredFor(job[j].set)
  /\ UNCHANGED << status, conn, session, split >>

ReleaseSerial(j) ==
  /\ job[j].pc = "spoken"
  /\ line' = Cleared("bridge", j)
  /\ job' = [ job EXCEPT ![j].pc = "returned" ]
  /\ UNCHANGED << pscen, status, conn, session, gap, next, split, exposed, orphan >>

\* The gateway's process is replaced, here or on the replica that leads next:
\* what was not acknowledged may be missing from its log.
Restart ==
  /\ pscen.restarts > 0
  /\ pscen' = [ pscen EXCEPT !.restarts = @ - 1 ]
  /\ next' \in { n \in 0 .. next : \A i \in Sets : status[i] = "acked" => End(i) <= n }
  /\ status' = Unsettled
  /\ session' = [ s \in Sessions |-> Quiet ]
  /\ job' = [ j \in Jobs |-> Free ]
  /\ line' = [ p \in Places |-> [ entry |-> NoLine, queue |-> [ t \in LineIds |-> << >> ] ] ]
  /\ gap' = NoGap
  /\ exposed' = {} /\ orphan' = FALSE
  /\ UNCHANGED << conn, split >>

-----------------------------------------------------------------------------

ProduceInit ==
  /\ pscen \in ProduceScenarios
  /\ status = [ i \in Sets |-> "ready" ]
  /\ conn = 1
  /\ session = [ s \in Sessions |-> Quiet ]
  /\ job = [ j \in Jobs |-> Free ]
  /\ line = [ p \in Places |-> [ entry |-> NoLine, queue |-> [ t \in LineIds |-> << >> ] ] ]
  /\ gap = NoGap /\ next = 0 /\ split = FALSE /\ exposed = {} /\ orphan = FALSE

Works ==
  \/ \E i \in Sets : Send(i)
  \/ \E s \in Sessions : Receive(s)
  \/ \E j \in Jobs :
       \/ CallBridge(j) \/ Begin(j) \/ AppendChunk(j) \/ ReleaseSerial(j) \/ LeaveGateway(j) \/ EndJob(j)

ProduceNext ==
  \/ Works
  \/ \E s \in Sessions : Expired(s) \/ Deadline(s) \/ Hangup(s)
  \/ \E j \in Jobs : ChunkFails(j)
  \/ Evicted \/ Reconnect \/ Restart

ProduceSpec == ProduceInit /\ [][ProduceNext]_produceVars /\ WF_produceVars(Works)

-----------------------------------------------------------------------------
(* Properties. *)

\* The append would reach the log past a sequence still missing from it.
Early(j) == job[j].pc = "appending" /\ First(job[j].set) + job[j].chunk > next

\* A client that sends and retries its sets in order meets "out of order", which
\* it may read as fatal, only past a set that the gateway turned away and did not
\* remember: one past its deadline before it had a place in line, one held behind
\* another's gap, one refused as out of order itself, or one whose gap was evicted
\* or replaced by an earlier one; or after the producer's line was split (OneLine).
\* A set that failed, that is still under way when its request is answered, or
\* whose connection or gateway is gone keeps the later ones from the log.
NeverOutOfOrder ==
  \A j \in Jobs : Early(j) => split \/ Of(next) \cap exposed # {}

\* "a second entry for the same producer would be a second queue running beside
\* the first" (gateway.rs, produce_partition): a set that finds the entry takes
\* a ticket, and the entry stays.
OneLine == ~split

\* Every set is acknowledged in the end: no remembered gap outlives the retry
\* that fills it, and no ticket holds the line for good.  Excepted are a producer
\* told that it is out of order, and a gap left by a failed attempt at a set that
\* another attempt had already landed and answered: no retry of it will come.
EventuallyAcked ==
  <>[](orphan \/ \A i \in DOMAIN status : status[i] = "acked" \/ \E k \in 1 .. i : status[k] = "dead")

=============================================================================
