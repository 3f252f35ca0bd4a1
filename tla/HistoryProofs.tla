---------------------------- MODULE HistoryProofs ----------------------------
(***************************************************************************)
(* A replica's epoch history is true, for any replica set and any number of *)
(* leaderships, records and crashes: first what the operators of a journal  *)
(* keep (its order, a place to cut at any offset, the epoch that owns each  *)
(* offset), then what every step keeps.                                     *)
(***************************************************************************)
EXTENDS VoteProofs

(* What the journal's operators keep. *)

Entry == [ epoch : Nat \ {0}, start : Nat ]

\* Epochs advance and starts never go back, of any two entries.
Ordered(h) == \A i, j \in DOMAIN h : i < j => h[i].epoch < h[j].epoch /\ h[i].start <= h[j].start

\* There is a place to cut at any offset.
Cuttable(h) == \A c \in Nat : \E k \in 0 .. Len(h) : BeginBelow(h, k, c)

Journal(h) == h \in Seq(Entry) /\ Ordered(h) /\ Cuttable(h)

\* The last entry that begins at or below offset o is of epoch e.
Owns(h, o, e) ==
  \E j \in DOMAIN h : /\ h[j].start <= o /\ h[j].epoch = e
                      /\ \A k \in DOMAIN h : k > j => h[k].start > o

\* g says of every offset below o what h says, and adds no epoch but e.
SaysAs(g, h, o, e) ==
  /\ \A p \in Nat : \A x \in Nat : p < o /\ Owns(h, p, x) => Owns(g, p, x)
  /\ \A i \in DOMAIN g : g[i].epoch = e \/ \E j \in DOMAIN h : g[i].epoch = h[j].epoch

LEMMA EntryTyped ==
  ASSUME NEW h, Journal(h), NEW i \in DOMAIN h
  PROVE  /\ DOMAIN h = 1 .. Len(h) /\ Len(h) \in Nat /\ i \in 1 .. Len(h)
         /\ h[i].epoch \in Nat \ {0} /\ h[i].start \in Nat
  <1>1. h \in Seq(Entry)
    BY DEF Journal
  <1>2. DOMAIN h = 1 .. Len(h) /\ Len(h) \in Nat /\ h[i] \in Entry
    BY <1>1
  <1>3. h[i].epoch \in Nat \ {0} /\ h[i].start \in Nat
    BY <1>2 DEF Entry
  <1> QED BY <1>2, <1>3

LEMMA OwnsEpoch ==
  ASSUME NEW h, Journal(h), NEW o \in Nat, NEW e, Owns(h, o, e)
  PROVE  EpochOwning(h, o) = e
  <1> DEFINE begun == { i \in DOMAIN h : h[i].start <= o }
  <1>1. PICK j \in DOMAIN h : h[j].start <= o /\ h[j].epoch = e /\ \A k \in DOMAIN h : k > j => h[k].start > o
    BY DEF Owns
  <1>2. \A k \in begun : k <= j
    BY <1>1, EntryTyped
  <1>3. j \in begun
    BY <1>1
  <1>4. \A i \in begun : (\A k \in begun : k <= i) => i = j
    BY <1>2, <1>3, EntryTyped
  <1>5. (CHOOSE i \in begun : \A k \in begun : k <= i) = j
    BY <1>2, <1>3, <1>4
  <1> QED BY <1>1, <1>3, <1>5, Zenon DEF EpochOwning

\* One more entry, of a newer epoch, at or past the last start.
LEMMA AppendKeeps ==
  ASSUME NEW h, Journal(h), NEW e \in Nat \ {0}, NEW s \in Nat,
         \A i \in DOMAIN h : h[i].epoch < e /\ h[i].start <= s
  PROVE  LET g == Append(h, [ epoch |-> e, start |-> s ]) IN
         /\ Journal(g) /\ g # << >> /\ Latest(g).epoch = e /\ SaysAs(g, h, s, e)
         /\ \A i \in DOMAIN g : g[i].start <= s
  <1> DEFINE x == [ epoch |-> e, start |-> s ]
             g == Append(h, x)
  <1>0. h \in Seq(Entry) /\ x \in Entry /\ Len(h) \in Nat /\ x.epoch = e /\ x.start = s
    BY DEF Journal, Entry
  <1> HIDE DEF x
  <1>1. /\ g \in Seq(Entry) /\ Len(g) = Len(h) + 1 /\ g[Len(h) + 1] = x /\ g # << >>
        /\ \A i \in 1 .. Len(h) : g[i] = h[i]
        /\ DOMAIN g = 1 .. Len(h) + 1 /\ DOMAIN h = 1 .. Len(h)
    BY <1>0
  <1> HIDE DEF g
  <1>2. \A i \in DOMAIN g : g[i].start <= s
    BY <1>0, <1>1
  <1>3. Journal(g)
    <2>1. \A i, j \in DOMAIN g : i < j => g[i].epoch < g[j].epoch /\ g[i].start <= g[j].start
      <3>1. ASSUME NEW i \in DOMAIN g, NEW j \in DOMAIN g, i < j
            PROVE  g[i].epoch < g[j].epoch /\ g[i].start <= g[j].start
        <4>1. i \in DOMAIN h /\ g[i] = h[i]
          BY <3>1, <1>0, <1>1
        <4>2. CASE j = Len(h) + 1
          BY <4>1, <4>2, <1>0, <1>1
        <4>3. CASE j # Len(h) + 1
          BY <3>1, <4>1, <4>3, <1>0, <1>1 DEF Journal, Ordered
        <4> QED BY <4>2, <4>3
      <3> QED BY <3>1
    <2>2. ASSUME NEW c \in Nat PROVE \E k \in 0 .. Len(g) : BeginBelow(g, k, c)
      <3>1. PICK k \in 0 .. Len(h) : BeginBelow(h, k, c)
        BY Zenon DEF Journal, Cuttable
      <3>2. CASE k = Len(h) /\ s < c
        <4>1. BeginBelow(g, Len(h) + 1, c)
          BY <1>0, <1>1, <3>1, <3>2 DEF BeginBelow
        <4> QED BY <4>1, <1>0, <1>1
      <3>3. CASE k < Len(h) \/ s >= c
        <4>1. BeginBelow(g, k, c)
          BY <1>0, <1>1, <3>1, <3>3 DEF BeginBelow
        <4> QED BY <4>1, <1>0, <1>1
      <3> QED BY <3>2, <3>3, <1>0
    <2> QED BY <1>1, <2>1, <2>2 DEF Journal, Ordered, Cuttable
  <1>4. SaysAs(g, h, s, e)
    <2>1. ASSUME NEW p \in Nat, NEW y \in Nat, p < s, Owns(h, p, y) PROVE Owns(g, p, y)
      <3>1. PICK j \in DOMAIN h : h[j].start <= p /\ h[j].epoch = y /\ \A k \in DOMAIN h : k > j => h[k].start > p
        BY <2>1 DEF Owns
      <3>2. j \in DOMAIN g /\ g[j] = h[j]
        BY <1>0, <1>1
      <3>3. \A k \in DOMAIN g : k > j => g[k].start > p
        BY <1>0, <1>1, <2>1, <3>1
      <3> QED BY <3>1, <3>2, <3>3 DEF Owns
    <2> QED BY <2>1, <1>0, <1>1 DEF SaysAs
  <1>5. Latest(g).epoch = e
    BY <1>0, <1>1 DEF Latest
  <1> QED BY <1>1, <1>2, <1>3, <1>4, <1>5 DEF g, x

\* A cut keeps what begins below it, and says of the offsets below it the same.
LEMMA CutKeeps ==
  ASSUME NEW h, Journal(h), NEW c \in Nat
  PROVE  LET g == CutTo(h, c) IN
         /\ Journal(g) /\ \A i \in DOMAIN g : g[i].start < c
         /\ SaysAs(g, h, c, 0) /\ \A i \in DOMAIN g : \E j \in DOMAIN h : g[i].epoch = h[j].epoch
         /\ g # << >> => h # << >> /\ Latest(g).epoch <= Latest(h).epoch
  <1> DEFINE keep == CHOOSE k \in 0 .. Len(h) : BeginBelow(h, k, c)
             g == SubSeq(h, 1, keep)
  <1>1. keep \in 0 .. Len(h) /\ BeginBelow(h, keep, c)
    BY Zenon DEF Journal, Cuttable
  <1> HIDE DEF keep
  <1>2. h \in Seq(Entry) /\ Len(h) \in Nat /\ DOMAIN h = 1 .. Len(h)
    BY DEF Journal
  <1>3. g \in Seq(Entry) /\ Len(g) = keep /\ DOMAIN g = 1 .. keep /\ \A i \in 1 .. keep : g[i] = h[i]
    BY <1>1, <1>2
  <1> HIDE DEF g
  <1>4. \A i \in DOMAIN g : g[i].start < c /\ i \in DOMAIN h /\ g[i] = h[i]
    BY <1>1, <1>2, <1>3 DEF BeginBelow
  <1>5. Journal(g)
    <2>1. \A i, j \in DOMAIN g : i < j => g[i].epoch < g[j].epoch /\ g[i].start <= g[j].start
      BY <1>4 DEF Journal, Ordered
    <2>2. ASSUME NEW d \in Nat PROVE \E k \in 0 .. Len(g) : BeginBelow(g, k, d)
      <3>1. PICK k \in 0 .. Len(h) : BeginBelow(h, k, d)
        BY DEF Journal, Cuttable
      <3>2. CASE k <= keep
        <4>1. BeginBelow(g, k, d)
          BY <3>1, <3>2, <1>1, <1>2, <1>3 DEF BeginBelow
        <4> QED BY <4>1, <3>2, <1>1, <1>3
      <3>3. CASE k > keep
        <4>1. BeginBelow(g, keep, d)
          BY <3>1, <3>3, <1>1, <1>2, <1>3 DEF BeginBelow
        <4> QED BY <4>1, <1>1, <1>3
      <3> QED BY <3>2, <3>3, <1>1
    <2> QED BY <1>3, <2>1, <2>2 DEF Journal, Ordered, Cuttable
  <1>6. ASSUME NEW p \in Nat, NEW y \in Nat, p < c, Owns(h, p, y) PROVE Owns(g, p, y)
    <2>1. PICK j \in DOMAIN h : h[j].start <= p /\ h[j].epoch = y /\ \A k \in DOMAIN h : k > j => h[k].start > p
      BY <1>6 DEF Owns
    <2>2. j <= keep
      <3> SUFFICES ASSUME j > keep PROVE FALSE
        BY <1>1, <1>2
      <3>1. keep + 1 \in DOMAIN h /\ h[keep + 1].start >= c /\ (keep + 1 < j \/ keep + 1 = j)
        BY <1>1, <1>2 DEF BeginBelow
      <3>2. h[keep + 1].start <= h[j].start /\ h[keep + 1].start \in Nat /\ h[j].start \in Nat
        BY <3>1, EntryTyped DEF Journal, Ordered
      <3> QED BY <2>1, <3>1, <3>2, <1>6
    <2>3. j \in DOMAIN g
      BY <2>2, <1>1, <1>2, <1>3
    <2> QED BY <2>1, <2>3, <1>4 DEF Owns
  <1>7. SaysAs(g, h, c, 0)
    BY <1>4, <1>6 DEF SaysAs
  <1>8. ASSUME g # << >> PROVE h # << >> /\ Latest(g).epoch <= Latest(h).epoch
    <2>1. keep >= 1 /\ keep <= Len(h)
      BY <1>8, <1>1, <1>2, <1>3
    <2>2. keep \in DOMAIN h /\ Len(h) \in DOMAIN h /\ Latest(g) = h[keep] /\ h # << >>
      BY <2>1, <1>1, <1>2, <1>3 DEF Latest
    <2>3. keep = Len(h) \/ h[keep].epoch < h[Len(h)].epoch
      BY <2>1, <2>2, <1>1, <1>2 DEF Journal, Ordered
    <2> QED BY <2>2, <2>3, EntryTyped DEF Latest
  <1> QED BY <1>4, <1>5, <1>7, <1>8, Zenon DEF g, keep, CutTo

\* Adopting epoch e over a log of s records.
LEMMA AdoptionKeeps ==
  ASSUME NEW h, Journal(h), NEW e \in Nat \ {0}, NEW s \in Nat, \A i \in DOMAIN h : h[i].start <= s
  PROVE  LET g == RecordAdoption(h, e, s) IN
         /\ Journal(g) /\ SaysAs(g, h, s, e) /\ ~AdoptionRefused(h, e, s)
         /\ \A i \in DOMAIN g : g[i].start <= s
         /\ g # << >> => h # << >> \/ s = 0
         /\ h # << >> => g # << >>
         /\ g # << >> /\ (\A i \in DOMAIN h : h[i].epoch <= e) => Latest(g).epoch = e
  <1> DEFINE x == [ epoch |-> e, start |-> s ]
  <1>0. h \in Seq(Entry) /\ Len(h) \in Nat /\ DOMAIN h = 1 .. Len(h) /\ SaysAs(h, h, s, e)
    BY DEF Journal, SaysAs
  <1>1. ASSUME h # << >>
        PROVE  /\ Len(h) \in DOMAIN h /\ Latest(h).epoch \in Nat /\ Latest(h).start <= s
               /\ \A i \in DOMAIN h : h[i].epoch <= Latest(h).epoch /\ h[i].epoch \in Nat
    <2>1. Len(h) \in DOMAIN h
      BY <1>0, <1>1
    <2>2. \A i \in DOMAIN h : i = Len(h) \/ h[i].epoch < h[Len(h)].epoch
      BY <1>0, <2>1 DEF Journal, Ordered
    <2>3. \A i \in DOMAIN h : h[i].epoch \in Nat /\ h[i].start \in Nat
      BY EntryTyped
    <2> QED BY <2>1, <2>2, <2>3 DEF Latest
  <1>2. ~AdoptionRefused(h, e, s)
    BY <1>0, <1>1, EntryTyped DEF AdoptionRefused, AdoptionIgnored, RecordRefused, Latest
  <1>3. CASE RecordAdoption(h, e, s) = h
    <2>1. ASSUME h # << >>, \A i \in DOMAIN h : h[i].epoch <= e PROVE Latest(h).epoch = e
      <3>1. AdoptionIgnored(h, e, s) \/ e <= Latest(h).epoch \/ RecordRefused(h, e, s)
        <4> SUFFICES ASSUME Append(h, x) = h PROVE FALSE
          BY <1>3, <2>1 DEF RecordAdoption, Record
        <4>1. Len(Append(h, x)) = Len(h) + 1
          BY <1>0
        <4> QED BY <4>1, <1>0
      <3>2. e <= Latest(h).epoch
        BY <2>1, <3>1, <1>1, <1>2 DEF AdoptionIgnored, AdoptionRefused
      <3> QED BY <2>1, <3>2, <1>1 DEF Latest
    <2> QED BY <1>0, <1>2, <1>3, <2>1
  <1>4. CASE RecordAdoption(h, e, s) # h
    <2>1. ~AdoptionIgnored(h, e, s) /\ RecordAdoption(h, e, s) = Append(h, x)
          /\ (h # << >> => ~(e <= Latest(h).epoch))
      BY <1>4 DEF RecordAdoption, Record
    <2>2. \A i \in DOMAIN h : h[i].epoch < e /\ h[i].start <= s
      BY <2>1, <1>0, <1>1, EntryTyped
    <2>3. h # << >> \/ s = 0
      BY <2>1 DEF AdoptionIgnored
    <2>4. Append(h, x) # << >>
      BY <1>0
    <2> QED BY <1>2, <2>1, <2>2, <2>3, <2>4, AppendKeeps
  <1> QED BY <1>3, <1>4

\* A history cut at c and anchored there again under the epoch held.
LEMMA AnchorKeeps ==
  ASSUME NEW h, Journal(h), h # << >>, NEW e \in Nat, NEW c \in Nat
  PROVE  LET g == Anchored(CutTo(h, c), e, c) IN
         /\ Journal(g) /\ SaysAs(g, h, c, e) /\ \A i \in DOMAIN g : g[i].start <= c
         /\ g # << >> /\ Latest(h).epoch = e => Latest(g).epoch = e
  <1> DEFINE t == CutTo(h, c)
             x == [ epoch |-> e, start |-> c ]
  <1>1. /\ Journal(t) /\ \A i \in DOMAIN t : t[i].start < c
        /\ SaysAs(t, h, c, 0) /\ \A i \in DOMAIN t : \E j \in DOMAIN h : t[i].epoch = h[j].epoch
        /\ t # << >> => Latest(t).epoch <= Latest(h).epoch
    BY CutKeeps
  <1> HIDE DEF t
  <1>2. /\ t \in Seq(Entry) /\ Len(t) \in Nat /\ DOMAIN t = 1 .. Len(t)
        /\ \A i \in DOMAIN t : t[i].epoch \in Nat /\ t[i].start \in Nat
    BY <1>1, EntryTyped DEF Journal
  <1>3. ASSUME t # << >>
        PROVE  /\ Len(t) \in DOMAIN t /\ Latest(t).epoch \in Nat /\ Latest(t).start < c /\ Latest(t).start \in Nat
               /\ \A i \in DOMAIN t : t[i].epoch <= Latest(t).epoch
    <2>1. Len(t) \in DOMAIN t
      BY <1>2, <1>3
    <2>2. \A i \in DOMAIN t : i = Len(t) \/ t[i].epoch < t[Len(t)].epoch
      BY <1>1, <1>2, <2>1, SMTT(30) DEF Journal, Ordered
    <2>3. Latest(t) = t[Len(t)] /\ t[Len(t)].epoch \in Nat /\ t[Len(t)].start \in Nat /\ t[Len(t)].start < c
      BY <2>1, <1>1, <1>2 DEF Latest
    <2>4. \A i \in DOMAIN t : t[i].epoch <= t[Len(t)].epoch
      BY <2>2, <2>3, <1>2
    <2> QED BY <2>1, <2>3, <2>4
  <1>4. CASE Anchored(t, e, c) = t
    <2>1. ASSUME t # << >>, Latest(h).epoch = e PROVE Latest(t).epoch = e
      <3>1. e # 0
        <4>1. Len(h) \in DOMAIN h
          BY DEF Journal
        <4> QED BY <2>1, <4>1, EntryTyped DEF Latest
      <3>2. Latest(t).epoch >= e \/ Record(t, e, c) = t
        BY <1>4, <3>1 DEF Anchored
      <3>3. ASSUME Record(t, e, c) = t, ~(e <= Latest(t).epoch) PROVE FALSE
        <4>1. ~RecordRefused(t, e, c)
          BY <2>1, <3>3, <1>3 DEF RecordRefused
        <4>2. t = Append(t, x)
          BY <3>3, <4>1 DEF Record
        <4>3. Len(Append(t, x)) = Len(t) + 1
          BY <1>2
        <4> QED BY <4>2, <4>3, <1>2
      <3> QED BY <3>2, <3>3, <2>1, <1>1, <1>3
    <2>2. \A i \in DOMAIN t : t[i].start <= c
      BY <1>1, <1>2
    <2>3. SaysAs(t, h, c, e)
      BY <1>1 DEF SaysAs
    <2> QED BY <1>1, <1>4, <2>1, <2>2, <2>3 DEF t
  <1>5. CASE Anchored(t, e, c) # t
    <2>1. e # 0 /\ Anchored(t, e, c) = Append(t, x) /\ (t # << >> => ~(Latest(t).epoch >= e))
      BY <1>5 DEF Anchored, Record
    <2>2. \A i \in DOMAIN t : t[i].epoch < e /\ t[i].start <= c
      BY <2>1, <1>1, <1>2, <1>3, SMTT(30)
    <2>3. /\ Journal(Append(t, x)) /\ Latest(Append(t, x)).epoch = e /\ SaysAs(Append(t, x), t, c, e)
          /\ \A i \in DOMAIN Append(t, x) : Append(t, x)[i].start <= c
      BY <1>1, <2>1, <2>2, AppendKeeps
    <2>4. SaysAs(Append(t, x), h, c, e)
      BY <2>3, <1>1 DEF SaysAs
    <2> QED BY <2>1, <2>3, <2>4 DEF t
  <1> QED BY <1>4, <1>5

\* Opening a journal over a log of s records.
LEMMA AttachKeeps ==
  ASSUME NEW h, Journal(h), NEW s \in Nat
  PROVE  LET g == AttachedTo(h, s) IN
         /\ Journal(g) /\ SaysAs(g, h, s, 0) /\ \A i \in DOMAIN g : g[i].start <= s
         /\ \A i \in DOMAIN g : \E j \in DOMAIN h : g[i].epoch = h[j].epoch
         /\ g # << >> => h # << >>
  <1>1. CASE h # << >> /\ Latest(h).start > s
    <2> DEFINE g == CutTo(h, s + 1)
    <2>1. /\ Journal(g) /\ \A i \in DOMAIN g : g[i].start < s + 1
          /\ SaysAs(g, h, s + 1, 0) /\ \A i \in DOMAIN g : \E j \in DOMAIN h : g[i].epoch = h[j].epoch
      BY CutKeeps
    <2>2. AttachedTo(h, s) = g
      BY <1>1 DEF AttachedTo
    <2> HIDE DEF g
    <2>3. \A i \in DOMAIN g : g[i].start <= s
      BY <2>1, EntryTyped
    <2>4. SaysAs(g, h, s, 0)
      BY <2>1 DEF SaysAs
    <2> QED BY <1>1, <2>1, <2>2, <2>3, <2>4
  <1>2. CASE ~(h # << >> /\ Latest(h).start > s)
    <2>1. AttachedTo(h, s) = h
      BY <1>2 DEF AttachedTo
    <2>2. ASSUME NEW i \in DOMAIN h PROVE h[i].start <= s
      <3>1. h # << >> /\ Len(h) \in DOMAIN h /\ (i = Len(h) \/ i < Len(h))
        BY EntryTyped DEF Journal
      <3>2. h[i].start <= Latest(h).start
        BY <3>1, EntryTyped DEF Journal, Ordered, Latest
      <3> QED BY <3>1, <3>2, <1>2, EntryTyped DEF Latest
    <2>3. SaysAs(h, h, s, 0)
      BY DEF SaysAs
    <2> QED BY <2>1, <2>2, <2>3
  <1> QED BY <1>1, <1>2

-----------------------------------------------------------------------------
(* A replica's history is true. *)

\* What the replica writes next is under the epoch it holds.
Writes(n) ==
  /\ role[n] # "down" /\ held[n] > 0
  /\ role[n] = "candidate" \/ (active[n] /\ held[n] = view[n]) \/ held[n] = lease.epoch

\* The history ends with the epoch the replica writes under, and owns its log.
JournalTrue(n) ==
  /\ Journal(history[n]) /\ ~broken[n]
  /\ \A i \in DOMAIN history[n] : history[n][i].epoch <= lease.epoch
  /\ role[n] # "down" /\ fencing[n].stage # "logCut" =>
       \A i \in DOMAIN history[n] : history[n][i].start <= End(n)
  /\ Writes(n) /\ history[n] # << >> => Latest(history[n]).epoch = held[n]
  /\ history[n] # << >> /\ ~OldRetries => \A i \in DOMAIN log[n] : Owns(history[n], i - 1, log[n][i])

\* Watermarks are within the log, and while the replica is up its floor file is
\* not ahead of what it serves.
MarksTrue(n) ==
  /\ cell[n] \in Nat /\ floor[n] \in Nat /\ cell[n] <= End(n) /\ floor[n] <= End(n)
  /\ role[n] # "down" => floor[n] <= cell[n]

\* A truncation under way is of a history that exists, not below the watermark,
\* and of a log that is still where it was cut.
CutTrue(n) ==
  /\ fencing[n].stage \in { "diverged", "bounded", "logCut" } => history[n] # << >>
  /\ fencing[n].stage = "bounded" => cell[n] <= fencing[n].at
  /\ fencing[n].stage = "logCut" => fencing[n].at = End(n)

True(n) == JournalTrue(n) /\ MarksTrue(n) /\ CutTrue(n)

LeaseSeen(n) ==
  /\ active[n] => held[n] >= view[n]
  /\ role[n] = "leader" => active[n] /\ held[n] = view[n]

Told ==
  /\ \A m \in hwms : m.mark \in Nat
  /\ ~OldRetries => \A m \in requests : m.rec = m.epoch

ByNode ==
  /\ history = [ n \in Nodes |-> history[n] ] /\ broken = [ n \in Nodes |-> broken[n] ]
  /\ cell = [ n \in Nodes |-> cell[n] ] /\ floor = [ n \in Nodes |-> floor[n] ]

HistoryInv ==
  /\ ByNode /\ Told
  /\ \A n \in Nodes : LeaseSeen(n)
  /\ \A n \in Nodes : n \notin raced => True(n)

LEMMA SaysSame == ASSUME NEW h, NEW o, NEW e PROVE SaysAs(h, h, o, e)
  BY Zenon DEF SaysAs

LEMMA InLog ==
  ASSUME NEW len \in Nat, NEW low \in Nat, NEW o \in 0 .. len - 1, o >= low
  PROVE  o \in Nat /\ o <= len /\ o <= o /\ low <= o
  OBVIOUS

LEMMA Positive == ~(0 > 0) /\ \A k \in Nat : 0 <= k /\ (1 <= k => k > 0)
  OBVIOUS

Untouched(m) ==
  /\ history'[m] = history[m] /\ broken'[m] = broken[m] /\ cell'[m] = cell[m] /\ floor'[m] = floor[m]
  /\ log'[m] = log[m] /\ role'[m] = role[m] /\ held'[m] = held[m] /\ view'[m] = view[m]
  /\ active'[m] = active[m] /\ fencing'[m] = fencing[m]

LEMMA UntouchedKept ==
  ASSUME NEW m, Untouched(m), UNCHANGED << scen, lease >>, True(m)
  PROVE  True(m)'
  <1>1. JournalTrue(m)'
    BY Zenon DEF True, Untouched, JournalTrue, Writes, End, OldRetries
  <1>2. MarksTrue(m)' /\ CutTrue(m)'
    BY Zenon DEF True, Untouched, MarksTrue, CutTrue, End
  <1> QED BY <1>1, <1>2, Zenon DEF True

\* A step of one node.
LEMMA NodeStep ==
  ASSUME HistoryInv, NEW n \in Nodes, UNCHANGED << scen, lease >>, \A m \in Nodes : m # n => Untouched(m),
         ByNode', Told', LeaseSeen(n)', raced \subseteq raced', n \notin raced' => True(n)'
  PROVE  HistoryInv'
  <1>1. ASSUME NEW m \in Nodes, m # n PROVE LeaseSeen(m)' /\ (m \notin raced' => True(m)')
    <2>1. Untouched(m) /\ LeaseSeen(m) /\ (m \notin raced' => True(m))
      BY <1>1, Zenon DEF HistoryInv
    <2>2. LeaseSeen(m)'
      BY <2>1, Zenon DEF Untouched, LeaseSeen
    <2> QED BY <2>1, <2>2, UntouchedKept, Zenon
  <1> QED BY <1>1, Zenon DEF HistoryInv

\* Whoever answers no fence is in the middle of no truncation.
LEMMA NoCut ==
  ASSUME NEW n, fencing[n] = NoFence
  PROVE  CutTrue(n) /\ fencing[n].stage \notin { "diverged", "bounded", "logCut" }
  BY Blank DEF CutTrue

LEMMA NotFencing ==
  ASSUME VoteInv, NEW n \in Nodes, role[n] \notin { "follower", "candidate" }
  PROVE  fencing[n] = NoFence
  BY Zenon DEF VoteInv, FencesOwned, FenceOwned

LEMMA WithinLog ==
  ASSUME NEW k \in Nat, NEW l \in Nat, NEW s \in Nat, k <= l, k <= s, NEW i \in 1 .. k
  PROVE  i \in 1 .. l /\ i - 1 \in Nat /\ i - 1 < s /\ s # 0
  OBVIOUS

\* A log that has not grown, under a history that says the same of it.
LEMMA JournalMoves ==
  ASSUME VoteInv, NEW n \in Nodes, JournalTrue(n), UNCHANGED << scen, lease >>, LogsTyped',
         NEW s \in Nat, NEW e \in Nat, e <= lease.epoch,
         Journal(history'[n]), SaysAs(history'[n], history[n], s, e), ~broken'[n],
         Len(log'[n]) <= s, Len(log'[n]) <= Len(log[n]), \A i \in 1 .. Len(log'[n]) : log'[n][i] = log[n][i],
         role'[n] # "down" /\ fencing'[n].stage # "logCut" =>
           \A i \in DOMAIN history'[n] : history'[n][i].start <= Len(log'[n]),
         history'[n] # << >> => history[n] # << >> \/ s = 0,
         Writes(n)' /\ history'[n] # << >> => Latest(history'[n]).epoch = held'[n]
  PROVE  JournalTrue(n)'
  <1>0. /\ log[n] \in Seq(Nat \ {0}) /\ log'[n] \in Seq(Nat \ {0})
        /\ DOMAIN log[n] = 1 .. Len(log[n]) /\ DOMAIN log'[n] = 1 .. Len(log'[n])
        /\ Len(log[n]) \in Nat /\ Len(log'[n]) \in Nat
    BY DEF VoteInv, TypeOK, LogsTyped
  <1>1. \A i \in DOMAIN history'[n] : history'[n][i].epoch <= lease.epoch
    BY Zenon DEF SaysAs, JournalTrue
  <1>2. ASSUME history'[n] # << >>, ~OldRetries, NEW i \in DOMAIN log'[n]
        PROVE  Owns(history'[n], i - 1, log'[n][i])
    <2>1. i \in 1 .. Len(log'[n])
      BY <1>0, <1>2, Zenon
    <2>2. i \in 1 .. Len(log[n]) /\ i - 1 \in Nat /\ i - 1 < s /\ s # 0
      BY <1>0, <2>1, WithinLog, Zenon
    <2>3. i \in DOMAIN log[n] /\ log'[n][i] = log[n][i]
      BY <1>0, <2>1, <2>2, Zenon
    <2>4. log[n][i] \in Nat
      <3>1. log[n][i] \in Nat \ {0}
        BY <1>0, <2>3
      <3> QED BY <3>1, Zenon
    <2>5. Owns(history[n], i - 1, log[n][i])
      BY <1>2, <2>2, <2>3, Zenon DEF JournalTrue
    <2> QED BY <2>2, <2>3, <2>4, <2>5, Zenon DEF SaysAs
  <1> QED BY <1>1, <1>2, Zenon DEF JournalTrue, End, OldRetries

\* A record of epoch r goes to the log of a replica whose history ends with r.
LEMMA JournalGrows ==
  ASSUME VoteInv, NEW n \in Nodes, JournalTrue(n), role[n] # "down", fencing[n].stage # "logCut",
         NEW r \in Nat \ {0},
         ~OldRetries => Writes(n) /\ held[n] = r, log' = [ log EXCEPT ![n] = Append(log[n], r) ],
         history'[n] = history[n], broken'[n] = broken[n],
         UNCHANGED << scen, lease, role, held, view, active, fencing >>
  PROVE  JournalTrue(n)' /\ Len(log'[n]) = Len(log[n]) + 1 /\ Len(log[n]) \in Nat
         /\ \A m \in Nodes : m # n => log'[m] = log[m]
  <1>0. log \in [ Nodes -> Seq(Nat \ {0}) ] /\ log[n] \in Seq(Nat \ {0})
    BY Zenon DEF VoteInv, TypeOK, LogsTyped
  <1>1. log'[n] = Append(log[n], r) /\ \A m \in Nodes : m # n => log'[m] = log[m]
    BY <1>0, Zenon
  <1>2. /\ Len(log'[n]) = Len(log[n]) + 1 /\ Len(log[n]) \in Nat /\ log'[n][Len(log[n]) + 1] = r
        /\ DOMAIN log[n] = 1 .. Len(log[n]) /\ DOMAIN log'[n] = 1 .. Len(log[n]) + 1
        /\ \A i \in 1 .. Len(log[n]) : log'[n][i] = log[n][i]
    BY <1>0, <1>1
  <1>3. \A i \in DOMAIN history[n] : history[n][i].start <= Len(log[n]) /\ history[n][i].start \in Nat
    BY EntryTyped, Zenon DEF JournalTrue, End
  <1>4. ASSUME history[n] # << >>, ~OldRetries, NEW i \in DOMAIN log'[n]
        PROVE  Owns(history[n], i - 1, log'[n][i])
    <2>1. CASE i <= Len(log[n])
      BY <1>2, <1>4, <2>1 DEF JournalTrue
    <2>2. CASE ~(i <= Len(log[n]))
      <3>1. i - 1 = Len(log[n]) /\ log'[n][i] = r
        <4>1. i \in 1 .. Len(log[n]) + 1 /\ Len(log[n]) \in Nat
          BY <1>2, <1>4, Zenon
        <4>2. i = Len(log[n]) + 1 /\ i - 1 = Len(log[n])
          BY <2>2, <4>1, SMTT(30)
        <4> QED BY <1>2, <4>2, Zenon
      <3>2. Len(history[n]) \in DOMAIN history[n] /\ \A k \in DOMAIN history[n] : ~(k > Len(history[n]))
        BY <1>4, EntryTyped DEF JournalTrue, Journal
      <3>3. history[n][Len(history[n])].epoch = r
        BY <1>4, Zenon DEF JournalTrue, Latest
      <3> QED BY <3>1, <3>2, <3>3, <1>3, Zenon DEF Owns
    <2> QED BY <2>1, <2>2, Zenon
  <1>5. JournalTrue(n)'
    <2>1. \A i \in DOMAIN history[n] : history[n][i].start <= Len(log'[n])
      BY <1>2, <1>3
    <2> QED BY <1>4, <2>1, Zenon DEF JournalTrue, Writes, End, OldRetries
  <1> QED BY <1>1, <1>2, <1>5, Zenon

histVars ==
  << scen, lease, role, log, history, broken, held, view, active, cell, floor, fencing, requests, hwms, raced >>

LEMMA HistoryFrame == HistoryInv /\ UNCHANGED histVars => HistoryInv'
  <1> SUFFICES ASSUME HistoryInv, UNCHANGED histVars PROVE HistoryInv'
    BY Zenon
  <1>1. \A m \in Nodes : Untouched(m) /\ UNCHANGED << scen, lease, raced >>
    BY Zenon DEF Untouched, histVars
  <1>2. ByNode' /\ Told' /\ \A m \in Nodes : LeaseSeen(m)'
    BY Zenon DEF HistoryInv, ByNode, Told, LeaseSeen, histVars, OldRetries
  <1> QED BY <1>1, <1>2, UntouchedKept, Zenon DEF HistoryInv

\* A new epoch is newer than every epoch any history names.
LEMMA HistoryAcquire ==
  ASSUME VoteInv, HistoryInv, NEW n \in Nodes, Acquire(n), UNCHANGED scen PROVE HistoryInv'
  <1>1. /\ lease'.epoch = lease.epoch + 1 /\ lease.epoch \in Nat
        /\ UNCHANGED << role, log, history, broken, held, view, active, cell, floor, fencing, requests, hwms, raced >>
    BY ScenarioAssumption DEF Acquire, VoteInv, TypeOK, MaxEpoch, disk, follower, network, ghosts
  <1>2. ASSUME NEW m \in Nodes, m \notin raced PROVE True(m)'
    <2>1. Journal(history[m]) /\ JournalTrue(m) /\ MarksTrue(m) /\ CutTrue(m)
      BY <1>2, Zenon DEF HistoryInv, True, JournalTrue
    <2>2. \A i \in DOMAIN history[m] : history[m][i].epoch <= lease'.epoch
      BY <1>1, <2>1, EntryTyped DEF JournalTrue
    <2>3. Writes(m)' => Writes(m)
      BY <1>1 DEF Writes, VoteInv, TypeOK, EpochsOwned
    <2>4. JournalTrue(m)'
      BY <1>1, <2>1, <2>2, <2>3, Zenon DEF JournalTrue, End, OldRetries
    <2> QED BY <1>1, <2>1, <2>4, Zenon DEF True, MarksTrue, CutTrue, End
  <1>3. ByNode' /\ Told' /\ \A m \in Nodes : LeaseSeen(m)'
    BY <1>1, Zenon DEF HistoryInv, ByNode, Told, LeaseSeen, OldRetries
  <1> QED BY <1>1, <1>2, <1>3, Zenon DEF HistoryInv

LEMMA AdoptMoves ==
  ASSUME VoteInv, HistoryInv, NEW n \in Nodes, NEW e \in Nat \ {0}, held[n] <= e, Adopt(n, e)
  PROVE  /\ held'[n] = e
         /\ \A m \in Nodes : m # n => history'[m] = history[m] /\ broken'[m] = broken[m] /\ held'[m] = held[m]
         /\ history' = [ m \in Nodes |-> history'[m] ] /\ broken' = [ m \in Nodes |-> broken'[m] ]
         /\ history'[n] = IF e > held[n] THEN RecordAdoption(history[n], e, Len(log[n])) ELSE history[n]
         /\ broken'[n] <=> (broken[n] \/ (e > held[n] /\ AdoptionRefused(history[n], e, Len(log[n]))))
         /\ raced \subseteq raced'
         /\ n \notin raced' => n \notin raced /\ (e > held[n] => fencing[n].stage # "logCut")
  <1>0. /\ held \in [ Nodes -> Nat ] /\ held[n] \in Nat
        /\ history = [ m \in Nodes |-> history[m] ] /\ broken = [ m \in Nodes |-> broken[m] ]
    BY Zenon DEF VoteInv, TypeOK, HistoryInv, ByNode
  <1>1. Larger(held[n], e) = e
    BY <1>0 DEF Larger
  <1>2. /\ held' = [ held EXCEPT ![n] = e ]
        /\ history' = [ history EXCEPT ![n] = IF e > held[n] THEN RecordAdoption(history[n], e, Len(log[n]))
                                                             ELSE history[n] ]
        /\ broken' = [ broken EXCEPT ![n] = broken[n] \/ (e > held[n] /\ AdoptionRefused(history[n], e, Len(log[n]))) ]
    BY <1>1, Zenon DEF Adopt, End
  <1>3. /\ held'[n] = e
        /\ \A m \in Nodes : m # n => history'[m] = history[m] /\ broken'[m] = broken[m] /\ held'[m] = held[m]
        /\ history' = [ m \in Nodes |-> history'[m] ] /\ broken' = [ m \in Nodes |-> broken'[m] ]
    BY <1>0, <1>2, Zenon
  <1>4. history'[n] = IF e > held[n] THEN RecordAdoption(history[n], e, Len(log[n])) ELSE history[n]
    BY <1>0, <1>2, Zenon
  <1>5. broken'[n] <=> (broken[n] \/ (e > held[n] /\ AdoptionRefused(history[n], e, Len(log[n]))))
    BY <1>0, <1>2, Zenon
  <1>6. /\ raced \subseteq raced'
        /\ n \notin raced' => n \notin raced /\ (e > held[n] => fencing[n].stage # "logCut")
    BY Zenon DEF Adopt
  <1> QED BY <1>3, <1>4, <1>5, <1>6, Zenon

\* Taking up an epoch: the lease's, the one already held, or one under which
\* the replica does not write.
LEMMA AdoptTrue ==
  ASSUME VoteInv, HistoryInv, NEW n \in Nodes, role[n] # "down", NEW e \in Nat \ {0}, e <= lease.epoch,
         held[n] <= e, Adopt(n, e), UNCHANGED << scen, lease, log >>, n \notin raced',
         fencing'[n].stage # "logCut" => fencing[n].stage # "logCut",
         e = lease.epoch \/ (e = held[n] /\ (Writes(n)' => Writes(n))) \/ ~Writes(n)'
  PROVE  JournalTrue(n)' /\ (history[n] # << >> => history'[n] # << >>)
  <1>0. /\ held[n] \in Nat /\ LogsTyped' /\ Len(log[n]) \in Nat /\ lease.epoch \in Nat
    BY DEF VoteInv, TypeOK, LogsTyped
  <1>1. /\ held'[n] = e /\ n \notin raced /\ (e > held[n] => fencing[n].stage # "logCut")
        /\ history'[n] = IF e > held[n] THEN RecordAdoption(history[n], e, Len(log[n])) ELSE history[n]
        /\ broken'[n] <=> (broken[n] \/ (e > held[n] /\ AdoptionRefused(history[n], e, Len(log[n]))))
    BY AdoptMoves, Zenon
  <1>2. JournalTrue(n)
    BY <1>1, Zenon DEF HistoryInv, True
  <1>4. /\ Journal(history[n]) /\ ~broken[n]
        /\ fencing[n].stage # "logCut" => \A i \in DOMAIN history[n] : history[n][i].start <= Len(log[n])
        /\ \A i \in DOMAIN history[n] : history[n][i].epoch <= lease.epoch
    BY <1>2, Zenon DEF JournalTrue, End
  <1>5. CASE e > held[n]
    <2>0. PICK g : g = RecordAdoption(history[n], e, Len(log[n]))
      BY Zenon
    <2>a. \A i \in DOMAIN history[n] : history[n][i].start <= Len(log[n])
      BY <1>1, <1>4, <1>5, Zenon
    <2>1. /\ Journal(g) /\ SaysAs(g, history[n], Len(log[n]), e) /\ ~AdoptionRefused(history[n], e, Len(log[n]))
          /\ \A i \in DOMAIN g : g[i].start <= Len(log[n])
          /\ g # << >> => history[n] # << >> \/ Len(log[n]) = 0
          /\ history[n] # << >> => g # << >>
          /\ g # << >> /\ (\A i \in DOMAIN history[n] : history[n][i].epoch <= e) => Latest(g).epoch = e
      <3>a. PICK h : h = history[n]
        BY Zenon
      <3>0. PICK s \in Nat : h = history[n] /\ s = Len(log[n])
        BY <1>0, <3>a, Zenon
      <3>1. Journal(h) /\ (\A i \in DOMAIN h : h[i].start <= s) /\ g = RecordAdoption(h, e, s)
        BY <1>4, <2>0, <2>a, <3>0, Zenon
      <3>2. /\ Journal(g) /\ SaysAs(g, h, s, e) /\ ~AdoptionRefused(h, e, s)
            /\ \A i \in DOMAIN g : g[i].start <= s
            /\ g # << >> => h # << >> \/ s = 0
            /\ h # << >> => g # << >>
            /\ g # << >> /\ (\A i \in DOMAIN h : h[i].epoch <= e) => Latest(g).epoch = e
        BY <3>1, AdoptionKeeps
      <3> QED BY <3>0, <3>2, Zenon
    <2>b. history'[n] = g
      BY <1>1, <1>5, <2>0, Zenon
    <2>2. /\ Journal(history'[n]) /\ SaysAs(history'[n], history[n], Len(log[n]), e) /\ ~broken'[n]
          /\ \A i \in DOMAIN history'[n] : history'[n][i].start <= Len(log[n])
          /\ history'[n] # << >> => history[n] # << >> \/ Len(log[n]) = 0
          /\ history[n] # << >> => history'[n] # << >>
          /\ history'[n] # << >> /\ e = lease.epoch => Latest(history'[n]).epoch = e
      BY <2>1, <2>b, <1>1, <1>4, Zenon
    <2>3. Len(log'[n]) <= Len(log[n]) /\ \A i \in 1 .. Len(log'[n]) : log'[n][i] = log[n][i]
      BY <1>0
    <2>4. e = lease.epoch \/ ~Writes(n)'
      BY <1>0, <1>5
    <2>5. JournalTrue(n)'
      BY <1>0, <1>1, <1>2, <2>2, <2>3, <2>4, JournalMoves, Zenon
    <2> QED BY <2>2, <2>5, Zenon
  <1>6. CASE ~(e > held[n])
    <2>1. history'[n] = history[n] /\ ~broken'[n] /\ e = held[n]
      <3>1. history'[n] = history[n]
        BY <1>1, <1>6, Zenon
      <3>2. ~broken'[n]
        BY <1>1, <1>4, <1>6, Zenon
      <3> QED BY <1>0, <1>6, <3>1, <3>2
    <2>2. Writes(n)' => Writes(n)
      BY <2>1 DEF Writes
    <2>3. JournalTrue(n)'
      BY <1>1, <1>2, <2>1, <2>2, Zenon DEF JournalTrue, End, OldRetries
    <2> QED BY <2>1, <2>3, Zenon
  <1> QED BY <1>5, <1>6, Zenon

LEMMA HistoryObserve ==
  ASSUME VoteInv, HistoryInv, NEW n \in Nodes, Observe(n) \/ FenceLocally(n), UNCHANGED scen PROVE HistoryInv'
  <1>1. /\ Adopt(n, lease.epoch) /\ role[n] \in { "follower", "candidate" } /\ lease.holder # {}
        /\ UNCHANGED << lease, log, cell, floor, fencing, requests, hwms >>
        /\ role' = [ role EXCEPT ![n] = role'[n] ] /\ role'[n] \in { "follower", "candidate" }
    BY Zenon DEF Observe, FenceLocally, Serving, metadata, network, VoteInv, TypeOK
  <1>2. lease.epoch \in Nat \ {0} /\ held[n] <= lease.epoch /\ view[n] <= lease.epoch /\ lease.epoch <= lease.epoch
    BY <1>1 DEF VoteInv, TypeOK, EpochsOwned
  <1>3. /\ view'[n] = lease.epoch \/ view'[n] = view[n]
        /\ \A m \in Nodes : m # n => view'[m] = view[m] /\ active'[m] = active[m] /\ role'[m] = role[m]
    BY Zenon DEF Observe, FenceLocally, VoteInv, TypeOK
  <1>4. /\ held'[n] = lease.epoch /\ raced \subseteq raced' /\ (n \notin raced' => n \notin raced)
        /\ \A m \in Nodes : m # n => history'[m] = history[m] /\ broken'[m] = broken[m] /\ held'[m] = held[m]
        /\ history' = [ m \in Nodes |-> history'[m] ] /\ broken' = [ m \in Nodes |-> broken'[m] ]
    BY <1>1, <1>2, AdoptMoves, Zenon
  <1>5. \A m \in Nodes : m # n => Untouched(m)
    BY <1>1, <1>3, <1>4, Zenon DEF Untouched
  <1>6. ByNode' /\ Told' /\ LeaseSeen(n)'
    BY <1>1, <1>2, <1>3, <1>4, Zenon DEF HistoryInv, ByNode, Told, LeaseSeen, OldRetries
  <1>7. ASSUME n \notin raced' PROVE True(n)'
    <2>1. True(n) /\ role[n] # "down"
      BY <1>1, <1>4, <1>7, Zenon DEF HistoryInv
    <2>2. JournalTrue(n)' /\ (history[n] # << >> => history'[n] # << >>)
      BY <1>1, <1>2, <1>7, <2>1, AdoptTrue, Zenon
    <2>3. MarksTrue(n)'
      BY <1>1, <2>1, Zenon DEF True, MarksTrue, End
    <2>4. CutTrue(n)'
      BY <1>1, <2>1, <2>2, Zenon DEF True, CutTrue, End
    <2> QED BY <2>2, <2>3, <2>4, Zenon DEF True
  <1> QED BY <1>1, <1>4, <1>5, <1>6, <1>7, NodeStep, Zenon

LEMMA HistoryFence ==
  ASSUME VoteInv, HistoryInv, NEW f \in Nodes, NEW c \in Nodes, FenceAdopt(f, c), UNCHANGED scen
  PROVE  HistoryInv'
  <1>1. /\ Adopt(f, held[c]) /\ role[f] = "follower" /\ fencing[f] = NoFence
        /\ UNCHANGED << lease, log, cell, floor, requests, hwms, role, view, active >>
        /\ 1 <= held[c] /\ held[c] <= lease.epoch /\ held[f] <= held[c] /\ held[c] <= view[f]
        /\ held[c] \in Nat /\ held[f] \in Nat /\ view[f] \in Nat
    BY FencedFollows, Zenon DEF FenceAdopt, metadata, network, VoteInv, TypeOK
  <1>a. fencing'[f].stage = "stopped" /\ \A m \in Nodes : m # f => fencing'[m] = fencing[m]
    BY Zenon DEF FenceAdopt, VoteInv, TypeOK
  <1>2. LeaseSeen(f) /\ held' = [ held EXCEPT ![f] = held[c] ] /\ held'[f] = held[c] /\ held[c] \in Nat \ {0}
    BY <1>1, FencedFollows DEF HistoryInv, VoteInv, TypeOK
  <1>3. held[c] = lease.epoch \/ (held[c] = held[f] /\ (Writes(f)' => Writes(f))) \/ ~Writes(f)'
    <2>1. CASE held[c] = held[f]
      BY <1>1, <1>2, <2>1, Zenon DEF Writes
    <2>2. CASE held[c] # held[f]
      <3>1. ~active[f]
        BY <1>1, <1>2, <2>2 DEF LeaseSeen
      <3> QED BY <1>1, <1>2, <3>1, Zenon DEF Writes
    <2> QED BY <2>1, <2>2, Zenon
  <1>4. /\ raced \subseteq raced' /\ (f \notin raced' => f \notin raced)
        /\ \A m \in Nodes : m # f => history'[m] = history[m] /\ broken'[m] = broken[m] /\ held'[m] = held[m]
        /\ history' = [ m \in Nodes |-> history'[m] ] /\ broken' = [ m \in Nodes |-> broken'[m] ]
    BY <1>1, <1>2, AdoptMoves, Zenon
  <1>5. \A m \in Nodes : m # f => Untouched(m)
    BY <1>1, <1>a, <1>4, Zenon DEF Untouched
  <1>6. ByNode' /\ Told'
    BY <1>1, <1>4, Zenon DEF HistoryInv, ByNode, Told, OldRetries
  <1>7. LeaseSeen(f)'
    BY <1>1, <1>2 DEF LeaseSeen
  <1>8. ASSUME f \notin raced' PROVE True(f)'
    <2>1. True(f)
      BY <1>4, <1>8, Zenon DEF HistoryInv
    <2>2. fencing[f].stage # "logCut" /\ fencing'[f].stage \notin { "diverged", "bounded", "logCut" }
      BY <1>1, <1>a, Blank
    <2>3. JournalTrue(f)'
      <3>1. role[f] # "down"
        BY <1>1
      <3> QED BY <1>1, <1>2, <1>3, <1>8, <2>2, <3>1, AdoptTrue, Zenon
    <2>4. MarksTrue(f)' /\ CutTrue(f)'
      BY <1>1, <2>1, <2>2, Zenon DEF True, MarksTrue, CutTrue, End
    <2> QED BY <2>3, <2>4, Zenon DEF True
  <1> QED BY <1>1, <1>4, <1>5, <1>6, <1>7, <1>8, NodeStep, Zenon

\* The files and what is written under stay as they are.
LEMMA JournalStays ==
  ASSUME NEW n \in Nodes, JournalTrue(n), UNCHANGED << scen, lease >>,
         history'[n] = history[n], log'[n] = log[n], ~broken'[n],
         role'[n] # "down" /\ fencing'[n].stage # "logCut" => role[n] # "down" /\ fencing[n].stage # "logCut",
         Writes(n)' => Writes(n) /\ held'[n] = held[n]
  PROVE  JournalTrue(n)'
  BY Zenon DEF JournalTrue, End, OldRetries

\* A replica rebuilt over its files finishes an interrupted truncation.
LEMMA HistoryReopened ==
  ASSUME VoteInv, HistoryInv, NEW n \in Nodes, Demote(n) \/ StandDown(n) \/ Restart(n), UNCHANGED scen
  PROVE  HistoryInv'
  <1> DEFINE g == AttachedTo(history[n], Len(log[n]))
  <1>0. /\ ByNode /\ Told
        /\ LogsTyped /\ Len(log[n]) \in Nat /\ lease.epoch \in Nat /\ fencing = [ m \in Nodes |-> fencing[m] ]
        /\ role \in [ Nodes -> Roles ] /\ held \in [ Nodes -> Nat ] /\ active \in [ Nodes -> BOOLEAN ]
    BY DEF HistoryInv, VoteInv, TypeOK, LogsTyped
  <1>1. /\ UNCHANGED << lease, log, view, requests, hwms, raced >>
        /\ role' = [ role EXCEPT ![n] = "follower" ] /\ held' = [ held EXCEPT ![n] = 0 ]
        /\ active' = [ active EXCEPT ![n] = FALSE ] /\ broken' = [ broken EXCEPT ![n] = FALSE ]
        /\ history' = [ history EXCEPT ![n] = g ] /\ fencing' = [ fencing EXCEPT ![n] = NoFence ]
    BY Zenon DEF Demote, StandDown, Restart, Reopened, metadata, network, ghosts, End
  <1>2. \/ cell' = [ cell EXCEPT ![n] = floor[n] ] /\ floor' = floor
        \/ cell' = [ cell EXCEPT ![n] = cell[n] ] /\ floor' = [ floor EXCEPT ![n] = cell[n] ]
    BY Zenon DEF Demote, StandDown, Restart, Reopened
  <1> HIDE DEF g
  <1>4. /\ history'[n] = g /\ ~broken'[n] /\ held'[n] = 0 /\ ~active'[n] /\ role'[n] = "follower"
        /\ \A m \in Nodes : m # n => history'[m] = history[m] /\ broken'[m] = broken[m] /\ held'[m] = held[m]
                                     /\ active'[m] = active[m] /\ role'[m] = role[m]
        /\ history' = [ m \in Nodes |-> history'[m] ] /\ broken' = [ m \in Nodes |-> broken'[m] ]
    BY <1>0, <1>1, Zenon DEF ByNode
  <1>a. fencing'[n] = NoFence /\ \A m \in Nodes : m # n => fencing'[m] = fencing[m]
    BY <1>0, <1>1, Zenon
  <1>5. /\ cell' = [ m \in Nodes |-> cell'[m] ] /\ floor' = [ m \in Nodes |-> floor'[m] ]
        /\ \A m \in Nodes : m # n => cell'[m] = cell[m] /\ floor'[m] = floor[m]
        /\ cell'[n] = floor'[n] /\ (floor'[n] = floor[n] \/ floor'[n] = cell[n])
    BY <1>0, <1>2 DEF ByNode
  <1>6. ASSUME n \notin raced PROVE True(n)'
    <2>0. JournalTrue(n) /\ MarksTrue(n) /\ Journal(history[n])
      BY <1>6, Zenon DEF HistoryInv, True, JournalTrue
    <2>3. /\ Journal(g) /\ SaysAs(g, history[n], Len(log[n]), 0) /\ \A i \in DOMAIN g : g[i].start <= Len(log[n])
          /\ g # << >> => history[n] # << >>
      BY <1>0, <2>0, AttachKeeps, Zenon DEF g
    <2>1. ~Writes(n)' /\ LogsTyped'
      BY <1>0, <1>1, <1>4, Positive, Zenon DEF Writes, LogsTyped
    <2>2. /\ Len(log'[n]) <= Len(log[n]) /\ 0 <= lease.epoch
          /\ \A i \in 1 .. Len(log'[n]) : log'[n][i] = log[n][i]
      <3>1. \A k \in Nat : k <= k
        OBVIOUS
      <3> QED BY <1>0, <1>1, <3>1, Positive, Zenon
    <2>4. JournalTrue(n)'
      BY <1>0, <1>1, <1>4, <2>0, <2>1, <2>2, <2>3, JournalMoves, Zenon
    <2>5. MarksTrue(n)'
      BY <1>0, <1>1, <1>5, <2>0 DEF MarksTrue, End
    <2>6. CutTrue(n)'
      BY <1>a, Blank DEF CutTrue
    <2> QED BY <2>4, <2>5, <2>6, Zenon DEF True
  <1>8. ByNode' /\ Told' /\ LeaseSeen(n)'
    BY <1>0, <1>1, <1>4, <1>5, Zenon DEF ByNode, Told, LeaseSeen, OldRetries
  <1>9. \A m \in Nodes : m # n => Untouched(m)
    BY <1>1, <1>a, <1>4, <1>5, Zenon DEF Untouched
  <1> QED BY <1>1, <1>6, <1>8, <1>9, NodeStep, Zenon

\* A crash may leave a truncation half done.
LEMMA HistoryCrash ==
  ASSUME VoteInv, HistoryInv, NEW n \in Nodes, Crash(n), UNCHANGED scen
  PROVE  HistoryInv'
  <1>0. /\ ByNode /\ Told /\ LogsTyped /\ Len(log[n]) \in Nat
        /\ role \in [ Nodes -> Roles ] /\ held \in [ Nodes -> Nat ] /\ active \in [ Nodes -> BOOLEAN ]
        /\ view \in [ Nodes -> Nat ] /\ fencing = [ m \in Nodes |-> fencing[m] ]
    BY DEF HistoryInv, VoteInv, TypeOK, LogsTyped
  <1>1. /\ UNCHANGED << lease, log, history, floor, requests, hwms, raced >>
        /\ role' = [ role EXCEPT ![n] = "down" ] /\ held' = [ held EXCEPT ![n] = 0 ]
        /\ view' = [ view EXCEPT ![n] = 0 ] /\ cell' = [ cell EXCEPT ![n] = 0 ]
        /\ active' = [ active EXCEPT ![n] = FALSE ] /\ broken' = [ broken EXCEPT ![n] = FALSE ]
        /\ fencing' = [ fencing EXCEPT ![n] = NoFence ]
    BY Zenon DEF Crash, Stop, metadata, disk, network, ghosts
  <1>2. /\ ~broken'[n] /\ held'[n] = 0 /\ ~active'[n] /\ role'[n] = "down" /\ cell'[n] = 0
        /\ broken' = [ m \in Nodes |-> broken'[m] ] /\ cell' = [ m \in Nodes |-> cell'[m] ]
    BY <1>0, <1>1, Zenon DEF ByNode
  <1>3. \A m \in Nodes : m # n => /\ broken'[m] = broken[m] /\ held'[m] = held[m] /\ cell'[m] = cell[m]
                                  /\ active'[m] = active[m] /\ role'[m] = role[m] /\ view'[m] = view[m]
    BY <1>0, <1>1, Zenon DEF ByNode
  <1>a. fencing'[n] = NoFence /\ \A m \in Nodes : m # n => fencing'[m] = fencing[m]
    BY <1>0, <1>1, Zenon
  <1>4. ByNode' /\ Told' /\ LeaseSeen(n)' /\ ~Writes(n)'
    BY <1>0, <1>1, <1>2, Zenon DEF ByNode, Told, OldRetries, LeaseSeen, Writes
  <1>5. ASSUME n \notin raced PROVE True(n)'
    <2>1. JournalTrue(n) /\ MarksTrue(n)
      BY <1>5, Zenon DEF HistoryInv, True
    <2>2. JournalTrue(n)'
      BY <1>1, <1>2, <1>4, <2>1, JournalStays, Zenon
    <2>3. MarksTrue(n)'
      BY <1>0, <1>1, <1>2, <2>1 DEF MarksTrue, End
    <2>4. CutTrue(n)'
      BY <1>a, Blank DEF CutTrue
    <2> QED BY <2>2, <2>3, <2>4, Zenon DEF True
  <1>6. \A m \in Nodes : m # n => Untouched(m)
    BY <1>1, <1>a, <1>3, Zenon DEF Untouched
  <1> QED BY <1>1, <1>4, <1>5, <1>6, NodeStep, Zenon

\* A fence that finds where the histories part, checks the watermark or answers.
LEMMA HistoryReconciles ==
  ASSUME VoteInv, HistoryInv, NEW f \in Nodes, UNCHANGED scen,
         FenceCompares(f) \/ FenceBounded(f) \/ FenceRefused(f) \/ FenceAnswers(f)
  PROVE  HistoryInv'
  <1>1. UNCHANGED << lease, log, history, floor, broken, held, view, active, cell, role, requests, hwms, raced >>
    BY Zenon DEF FenceCompares, FenceBounded, FenceRefused, FenceAnswers, metadata, disk, follower, network, ghosts
  <1>2. /\ \A m \in Nodes : m # f => fencing'[m] = fencing[m]
        /\ fencing[f].stage # "logCut" /\ fencing'[f].stage # "logCut"
        /\ fencing'[f].stage = "diverged" => Divergence(f) # {}
        /\ fencing'[f].stage = "bounded" =>
              /\ fencing[f].stage = "diverged" /\ fencing'[f].at = fencing[f].at
              /\ fencing[f].at \in 0 .. End(f) - 1 /\ Spared(f, fencing[f].at)
    <2>1. CASE FenceCompares(f)
      <3>1. CASE Reaches(f, "settled", 0)
        BY <2>1, <3>1, Reached DEF FenceCompares, Handling
      <3>2. CASE \E o \in Divergence(f) : Reaches(f, "diverged", o)
        <4>1. PICK o \in Divergence(f) : Reaches(f, "diverged", o)
          BY <3>2, Zenon
        <4>2. Divergence(f) # {}
          BY <4>1, Zenon
        <4> QED BY <2>1, <4>1, <4>2, Reached DEF FenceCompares, Handling
      <3> QED BY <2>1, <3>1, <3>2, Zenon DEF FenceCompares
    <2>2. CASE FenceBounded(f)
      <3>1. CASE Reaches(f, "settled", 0)
        BY <2>2, <3>1, Reached DEF FenceBounded, Handling
      <3>2. CASE /\ fencing[f].at \in 0 .. End(f) - 1 /\ Spared(f, fencing[f].at)
                 /\ Reaches(f, "bounded", fencing[f].at)
        BY <2>2, <3>2, Reached DEF FenceBounded, Handling
      <3> QED BY <2>2, <3>1, <3>2, Zenon DEF FenceBounded
    <2>3. CASE FenceRefused(f) \/ FenceAnswers(f)
      <3>1. /\ fencing' = [ fencing EXCEPT ![f] = NoFence ] /\ fencing = [ m \in Nodes |-> fencing[m] ]
            /\ fencing[f].stage \in { "diverged", "settled" }
        BY <2>3, Zenon DEF FenceRefused, FenceAnswers, Handling, VoteInv, TypeOK
      <3>2. fencing'[f] = NoFence /\ \A m \in Nodes : m # f => fencing'[m] = fencing[m]
        BY <3>1, Zenon
      <3> QED BY <3>1, <3>2, Blank
    <2> QED BY <2>1, <2>2, <2>3, Zenon
  <1>3. ByNode' /\ Told' /\ LeaseSeen(f)' /\ \A m \in Nodes : m # f => Untouched(m)
    BY <1>1, <1>2, Zenon DEF HistoryInv, ByNode, Told, LeaseSeen, OldRetries, Untouched
  <1>4. ASSUME f \notin raced PROVE True(f)'
    <2>1. JournalTrue(f) /\ MarksTrue(f) /\ CutTrue(f)
      BY <1>4, Zenon DEF HistoryInv, True
    <2>2. JournalTrue(f)' /\ MarksTrue(f)'
      BY <1>1, <1>2, <2>1, Zenon DEF JournalTrue, MarksTrue, Writes, End, OldRetries
    <2>3. fencing'[f].stage \in { "diverged", "bounded", "logCut" } => history'[f] # << >>
      BY <1>1, <1>2, <2>1, Zenon DEF CutTrue, Divergence, DivergesAt
    <2>4. fencing'[f].stage = "bounded" => cell'[f] <= fencing'[f].at
      <3>1. End(f) \in Nat /\ cell[f] \in Nat
        BY <2>1 DEF MarksTrue, VoteInv, TypeOK, LogsTyped, End
      <3> QED BY <1>1, <1>2, <3>1 DEF Spared
    <2> QED BY <1>2, <2>2, <2>3, <2>4, Zenon DEF True, CutTrue
  <1> QED BY <1>1, <1>3, <1>4, NodeStep, Zenon

\* The log is cut: its history now names what it no longer has.
LEMMA HistoryCutsLog ==
  ASSUME VoteInv, HistoryInv, NEW f \in Nodes, FenceCutsLog(f), UNCHANGED scen PROVE HistoryInv'
  <1>1. /\ UNCHANGED << lease, history, floor, broken, held, view, active, cell, role, requests, hwms, raced >>
        /\ Reaches(f, "logCut", fencing[f].at) /\ fencing[f].stage = "bounded"
    BY Zenon DEF FenceCutsLog, Handling, metadata, follower, network
  <1>2. PICK o : o = fencing[f].at
    BY Zenon
  <1>3. /\ o \in 0 .. Len(log[f]) /\ LogsTyped' /\ Len(log'[f]) = o /\ \A m \in Nodes : m # f => log'[m] = log[m]
        /\ \A i \in 1 .. o : log'[f][i] = log[f][i]
    BY <1>2, CutLogs, Zenon
  <1>4. fencing'[f].stage = "logCut" /\ fencing'[f].at = o /\ \A m \in Nodes : m # f => fencing'[m] = fencing[m]
    BY <1>1, <1>2, Reached
  <1>5. ByNode' /\ Told' /\ LeaseSeen(f)' /\ \A m \in Nodes : m # f => Untouched(m)
    BY <1>1, <1>3, <1>4, Zenon DEF HistoryInv, ByNode, Told, LeaseSeen, OldRetries, Untouched
  <1>6. ASSUME f \notin raced PROVE True(f)'
    <2>1. JournalTrue(f) /\ MarksTrue(f) /\ CutTrue(f) /\ Journal(history[f])
      BY <1>6, Zenon DEF HistoryInv, True, JournalTrue
    <2>2. Len(log[f]) \in Nat /\ lease.epoch \in Nat
      BY DEF VoteInv, TypeOK, LogsTyped
    <2>3. o \in Nat /\ o <= Len(log[f]) /\ o <= o
      BY <1>3, <2>2
    <2>4. SaysAs(history'[f], history[f], o, 0) /\ Journal(history'[f]) /\ 0 \in Nat /\ 0 <= lease.epoch
      BY <1>1, <2>1, <2>2, SaysSame, Positive, Zenon
    <2>5. ~broken'[f] /\ (Writes(f)' /\ history'[f] # << >> => Latest(history'[f]).epoch = held'[f])
      BY <1>1, <2>1, Zenon DEF JournalTrue, Writes
    <2>6. JournalTrue(f)'
      BY <1>1, <1>3, <1>4, <2>1, <2>3, <2>4, <2>5, JournalMoves, Zenon
    <2>7. cell[f] <= o
      BY <1>1, <1>2, <2>1, Zenon DEF CutTrue
    <2>8. MarksTrue(f)'
      <3>1. UNCHANGED << cell, floor, role >> /\ End(f)' = o
        BY <1>1, <1>3, Zenon DEF End
      <3>2. cell[f] \in Nat /\ floor[f] \in Nat
        BY <2>1, Zenon DEF MarksTrue
      <3>3. role[f] # "down" /\ floor[f] <= cell[f]
        BY <2>1 DEF MarksTrue, FenceCutsLog, Handling, Serving
      <3>4. floor[f] <= o
        BY <2>3, <2>7, <3>2, <3>3
      <3> QED BY <2>7, <3>1, <3>2, <3>3, <3>4, Zenon DEF MarksTrue
    <2>9. CutTrue(f)'
      BY <1>1, <1>3, <1>4, <2>1 DEF CutTrue, End
    <2> QED BY <2>6, <2>8, <2>9, Zenon DEF True
  <1> QED BY <1>1, <1>5, <1>6, NodeStep, Zenon

\* The history follows, and is anchored again under the epoch held.
LEMMA HistoryCutsHistory ==
  ASSUME VoteInv, HistoryInv, NEW f \in Nodes, FenceCutsHistory(f), UNCHANGED scen PROVE HistoryInv'
  <1>0. /\ ByNode /\ Len(log[f]) \in Nat /\ lease.epoch \in Nat /\ held[f] \in Nat /\ held[f] <= lease.epoch
        /\ LogsTyped
    BY DEF HistoryInv, VoteInv, TypeOK, EpochsOwned, LogsTyped
  <1>1. /\ UNCHANGED << lease, log, floor, broken, held, view, active, cell, role, requests, hwms, raced >>
        /\ Reaches(f, "settled", 0) /\ fencing[f].stage = "logCut"
    BY Zenon DEF FenceCutsHistory, Handling, metadata, follower, network, ghosts
  <1>2. PICK g : g = Anchored(CutTo(history[f], fencing[f].at), held[f], fencing[f].at)
    BY Zenon
  <1>3. /\ history'[f] = g /\ history' = [ m \in Nodes |-> history'[m] ]
        /\ \A m \in Nodes : m # f => history'[m] = history[m]
    BY <1>0, <1>2, Zenon DEF FenceCutsHistory, ByNode
  <1>4. fencing'[f].stage = "settled" /\ \A m \in Nodes : m # f => fencing'[m] = fencing[m]
    BY <1>1, Reached
  <1>5. ByNode' /\ Told' /\ LeaseSeen(f)' /\ \A m \in Nodes : m # f => Untouched(m)
    BY <1>1, <1>3, <1>4, Zenon DEF HistoryInv, ByNode, Told, LeaseSeen, OldRetries, Untouched
  <1>6. ASSUME f \notin raced PROVE True(f)'
    <2>1. /\ JournalTrue(f) /\ MarksTrue(f) /\ Journal(history[f]) /\ history[f] # << >>
          /\ fencing[f].at = Len(log[f])
      <3>1. JournalTrue(f) /\ MarksTrue(f) /\ CutTrue(f)
        BY <1>6, Zenon DEF HistoryInv, True
      <3> QED BY <1>1, <3>1 DEF JournalTrue, CutTrue, End
    <2>2. PICK o \in Nat : o = Len(log[f]) /\ o <= o
      BY <1>0
    <2>3. g = Anchored(CutTo(history[f], o), held[f], o)
      BY <1>2, <2>1, <2>2, Zenon
    <2>4. /\ Journal(g) /\ SaysAs(g, history[f], o, held[f]) /\ \A i \in DOMAIN g : g[i].start <= o
          /\ g # << >> /\ Latest(history[f]).epoch = held[f] => Latest(g).epoch = held[f]
      BY <1>0, <2>1, <2>3, AnchorKeeps, Zenon
    <2>5. Writes(f)' /\ g # << >> => Latest(g).epoch = held'[f]
      BY <1>1, <2>1, <2>4, Zenon DEF JournalTrue, Writes
    <2>6. ~broken'[f] /\ LogsTyped' /\ log'[f] = log[f]
      BY <1>0, <1>1, <2>1, ZenonT(20) DEF JournalTrue, LogsTyped
    <2>7. JournalTrue(f)'
      BY <1>0, <1>1, <1>3, <2>1, <2>2, <2>4, <2>5, <2>6, JournalMoves, Zenon
    <2>8. MarksTrue(f)'
      BY <1>1, <2>1, Zenon DEF MarksTrue, End
    <2>9. CutTrue(f)'
      BY <1>4 DEF CutTrue
    <2> QED BY <2>7, <2>8, <2>9, Zenon DEF True
  <1> QED BY <1>1, <1>5, <1>6, NodeStep, Zenon

\* A leader writes, and a follower applies, under the epoch its history ends with.
LEMMA HistoryAppend ==
  ASSUME VoteInv, HistoryInv, NEW n \in Nodes, AppendLocal(n), UNCHANGED scen PROVE HistoryInv'
  <1>0. /\ ByNode /\ Told /\ LeaseSeen(n) /\ held[n] \in Nat \ {0} /\ role[n] = "leader"
    BY DEF HistoryInv, AppendLocal, VoteInv, TypeOK, EpochsOwned, Stands
  <1>1. /\ UNCHANGED << lease, history, floor, broken, held, view, active, cell, role, hwms, fencing, raced >>
        /\ log' = [ log EXCEPT ![n] = Append(log[n], held[n]) ]
        /\ requests' = requests \cup
             { [ epoch |-> held[n], base |-> End(n), rec |-> held[n], upto |-> End(n) + 1 ] }
    BY Zenon DEF AppendLocal, metadata, follower
  <1>2. Writes(n)
    BY <1>0 DEF Writes, LeaseSeen
  <1>3. \A m \in Nodes : m # n => log'[m] = log[m]
    BY <1>1, Zenon DEF VoteInv, TypeOK, LogsTyped
  <1>4. ASSUME n \notin raced PROVE True(n)'
    <2>1. JournalTrue(n) /\ MarksTrue(n) /\ role[n] # "down"
      <3>1. role[n] # "down"
        BY <1>0
      <3> QED BY <1>4, <3>1, Zenon DEF HistoryInv, True
    <2>2. fencing[n] = NoFence /\ CutTrue(n) /\ fencing[n].stage \notin { "diverged", "bounded", "logCut" }
      <3>1. fencing[n] = NoFence
        BY <1>0, NotFencing
      <3> QED BY <3>1, NoCut, Zenon
    <2>a. fencing[n].stage # "logCut"
      BY <2>2, Zenon
    <2>3. JournalTrue(n)' /\ Len(log'[n]) = Len(log[n]) + 1 /\ Len(log[n]) \in Nat
      BY <1>0, <1>1, <1>2, <2>1, <2>a, JournalGrows, Zenon
    <2>4. MarksTrue(n)'
      BY <1>1, <2>1, <2>3 DEF MarksTrue, End
    <2>5. CutTrue(n)'
      BY <1>1, <2>2, Zenon DEF CutTrue
    <2> QED BY <2>3, <2>4, <2>5, Zenon DEF True
  <1>5. ByNode' /\ Told'
    BY <1>0, <1>1 DEF ByNode, Told, OldRetries
  <1>6. LeaseSeen(n)' /\ \A m \in Nodes : m # n => Untouched(m)
    BY <1>0, <1>1, <1>3, Zenon DEF LeaseSeen, Untouched
  <1> QED BY <1>1, <1>4, <1>5, <1>6, NodeStep, Zenon

LEMMA HistoryApply ==
  ASSUME VoteInv, HistoryInv, NEW f \in Nodes, NEW m \in requests, ApplyAppend(f, m), UNCHANGED scen
  PROVE  HistoryInv'
  <1>0. /\ ByNode /\ Told /\ LeaseSeen(f) /\ role[f] # "down" /\ m.rec \in Nat \ {0} /\ held[f] \in Nat
        /\ m.epoch = held[f] /\ m.epoch = view[f] /\ active[f] /\ m.epoch \in Nat /\ 1 <= m.epoch
    BY DEF HistoryInv, ApplyAppend, Admitted, Serving, VoteInv, TypeOK, Message, LeadsReported
  <1>1. UNCHANGED << lease, history, broken, held, view, active, cell, role, requests, hwms, fencing >>
    BY Zenon DEF ApplyAppend, metadata, follower
  <1>2. CASE UNCHANGED << log, floor, raced >>
    BY <1>1, <1>2, HistoryFrame, Zenon DEF histVars
  <1>3. CASE /\ log' = [ log EXCEPT ![f] = Append(log[f], m.rec) ]
             /\ raced' = raced \cup { n \in {f} : fencing[n].stage = "logCut" }
             /\ floor' = [ floor EXCEPT ![f] = cell[f] ]
    <2>1. ~OldRetries => Writes(f) /\ held[f] = m.rec
      BY <1>0 DEF Told, Writes
    <2>2. raced \subseteq raced' /\ (f \notin raced' => f \notin raced /\ fencing[f].stage # "logCut")
      BY <1>3, Zenon
    <2>3. /\ floor' = [ k \in Nodes |-> floor'[k] ] /\ floor'[f] = cell[f]
          /\ \A k \in Nodes : k # f => floor'[k] = floor[k]
      BY <1>0, <1>3, Zenon DEF ByNode
    <2>4. \A k \in Nodes : k # f => log'[k] = log[k]
      BY <1>3, Zenon DEF VoteInv, TypeOK, LogsTyped
    <2>5. ASSUME f \notin raced' PROVE True(f)'
      <3>1. JournalTrue(f) /\ MarksTrue(f) /\ CutTrue(f) /\ fencing[f].stage # "logCut"
        BY <2>2, <2>5, Zenon DEF HistoryInv, True
      <3>2. JournalTrue(f)' /\ Len(log'[f]) = Len(log[f]) + 1 /\ Len(log[f]) \in Nat
        BY <1>0, <1>1, <1>3, <2>1, <3>1, JournalGrows, Zenon
      <3>3. MarksTrue(f)'
        BY <1>0, <1>1, <2>3, <3>1, <3>2 DEF MarksTrue, End
      <3>4. CutTrue(f)'
        BY <1>1, <3>1, Zenon DEF CutTrue
      <3> QED BY <3>2, <3>3, <3>4, Zenon DEF True
    <2>6. ByNode' /\ Told' /\ LeaseSeen(f)'
      BY <1>0, <1>1, <2>3, Zenon DEF ByNode, Told, OldRetries, LeaseSeen
    <2>7. \A k \in Nodes : k # f => Untouched(k)
      BY <1>1, <2>3, <2>4, Zenon DEF Untouched
    <2> QED BY <1>1, <2>2, <2>5, <2>6, <2>7, NodeStep, Zenon
  <1> QED BY <1>2, <1>3, Zenon DEF ApplyAppend

LEMMA HistoryResend ==
  ASSUME VoteInv, HistoryInv, NEW n \in Nodes, Resend(n), UNCHANGED scen PROVE HistoryInv'
  <1>1. UNCHANGED << lease, log, history, floor, broken, held, view, active, cell, role, hwms, fencing, raced >>
    BY Zenon DEF Resend, metadata, disk, follower, ghosts
  <1>2. PICK o \in 0 .. End(n) - 1 :
          /\ OldRetries \/ log[n][o + 1] = held[n]
          /\ requests' = requests \cup
               { [ epoch |-> held[n], base |-> o, rec |-> log[n][o + 1], upto |-> End(n) ] }
    BY Zenon DEF Resend
  <1>3. Told' /\ ByNode'
    BY <1>1, <1>2 DEF HistoryInv, Told, ByNode, OldRetries
  <1>4. \A m \in Nodes : Untouched(m) /\ LeaseSeen(m)'
    BY <1>1, Zenon DEF Untouched, HistoryInv, LeaseSeen
  <1> QED BY <1>1, <1>3, <1>4, UntouchedKept, Zenon DEF HistoryInv

\* Watermarks move up to what the replica has.
LEMMA HistoryMarks ==
  ASSUME VoteInv, HistoryInv, NEW n \in Nodes, NEW mark \in Nat, mark <= End(n),
         n \notin raced' => cell[n] < mark /\ fencing[n].stage # "bounded",
         UNCHANGED << scen, lease, log, history, broken, held, view, active, role, requests, fencing >>,
         raced \subseteq raced', cell' = [ cell EXCEPT ![n] = mark ],
         floor' = floor \/ floor' = [ floor EXCEPT ![n] = mark ] \/ floor' = [ floor EXCEPT ![n] = floor[n] ],
         \A m \in hwms' : m \in hwms \/ m.mark \in Nat
  PROVE  HistoryInv'
  <1>0. ByNode /\ Told /\ LeaseSeen(n)
    BY Zenon DEF HistoryInv
  <1>1. /\ cell' = [ m \in Nodes |-> cell'[m] ] /\ floor' = [ m \in Nodes |-> floor'[m] ]
        /\ cell'[n] = mark /\ (floor'[n] = mark \/ floor'[n] = floor[n])
        /\ \A m \in Nodes : m # n => cell'[m] = cell[m] /\ floor'[m] = floor[m]
    BY <1>0, Zenon DEF ByNode
  <1>2. ASSUME n \notin raced' PROVE True(n)'
    <2>1. /\ JournalTrue(n) /\ MarksTrue(n) /\ CutTrue(n) /\ cell[n] < mark /\ fencing[n].stage # "bounded"
      BY <1>2, Zenon DEF HistoryInv, True
    <2>2. MarksTrue(n)'
      BY <1>1, <2>1 DEF MarksTrue, End
    <2>3. JournalTrue(n)'
      BY <2>1, JournalStays, Zenon DEF JournalTrue, Writes
    <2>4. CutTrue(n)'
      BY <2>1, Zenon DEF CutTrue, End
    <2> QED BY <2>2, <2>3, <2>4, Zenon DEF True
  <1>4. ByNode' /\ Told' /\ LeaseSeen(n)'
    BY <1>0, <1>1, Zenon DEF ByNode, Told, OldRetries, LeaseSeen
  <1>5. \A m \in Nodes : m # n => Untouched(m)
    BY <1>1, Zenon DEF Untouched
  <1> QED BY <1>2, <1>4, <1>5, NodeStep, Zenon

LEMMA HistoryCommit ==
  ASSUME VoteInv, FanInv, HistoryInv, NEW n \in Nodes, Commit(n), UNCHANGED scen PROVE HistoryInv'
  <1>1. /\ UNCHANGED << lease, log, history, floor, broken, held, view, active, role, requests, fencing, raced >>
        /\ role[n] = "leader"
    BY Zenon DEF Commit, metadata, disk
  <1>2. PICK m \in requests :
          /\ m.epoch = held[n] /\ m.upto > cell[n] /\ cell' = [ cell EXCEPT ![n] = m.upto ]
          /\ hwms' = hwms \cup { [ epoch |-> held[n], mark |-> m.upto ] }
    BY Zenon DEF Commit
  <1>3. m.upto \in Nat /\ m.upto <= End(n)
    BY <1>2, Zenon DEF Commit, FanInv, FanOutsTrue, VoteInv, TypeOK, Message
  <1>4. n \notin raced' => cell[n] < m.upto /\ fencing[n].stage # "bounded"
    <2>1. fencing[n] = NoFence
      BY <1>1, NotFencing
    <2>2. fencing[n].stage # "bounded"
      BY <2>1, NoCut, Zenon
    <2>3. n \notin raced => cell[n] \in Nat
      BY Zenon DEF HistoryInv, True, MarksTrue
    <2> QED BY <1>1, <1>2, <1>3, <2>2, <2>3
  <1>5. \A h \in hwms' : h \in hwms \/ h.mark \in Nat
    BY <1>2, <1>3
  <1> QED BY <1>1, <1>2, <1>3, <1>4, <1>5, HistoryMarks, Zenon

LEMMA HistoryObserveHwm ==
  ASSUME VoteInv, HistoryInv, NEW f \in Nodes, NEW m \in hwms, ObserveHwm(f, m), UNCHANGED scen PROVE HistoryInv'
  <1>1. /\ UNCHANGED << lease, log, history, broken, held, view, active, role, requests, hwms, fencing >>
        /\ raced' = raced \cup { n \in {f} : fencing[n].stage = "bounded" }
    BY Zenon DEF ObserveHwm, metadata, network
  <1>2. m.mark \in Nat /\ End(f) \in Nat /\ ByNode
    BY DEF HistoryInv, Told, VoteInv, TypeOK, LogsTyped, End
  <1>3. Visible(f, m.mark) \in Nat /\ Visible(f, m.mark) <= End(f)
    BY <1>2 DEF Visible, Smaller
  <1>4. cell[f] < Visible(f, m.mark) /\ cell' = [ cell EXCEPT ![f] = Visible(f, m.mark) ]
    BY Zenon DEF ObserveHwm
  <1>5. cell'[f] = Visible(f, m.mark)
    BY <1>2, <1>4, Zenon DEF ByNode
  <1>6. floor' = [ floor EXCEPT ![f] = Visible(f, m.mark) ] \/ floor' = [ floor EXCEPT ![f] = floor[f] ]
    BY <1>5, Zenon DEF ObserveHwm
  <1>7. raced \subseteq raced' /\ (f \notin raced' => fencing[f].stage # "bounded")
    BY <1>1, Zenon
  <1> QED BY <1>1, <1>3, <1>4, <1>6, <1>7, HistoryMarks, Zenon

\* A candidate serves under the epoch it holds, or goes back to following.
LEMMA HistoryPromote ==
  ASSUME VoteInv, HistoryInv, NEW n \in Nodes, Promote(n) \/ StandAside(n), UNCHANGED scen PROVE HistoryInv'
  <1>0. /\ ByNode /\ Told /\ LeaseSeen(n)
        /\ role[n] = "candidate" /\ held[n] \in Nat /\ 1 <= held[n] /\ held[n] = probe[n].epoch
        /\ role \in [ Nodes -> Roles ] /\ held \in [ Nodes -> Nat ] /\ active \in [ Nodes -> BOOLEAN ]
        /\ view \in [ Nodes -> Nat ]
    BY Zenon DEF HistoryInv, Promote, StandAside, VoteInv, TypeOK, EpochsOwned, Stands
  <1>1. UNCHANGED << lease, log, history, broken, cell, requests, hwms, fencing, raced >>
    BY ZenonT(20) DEF Promote, StandAside, metadata, disk, follower, network, ghosts
  <1>2. \/ /\ role' = [ role EXCEPT ![n] = "leader" ] /\ held' = [ held EXCEPT ![n] = probe[n].epoch ]
           /\ view' = [ view EXCEPT ![n] = probe[n].epoch ] /\ active' = [ active EXCEPT ![n] = TRUE ]
           /\ floor' = [ floor EXCEPT ![n] = cell[n] ]
        \/ role' = [ role EXCEPT ![n] = "follower" ] /\ UNCHANGED << held, view, active, floor >>
    BY Zenon DEF Promote, StandAside, disk, follower
  <1>3. /\ held'[n] = held[n]
        /\ \A m \in Nodes : m # n => /\ role'[m] = role[m] /\ held'[m] = held[m] /\ view'[m] = view[m]
                                     /\ active'[m] = active[m] /\ floor'[m] = floor[m]
        /\ floor' = [ m \in Nodes |-> floor'[m] ] /\ (floor'[n] = floor[n] \/ floor'[n] = cell[n])
    <2>1. held'[n] = held[n] /\ \A m \in Nodes : m # n => held'[m] = held[m]
      BY <1>0, <1>2, Zenon
    <2>2. /\ floor' = [ m \in Nodes |-> floor'[m] ] /\ (floor'[n] = floor[n] \/ floor'[n] = cell[n])
          /\ \A m \in Nodes : m # n => floor'[m] = floor[m]
      BY <1>0, <1>2, Zenon DEF ByNode
    <2>3. \A m \in Nodes : m # n => role'[m] = role[m] /\ view'[m] = view[m]
      BY <1>0, <1>2, Zenon
    <2>4. \A m \in Nodes : m # n => active'[m] = active[m]
      BY <1>0, <1>2, Zenon
    <2> QED BY <2>1, <2>2, <2>3, <2>4, Zenon
  <1>4. LeaseSeen(n)'
    <2>1. CASE role' = [ role EXCEPT ![n] = "follower" ] /\ UNCHANGED << held, view, active >>
      BY <1>0, <2>1, Zenon DEF LeaseSeen
    <2>2. CASE /\ held' = [ held EXCEPT ![n] = probe[n].epoch ] /\ view' = [ view EXCEPT ![n] = probe[n].epoch ]
               /\ active' = [ active EXCEPT ![n] = TRUE ]
      BY <1>0, <2>2 DEF LeaseSeen
    <2> QED BY <1>2, <2>1, <2>2, Zenon
  <1>5. ASSUME n \notin raced PROVE True(n)'
    <2>0. JournalTrue(n) /\ MarksTrue(n) /\ CutTrue(n) /\ ~broken[n]
      BY <1>5, Zenon DEF HistoryInv, True, JournalTrue
    <2>1. MarksTrue(n)'
      BY <1>0, <1>1, <1>3, <2>0 DEF MarksTrue, End
    <2>2. Writes(n)
      BY <1>0, Positive, Zenon DEF Writes
    <2>3. role[n] # "down"
      BY <1>0
    <2>4. JournalTrue(n)'
      BY <1>1, <1>3, <2>0, <2>2, <2>3, JournalStays, Zenon
    <2>5. CutTrue(n)'
      BY <1>1, <2>0, Zenon DEF CutTrue, End
    <2> QED BY <2>1, <2>4, <2>5, Zenon DEF True
  <1>7. ByNode' /\ Told'
    BY <1>0, <1>1, <1>3, Zenon DEF ByNode, Told, OldRetries
  <1>8. \A m \in Nodes : m # n => Untouched(m)
    BY <1>1, <1>3, Zenon DEF Untouched
  <1> QED BY <1>1, <1>4, <1>5, <1>7, <1>8, NodeStep, Zenon

LEMMA HistoryInit == Init => HistoryInv
  <1> SUFFICES ASSUME Init PROVE HistoryInv
    BY Zenon
  <1> DEFINE one == [ epoch |-> 1, start |-> 0 ]
  <1>0. PICK holders \in SUBSET Replicas :
          /\ Cardinality(holders) = Inherited
          /\ log = [ n \in Nodes |-> IF n \in holders THEN << 1 >> ELSE << >> ]
    BY Zenon DEF Init
  <1>1. Journal(<< >>)
    <2>1. << >> \in Seq(Entry) /\ DOMAIN << >> = {} /\ Len(<< >>) = 0
      OBVIOUS
    <2>2. Cuttable(<< >>)
      BY <2>1 DEF Cuttable, BeginBelow
    <2> QED BY <2>1, <2>2, Zenon DEF Journal, Ordered
  <1>2. one \in Entry /\ one.epoch = 1 /\ one.start = 0
    BY DEF Entry
  <1> HIDE DEF one
  <1>3. /\ << one >> \in Seq(Entry) /\ DOMAIN << one >> = {1} /\ Len(<< one >>) = 1 /\ << one >>[1] = one
    BY <1>2
  <1>4. Journal(<< one >>)
    <2>1. ASSUME NEW c \in Nat PROVE \E k \in 0 .. Len(<< one >>) : BeginBelow(<< one >>, k, c)
      <3>1. CASE c = 0
        <4>1. BeginBelow(<< one >>, 0, c)
          BY <1>2, <1>3, <3>1 DEF BeginBelow
        <4> QED BY <1>3, <4>1
      <3>2. CASE c # 0
        <4>1. BeginBelow(<< one >>, 1, c)
          BY <1>2, <1>3, <3>2 DEF BeginBelow
        <4> QED BY <1>3, <4>1
      <3> QED BY <3>1, <3>2, Zenon
    <2>2. Ordered(<< one >>)
      BY <1>3 DEF Ordered
    <2> QED BY <1>3, <2>1, <2>2, Zenon DEF Journal, Cuttable
  <1>5. Owns(<< one >>, 0, 1)
    BY <1>2, <1>3 DEF Owns
  <1>6. Inherited \in Nat /\ lease.epoch = IF Inherited > 0 THEN 1 ELSE 0
    BY ScenarioAssumption, Zenon DEF Init, Inherited
  <1>7. ASSUME NEW n \in Nodes PROVE JournalTrue(n) /\ MarksTrue(n) /\ LeaseSeen(n)
    <2>1. /\ history[n] = IF Inherited > 0 THEN << one >> ELSE << >>
          /\ held[n] = 0 /\ ~broken[n] /\ cell[n] = 0 /\ floor[n] = 0 /\ ~active[n] /\ role[n] = "follower"
      BY Zenon DEF Init, one
    <2>2. log[n] = << 1 >> \/ log[n] = << >>
      BY <1>0, Zenon
    <2>3. Len(log[n]) \in Nat /\ DOMAIN log[n] \subseteq {1} /\ \A i \in DOMAIN log[n] : log[n][i] = 1
      BY <2>2
    <2>4. MarksTrue(n) /\ LeaseSeen(n) /\ ~Writes(n)
      BY <2>1, <2>3 DEF MarksTrue, LeaseSeen, End, Writes
    <2>5. CASE Inherited > 0
      <3>1. history[n] = << one >> /\ lease.epoch = 1
        BY <1>6, <2>1, <2>5
      <3>2. \A i \in DOMAIN log[n] : Owns(history[n], i - 1, log[n][i])
        BY <3>1, <2>3, <1>5
      <3>3. \A i \in DOMAIN history[n] : history[n][i].epoch <= lease.epoch /\ history[n][i].start <= End(n)
        BY <3>1, <1>2, <1>3, <2>3 DEF End
      <3> QED BY <1>4, <2>1, <2>4, <3>1, <3>2, <3>3, Zenon DEF JournalTrue
    <2>6. CASE ~(Inherited > 0)
      <3>1. history[n] = << >> /\ DOMAIN history[n] = {}
        BY <2>1, <2>6
      <3> QED BY <1>1, <2>1, <2>4, <3>1, Zenon DEF JournalTrue
    <2> QED BY <2>5, <2>6, Zenon
  <1>8. ByNode /\ Told
    BY Zenon DEF Init, ByNode, Told
  <1>9. ASSUME NEW n \in Nodes PROVE CutTrue(n)
    <2>1. fencing[n] = NoFence
      BY Zenon DEF Init
    <2> QED BY <2>1, NoCut, Zenon
  <1> QED BY <1>7, <1>8, <1>9, Zenon DEF HistoryInv, True

LEMMA HistoryStep == VoteInv /\ FanInv /\ HistoryInv /\ [Next]_vars => HistoryInv'
  <1> SUFFICES ASSUME VoteInv, FanInv, HistoryInv, [Next]_vars PROVE HistoryInv'
    BY Zenon
  <1>1. CASE UNCHANGED vars
    BY <1>1, HistoryFrame, Zenon DEF vars, histVars, metadata, disk, follower, network, ghosts
  <1>2. CASE Next
    <2>1. UNCHANGED scen /\ Replicas \subseteq Nodes
      BY <1>2, ScenarioAssumption, Zenon DEF Next, Replicas, VoteInv, TypeOK
    <2>2. PICK n \in Replicas : Candidacy(n) \/ Leadership(n) \/ Fencing(n) \/ Following(n) \/ Failing(n)
      BY <1>2, Zenon DEF Next, Step
    <2>3. n \in Nodes
      BY <2>1
    <2>4. CASE Candidacy(n)
      <3>1. CASE Established(n) \/ Report(n) \/ ReportUnanswered(n)
        BY <2>1, <3>1, HistoryFrame, Zenon DEF Established, Report, ReportUnanswered, histVars, metadata, disk, follower, network, ghosts
      <3> QED BY <2>1, <2>3, <2>4, <3>1, HistoryAcquire, HistoryObserve, HistoryPromote, HistoryReopened, SMTT(30) DEF Candidacy
    <2>5. CASE Leadership(n)
      BY <2>1, <2>3, <2>5, HistoryAppend, HistoryResend, HistoryCommit, HistoryReopened DEF Leadership
    <2>6. CASE Fencing(n)
      BY <2>1, <2>3, <2>6, HistoryFence, HistoryReconciles, HistoryCutsLog, HistoryCutsHistory, Zenon DEF Fencing
    <2>7. CASE Following(n)
      BY <2>1, <2>3, <2>7, HistoryObserve, HistoryApply, HistoryObserveHwm DEF Following
    <2>8. CASE Failing(n)
      BY <2>1, <2>3, <2>8, HistoryCrash, HistoryReopened, Zenon DEF Failing
    <2> QED BY <2>2, <2>4, <2>5, <2>6, <2>7, <2>8
  <1> QED BY <1>1, <1>2, Zenon

\* Every replica's epoch history attributes each record it holds to the epoch
\* that wrote it, advances and claims nothing past the tail, no adoption is
\* refused, and no watermark is above the log (HistoryTrue): through adoptions
\* and truncations whose every lock is a step of its own, and crashes between
\* any two, for any replica set and any number of leaderships, records and
\* crashes.  The replicas HistoryTrue excepts moved inside a truncation.
THEOREM HistoryTrueHolds == Spec => []HistoryTrue
  <1>1. VoteInv /\ HistoryInv => HistoryTrue
    <2> SUFFICES ASSUME VoteInv, HistoryInv, NEW n \in Nodes, n \notin raced
                 PROVE  /\ ~broken[n] /\ cell[n] <= End(n) /\ floor[n] <= End(n) /\ Advancing(history[n])
                        /\ role[n] # "down" /\ fencing[n].stage # "logCut" =>
                             \A i \in DOMAIN history[n] : history[n][i].start <= End(n)
                        /\ history[n] # << >> /\ ~OldRetries =>
                             \A i \in DOMAIN log[n] : EpochOwning(history[n], i - 1) = log[n][i]
      BY Zenon DEF HistoryTrue
    <2>1. JournalTrue(n) /\ MarksTrue(n) /\ Journal(history[n])
      BY Zenon DEF HistoryInv, True, JournalTrue
    <2>2. Advancing(history[n])
      <3>1. DOMAIN history[n] = 1 .. Len(history[n]) /\ Len(history[n]) \in Nat
        BY <2>1 DEF Journal
      <3> QED BY <2>1, <3>1 DEF Journal, Ordered, Advancing
    <2>3. ASSUME history[n] # << >>, ~OldRetries, NEW i \in DOMAIN log[n]
          PROVE  EpochOwning(history[n], i - 1) = log[n][i]
      <3>1. log[n] \in Seq(Nat \ {0})
        BY Zenon DEF VoteInv, TypeOK, LogsTyped
      <3>2. i - 1 \in Nat
        BY <2>3, <3>1, SMTT(20)
      <3>3. Owns(history[n], i - 1, log[n][i])
        BY <2>1, <2>3, Zenon DEF JournalTrue
      <3> QED BY <2>1, <3>2, <3>3, OwnsEpoch, Zenon
    <2> QED BY <2>1, <2>2, <2>3, SMTT(20) DEF JournalTrue, MarksTrue
  <1> QED BY <1>1, VoteInit, VoteStep, FanInit, FanStep, HistoryInit, HistoryStep, PTL DEF Spec
=============================================================================
