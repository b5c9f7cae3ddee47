------------------------- MODULE UploadRouter_proofs -------------------------
(***************************************************************************)
(* Theorems about UploadRouter.  The parts, in order: the context buffer   *)
(* and the aggregators as the router uses them, by the lemmas of           *)
(* CollectorStores_proofs; every call of the router as a "turn", which says  *)
(* what it takes into the buffer, promotes, evicts and routes; custody of  *)
(* what the buffer was given; the inductive invariant RouterInv and the    *)
(* router's safety and action properties; the refinement.                  *)
(***************************************************************************)
EXTENDS UploadRouter, FiniteSetTheorems, SequenceTheorems, TLAPS

\* The lemmas about any sound buffer and aggregator, and the fold of Retain.
BufP == INSTANCE CollectorStores_proofs
          WITH Sizes <- {1}, MaxAdds <- MaxEvents, added <- Len(received),
               buckets <- aggregator, summaries <- <<>>, counted <- <<>>,
               time <- clock, FlushLag <- Lag, MaxTicks <- MaxTime

KeepFold == INSTANCE FoldFacts
  WITH op <- LAMBDA p, x, y : RetainOne(y, x, p), f <- LAMBDA q, i : q[i],
       choose <- LAMBDA s : Max(s)

\* The two instances of the buffer's operators, of which one carries lemmas, agree.
LEMMA SameRemove ==
  ASSUME NEW b, NEW V
  PROVE  Buf!RemoveEntries(b, V) = BufP!RemoveEntries(b, V)
<1>1. \A l, S : Buf!Those(l, S) = BufP!Those(l, S)
  BY DEF Buf!Those, BufP!Those, Buf!FoldLeft, BufP!FoldLeft, Buf!MapThenFoldSet,
         BufP!MapThenFoldSet, Buf!Max, BufP!Max
<1>2. \A S : Buf!Bytes(S) = BufP!Bytes(S)
  BY DEF Buf!Bytes, BufP!Bytes, Buf!MapThenSumSet, BufP!MapThenSumSet,
         Buf!MapThenFoldSet, BufP!MapThenFoldSet
<1>3. \A l : Buf!ToSet(l) = BufP!ToSet(l)
  BY DEF Buf!ToSet, BufP!ToSet
<1> QED
  BY <1>1, <1>2, <1>3, Zenon DEF Buf!RemoveEntries, BufP!RemoveEntries

LEMMA SameExpired ==
  ASSUME NEW b, NEW t
  PROVE  Buf!Expired(b, t) = BufP!Expired(b, t)
BY DEF Buf!Expired, BufP!Expired,
       Buf!ToSet, BufP!ToSet, Buf!Max, BufP!Max

LEMMA SameFront ==
  ASSUME NEW l, NEW x
  PROVE  Buf!FrontWorth(l, x) = BufP!FrontWorth(l, x)
BY DEF Buf!FrontWorth, BufP!FrontWorth, Buf!Bytes, BufP!Bytes, 
       Buf!ToSet, BufP!ToSet, Buf!MapThenSumSet, BufP!MapThenSumSet,
       Buf!MapThenFoldSet, BufP!MapThenFoldSet, Buf!Min, BufP!Min

LEMMA SameAdd ==
  ASSUME NEW b, NEW e
  PROVE  Buf!Add(b, e) = BufP!Add(b, e)
<1>1. \A c, f : Buf!Push(c, f) = BufP!Push(c, f)
  BY DEF Buf!Push, BufP!Push
<1>2. Buf!TooLarge(e) = BufP!TooLarge(e)
  BY DEF Buf!TooLarge, BufP!TooLarge
<1>3. \A c, s : Buf!ScopeOverflow(c, s) = BufP!ScopeOverflow(c, s)
  BY SameFront DEF Buf!ScopeOverflow, BufP!ScopeOverflow
<1>4. \A c : Buf!GlobalOverflow(c) = BufP!GlobalOverflow(c)
  BY SameFront DEF Buf!GlobalOverflow, BufP!GlobalOverflow
<1>5. \A l : Buf!ToSet(l) = BufP!ToSet(l)
  BY DEF Buf!ToSet, BufP!ToSet
<1> QED
  BY <1>1, <1>2, <1>3, <1>4, <1>5, SameRemove, SameExpired, Zenon DEF Buf!Add, BufP!Add

LEMMA SameExpire ==
  ASSUME NEW b, NEW t
  PROVE  Buf!Expire(b, t) = BufP!Expire(b, t)
BY SameRemove, SameExpired DEF Buf!Expire, BufP!Expire

LEMMA SamePromote ==
  ASSUME NEW b, NEW s, NEW t
  PROVE  Buf!Promote(b, s, t) = BufP!Promote(b, s, t)
<1>1. \A l : Buf!Promotable(l) = BufP!Promotable(l)
  BY DEF Buf!Promotable, BufP!Promotable, Buf!Those, BufP!Those,
       Buf!ToSet, BufP!ToSet, Buf!FoldLeft, BufP!FoldLeft,
       Buf!MapThenFoldSet, BufP!MapThenFoldSet, Buf!Max, BufP!Max
<1>5. \A l : Buf!ToSet(l) = BufP!ToSet(l)
  BY DEF Buf!ToSet, BufP!ToSet
<1> QED
  BY <1>1, <1>5, SameRemove, SameExpired DEF Buf!Promote, BufP!Promote

LEMMA SameEmpty == Buf!EmptyBuffer = BufP!EmptyBuffer
BY DEF Buf!EmptyBuffer, BufP!EmptyBuffer

\* What the buffer's lemmas assume of its constants.
LEMMA BA == BufP!BufferAssumption /\ BufP!CallAssumption /\ BufP!AggregatorAssumption
BY RouterAssumption DEF BufP!BufferAssumption, BufP!CallAssumption, BufP!AggregatorAssumption

-----------------------------------------------------------------------------
\* What the router puts into the buffer.
Ident == {"event", "summary"} \X Nat
RouterEntries ==
  [id : Ident, scope : Scopes, timestamp : Int, size : {1}, promotable : BOOLEAN]

\* The entries the buffer b holds, and that its lists and counters agree.
HeldIn(b) == ToSet(b.global)
InStep(b) == BufP!Sound(b, RouterEntries)

LEMMA SameHeld == \A b : HeldIn(b) = BufP!Held(b)
BY DEF HeldIn, BufP!Held, ToSet, BufP!ToSet

LEMMA EntriesLimits == BufP!EntrySet(RouterEntries) /\ BufP!Limits
BY RouterAssumption DEF BufP!EntrySet, BufP!Limits, RouterEntries

\* What each of the buffer's operations moves, in the router's terms.
LEMMA EmptyMoves == InStep(Buf!EmptyBuffer) /\ HeldIn(Buf!EmptyBuffer) = {}
<1>1. BufP!Sound(BufP!EmptyBuffer, RouterEntries) /\ BufP!Held(BufP!EmptyBuffer) = {}
  BY EntriesLimits, BA, BufP!EmptySound
<1> QED
  BY <1>1, SameEmpty, SameHeld DEF InStep

LEMMA AddMoves ==
  ASSUME NEW b, InStep(b), NEW e \in RouterEntries, e \notin HeldIn(b), NEW r, r = Buf!Add(b, e)
  PROVE  /\ InStep(r.buffer)
         /\ HeldIn(r.buffer) \union r.evicted = HeldIn(b) \union {e}
         /\ HeldIn(r.buffer) \intersect r.evicted = {}
<1>1. r = BufP!Add(b, e)
  BY SameAdd
<1>2. e \notin BufP!Held(b)
  BY SameHeld
<1>3. /\ BufP!Sound(r.buffer, RouterEntries)
      /\ BufP!Held(r.buffer) \union r.evicted = BufP!Held(b) \union {e}
      /\ BufP!Held(r.buffer) \intersect r.evicted = {}
  BY <1>1, <1>2, EntriesLimits, BA, BufP!AddFacts DEF InStep
<1> QED
  BY <1>3, SameHeld DEF InStep

LEMMA ExpireMoves ==
  ASSUME NEW b, InStep(b), NEW t \in Int, NEW r, r = Buf!Expire(b, t)
  PROVE  /\ InStep(r.buffer)
         /\ HeldIn(r.buffer) \union r.evicted = HeldIn(b)
         /\ HeldIn(r.buffer) \intersect r.evicted = {}
<1>1. r = BufP!Expire(b, t)
  BY SameExpire
<1>3. /\ BufP!Sound(r.buffer, RouterEntries)
      /\ r.evicted \subseteq BufP!Held(b)
      /\ BufP!Held(r.buffer) = BufP!Held(b) \ r.evicted
  BY <1>1, EntriesLimits, BA, BufP!ExpireFacts DEF InStep
<1> QED
  BY <1>3, SameHeld DEF InStep

LEMMA PromoteMoves ==
  ASSUME NEW b, InStep(b), NEW s \in Scopes, NEW t \in Int, NEW r, r = Buf!Promote(b, s, t)
  PROVE  /\ InStep(r.buffer)
         /\ r.evicted \subseteq HeldIn(b)
         /\ \A x \in r.evicted : x.timestamp <= t - TTL
         /\ ToSet(r.promoted) = {e \in HeldIn(b) \ r.evicted : e.scope = s /\ e.promotable}
         /\ HeldIn(r.buffer) = (HeldIn(b) \ r.evicted) \ ToSet(r.promoted)
<1>1. r = BufP!Promote(b, s, t)
  BY SamePromote
<1>3. /\ BufP!Sound(r.buffer, RouterEntries)
      /\ r.evicted \subseteq BufP!Held(b)
      /\ \A x \in r.evicted : x.timestamp <= t - TTL
      /\ BufP!ToSet(r.promoted) = {e \in BufP!Held(b) \ r.evicted : e.scope = s /\ e.promotable}
      /\ BufP!Held(r.buffer) = (BufP!Held(b) \ r.evicted) \ BufP!ToSet(r.promoted)
  BY <1>1, EntriesLimits, BA, BufP!PromoteFacts DEF InStep
<1>4. ToSet(r.promoted) = BufP!ToSet(r.promoted)
  BY DEF ToSet, BufP!ToSet
<1> QED
  BY <1>3, <1>4, SameHeld DEF InStep

LEMMA HeldType ==
  ASSUME NEW b, InStep(b)
  PROVE  HeldIn(b) \subseteq RouterEntries
BY EntriesLimits, BA, BufP!SoundFacts, SameHeld DEF InStep

-----------------------------------------------------------------------------
\* Facts about lists, and the fold of Retain one summary at a time.
LEMMA ListFacts ==
  ASSUME NEW E, NEW l \in Seq(E)
  PROVE  /\ ToSet(l) \subseteq E
         /\ ToSet(l) = {l[i] : i \in 1..Len(l)}
         /\ IsFiniteSet(ToSet(l))
         /\ ToSet(<<>>) = {}
         /\ \A e : ToSet(Append(l, e)) = ToSet(l) \union {e}
<1>1. \A k : ToSet(k) = BufP!ToSet(k)
  BY DEF ToSet, BufP!ToSet
<1>2. \A S : BufP!IsFiniteSet(S) = IsFiniteSet(S)
  BY DEF BufP!IsFiniteSet, IsFiniteSet
<1> QED
  BY <1>1, <1>2, BA, BufP!ToSetFacts

\* Induction over lists.
LEMMA ListInduction ==
  ASSUME NEW E, NEW P, <<>> \in P,
         \A l \in Seq(E), e \in E : l \in P => Append(l, e) \in P
  PROVE  Seq(E) \subseteq P
BY BA, BufP!ListInduction

LEMMA RetainFold ==
  ASSUME NEW b, NEW l, NEW t, NEW base, base = [buffer |-> b, kept |-> retained, evicted |-> {}]
  PROVE  Retain(b, l, t) = KeepFold!FoldOf(t, l, base, DOMAIN l)
BY DEF Retain, FoldLeft, KeepFold!FoldOf, MapThenFoldSet, KeepFold!MapThenFoldSet

LEMMA Indices ==
  ASSUME NEW n \in Nat
  PROVE  /\ Max(1..(n + 1)) = n + 1
         /\ KeepFold!IsFiniteSet(1..n)
         /\ KeepFold!Chooses(1..n)
<1>1. \A S : BufP!Max(S) = Max(S)
  BY DEF BufP!Max, Max
<1>2. \A S : BufP!ListFold!IsFiniteSet(S) = KeepFold!IsFiniteSet(S)
  BY DEF BufP!ListFold!IsFiniteSet, KeepFold!IsFiniteSet
<1>3. BufP!ListFold!Chooses(1..n) = KeepFold!Chooses(1..n)
  BY <1>1 DEF BufP!ListFold!Chooses, KeepFold!Chooses
<1> QED
  BY <1>1, <1>2, <1>3, BA, BufP!Indices

LEMMA RetainSteps ==
  ASSUME NEW E, NEW b, NEW l \in Seq(E), NEW x, NEW t
  PROVE  /\ Retain(b, <<>>, t) = [buffer |-> b, kept |-> retained, evicted |-> {}]
         /\ Retain(b, Append(l, x), t) = RetainOne(Retain(b, l, t), x, t)
<1> DEFINE base == [buffer |-> b, kept |-> retained, evicted |-> {}]
           n == Len(l)
           k == Append(l, x)
           D == 1..(n + 1)
<1>0. PICK z : z = base
  OBVIOUS
<1>2. n \in Nat /\ DOMAIN l = 1..n /\ DOMAIN k = D
  OBVIOUS
<1>3. k[n + 1] = x /\ \A i \in 1..n : k[i] = l[i]
  OBVIOUS
<1>4. /\ D \ {n + 1} = 1..n /\ D # {}
      /\ KeepFold!IsFiniteSet(D) /\ KeepFold!Chooses(D) /\ Max(D) = n + 1
  <2>1. D \ {n + 1} = 1..n /\ D # {}
    <3>1. \A m \in Nat : (1..(m + 1)) \ {m + 1} = 1..m /\ 1 \in 1..(m + 1)
      OBVIOUS
    <3> QED
      BY <1>2, <3>1
  <2>2. n + 1 \in Nat
    BY <1>2
  <2> QED
    BY <1>2, <2>1, <2>2, Indices
<1> HIDE DEF base
<1>5. KeepFold!FoldOf(t, k, z, D) = RetainOne(KeepFold!FoldOf(t, k, z, D \ {n + 1}), x, t)
  <2> HIDE DEF D, k, n
  <2> QED
    BY <1>3, <1>4, KeepFold!Unfold
<1>6. KeepFold!FoldOf(t, k, z, 1..n) = KeepFold!FoldOf(t, l, z, 1..n)
  <2> HIDE DEF k, n
  <2> QED
    BY <1>2, <1>3, Indices, KeepFold!Congruence
<1>7. \A m : Retain(b, m, t) = KeepFold!FoldOf(t, m, z, DOMAIN m)
  BY <1>0, RetainFold DEF base
<1>1. Retain(b, <<>>, t) = base
  <2>1. DOMAIN <<>> = {}
    OBVIOUS
  <2>2. KeepFold!FoldOf(t, <<>>, z, {}) = z
    BY KeepFold!Empty
  <2> QED
    BY <1>0, <1>7, <2>1, <2>2
<1> QED
  BY <1>1, <1>2, <1>4, <1>5, <1>6, <1>7 DEF base

-----------------------------------------------------------------------------
\* The identities by which entries and summaries are told apart.
DistinctIds(S) == \A x, y \in S : x.id = y.id => x = y

\* The identities of the summaries after the first m.
SummaryIds(m, n) == {<<"summary", i>> : i \in (m + 1)..n}

\* r: the buffer b after it was given the entries N of new local summaries.
Given(b, r, N) ==
  /\ InStep(r.buffer)
  /\ r.kept \in Nat /\ r.kept >= retained
  /\ N \subseteq RouterEntries /\ \A e \in N : ~ e.promotable
  /\ Ids(N) = SummaryIds(retained, r.kept)
  /\ DistinctIds(HeldIn(b) \union N)
  /\ HeldIn(r.buffer) \union r.evicted = HeldIn(b) \union N
  /\ HeldIn(r.buffer) \intersect r.evicted = {}

\* Retain gives the buffer one new entry for each of the summaries.
LEMMA RetainGiven ==
  ASSUME NEW E, \A s \in E : s.key[1] \in Scopes,
         NEW l \in Seq(E), NEW b, InStep(b), DistinctIds(HeldIn(b)), NEW t \in Int,
         retained \in Nat,
         \A e \in HeldIn(b), n \in Nat : n > retained => e.id # <<"summary", n>>
  PROVE  \E N : Given(b, Retain(b, l, t), N)
<1> DEFINE P == {k \in Seq(E) : \E N : Given(b, Retain(b, k, t), N)}
<1>1. <<>> \in P
  <2>1. PICK r : r = Retain(b, <<>>, t)
    OBVIOUS
  <2>2. <<>> \in Seq(E)
    OBVIOUS
  <2>3. r.buffer = b /\ r.kept = retained /\ r.evicted = {}
    <3>1. Retain(b, <<>>, t) = [buffer |-> b, kept |-> retained, evicted |-> {}]
      BY <2>2, RetainSteps
    <3> QED
      BY <2>1, <3>1
  <2>4. SummaryIds(retained, retained) = {}
    BY DEF SummaryIds
  <2>5. Given(b, r, {})
    BY <2>3, <2>4 DEF Given, Ids
  <2> QED
    BY <2>1, <2>2, <2>5
<1>2. ASSUME NEW k \in Seq(E), NEW s \in E, k \in P PROVE Append(k, s) \in P
  <2>1. PICK acc : acc = Retain(b, k, t)
    OBVIOUS
  <2>2. PICK N : Given(b, acc, N)
    BY <1>2, <2>1
  <2> DEFINE n == acc.kept + 1
  <2>3. PICK e : e = SummaryEntry(n, s, t)
    OBVIOUS
  <2>4. /\ e \in RouterEntries /\ e.id = <<"summary", n>> /\ ~ e.promotable
        /\ n \in Nat /\ n > retained /\ acc.kept \in Nat
    BY <2>2, <2>3 DEF Given, SummaryEntry, Entry, RouterEntries, Ident
  <2>5. \A x \in HeldIn(b) \union N : x.id # e.id
    <3>1. \A x \in HeldIn(b) : x.id # e.id
      BY <2>4
    <3>2. ASSUME NEW x \in N PROVE x.id # e.id
      <4>1. x.id \in SummaryIds(retained, acc.kept)
        BY <2>2 DEF Given, Ids
      <4>2. \A i \in (retained + 1)..acc.kept : i # n
        BY <2>4
      <4> QED
        BY <2>4, <4>1, <4>2 DEF SummaryIds
    <3> QED
      BY <3>1, <3>2
  <2>6. PICK a : a = Buf!Add(acc.buffer, e)
    OBVIOUS
  <2>7. /\ InStep(a.buffer)
        /\ HeldIn(a.buffer) \union a.evicted = HeldIn(acc.buffer) \union {e}
        /\ HeldIn(a.buffer) \intersect a.evicted = {}
    <3>1. e \notin HeldIn(acc.buffer) /\ InStep(acc.buffer)
      BY <2>2, <2>5 DEF Given
    <3> QED
      BY <2>4, <2>6, <3>1, AddMoves
  <2>8. PICK r : r = Retain(b, Append(k, s), t)
    OBVIOUS
  <2>9. r.buffer = a.buffer /\ r.kept = n /\ r.evicted = acc.evicted \union a.evicted
    <3>1. r = RetainOne(acc, s, t)
      BY <2>1, <2>8, RetainSteps
    <3> QED
      BY <2>3, <2>6, <3>1 DEF RetainOne
  <2>10. Given(b, r, N \union {e})
    <3>1. Ids(N \union {e}) = SummaryIds(retained, n)
      <4>1. Ids(N \union {e}) = Ids(N) \union {e.id}
        BY DEF Ids
      <4>2. \A i : i \in (retained + 1)..n <=> i \in (retained + 1)..acc.kept \/ i = n
        BY <2>2, <2>4 DEF Given
      <4>3. SummaryIds(retained, n) = SummaryIds(retained, acc.kept) \union {<<"summary", n>>}
        BY <4>2 DEF SummaryIds
      <4> QED
        BY <2>2, <2>4, <4>1, <4>3 DEF Given
    <3>2. DistinctIds(HeldIn(b) \union (N \union {e}))
      BY <2>2, <2>5 DEF Given, DistinctIds
    <3>3. e \notin acc.evicted
      BY <2>2, <2>5 DEF Given
    <3> HIDE DEF n
    <3> QED
      BY <2>2, <2>4, <2>7, <2>9, <3>1, <3>2, <3>3 DEF Given
  <2> QED
    BY <2>8, <2>10
<1>3. l \in P
  <2> HIDE DEF P
  <2> QED
    BY <1>1, <1>2, ListInduction
<1> QED
  BY <1>3

-----------------------------------------------------------------------------
\* The context that waits in the buffer for an alert.
Waiting == {c \in HeldIn(buffer) : c.promotable}

\* A call takes the entries G into the buffer, promotes P and evicts `lost`.
Turn(G, P, lost) ==
  /\ InStep(buffer')
  /\ HeldIn(buffer') \union lost = (HeldIn(buffer) \union G) \ P
  /\ HeldIn(buffer') \intersect lost = {}
  /\ evicted' = evicted \union Ids(lost)
  /\ G \subseteq RouterEntries
  /\ DistinctIds(HeldIn(buffer) \union G)
  /\ P \subseteq Waiting

\* The closing Settle of a call: what the call moved in the buffer is a Turn.
LEMMA SettleTurn ==
  ASSUME NEW G, NEW P, NEW c, NEW gone, NEW t \in Int, Settle(c, gone, t),
         InStep(c), G \subseteq RouterEntries, DistinctIds(HeldIn(buffer) \union G),
         P \subseteq Waiting,
         HeldIn(c) \union gone = (HeldIn(buffer) \union G) \ P,
         HeldIn(c) \intersect gone = {}
  PROVE  \E lost : Turn(G, P, lost) /\ gone \subseteq lost
<1>1. PICK r : r = Buf!Expire(c, t)
  OBVIOUS
<1>2. /\ InStep(r.buffer)
      /\ HeldIn(r.buffer) \union r.evicted = HeldIn(c)
      /\ HeldIn(r.buffer) \intersect r.evicted = {}
  BY <1>1, ExpireMoves
<1>3. buffer' = r.buffer /\ evicted' = evicted \union Ids(gone \union r.evicted)
  BY <1>1 DEF Settle
<1>4. Turn(G, P, gone \union r.evicted)
  BY <1>2, <1>3 DEF Turn
<1> QED
  BY <1>4

LEMMA NothingMoves ==
  ASSUME NEW t \in Int, Settle(buffer, {}, t), InStep(buffer), DistinctIds(HeldIn(buffer))
  PROVE  \E lost : Turn({}, {}, lost)
<1>1. PICK c : c = buffer
  OBVIOUS
<1>2. /\ HeldIn(c) \union {} = (HeldIn(buffer) \union {}) \ {} /\ HeldIn(c) \intersect {} = {}
      /\ HeldIn(buffer) \union {} = HeldIn(buffer)
      /\ {} \subseteq RouterEntries /\ {} \subseteq Waiting
  BY <1>1
<1>3. Settle(c, {}, t) /\ InStep(c)
  BY <1>1
<1> QED
  BY <1>2, <1>3, SettleTurn

\* The context entries P as routed items.
Promoted(P) == {Single(c.id, "high", FALSE) : c \in P}

\* An event goes out at once, and on a hit the live context of its scope with it.
UploadTurn(id, s, hit, t, P, lost) ==
  /\ Turn({}, P, lost)
  /\ \A c \in P : c.scope = s
  /\ P # {} => hit
  /\ routed' = Promoted(P) \union {Single(id, "high", hit)}
  /\ uploaded' = uploaded \union Ids(P) \union {id}
  /\ hit => /\ alertedScopes' = [LiveAlerts(t) EXCEPT ![s] = t + PostAlertWindow]
            /\ \A c \in HeldIn(buffer) :
                 c.scope = s /\ c.promotable =>
                   c \in P \/ (c.timestamp <= t - TTL /\ c \in lost)
  /\ ~ hit => alertedScopes' = LiveAlerts(t)
  /\ UNCHANGED <<aggregator, localAggregator, retained>>

\* A context event goes out at once, as its scope counts as alerted.
FollowTurn(id, t, lost) ==
  /\ Turn({}, {}, lost)
  /\ routed' = {Single(id, "high", FALSE)}
  /\ uploaded' = uploaded \union {id}
  /\ alertedScopes' = LiveAlerts(t)
  /\ UNCHANGED <<aggregator, localAggregator, retained>>

\* A context event waits in the buffer, as its scope does not count as alerted.
HoldTurn(id, s, t, e, lost) ==
  /\ e \in RouterEntries /\ e.id = id /\ e.scope = s /\ e.promotable
  /\ Turn({e}, {}, lost)
  /\ routed' = {} /\ uploaded' = uploaded
  /\ LiveAlerts(t)[s] = NotAlerted
  /\ alertedScopes' = LiveAlerts(t)
  /\ UNCHANGED <<aggregator, localAggregator, retained>>

LEMMA PromotedIds ==
  ASSUME NEW P
  PROVE  Ids(Promoted(P)) = Ids(P)
<1>1. \A x, y, z : Single(x, y, z).id = x
  BY DEF Single, Item
<1>2. ASSUME NEW x \in Ids(P) PROVE x \in Ids(Promoted(P))
  <2>1. PICK c \in P : x = c.id
    BY DEF Ids
  <2>2. PICK i : i = Single(c.id, "high", FALSE)
    OBVIOUS
  <2>3. i \in Promoted(P) /\ i.id = x
    BY <1>1, <2>1, <2>2 DEF Promoted
  <2> QED
    BY <2>3 DEF Ids
<1>3. ASSUME NEW x \in Ids(Promoted(P)) PROVE x \in Ids(P)
  <2>1. PICK i \in Promoted(P) : x = i.id
    BY DEF Ids
  <2>2. PICK c \in P : i = Single(c.id, "high", FALSE)
    BY <2>1 DEF Promoted
  <2>3. x = c.id
    BY <1>1, <2>1, <2>2
  <2> QED
    BY <2>3 DEF Ids
<1> QED
  BY <1>2, <1>3

\* UploadNow is an UploadTurn.
LEMMA UploadNowTurn ==
  ASSUME NEW n \in Nat, NEW s \in Scopes, NEW d, NEW hit \in BOOLEAN, d.promote = hit,
         d.priority = "high",
         NEW t \in Int, NEW id, id = <<"event", n>>, UploadNow(id, s, d, hit, t),
         InStep(buffer), DistinctIds(HeldIn(buffer)),
         \A c \in HeldIn(buffer) : c.promotable => c.id[1] = "event"
  PROVE  \E P, lost : UploadTurn(id, s, hit, t, P, lost)
<1>0. ASSUME NEW P, P \subseteq Waiting,
             NEW items, Route(items), items = Promoted(P) \union {Single(id, "high", hit)}
      PROVE  /\ routed' = items
             /\ uploaded' = uploaded \union Ids(P) \union {id}
  <2>1. PICK new : new = Single(id, "high", hit)
    OBVIOUS
  <2>2. \A x, y, z : Single(x, y, z).id = x
    BY DEF Single, Item
  <2>3. new.id = id
    BY <2>1, <2>2
  <2>4. items = Promoted(P) \union {new}
    BY <1>0, <2>1, Zenon
  <2>5. Ids(items) = Ids(P) \union {id}
    <3>1. Ids(Promoted(P)) = Ids(P)
      BY PromotedIds
    <3>2. Ids(items) = Ids(Promoted(P)) \union {new.id}
      BY <2>4 DEF Ids
    <3> QED
      BY <2>3, <3>1, <3>2
  <2>6. \A x \in Ids(P) \union {id} : x[1] = "event"
    BY <1>0 DEF Ids, Waiting
  <2>7. {i \in items : i.id[1] = "event"} = items
    BY <2>5, <2>6 DEF Ids
  <2> QED
    BY <1>0, <2>5, <2>7 DEF Route
<1>1. CASE hit
  <2>1. PICK p : p = Buf!Promote(buffer, s, t)
    OBVIOUS
  <2>2. PICK P : P = ToSet(p.promoted)
    OBVIOUS
  <2>3. /\ InStep(p.buffer)
        /\ p.evicted \subseteq HeldIn(buffer)
        /\ \A x \in p.evicted : x.timestamp <= t - TTL
        /\ P = {e \in HeldIn(buffer) \ p.evicted : e.scope = s /\ e.promotable}
        /\ HeldIn(p.buffer) = (HeldIn(buffer) \ p.evicted) \ P
    <3>1. PICK b : b = buffer
      OBVIOUS
    <3>2. InStep(b) /\ p = Buf!Promote(b, s, t)
      BY <2>1, <3>1
    <3> QED
      BY <2>2, <3>1, <3>2, PromoteMoves
  <2>4. /\ alertedScopes' = [LiveAlerts(t) EXCEPT ![s] = t + PostAlertWindow]
        /\ Settle(p.buffer, p.evicted, t)
        /\ Route(Promoted(P) \union {Single(id, "high", hit)})
    BY <1>1, <2>1, <2>2 DEF UploadNow, Promoted
  <2>5. PICK lost : Turn({}, P, lost) /\ p.evicted \subseteq lost
    <3>1. PICK G, c, gone : G = {} /\ c = p.buffer /\ gone = p.evicted
      OBVIOUS
    <3>2. P \subseteq Waiting /\ G \subseteq RouterEntries /\ DistinctIds(HeldIn(buffer) \union G)
      BY <2>3, <3>1 DEF DistinctIds, Waiting
    <3>3. Settle(c, gone, t) /\ InStep(c)
      BY <2>3, <2>4, <3>1
    <3>4. HeldIn(c) \union gone = (HeldIn(buffer) \union G) \ P /\ HeldIn(c) \intersect gone = {}
      BY <2>3, <3>1
    <3>5. \E lost : Turn(G, P, lost) /\ gone \subseteq lost
      BY ONLY <3>2, <3>3, <3>4, t \in Int, SettleTurn
    <3> QED
      BY <3>1, <3>5
  <2>6. P \subseteq Waiting /\ \A c \in P : c.scope = s
    BY <2>3 DEF Waiting
  <2>7. \A c \in HeldIn(buffer) : c.scope = s /\ c.promotable =>
                            c \in P \/ (c.timestamp <= t - TTL /\ c \in lost)
    BY <2>3, <2>5
  <2>8. /\ routed' = Promoted(P) \union {Single(id, "high", hit)}
        /\ uploaded' = uploaded \union Ids(P) \union {id}
    BY <1>0, <2>4, <2>6
  <2>9. UNCHANGED <<aggregator, localAggregator, retained>>
    BY DEF UploadNow
  <2> QED
    BY <1>1, <2>4, <2>5, <2>6, <2>7, <2>8, <2>9 DEF UploadTurn
<1>2. CASE ~ hit
  <2>1. /\ alertedScopes' = LiveAlerts(t)
        /\ Settle(buffer, {}, t)
        /\ Route({Single(id, "high", hit)})
    BY <1>2 DEF UploadNow
  <2>2. PICK lost : Turn({}, {}, lost)
    BY <2>1, NothingMoves
  <2>3. {Single(id, "high", hit)} = Promoted({}) \union {Single(id, "high", hit)}
    BY DEF Promoted
  <2>4. /\ routed' = Promoted({}) \union {Single(id, "high", hit)}
        /\ uploaded' = uploaded \union Ids({}) \union {id}
    BY <1>0, <2>1, <2>3
  <2>5. UNCHANGED <<aggregator, localAggregator, retained>>
    BY DEF UploadNow
  <2> QED
    BY <1>2, <2>1, <2>2, <2>4, <2>5 DEF UploadTurn
<1> QED
  BY <1>1, <1>2

-----------------------------------------------------------------------------
\* The buffer holds the context events and the local summaries seen so far, each once.
HeldInv ==
  /\ retained \in Nat
  /\ InStep(buffer) /\ DistinctIds(HeldIn(buffer))
  /\ \A c \in HeldIn(buffer) :
       IF c.promotable THEN c.id \in OfMode("ON_ALERT") ELSE c.id \in SummaryIds(0, retained)

LEMMA OfModeEvent ==
  ASSUME NEW m, NEW x \in OfMode(m), NEW T, received \in Seq(T)
  PROVE  \E i \in 1..Len(received) : x = <<"event", i>> /\ received[i].mode = m
BY DEF OfMode

\* The identities of new events and summaries are not in the buffer.
LEMMA FreshIds ==
  ASSUME HeldInv, NEW T, received \in Seq(T), NEW c \in HeldIn(buffer)
  PROVE  /\ c.id # <<"event", Len(received) + 1>>
         /\ c.promotable => c.id[1] = "event"
         /\ \A n \in Nat : n > retained => c.id # <<"summary", n>>
<1>0. Len(received) \in Nat
  OBVIOUS
<1>1. CASE c.promotable
  <2>1. PICK i \in 1..Len(received) : c.id = <<"event", i>>
    BY <1>1, OfModeEvent DEF HeldInv
  <2> QED
    BY <1>0, <2>1
<1>2. CASE ~ c.promotable
  <2>1. PICK i \in (0 + 1)..retained : c.id = <<"summary", i>>
    BY <1>2 DEF HeldInv, SummaryIds
  <2>2. retained \in Nat
    BY DEF HeldInv
  <2> QED
    BY <1>2, <2>1, <2>2
<1> QED
  BY <1>1, <1>2

LEMMA NoEvents ==
  ASSUME NEW items, Route(items), \A i \in items : i.id[1] # "event"
  PROVE  routed' = items /\ uploaded' = uploaded
<1>1. Ids({i \in items : i.id[1] = "event"}) = {}
  BY DEF Ids
<1> QED
  BY <1>1 DEF Route

\* KeepForAlert is a FollowTurn or a HoldTurn.
LEMMA KeepForAlertTurn ==
  ASSUME HeldInv, NEW T, received \in Seq(T), alertedScopes \in [Scopes -> Int],
         NEW s \in Scopes, NEW d, NEW t \in Int,
         NEW id, id = <<"event", Len(received) + 1>>, KeepForAlert(id, s, d, t)
  PROVE  (\E lost : FollowTurn(id, t, lost)) \/ (\E e, lost : HoldTurn(id, s, t, e, lost))
<1>1. alertedScopes' = LiveAlerts(t) /\ UNCHANGED <<aggregator, localAggregator, retained>>
  BY DEF KeepForAlert
<1>2. InStep(buffer) /\ DistinctIds(HeldIn(buffer))
  BY DEF HeldInv
<1>3. CASE Active(s, t)
  <2>1. Route({Single(id, "high", FALSE)}) /\ Settle(buffer, {}, t)
    BY <1>3 DEF KeepForAlert
  <2>2. PICK new : new = Single(id, "high", FALSE)
    OBVIOUS
  <2>3. new.id = id
    BY <2>2 DEF Single, Item
  <2>4. {i \in {new} : i.id[1] = "event"} = {new} /\ Ids({new}) = {id}
    BY <2>3 DEF Ids
  <2>5. uploaded' = uploaded \union {id} /\ routed' = {Single(id, "high", FALSE)}
    BY <2>1, <2>2, <2>4 DEF Route
  <2>6. \E lost : Turn({}, {}, lost)
    BY <1>2, <2>1, NothingMoves
  <2> QED
    BY <1>1, <2>5, <2>6 DEF FollowTurn
<1>4. CASE ~ Active(s, t)
  <2>1. PICK e : e = Entry(id, s, t, TRUE)
    OBVIOUS
  <2>2. Len(received) + 1 \in Nat
    OBVIOUS
  <2>3. e \in RouterEntries /\ e.id = id /\ e.scope = s /\ e.promotable
    BY <2>1, <2>2 DEF Entry, RouterEntries, Ident
  <2>4. \A c \in HeldIn(buffer) : c.id # id
    BY FreshIds
  <2>5. PICK a : a = Buf!Add(buffer, e)
    OBVIOUS
  <2>6. Route({}) /\ Settle(a.buffer, a.evicted, t)
    BY <1>4, <2>1, <2>5 DEF KeepForAlert
  <2>7. /\ InStep(a.buffer)
        /\ HeldIn(a.buffer) \union a.evicted = HeldIn(buffer) \union {e}
        /\ HeldIn(a.buffer) \intersect a.evicted = {}
    <3>1. PICK b : b = buffer
      OBVIOUS
    <3>2. InStep(b) /\ e \notin HeldIn(b) /\ a = Buf!Add(b, e)
      BY <1>2, <2>3, <2>4, <2>5, <3>1
    <3> QED
      BY <2>3, <3>1, <3>2, AddMoves
  <2>8. PICK lost : Turn({e}, {}, lost)
    <3>1. PICK c, gone : c = a.buffer /\ gone = a.evicted
      OBVIOUS
    <3>2. Settle(c, gone, t) /\ InStep(c)
      BY <2>6, <2>7, <3>1
    <3>3. HeldIn(c) \union gone = (HeldIn(buffer) \union {e}) \ {} /\ HeldIn(c) \intersect gone = {}
      BY <2>7, <3>1
    <3>4. /\ {e} \subseteq RouterEntries /\ DistinctIds(HeldIn(buffer) \union {e})
          /\ {} \subseteq Waiting
      BY <1>2, <2>3, <2>4 DEF DistinctIds
    <3> QED
      BY <3>2, <3>3, <3>4, SettleTurn
  <2>9. LiveAlerts(t)[s] = NotAlerted
    <3>1. LiveAlerts(t)[s] = IF alertedScopes[s] <= t THEN NotAlerted ELSE alertedScopes[s]
      BY DEF LiveAlerts
    <3>2. alertedScopes[s] \in Int /\ ~ (LiveAlerts(t)[s] > t)
      BY <1>4 DEF Active
    <3> QED
      BY <3>1, <3>2
  <2>10. routed' = {} /\ uploaded' = uploaded
    BY <2>6, NoEvents
  <2> QED
    BY <1>1, <2>3, <2>8, <2>9, <2>10 DEF HoldTurn
<1> QED
  BY <1>3, <1>4

\* A call that retains local summaries takes exactly those into the buffer.
LEMMA LocalTurn ==
  ASSUME HeldInv, NEW T, received \in Seq(T),
         NEW E, \A x \in E : x.key[1] \in Scopes, NEW l \in Seq(E), NEW t \in Int,
         NEW r, r = Retain(buffer, l, t), Settle(r.buffer, r.evicted, t), retained' = r.kept
  PROVE  \E N, lost :
           /\ Turn(N, {}, lost)
           /\ \A e \in N : ~ e.promotable
           /\ Ids(N) = SummaryIds(retained, retained')
           /\ retained' \in Nat /\ retained' >= retained
<1>1. PICK b : b = buffer
  OBVIOUS
<1>2. /\ InStep(b) /\ DistinctIds(HeldIn(b)) /\ retained \in Nat
      /\ \A e \in HeldIn(b), n \in Nat : n > retained => e.id # <<"summary", n>>
  BY <1>1, FreshIds DEF HeldInv
<1>3. PICK N : Given(b, Retain(b, l, t), N)
  BY <1>2, RetainGiven
<1>4. Given(b, r, N)
  BY <1>1, <1>3
<1>5. PICK c, gone : c = r.buffer /\ gone = r.evicted
  OBVIOUS
<1>6. Settle(c, gone, t) /\ InStep(c)
  BY <1>4, <1>5 DEF Given
<1>7. HeldIn(c) \union gone = (HeldIn(buffer) \union N) \ {} /\ HeldIn(c) \intersect gone = {}
  BY <1>1, <1>4, <1>5 DEF Given
<1>8. /\ N \subseteq RouterEntries /\ DistinctIds(HeldIn(buffer) \union N)
      /\ {} \subseteq Waiting
  BY <1>1, <1>4 DEF Given
<1>9. \E lost : Turn(N, {}, lost)
  BY <1>6, <1>7, <1>8, SettleTurn
<1> QED
  BY <1>4, <1>9 DEF Given

-----------------------------------------------------------------------------
\* The aggregators: lists of one bucket per key.

\* No two buckets of the list have one key.
OneEach(l) == \A i, j \in 1..Len(l) : l[i].key = l[j].key => i = j

\* The buckets an aggregator of the keys K may hold.
Buckets(K) == [key : K, count : Nat \ {0}, first : Int, last : Int]

\* l is the state of an aggregator of keys K.
Collects(l, K) == l \in Seq(Buckets(K)) /\ OneEach(l)

\* The bucket with one event more.
Counting(bucket, t) == [bucket EXCEPT !.count = @ + 1, !.last = t]

\* Adding an event of key k to l at time t: it is counted into the open bucket x
\* of k, or gets a fresh bucket for which x, due or the oldest, is handed out, or
\* one that needs no room.
AddCase(l, k, t, r) ==
  \/ /\ r.emitted = <<>>
     /\ \E x \in ToSet(l) : /\ x.key = k
                            /\ ToSet(r.buckets) = (ToSet(l) \ {x}) \union {Counting(x, t)}
  \/ \E x \in ToSet(l) : /\ x.key = k \/ \A y \in ToSet(l) : y.key # k
                         /\ r.emitted = <<x>>
                         /\ ToSet(r.buckets) = (ToSet(l) \ {x}) \union {Agg!Bucket(k, t)}
  \/ /\ r.emitted = <<>>
     /\ \A y \in ToSet(l) : y.key # k
     /\ ToSet(r.buckets) = ToSet(l) \union {Agg!Bucket(k, t)}

\* The aggregator's operators and those that carry lemmas agree.
LEMMA SameShape ==
  ASSUME NEW l, NEW K
  PROVE  /\ BufP!ToSet(l) = ToSet(l) /\ BufP!Buckets(K) = Buckets(K)
         /\ BufP!Collects(l, K) <=> Collects(l, K)
BY DEF BufP!ToSet, ToSet, BufP!Buckets, Buckets, BufP!Collects, Collects, BufP!OneEach, OneEach

LEMMA SameCase ==
  ASSUME NEW l, NEW k, NEW t, NEW r
  PROVE  BufP!AddCase(l, k, t, r) <=> AddCase(l, k, t, r)
<1>1. \A m : BufP!ToSet(m) = ToSet(m)
  BY SameShape
<1>2. /\ \A x : BufP!Counting(x, t) = Counting(x, t)
      /\ BufP!Bucket(k, t) = Agg!Bucket(k, t)
  BY DEF BufP!Counting, Counting, BufP!Bucket, Agg!Bucket
<1> QED
  BY <1>1, <1>2, Zenon DEF BufP!AddCase, AddCase

LEMMA SameAddEvent ==
  ASSUME NEW l, NEW k, NEW t
  PROVE  Agg!AddEvent(l, k, t) = BufP!AddEvent(l, k, t)
BY DEF Agg!AddEvent, BufP!AddEvent, Agg!Position, BufP!Position, Agg!Due, BufP!Due,
       Agg!CountIn, BufP!CountIn, Agg!AllInUse, BufP!AllInUse, Agg!Bucket, BufP!Bucket,
       Agg!RemoveAt, BufP!RemoveAt

\* AddEvent keeps one bucket per key, in one of three ways.
LEMMA AddCollects ==
  ASSUME NEW K, NEW l, Collects(l, K), NEW k \in K, NEW t \in Int,
         NEW r, r = Agg!AddEvent(l, k, t)
  PROVE  /\ Collects(r.buckets, K)
         /\ r.emitted \in Seq(Buckets(K))
         /\ AddCase(l, k, t, r)
<1>1. BufP!Collects(l, K) /\ r = BufP!AddEvent(l, k, t)
  BY SameShape, SameAddEvent
<1>2. /\ BufP!Collects(r.buckets, K)
      /\ r.emitted \in Seq(BufP!Buckets(K))
      /\ BufP!AddCase(l, k, t, r)
  BY <1>1, BA, BufP!AddCollects
<1> QED
  BY <1>2, SameShape, SameCase

\* The two aggregators share their operators.
LEMMA SameLocalAdd ==
  ASSUME NEW l, NEW k, NEW t
  PROVE  Loc!AddEvent(l, k, t) = Agg!AddEvent(l, k, t)
BY DEF Agg!AddEvent, Loc!AddEvent, Agg!Position, Loc!Position, Agg!Due, Loc!Due, Agg!CountIn, Loc!CountIn,
       Agg!AllInUse, Loc!AllInUse, Agg!Bucket, Loc!Bucket, Agg!RemoveAt, Loc!RemoveAt

LEMMA FlushSame ==
  ASSUME NEW l, NEW t, NEW force
  PROVE  /\ Loc!Flush(l, t, force) = Agg!Flush(l, t, force)
         /\ Agg!Flush(l, t, force) = BufP!Flush(l, t, force)
         /\ Agg!Leaving(l, t, force) = BufP!Leaving(l, t, force)
<1>1. \A m : /\ Agg!ToSet(m) = ToSet(m) /\ Loc!ToSet(m) = ToSet(m)
             /\ BufP!ToSet(m) = ToSet(m)
  BY DEF Agg!ToSet, Loc!ToSet, BufP!ToSet, ToSet
<1>2. \A m, S : Agg!Those(m, S) = BufP!Those(m, S)
  BY DEF Agg!Those, BufP!Those, Agg!FoldLeft, BufP!FoldLeft, Agg!MapThenFoldSet,
         BufP!MapThenFoldSet, Agg!Max, BufP!Max
<1>3. \A m, S : Loc!Those(m, S) = BufP!Those(m, S)
  BY DEF Loc!Those, BufP!Those, Loc!FoldLeft, BufP!FoldLeft, Loc!MapThenFoldSet,
         BufP!MapThenFoldSet, Loc!Max, BufP!Max
<1>4. /\ Agg!Leaving(l, t, force) = Loc!Leaving(l, t, force)
      /\ Agg!Leaving(l, t, force) = BufP!Leaving(l, t, force)
  BY <1>1 DEF Agg!Leaving, Loc!Leaving, BufP!Leaving, Agg!Due, Loc!Due, BufP!Due
<1> QED
  BY <1>1, <1>2, <1>3, <1>4 DEF Agg!Flush, Loc!Flush, BufP!Flush

\* Flush hands out the buckets that leave, and keeps the others.
LEMMA FlushCollects ==
  ASSUME NEW K, NEW l, Collects(l, K), NEW t \in Int, NEW force \in BOOLEAN,
         NEW r, r = Agg!Flush(l, t, force), NEW L, L = Agg!Leaving(l, t, force)
  PROVE  /\ Collects(r.buckets, K)
         /\ r.emitted \in Seq(Buckets(K))
         /\ ToSet(r.buckets) = ToSet(l) \ L /\ ToSet(r.emitted) = L
         /\ L \subseteq ToSet(l) /\ (force => L = ToSet(l))
<1>1. /\ BufP!Collects(l, K)
      /\ r = BufP!Flush(l, t, force) /\ L = BufP!Leaving(l, t, force)
  BY SameShape, FlushSame
<1>2. /\ BufP!Collects(r.buckets, K) /\ BufP!Collects(r.emitted, K)
      /\ BufP!ToSet(r.buckets) = BufP!ToSet(l) \ L /\ BufP!ToSet(r.emitted) = L
      /\ L \subseteq BufP!ToSet(l) /\ (force => L = BufP!ToSet(l))
  BY <1>1, BA, BufP!FlushCollects
<1> QED
  BY <1>2, SameShape DEF Collects

-----------------------------------------------------------------------------
\* The calls as turns.

\* The upload modes.
Modes == {"ALWAYS", "ON_ALERT", "AGGREGATE", "LOCAL_ONLY"}

\* The inductive invariant of the router: the three safety properties, with the
\* types, the aggregators' and the buffer's shape, and which events were uploaded.
RouterInv ==
  /\ received \in Seq([mode : Modes, key : Keys])
  /\ clock \in Int
  /\ alertedScopes \in [Scopes -> Int]
  /\ Collects(aggregator, AggregatedKeys)
  /\ \A b \in ToSet(aggregator) :
       \E i \in 1..Len(received) : received[i] = [mode |-> "AGGREGATE", key |-> b.key]
  /\ Collects(localAggregator, Keys)
  /\ HeldInv
  /\ uploaded \subseteq OfMode("ALWAYS") \union OfMode("ON_ALERT")
  /\ BufferCustody
  /\ AlertedScopeHoldsNoContext
  /\ LocalOnlyStaysLocal

\* What the policy decides: a hit is always uploaded and is the only one to promote.
LEMMA DecideFacts ==
  ASSUME NEW e \in Templates, NEW d, d = Decide(e)
  PROVE  /\ e.scope \in Scopes /\ e.hit \in BOOLEAN
         /\ d.mode \in Modes
         /\ d.promote = e.hit
         /\ d.mode = "ALWAYS" => d.priority = "high"
         /\ e.hit => d.mode = "ALWAYS"
         /\ <<e.scope, e.type>> \in Keys
         /\ d.mode = "AGGREGATE" => <<e.scope, e.type>> \in AggregatedKeys
<1>1. e.scope \in Scopes /\ e.hit \in BOOLEAN
  BY RouterAssumption
<1>2. <<e.scope, e.type>> \in Keys
  BY DEF Keys
<1>3. d.mode = "AGGREGATE" => <<e.scope, e.type>> \in AggregatedKeys
  BY DEF AggregatedKeys
<1>4. CASE e.hit
  BY <1>1, <1>2, <1>3, <1>4 DEF Decide, Modes
<1>5. CASE ~ e.hit
  BY <1>1, <1>2, <1>3, <1>5 DEF Decide, Modes
<1> QED
  BY <1>1, <1>4, <1>5

\* An event is counted by the aggregator.
CountTurn(key, t, lost, r) ==
  /\ Turn({}, {}, lost)
  /\ AddCase(aggregator, key, t, r)
  /\ aggregator' = r.buckets /\ Collects(r.buckets, AggregatedKeys)
  /\ routed' = Summaries(r.emitted) /\ uploaded' = uploaded
  /\ alertedScopes' = LiveAlerts(t)
  /\ UNCHANGED <<localAggregator, retained>>

\* The entries N of new local summaries go into the buffer.
SummariesKept(N, lost) ==
  /\ Turn(N, {}, lost)
  /\ \A e \in N : ~ e.promotable
  /\ Ids(N) = SummaryIds(retained, retained')
  /\ retained' \in Nat /\ retained' >= retained

\* A local-only event is counted by the local aggregator.
LocalOnlyTurn(t, N, lost) ==
  /\ SummariesKept(N, lost)
  /\ Collects(localAggregator', Keys)
  /\ routed' = {} /\ uploaded' = uploaded
  /\ alertedScopes' = LiveAlerts(t)
  /\ UNCHANGED aggregator

\* A flush hands out the buckets L and retains local summaries.
FlushTurn(t, force, N, lost, L) ==
  /\ SummariesKept(N, lost)
  /\ L \subseteq ToSet(aggregator) /\ (force => L = ToSet(aggregator))
  /\ ToSet(aggregator') = ToSet(aggregator) \ L
  /\ Collects(aggregator', AggregatedKeys)
  /\ Collects(localAggregator', Keys)
  /\ \E l : ToSet(l) = L /\ routed' = Summaries(l)
  /\ uploaded' = uploaded
  /\ alertedScopes' = LiveAlerts(t)
  /\ UNCHANGED received

\* The five cases of Process.
ProcessTurn(e, d, id, key, t) ==
  \/ /\ d.mode = "ALWAYS"
     /\ \E P, lost : UploadTurn(id, e.scope, e.hit, t, P, lost)
  \/ /\ d.mode = "ON_ALERT"
     /\ \E lost : FollowTurn(id, t, lost)
  \/ /\ d.mode = "ON_ALERT"
     /\ \E c, lost : HoldTurn(id, e.scope, t, c, lost)
  \/ /\ d.mode = "AGGREGATE"
     /\ \E lost, r : CountTurn(key, t, lost, r)
  \/ /\ d.mode = "LOCAL_ONLY"
     /\ \E N, lost : LocalOnlyTurn(t, N, lost)

LEMMA KeyScopes == \A k \in Keys : k[1] \in Scopes
BY RouterAssumption DEF Keys

\* Summaries are not single events.
LEMMA SummariesOnly ==
  ASSUME NEW l, Route(Summaries(l))
  PROVE  routed' = Summaries(l) /\ uploaded' = uploaded
<1>1. \A i \in Summaries(l) : i.id[1] = "aggregate"
  BY DEF Summaries, Item
<1> QED
  BY <1>1, NoEvents

\* Process and Flush are the turns above.
LEMMA ProcessTurns ==
  ASSUME RouterInv, NEW e \in Templates, Process(e),
         NEW d, d = Decide(e), NEW id, id = <<"event", Len(received) + 1>>,
         NEW key, key = <<e.scope, e.type>>, NEW t, t = clock
  PROVE  ProcessTurn(e, d, id, key, t)
<1>1. t \in Int /\ InStep(buffer) /\ DistinctIds(HeldIn(buffer)) /\ HeldInv
  BY DEF RouterInv, HeldInv
<1>2. \/ UploadNow(id, e.scope, d, e.hit, t)
      \/ KeepForAlert(id, e.scope, d, t)
      \/ Aggregate(key, d, t)
      \/ KeepLocal(key, d, t)
  BY DEF Process
<1>3. e.scope \in Scopes /\ e.hit \in BOOLEAN /\ d.promote = e.hit /\ key \in Keys
  BY DecideFacts
<1>4. received \in Seq([mode : Modes, key : Keys]) /\ alertedScopes \in [Scopes -> Int]
  BY DEF RouterInv
<1>5. CASE UploadNow(id, e.scope, d, e.hit, t)
  <2>1. PICK n \in Nat : n = Len(received) + 1
    BY <1>4
  <2>2. d.mode = "ALWAYS"
    BY <1>5 DEF UploadNow
  <2>3. d.priority = "high"
    BY <2>2, DecideFacts
  <2>4. \A c \in HeldIn(buffer) : c.promotable => c.id[1] = "event"
    BY <1>1, <1>4, FreshIds
  <2>5. PICK s \in Scopes, hit \in BOOLEAN : s = e.scope /\ hit = e.hit
    BY <1>3
  <2>6. UploadNow(id, s, d, hit, t) /\ d.promote = hit /\ id = <<"event", n>>
    BY <1>3, <1>5, <2>1, <2>5
  <2>7. \E P, lost : UploadTurn(id, s, hit, t, P, lost)
    BY <1>1, <2>1, <2>3, <2>4, <2>5, <2>6, UploadNowTurn
  <2> QED
    BY <2>2, <2>5, <2>7 DEF ProcessTurn
<1>6. CASE KeepForAlert(id, e.scope, d, t)
  <2>1. d.mode = "ON_ALERT"
    BY <1>6 DEF KeepForAlert
  <2>2. PICK s \in Scopes : s = e.scope
    BY <1>3
  <2>3. KeepForAlert(id, s, d, t)
    BY <1>6, <2>2
  <2>4. (\E lost : FollowTurn(id, t, lost)) \/ (\E c, lost : HoldTurn(id, s, t, c, lost))
    BY <1>1, <1>4, <2>2, <2>3, KeepForAlertTurn
  <2> QED
    BY <2>1, <2>2, <2>4 DEF ProcessTurn
<1>7. CASE Aggregate(key, d, t)
  <2>1. PICK r : r = Agg!AddEvent(aggregator, key, t)
    OBVIOUS
  <2>2. /\ d.mode = "AGGREGATE"
        /\ alertedScopes' = LiveAlerts(t)
        /\ aggregator' = r.buckets
        /\ Route(Summaries(r.emitted))
        /\ Settle(buffer, {}, t)
        /\ UNCHANGED <<localAggregator, retained>>
    BY <1>7, <2>1 DEF Aggregate
  <2>3. key \in AggregatedKeys
    BY <2>2, DecideFacts
  <2>4. Collects(r.buckets, AggregatedKeys) /\ AddCase(aggregator, key, t, r)
    <3>1. PICK l : l = aggregator
      OBVIOUS
    <3>2. Collects(l, AggregatedKeys) /\ r = Agg!AddEvent(l, key, t)
      BY <2>1, <3>1 DEF RouterInv
    <3> QED
      BY <1>1, <2>3, <3>1, <3>2, AddCollects
  <2>5. \E lost : Turn({}, {}, lost)
    BY <1>1, <2>2, NothingMoves
  <2>6. routed' = Summaries(r.emitted) /\ uploaded' = uploaded
    BY <2>2, SummariesOnly
  <2> QED
    BY <2>2, <2>4, <2>5, <2>6 DEF ProcessTurn, CountTurn
<1>8. CASE KeepLocal(key, d, t)
  <2>1. PICK a : a = Loc!AddEvent(localAggregator, key, t)
    OBVIOUS
  <2>2. PICK r : r = Retain(buffer, a.emitted, t)
    OBVIOUS
  <2>3. /\ d.mode = "LOCAL_ONLY"
        /\ alertedScopes' = LiveAlerts(t)
        /\ localAggregator' = a.buckets
        /\ Route({})
        /\ Settle(r.buffer, r.evicted, t)
        /\ retained' = r.kept
        /\ UNCHANGED aggregator
    BY <1>8, <2>1, <2>2 DEF KeepLocal
  <2>4. Collects(a.buckets, Keys) /\ a.emitted \in Seq(Buckets(Keys))
    <3>1. PICK l : l = localAggregator
      OBVIOUS
    <3>2. Collects(l, Keys) /\ a = Agg!AddEvent(l, key, t)
      BY <2>1, <3>1, SameLocalAdd DEF RouterInv
    <3> QED
      BY <1>1, <1>3, <3>1, <3>2, AddCollects
  <2>5. \E N, lost : SummariesKept(N, lost)
    <3>1. \A x \in Buckets(Keys) : x.key[1] \in Scopes
      BY KeyScopes DEF Buckets
    <3> QED
      BY <1>1, <1>4, <2>2, <2>3, <2>4, <3>1, LocalTurn DEF SummariesKept
  <2>6. routed' = {} /\ uploaded' = uploaded
    BY <2>3, NoEvents
  <2> QED
    BY <2>3, <2>4, <2>5, <2>6 DEF ProcessTurn, LocalOnlyTurn
<1> QED
  BY <1>2, <1>5, <1>6, <1>7, <1>8

LEMMA FlushTurns ==
  ASSUME RouterInv, NEW t \in Int, NEW force \in BOOLEAN, Flush(t, force)
  PROVE  \E N, lost, L : FlushTurn(t, force, N, lost, L)
<1>1. PICK f : f = Agg!Flush(aggregator, t, force)
  OBVIOUS
<1>2. PICK l : l = Loc!Flush(localAggregator, t, force)
  OBVIOUS
<1>3. PICK m : m = IF force THEN <<>> ELSE l.emitted
  OBVIOUS
<1>4. PICK r : r = Retain(buffer, m, t)
  OBVIOUS
<1>5. /\ alertedScopes' = LiveAlerts(t)
      /\ aggregator' = f.buckets
      /\ localAggregator' = l.buckets
      /\ Route(Summaries(f.emitted))
      /\ Settle(r.buffer, r.evicted, t)
      /\ retained' = r.kept
      /\ UNCHANGED received
  BY <1>1, <1>2, <1>3, <1>4 DEF Flush
<1>6. PICK a : a = aggregator
  OBVIOUS
<1>7. PICK L : L = Agg!Leaving(a, t, force)
  OBVIOUS
<1>8. /\ Collects(f.buckets, AggregatedKeys)
      /\ ToSet(f.buckets) = ToSet(a) \ L /\ ToSet(f.emitted) = L
      /\ L \subseteq ToSet(a) /\ (force => L = ToSet(a))
  <2>1. Collects(a, AggregatedKeys) /\ f = Agg!Flush(a, t, force)
    BY <1>1, <1>6 DEF RouterInv
  <2> QED
    BY <1>7, <2>1, FlushCollects
<1>9. Collects(l.buckets, Keys) /\ l.emitted \in Seq(Buckets(Keys))
  <2>1. PICK b : b = localAggregator
    OBVIOUS
  <2>2. Collects(b, Keys) /\ l = Loc!Flush(b, t, force)
    BY <1>2, <2>1 DEF RouterInv
  <2>3. l = Agg!Flush(b, t, force)
    BY <2>2, FlushSame
  <2> QED
    BY <2>2, <2>3, FlushCollects
<1>10. m \in Seq(Buckets(Keys))
  BY <1>3, <1>9
<1>11. PICK N, lost : SummariesKept(N, lost)
  <2>1. \A x \in Buckets(Keys) : x.key[1] \in Scopes
    BY KeyScopes DEF Buckets
  <2>2. HeldInv /\ received \in Seq([mode : Modes, key : Keys])
    BY DEF RouterInv
  <2> QED
    BY <1>4, <1>5, <1>10, <2>1, <2>2, LocalTurn DEF SummariesKept
<1>12. routed' = Summaries(f.emitted) /\ uploaded' = uploaded
  BY <1>5, SummariesOnly
<1>13. FlushTurn(t, force, N, lost, L)
  BY <1>5, <1>6, <1>8, <1>9, <1>11, <1>12 DEF FlushTurn
<1> QED
  BY <1>13

-----------------------------------------------------------------------------
\* Custody.

\* A Turn in terms of identities.
LEMMA TurnIds ==
  ASSUME NEW G, NEW P, NEW lost, Turn(G, P, lost)
  PROVE  /\ BufferedIds' \union Ids(lost) = (BufferedIds \union Ids(G)) \ Ids(P)
         /\ BufferedIds' \intersect Ids(lost) = {}
         /\ evicted' = evicted \union Ids(lost)
         /\ BufferedIds = Ids(HeldIn(buffer))
<1>1. PICK B, C : B = HeldIn(buffer) /\ C = HeldIn(buffer')
  OBVIOUS
<1>2. /\ C \union lost = (B \union G) \ P
      /\ C \intersect lost = {}
      /\ \A x, y \in B \union G : x.id = y.id => x = y
      /\ P \subseteq B
  BY <1>1 DEF Turn, DistinctIds, Waiting
<1>3. BufferedIds = Ids(B) /\ BufferedIds' = Ids(C)
  BY <1>1 DEF BufferedIds, HeldIn
<1>4. Ids(C) \union Ids(lost) = Ids(C \union lost)
  BY DEF Ids
<1>5. Ids((B \union G) \ P) = (Ids(B) \union Ids(G)) \ Ids(P)
  <2>1. ASSUME NEW x \in Ids((B \union G) \ P) PROVE x \in (Ids(B) \union Ids(G)) \ Ids(P)
    <3>1. PICK e \in (B \union G) \ P : x = e.id
      BY DEF Ids
    <3>2. x \notin Ids(P)
      BY <1>2, <3>1 DEF Ids
    <3> QED
      BY <3>1, <3>2 DEF Ids
  <2>2. ASSUME NEW x \in (Ids(B) \union Ids(G)) \ Ids(P) PROVE x \in Ids((B \union G) \ P)
    BY DEF Ids
  <2> QED
    BY <2>1, <2>2
<1>6. Ids(C) \intersect Ids(lost) = {}
  BY <1>2 DEF Ids
<1>7. evicted' = evicted \union Ids(lost)
  BY DEF Turn
<1>8. Ids(C) \union Ids(lost) = (Ids(B) \union Ids(G)) \ Ids(P)
  BY <1>2, <1>4, <1>5
<1> QED
  BY <1>1, <1>3, <1>6, <1>7, <1>8

\* Custody is kept, as an identity on sets of identities: A, S, W are the context
\* events, the summaries and the events sent at once so far, B, V, U those held,
\* evicted and uploaded; of the newcomers a, s, w, g enter the buffer and n goes
\* out; p is promoted.
LEMMA CustodyAlgebra ==
  ASSUME NEW A, NEW S, NEW W, NEW B, NEW V, NEW U,
         A \union S = B \union V \union (U \ W),
         B \intersect (V \union U) = {}, V \intersect U = {},
         U \subseteq W \union A, A \intersect W = {}, S \intersect W = {},
         NEW a, NEW s, NEW w, NEW g, NEW n, NEW p,
         (a \union s \union w) \intersect (A \union S \union W) = {},
         a \intersect w = {}, s \intersect w = {}, g \union n = a \union s \union w, g \intersect n = {}, w \subseteq n,
         p \subseteq B \intersect A,
         NEW b, NEW v, b \union v = (B \union g) \ p, b \intersect v = {}
  PROVE  /\ (A \union a) \union (S \union s) =
              b \union (V \union v) \union ((U \union p \union n) \ (W \union w))
         /\ b \intersect ((V \union v) \union (U \union p \union n)) = {}
         /\ (V \union v) \intersect (U \union p \union n) = {}
<1>1. ASSUME NEW x
      PROVE  x \in (A \union a) \union (S \union s) <=>
                x \in b \union (V \union v) \union ((U \union p \union n) \ (W \union w))
  OBVIOUS
<1>2. ASSUME NEW x \in b PROVE x \notin (V \union v) \union (U \union p \union n)
  OBVIOUS
<1>3. ASSUME NEW x \in V \union v PROVE x \notin U \union p \union n
  OBVIOUS
<1> QED
  BY <1>1, <1>2, <1>3

\* A new event joins the events of its mode; events of two modes, and summaries,
\* are apart.
LEMMA ModesGrow ==
  ASSUME NEW T, received \in Seq(T), NEW m, NEW key,
         received' = Append(received, [mode |-> m, key |-> key]),
         NEW id, id = <<"event", Len(received) + 1>>, NEW x
  PROVE  /\ OfMode(x)' = OfMode(x) \union (IF x = m THEN {id} ELSE {})
         /\ id \notin OfMode(x)
<1> DEFINE n == Len(received)
           J == {j \in 1..n : received[j].mode = x}
           K == {j \in 1..(n + 1) : received'[j].mode = x}
<1>1. n \in Nat /\ DOMAIN received = 1..n /\ DOMAIN received' = 1..(n + 1)
  OBVIOUS
<1>2. /\ \A j \in 1..n : received'[j] = received[j]
      /\ received'[n + 1].mode = m
  OBVIOUS
<1>3. OfMode(x) = {<<"event", i>> : i \in J} /\ OfMode(x)' = {<<"event", i>> : i \in K}
  BY <1>1 DEF OfMode
<1>4. \A j : j \in K <=> j \in J \/ (j = n + 1 /\ x = m)
  <2>1. \A j : j \in 1..(n + 1) <=> j \in 1..n \/ j = n + 1
    BY <1>1
  <2> QED
    BY <1>2, <2>1
<1>5. n + 1 \notin J
  BY <1>1
<1> HIDE DEF J, K, n
<1> QED
  BY <1>3, <1>4, <1>5 DEF n

LEMMA Kinds ==
  ASSUME NEW T, received \in Seq(T), NEW x, NEW y, x # y, NEW a, NEW b
  PROVE  /\ OfMode(x) \intersect OfMode(y) = {}
         /\ OfMode(x) \intersect SummaryIds(a, b) = {}
         /\ OfMode(x) \subseteq {"event"} \X Nat
<1>1. \A i, j \in DOMAIN received : <<"event", i>> = <<"event", j>> => i = j
  OBVIOUS
<1>2. OfMode(x) \intersect OfMode(y) = {}
  BY <1>1 DEF OfMode
<1>3. \A i, j : <<"event", i>> # <<"summary", j>>
  OBVIOUS
<1>4. OfMode(x) \intersect SummaryIds(a, b) = {}
  BY <1>3 DEF OfMode, SummaryIds
<1>5. DOMAIN received \subseteq Nat
  OBVIOUS
<1>6. OfMode(x) \subseteq {"event"} \X Nat
  BY <1>5 DEF OfMode
<1> QED
  BY <1>2, <1>4, <1>6

LEMMA SummariesGrow ==
  ASSUME NEW m \in Nat, NEW n \in Nat, n >= m
  PROVE  /\ SummaryIds(0, n) = SummaryIds(0, m) \union SummaryIds(m, n)
         /\ SummaryIds(0, m) \intersect SummaryIds(m, n) = {}
         /\ SummaryIds(m, m) = {}
         /\ SummaryIds(m, n) \intersect ({"event"} \X Nat) = {}
         /\ SummaryIds(0, m) \intersect ({"event"} \X Nat) = {}
<1>1. \A i : i \in (0 + 1)..n <=> i \in (0 + 1)..m \/ i \in (m + 1)..n
  OBVIOUS
<1>2. \A i : ~(i \in (0 + 1)..m /\ i \in (m + 1)..n) /\ i \notin (m + 1)..m
  OBVIOUS
<1>3. \A i, j : <<"summary", i>> = <<"summary", j>> => i = j
  OBVIOUS
<1>4. \A i, x : <<"summary", i>> \notin {"event"} \X Nat
  OBVIOUS
<1> QED
  BY <1>1, <1>2, <1>3, <1>4 DEF SummaryIds

\* A call takes the entries G in, promotes P, evicts `lost`; a and w are the new
\* events of the modes ON_ALERT and ALWAYS, n those it routes at once.
CallMoves(G, P, lost, a, w, n) ==
  /\ Turn(G, P, lost)
  /\ retained' \in Nat /\ retained' >= retained
  /\ OfMode("ON_ALERT")' = OfMode("ON_ALERT") \union a
  /\ OfMode("ALWAYS")' = OfMode("ALWAYS") \union w
  /\ (a \union w) \intersect (OfMode("ON_ALERT") \union OfMode("ALWAYS")) = {}
  /\ a \union w \subseteq {"event"} \X Nat
  /\ Ids(G) \union n = a \union SummaryIds(retained, retained') \union w
  /\ a \intersect w = {} /\ Ids(G) \intersect n = {}
  /\ w \subseteq n /\ n \subseteq a \union w
  /\ uploaded' = uploaded \union Ids(P) \union n
  /\ \A c \in G : IF c.promotable THEN c.id \in a ELSE c.id \in SummaryIds(retained, retained')

\* The state of the buffer and of custody after a call.
LEMMA CallCustody ==
  ASSUME RouterInv, NEW G, NEW P, NEW lost, NEW a, NEW w, NEW n, CallMoves(G, P, lost, a, w, n)
  PROVE  HeldInv' /\ BufferCustody' /\ uploaded' \subseteq OfMode("ALWAYS")' \union OfMode("ON_ALERT")'
<1> DEFINE A == OfMode("ON_ALERT")
           W == OfMode("ALWAYS")
           S == SummaryIds(0, retained)
           s == SummaryIds(retained, retained')
<1>moves. /\ Turn(G, P, lost)
         /\ retained' \in Nat /\ retained' >= retained
         /\ OfMode("ON_ALERT")' = OfMode("ON_ALERT") \union a
         /\ OfMode("ALWAYS")' = OfMode("ALWAYS") \union w
         /\ (a \union w) \intersect (OfMode("ON_ALERT") \union OfMode("ALWAYS")) = {}
         /\ a \union w \subseteq {"event"} \X Nat
         /\ Ids(G) \union n = a \union SummaryIds(retained, retained') \union w
         /\ a \intersect w = {} /\ Ids(G) \intersect n = {}
         /\ w \subseteq n /\ n \subseteq a \union w
         /\ uploaded' = uploaded \union Ids(P) \union n
         /\ \A c \in G : IF c.promotable THEN c.id \in a
                                          ELSE c.id \in SummaryIds(retained, retained')
  BY DEF CallMoves
<1> USE <1>moves
<1>0. /\ HeldInv /\ retained \in Nat /\ received \in Seq([mode : Modes, key : Keys])
      /\ uploaded \subseteq W \union A
  BY DEF RouterInv, HeldInv
<1>1. A \intersect W = {} /\ S \intersect W = {} /\ A \subseteq {"event"} \X Nat /\ W \subseteq {"event"} \X Nat
  BY <1>0, Kinds
<1>2. /\ SummaryIds(0, retained') = S \union s
      /\ S \intersect s = {} /\ s \intersect ({"event"} \X Nat) = {} /\ S \intersect ({"event"} \X Nat) = {}
  <2>1. PICK i, j \in Nat : i = retained /\ j = retained'
    BY <1>0
  <2> QED
    BY <2>1, SummariesGrow
<1>3. /\ A \union S = BufferedIds \union evicted \union (uploaded \ W)
      /\ BufferedIds \intersect (evicted \union uploaded) = {}
      /\ evicted \intersect uploaded = {}
  <2>1. {<<"summary", i>> : i \in 1..retained} = S
    BY DEF SummaryIds
  <2> QED
    BY <2>1 DEF RouterInv, BufferCustody
<1>4. /\ BufferedIds' \union Ids(lost) = (BufferedIds \union Ids(G)) \ Ids(P)
      /\ BufferedIds' \intersect Ids(lost) = {}
      /\ evicted' = evicted \union Ids(lost)
      /\ BufferedIds = Ids(HeldIn(buffer))
  BY TurnIds
<1>5. Ids(P) \subseteq BufferedIds \intersect A
  <2>1. \A c \in P : c \in HeldIn(buffer) /\ c.id \in A
    BY <1>0 DEF Turn, Waiting, HeldInv
  <2> QED
    BY <1>4, <2>1 DEF Ids
<1>6. (a \union s \union w) \intersect (A \union S \union W) = {} /\ s \intersect w = {}
  BY <1>1, <1>2
<1>7. /\ (A \union a) \union (S \union s) =
            BufferedIds' \union (evicted \union Ids(lost))
              \union ((uploaded \union Ids(P) \union n) \ (W \union w))
      /\ BufferedIds' \intersect ((evicted \union Ids(lost)) \union (uploaded \union Ids(P) \union n)) = {}
      /\ (evicted \union Ids(lost)) \intersect (uploaded \union Ids(P) \union n) = {}
  <2>1. PICK g, p, b, v : g = Ids(G) /\ p = Ids(P) /\ b = BufferedIds' /\ v = Ids(lost)
    OBVIOUS
  <2>2. PICK B, V, U : B = BufferedIds /\ V = evicted /\ U = uploaded
    OBVIOUS
  <2>3. PICK AA, SS, WW, ss : AA = A /\ SS = S /\ WW = W /\ ss = s
    OBVIOUS
  <2> HIDE DEF A, S, W, s
  <2>4. /\ AA \union SS = B \union V \union (U \ WW)
        /\ B \intersect (V \union U) = {} /\ V \intersect U = {}
        /\ U \subseteq WW \union AA /\ AA \intersect WW = {} /\ SS \intersect WW = {}
    BY <1>0, <1>1, <1>3, <2>2, <2>3
  <2>5. /\ (a \union ss \union w) \intersect (AA \union SS \union WW) = {}
        /\ a \intersect w = {} /\ ss \intersect w = {} /\ g \union n = a \union ss \union w
        /\ g \intersect n = {} /\ w \subseteq n
    BY <1>6, <2>1, <2>3 DEF s
  <2>6. p \subseteq B \intersect AA /\ b \union v = (B \union g) \ p /\ b \intersect v = {}
    BY <1>4, <1>5, <2>1, <2>2, <2>3
  <2>7. /\ (AA \union a) \union (SS \union ss) =
              b \union (V \union v) \union ((U \union p \union n) \ (WW \union w))
        /\ b \intersect ((V \union v) \union (U \union p \union n)) = {}
        /\ (V \union v) \intersect (U \union p \union n) = {}
    BY ONLY <2>4, <2>5, <2>6, CustodyAlgebra
  <2> QED
    BY <2>1, <2>2, <2>3, <2>7
<1>8. BufferCustody'
  <2>1. {<<"summary", i>> : i \in 1..retained'} = SummaryIds(0, retained')
    BY DEF SummaryIds
  <2>2. OfMode("ON_ALERT")' \union SummaryIds(0, retained') =
          BufferedIds' \union evicted' \union (uploaded' \ OfMode("ALWAYS")')
    BY <1>2, <1>4, <1>7
  <2>3. BufferedIds' \intersect (evicted' \union uploaded') = {} /\ evicted' \intersect uploaded' = {}
    BY <1>4, <1>7
  <2> QED
    BY <2>1, <2>2, <2>3 DEF BufferCustody
<1>9. uploaded' \subseteq OfMode("ALWAYS")' \union OfMode("ON_ALERT")'
  BY <1>0, <1>5
<1>10. HeldInv'
  <2>1. InStep(buffer') /\ HeldIn(buffer') \subseteq HeldIn(buffer) \union G
        /\ DistinctIds(HeldIn(buffer) \union G)
    BY DEF Turn
  <2>2. DistinctIds(HeldIn(buffer'))
    BY <2>1 DEF DistinctIds
  <2>3. ASSUME NEW c \in HeldIn(buffer')
        PROVE  IF c.promotable THEN c.id \in OfMode("ON_ALERT")' ELSE c.id \in SummaryIds(0, retained')
    <3>1. CASE c \in G
      BY <1>2, <3>1
    <3>2. CASE c \in HeldIn(buffer)
      BY <1>0, <1>2, <3>2 DEF HeldInv
    <3> QED
      BY <2>1, <3>1, <3>2
  <2>4. HeldIn(buffer)' = HeldIn(buffer')
    BY DEF HeldIn
  <2> QED
    BY <2>1, <2>2, <2>3, <2>4 DEF HeldInv, InStep, HeldIn
<1> QED
  BY <1>8, <1>9, <1>10

\* Unless a call starts an alert, alerts only end, and context held stays unalerted.
LEMMA AlertsKept ==
  ASSUME RouterInv, NEW G, NEW P, NEW lost, Turn(G, P, lost), NEW t \in Int,
         alertedScopes' = LiveAlerts(t),
         \A c \in G : c.promotable => LiveAlerts(t)[c.scope] = NotAlerted
  PROVE  AlertedScopeHoldsNoContext' /\ alertedScopes' \in [Scopes -> Int]
<1>1. alertedScopes \in [Scopes -> Int] /\ NotAlerted \in Int
  BY RouterAssumption DEF RouterInv, NotAlerted
<1>2. /\ HeldIn(buffer') \subseteq HeldIn(buffer) \union G
      /\ InStep(buffer) /\ G \subseteq RouterEntries
  BY DEF Turn, RouterInv, HeldInv
<1>3. HeldIn(buffer) \subseteq RouterEntries
  BY <1>2, HeldType
<1>4. ASSUME NEW c \in HeldIn(buffer'), c.promotable
      PROVE  LiveAlerts(t)[c.scope] = NotAlerted
  <2>1. c.scope \in Scopes
    BY <1>2, <1>3 DEF RouterEntries
  <2>2. CASE c \in HeldIn(buffer)
    <3>1. alertedScopes[c.scope] = NotAlerted
      BY <1>4, <2>2 DEF RouterInv, AlertedScopeHoldsNoContext, HeldIn
    <3> QED
      BY <2>1, <3>1 DEF LiveAlerts
  <2> QED
    BY <1>2, <1>4, <2>2
<1>5. AlertedScopeHoldsNoContext'
  BY <1>4 DEF AlertedScopeHoldsNoContext, HeldIn
<1> QED
  BY <1>1, <1>5 DEF LiveAlerts

\* Items of context, uploads and aggregates are nothing local.
LEMMA NothingLocal ==
  ASSUME NEW T, received' \in Seq(T),
         \A i \in routed' : i.id \in OfMode("ON_ALERT")' \union OfMode("ALWAYS")' \/ i.id[1] = "aggregate"
  PROVE  LocalOnlyStaysLocal'
<1>1. \A m : \A x \in OfMode(m)' : \E j : x = <<"event", j>> /\ received'[j].mode = m
  BY DEF OfMode
<1>2. \A m : \A x \in OfMode(m)' : x[1] = "event" /\ received'[x[2]].mode = m
  BY <1>1
<1>3. ASSUME NEW i \in routed' PROVE i.id[1] # "summary" /\ i.id \notin OfMode("LOCAL_ONLY")'
  BY <1>2
<1> QED
  BY <1>3 DEF LocalOnlyStaysLocal

\* What a new event does to the events of the modes.
Enters(d, id, key) ==
  /\ received' = Append(received, [mode |-> d.mode, key |-> key])
  /\ received' \in Seq([mode : Modes, key : Keys])
  /\ OfMode(d.mode)' = OfMode(d.mode) \union {id}
  /\ \A x : x # d.mode => OfMode(x)' = OfMode(x)
  /\ \A x : id \notin OfMode(x)
  /\ id \in {"event"} \X Nat /\ id[1] = "event"

LEMMA ModesOf ==
  ASSUME RouterInv, NEW e \in Templates, Process(e),
         NEW d, d = Decide(e), NEW id, id = <<"event", Len(received) + 1>>,
         NEW key, key = <<e.scope, e.type>>
  PROVE  Enters(d, id, key)
<1>1. received \in Seq([mode : Modes, key : Keys]) /\ d.mode \in Modes /\ key \in Keys
  BY DecideFacts DEF RouterInv
<1>2. received' = Append(received, [mode |-> d.mode, key |-> key])
  BY DEF Process
<1>3. id \in {"event"} \X Nat /\ id[1] = "event"
  <2>1. Len(received) + 1 \in Nat
    BY <1>1
  <2> QED
    BY <2>1
<1>4. PICK m : m = d.mode
  OBVIOUS
<1>5. \A x : OfMode(x)' = OfMode(x) \union (IF x = m THEN {id} ELSE {}) /\ id \notin OfMode(x)
  BY <1>1, <1>2, <1>4, ModesGrow
<1>6. /\ OfMode(d.mode)' = OfMode(d.mode) \union {id}
      /\ \A x : x # d.mode => OfMode(x)' = OfMode(x)
  <2>1. OfMode(m)' = OfMode(m) \union {id}
    BY <1>5
  <2>2. \A x : x # m => OfMode(x)' = OfMode(x) \union {}
    BY <1>5
  <2> QED
    BY <1>4, <2>1, <2>2
<1>7. received' \in Seq([mode : Modes, key : Keys])
  <2>1. [mode |-> d.mode, key |-> key] \in [mode : Modes, key : Keys]
    BY <1>1
  <2>2. PICK new \in [mode : Modes, key : Keys] : new = [mode |-> d.mode, key |-> key]
    BY <2>1
  <2>3. received' = Append(received, new)
    BY <1>2, <2>2, Zenon
  <2> QED
    BY <1>1, <2>3
<1>8. \A x : id \notin OfMode(x)
  BY <1>5
<1> QED
  BY <1>2, <1>3, <1>6, <1>7, <1>8, Zenon DEF Enters

\* An aggregated event is there for each of the buckets.
LEMMA BucketsBacked ==
  ASSUME RouterInv, received' \in Seq([mode : Modes, key : Keys]),
         NEW new, received' = received \/ received' = Append(received, new),
         \A b \in ToSet(aggregator') :
            \/ \E c \in ToSet(aggregator) : c.key = b.key
            \/ received' = Append(received, [mode |-> "AGGREGATE", key |-> b.key])
  PROVE  \A b \in ToSet(aggregator') :
           \E i \in 1..Len(received') : received'[i] = [mode |-> "AGGREGATE", key |-> b.key]
<1> SUFFICES ASSUME NEW b \in ToSet(aggregator')
             PROVE  \E i \in 1..Len(received') : received'[i] = [mode |-> "AGGREGATE", key |-> b.key]
  OBVIOUS
<1>0. received \in Seq([mode : Modes, key : Keys]) /\ Len(received) \in Nat
  BY DEF RouterInv
<1>1. CASE received' = Append(received, [mode |-> "AGGREGATE", key |-> b.key])
  <2>1. PICK x : x = [mode |-> "AGGREGATE", key |-> b.key]
    OBVIOUS
  <2>2. Len(received) + 1 \in 1..Len(received') /\ received'[Len(received) + 1] = x
    BY <1>0, <1>1, <2>1
  <2> QED
    BY <2>1, <2>2
<1>2. CASE \E c \in ToSet(aggregator) : c.key = b.key
  <2>1. PICK x : x = [mode |-> "AGGREGATE", key |-> b.key]
    OBVIOUS
  <2>2. PICK i \in 1..Len(received) : received[i] = x
    BY <1>2, <2>1 DEF RouterInv
  <2>3. i \in 1..Len(received') /\ received'[i] = x
    BY <1>0, <2>2
  <2> QED
    BY <2>1, <2>3
<1> QED
  BY <1>1, <1>2

LEMMA NoSummaries ==
  ASSUME RouterInv, retained' = retained
  PROVE  /\ retained' \in Nat /\ retained' >= retained
         /\ SummaryIds(retained, retained') = {} /\ Ids({}) = {}
<1>1. retained \in Nat
  BY DEF RouterInv, HeldInv
<1> QED
  BY <1>1, SummariesGrow DEF Ids

\* What every call keeps.
Kept ==
  /\ received' \in Seq([mode : Modes, key : Keys])
  /\ alertedScopes' \in [Scopes -> Int]
  /\ HeldInv' /\ BufferCustody'
  /\ uploaded' \subseteq OfMode("ALWAYS")' \union OfMode("ON_ALERT")'
  /\ AlertedScopeHoldsNoContext'
  /\ LocalOnlyStaysLocal'

\* The cases of Process, one by one.
LEMMA UploadKeeps ==
  ASSUME RouterInv, NEW e \in Templates, Process(e),
         NEW d, d = Decide(e), NEW id, id = <<"event", Len(received) + 1>>,
         d.mode = "ALWAYS", NEW t \in Int,
         NEW P, NEW lost, UploadTurn(id, e.scope, e.hit, t, P, lost)
  PROVE  Kept
<1>1. PICK key : key = <<e.scope, e.type>>
  OBVIOUS
<1>2. /\ received' \in Seq([mode : Modes, key : Keys])
      /\ OfMode("ON_ALERT")' = OfMode("ON_ALERT") \union {}
      /\ OfMode("ALWAYS")' = OfMode("ALWAYS") \union {id}
      /\ id \notin OfMode("ON_ALERT") \union OfMode("ALWAYS")
      /\ id \in {"event"} \X Nat
  <2>1. /\ received' \in Seq([mode : Modes, key : Keys])
        /\ OfMode(d.mode)' = OfMode(d.mode) \union {id}
        /\ \A x : x # d.mode => OfMode(x)' = OfMode(x)
        /\ \A x : id \notin OfMode(x)
        /\ id \in {"event"} \X Nat
    <3>1. Enters(d, id, key)
      BY <1>1, ModesOf
    <3> QED
      BY <3>1 DEF Enters
  <2> QED
    BY <2>1
<1>3. retained' = retained /\ Turn({}, P, lost) /\ uploaded' = uploaded \union Ids(P) \union {id}
  BY DEF UploadTurn
<1>4. /\ HeldInv' /\ BufferCustody'
      /\ uploaded' \subseteq OfMode("ALWAYS")' \union OfMode("ON_ALERT")'
  <2>1. PICK G, a, w : G = {} /\ a = {} /\ w = {id}
    OBVIOUS
  <2>2. /\ Turn(G, P, lost)
        /\ OfMode("ON_ALERT")' = OfMode("ON_ALERT") \union a
        /\ OfMode("ALWAYS")' = OfMode("ALWAYS") \union w
        /\ uploaded' = uploaded \union Ids(P) \union w
    BY <1>2, <1>3, <2>1
  <2>3. /\ (a \union w) \intersect (OfMode("ON_ALERT") \union OfMode("ALWAYS")) = {}
        /\ a \union w \subseteq {"event"} \X Nat
        /\ w \subseteq w /\ w \subseteq a \union w /\ a \intersect w = {}
    BY <1>2, <2>1
  <2>4. /\ Ids(G) \union w = a \union SummaryIds(retained, retained') \union w
        /\ Ids(G) \intersect w = {}
        /\ \A c \in G : IF c.promotable THEN c.id \in a ELSE c.id \in SummaryIds(retained, retained')
    BY <1>3, <2>1, NoSummaries
  <2>5. retained' \in Nat /\ retained' >= retained
    BY <1>3, NoSummaries
  <2>6. CallMoves(G, P, lost, a, w, w)
    BY <2>2, <2>3, <2>4, <2>5 DEF CallMoves
  <2> QED
    BY <2>6, CallCustody
<1>5. e.scope \in Scopes /\ e.hit \in BOOLEAN
  BY DecideFacts
<1>6. AlertedScopeHoldsNoContext' /\ alertedScopes' \in [Scopes -> Int]
  <2>1. CASE ~ e.hit
    <3>1. alertedScopes' = LiveAlerts(t)
      BY <2>1 DEF UploadTurn
    <3>2. PICK G : G = {}
      OBVIOUS
    <3>3. Turn(G, P, lost) /\ \A c \in G : c.promotable => LiveAlerts(t)[c.scope] = NotAlerted
      BY <1>3, <3>2
    <3> QED
      BY <3>1, <3>3, AlertsKept
  <2>2. CASE e.hit
    <3>1. PICK s \in Scopes : s = e.scope
      BY <1>5
    <3>2. /\ alertedScopes' = [LiveAlerts(t) EXCEPT ![s] = t + PostAlertWindow]
          /\ \A c \in HeldIn(buffer) : c.scope = s /\ c.promotable => c \in P \/ c \in lost
      BY <2>2, <3>1 DEF UploadTurn
    <3>3. alertedScopes \in [Scopes -> Int] /\ NotAlerted \in Int /\ t + PostAlertWindow \in Int
      BY RouterAssumption DEF RouterInv, NotAlerted
    <3>4. alertedScopes' \in [Scopes -> Int]
      BY <3>2, <3>3 DEF LiveAlerts
    <3>5. /\ HeldIn(buffer') \subseteq HeldIn(buffer) \ P /\ HeldIn(buffer') \intersect lost = {}
      BY <1>3 DEF Turn
    <3>6. HeldIn(buffer) \subseteq RouterEntries
      BY HeldType DEF RouterInv, HeldInv
    <3>7. ASSUME NEW c \in HeldIn(buffer'), c.promotable
          PROVE  alertedScopes'[c.scope] = NotAlerted
      <4>1. c \in HeldIn(buffer) /\ c.scope \in Scopes
        BY <3>5, <3>6 DEF RouterEntries
      <4>2. c.scope # s
        BY <3>2, <3>5, <3>7, <4>1
      <4>3. alertedScopes[c.scope] = NotAlerted
        BY <3>7, <4>1 DEF RouterInv, AlertedScopeHoldsNoContext, HeldIn
      <4> QED
        BY <3>2, <4>1, <4>2, <4>3 DEF LiveAlerts
    <3> QED
      BY <3>4, <3>7 DEF AlertedScopeHoldsNoContext, HeldIn
  <2> QED
    BY <1>5, <2>1, <2>2
<1>7. LocalOnlyStaysLocal'
  <2>1. Ids(routed') = Ids(P) \union {id}
    <3>1. PICK new : new = Single(id, "high", e.hit)
      OBVIOUS
    <3>2. new.id = id
      BY <3>1 DEF Single, Item
    <3>3. routed' = Promoted(P) \union {new}
      BY <3>1 DEF UploadTurn
    <3>4. Ids(routed') = Ids(Promoted(P)) \union {new.id}
      BY <3>3 DEF Ids
    <3> QED
      BY <3>2, <3>4, PromotedIds
  <2>2. Ids(P) \subseteq OfMode("ON_ALERT")
    <3>1. \A c \in P : c.id \in OfMode("ON_ALERT")
      BY <1>3 DEF Turn, Waiting, RouterInv, HeldInv
    <3> QED
      BY <3>1 DEF Ids
  <2>3. \A i \in routed' : i.id \in Ids(routed')
    BY DEF Ids
  <2> QED
    BY <1>2, <2>1, <2>2, <2>3, NothingLocal
<1> QED
  BY <1>2, <1>4, <1>6, <1>7 DEF Kept

LEMMA FollowKeeps ==
  ASSUME RouterInv, NEW e \in Templates, Process(e),
         NEW d, d = Decide(e), NEW id, id = <<"event", Len(received) + 1>>,
         d.mode = "ON_ALERT", NEW t \in Int, NEW lost, FollowTurn(id, t, lost)
  PROVE  Kept
<1>1. PICK key : key = <<e.scope, e.type>>
  OBVIOUS
<1>2. /\ received' \in Seq([mode : Modes, key : Keys])
      /\ OfMode("ON_ALERT")' = OfMode("ON_ALERT") \union {id}
      /\ OfMode("ALWAYS")' = OfMode("ALWAYS") \union {}
      /\ id \notin OfMode("ON_ALERT") \union OfMode("ALWAYS")
      /\ id \in {"event"} \X Nat
  <2>1. /\ received' \in Seq([mode : Modes, key : Keys])
        /\ OfMode(d.mode)' = OfMode(d.mode) \union {id}
        /\ \A x : x # d.mode => OfMode(x)' = OfMode(x)
        /\ \A x : id \notin OfMode(x)
        /\ id \in {"event"} \X Nat
    <3>1. Enters(d, id, key)
      BY <1>1, ModesOf
    <3> QED
      BY <3>1 DEF Enters
  <2> QED
    BY <2>1
<1>3. PICK G, P, a, w : G = {} /\ P = {} /\ a = {id} /\ w = {}
  OBVIOUS
<1>4. /\ retained' = retained /\ Turn(G, P, lost) /\ uploaded' = uploaded \union {id}
      /\ alertedScopes' = LiveAlerts(t) /\ routed' = {Single(id, "high", FALSE)}
  BY <1>3 DEF FollowTurn
<1>5. /\ HeldInv' /\ BufferCustody'
      /\ uploaded' \subseteq OfMode("ALWAYS")' \union OfMode("ON_ALERT")'
  <2>1. /\ OfMode("ON_ALERT")' = OfMode("ON_ALERT") \union a
        /\ OfMode("ALWAYS")' = OfMode("ALWAYS") \union w
        /\ uploaded' = uploaded \union Ids(P) \union a
    BY <1>2, <1>3, <1>4, NoSummaries
  <2>2. /\ (a \union w) \intersect (OfMode("ON_ALERT") \union OfMode("ALWAYS")) = {}
        /\ a \union w \subseteq {"event"} \X Nat
        /\ w \subseteq a /\ a \subseteq a \union w /\ a \intersect w = {}
    BY <1>2, <1>3
  <2>3. /\ Ids(G) \union a = a \union SummaryIds(retained, retained') \union w
        /\ Ids(G) \intersect a = {}
        /\ \A c \in G : IF c.promotable THEN c.id \in a ELSE c.id \in SummaryIds(retained, retained')
        /\ retained' \in Nat /\ retained' >= retained
    BY <1>3, <1>4, NoSummaries
  <2>4. Turn(G, P, lost)
    BY <1>4
  <2>5. CallMoves(G, P, lost, a, w, a)
    BY <2>1, <2>2, <2>3, <2>4 DEF CallMoves
  <2> QED
    BY <2>5, CallCustody
<1>6. AlertedScopeHoldsNoContext' /\ alertedScopes' \in [Scopes -> Int]
  <2>1. \A c \in G : c.promotable => LiveAlerts(t)[c.scope] = NotAlerted
    BY <1>3
  <2> QED
    BY <1>4, <2>1, AlertsKept
<1>7. LocalOnlyStaysLocal'
  <2>1. \A i \in routed' : i.id = id
    BY <1>4 DEF Single, Item
  <2> QED
    BY <1>2, <2>1, NothingLocal
<1> QED
  BY <1>2, <1>5, <1>6, <1>7 DEF Kept

LEMMA HoldKeeps ==
  ASSUME RouterInv, NEW e \in Templates, Process(e),
         NEW d, d = Decide(e), NEW id, id = <<"event", Len(received) + 1>>,
         d.mode = "ON_ALERT", NEW t \in Int, NEW c, NEW lost, HoldTurn(id, e.scope, t, c, lost)
  PROVE  Kept
<1>1. PICK key : key = <<e.scope, e.type>>
  OBVIOUS
<1>2. /\ received' \in Seq([mode : Modes, key : Keys])
      /\ OfMode("ON_ALERT")' = OfMode("ON_ALERT") \union {id}
      /\ OfMode("ALWAYS")' = OfMode("ALWAYS") \union {}
      /\ id \notin OfMode("ON_ALERT") \union OfMode("ALWAYS")
      /\ id \in {"event"} \X Nat
  <2>1. /\ received' \in Seq([mode : Modes, key : Keys])
        /\ OfMode(d.mode)' = OfMode(d.mode) \union {id}
        /\ \A x : x # d.mode => OfMode(x)' = OfMode(x)
        /\ \A x : id \notin OfMode(x)
        /\ id \in {"event"} \X Nat
    <3>1. Enters(d, id, key)
      BY <1>1, ModesOf
    <3> QED
      BY <3>1 DEF Enters
  <2> QED
    BY <2>1
<1>3. PICK G, P, a, w, n : G = {c} /\ P = {} /\ a = {id} /\ w = {} /\ n = {}
  OBVIOUS
<1>4. /\ retained' = retained /\ Turn(G, P, lost) /\ uploaded' = uploaded
      /\ alertedScopes' = LiveAlerts(t) /\ routed' = {}
      /\ c.id = id /\ c.promotable /\ LiveAlerts(t)[c.scope] = NotAlerted
  BY <1>3 DEF HoldTurn
<1>5. /\ HeldInv' /\ BufferCustody'
      /\ uploaded' \subseteq OfMode("ALWAYS")' \union OfMode("ON_ALERT")'
  <2>0. Ids(G) = {id}
    BY <1>3, <1>4 DEF Ids
  <2>1. /\ OfMode("ON_ALERT")' = OfMode("ON_ALERT") \union a
        /\ OfMode("ALWAYS")' = OfMode("ALWAYS") \union w
        /\ uploaded' = uploaded \union Ids(P) \union n
    BY <1>2, <1>3, <1>4, NoSummaries
  <2>2. /\ (a \union w) \intersect (OfMode("ON_ALERT") \union OfMode("ALWAYS")) = {}
        /\ a \union w \subseteq {"event"} \X Nat
        /\ w \subseteq n /\ n \subseteq a \union w /\ a \intersect w = {}
    BY <1>2, <1>3
  <2>3. /\ Ids(G) \union n = a \union SummaryIds(retained, retained') \union w
        /\ Ids(G) \intersect n = {}
        /\ \A x \in G : IF x.promotable THEN x.id \in a ELSE x.id \in SummaryIds(retained, retained')
        /\ retained' \in Nat /\ retained' >= retained
    BY <1>3, <1>4, <2>0, NoSummaries
  <2>4. Turn(G, P, lost)
    BY <1>4
  <2>5. CallMoves(G, P, lost, a, w, n)
    BY <2>1, <2>2, <2>3, <2>4 DEF CallMoves
  <2> QED
    BY <2>5, CallCustody
<1>6. AlertedScopeHoldsNoContext' /\ alertedScopes' \in [Scopes -> Int]
  <2>1. \A x \in G : x.promotable => LiveAlerts(t)[x.scope] = NotAlerted
    BY <1>3, <1>4
  <2> QED
    BY <1>4, <2>1, AlertsKept
<1>7. LocalOnlyStaysLocal'
  BY <1>2, <1>4, NothingLocal
<1> QED
  BY <1>2, <1>5, <1>6, <1>7 DEF Kept

\* A call that takes summaries N of local activity, or nothing, into the buffer,
\* and routes at most summaries.
LEMMA QuietKeeps ==
  ASSUME RouterInv, NEW N, NEW P, P = {}, NEW lost, Turn(N, P, lost),
         \A c \in N : ~ c.promotable,
         Ids(N) = SummaryIds(retained, retained'),
         retained' \in Nat, retained' >= retained,
         received' \in Seq([mode : Modes, key : Keys]),
         OfMode("ON_ALERT")' = OfMode("ON_ALERT"), OfMode("ALWAYS")' = OfMode("ALWAYS"),
         uploaded' = uploaded, NEW t \in Int, alertedScopes' = LiveAlerts(t),
         \A i \in routed' : i.id[1] = "aggregate"
  PROVE  Kept
<1>1. PICK a, w, n : a = {} /\ w = {} /\ n = {}
  OBVIOUS
<1>2. /\ OfMode("ON_ALERT")' = OfMode("ON_ALERT") \union a
      /\ OfMode("ALWAYS")' = OfMode("ALWAYS") \union w
      /\ (a \union w) \intersect (OfMode("ON_ALERT") \union OfMode("ALWAYS")) = {}
      /\ a \union w \subseteq {"event"} \X Nat
      /\ w \subseteq n /\ n \subseteq a \union w /\ a \intersect w = {}
  BY <1>1
<1>3. /\ Ids(N) \union n = a \union SummaryIds(retained, retained') \union w
      /\ Ids(N) \intersect n = {}
      /\ \A c \in N : IF c.promotable THEN c.id \in a ELSE c.id \in SummaryIds(retained, retained')
      /\ uploaded' = uploaded \union Ids(P) \union n
  BY <1>1 DEF Ids
<1>4. /\ HeldInv' /\ BufferCustody'
      /\ uploaded' \subseteq OfMode("ALWAYS")' \union OfMode("ON_ALERT")'
  <2>1. CallMoves(N, P, lost, a, w, n)
    BY <1>2, <1>3 DEF CallMoves
  <2> QED
    BY <2>1, CallCustody
<1>5. AlertedScopeHoldsNoContext' /\ alertedScopes' \in [Scopes -> Int]
  BY AlertsKept
<1>6. LocalOnlyStaysLocal'
  BY NothingLocal
<1> QED
  BY <1>4, <1>5, <1>6 DEF Kept

-----------------------------------------------------------------------------
\* The inductive invariant and the safety theorems.

\* Every action keeps the invariant.
LEMMA ProcessKeeps ==
  ASSUME RouterInv, NEW e \in Templates, Process(e)
  PROVE  RouterInv'
<1>1. PICK d, id, key, t : d = Decide(e) /\ id = <<"event", Len(received) + 1>>
                           /\ key = <<e.scope, e.type>> /\ t = clock
  OBVIOUS
<1>2. ProcessTurn(e, d, id, key, t)
  BY <1>1, ProcessTurns
<1>3. t \in Int /\ clock' \in Int
  BY <1>1 DEF RouterInv, Process
<1>4. /\ received' = Append(received, [mode |-> d.mode, key |-> key])
      /\ received' \in Seq([mode : Modes, key : Keys])
      /\ OfMode(d.mode)' = OfMode(d.mode) \union {id}
      /\ \A x : x # d.mode => OfMode(x)' = OfMode(x)
  <2>1. Enters(d, id, key)
    BY <1>1, ModesOf
  <2> QED
    BY <2>1 DEF Enters
<1>5. /\ Collects(aggregator, AggregatedKeys) /\ Collects(localAggregator, Keys)
  BY DEF RouterInv
<1>6. SUFFICES ASSUME TRUE
               PROVE  /\ Kept
                      /\ Collects(aggregator', AggregatedKeys) /\ Collects(localAggregator', Keys)
                      /\ \A b \in ToSet(aggregator') :
                           \/ \E c \in ToSet(aggregator) : c.key = b.key
                           \/ received' = Append(received, [mode |-> "AGGREGATE", key |-> b.key])
  <2> SUFFICES ASSUME Kept,
                      Collects(aggregator', AggregatedKeys), Collects(localAggregator', Keys),
                      \A b \in ToSet(aggregator') :
                           \/ \E c \in ToSet(aggregator) : c.key = b.key
                           \/ received' = Append(received, [mode |-> "AGGREGATE", key |-> b.key])
               PROVE  RouterInv'
    OBVIOUS
  <2>1. PICK new : received' = Append(received, new)
    BY <1>4
  <2>2. \A b \in ToSet(aggregator') :
           \E i \in 1..Len(received') : received'[i] = [mode |-> "AGGREGATE", key |-> b.key]
    BY <1>4, <2>1, BucketsBacked
  <2>3. Collects(aggregator, AggregatedKeys)' /\ Collects(localAggregator, Keys)'
    BY DEF Collects, OneEach, AggregatedKeys, Keys, Buckets
  <2>4. (\A b \in ToSet(aggregator) :
           \E i \in 1..Len(received) : received[i] = [mode |-> "AGGREGATE", key |-> b.key])'
    BY <2>2
  <2> QED
    BY <1>3, <2>3, <2>4 DEF RouterInv, Kept, Modes, Keys
<1>7. ASSUME NEW l, l = aggregator PROVE \A b \in ToSet(l) : \E c \in ToSet(aggregator) : c.key = b.key
  BY <1>7
<1>8. CASE /\ d.mode = "ALWAYS"
           /\ \E P, lost : UploadTurn(id, e.scope, e.hit, t, P, lost)
  <2>1. PICK P, lost : UploadTurn(id, e.scope, e.hit, t, P, lost)
    BY <1>8
  <2>2. Kept
    BY <1>1, <1>3, <1>8, <2>1, UploadKeeps
  <2>3. aggregator' = aggregator /\ localAggregator' = localAggregator
    BY <2>1 DEF UploadTurn
  <2> QED
    BY <1>5, <1>7, <2>2, <2>3
<1>9. CASE /\ d.mode = "ON_ALERT"
           /\ \E lost : FollowTurn(id, t, lost)
  <2>1. PICK lost : FollowTurn(id, t, lost)
    BY <1>9
  <2>2. Kept
    BY <1>1, <1>3, <1>9, <2>1, FollowKeeps
  <2>3. aggregator' = aggregator /\ localAggregator' = localAggregator
    BY <2>1 DEF FollowTurn
  <2> QED
    BY <1>5, <1>7, <2>2, <2>3
<1>10. CASE /\ d.mode = "ON_ALERT"
            /\ \E c, lost : HoldTurn(id, e.scope, t, c, lost)
  <2>1. PICK c, lost : HoldTurn(id, e.scope, t, c, lost)
    BY <1>10
  <2>2. Kept
    BY <1>1, <1>3, <1>10, <2>1, HoldKeeps
  <2>3. aggregator' = aggregator /\ localAggregator' = localAggregator
    BY <2>1 DEF HoldTurn
  <2> QED
    BY <1>5, <1>7, <2>2, <2>3
<1>11. CASE /\ d.mode = "AGGREGATE"
            /\ \E lost, r : CountTurn(key, t, lost, r)
  <2>1. PICK lost, r : CountTurn(key, t, lost, r)
    BY <1>11
  <2>2. PICK N : N = {}
    OBVIOUS
  <2>3. /\ Turn(N, N, lost) /\ uploaded' = uploaded /\ alertedScopes' = LiveAlerts(t)
        /\ retained' = retained /\ localAggregator' = localAggregator
        /\ aggregator' = r.buckets /\ Collects(r.buckets, AggregatedKeys)
        /\ routed' = Summaries(r.emitted) /\ AddCase(aggregator, key, t, r)
    BY <2>1, <2>2 DEF CountTurn
  <2>4. /\ \A c \in N : ~ c.promotable
        /\ Ids(N) = SummaryIds(retained, retained')
        /\ retained' \in Nat /\ retained' >= retained
    BY <2>2, <2>3, NoSummaries
  <2>5. OfMode("ON_ALERT")' = OfMode("ON_ALERT") /\ OfMode("ALWAYS")' = OfMode("ALWAYS")
    BY <1>4, <1>11
  <2>6. \A i \in routed' : i.id[1] = "aggregate"
    BY <2>3 DEF Summaries, Item
  <2>7. Kept
    BY <1>3, <1>4, <2>2, <2>3, <2>4, <2>5, <2>6, QuietKeeps
  <2>8. ASSUME NEW b \in ToSet(aggregator')
        PROVE  \/ \E c \in ToSet(aggregator) : c.key = b.key
               \/ received' = Append(received, [mode |-> "AGGREGATE", key |-> b.key])
    <3>1. \A x : Counting(x, t).key = x.key
      BY DEF Counting
    <3>2. Agg!Bucket(key, t).key = key
      BY DEF Agg!Bucket
    <3>3. (\E c \in ToSet(aggregator) : c.key = b.key) \/ b.key = key
      BY <2>3, <3>1, <3>2 DEF AddCase
    <3> QED
      BY <1>4, <1>11, <3>3
  <2> QED
    BY <1>5, <2>3, <2>7, <2>8
<1>12. CASE /\ d.mode = "LOCAL_ONLY"
            /\ \E N, lost : LocalOnlyTurn(t, N, lost)
  <2>1. PICK N, lost : LocalOnlyTurn(t, N, lost)
    BY <1>12
  <2>2. PICK P : P = {}
    OBVIOUS
  <2>3. /\ Turn(N, P, lost) /\ uploaded' = uploaded /\ alertedScopes' = LiveAlerts(t)
        /\ \A c \in N : ~ c.promotable
        /\ Ids(N) = SummaryIds(retained, retained')
        /\ retained' \in Nat /\ retained' >= retained
        /\ aggregator' = aggregator /\ Collects(localAggregator', Keys)
        /\ \A i \in routed' : i.id[1] = "aggregate"
    BY <2>1, <2>2 DEF LocalOnlyTurn, SummariesKept
  <2>4. OfMode("ON_ALERT")' = OfMode("ON_ALERT") /\ OfMode("ALWAYS")' = OfMode("ALWAYS")
    BY <1>4, <1>12
  <2>5. Kept
    BY <1>3, <1>4, <2>2, <2>3, <2>4, QuietKeeps
  <2> QED
    BY <1>5, <1>7, <2>3, <2>5
<1> QED
  BY <1>2, <1>8, <1>9, <1>10, <1>11, <1>12 DEF ProcessTurn

LEMMA FlushKeeps ==
  ASSUME RouterInv, NEW t \in Int, NEW force \in BOOLEAN, Flush(t, force)
  PROVE  RouterInv'
<1>1. PICK N, lost, L : FlushTurn(t, force, N, lost, L)
  BY FlushTurns
<1>2. PICK P : P = {}
  OBVIOUS
<1>3. /\ Turn(N, P, lost) /\ uploaded' = uploaded /\ alertedScopes' = LiveAlerts(t)
      /\ \A c \in N : ~ c.promotable
      /\ Ids(N) = SummaryIds(retained, retained')
      /\ retained' \in Nat /\ retained' >= retained
      /\ Collects(aggregator', AggregatedKeys) /\ Collects(localAggregator', Keys)
      /\ received' = received
      /\ ToSet(aggregator') = ToSet(aggregator) \ L
  BY <1>1, <1>2 DEF FlushTurn, SummariesKept
<1>4. \A i \in routed' : i.id[1] = "aggregate"
  BY <1>1 DEF FlushTurn, Summaries, Item
<1>5. \A m : OfMode(m)' = OfMode(m)
  BY <1>3 DEF OfMode
<1>6. received' \in Seq([mode : Modes, key : Keys])
  BY <1>3 DEF RouterInv
<1>7. Kept
  BY <1>2, <1>3, <1>4, <1>5, <1>6, QuietKeeps
<1>8. \A b \in ToSet(aggregator') :
           \E i \in 1..Len(received') : received'[i] = [mode |-> "AGGREGATE", key |-> b.key]
  BY <1>3 DEF RouterInv
<1>9. Collects(aggregator, AggregatedKeys)' /\ Collects(localAggregator, Keys)'
  BY <1>3 DEF Collects, OneEach, AggregatedKeys, Keys, Buckets
<1>10. (\A b \in ToSet(aggregator) :
         \E i \in 1..Len(received) : received[i] = [mode |-> "AGGREGATE", key |-> b.key])'
  BY <1>8
<1>11. clock' \in Int
  BY DEF RouterInv, Flush
<1> QED
  BY <1>7, <1>9, <1>10, <1>11 DEF RouterInv, Kept, Modes, Keys

LEMMA StepKeeps ==
  ASSUME RouterInv, [Next]_vars
  PROVE  RouterInv'
<1>1. CASE \E e \in Templates : Process(e)
  BY <1>1, ProcessKeeps
<1>2. ASSUME NEW d \in 0..Lag, Flush(clock - d, FALSE) PROVE RouterInv'
  <2>1. PICK t : t = clock - d
    OBVIOUS
  <2>2. clock \in Int /\ d \in Int
    BY RouterAssumption DEF RouterInv
  <2>3. Flush(t, FALSE)
    BY <1>2, <2>1
  <2>4. t \in Int
    BY <2>1, <2>2
  <2> QED
    BY <2>3, <2>4, FlushKeeps
<1>3. CASE Flush(clock, TRUE)
  <2>1. PICK t : t = clock
    OBVIOUS
  <2>2. t \in Int /\ Flush(t, TRUE)
    BY <1>3, <2>1 DEF RouterInv
  <2> QED
    BY <2>2, FlushKeeps
<1>4. ASSUME UNCHANGED <<buffer, aggregator, localAggregator, alertedScopes, received,
                         retained, evicted, routed, uploaded>>, clock' \in Int
      PROVE  RouterInv'
  <2>1. \A m : OfMode(m)' = OfMode(m)
    BY <1>4 DEF OfMode
  <2>2. BufferedIds' = BufferedIds /\ HeldIn(buffer)' = HeldIn(buffer) /\ InStep(buffer)' = InStep(buffer)
    BY <1>4 DEF BufferedIds, HeldIn, InStep
  <2>3. HeldInv' <=> HeldInv
    BY <1>4, <2>1, <2>2 DEF HeldInv, HeldIn, InStep
  <2>4. BufferCustody' <=> BufferCustody
    BY <1>4, <2>1, <2>2 DEF BufferCustody
  <2>5. AlertedScopeHoldsNoContext' <=> AlertedScopeHoldsNoContext
    BY <1>4 DEF AlertedScopeHoldsNoContext
  <2>6. LocalOnlyStaysLocal' <=> LocalOnlyStaysLocal
    BY <1>4, <2>1 DEF LocalOnlyStaysLocal
  <2>7. (uploaded \subseteq OfMode("ALWAYS") \union OfMode("ON_ALERT"))'
    BY <1>4, <2>1 DEF RouterInv
  <2>8. Collects(aggregator, AggregatedKeys)' /\ Collects(localAggregator, Keys)'
    BY <1>4 DEF RouterInv, Collects, OneEach, AggregatedKeys, Keys, Buckets
  <2>9. (\A b \in ToSet(aggregator) :
           \E i \in 1..Len(received) : received[i] = [mode |-> "AGGREGATE", key |-> b.key])'
    BY <1>4 DEF RouterInv
  <2> QED
    BY <1>4, <2>3, <2>4, <2>5, <2>6, <2>7, <2>8, <2>9 DEF RouterInv, Modes, Keys
<1>5. CASE Tick
  <2>1. clock' \in Int
    BY <1>5 DEF Tick, RouterInv
  <2> QED
    BY <1>4, <1>5, <2>1 DEF Tick
<1>6. CASE UNCHANGED vars
  <2>1. clock' \in Int
    BY <1>6 DEF vars, RouterInv
  <2> QED
    BY <1>4, <1>6, <2>1 DEF vars
<1> QED
  BY <1>1, <1>2, <1>3, <1>5, <1>6 DEF Next

LEMMA InitKeeps ==
  ASSUME Init
  PROVE  RouterInv
<1>1. InStep(buffer) /\ HeldIn(buffer) = {}
  <2>1. buffer = Buf!EmptyBuffer
    BY DEF Init
  <2> QED
    BY <2>1, EmptyMoves
<1>2. /\ received = <<>> /\ retained = 0 /\ evicted = {} /\ uploaded = {} /\ routed = {}
      /\ clock = 0 /\ aggregator = <<>> /\ localAggregator = <<>>
      /\ alertedScopes = [s \in Scopes |-> NotAlerted]
  BY DEF Init
<1>3. OneEach(<<>>) /\ ToSet(<<>>) = {} /\ \A K : Collects(<<>>, K)
  BY DEF OneEach, ToSet, Collects
<1>4. HeldInv
  BY <1>1, <1>2 DEF HeldInv, DistinctIds
<1>5. BufferedIds = {} /\ \A m : OfMode(m) = {}
  BY <1>1, <1>2 DEF BufferedIds, HeldIn, Ids, OfMode
<1>6. BufferCustody
  <2>1. 1..retained = {}
    BY <1>2
  <2>2. {<<"summary", n>> : n \in 1..retained} = {}
    BY <2>1
  <2> QED
    BY <1>2, <1>5, <2>2 DEF BufferCustody
<1>7. NotAlerted \in Int
  BY RouterAssumption DEF NotAlerted
<1>8. AlertedScopeHoldsNoContext /\ LocalOnlyStaysLocal
  BY <1>1, <1>2 DEF AlertedScopeHoldsNoContext, HeldIn, LocalOnlyStaysLocal
<1> QED
  BY <1>2, <1>3, <1>4, <1>6, <1>7, <1>8 DEF RouterInv

\* The router's inductive invariant (upload_router.go:43-179).
THEOREM RouterInvariant == Spec => []RouterInv
BY InitKeeps, StepKeeps, PTL DEF Spec

\* Every context event and local summary is in exactly one of buffer, uploads and
\* eviction metric (rolling_buffer.go and upload_router.go:61-140).
THEOREM RouterBufferCustody == Spec => []BufferCustody
<1>1. RouterInv => BufferCustody
  BY DEF RouterInv
<1> QED
  BY <1>1, RouterInvariant, PTL

\* A scope that counts as alerted holds no context back (upload_router.go:75-96).
THEOREM RouterAlertedScope == Spec => []AlertedScopeHoldsNoContext
<1>1. RouterInv => AlertedScopeHoldsNoContext
  BY DEF RouterInv
<1> QED
  BY <1>1, RouterInvariant, PTL

\* Nothing local leaves the host (upload_router.go:102-113).
THEOREM RouterLocalOnly == Spec => []LocalOnlyStaysLocal
<1>1. RouterInv => LocalOnlyStaysLocal
  BY DEF RouterInv
<1> QED
  BY <1>1, RouterInvariant, PTL

-----------------------------------------------------------------------------
\* The action properties.

\* What an upload routes.
LEMMA UploadItems ==
  ASSUME NEW id, NEW s, NEW hit \in BOOLEAN, NEW t, NEW P, NEW lost, UploadTurn(id, s, hit, t, P, lost)
  PROVE  /\ Ids(routed') = Ids(P) \union {id}
         /\ \A i \in routed' : i.alert => hit /\ i.id = id
<1>1. PICK new : new = Single(id, "high", hit)
  OBVIOUS
<1>2. new.id = id /\ new.alert = hit
  BY <1>1 DEF Single, Item
<1>3. routed' = Promoted(P) \union {new}
  BY <1>1 DEF UploadTurn
<1>4. Ids(routed') = Ids(Promoted(P)) \union {new.id}
  BY <1>3 DEF Ids
<1>5. \A i \in Promoted(P) : i.alert = FALSE
  BY DEF Promoted, Single, Item
<1> QED
  BY <1>2, <1>3, <1>4, <1>5, PromotedIds

\* No call's item repeats an earlier upload.
NothingAgain == \A i \in routed' : i.id \notin uploaded

\* An alert's item comes with the live context of its scope.
Brought ==
  \A i \in routed' :
    i.alert =>
      LET s == received'[i.id[2]].key[1]
      IN \A e \in ToSet(buffer.global) :
           e.scope = s /\ e.promotable /\ e.timestamp > now' - TTL =>
             e.id \in Ids(routed')

LEMMA UploadsAre ==
  ASSUME RouterInv
  PROVE  /\ \A x \in uploaded : x[1] = "event"
         /\ uploaded \subseteq OfMode("ALWAYS") \union OfMode("ON_ALERT")
         /\ BufferedIds \intersect uploaded = {}
<1>1. uploaded \subseteq OfMode("ALWAYS") \union OfMode("ON_ALERT")
  BY DEF RouterInv
<1>2. \A m : \A x \in OfMode(m) : x[1] = "event"
  BY DEF OfMode
<1>3. BufferedIds \intersect uploaded = {}
  BY DEF RouterInv, BufferCustody
<1> QED
  BY <1>1, <1>2, <1>3

LEMMA SummariesAre ==
  ASSUME RouterInv, NEW l, routed' = Summaries(l)
  PROVE  NothingAgain /\ Brought
<1>1. \A i \in routed' : i.id[1] = "aggregate" /\ i.alert = FALSE
  BY DEF Summaries, Item
<1> QED
  BY <1>1, UploadsAre DEF NothingAgain, Brought

\* Process, and any step, route nothing again and leave no live context behind.
LEMMA ProcessRoutes ==
  ASSUME RouterInv, NEW e \in Templates, Process(e)
  PROVE  NothingAgain /\ Brought
<1>1. PICK d, id, key, t : d = Decide(e) /\ id = <<"event", Len(received) + 1>>
                           /\ key = <<e.scope, e.type>> /\ t = clock
  OBVIOUS
<1>2. ProcessTurn(e, d, id, key, t)
  BY <1>1, ProcessTurns
<1>3. t \in Int /\ now' = t
  BY <1>1 DEF RouterInv, Process
<1>4. /\ received' = Append(received, [mode |-> d.mode, key |-> key])
      /\ \A x : id \notin OfMode(x)
  <2>1. Enters(d, id, key)
    BY <1>1, ModesOf
  <2> QED
    BY <2>1 DEF Enters
<1>5. id \notin uploaded
  BY <1>4, UploadsAre
<1>6. received'[id[2]].key[1] = e.scope
  <2>1. PICK n \in Nat : n = Len(received)
    BY DEF RouterInv
  <2>2. PICK new : new = [mode |-> d.mode, key |-> key]
    OBVIOUS
  <2>3. received'[n + 1] = new
    BY <1>4, <2>1, <2>2 DEF RouterInv
  <2>4. id[2] = n + 1 /\ new.key = key /\ key[1] = e.scope
    BY <1>1, <2>1, <2>2
  <2> QED
    BY <2>3, <2>4
<1>7. CASE \E P, lost : UploadTurn(id, e.scope, e.hit, t, P, lost)
  <2>1. PICK P, lost : UploadTurn(id, e.scope, e.hit, t, P, lost)
    BY <1>7
  <2>2. /\ Ids(routed') = Ids(P) \union {id}
        /\ \A i \in routed' : i.alert => e.hit /\ i.id = id
    BY <2>1, UploadItems, DecideFacts
  <2>3. Ids(P) \subseteq BufferedIds
    <3>1. P \subseteq HeldIn(buffer)
      BY <2>1 DEF UploadTurn, Turn, Waiting
    <3> QED
      BY <3>1 DEF Ids, BufferedIds, HeldIn
  <2>4. NothingAgain
    <3>1. \A i \in routed' : i.id \in Ids(routed')
      BY DEF Ids
    <3> QED
      BY <1>5, <2>2, <2>3, <3>1, UploadsAre DEF NothingAgain
  <2>5. ASSUME NEW i \in routed', i.alert, NEW c \in ToSet(buffer.global),
               c.scope = received'[i.id[2]].key[1], c.promotable, c.timestamp > now' - TTL
        PROVE  c.id \in Ids(routed')
    <3>1. e.hit /\ c.scope = e.scope
      BY <1>6, <2>2, <2>5
    <3>2. c \in P \/ c.timestamp <= t - TTL
      BY <2>1, <2>5, <3>1 DEF UploadTurn, HeldIn
    <3>3. c.timestamp \in Int
      <4>1. HeldIn(buffer) \subseteq RouterEntries
        BY HeldType DEF RouterInv, HeldInv
      <4> QED
        BY <2>5, <4>1 DEF HeldIn, RouterEntries
    <3>4. c \in P
      BY <1>3, <2>5, <3>2, <3>3, RouterAssumption
    <3> QED
      BY <2>2, <3>4 DEF Ids
  <2>6. Brought
    BY <2>5 DEF Brought
  <2> QED
    BY <2>4, <2>6
<1>8. CASE \E lost : FollowTurn(id, t, lost)
  <2>1. routed' = {Single(id, "high", FALSE)}
    BY <1>8 DEF FollowTurn
  <2>2. \A i \in routed' : i.id = id /\ i.alert = FALSE
    BY <2>1 DEF Single, Item
  <2> QED
    BY <1>5, <2>2 DEF NothingAgain, Brought
<1>9. CASE routed' = {}
  BY <1>9 DEF NothingAgain, Brought
<1>10. CASE \E lost, r : CountTurn(key, t, lost, r)
  BY <1>10, SummariesAre DEF CountTurn
<1> QED
  BY <1>2, <1>7, <1>8, <1>9, <1>10 DEF ProcessTurn, HoldTurn, LocalOnlyTurn

LEMMA StepRoutes ==
  ASSUME RouterInv, [Next]_vars
  PROVE  routed' = routed \/ (NothingAgain /\ Brought)
<1>1. CASE \E e \in Templates : Process(e)
  BY <1>1, ProcessRoutes
<1>2. ASSUME NEW t, NEW force, Flush(t, force) PROVE NothingAgain /\ Brought
  <2>1. PICK l : l = Agg!Flush(aggregator, t, force).emitted
    OBVIOUS
  <2>2. Route(Summaries(l))
    BY <1>2, <2>1 DEF Flush
  <2>3. routed' = Summaries(l)
    BY <2>2 DEF Route
  <2> QED
    BY <2>3, SummariesAre
<1>3. CASE Tick
  BY <1>3 DEF Tick
<1>4. CASE UNCHANGED vars
  BY <1>4 DEF vars
<1> QED
  BY <1>1, <1>2, <1>3, <1>4 DEF Next

\* No event is routed by two calls (upload_router.go:71-101).
THEOREM RouterRoutedOnce == Spec => RoutedOnce
<1>1. RouterInv /\ [Next]_vars => [\A i \in routed' : routed' # routed => i.id \notin uploaded]_vars
  BY StepRoutes DEF NothingAgain
<1> QED
  BY <1>1, RouterInvariant, PTL DEF Spec, RoutedOnce

\* An alert takes with it all live context of its scope (upload_router.go:71-90).
THEOREM RouterAlertBringsContext == Spec => AlertBringsContext
<1>1. RouterInv /\ [Next]_vars =>
        [\A i \in routed' \ routed :
           i.alert =>
             LET s == received'[i.id[2]].key[1]
             IN \A e \in ToSet(buffer.global) :
                  e.scope = s /\ e.promotable /\ e.timestamp > now' - TTL =>
                    e.id \in Ids(routed')]_vars
  BY StepRoutes DEF Brought
<1> QED
  BY <1>1, RouterInvariant, PTL DEF Spec, AlertBringsContext

-----------------------------------------------------------------------------
\* The refinement of EventRouter.

\* The identity of the n-th event.  The refinement speaks of numbers, the buffer
\* of identities.
Event(n) == <<"event", n>>

\* Numbers and identities of events correspond.
LEMMA NumbersAre ==
  ASSUME NEW S, \A x \in S : x[1] = "event" => x = Event(x[2])
  PROVE  \A n : n \in Numbers(S) <=> Event(n) \in S
<1>1. \A n : Event(n)[1] = "event" /\ Event(n)[2] = n
  BY DEF Event
<1>2. ASSUME NEW n, n \in Numbers(S) PROVE Event(n) \in S
  <2>1. PICK x \in S : x[1] = "event" /\ n = x[2]
    BY <1>2 DEF Numbers
  <2> QED
    BY <2>1
<1>3. ASSUME NEW n, Event(n) \in S PROVE n \in Numbers(S)
  <2>1. PICK x \in S : x = Event(n)
    BY <1>3
  <2>2. x \in {i \in S : i[1] = "event"} /\ n = x[2]
    BY <1>1, <2>1
  <2> QED
    BY <2>2 DEF Numbers
<1> QED
  BY <1>2, <1>3

LEMMA IdentsAre ==
  ASSUME RouterInv
  PROVE  /\ \A m : \A x \in OfMode(m) : x[1] = "event" /\ x = Event(x[2])
         /\ \A x \in BufferedIds \union evicted : x[1] = "event" => x = Event(x[2])
         /\ \A c \in HeldIn(buffer) : c.promotable <=> c.id[1] = "event"
<1>1. \A m : \A x \in OfMode(m) : x[1] = "event" /\ x = Event(x[2])
  <2> SUFFICES ASSUME NEW m, NEW x \in OfMode(m) PROVE x[1] = "event" /\ x = Event(x[2])
    OBVIOUS
  <2>1. PICK i : x = Event(i)
    BY DEF OfMode, Event
  <2> QED
    BY <2>1 DEF Event
<1>2. \A i : <<"summary", i>>[1] # "event"
  OBVIOUS
<1>3. \A x \in BufferedIds \union evicted : x \in OfMode("ON_ALERT") \/ x[1] # "event"
  <2>1. \A x \in BufferedIds \union evicted :
          x \in OfMode("ON_ALERT") \union {<<"summary", n>> : n \in 1..retained}
    BY DEF RouterInv, BufferCustody
  <2> QED
    BY <1>2, <2>1
<1>4. \A c \in HeldIn(buffer) : c.promotable <=> c.id[1] = "event"
  <2> SUFFICES ASSUME NEW c \in HeldIn(buffer) PROVE c.promotable <=> c.id[1] = "event"
    OBVIOUS
  <2>1. IF c.promotable THEN c.id \in OfMode("ON_ALERT") ELSE c.id \in SummaryIds(0, retained)
    BY DEF RouterInv, HeldInv
  <2>2. CASE c.promotable
    BY <1>1, <2>1, <2>2
  <2>3. CASE ~ c.promotable
    BY <1>2, <2>1, <2>3 DEF SummaryIds
  <2>4. c.promotable \in BOOLEAN
    <3>1. HeldIn(buffer) \subseteq RouterEntries
      BY HeldType DEF RouterInv, HeldInv
    <3> QED
      BY <3>1 DEF RouterEntries
  <2> QED
    BY <2>2, <2>3, <2>4
<1> QED
  BY <1>1, <1>3, <1>4

LEMMA ContextIs ==
  ASSUME RouterInv
  PROVE  /\ \A n : n \in Context <=> Event(n) \in BufferedIds
         /\ \A n : n \in OnHost <=> Event(n) \in evicted \union OfMode("LOCAL_ONLY")
<1>1. PICK W : W = {e \in ToSet(buffer.global) : e.promotable}
  OBVIOUS
<1>2. W \subseteq HeldIn(buffer) /\ \A c \in HeldIn(buffer) : c \in W <=> c.promotable
  BY <1>1 DEF HeldIn
<1>3. \A x : x \in Ids(W) <=> x \in BufferedIds /\ x[1] = "event"
  BY <1>2, IdentsAre DEF Ids, BufferedIds, HeldIn
<1>4. Context = Numbers(Ids(W))
  BY <1>1 DEF Context
<1>5. \A n : n \in Numbers(Ids(W)) <=> Event(n) \in Ids(W)
  BY <1>3, IdentsAre, NumbersAre
<1>6. \A n : Event(n)[1] = "event"
  BY DEF Event
<1>7. PICK S : S = evicted \union OfMode("LOCAL_ONLY")
  OBVIOUS
<1>8. \A n : n \in Numbers(S) <=> Event(n) \in S
  BY <1>7, IdentsAre, NumbersAre
<1>9. OnHost = Numbers(S)
  BY <1>7 DEF OnHost
<1> QED
  BY <1>3, <1>4, <1>5, <1>6, <1>7, <1>8, <1>9

\* What is held as context, and kept for good, in terms of identities.
NumbersHold ==
  /\ \A n : n \in Context <=> Event(n) \in BufferedIds
  /\ \A n : n \in OnHost <=> Event(n) \in evicted \union OfMode("LOCAL_ONLY")

LEMMA NumbersStay == RouterInv' => NumbersHold'
<1>1. RouterInv => NumbersHold
  BY ContextIs DEF NumbersHold
<1> QED
  BY <1>1, PTL

\* A Turn is a Hold of the abstract router: the context events in the buffer are
\* the events it took and held, less those promoted and evicted.
LEMMA TurnHolds ==
  ASSUME RouterInv, RouterInv', NEW G, NEW P, NEW lost, Turn(G, P, lost),
         NEW local, \A n : Event(n) \in OfMode("LOCAL_ONLY")' <=>
                             Event(n) \in OfMode("LOCAL_ONLY") \/ n \in local,
         NEW events, \A n : n \in events <=>
                       (n \in Context \/ Event(n) \in Ids(G)) /\ Event(n) \notin Ids(P)
  PROVE  Contract!Hold(events, local)
<1>1. /\ BufferedIds' \union Ids(lost) = (BufferedIds \union Ids(G)) \ Ids(P)
      /\ BufferedIds' \intersect Ids(lost) = {}
      /\ evicted' = evicted \union Ids(lost)
  BY TurnIds
<1>2. /\ \A n : n \in Context <=> Event(n) \in BufferedIds
      /\ \A n : n \in OnHost <=> Event(n) \in evicted \union OfMode("LOCAL_ONLY")
  BY ContextIs
<1>0. /\ \A n : n \in Context' <=> Event(n) \in BufferedIds'
      /\ \A n : n \in OnHost' <=> Event(n) \in evicted' \union OfMode("LOCAL_ONLY")'
  BY NumbersStay DEF NumbersHold
<1>3. \A n : n \in Context' => n \in events
  BY <1>0, <1>1, <1>2
<1>4. \A n : n \in OnHost' <=> n \in OnHost \union local \union (events \ Context')
  BY <1>0, <1>1, <1>2
<1> QED
  BY <1>3, <1>4 DEF Contract!Hold

\* The events of an aggregation key, and the latest c of a set of events.
OfKey(k) == {i \in DOMAIN received : received[i] = [mode |-> "AGGREGATE", key |-> k]}
\* The c latest of the numbers F: what a bucket of count c stands for.
Latest(F, c) == {i \in F : Cardinality({j \in F : j >= i}) <= c}

LEMMA MembersAre == \A b : Members(b) = Latest(OfKey(b.key), b.count)
BY DEF Members, OfKey, Latest

\* A nonempty set of numbers has a greatest one, which is among its c latest.
LEMMA Greatest ==
  ASSUME NEW n \in Nat, NEW F \in SUBSET (1..n), F # {}
  PROVE  \E m \in F : \A j \in F : j <= m
<1> DEFINE N == {k \in Nat : \A E \in SUBSET (1..k) : E # {} => \E m \in E : \A j \in E : j <= m}
<1>1. 0 \in N
  <2>1. \A E \in SUBSET (1..0) : E = {}
    OBVIOUS
  <2> QED
    BY <2>1
<1>2. ASSUME NEW k \in Nat, k \in N PROVE k + 1 \in N
  <2> SUFFICES ASSUME NEW E \in SUBSET (1..(k + 1)), E # {} PROVE \E m \in E : \A j \in E : j <= m
    OBVIOUS
  <2>1. CASE k + 1 \in E
    BY <2>1
  <2>2. CASE k + 1 \notin E
    <3>1. E \in SUBSET (1..k)
      BY <2>2
    <3> QED
      BY <1>2, <3>1
  <2> QED
    BY <2>1, <2>2
<1>3. \A k \in Nat : k \in N
  <2> HIDE DEF N
  <2> QED
    BY <1>1, <1>2, KeepFold!Induction
<1> QED
  BY <1>3

LEMMA LatestSome ==
  ASSUME NEW n \in Nat, NEW F \in SUBSET (1..n), F # {}, NEW c \in Nat \ {0}
  PROVE  Latest(F, c) # {} /\ Latest(F, c) \subseteq F
<1>1. PICK m \in F : \A j \in F : j <= m
  BY Greatest
<1>2. {j \in F : j >= m} = {m}
  <2>1. \A j \in F : j \in Int
    OBVIOUS
  <2>2. \A j \in F : j >= m <=> j = m
    BY <1>1, <2>1
  <2> QED
    BY <1>1, <2>2
<1>3. Cardinality({j \in F : j >= m}) = 1
  BY <1>2, FS_Singleton
<1>4. 1 <= c
  OBVIOUS
<1>5. m \in Latest(F, c)
  BY <1>1, <1>3, <1>4 DEF Latest
<1> QED
  BY <1>5 DEF Latest

\* One event m more, beyond n: it is the latest one, and the latest c stay.
LatestGrow(n, F, c, m, E, d) ==
  /\ Latest(E, 1) = {m}
  /\ Latest(E, d) = Latest(F, c) \union {m}

\* A number greater than all of F is the latest of the set with it, and one more
\* of the latest are those of F and the number.
LEMMA LatestFacts ==
  ASSUME NEW n \in Nat, NEW F \in SUBSET (1..n), NEW c \in Nat \ {0},
         NEW m, m = n + 1, NEW E, E = F \union {m}, NEW d, d = c + 1
  PROVE  LatestGrow(n, F, c, m, E, d)
<1> DEFINE From(i) == {j \in F : j >= i}
<1>0. \A j \in F : j \in Int /\ j <= n
  OBVIOUS
<1>1. \A i : IsFiniteSet(From(i)) /\ Cardinality(From(i)) \in Nat
  <2> SUFFICES ASSUME NEW i PROVE IsFiniteSet(From(i)) /\ Cardinality(From(i)) \in Nat
    OBVIOUS
  <2>1. IsFiniteSet(1..n)
    BY FS_Interval
  <2>2. IsFiniteSet(From(i))
    BY <2>1, FS_Subset
  <2> QED
    BY <2>2, FS_CardinalityType
<1>2. ASSUME NEW i \in F
      PROVE  /\ Cardinality({j \in E : j >= i}) = Cardinality(From(i)) + 1
             /\ Cardinality(From(i)) >= 1
  <2>1. {j \in E : j >= i} = From(i) \union {m} /\ m \notin From(i)
    <3>1. m >= i /\ m \notin F
      BY <1>0
    <3>2. \A j : j \in {h \in E : h >= i} <=> j \in F \union {m} /\ j >= i
      OBVIOUS
    <3>3. \A j : j \in From(i) <=> j \in F /\ j >= i
      OBVIOUS
    <3> HIDE DEF From
    <3> QED
      BY <3>1, <3>2, <3>3
  <2>2. From(i) # {}
    <3>1. i >= i
      BY <1>0
    <3> QED
      BY <3>1
  <2>3. PICK S : S = From(i)
    OBVIOUS
  <2>4. IsFiniteSet(S) /\ m \notin S /\ S # {} /\ Cardinality(S) \in Nat
    BY <1>1, <2>1, <2>2, <2>3
  <2>5. Cardinality(S \union {m}) = Cardinality(S) + 1
    BY <2>4, FS_AddElement
  <2>6. Cardinality(S) # 0
    BY <2>4, FS_EmptySet
  <2>7. PICK A : A = {j \in E : j >= i}
    OBVIOUS
  <2>8. Cardinality(A) = Cardinality(S) + 1 /\ Cardinality(S) >= 1
    <3>1. A = S \union {m}
      BY <2>1, <2>3, <2>7
    <3> QED
      BY ONLY <2>4, <2>5, <2>6, <3>1
  <2> QED
    BY ONLY <2>3, <2>7, <2>8, Zenon DEF From
<1>3. Cardinality({j \in E : j >= m}) = 1
  <2>1. {j \in E : j >= m} = {m}
    <3>1. m >= m /\ \A j \in F : ~ (j >= m)
      BY <1>0
    <3> QED
      BY <3>1
  <2> QED
    BY <2>1, FS_Singleton
<1>4. m \notin F
  OBVIOUS
<1> HIDE DEF From
<1>5. Latest(E, 1) = {m}
  <2>1. ASSUME NEW i \in F PROVE ~ (Cardinality({j \in E : j >= i}) <= 1)
    BY <1>1, <1>2
  <2>2. \A i : i \in Latest(E, 1) <=> i \in E /\ Cardinality({j \in E : j >= i}) <= 1
    BY DEF Latest
  <2>3. 1 <= 1
    OBVIOUS
  <2> QED
    <3>1. m \in Latest(E, 1)
      BY <1>3, <2>2, <2>3
    <3>2. \A i \in E : i = m \/ i \in F
      OBVIOUS
    <3>3. \A i \in F : i \notin Latest(E, 1)
      BY <2>1, <2>2
    <3>4. Latest(E, 1) \subseteq E
      BY <2>2
    <3> QED
      BY <3>1, <3>2, <3>3, <3>4
<1>6. Latest(E, d) = Latest(F, c) \union {m}
  <2>1. ASSUME NEW i \in F
        PROVE  Cardinality({j \in E : j >= i}) <= d <=> Cardinality({j \in F : j >= i}) <= c
    <3>1. PICK x : x = Cardinality(From(i))
      OBVIOUS
    <3>2. x \in Nat /\ Cardinality({j \in E : j >= i}) = x + 1
      BY <1>1, <1>2, <3>1
    <3>3. x = Cardinality({j \in F : j >= i})
      BY <3>1 DEF From
    <3>4. x + 1 <= d <=> x <= c
      BY <3>2
    <3> QED
      BY <3>2, <3>3, <3>4
  <2>2. 1 <= d
    OBVIOUS
  <2>3. \A i : i \in Latest(E, d) <=> i \in E /\ Cardinality({j \in E : j >= i}) <= d
    BY DEF Latest
  <2>4. \A i : i \in Latest(F, c) <=> i \in F /\ Cardinality({j \in F : j >= i}) <= c
    BY DEF Latest
  <2> DEFINE Up(i) == Cardinality({j \in E : j >= i})
  <2> HIDE DEF Up
  <2>5. \A i : i \in Latest(E, d) <=> i \in E /\ Up(i) <= d
    BY <2>3 DEF Up
  <2>6. Up(m) = 1 /\ \A i \in F : Up(i) <= d <=> i \in Latest(F, c)
    BY <1>3, <2>1, <2>4 DEF Up
  <2>7. Latest(F, c) \subseteq F
    BY <2>4
  <2> QED
    BY <2>2, <2>5, <2>6, <2>7
<1> QED
  BY <1>5, <1>6 DEF LatestGrow

\* What the bucket of a key counts: nothing without a bucket, else something.
BucketFacts ==
  /\ \A k : (\A b \in ToSet(aggregator) : b.key # k) => BucketOf(k) = {}
  /\ \A b \in ToSet(aggregator) :
       /\ BucketOf(b.key) = Latest(OfKey(b.key), b.count)
       /\ BucketOf(b.key) # {}
       /\ b.key \in AggregatedKeys /\ b.count \in Nat \ {0}
  /\ ToSet(aggregator) \subseteq Buckets(AggregatedKeys)
  /\ \A a, b \in ToSet(aggregator) : a.key = b.key => a = b
  /\ \A k : OfKey(k) \subseteq 1..Len(received) /\ BucketOf(k) \subseteq 1..Len(received)

\* What the invariant says of the buckets, in the terms of Latest.
LEMMA BucketsAre ==
  ASSUME RouterInv
  PROVE  BucketFacts
<1>1. PICK l : l = aggregator
  OBVIOUS
<1>2. l \in Seq(Buckets(AggregatedKeys)) /\ OneEach(l)
  BY <1>1 DEF RouterInv, Collects
<1>3. ToSet(l) \subseteq Buckets(AggregatedKeys) /\ ToSet(l) = {l[i] : i \in 1..Len(l)}
  BY <1>2, ListFacts
<1>4. \A a, b \in ToSet(l) : a.key = b.key => a = b
  BY <1>2, <1>3 DEF OneEach
<1>5. \A k : BucketOf(k) = UNION {Members(b) : b \in {c \in ToSet(l) : c.key = k}}
  BY <1>1 DEF BucketOf
<1>6. ASSUME NEW k, \A b \in ToSet(l) : b.key # k PROVE BucketOf(k) = {}
  BY <1>5, <1>6 DEF LatestGrow
<1>7. ASSUME NEW b \in ToSet(l) PROVE BucketOf(b.key) = Members(b)
  <2>1. {c \in ToSet(l) : c.key = b.key} = {b}
    BY <1>4
  <2> QED
    BY <1>5, <2>1
<1>8. \A k : OfKey(k) \subseteq 1..Len(received)
  BY DEF OfKey, RouterInv
<1>9. ASSUME NEW b \in ToSet(l)
      PROVE  b.key \in AggregatedKeys /\ b.count \in Nat \ {0} /\ Members(b) # {} /\ Members(b) \subseteq OfKey(b.key)
  <2>1. b.key \in AggregatedKeys /\ b.count \in Nat \ {0}
    BY <1>3 DEF Buckets
  <2>2. OfKey(b.key) # {}
    <3>1. PICK i \in 1..Len(received) : received[i] = [mode |-> "AGGREGATE", key |-> b.key]
      BY <1>1 DEF RouterInv
    <3>2. i \in DOMAIN received
      BY DEF RouterInv
    <3> QED
      BY <3>1, <3>2 DEF OfKey
  <2>3. PICK n \in Nat, c \in Nat \ {0} : n = Len(received) /\ c = b.count
    BY <2>1 DEF RouterInv
  <2>4. PICK F \in SUBSET (1..n) : F = OfKey(b.key)
    BY <1>8, <2>3
  <2>5. Latest(F, c) # {} /\ Latest(F, c) \subseteq F
    <3>1. F # {}
      BY <2>2, <2>4
    <3> QED
      BY <3>1, LatestSome
  <2> QED
    BY <2>1, <2>3, <2>4, <2>5, MembersAre
<1>10. \A k : BucketOf(k) \subseteq 1..Len(received)
  <2> SUFFICES ASSUME NEW k PROVE BucketOf(k) \subseteq 1..Len(received)
    OBVIOUS
  <2> QED
    BY <1>6, <1>7, <1>8, <1>9
<1> QED
  BY <1>1, <1>3, <1>4, <1>6, <1>7, <1>8, <1>9, <1>10, MembersAre DEF BucketFacts

LEMMA BucketsStay == RouterInv' => BucketFacts'
<1>1. RouterInv => BucketFacts
  BY BucketsAre
<1> QED
  BY <1>1, PTL

\* An event counted under a key is the latest of that key; other keys keep theirs.
LEMMA KeysGrow ==
  ASSUME NEW T, received \in Seq(T), NEW m, NEW key,
         received' = Append(received, [mode |-> m, key |-> key]), NEW k
  PROVE  /\ m = "AGGREGATE" /\ k = key => OfKey(k)' = OfKey(k) \union {Len(received) + 1}
         /\ m # "AGGREGATE" \/ k # key => OfKey(k)' = OfKey(k)
<1>1. PICK n \in Nat : n = Len(received)
  OBVIOUS
<1>2. /\ DOMAIN received = 1..n /\ DOMAIN received' = 1..(n + 1)
      /\ \A i \in 1..n : received'[i] = received[i]
      /\ received'[n + 1] = [mode |-> m, key |-> key]
  BY <1>1
<1>3. [mode |-> m, key |-> key] = [mode |-> "AGGREGATE", key |-> k] <=> m = "AGGREGATE" /\ k = key
  <2>1. [mode |-> m, key |-> key].mode = m /\ [mode |-> m, key |-> key].key = key
    OBVIOUS
  <2>2. [mode |-> "AGGREGATE", key |-> k].mode = "AGGREGATE" /\ [mode |-> "AGGREGATE", key |-> k].key = k
    OBVIOUS
  <2> QED
    BY <2>1, <2>2, Zenon
<1>4. PICK x, y : x = [mode |-> m, key |-> key] /\ y = [mode |-> "AGGREGATE", key |-> k]
  OBVIOUS
<1>5. \A i : i \in 1..(n + 1) <=> i \in 1..n \/ i = n + 1
  OBVIOUS
<1>6. OfKey(k) = {i \in 1..n : received[i] = y} /\ OfKey(k)' = {i \in 1..(n + 1) : received'[i] = y}
  BY <1>2, <1>4 DEF OfKey
<1>7. received'[n + 1] = x /\ (x = y <=> m = "AGGREGATE" /\ k = key)
  BY <1>2, <1>3, <1>4
<1> QED
  BY <1>1, <1>2, <1>5, <1>6, <1>7

\* A key whose events and whose bucket stay the same keeps what it counts.
LEMMA BucketSame ==
  ASSUME BucketFacts, BucketFacts', NEW k, OfKey(k)' = OfKey(k),
         \A b : b.key = k => (b \in ToSet(aggregator) <=> b \in ToSet(aggregator'))
  PROVE  BucketOf(k)' = BucketOf(k)
<1>1. CASE \E b \in ToSet(aggregator) : b.key = k
  <2>1. PICK b \in ToSet(aggregator) : b.key = k
    BY <1>1
  <2>2. BucketOf(k) = Latest(OfKey(k), b.count)
    BY <2>1 DEF BucketFacts
  <2>3. BucketOf(k)' = Latest(OfKey(k)', b.count)
    <3>1. b \in ToSet(aggregator')
      BY <2>1
    <3> QED
      BY <2>1, <3>1 DEF BucketFacts, Latest
  <2> QED
    BY <2>2, <2>3
<1>2. CASE \A b \in ToSet(aggregator) : b.key # k
  <2>1. BucketOf(k) = {}
    BY <1>2 DEF BucketFacts
  <2>2. \A b \in ToSet(aggregator') : b.key # k
    BY <1>2
  <2>3. BucketOf(k)' = {}
    BY <2>2 DEF BucketFacts
  <2> QED
    BY <2>1, <2>3
<1> QED
  BY <1>1, <1>2

\* Counts is the function from keys to what their buckets stand for.
LEMMA CountsAre ==
  /\ DOMAIN Counts = AggregatedKeys
  /\ \A k \in AggregatedKeys : Counts[k] = BucketOf(k)
BY DEF Counts

LEMMA CountsNext ==
  ASSUME NEW f, DOMAIN f = AggregatedKeys, f = [k \in AggregatedKeys |-> f[k]],
         \A k \in AggregatedKeys : BucketOf(k)' = f[k]
  PROVE  Counts' = f
<1>1. Counts' = [k \in AggregatedKeys |-> BucketOf(k)']
  BY DEF Counts, AggregatedKeys
<1> QED
  BY <1>1

\* A bucket after its event e was counted in.
LEMMA BucketGrows ==
  ASSUME BucketFacts, BucketFacts', NEW n \in Nat, n = Len(received), NEW e, e = n + 1,
         NEW k, OfKey(k)' = OfKey(k) \union {e},
         NEW b \in ToSet(aggregator'), b.key = k
  PROVE  /\ b.count = 1 => BucketOf(k)' = {e}
         /\ \A x \in ToSet(aggregator) : x.key = k /\ b.count = x.count + 1 =>
              BucketOf(k)' = BucketOf(k) \union {e}
<1>1. PICK F \in SUBSET (1..n) : F = OfKey(k)
  BY DEF BucketFacts
<1>2. PICK E : E = F \union {e}
  OBVIOUS
<1>3. BucketOf(k)' = Latest(E, b.count)
  <2>1. BucketOf(b.key)' = Latest(OfKey(b.key)', b.count)
    BY DEF BucketFacts, Latest
  <2> QED
    BY <1>1, <1>2, <2>1
<1>4. ASSUME b.count = 1 PROVE BucketOf(k)' = {e}
  <2>1. PICK c, d : c \in Nat \ {0} /\ c = 1 /\ d = c + 1
    OBVIOUS
  <2>2. LatestGrow(n, F, c, e, E, d)
    BY <1>2, <2>1, LatestFacts
  <2> QED
    BY <1>3, <1>4, <2>2 DEF LatestGrow
<1>5. ASSUME NEW x \in ToSet(aggregator), x.key = k, b.count = x.count + 1
      PROVE  BucketOf(k)' = BucketOf(k) \union {e}
  <2>1. PICK c, d : c \in Nat \ {0} /\ c = x.count /\ d = c + 1
    BY DEF BucketFacts
  <2>2. LatestGrow(n, F, c, e, E, d)
    BY <1>2, <2>1, LatestFacts
  <2>3. BucketOf(k) = Latest(F, c)
    BY <1>1, <1>5, <2>1 DEF BucketFacts
  <2> QED
    BY <1>3, <1>5, <2>1, <2>2, <2>3 DEF LatestGrow
<1> QED
  BY <1>4, <1>5

\* What the runner gets of the summaries of the buckets X.
Handed(X) == {[events |-> Members(b), priority |-> "normal", alert |-> FALSE] : b \in X}

\* The summaries a call returns stand for the members of their buckets.
LEMMA ReturnedSummaries ==
  ASSUME NEW l, routed' = Summaries(l)
  PROVE  Returned' = Handed(ToSet(l))
<1>1. Returned' = {[events |-> i.events, priority |-> i.priority, alert |-> i.alert] : i \in routed'}
  BY DEF Returned
<1>2. routed' = {Item(<<"aggregate", s.key, s.first, s.last>>, Members(s), "normal", FALSE) :
                   s \in ToSet(l)}
  BY DEF Summaries
<1>3. \A w, x, y, z : /\ Item(w, x, y, z).events = x /\ Item(w, x, y, z).priority = y
                      /\ Item(w, x, y, z).alert = z
  BY DEF Item
<1>4. ASSUME NEW v \in Returned' PROVE v \in Handed(ToSet(l))
  <2>1. PICK i \in routed' : v = [events |-> i.events, priority |-> i.priority, alert |-> i.alert]
    BY <1>1
  <2>2. PICK s \in ToSet(l) :
          i = Item(<<"aggregate", s.key, s.first, s.last>>, Members(s), "normal", FALSE)
    BY <1>2, <2>1
  <2>3. i.events = Members(s) /\ i.priority = "normal" /\ i.alert = FALSE
    <3>1. PICK w, m : w = <<"aggregate", s.key, s.first, s.last>> /\ m = Members(s)
      OBVIOUS
    <3>2. i = Item(w, m, "normal", FALSE)
      BY <2>2, <3>1, Zenon
    <3>3. i.events = m /\ i.priority = "normal" /\ i.alert = FALSE
      BY <3>2 DEF Item
    <3> QED
      BY <3>1, <3>3
  <2>4. v = [events |-> Members(s), priority |-> "normal", alert |-> FALSE]
    BY <2>1, <2>3, Zenon
  <2> QED
    BY <2>4 DEF Handed
<1>5. ASSUME NEW v \in Handed(ToSet(l)) PROVE v \in Returned'
  <2>1. PICK s \in ToSet(l) : v = [events |-> Members(s), priority |-> "normal", alert |-> FALSE]
    BY DEF Handed
  <2>2. PICK i : i = Item(<<"aggregate", s.key, s.first, s.last>>, Members(s), "normal", FALSE)
    OBVIOUS
  <2>3. i \in routed'
    BY <1>2, <2>2
  <2>4. i.events = Members(s) /\ i.priority = "normal" /\ i.alert = FALSE
    <3>1. PICK w, m : w = <<"aggregate", s.key, s.first, s.last>> /\ m = Members(s)
      OBVIOUS
    <3>2. i = Item(w, m, "normal", FALSE)
      BY <2>2, <3>1, Zenon
    <3>3. i.events = m /\ i.priority = "normal" /\ i.alert = FALSE
      BY <3>2 DEF Item
    <3> QED
      BY <3>1, <3>3
  <2>5. v = [events |-> i.events, priority |-> i.priority, alert |-> i.alert]
    BY <2>1, <2>4, Zenon
  <2> QED
    BY <1>1, <2>3, <2>5
<1> QED
  BY <1>4, <1>5

\* The summaries of the keys due are those of their buckets X.
LEMMA SummariesDue ==
  ASSUME BucketFacts, NEW X, X \subseteq ToSet(aggregator),
         NEW due, due \subseteq AggregatedKeys,
         \A b \in ToSet(aggregator) : b \in X <=> b.key \in due
  PROVE  Contract!Summaries(due) = Handed(X)
<1>1. Contract!Summaries(due) =
        {Contract!Item(Counts[k], "normal", FALSE) : k \in {j \in due : Counts[j] # {}}}
  BY DEF Contract!Summaries
<1>2. \A k \in due : Counts[k] = BucketOf(k)
  BY CountsAre
<1>3. \A b \in X : BucketOf(b.key) = Members(b)
  BY MembersAre DEF BucketFacts
<1>4. ASSUME NEW v \in Contract!Summaries(due) PROVE v \in Handed(X)
  <2>1. PICK k \in due : Counts[k] # {} /\ v = Contract!Item(Counts[k], "normal", FALSE)
    BY <1>1
  <2>2. PICK b \in ToSet(aggregator) : b.key = k
    BY <1>2, <2>1 DEF BucketFacts
  <2>3. b \in X /\ Counts[k] = Members(b)
    BY <1>2, <1>3, <2>1, <2>2
  <2> QED
    BY <2>1, <2>3 DEF Handed, Contract!Item
<1>5. ASSUME NEW v \in Handed(X) PROVE v \in Contract!Summaries(due)
  <2>1. PICK b \in X : v = [events |-> Members(b), priority |-> "normal", alert |-> FALSE]
    BY DEF Handed
  <2>2. b.key \in due /\ Counts[b.key] = Members(b) /\ Counts[b.key] # {}
    BY <1>2, <1>3, <2>1 DEF BucketFacts
  <2> QED
    BY <1>1, <2>1, <2>2 DEF Contract!Item
<1> QED
  BY <1>4, <1>5

\* The two ways of CountInto.
Counted1(e, k) == Returned' = {} /\ Counts' = [Counts EXCEPT ![k] = @ \union {e}]
Counted2(e, k, j) ==
  /\ j \in AggregatedKeys /\ (j = k \/ Counts[k] = {})
  /\ Returned' = Contract!Summaries({j})
  /\ Counts' = [Counts EXCEPT ![j] = {}, ![k] = {e}]

\* Add is one of these two.
LEMMA CountMoves ==
  ASSUME BucketFacts, BucketFacts', NEW n \in Nat, n = Len(received), NEW e, e = n + 1,
         NEW k \in AggregatedKeys, NEW t, NEW r, AddCase(aggregator, k, t, r),
         aggregator' = r.buckets, routed' = Summaries(r.emitted),
         OfKey(k)' = OfKey(k) \union {e},
         \A j : j # k => OfKey(j)' = OfKey(j)
  PROVE  Counted1(e, k) \/ \E j : Counted2(e, k, j)
<1> DEFINE B == ToSet(aggregator)
           C == ToSet(aggregator')
<1>0. /\ ToSet(<<>>) = {} /\ \A x : ToSet(<<x>>) = {x}
      /\ Agg!Bucket(k, t).key = k /\ Agg!Bucket(k, t).count = 1
      /\ \A x : Counting(x, t).key = x.key
      /\ Handed({}) = {}
  BY DEF ToSet, Agg!Bucket, Counting, Handed
<1>1. Returned' = Handed(ToSet(r.emitted))
  BY ReturnedSummaries
<1>2. C = ToSet(r.buckets)
  OBVIOUS
<1>3. \A j \in AggregatedKeys : Counts[j] = BucketOf(j)
  BY CountsAre
<1>4. ASSUME NEW j, j # k, \A b : b.key = j => (b \in B <=> b \in C)
      PROVE  BucketOf(j)' = BucketOf(j)
  BY <1>4, BucketSame
<1>5. ASSUME NEW x \in B, x.key = k, r.emitted = <<>>,
             C = (B \ {x}) \union {Counting(x, t)}
      PROVE  Counted1(e, k)
  <2>1. PICK y : y = Counting(x, t)
    OBVIOUS
  <2>2. y.key = k /\ y.count = x.count + 1 /\ y \in C
    <3>1. x \in Buckets(AggregatedKeys)
      BY DEF BucketFacts
    <3>2. Counting(x, t).count = x.count + 1
      BY <3>1 DEF Counting, Buckets
    <3> QED
      BY <1>0, <1>5, <2>1, <3>2
  <2>3. BucketOf(k)' = BucketOf(k) \union {e}
    BY <1>5, <2>2, BucketGrows
  <2>4. \A j : j # k => BucketOf(j)' = BucketOf(j)
    <3>1. ASSUME NEW j, j # k PROVE \A b : b.key = j => (b \in B <=> b \in C)
      BY <1>5, <2>1, <2>2, <3>1
    <3> QED
      BY <1>4, <3>1
  <2>5. Counts' = [Counts EXCEPT ![k] = @ \union {e}]
    <3>1. PICK f : f = [Counts EXCEPT ![k] = @ \union {e}]
      OBVIOUS
    <3>2. /\ DOMAIN f = AggregatedKeys /\ f = [j \in AggregatedKeys |-> f[j]]
          /\ \A j \in AggregatedKeys : f[j] = IF j = k THEN BucketOf(k) \union {e} ELSE BucketOf(j)
      BY <1>3, <3>1, CountsAre
    <3>3. \A j \in AggregatedKeys : BucketOf(j)' = f[j]
      BY <2>3, <2>4, <3>2
    <3> QED
      <4>1. DOMAIN f = AggregatedKeys /\ f = [j \in AggregatedKeys |-> f[j]]
        BY <3>2
      <4>2. Counts' = f
        BY <3>3, <4>1, CountsNext
      <4> QED
        BY <3>1, <4>2
  <2> QED
    BY <1>0, <1>1, <1>5, <2>5 DEF Counted1
<1>6. ASSUME NEW x \in B, x.key = k \/ \A y \in B : y.key # k, r.emitted = <<x>>,
             C = (B \ {x}) \union {Agg!Bucket(k, t)}
      PROVE  Counted2(e, k, x.key)
  <2>1. PICK y : y = Agg!Bucket(k, t)
    OBVIOUS
  <2>2. y.key = k /\ y.count = 1 /\ y \in C
    BY <1>0, <1>6, <2>1
  <2>3. BucketOf(k)' = {e}
    BY <2>2, BucketGrows
  <2>4. \A j : j # k /\ j # x.key => BucketOf(j)' = BucketOf(j)
    <3>1. ASSUME NEW j, j # k, j # x.key PROVE \A b : b.key = j => (b \in B <=> b \in C)
      BY <1>6, <2>1, <2>2, <3>1
    <3> QED
      BY <1>4, <3>1
  <2>5. x.key # k => BucketOf(x.key)' = {}
    <3> SUFFICES ASSUME x.key # k PROVE BucketOf(x.key)' = {}
      OBVIOUS
    <3>1. \A b \in C : b.key # x.key
      BY <1>6, <2>1, <2>2 DEF BucketFacts
    <3> QED
      BY <3>1 DEF BucketFacts
  <2>6. x.key \in AggregatedKeys /\ (x.key = k \/ Counts[k] = {})
    BY <1>3, <1>6 DEF BucketFacts
  <2>7. Counts' = [Counts EXCEPT ![x.key] = {}, ![k] = {e}]
    <3>1. PICK f : f = [Counts EXCEPT ![x.key] = {}, ![k] = {e}]
      OBVIOUS
    <3>2. /\ DOMAIN f = AggregatedKeys /\ f = [j \in AggregatedKeys |-> f[j]]
          /\ \A j \in AggregatedKeys :
               f[j] = IF j = k THEN {e} ELSE IF j = x.key THEN {} ELSE BucketOf(j)
      BY <1>3, <2>6, <3>1, CountsAre
    <3>3. \A j \in AggregatedKeys : BucketOf(j)' = f[j]
      BY <2>3, <2>4, <2>5, <3>2
    <3> QED
      <4>1. DOMAIN f = AggregatedKeys /\ f = [j \in AggregatedKeys |-> f[j]]
        BY <3>2
      <4>2. Counts' = f
        BY <3>3, <4>1, CountsNext
      <4> QED
        BY <3>1, <4>2
  <2>8. Returned' = Contract!Summaries({x.key})
    <3>1. PICK X, due : X = {x} /\ due = {x.key}
      OBVIOUS
    <3>2. X \subseteq B /\ due \subseteq AggregatedKeys /\ \A b \in B : b \in X <=> b.key \in due
      BY <2>6, <3>1 DEF BucketFacts
    <3>3. Contract!Summaries(due) = Handed(X)
      BY <3>2, SummariesDue
    <3>4. ToSet(r.emitted) = X
      BY <1>0, <1>6, <3>1
    <3> QED
      BY <1>1, <3>1, <3>3, <3>4
  <2> QED
    BY <2>6, <2>7, <2>8 DEF Counted2
<1>7. ASSUME \A y \in B : y.key # k, r.emitted = <<>>, C = B \union {Agg!Bucket(k, t)}
      PROVE  Counted1(e, k)
  <2>1. PICK y : y = Agg!Bucket(k, t)
    OBVIOUS
  <2>2. y.key = k /\ y.count = 1 /\ y \in C
    BY <1>0, <1>7, <2>1
  <2>3. BucketOf(k)' = {e} /\ BucketOf(k) = {}
    BY <1>7, <2>2, BucketGrows DEF BucketFacts
  <2>4. \A j : j # k => BucketOf(j)' = BucketOf(j)
    <3>1. ASSUME NEW j, j # k PROVE \A b : b.key = j => (b \in B <=> b \in C)
      BY <1>7, <2>1, <2>2, <3>1
    <3> QED
      BY <1>4, <3>1
  <2>5. Counts' = [Counts EXCEPT ![k] = @ \union {e}]
    <3>1. PICK f : f = [Counts EXCEPT ![k] = @ \union {e}]
      OBVIOUS
    <3>2. /\ DOMAIN f = AggregatedKeys /\ f = [j \in AggregatedKeys |-> f[j]]
          /\ \A j \in AggregatedKeys : f[j] = IF j = k THEN BucketOf(k) \union {e} ELSE BucketOf(j)
      BY <1>3, <3>1, CountsAre
    <3>3. \A j \in AggregatedKeys : BucketOf(j)' = f[j]
      BY <2>3, <2>4, <3>2
    <3> QED
      <4>1. DOMAIN f = AggregatedKeys /\ f = [j \in AggregatedKeys |-> f[j]]
        BY <3>2
      <4>2. Counts' = f
        BY <3>3, <4>1, CountsNext
      <4> QED
        BY <3>1, <4>2
  <2> QED
    BY <1>0, <1>1, <1>7, <2>5 DEF Counted1
<1> QED
  BY <1>2, <1>5, <1>6, <1>7 DEF AddCase

\* A call that leaves the aggregator alone leaves Counts alone.
LEMMA CountsSame ==
  ASSUME BucketFacts, BucketFacts', aggregator' = aggregator, \A k : OfKey(k)' = OfKey(k)
  PROVE  Counts' = Counts
<1>1. \A k : BucketOf(k)' = BucketOf(k)
  BY BucketSame
<1>2. PICK f : f = Counts
  OBVIOUS
<1>3. /\ DOMAIN f = AggregatedKeys /\ f = [k \in AggregatedKeys |-> f[k]]
      /\ \A k \in AggregatedKeys : BucketOf(k)' = f[k]
  BY <1>1, <1>2, CountsAre DEF Counts
<1> QED
  BY <1>2, <1>3, CountsNext

\* Flush returns the summaries of the keys it takes out, and all of them if forced.
LEMMA FlushMoves ==
  ASSUME BucketFacts, BucketFacts', \A k : OfKey(k)' = OfKey(k),
         NEW force \in BOOLEAN, NEW L, L \subseteq ToSet(aggregator),
         force => L = ToSet(aggregator),
         ToSet(aggregator') = ToSet(aggregator) \ L,
         NEW l, ToSet(l) = L, routed' = Summaries(l)
  PROVE  \E due \in IF force THEN {AggregatedKeys} ELSE SUBSET AggregatedKeys :
           /\ Returned' = Contract!Summaries(due)
           /\ Counts' = [k \in AggregatedKeys |-> IF k \in due THEN {} ELSE Counts[k]]
<1>1. PICK due : due = IF force THEN AggregatedKeys ELSE {b.key : b \in L}
  OBVIOUS
<1>2. /\ due \in IF force THEN {AggregatedKeys} ELSE SUBSET AggregatedKeys
      /\ due \subseteq AggregatedKeys
  BY <1>1 DEF BucketFacts
<1>3. \A b \in ToSet(aggregator) : b \in L <=> b.key \in due
  <2>1. CASE force
    BY <1>1, <2>1 DEF BucketFacts
  <2>2. CASE ~ force
    BY <1>1, <2>2 DEF BucketFacts
  <2> QED
    BY <2>1, <2>2
<1>4. Returned' = Contract!Summaries(due)
  BY <1>2, <1>3, SummariesDue, ReturnedSummaries
<1>5. ASSUME NEW k \in due PROVE BucketOf(k)' = {}
  <2>1. \A b \in ToSet(aggregator') : b.key # k
    BY <1>3
  <2> QED
    BY <2>1 DEF BucketFacts
<1>6. ASSUME NEW k, k \notin due PROVE BucketOf(k)' = BucketOf(k)
  <2>1. \A b : b.key = k => (b \in ToSet(aggregator) <=> b \in ToSet(aggregator'))
    BY <1>3, <1>6
  <2> QED
    BY <2>1, BucketSame
<1>7. Counts' = [k \in AggregatedKeys |-> IF k \in due THEN {} ELSE Counts[k]]
  <2>1. PICK f : f = [k \in AggregatedKeys |-> IF k \in due THEN {} ELSE Counts[k]]
    OBVIOUS
  <2>2. /\ DOMAIN f = AggregatedKeys /\ f = [k \in AggregatedKeys |-> f[k]]
        /\ \A k \in AggregatedKeys : f[k] = IF k \in due THEN {} ELSE BucketOf(k)
    BY <2>1, CountsAre
  <2>3. \A k \in AggregatedKeys : BucketOf(k)' = f[k]
    BY <1>5, <1>6, <2>2
  <2> QED
    BY <2>1, <2>2, <2>3, CountsNext
<1> QED
  BY <1>2, <1>4, <1>7

\* An upload returns the event and what it promoted, one by one.
LEMMA ReturnedUpload ==
  ASSUME NEW P, NEW n, NEW hit, NEW promoted, \A c : c \in promoted <=> Event(c) \in Ids(P),
         \A x \in Ids(P) : x = Event(x[2]),
         routed' = Promoted(P) \union {Single(Event(n), "high", hit)}
  PROVE  Returned' = {Contract!Item({c}, "high", FALSE) : c \in promoted}
                       \union {Contract!Item({n}, "high", hit)}
<1>1. Returned' = {[events |-> i.events, priority |-> i.priority, alert |-> i.alert] : i \in routed'}
  BY DEF Returned
<1>2. \A c : Event(c)[2] = c
  BY DEF Event
<1>3. PICK N : N = {Contract!Item({c}, "high", FALSE) : c \in promoted}
  OBVIOUS
<1>4. PICK new, item : new = Single(Event(n), "high", hit) /\ item = Contract!Item({n}, "high", hit)
  OBVIOUS
<1>5. item = [events |-> new.events, priority |-> new.priority, alert |-> new.alert]
  BY <1>2, <1>4 DEF Single, Item, Contract!Item
<1>6. ASSUME NEW i \in Promoted(P)
      PROVE  [events |-> i.events, priority |-> i.priority, alert |-> i.alert] \in N
  <2>1. PICK c \in P : i = Single(c.id, "high", FALSE)
    BY DEF Promoted
  <2>2. PICK x, m : x = c.id /\ m = x[2]
    OBVIOUS
  <2>3. m \in promoted
    BY <2>2 DEF Ids
  <2>4. [events |-> i.events, priority |-> i.priority, alert |-> i.alert] =
           Contract!Item({m}, "high", FALSE)
    BY <2>1, <2>2 DEF Single, Item, Contract!Item
  <2> QED
    BY <1>3, <2>3, <2>4
<1>7. ASSUME NEW v \in N
      PROVE  \E i \in Promoted(P) : v = [events |-> i.events, priority |-> i.priority, alert |-> i.alert]
  <2>1. PICK m \in promoted : v = Contract!Item({m}, "high", FALSE)
    BY <1>3
  <2>2. PICK c \in P : c.id = Event(m)
    BY DEF Ids
  <2>3. PICK i : i = Single(c.id, "high", FALSE)
    OBVIOUS
  <2>4. i \in Promoted(P)
    BY <2>3 DEF Promoted
  <2>5. v = [events |-> i.events, priority |-> i.priority, alert |-> i.alert]
    BY <1>2, <2>1, <2>2, <2>3 DEF Single, Item, Contract!Item
  <2> QED
    BY <2>4, <2>5
<1>8. routed' = Promoted(P) \union {new}
  BY <1>4
<1>9. Returned' = N \union {item}
  BY <1>1, <1>5, <1>6, <1>7, <1>8
<1> QED
  BY <1>3, <1>4, <1>9

\* A call brings an event the abstract router does not own yet.
LEMMA NewEvent ==
  ASSUME RouterInv, NEW e \in Templates, Process(e), NEW n \in Nat, n = Len(received)
  PROVE  n + 1 \in (1..MaxEvents) \ Contract!Owned
<1>1. n + 1 \in 1..MaxEvents
  BY RouterAssumption DEF Process
<1>2. \A m : Event(n + 1) \notin OfMode(m)
  <2>1. PICK d, id, key : d = Decide(e) /\ id = <<"event", n + 1>> /\ key = <<e.scope, e.type>>
    OBVIOUS
  <2>2. Enters(d, id, key)
    BY <2>1, ModesOf
  <2> QED
    BY <2>1, <2>2 DEF Enters, Event
<1>3. Event(n + 1) \notin BufferedIds \union evicted
  <2>1. \A x \in BufferedIds \union evicted :
          x \in OfMode("ON_ALERT") \/ x \in {<<"summary", i>> : i \in 1..retained}
    BY DEF RouterInv, BufferCustody
  <2>2. \A i : Event(n + 1) # <<"summary", i>>
    BY DEF Event
  <2> QED
    BY <1>2, <2>1, <2>2
<1>4. n + 1 \notin Context /\ n + 1 \notin OnHost
  BY <1>2, <1>3, ContextIs
<1>5. n + 1 \notin UNION {Counts[k] : k \in AggregatedKeys}
  <2>1. \A k \in AggregatedKeys : Counts[k] \subseteq 1..n
    BY BucketsAre, CountsAre DEF BucketFacts
  <2> QED
    BY <2>1
<1> QED
  BY <1>1, <1>4, <1>5 DEF Contract!Owned

\* Every case of Process, and Flush, is a step of the abstract router.
LEMMA ProcessImplements ==
  ASSUME RouterInv, RouterInv', NEW e \in Templates, Process(e)
  PROVE  Contract!RouterNext
<1>1. PICK n \in Nat : n = Len(received)
  BY DEF RouterInv
<1>2. PICK d, id, key, t, x : d = Decide(e) /\ id = <<"event", Len(received) + 1>>
                           /\ key = <<e.scope, e.type>> /\ t = clock /\ x = n + 1
  OBVIOUS
<1>3. id = Event(x)
  BY <1>1, <1>2 DEF Event
<1>4. x \in (1..MaxEvents) \ Contract!Owned
  BY <1>1, <1>2, NewEvent
<1>5. SUFFICES Contract!Process(x)
  BY <1>4 DEF Contract!RouterNext
<1>6. ProcessTurn(e, d, id, key, t)
  BY <1>2, ProcessTurns
<1>7. /\ received' = Append(received, [mode |-> d.mode, key |-> key])
      /\ OfMode(d.mode)' = OfMode(d.mode) \union {id}
      /\ \A m : m # d.mode => OfMode(m)' = OfMode(m)
  <2>1. d = Decide(e) /\ id = <<"event", Len(received) + 1>> /\ key = <<e.scope, e.type>>
    BY <1>2
  <2>2. /\ received' = Append(received, [mode |-> d.mode, key |-> key])
        /\ OfMode(d.mode)' = OfMode(d.mode) \union {id}
    <3>1. Enters(d, id, key)
      BY <2>1, ModesOf
    <3> QED
      BY <3>1 DEF Enters
  <2>3. \A m : m # d.mode => OfMode(m)' = OfMode(m)
    <3>1. Enters(d, id, key)
      BY <2>1, ModesOf
    <3> QED
      BY <3>1 DEF Enters
  <2> QED
    BY <2>2, <2>3
<1>8. /\ d.mode = "AGGREGATE" => OfKey(key)' = OfKey(key) \union {x}
      /\ \A k : d.mode # "AGGREGATE" \/ k # key => OfKey(k)' = OfKey(k)
  <2>1. PICK m : m = d.mode
    OBVIOUS
  <2>2. received \in Seq([mode : Modes, key : Keys]) /\ received' = Append(received, [mode |-> m, key |-> key])
    BY <1>7, <2>1 DEF RouterInv
  <2>3. \A k : /\ m = "AGGREGATE" /\ k = key => OfKey(k)' = OfKey(k) \union {Len(received) + 1}
               /\ m # "AGGREGATE" \/ k # key => OfKey(k)' = OfKey(k)
    BY <2>2, KeysGrow
  <2> QED
    BY <1>1, <1>2, <2>1, <2>3
<1>9. BucketFacts /\ BucketFacts'
  BY BucketsAre, BucketsStay
<1>10. ASSUME d.mode # "LOCAL_ONLY"
       PROVE  \A m : Event(m) \in OfMode("LOCAL_ONLY")' <=>
                       Event(m) \in OfMode("LOCAL_ONLY") \/ m \in {}
  BY <1>7, <1>10
<1>11. CASE /\ d.mode = "ALWAYS"
            /\ \E P, lost : UploadTurn(id, e.scope, e.hit, t, P, lost)
  <2>1. PICK P, lost : UploadTurn(id, e.scope, e.hit, t, P, lost)
    BY <1>11
  <2>2. PICK hit \in BOOLEAN : hit = e.hit
    BY DecideFacts
  <2>3. /\ Turn({}, P, lost) /\ (P # {} => hit)
        /\ routed' = Promoted(P) \union {Single(id, "high", hit)}
        /\ aggregator' = aggregator
    BY <2>1, <2>2 DEF UploadTurn
  <2>4. Ids(P) \subseteq BufferedIds /\ \A y \in Ids(P) : y = Event(y[2])
    <3>1. P \subseteq HeldIn(buffer) /\ \A c \in P : c.promotable
      BY <2>3 DEF Turn, Waiting
    <3>2. \A c \in P : c.id \in BufferedIds /\ c.id[1] = "event"
      BY <3>1, IdentsAre DEF BufferedIds, HeldIn, Ids
    <3> QED
      BY <3>2, IdentsAre DEF Ids
  <2>5. PICK promoted : promoted = Numbers(Ids(P))
    OBVIOUS
  <2>6. \A c : c \in promoted <=> Event(c) \in Ids(P)
    BY <2>4, <2>5, NumbersAre
  <2>7. Returned' = {Contract!Item({c}, "high", FALSE) : c \in promoted}
                      \union {Contract!Item({x}, "high", hit)}
    BY <1>3, <2>3, <2>4, <2>6, ReturnedUpload
  <2>8. promoted \in SUBSET Context
    BY <2>4, <2>6, ContextIs
  <2>9. promoted # {} => hit
    <3>1. P = {} => Ids(P) = {}
      BY DEF Ids
    <3> QED
      BY <2>3, <2>6, <3>1
  <2>10. Contract!Hold(Context \ promoted, {})
    <3>1. PICK G, events : G = {} /\ events = Context \ promoted
      OBVIOUS
    <3>2. \A m : m \in events <=>
                   (m \in Context \/ Event(m) \in Ids(G)) /\ Event(m) \notin Ids(P)
      BY <2>6, <3>1 DEF Ids
    <3>3. Turn(G, P, lost)
      BY <2>3, <3>1
    <3>4. Contract!Hold(events, {})
      BY <1>10, <1>11, <3>2, <3>3, TurnHolds
    <3> QED
      BY <3>1, <3>4
  <2>11. Counts' = Counts
    BY <1>8, <1>9, <1>11, <2>3, CountsSame
  <2> QED
    BY <2>7, <2>8, <2>9, <2>10, <2>11 DEF Contract!Process, Contract!UploadNow
<1>12. CASE /\ d.mode = "ON_ALERT"
            /\ \E lost : FollowTurn(id, t, lost)
  <2>1. PICK lost : FollowTurn(id, t, lost)
    BY <1>12
  <2>2. PICK P : P = {}
    OBVIOUS
  <2>3. /\ Turn(P, P, lost) /\ aggregator' = aggregator
        /\ routed' = Promoted(P) \union {Single(id, "high", FALSE)}
        /\ Ids(P) = {}
    BY <2>1, <2>2 DEF FollowTurn, Promoted, Ids
  <2>4. PICK promoted, hit : promoted = {} /\ hit = FALSE
    OBVIOUS
  <2>5. Returned' = {Contract!Item({c}, "high", FALSE) : c \in promoted}
                      \union {Contract!Item({x}, "high", hit)}
    BY <1>3, <2>3, <2>4, ReturnedUpload
  <2>6. Contract!Hold(Context \ promoted, {})
    <3>1. PICK events : events = Context \ promoted
      OBVIOUS
    <3>2. \A m : m \in events <=>
                   (m \in Context \/ Event(m) \in Ids(P)) /\ Event(m) \notin Ids(P)
      BY <2>3, <2>4, <3>1
    <3>3. Contract!Hold(events, {})
      BY <1>10, <1>12, <2>3, <3>2, TurnHolds
    <3> QED
      BY <3>1, <3>3
  <2>7. Counts' = Counts
    BY <1>8, <1>9, <1>12, <2>3, CountsSame
  <2>8. promoted \in SUBSET Context /\ (promoted # {} => hit) /\ hit \in BOOLEAN
    BY <2>4
  <2> QED
    BY <2>5, <2>6, <2>7, <2>8 DEF Contract!Process, Contract!UploadNow
<1>13. CASE /\ d.mode = "ON_ALERT"
            /\ \E c, lost : HoldTurn(id, e.scope, t, c, lost)
  <2>1. PICK c, lost : HoldTurn(id, e.scope, t, c, lost)
    BY <1>13
  <2>2. PICK G, P, events : G = {c} /\ P = {} /\ events = Context \union {x}
    OBVIOUS
  <2>3. /\ Turn(G, P, lost) /\ aggregator' = aggregator /\ routed' = {}
        /\ Ids(P) = {} /\ Ids(G) = {id}
    BY <2>1, <2>2 DEF HoldTurn, Ids
  <2>4. \A m : m \in events <=>
                 (m \in Context \/ Event(m) \in Ids(G)) /\ Event(m) \notin Ids(P)
    <3>1. \A m : Event(m) = id <=> m = x
      BY <1>3 DEF Event
    <3> QED
      BY <2>2, <2>3, <3>1
  <2>5. Contract!Hold(events, {})
    BY <1>10, <1>13, <2>3, <2>4, TurnHolds
  <2>6. Counts' = Counts
    BY <1>8, <1>9, <1>13, <2>3, CountsSame
  <2>7. Returned' = {}
    BY <2>3 DEF Returned
  <2> QED
    BY <2>2, <2>5, <2>6, <2>7 DEF Contract!Process, Contract!HoldAsContext
<1>14. CASE /\ d.mode = "AGGREGATE"
            /\ \E lost, r : CountTurn(key, t, lost, r)
  <2>1. PICK lost, r : CountTurn(key, t, lost, r)
    BY <1>14
  <2>2. PICK P, events : P = {} /\ events = Context
    OBVIOUS
  <2>3. /\ Turn(P, P, lost) /\ Ids(P) = {}
        /\ AddCase(aggregator, key, t, r)
        /\ aggregator' = r.buckets /\ routed' = Summaries(r.emitted)
    BY <2>1, <2>2 DEF CountTurn, Ids
  <2>4. Contract!Hold(Context, {})
    <3>1. \A m : m \in events <=>
                   (m \in Context \/ Event(m) \in Ids(P)) /\ Event(m) \notin Ids(P)
      BY <2>2, <2>3
    <3>2. Contract!Hold(events, {})
      BY <1>10, <1>14, <2>3, <3>1, TurnHolds
    <3> QED
      BY <2>2, <3>2
  <2>5. key \in AggregatedKeys
    BY <1>2, <1>14, DecideFacts
  <2>6. Counted1(x, key) \/ \E j : Counted2(x, key, j)
    BY <1>1, <1>2, <1>8, <1>9, <1>14, <2>3, <2>5, CountMoves
  <2>7. Contract!CountInto(x, key)
    BY <2>4, <2>6 DEF Contract!CountInto, Counted1, Counted2
  <2> QED
    BY <2>5, <2>7 DEF Contract!Process
<1>15. CASE /\ d.mode = "LOCAL_ONLY"
            /\ \E N, lost : LocalOnlyTurn(t, N, lost)
  <2>1. PICK N, lost : LocalOnlyTurn(t, N, lost)
    BY <1>15
  <2>2. PICK P, events : P = {} /\ events = Context
    OBVIOUS
  <2>3. /\ Turn(N, P, lost) /\ aggregator' = aggregator /\ routed' = {}
        /\ Ids(P) = {} /\ Ids(N) = SummaryIds(retained, retained')
    BY <2>1, <2>2 DEF LocalOnlyTurn, SummariesKept, Ids
  <2>4. \A m : Event(m) \notin Ids(N)
    BY <2>3 DEF SummaryIds, Event
  <2>5. \A m : m \in events <=>
                 (m \in Context \/ Event(m) \in Ids(N)) /\ Event(m) \notin Ids(P)
    BY <2>2, <2>3, <2>4
  <2>6. \A m : Event(m) \in OfMode("LOCAL_ONLY")' <=>
                 Event(m) \in OfMode("LOCAL_ONLY") \/ m \in {x}
    <3>1. \A m : Event(m) = id <=> m = x
      BY <1>3 DEF Event
    <3> QED
      BY <1>7, <1>15, <3>1
  <2>7. Contract!Hold(events, {x})
    BY <2>3, <2>5, <2>6, TurnHolds
  <2>8. Counts' = Counts
    BY <1>8, <1>9, <1>15, <2>3, CountsSame
  <2>9. Returned' = {}
    BY <2>3 DEF Returned
  <2> QED
    BY <2>2, <2>7, <2>8, <2>9 DEF Contract!Process, Contract!KeepOnHost
<1> QED
  BY <1>6, <1>11, <1>12, <1>13, <1>14, <1>15 DEF ProcessTurn

LEMMA FlushImplements ==
  ASSUME RouterInv, RouterInv', NEW t \in Int, NEW force \in BOOLEAN, Flush(t, force)
  PROVE  Contract!RouterNext
<1>1. PICK N, lost, L : FlushTurn(t, force, N, lost, L)
  BY FlushTurns
<1>2. PICK P, events : P = {} /\ events = Context
  OBVIOUS
<1>3. /\ Turn(N, P, lost) /\ received' = received
      /\ Ids(P) = {} /\ Ids(N) = SummaryIds(retained, retained')
      /\ L \subseteq ToSet(aggregator) /\ (force => L = ToSet(aggregator))
      /\ ToSet(aggregator') = ToSet(aggregator) \ L
  BY <1>1, <1>2 DEF FlushTurn, SummariesKept, Ids
<1>4. PICK l : ToSet(l) = L /\ routed' = Summaries(l)
  BY <1>1 DEF FlushTurn
<1>5. (\A k : OfKey(k)' = OfKey(k)) /\ OfMode("LOCAL_ONLY")' = OfMode("LOCAL_ONLY")
  BY <1>3 DEF OfKey, OfMode
<1>6. Contract!Hold(Context, {})
  <2>1. \A m : Event(m) \notin Ids(N)
    BY <1>3 DEF SummaryIds, Event
  <2>2. \A m : m \in events <=>
                 (m \in Context \/ Event(m) \in Ids(N)) /\ Event(m) \notin Ids(P)
    BY <1>2, <1>3, <2>1
  <2>3. \A m : Event(m) \in OfMode("LOCAL_ONLY")' <=>
                 Event(m) \in OfMode("LOCAL_ONLY") \/ m \in {}
    BY <1>5
  <2>4. Contract!Hold(events, {})
    BY <1>3, <2>2, <2>3, TurnHolds
  <2> QED
    BY <1>2, <2>4
<1>7. BucketFacts /\ BucketFacts'
  BY BucketsAre, BucketsStay
<1>8. \E due \in IF force THEN {AggregatedKeys} ELSE SUBSET AggregatedKeys :
        /\ Returned' = Contract!Summaries(due)
        /\ Counts' = [k \in AggregatedKeys |-> IF k \in due THEN {} ELSE Counts[k]]
  BY <1>3, <1>4, <1>5, <1>7, FlushMoves
<1>9. Contract!Flush(force)
  BY <1>6, <1>8 DEF Contract!Flush
<1> QED
  BY <1>9 DEF Contract!RouterNext

\* The initial state and every step map to the abstract router's.
LEMMA InitImplements ==
  ASSUME Init
  PROVE  Contract!RouterInit
<1>1. /\ received = <<>> /\ aggregator = <<>> /\ evicted = {} /\ routed = {}
      /\ HeldIn(buffer) = {}
  BY EmptyMoves DEF Init
<1>2. OfMode("LOCAL_ONLY") = {} /\ ToSet(aggregator) = {}
  BY <1>1 DEF OfMode, ToSet
<1>3. Context = {} /\ OnHost = {}
  BY <1>1, <1>2 DEF Context, OnHost, Numbers, Ids, HeldIn
<1>4. \A k : BucketOf(k) = {}
  BY <1>2 DEF BucketOf
<1>5. Counts = [k \in AggregatedKeys |-> {}]
  BY <1>4 DEF Counts
<1>6. Returned = {}
  BY <1>1 DEF Returned
<1> QED
  BY <1>3, <1>5, <1>6 DEF Contract!RouterInit

LEMMA StepImplements ==
  ASSUME RouterInv, RouterInv', [Next]_vars
  PROVE  [Contract!RouterNext]_(Contract!routerVars)
<1>1. CASE \E e \in Templates : Process(e)
  BY <1>1, ProcessImplements
<1>2. ASSUME NEW d \in 0..Lag, Flush(clock - d, FALSE) PROVE Contract!RouterNext
  <2>1. PICK t : t = clock - d
    OBVIOUS
  <2>2. clock \in Int /\ d \in Int
    BY RouterAssumption DEF RouterInv
  <2>3. Flush(t, FALSE)
    BY <1>2, <2>1
  <2>4. t \in Int
    BY <2>1, <2>2
  <2> QED
    BY <2>3, <2>4, FlushImplements
<1>3. CASE Flush(clock, TRUE)
  <2>1. PICK t : t = clock
    OBVIOUS
  <2>2. t \in Int /\ Flush(t, TRUE)
    BY <1>3, <2>1 DEF RouterInv
  <2> QED
    BY <2>2, FlushImplements
<1>4. CASE Tick \/ UNCHANGED vars
  <2>1. UNCHANGED <<buffer, aggregator, received, evicted, routed>>
    BY <1>4 DEF Tick, vars
  <2>2. Context' = Context
    BY <2>1 DEF Context
  <2>3. OnHost' = OnHost
    BY <2>1 DEF OnHost, OfMode
  <2>4. Returned' = Returned
    BY <2>1 DEF Returned
  <2>5. BucketFacts /\ BucketFacts' /\ \A k : OfKey(k)' = OfKey(k)
    BY <2>1, BucketsAre, BucketsStay DEF OfKey
  <2>6. Counts' = Counts
    BY <2>1, <2>5, CountsSame
  <2> QED
    BY <2>2, <2>3, <2>4, <2>6 DEF Contract!routerVars
<1> QED
  BY <1>1, <1>2, <1>3, <1>4 DEF Next

\* The router implements EventRouter: every event it is given is in the buffer, in
\* a count, returned, or dropped on the host, and never in two of them; a call
\* returns only what the buffer and the aggregator give up
\* (upload_router.go:71-137, 173-185).
THEOREM RouterImplementsContract == Spec => ImplementsEventRouter
<1>1. Init => Contract!RouterInit
  BY InitImplements
<1>2. RouterInv /\ RouterInv' /\ [Next]_vars => [Contract!RouterNext]_(Contract!routerVars)
  BY StepImplements
<1> QED
  BY <1>1, <1>2, RouterInvariant, PTL DEF Spec, ImplementsEventRouter, Contract!RouterSpec
=============================================================================
