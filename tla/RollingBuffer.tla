---------------------------- MODULE RollingBuffer ----------------------------
(***************************************************************************)
(* The collector's context buffer, internal/collector/rolling_buffer.go.   *)
(* Events that are only worth uploading if an alert follows are held here, *)
(* per scope (cgroup, container or process), until they expire, are pushed *)
(* out by newer ones, or are promoted because their scope raised an alert. *)
(*                                                                         *)
(* The buffer is one record: `global` and `scopes` are the two kinds of    *)
(* linked list of the code, each in arrival order; `scopeBytes` and        *)
(* `totalBytes` are its counters.  An absent map entry is <<>> or 0.       *)
(* UploadRouter reuses the operators; the specification at the end checks  *)
(* the component on its own.                                               *)
(***************************************************************************)
EXTENDS Integers, Lists

CONSTANTS
  Scopes,            \* the scopes events belong to
  TTL,               \* how long an entry stays useful
  MaxBytes,          \* limit on the whole buffer
  MaxBytesPerScope   \* limit on the entries of one scope

ASSUME BufferAssumption ==
  /\ TTL \in Nat \ {0}
  /\ MaxBytes \in Nat \ {0}
  /\ MaxBytesPerScope \in 1..MaxBytes

EmptyBuffer ==
  [global     |-> <<>>,
   scopes     |-> [s \in Scopes |-> <<>>],
   scopeBytes |-> [s \in Scopes |-> 0],
   totalBytes |-> 0]

Bytes(entries) == MapThenSumSet(LAMBDA e : e.size, entries)

(***************************************************************************)
(* removeLocked, once for each of `victims`: both lists and both counters  *)
(* forget an entry together, and a scope left empty leaves the maps.       *)
(***************************************************************************)
\* Faulty: forgets the scope's list and counter.
RemoveGlobalOnly(b, victims) ==
  [b EXCEPT !.global = Those(@, ToSet(@) \ victims),
            !.totalBytes = @ - Bytes(victims)]

RemoveEntries(b, victims) ==
  LET Kept(list) == Those(list, ToSet(list) \ victims)
      Freed(s)   == Bytes({e \in victims : e.scope = s})
  IN [global     |-> Kept(b.global),
      scopes     |-> [s \in Scopes |-> Kept(b.scopes[s])],
      scopeBytes |-> [s \in Scopes |-> IF Kept(b.scopes[s]) = <<>>
                                         THEN 0
                                         ELSE b.scopeBytes[s] - Freed(s)],
      totalBytes |-> b.totalBytes - Bytes(victims)]

(***************************************************************************)
(* expireLocked looks at the front of the global list only: it stops at    *)
(* the first entry younger than TTL, whatever stands behind it.            *)
(***************************************************************************)
\* Faulty: an entry exactly TTL old stays.
ExpiredStrictly(b, t) ==
  LET stale(k) == \A i \in 1..k : b.global[i].timestamp < t - TTL
      n == Max({k \in 0..Len(b.global) : stale(k)})
  IN ToSet(SubSeq(b.global, 1, n))

Expired(b, t) ==
  LET stale(k) == \A i \in 1..k : b.global[i].timestamp <= t - TTL
      n == Max({k \in 0..Len(b.global) : stale(k)})
  IN ToSet(SubSeq(b.global, 1, n))

\* The shortest front run of `list` that frees at least `excess` bytes.
FrontWorth(list, excess) ==
  LET run(k) == ToSet(SubSeq(list, 1, k))
  IN run(Min({k \in 0..Len(list) : Bytes(run(k)) >= excess}))

Push(b, e) ==
  [b EXCEPT !.global              = Append(@, e),
            !.scopes[e.scope]     = Append(@, e),
            !.scopeBytes[e.scope] = @ + e.size,
            !.totalBytes          = @ + e.size]

\* The two eviction loops of Add: the scope's own oldest entries, then the
\* oldest of all.
\* Faulty: a scope over its limit evicts from the front of the global list.
ScopeOverflowGlobally(b, s) ==
  FrontWorth(b.global, b.scopeBytes[s] - MaxBytesPerScope)

ScopeOverflow(b, s) == FrontWorth(b.scopes[s], b.scopeBytes[s] - MaxBytesPerScope)

\* Faulty: the second loop is missing.
NoGlobalOverflow(b) == {}

GlobalOverflow(b) == FrontWorth(b.global, b.totalBytes - MaxBytes)

TooLarge(e) == e.size > MaxBytes \/ e.size > MaxBytesPerScope

(***************************************************************************)
(* Add, called with the entry to insert at time e.timestamp: the buffer it *)
(* leaves and the entries it evicts (a refused entry counts as evicted, as *)
(* in the code's return value).                                            *)
(***************************************************************************)
Add(b, e) ==
  LET stale   == Expired(b, e.timestamp)
      live    == RemoveEntries(b, stale)
      full    == Push(live, e)
      trimmed == RemoveEntries(full, ScopeOverflow(full, e.scope))
      result  == RemoveEntries(trimmed, GlobalOverflow(trimmed))
  IN IF TooLarge(e)
       THEN [buffer |-> live, evicted |-> stale \union {e}]
       ELSE [buffer  |-> result,
             evicted |-> stale \union (ToSet(full.global) \ ToSet(result.global))]

(***************************************************************************)
(* Promote takes the scope's promotable entries out, oldest first.         *)
(***************************************************************************)
Promotable(list) == Those(list, {e \in ToSet(list) : e.promotable})

\* Faulty: the walk over the scope's list stops at the first entry it removes.
PromoteFirstOnly(b, s, t) ==
  LET stale    == Expired(b, t)
      live     == RemoveEntries(b, stale)
      wanted   == Promotable(live.scopes[s])
      promoted == IF wanted = <<>> THEN <<>> ELSE <<Head(wanted)>>
  IN [buffer   |-> RemoveEntries(live, ToSet(promoted)),
      promoted |-> promoted,
      evicted  |-> stale]

Promote(b, s, t) ==
  LET stale    == Expired(b, t)
      live     == RemoveEntries(b, stale)
      promoted == Promotable(live.scopes[s])
  IN [buffer   |-> RemoveEntries(live, ToSet(promoted)),
      promoted |-> promoted,
      evicted  |-> stale]

\* Stats and Snapshot change the buffer by expiry alone.
Expire(b, t) == [buffer |-> RemoveEntries(b, Expired(b, t)), evicted |-> Expired(b, t)]

-----------------------------------------------------------------------------
(***************************************************************************)
(* The component on its own.  Callers pass the time of each call, and the  *)
(* times need not increase: the runner passes time.Now to Process but the  *)
(* moment the ticker fired to Flush, and that tick may have waited behind  *)
(* a slow upload.  A call's time trails the clock by at most Lag.          *)
(***************************************************************************)
CONSTANTS
  Sizes,    \* entry sizes
  Lag,      \* bound: how far a call's time trails the clock
  MaxTime,  \* bound: the clock
  MaxAdds   \* bound: the entries offered

ASSUME CallAssumption ==
  /\ Sizes \subseteq Nat
  /\ Lag \in Nat

VARIABLES
  buffer,   \* the RollingBuffer object
  clock,    \* the time
  now,      \* the time passed to the last call
  added     \* entries offered so far; the next entry's identity

vars == <<buffer, clock, now, added>>

BufferInit ==
  /\ buffer = EmptyBuffer
  /\ clock = 0
  /\ now = 0
  /\ added = 0

AddEntry(s, size, promotable) ==
  /\ added < MaxAdds
  /\ added' = added + 1
  /\ now' \in (clock - Lag)..clock
  /\ buffer' = Add(buffer, [id |-> added', scope |-> s, timestamp |-> now',
                            size |-> size, promotable |-> promotable]).buffer
  /\ UNCHANGED clock

PromoteScope(s) ==
  /\ now' \in (clock - Lag)..clock
  /\ buffer' = Promote(buffer, s, now').buffer
  /\ UNCHANGED <<clock, added>>

ReadStats ==
  /\ now' \in (clock - Lag)..clock
  /\ buffer' = Expire(buffer, now').buffer
  /\ UNCHANGED <<clock, added>>

Tick ==
  /\ clock < MaxTime
  /\ clock' = clock + 1
  /\ UNCHANGED <<buffer, now, added>>

BufferNext ==
  \/ \E s \in Scopes, size \in Sizes, p \in BOOLEAN : AddEntry(s, size, p)
  \/ \E s \in Scopes : PromoteScope(s)
  \/ ReadStats
  \/ Tick

BufferSpec == BufferInit /\ [][BufferNext]_vars

-----------------------------------------------------------------------------
Held(b) == ToSet(b.global)

\* The scope lists are the global list split by scope, in the same order, and
\* the counters are the sizes of what the lists hold: Add and removeLocked
\* keep four structures in step (rolling_buffer.go:59-62, 131-147).
Bookkeeping ==
  /\ \A s \in Scopes :
       /\ buffer.scopes[s] = Those(buffer.global, {e \in Held(buffer) : e.scope = s})
       /\ buffer.scopeBytes[s] = Bytes(ToSet(buffer.scopes[s]))
  /\ buffer.totalBytes = Bytes(Held(buffer))

\* Neither memory limit is exceeded once a call has returned.
WithinLimits ==
  /\ buffer.totalBytes <= MaxBytes
  /\ \A s \in Scopes : buffer.scopeBytes[s] <= MaxBytesPerScope

\* Expiry only ever looks at the front of the list and call times may go
\* backwards, so an entry can outlive its TTL behind a younger front entry; but
\* never by more than the lag of the clock its callers use.
BoundedStaleness ==
  \A e \in Held(buffer) : e.timestamp > now - TTL - Lag

\* A scope that fills up evicts its own entries (rolling_buffer.go:63-70):
\* within a scope no entry outlives a newer one that was evicted, and a live
\* entry of another scope goes only when the whole buffer had no room for it
\* next to what stayed and what was evicted after it.
FairEviction ==
  [][LET lost  == Held(buffer) \ Held(buffer')
         alive == {e \in lost : e.timestamp > now' - TTL}
         newcomer == {e \in Held(buffer') : e.id = added'}
     IN added' # added =>
          /\ \A e \in lost, f \in Held(buffer') : e.scope = f.scope => e.id < f.id
          /\ \A e \in alive, n \in newcomer :
               e.scope # n.scope =>
                 buffer'.totalBytes + Bytes({f \in lost : f.id >= e.id}) > MaxBytes]_vars
=============================================================================
