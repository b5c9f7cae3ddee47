----------------------------- MODULE ToolGateway -----------------------------
(***************************************************************************)
(* The guarded tool gateway of one AI investigation,                       *)
(* internal/agenttools/gateway.go, with the event and telemetry adapters   *)
(* behind it.  A call is checked, served from the cache or sent to the     *)
(* adapter of its tool within the budget, and its result is written to the *)
(* audit log before the caller gets it.  Queries are answered in pages; a  *)
(* signed cursor leads to the next page of the same query.                 *)
(*                                                                         *)
(* A query is the arguments of a call without its cursor, and its filter   *)
(* is the set of events the entity and the relation select.  A nil cursor  *)
(* is the one that points at offset 0 of the call's own query.  Run, scope *)
(* and snapshot, which the cursor and the cache key also name, are those   *)
(* of the investigation the gateway was made for.                          *)
(*                                                                         *)
(* Evidence ids are random; one result is fetched once per key (the cache  *)
(* keeps it for the run), so task, query and event identify an evidence.   *)
(***************************************************************************)
EXTENDS Naturals, FiniteSets, SequencesExt

CONSTANTS
  Candidates,    \* for each registered tool, the events in scope of its kinds
  Queries,       \* what callers ask: [tool, wanted, limit]
  Configured,    \* tools with an adapter
  Health,        \* tools that report on telemetry instead of events
  Malformed,     \* events that Event.Validate rejects
  ChunkSize,     \* events the adapter reads at a time (code: 50)
  ScanCap,       \* events it reads for one page (code: 500)
  MaxToolCalls   \* the budget of the run (code: 12)

Tools == DOMAIN Candidates

ASSUME GatewayAssumption ==
  /\ \A t \in Tools : IsInjective(Candidates[t]) /\ Candidates[t] \in Seq(ToSet(Candidates[t]))
  /\ \A q \in Queries : q.tool \in Tools /\ q.limit \in 1..ChunkSize
  /\ ChunkSize \in Nat \ {0} /\ ScanCap \in Nat /\ ScanCap % ChunkSize = 0
  /\ MaxToolCalls \in Nat \ {0}

VARIABLES
  cache,    \* keys of the results the gateway holds
  used,     \* calls reserved from the budget
  audited,  \* history: evidence whose result the audit log has
  answer    \* what the last Invoke returned

gatewayVars == <<cache, used, audited, answer>>

-----------------------------------------------------------------------------
\* EventAdapter.Query.  The place in the chunk where the page is full, or its end.
Filling(found, chunk, q) ==
  LET full == {n \in DOMAIN chunk :
                 found + Cardinality({i \in 1..n : chunk[i] \in q.wanted}) = q.limit}
  IN  IF full = {} THEN Len(chunk) ELSE Min(full)

ReadChunk(q, offset, page) ==
  LET all == Candidates[q.tool]
      from == offset + page.scanned
      chunk == SubSeq(all, from + 1, Min({from + ChunkSize, Len(all)}))
      n == Filling(Cardinality(page.events), chunk, q)
  IN  [events |-> page.events \union (ToSet(SubSeq(chunk, 1, n)) \intersect q.wanted),
       scanned |-> page.scanned + n,
       more |-> n < Len(chunk) \/ from + Len(chunk) < Len(all)]

ReadOn(q, offset, page) ==
  IF page.more /\ Cardinality(page.events) < q.limit /\ page.scanned < ScanCap
  THEN ReadChunk(q, offset, page) ELSE page

NothingRead == [events |-> {}, scanned |-> 0, more |-> TRUE]

Scan(q, offset) ==
  FoldLeft(LAMBDA page, k : ReadOn(q, offset, page), NothingRead,
           [k \in 1..(ScanCap \div ChunkSize) |-> k])

\* The telemetry adapter answers PARTIAL: never complete, no further page.
Page(q, offset) ==
  IF q.tool \in Health THEN [events |-> {}, complete |-> FALSE, next |-> 0]
  ELSE LET page == Scan(q, offset)
       IN  [events |-> page.events,
            complete |-> ~page.more,
            next |-> IF page.more THEN offset + page.scanned ELSE 0]

-----------------------------------------------------------------------------
NoAnswer == [code |-> "", retry |-> FALSE, events |-> {}, complete |-> FALSE, next |-> 0]

Failure(code, retry) == [NoAnswer EXCEPT !.code = code, !.retry = retry]

Result(page) ==
  [NoAnswer EXCEPT !.events = page.events, !.complete = page.complete, !.next = page.next]

Evidence(task, q, events) == {[task |-> task, query |-> q, event |-> e] : e \in events}

Key(task, call) == [task |-> task, query |-> call.query, offset |-> call.cursor.offset]

GatewayInit == cache = {} /\ used = 0 /\ audited = {} /\ answer = NoAnswer

\* What is refused before the cache is asked.  A cursor is good for its own query
\* until it expires; the query of another one, or another limit, is not its own.
\* Faulty: a cursor is not tied to its query.
RefusalsAnyCursor(call) ==
  IF call.args = "invalid" THEN {Failure("INVALID_ARGUMENTS", TRUE)}
  ELSE IF call.args = "foreign" THEN {Failure("SCOPE_VIOLATION", FALSE)}
  ELSE {}

Refusals(call) ==
  IF call.args = "invalid" THEN {Failure("INVALID_ARGUMENTS", TRUE)}
  ELSE IF call.args = "foreign" THEN {Failure("SCOPE_VIOLATION", FALSE)}
  ELSE IF call.cursor.query # call.query
       THEN {Failure("INVALID_CURSOR", FALSE), Failure("CURSOR_EXPIRED", FALSE)}
       ELSE {}

Refuse(call) ==
  /\ \/ answer' \in Refusals(call)
     \/ /\ call.args = "valid" /\ call.cursor.offset > 0
        /\ answer' = Failure("CURSOR_EXPIRED", FALSE)
  /\ UNCHANGED <<cache, used, audited>>

\* A result goes to the caller only when the audit log has it.
\* Faulty: a failed audit write is ignored.
DeliverUnaudited(task, call, written) ==
  LET page == Page(call.query, call.cursor.offset)
  IN  /\ audited' = IF written
                    THEN audited \union Evidence(task, call.query, page.events)
                    ELSE audited
      /\ answer' = Result(page)

Deliver(task, call, written) ==
  LET page == Page(call.query, call.cursor.offset)
  IN  IF written
      THEN /\ audited' = audited \union Evidence(task, call.query, page.events)
           /\ answer' = Result(page)
      ELSE /\ audited' = audited
           /\ answer' = Failure("PERSISTENCE_FAILURE", FALSE)

ServeCached(task, call) ==
  /\ Refusals(call) = {}
  /\ Key(task, call) \in cache
  /\ \E written \in BOOLEAN : Deliver(task, call, written)
  /\ UNCHANGED <<cache, used>>

\* Faulty: one call too many.
SpentLate == used > MaxToolCalls

Spent == used >= MaxToolCalls

\* No adapter, no audit record of the start, or no budget: nothing is queried.
Withhold(task, call) ==
  /\ Refusals(call) = {}
  /\ Key(task, call) \notin cache
  /\ IF call.query.tool \notin Configured
     THEN answer' = Failure("SOURCE_UNAVAILABLE", FALSE)
     ELSE \/ answer' = Failure("PERSISTENCE_FAILURE", FALSE)
          \/ Spent /\ answer' = Failure("BUDGET_EXCEEDED", FALSE)
  /\ UNCHANGED <<cache, used, audited>>

\* The adapter is asked; the call counts whatever becomes of it.
Fetch(task, call) ==
  /\ Refusals(call) = {}
  /\ Key(task, call) \notin cache
  /\ call.query.tool \in Configured
  /\ ~Spent
  /\ used' = used + 1
  /\ \/ /\ call.query.tool \notin Health
        /\ answer' = Failure("SOURCE_UNAVAILABLE", TRUE)
        /\ UNCHANGED <<cache, audited>>
     \/ IF Page(call.query, call.cursor.offset).events \intersect Malformed # {}
        THEN /\ answer' = Failure("RESULT_SCHEMA_INVALID", FALSE)
             /\ UNCHANGED <<cache, audited>>
        ELSE /\ cache' = cache \union {Key(task, call)}
             /\ \E written \in BOOLEAN : Deliver(task, call, written)

\* Gateway.Invoke.
Invoke(task, call) ==
  \/ Refuse(call)
  \/ ServeCached(task, call)
  \/ Withhold(task, call)
  \/ Fetch(task, call)
=============================================================================
