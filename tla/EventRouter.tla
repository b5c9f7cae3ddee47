----------------------------- MODULE EventRouter -----------------------------
(***************************************************************************)
(* What the collector's runner may expect of its router: the interface     *)
(* EventRouter of internal/collector/upload_router.go:20-23 with the       *)
(* behaviour common to every state of its implementation.  The router owns *)
(* each event it is given: it holds it as context, counts it into the      *)
(* bucket of its key, keeps it for good, or routes it in the call that     *)
(* returns it.  UploadRouter implements this module; Runner builds on it.  *)
(***************************************************************************)
EXTENDS Integers

CONSTANTS
  Events,  \* the events of the source
  Keys     \* aggregation keys

VARIABLES
  context,  \* events held for a later alert
  counted,  \* per key, the events its open bucket counts
  kept,     \* events that stay on the host: local-only, or context evicted
  routed    \* the items of the last call that its caller has not taken yet

routerVars == <<context, counted, kept, routed>>

\* An item carries one event, or the events its summary counts.
Item(events, priority, alert) ==
  [events |-> events, priority |-> priority, alert |-> alert]

Items == [events : SUBSET Events, priority : {"high", "normal"}, alert : BOOLEAN]

Summaries(ks) ==
  {Item(counted[k], "normal", FALSE) : k \in {j \in ks : counted[j] # {}}}

RouterInit ==
  /\ context = {}
  /\ counted = [k \in Keys |-> {}]
  /\ kept = {}
  /\ routed = {}

(***************************************************************************)
(* Process.  In every branch the buffer may evict some of the context it   *)
(* would otherwise hold on to; `local` is what stays on the host for good. *)
(***************************************************************************)
Hold(events, local) ==
  /\ context' \in SUBSET events
  /\ kept' = kept \union local \union (events \ context')

\* The event goes out at once; an alert takes context with it.
UploadNow(e) ==
  \E alert \in BOOLEAN, promoted \in SUBSET context :
    /\ routed' = {Item({c}, "high", FALSE) : c \in promoted}
                   \union {Item({e}, "high", alert)}
    /\ promoted # {} => alert
    /\ Hold(context \ promoted, {})
    /\ UNCHANGED counted

HoldAsContext(e) ==
  /\ routed' = {}
  /\ Hold(context \union {e}, {})
  /\ UNCHANGED counted

\* The bucket of key k counts the event.  A bucket that was due, or a bucket
\* that made room for k, is summarised.
CountInto(e, k) ==
  /\ \/ /\ routed' = {}
        /\ counted' = [counted EXCEPT ![k] = @ \union {e}]
     \/ \E j \in Keys :
          /\ j = k \/ counted[k] = {}
          /\ routed' = Summaries({j})
          /\ counted' = [counted EXCEPT ![j] = {}, ![k] = {e}]
  /\ Hold(context, {})

KeepOnHost(e) ==
  /\ routed' = {}
  /\ Hold(context, {e})
  /\ UNCHANGED counted

Process(e) ==
  \/ UploadNow(e)
  \/ HoldAsContext(e)
  \/ \E k \in Keys : CountInto(e, k)
  \/ KeepOnHost(e)

\* Flush summarises the buckets that are due, and with force all of them.
Flush(force) ==
  \E due \in IF force THEN {Keys} ELSE SUBSET Keys :
    /\ routed' = Summaries(due)
    /\ counted' = [k \in Keys |-> IF k \in due THEN {} ELSE counted[k]]
    /\ Hold(context, {})

-----------------------------------------------------------------------------
(***************************************************************************)
(* The router on its own: any calls in any order.  It is never given an    *)
(* event it still owns.                                                    *)
(***************************************************************************)
Owned == context \union kept \union UNION {counted[k] : k \in Keys}

RouterNext ==
  \/ \E e \in Events \ Owned : Process(e)
  \/ \E force \in BOOLEAN : Flush(force)

RouterSpec == RouterInit /\ [][RouterNext]_routerVars
=============================================================================
