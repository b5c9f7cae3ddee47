--------------------------- MODULE BehaviorEngine ---------------------------
(***************************************************************************)
(* The server's behavior engine, internal/behavior/engine.go: Derive is a  *)
(* pure function of all stored events.                                     *)
(*                                                                         *)
(* An event is a record of what the matching tells apart:                  *)
(*   time, host, container ("" on the host itself), pid, type              *)
(*   process, parent   "web", "shell", "downloader" or "other"             *)
(*   path, exec        the path touched and the executable's, "" if none   *)
(*   url, dest         "public", "private" or "" for none                  *)
(*   program           the file is marked executable or ELF                *)
(*   mode              the chmod makes it executable                       *)
(*   novel             first_seen or of no package or image                *)
(*   rare              baseline_occurrence_30d is at most 1                *)
(*   alert             security_alert                                      *)
(* Evidence holds the events themselves in place of their ids.  The code   *)
(* sorts by time and leaves equal times in either order; events here have  *)
(* distinct times.  Subjects, objects and details are left out.            *)
(***************************************************************************)
EXTENDS Integers

CONSTANTS
  TempPaths,   \* paths below /tmp, /var/tmp and /dev/shm
  Minute       \* how far apart the events of B003 and B004 may be

\* The code takes an event of no container to share the scope of every
\* container of its host, and not the reverse.
SameScope(a, b) == a.host = b.host /\ a.container \in {"", b.container}

Within(from, e, span) == e.time >= from.time /\ e.time - from.time <= span

Written(e) == e.type \in {"file_create", "file_write"} /\ e.path \in TempPaths

RunsTemp(e) == e.type = "process_exec" /\ e.exec \in TempPaths

\* What happened to a file within a minute after it was written.
Uses(e, view) ==
  {c \in view : /\ SameScope(e, c) /\ Within(e, c, Minute)
                /\ \/ c.type = "file_chmod" /\ c.path = e.path
                   \/ c.type = "process_exec" /\ c.exec = e.path}

\* A connection counts as one of a temporary program by the executable, or by
\* any event that ran one under the same pid, whatever its host and its time.
FromTemp(e, view) == e.exec \in TempPaths \/ \E c \in view : c.pid = e.pid /\ RunsTemp(c)

(***************************************************************************)
(* The behaviors of one event; B004 takes what later happened to the file  *)
(* as evidence.                                                            *)
(***************************************************************************)
Shows(code, e, view) ==
  CASE code = "B900" -> e.alert
    [] code = "B001" -> e.type = "process_exec" /\ e.parent = "web" /\ e.process = "shell"
    [] code = "B002" -> e.type = "process_exec" /\ e.parent = "shell" /\ e.process = "downloader"
    [] code = "B004" -> Written(e) /\ (e.program \/ Uses(e, view) # {})
    [] code = "B005" -> e.type = "file_chmod" /\ e.path \in TempPaths /\ e.mode
    [] code = "B006" -> RunsTemp(e)
    [] code = "B007" -> RunsTemp(e) /\ e.novel
    [] code = "B008" -> e.type = "network_connect" /\ FromTemp(e, view) /\ e.rare /\ e.dest = "public"

Codes == {"B900", "B001", "B002", "B004", "B005", "B006", "B007", "B008"}

Behavior(code, e, evidence) ==
  [code |-> code, time |-> e.time, scope |-> <<e.host, e.container>>, evidence |-> evidence]

(***************************************************************************)
(* B003: the first file that the process of a downloader with a public     *)
(* URL wrote to a temporary path within a minute.                          *)
(***************************************************************************)
Downloads(d, view) ==
  {f \in view : /\ d.type = "process_exec" /\ d.process = "downloader" /\ d.url = "public"
                /\ SameScope(d, f) /\ f.pid = d.pid /\ Written(f) /\ Within(d, f, Minute)}

FirstOf(events) == CHOOSE e \in events : \A f \in events : e.time <= f.time

Derive(view) ==
  {Behavior(c[1], c[2], {c[2]} \union (IF c[1] = "B004" THEN Uses(c[2], view) ELSE {})) :
     c \in {c \in Codes \X view : Shows(c[1], c[2], view)}}
  \union
  {LET f == FirstOf(Downloads(d, view)) IN Behavior("B003", f, {d, f}) :
     d \in {e \in view : Downloads(e, view) # {}}}
=============================================================================
