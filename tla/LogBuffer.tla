----------------------------- MODULE LogBuffer -----------------------------
(***************************************************************************)
(* The ring buffer of recent log entries, filled by the tracing layer and  *)
(* emptied on request.  Entries are numbered in the order they are logged. *)
(***************************************************************************)
EXTENDS Integers, Sequences, FiniteSets

CONSTANTS
  LogRoom,     \* capacity
  Levels,      \* levels of entries
  LastEntry    \* bound: entries

ASSUME LogAssumption == LogRoom \in Nat \ {0} /\ LastEntry \in Nat

VARIABLES
  logs,        \* the buffer, oldest first
  logged,      \* history: the levels of all entries so far
  clearedAt    \* history: how many there were when it was cleared

logVars == <<logs, logged, clearedAt>>

LogInit == logs = <<>> /\ logged = <<>> /\ clearedAt = 0

(* Mutant: one entry more than the capacity. *)
PushedBeyond(entry) == IF Len(logs) > LogRoom THEN Append(Tail(logs), entry) ELSE Append(logs, entry)

(* push: the oldest makes room. *)
Pushed(entry) ==
  IF Len(logs) >= LogRoom THEN Append(Tail(logs), entry) ELSE Append(logs, entry)

(* on_event: an event without a message is not kept. *)
LogEvent(level) ==
  /\ Len(logged) < LastEntry
  /\ logged' = Append(logged, level)
  /\ logs' = Pushed([level |-> level, nr |-> Len(logged')])
  /\ UNCHANGED clearedAt

LogClear == logs' = <<>> /\ clearedAt' = Len(logged) /\ UNCHANGED logged

LogNext == LogClear \/ \E level \in Levels : LogEvent(level)

LogSpec == LogInit /\ [][LogNext]_logVars

-----------------------------------------------------------------------------
(* The last of a sequence. *)
LastOf(s, limit) == SubSeq(s, IF Len(s) > limit THEN Len(s) - limit + 1 ELSE 1, Len(s))

RecentLogs(limit) == LastOf(logs, limit)

(* recent_filtered: of those of the level, the last.  They keep the order   *)
(* that their numbers tell.                                                *)
FilteredLogs(limit, level) ==
  LET ofLevel == {i \in DOMAIN logs : logs[i].level = level}
  IN  {logs[i] : i \in {j \in ofLevel : Cardinality({k \in ofLevel : k > j}) < limit}}

LogTypeOK ==
  /\ logs \in Seq([level : Levels, nr : Nat]) /\ Len(logs) <= LogRoom
  /\ logged \in Seq(Levels) /\ clearedAt \in 0 .. Len(logged)

(* The entries the buffer has room for begin after this one.               *)
FirstKept == IF Len(logged) - clearedAt > LogRoom THEN Len(logged) - LogRoom ELSE clearedAt

(***************************************************************************)
(* Nothing recent is missing: what the logs page may ask for, with or      *)
(* without a level, is the last of what was logged since the buffer was    *)
(* cleared, as far as its capacity goes; all levels' entries in order.     *)
(***************************************************************************)
LogsAreNewest ==
  \A limit \in 1 .. LogRoom :
    /\ [i \in DOMAIN RecentLogs(limit) |-> RecentLogs(limit)[i].nr] =
         LastOf([i \in 1 .. Len(logged) - FirstKept |-> FirstKept + i], limit)
    /\ \A level \in Levels :
         LET ofLevel == {n \in FirstKept + 1 .. Len(logged) : logged[n] = level}
         IN  {e.nr : e \in FilteredLogs(limit, level)} =
               {n \in ofLevel : Cardinality({m \in ofLevel : m > n}) < limit}

(* Why: the buffer is the end of what was logged. *)
LogsAreTheEnd ==
  /\ Len(logs) = Len(logged) - FirstKept
  /\ \A i \in DOMAIN logs :
       logs[i] = [level |-> logged[FirstKept + i], nr |-> FirstKept + i]

LogInv == LogTypeOK /\ LogsAreTheEnd
=============================================================================
