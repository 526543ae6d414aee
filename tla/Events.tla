------------------------------- MODULE Events -------------------------------
(***************************************************************************)
(* The events the node moves (RawEvent, src/src/collector/mod.rs) as the   *)
(* sync engine sees them.  An event is an opaque member of Event; what the *)
(* engine reads of it are its id, the hash of its payload, its timestamp   *)
(* and its tags.  Two events may share an id (telegram derives ids from    *)
(* the update number, an imported file may hold any id) and two events may *)
(* share a payload.                                                        *)
(***************************************************************************)
EXTENDS Integers

CONSTANTS
  Event,    \* the events producers may hand over
  Id,       \* the ids producers use
  Fresh,    \* an id no producer uses: the uuid drawn when both versions are kept
  Hash,     \* values of the payload hash
  TagKey,   \* tag names
  TagVal,   \* tag values
  IdOf,     \* [Event -> Id]
  HashOf,   \* [Event -> Hash]
  TimeOf,   \* [Event -> Int], timestamp_ms
  TagsOf    \* [Event -> TagMap]

TagMap == UNION {[K -> TagVal] : K \in SUBSET TagKey}

ASSUME EventAssumption ==
  /\ Fresh \notin Id
  /\ IdOf \in [Event -> Id]
  /\ HashOf \in [Event -> Hash]
  /\ TimeOf \in [Event -> Int]
  /\ TagsOf \in [Event -> TagMap]

(***************************************************************************)
(* Cache::hash_event compares payloads only: two events of one id with the *)
(* same payload are the same content, whatever their tags and timestamps.  *)
(***************************************************************************)
SameContent(e, f) == HashOf[e] = HashOf[f]

(***************************************************************************)
(* What is uploaded is a copy of an event: conflict resolution may change  *)
(* its id and its tags, never its payload.                                 *)
(***************************************************************************)
Copy == [ev : Event, id : Id \cup {Fresh}, tags : TagMap]

AsIs(e) == [ev |-> e, id |-> IdOf[e], tags |-> TagsOf[e]]
=============================================================================
