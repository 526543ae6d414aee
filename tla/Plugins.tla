------------------------------ MODULE Plugins ------------------------------
(***************************************************************************)
(* The plugin registry: callers activate, deactivate, call and replace a   *)
(* plugin at the same time.  The registry's own lock is never held over an *)
(* await but the one for itself, so that what is done under it is one      *)
(* step.  The lock of a plugin instance is held over its init, start, stop *)
(* and handle_request, and the registry's entry may change meanwhile.      *)
(***************************************************************************)
EXTENDS Integers

CONSTANTS
  Callers,
  SenseKinds,    \* the sense plugins that may be configured, and "none"
  MaxInstances   \* bound: plugins registered under the id

ASSUME PluginsAssumption == MaxInstances \in Nat \ {0}

VARIABLES
  sense,         \* which sense plugin the id stands for
  instance,      \* the instance the entry holds, 0: there is no entry
  entryState,    \* PluginEntry.state
  requests,      \* PluginEntry.requests and .errors, since the last change
  errors,        \*   of the entry, as "none" or "some"
  life,          \* what each instance has been through
  calls,         \* each caller's call: where it is, and with which instance
  overlapped     \* history: two calls that change the plugin overlapped

pluginVars == <<sense, instance, entryState, requests, errors, life, calls, overlapped>>

Instances == 1 .. MaxInstances
NoCall    == [at |-> "idle", of |-> 0]

Changing == {"init", "initing", "start", "starting", "activated",
             "stop", "stopping", "deactivated"}

(***************************************************************************)
(* register_sense_plugins: every configured plugin is registered and       *)
(* activated before anyone else sees the registry.                         *)
(***************************************************************************)
PluginsInit ==
  /\ sense \in SenseKinds
  /\ instance = (IF sense = "none" THEN 0 ELSE 1)
  /\ entryState = (IF sense = "none" THEN "unknown" ELSE "active")
  /\ requests = "none" /\ errors = "none"
  /\ life = [i \in Instances |-> IF i = instance THEN "running" ELSE "new"]
  /\ calls = [c \in Callers |-> NoCall]
  /\ overlapped = FALSE

-----------------------------------------------------------------------------
(* The lock of an instance. *)
(* Mutant: the write lock is kept between init and start. *)
WritingOn(i) ==
  \E c \in Callers : calls[c].of = i /\ calls[c].at \in {"initing", "start", "starting", "stopping"}

Writing(i) == \E c \in Callers : calls[c].of = i /\ calls[c].at \in {"initing", "starting", "stopping"}
Reading(i) == \E c \in Callers : calls[c].of = i /\ calls[c].at \in {"handling", "hung"}

Stands(c, step) == calls[c].at = step
MovesTo(c, step) == calls' = [calls EXCEPT ![c].at = step]
Returns(c) == calls' = [calls EXCEPT ![c] = NoCall]

Overlaps(c) == \E d \in Callers \ {c} : calls[d].at \in Changing

(* A step between two awaits that touches neither entry nor instance.      *)
Only(c, from, to) ==
  /\ Stands(c, from) /\ MovesTo(c, to)
  /\ UNCHANGED <<sense, instance, entryState, requests, errors, life, overlapped>>

LockToWrite(c, from, to) ==
  /\ ~Writing(calls[c].of) /\ ~Reading(calls[c].of)
  /\ Only(c, from, to)

(* The entry, if it is still there, whoever's instance it holds now. *)
SetEntry(state) ==
  /\ entryState' = (IF instance = 0 THEN entryState ELSE state)
  /\ UNCHANGED <<sense, instance, requests, overlapped>>

-----------------------------------------------------------------------------
(* register: the entry is replaced; its instance is not stopped. *)
Register(c) ==
  /\ Stands(c, "idle") /\ instance < MaxInstances
  /\ instance' = instance + 1 /\ entryState' = "registered"
  /\ requests' = "none" /\ errors' = "none"
  /\ overlapped' = (overlapped \/ Overlaps(c))
  /\ UNCHANGED <<sense, life, calls>>

(* activate returns at once when the plugin is active. *)
Activate(c) ==
  /\ Stands(c, "idle") /\ instance # 0 /\ entryState # "active"
  /\ entryState' = "initializing"
  /\ calls' = [calls EXCEPT ![c] = [at |-> "init", of |-> instance]]
  /\ overlapped' = (overlapped \/ Overlaps(c))
  /\ UNCHANGED <<sense, instance, requests, errors, life>>

(* init and start: each takes the instance's lock anew. *)
LockInit(c)  == LockToWrite(c, "init", "initing")
LockStart(c) == LockToWrite(c, "start", "starting")

(* An instance that has been started once stays one. *)
AfterInit(i) == IF life[i] \in {"new", "inited"} THEN "inited" ELSE "again"

Inited(c) ==
  /\ Stands(c, "initing") /\ MovesTo(c, "start")
  /\ life' = [life EXCEPT ![calls[c].of] = AfterInit(calls[c].of)]
  /\ UNCHANGED <<sense, instance, entryState, requests, errors, overlapped>>

Started(c) ==
  /\ Stands(c, "starting") /\ MovesTo(c, "activated")
  /\ life' = [life EXCEPT ![calls[c].of] = "running"]
  /\ UNCHANGED <<sense, instance, entryState, requests, errors, overlapped>>

InitOrStartFails(c) ==
  /\ calls[c].at \in {"initing", "starting"} /\ Returns(c)
  /\ SetEntry("error")
  /\ errors' = IF instance = 0 THEN errors ELSE "some"
  /\ UNCHANGED life

Activated(c) ==
  /\ Stands(c, "activated") /\ Returns(c)
  /\ SetEntry("active") /\ UNCHANGED <<errors, life>>

-----------------------------------------------------------------------------
(* deactivate: only an active plugin; an error of stop is only logged. *)
Deactivate(c) ==
  /\ Stands(c, "idle") /\ entryState = "active"
  /\ calls' = [calls EXCEPT ![c] = [at |-> "stop", of |-> instance]]
  /\ overlapped' = (overlapped \/ Overlaps(c))
  /\ UNCHANGED <<sense, instance, entryState, requests, errors, life>>

LockStop(c) == LockToWrite(c, "stop", "stopping")

Stopped(c) ==
  /\ Stands(c, "stopping") /\ MovesTo(c, "deactivated")
  /\ life' \in {life, [life EXCEPT ![calls[c].of] = "stopped"]}
  /\ UNCHANGED <<sense, instance, entryState, requests, errors, overlapped>>

(* Mutant: the entry stays active. *)
DeactivatedQuietly(c) ==
  /\ Stands(c, "deactivated") /\ Returns(c)
  /\ UNCHANGED <<sense, instance, entryState, requests, errors, life, overlapped>>

Deactivated(c) ==
  /\ Stands(c, "deactivated") /\ Returns(c)
  /\ SetEntry("stopped") /\ UNCHANGED <<errors, life>>

-----------------------------------------------------------------------------
(* dispatch: an active plugin handles the request; the entry, whichever it *)
(* is by then, counts it.                                                  *)
Dispatch(c) ==
  /\ Stands(c, "idle") /\ entryState = "active"
  /\ calls' = [calls EXCEPT ![c] = [at |-> "handle", of |-> instance]]
  /\ UNCHANGED <<sense, instance, entryState, requests, errors, life, overlapped>>

LockHandle(c) == ~Writing(calls[c].of) /\ Only(c, "handle", "handling")

(***************************************************************************)
(* What parse of a sense plugin comes to: the recogniser or the service    *)
(* fails, or there is a text, or none.  Whisper that leaves no file, an    *)
(* answer without choices and a video whose frames all fail have no text   *)
(* and no error.                                                           *)
(***************************************************************************)
OcrParse   == {"text", "fails"}
AsrParse   == {"text", "empty", "fails"}
ImageParse == {"text", "empty", "fails"}
VideoParse == {"text", "empty", "fails"}

Parses(kind) ==
  CASE kind = "ocr"   -> OcrParse
    [] kind = "asr"   -> AsrParse
    [] kind = "image" -> ImageParse
    [] kind = "video" -> VideoParse
    [] OTHER          -> {"text", "fails"}

Handled(c) ==
  /\ Stands(c, "handling")
  /\ \E result \in Parses(sense) :
       MovesTo(c, IF result = "fails" THEN "failed" ELSE "handled")
  /\ UNCHANGED <<sense, instance, entryState, requests, errors, life, overlapped>>

(***************************************************************************)
(* No parse has a timeout, neither the requests to the services nor the    *)
(* processes it starts: one that never ends keeps the instance's lock.     *)
(***************************************************************************)
Hangs(c) == Only(c, "handling", "hung")

Counted(c) ==
  /\ calls[c].at \in {"handled", "failed"} /\ Returns(c)
  /\ requests' = (IF instance = 0 THEN requests ELSE "some")
  /\ errors' = (IF Stands(c, "failed") /\ instance # 0 THEN "some" ELSE errors)
  /\ UNCHANGED <<sense, instance, entryState, life, overlapped>>

-----------------------------------------------------------------------------
CallGoesOn(c) ==
  \/ LockInit(c) \/ Inited(c) \/ LockStart(c) \/ Started(c) \/ InitOrStartFails(c)
  \/ Activated(c)
  \/ LockStop(c) \/ Stopped(c) \/ Deactivated(c)
  \/ LockHandle(c) \/ Handled(c) \/ Counted(c)

PluginsNext ==
  \E c \in Callers :
    Register(c) \/ Activate(c) \/ Deactivate(c) \/ Dispatch(c) \/ CallGoesOn(c) \/ Hangs(c)

(***************************************************************************)
(* The locks of tokio are fair: a call that waits gets its turn.  What a   *)
(* plugin does ends, unless it hangs: init, start and stop of the plugins  *)
(* there are await nothing.                                                *)
(***************************************************************************)
PluginsSpec ==
  PluginsInit /\ [][PluginsNext]_pluginVars /\ \A c \in Callers : SF_pluginVars(CallGoesOn(c))

-----------------------------------------------------------------------------
PluginsTypeOK ==
  /\ sense \in SenseKinds /\ instance \in 0 .. MaxInstances
  /\ entryState \in {"unknown", "registered", "initializing", "active", "error", "stopped"}
  /\ entryState = "unknown" <=> instance = 0
  /\ {requests, errors} \subseteq {"none", "some"}
  /\ life \in [Instances -> {"new", "inited", "running", "stopped", "again"}]
  /\ calls \in [Callers -> [at : Changing \cup {"idle", "handle", "handling", "hung", "handled", "failed"},
                            of : 0 .. MaxInstances]]
  /\ overlapped \in BOOLEAN

(***************************************************************************)
(* A plugin shown as active runs, unless two calls that change it met:     *)
(* whatever fails on the way, and whatever is called while it is on.       *)
(***************************************************************************)
ActiveIsRunning ==
  /\ ~overlapped /\ entryState = "active"
  /\ \A c \in Callers : calls[c].at \notin Changing
  => life[instance] = "running"

(***************************************************************************)
(* Why: as long as none overlap, the one call that changes the plugin has  *)
(* the instance of the entry, and shows it as active only after its start. *)
(***************************************************************************)
OneChanges ==
  \A c, d \in Callers : calls[c].at \in Changing /\ calls[d].at \in Changing => c = d

ChangesItsEntry ==
  \A c \in Callers :
    calls[c].at \in Changing =>
      /\ calls[c].of = instance /\ instance # 0
      /\ calls[c].at = "activated" => life[instance] = "running"

PluginsInv ==
  PluginsTypeOK /\ (~overlapped => OneChanges /\ ChangesItsEntry) /\ ActiveIsRunning

(***************************************************************************)
(* Every call ends, unless a parse hangs that holds the lock of the same   *)
(* instance (deactivate then waits behind it for ever): no call waits for  *)
(* a lock it holds itself, and no two for each other.                      *)
(***************************************************************************)
HungOn(i) == \E c \in Callers : calls[c].of = i /\ calls[c].at = "hung"

EveryCallEnds ==
  \A c \in Callers : calls[c].at # "idle" ~> calls[c].at = "idle" \/ HungOn(calls[c].of)
=============================================================================
