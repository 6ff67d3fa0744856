----------------------------- MODULE EdiRegistry -----------------------------
(***************************************************************************)
(* libedi/init.c and libedi/detect.c: the process-wide table of named      *)
(* parameter sets, filled once with the presets, looked up and extended by *)
(* any thread, and searched for a detector that knows a message.  What     *)
(* detect.c does under its lock in one go is one step; the overwriting of  *)
(* an entry in place is several, because edi_detect_get hands out pointers *)
(* that are read without the lock.                                         *)
(***************************************************************************)
EXTENDS Integers, Sequences, FiniteSets

CONSTANTS
  Threads, NoThread,
  Names,      \* names callers use; NoName is a NULL name or an unnamed entry
  NoName,
  Stored,     \* strncpy into name[32]: the name that an entry gets
  Params,     \* the parameter sets callers register
  Zero, Defaults,  \* an entry cleared by memset, and the built-in separators
  Tags,       \* the strings detectors look for
  Freed,      \* a detectstr that was freed and set to NULL
  Presets,    \* the three calls of edi__detect_init: name, params, tags
  MaxCalls    \* bound on the calls of all threads

ASSUME EdiRegistryAssumption ==
  /\ NoThread \notin Threads
  /\ NoName \notin Names
  /\ Stored \in [Names -> Names]
  /\ \A n \in Names : Stored[Stored[n]] = Stored[n]
  /\ Freed \notin Tags
  /\ MaxCalls \in Nat

AllParams == Params \union {Presets[i].params : i \in DOMAIN Presets}

ASSUME SetsOfParamsAssumption == {Zero, Defaults} \intersect AllParams = {}

\* The names of the presets are different and short enough for name[32].
ASSUME PresetsAssumption ==
  /\ Presets \in Seq([name : Names, params : AllParams, tags : Seq(Tags)])
  /\ Presets # <<>>
  /\ \A i, j \in DOMAIN Presets : Presets[i].name = Presets[j].name => i = j
  /\ \A i \in DOMAIN Presets : Stored[Presets[i].name] = Presets[i].name

VARIABLES
  complete,     \* edi__init_complete
  initlock,     \* edi__init_lock: its holder
  detectlock,   \* detectlock: its holder
  registry,     \* detectparams
  pc, call,     \* per thread: where it is, and the call it makes
  progress,     \* per thread: the preset and detector edi__detect_init is at, or 0
  target,       \* per thread: the entry it has a pointer to
  view,         \* per thread: the separators it read last
  calls,        \* bound: calls made
  registered,   \* history: how often callers registered a name
  oom           \* history: an allocation failed

locks   == <<complete, initlock>>
history == <<registered, oom>>
vars == <<locks, detectlock, registry, pc, call, progress, target, view, calls, history>>

Calls == [op : {"register"}, name : Names \union {NoName}, params : Params]
           \union [op : {"get"}, name : Names]
           \union [op : {"detect"}, tag : Tags]

NoCall == [op |-> "none"]
NoProgress == [preset |-> 0, detector |-> 0]

\* The separators are two fields, enough to tell a whole set from a torn one.
\* gen counts (history) how often the entry was overwritten.
Entry(name, p, slots) ==
  [name |-> name, first |-> p, second |-> p, tags |-> <<>>, slots |-> slots, gen |-> 0]

\* What a thread read: gen is that of the entry at the lookup, and stale
\* (history) says that the entry was overwritten before it was read.
NoView == [first |-> Zero, second |-> Zero, gen |-> 0, stale |-> TRUE]

Init ==
  /\ complete = FALSE /\ initlock = NoThread /\ detectlock = NoThread
  /\ registry = <<>>
  /\ pc = [t \in Threads |-> "idle"]
  /\ call = [t \in Threads |-> NoCall]
  /\ progress = [t \in Threads |-> NoProgress]
  /\ target = [t \in Threads |-> 0]
  /\ view = [t \in Threads |-> NoView]
  /\ calls = 0
  /\ registered = [n \in Names |-> 0]
  /\ oom = FALSE

Goto(t, l) == pc' = [pc EXCEPT ![t] = l]

-----------------------------------------------------------------------------
(* Every entry point calls edi__init first. *)

Call(t) ==
  /\ pc[t] = "idle" /\ calls < MaxCalls
  /\ \E c \in Calls : call' = [call EXCEPT ![t] = c]
  /\ calls' = calls + 1
  /\ view' = [view EXCEPT ![t] = NoView]
  /\ Goto(t, "init")
  /\ UNCHANGED <<locks, detectlock, registry, progress, target, history>>

\* Mutant of InitFree: the presets are registered without edi__init_lock.
InitAlwaysFree == TRUE

InitFree == initlock = NoThread

EnterInit(t) ==
  /\ pc[t] = "init" /\ InitFree
  /\ IF complete
     THEN Goto(t, call[t].op) /\ UNCHANGED <<initlock, progress>>
     ELSE /\ Goto(t, "register") /\ initlock' = t
          /\ progress' = [progress EXCEPT ![t].preset = 1]
  /\ UNCHANGED <<complete, detectlock, registry, call, target, view, calls, history>>

Initialising(t) == progress[t].preset > 0

Preset(t) == Presets[progress[t].preset]

\* edi__detect_register for the next detector of the preset, if there is one.
MoreDetectors(t) == progress[t].detector < Len(Preset(t).tags)

AddDetector(t) ==
  /\ pc[t] = "detectors" /\ MoreDetectors(t) /\ detectlock = NoThread
  /\ progress' = [progress EXCEPT ![t].detector = @ + 1]
  /\ \/ /\ ~registry[target[t]].slots
        /\ Goto(t, "undefined")           \* memcpy to a NULL array
        /\ UNCHANGED <<registry, oom>>
     \/ /\ registry[target[t]].slots
        /\ registry' = [registry EXCEPT ![target[t]].tags =
                          Append(@, Preset(t).tags[progress'[t].detector])]
        /\ UNCHANGED <<pc, oom>>
     \/ /\ registry[target[t]].slots      \* strdup fails: the -1 is ignored
        /\ oom' = TRUE
        /\ UNCHANGED <<pc, registry>>
  /\ UNCHANGED <<locks, detectlock, call, target, view, calls, registered>>

NextPreset(t) ==
  /\ pc[t] = "detectors" /\ ~MoreDetectors(t)
  /\ progress[t].preset < Len(Presets)
  /\ progress' = [progress EXCEPT ![t] = [preset |-> @.preset + 1, detector |-> 0]]
  /\ Goto(t, "register")
  /\ UNCHANGED <<locks, detectlock, registry, call, target, view, calls, history>>

\* Mutant of UnlockInit: edi__init returns with its lock held.
UnlockInitNot == UNCHANGED initlock

UnlockInit == initlock' = NoThread

\* edi__init_complete is set whatever edi__detect_init came to.
LeaveInit(t) ==
  /\ pc[t] = "detectors" /\ ~MoreDetectors(t)
  /\ progress[t].preset = Len(Presets)
  /\ complete' = TRUE /\ UnlockInit
  /\ progress' = [progress EXCEPT ![t] = NoProgress]
  /\ Goto(t, call[t].op)
  /\ UNCHANGED <<detectlock, registry, call, target, view, calls, history>>

-----------------------------------------------------------------------------
(* edi__detect_register_params, for a preset or for edi_params_register. *)

Arguments(t) ==
  IF Initialising(t) THEN [name |-> Preset(t).name, params |-> Preset(t).params]
                     ELSE [name |-> call[t].name, params |-> call[t].params]

AfterRegister(t) == IF Initialising(t) THEN "detectors" ELSE "idle"

StoredName(n) == IF n = NoName THEN NoName ELSE Stored[n]

\* Mutant of Named: the search stops one entry early.
NamedButLast(n) == {c \in 1..(Len(registry) - 1) : n # NoName /\ registry[c].name = n}

Named(n) == {c \in DOMAIN registry : n # NoName /\ registry[c].name = n}

Count(t, n) ==
  IF Initialising(t) \/ n = NoName THEN registered ELSE [registered EXCEPT ![n] = @ + 1]

NewIndex == Len(registry) + 1

RegisterNew(t) ==
  LET n == StoredName(Arguments(t).name)
  IN  /\ pc[t] = "register" /\ detectlock = NoThread
      /\ Named(n) = {}
      /\ \E slots \in BOOLEAN :           \* rp_init's calloc, its -1 ignored
           /\ registry' = Append(registry, Entry(n, Arguments(t).params, slots))
           /\ oom' = (oom \/ ~slots)
      /\ target' = [target EXCEPT ![t] = NewIndex]
      /\ registered' = Count(t, n)
      /\ Goto(t, AfterRegister(t))
      /\ UNCHANGED <<locks, detectlock, call, progress, view, calls>>

\* No entry is added.  edi__detect_regset uses the NULL it gets.
RegisterFails(t) ==
  /\ pc[t] = "register" /\ detectlock = NoThread
  /\ Named(StoredName(Arguments(t).name)) = {}
  /\ oom' = TRUE
  /\ Goto(t, IF Initialising(t) THEN "undefined" ELSE "idle")
  /\ UNCHANGED <<locks, detectlock, registry, call, progress, target, view, calls, registered>>

\* The name is known: the entry is overwritten where it stands, lock in hand.
RegisterAgain(t) ==
  /\ pc[t] = "register" /\ detectlock = NoThread
  /\ \E c \in Named(StoredName(Arguments(t).name)) : target' = [target EXCEPT ![t] = c]
  /\ detectlock' = t
  /\ registered' = Count(t, StoredName(Arguments(t).name))
  /\ Goto(t, "cleanup")
  /\ UNCHANGED <<locks, registry, call, progress, view, calls, oom>>

Overwrite(t, e) == registry' = [registry EXCEPT ![target[t]] = e]

Cleanup(t) ==
  /\ pc[t] = "cleanup"
  /\ LET e == registry[target[t]]
     IN  Overwrite(t, [e EXCEPT !.tags = [i \in DOMAIN @ |-> Freed], !.gen = @ + 1])
  /\ Goto(t, "clear")
  /\ UNCHANGED <<locks, detectlock, call, progress, target, view, calls, history>>

\* memset of the whole entry: the name goes as well and is not set again.
Cleared(e) ==
  [e EXCEPT !.name = NoName, !.first = Zero, !.second = Zero, !.tags = <<>>]

Clear(t) ==
  /\ pc[t] = "clear"
  /\ Overwrite(t, Cleared(registry[target[t]]))
  /\ Goto(t, "default")
  /\ UNCHANGED <<locks, detectlock, call, progress, target, view, calls, history>>

\* edi__detect_params_copy writes the defaults, then what it was given.
Default(t) ==
  /\ pc[t] = "default"
  /\ Overwrite(t, [registry[target[t]] EXCEPT !.first = Defaults, !.second = Defaults])
  /\ Goto(t, "fill")
  /\ UNCHANGED <<locks, detectlock, call, progress, target, view, calls, history>>

Fill(t) ==
  /\ pc[t] = "fill"
  /\ \E slots \in BOOLEAN :
       /\ Overwrite(t, [registry[target[t]] EXCEPT !.first = Arguments(t).params,
                          !.second = Arguments(t).params, !.slots = slots])
       /\ oom' = (oom \/ ~slots)
  /\ detectlock' = NoThread
  /\ Goto(t, AfterRegister(t))
  /\ UNCHANGED <<locks, call, progress, target, view, calls, registered>>

-----------------------------------------------------------------------------
(* edi_detect_get and edi_detect_get_params, and their caller. *)

\* Mutant of LookupFree: the table is searched without detectlock.
LookupAlwaysFree == TRUE

LookupFree == detectlock = NoThread

Get(t) ==
  /\ pc[t] = "get" /\ LookupFree
  /\ IF Named(call[t].name) = {}
     THEN Goto(t, "idle") /\ UNCHANGED <<target, view>>
     ELSE \E c \in Named(call[t].name) :
            /\ target' = [target EXCEPT ![t] = c]
            /\ view' = [view EXCEPT ![t] = [@ EXCEPT !.gen = registry[c].gen]]
            /\ Goto(t, "read first")
  /\ UNCHANGED <<locks, detectlock, registry, call, progress, calls, history>>

\* edi_interchange_build reads the separators one at a time, with no lock.
ReadFirst(t) ==
  /\ pc[t] = "read first"
  /\ view' = [view EXCEPT ![t].first = registry[target[t]].first]
  /\ Goto(t, "read second")
  /\ UNCHANGED <<locks, detectlock, registry, call, progress, target, calls, history>>

ReadSecond(t) ==
  LET e == registry[target[t]]
  IN  /\ pc[t] = "read second"
      /\ view' = [view EXCEPT ![t].second = e.second,
                              ![t].stale = @ /\ view[t].gen # e.gen]
      /\ Goto(t, "idle")
      /\ UNCHANGED <<locks, detectlock, registry, call, progress, target, calls, history>>

-----------------------------------------------------------------------------
(* edi__detect: the first entry with a detector for the message, copied *)
(* before the lock is released.  A detector whose string is NULL is      *)
(* dereferenced by strlen.                                               *)

Knows(c, tag) == \E i \in DOMAIN registry[c].tags : registry[c].tags[i] = tag

FirstTo(tag) == {c \in DOMAIN registry :
                   Knows(c, tag) /\ \A b \in 1..(c - 1) : ~Knows(b, tag)}

ReadsFreed(tag) ==
  \E c \in DOMAIN registry : Knows(c, Freed) /\ \A b \in 1..(c - 1) : ~Knows(b, tag)

Detect(t) ==
  /\ pc[t] = "detect" /\ LookupFree
  /\ IF ReadsFreed(call[t].tag)
     THEN Goto(t, "undefined") /\ UNCHANGED view
     ELSE /\ Goto(t, "idle")
          /\ view' = [view EXCEPT ![t] =
               IF FirstTo(call[t].tag) = {} THEN NoView
               ELSE LET e == registry[CHOOSE c \in FirstTo(call[t].tag) : TRUE]
                    IN  [NoView EXCEPT !.first = e.first, !.second = e.second,
                                        !.stale = FALSE]]
  /\ UNCHANGED <<locks, detectlock, registry, call, progress, target, calls, history>>

-----------------------------------------------------------------------------
Step(t) ==
  \/ EnterInit(t) \/ AddDetector(t) \/ NextPreset(t) \/ LeaveInit(t)
  \/ RegisterNew(t) \/ RegisterFails(t) \/ RegisterAgain(t)
  \/ Cleanup(t) \/ Clear(t) \/ Default(t) \/ Fill(t)
  \/ Get(t) \/ ReadFirst(t) \/ ReadSecond(t) \/ Detect(t)

Next == \E t \in Threads : Call(t) \/ Step(t)

\* A thread that has made a call goes on with it; it need not make another.
Spec == Init /\ [][Next]_vars /\ \A t \in Threads : WF_vars(Step(t))

-----------------------------------------------------------------------------
(* Properties *)

\* edi__init lets no call through before every preset is in the table, once,
\* in order, with all its detectors, however many threads come first: the
\* presets callers have not registered over are what edi__detect_init made.
PresetsAreReady ==
  \A t \in Threads :
    pc[t] \in {"get", "detect"} /\ ~oom =>
      \A i \in DOMAIN Presets :
        /\ i \in DOMAIN registry
        /\ registered[Presets[i].name] = 0 =>
             /\ registry[i].name = Presets[i].name
             /\ registry[i].first = Presets[i].params
             /\ registry[i].tags = Presets[i].tags

\* A name stands for one entry at most, however many threads register it at once,
\* and for the entry of its one registration, that of the preset counted, until
\* there is a second: no registration of another name, nor one that finds no
\* memory, gives or takes a name.  Names that were registered over are the subject
\* of RegisteredIsFound; those longer than name[32] are registered as what is left
\* of them (detect.c:201-256).
NamesStandForOne ==
  complete /\ detectlock = NoThread =>
    \A n \in Names :
      LET preset == IF \E i \in DOMAIN Presets : Presets[i].name = n THEN 1 ELSE 0
          times  == preset + registered[n]
      IN  /\ Cardinality(Named(n)) <= 1
          /\ times <= 1 /\ n = Stored[n] => Cardinality(Named(n)) = times

\* Separators read through a pointer of edi_detect_get are one parameter set,
\* and not half of one and half of another, unless the entry was registered
\* over since the lookup.  Those edi__detect copies always are.  And no call
\* reads a detector string that another thread is freeing, nor a table that
\* initialisation could not allocate, unless memory ran out.
ReadsAreWhole ==
  \A t \in Threads :
    /\ pc[t] = "idle" /\ ~view[t].stale =>
         view[t].first = view[t].second /\ view[t].first \in AllParams
    /\ pc[t] = "undefined" => oom

\* Two locks, always taken in the order edi__init_lock, detectlock: every call
\* returns, unless one never did return from undefined behaviour.
CallsReturn ==
  \A t \in Threads :
    pc[t] # "idle" ~> pc[t] = "idle" \/ \E u \in Threads : pc[u] = "undefined"

\* detect.c:65: edi_params_register registers a set under a name, so that after
\* it has returned the set can be had by that name.
RegisteredIsFound ==
  detectlock = NoThread =>
    \A n \in Names : registered[n] > 0 => Named(n) # {}

=============================================================================
