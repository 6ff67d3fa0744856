------------------------- MODULE EdiRegistry_proofs -------------------------
(***************************************************************************)
(* Theorems about EdiRegistry for every number of threads and calls, every *)
(* set of names and parameters and every table of presets: about what is   *)
(* read through a pointer, and about what the table holds: the presets,    *)
(* once edi__init lets a call through, and one entry or none for a name.   *)
(***************************************************************************)
EXTENDS EdiRegistry, SequenceTheorems, FiniteSetTheorems, TLAPS

-----------------------------------------------------------------------------
(* The shape of the state.                                                  *)

Overwriting == {"cleanup", "clear", "default", "fill"}
Reading     == {"read first", "read second"}
Label == {"idle", "init", "register", "detectors", "get", "detect", "undefined"}
           \union Overwriting \union Reading

AnyParams == AllParams \union {Zero, Defaults}

RegistryEntry ==
  [name : Names \union {NoName}, first : AnyParams, second : AnyParams,
   tags : Seq(Tags \union {Freed}), slots : BOOLEAN, gen : Nat]

View == [first : AnyParams, second : AnyParams, gen : Nat, stale : BOOLEAN]

Progress == [preset : 0..Len(Presets), detector : Nat]

TypeOK ==
  /\ complete \in BOOLEAN
  /\ initlock \in Threads \union {NoThread}
  /\ detectlock \in Threads \union {NoThread}
  /\ registry \in Seq(RegistryEntry)
  /\ pc \in [Threads -> Label]
  /\ call \in [Threads -> Calls \union {NoCall}]
  /\ progress \in [Threads -> Progress]
  /\ target \in [Threads -> Nat]
  /\ view \in [Threads -> View]
  /\ registered \in [Names -> Nat]
  /\ oom \in BOOLEAN

\* What a thread may be doing: the call it makes fits where it is, a thread in
\* edi__detect_init is in the registration, and each lock has the one holder
\* that is inside the section it guards.
ControlAt(t) ==
  /\ Initialising(t) <=> initlock = t
  /\ Initialising(t) => pc[t] \in {"register", "detectors", "undefined"} \union Overwriting
  /\ pc[t] = "detectors" => Initialising(t)
  /\ pc[t] = "init" \/ Initialising(t) => call[t] \in Calls
  /\ pc[t] \in {"register"} \union Overwriting /\ ~Initialising(t) =>
       call[t] \in Calls /\ call[t].op = "register"
  /\ pc[t] = "get" => call[t] \in Calls /\ call[t].op = "get"
  /\ pc[t] = "detect" => call[t] \in Calls /\ call[t].op = "detect"
  /\ pc[t] \in Overwriting <=> detectlock = t
  /\ pc[t] \in Overwriting \union Reading \union {"detectors"} =>
       target[t] \in 1..Len(registry)

Control == \A t \in Threads : ControlAt(t)

\* Entries are whole but for the one that the holder of detectlock is writing,
\* and a reader whose entry was not overwritten reads from an entry no one is
\* writing.
EntryAt(c) ==
  /\ \/ \E t \in Threads : pc[t] \in {"default", "fill"} /\ target[t] = c
     \/ registry[c].first = registry[c].second /\ registry[c].first \in AllParams
  /\ \/ \E t \in Threads : pc[t] = "clear" /\ target[t] = c
     \/ registry[c].tags \in Seq(Tags)
  /\ registry[c].slots \/ oom

ReaderAt(t) ==
  pc[t] \in Reading =>
    /\ view[t].gen <= registry[target[t]].gen
    /\ view[t].gen = registry[target[t]].gen =>
         /\ \A u \in Threads :
              pc[u] \in {"clear", "default", "fill"} => target[u] # target[t]
         /\ pc[t] = "read second" => view[t].first = registry[target[t]].first

WholeEntries ==
  /\ \A c \in 1..Len(registry) : EntryAt(c)
  /\ \A t \in Threads : ReaderAt(t)

\* What a thread has read in the call it is in counts only when it is back.
ViewAt(t) ==
  /\ pc[t] # "idle" => view[t].stale
  /\ pc[t] = "idle" /\ ~view[t].stale =>
       view[t].first = view[t].second /\ view[t].first \in AllParams
  /\ pc[t] = "undefined" => oom

WholeViews == \A t \in Threads : ViewAt(t)

IInv == TypeOK /\ Control /\ WholeEntries /\ WholeViews

\* What is assumed of the presets, one by one.
LEMMA PresetFacts ==
  /\ Len(Presets) \in Nat \ {0} /\ DOMAIN Presets = 1..Len(Presets)
  /\ \A i \in 1..Len(Presets) : /\ Presets[i].name \in Names
                                /\ Presets[i].params \in AllParams
                                /\ Presets[i].tags \in Seq(Tags)
<1> DEFINE R == [name : Names, params : AllParams, tags : Seq(Tags)]
<1>1. Presets \in Seq(R) /\ Presets # <<>>
  BY PresetsAssumption
<1>2. \A r \in R : r.name \in Names /\ r.params \in AllParams /\ r.tags \in Seq(Tags)
  OBVIOUS
<1> HIDE DEF R
<1> QED BY <1>1, <1>2

\* What a call is about.
LEMMA CallFacts ==
  ASSUME NEW c \in Calls
  PROVE  /\ c.op \in {"register", "get", "detect"}
         /\ c.op = "register" => c.name \in Names \union {NoName} /\ c.params \in AllParams
         /\ c.op = "get" => c.name \in Names
         /\ c.op = "detect" => c.tag \in Tags
BY DEF Calls, AllParams

\* What a registration is about, whoever makes it.
LEMMA ArgumentFacts ==
  ASSUME TypeOK, Control, NEW t \in Threads,
         pc[t] \in {"register", "detectors"} \union Overwriting
  PROVE  /\ Arguments(t).name \in Names \union {NoName}
         /\ Arguments(t).params \in AllParams
         /\ StoredName(Arguments(t).name) \in Names \union {NoName}
<1>1. CASE Initialising(t)
  <2>1. progress[t].preset \in 1..Len(Presets)
    BY <1>1, PresetFacts DEF Initialising, TypeOK, Progress
  <2>2. Arguments(t).name \in Names /\ Arguments(t).params \in AllParams
    BY <1>1, <2>1, PresetFacts DEF Arguments, Preset
  <2> QED BY <2>2, EdiRegistryAssumption DEF StoredName
<1>2. CASE ~Initialising(t)
  <2>1. call[t] \in Calls /\ call[t].op = "register"
    BY <1>2 DEF Control, ControlAt, Overwriting
  <2>2. Arguments(t).name \in Names \union {NoName} /\ Arguments(t).params \in AllParams
    BY <1>2, <2>1, CallFacts DEF Arguments
  <2> QED BY <2>2, EdiRegistryAssumption DEF StoredName
<1> QED BY <1>1, <1>2

\* An empty table, and no thread in a call.
LEMMA InitialInvariant == Init => IInv
<1> SUFFICES ASSUME Init PROVE IInv
  OBVIOUS
<1>1. NoView \in View /\ NoProgress \in Progress /\ registry \in Seq(RegistryEntry)
  BY PresetFacts DEF Init, NoView, View, AnyParams, NoProgress, Progress
<1>2. TypeOK
  BY <1>1, EdiRegistryAssumption DEF Init, TypeOK, Label, NoView, NoProgress
<1>3. Control
  BY EdiRegistryAssumption DEF Init, Control, ControlAt, NoProgress, Initialising, Overwriting, Reading
<1>4. WholeEntries /\ WholeViews
  BY DEF Init, WholeEntries, EntryAt, ReaderAt, WholeViews, ViewAt, NoView, Reading
<1> QED BY <1>2, <1>3, <1>4 DEF IInv

-----------------------------------------------------------------------------
(* The table changes in two ways: an entry is added, or one is overwritten. *)

\* What RegisterNew appends is an entry.
LEMMA EntryIsEntry ==
  ASSUME NEW n \in Names \union {NoName}, NEW p \in AllParams, NEW slots \in BOOLEAN
  PROVE  Entry(n, p, slots) \in RegistryEntry
BY DEF Entry, RegistryEntry, AnyParams

\* One entry more, at the end.
LEMMA Appended ==
  ASSUME TypeOK, NEW e \in RegistryEntry, registry' = Append(registry, e)
  PROVE  /\ registry' \in Seq(RegistryEntry) /\ Len(registry) \in Nat
         /\ Len(registry') = Len(registry) + 1 /\ registry'[Len(registry) + 1] = e
         /\ \A c \in 1..Len(registry) : registry'[c] = registry[c]
BY DEF TypeOK

\* One entry changed, the others not.
LEMMA Overwritten ==
  ASSUME TypeOK, NEW t \in Threads, target[t] \in 1..Len(registry),
         NEW e \in RegistryEntry, Overwrite(t, e)
  PROVE  /\ registry' \in Seq(RegistryEntry) /\ Len(registry') = Len(registry)
         /\ registry'[target[t]] = e
         /\ \A c \in 1..Len(registry) : c # target[t] => registry'[c] = registry[c]
BY DEF TypeOK, Overwrite

\* Every step keeps the shape of the state.
LEMMA TypeStep ==
  ASSUME TypeOK, Control, [Next]_vars
  PROVE  TypeOK'
<1>1. ASSUME NEW t \in Threads, Call(t)
      PROVE  TypeOK'
  <2>1. NoView \in View
    BY DEF NoView, View, AnyParams
  <2> QED BY <1>1, <2>1 DEF Call, Goto, TypeOK, Label, locks, history
<1>2. ASSUME NEW t \in Threads, EnterInit(t)
      PROVE  TypeOK'
  <2>1. call[t] \in Calls /\ call[t].op \in Label
    BY <1>2, CallFacts DEF EnterInit, Control, ControlAt, Label
  <2>2. progress' \in [Threads -> Progress]
    <3>1. progress[t] \in Progress /\ 1 \in 0..Len(Presets)
      BY PresetFacts DEF TypeOK
    <3>2. [progress[t] EXCEPT !.preset = 1] \in Progress
      BY <3>1 DEF Progress
    <3> QED BY <1>2, <3>2 DEF EnterInit, TypeOK
  <2> QED BY <1>2, <2>1, <2>2 DEF EnterInit, Goto, TypeOK, Label, history
<1>3. ASSUME NEW t \in Threads, AddDetector(t)
      PROVE  TypeOK'
  <2>1. Initialising(t) /\ target[t] \in 1..Len(registry) /\ progress[t] \in Progress
    BY <1>3 DEF AddDetector, Control, ControlAt, TypeOK
  <2>2. progress[t].preset \in 1..Len(Presets) /\ progress[t].detector \in Nat
    BY <2>1, PresetFacts DEF Initialising, Progress
  <2>3. progress' \in [Threads -> Progress] /\ progress'[t].detector = progress[t].detector + 1
    <3> DEFINE q == [progress[t] EXCEPT !.detector = @ + 1]
    <3>1. q \in Progress /\ q.detector = progress[t].detector + 1
      BY <2>1, <2>2 DEF Progress
    <3>2. progress' = [progress EXCEPT ![t] = q]
      BY <1>3 DEF AddDetector
    <3> HIDE DEF q
    <3> QED BY <3>1, <3>2 DEF TypeOK
  <2>4. Preset(t).tags[progress'[t].detector] \in Tags
    <3>1. Preset(t).tags \in Seq(Tags) /\ progress[t].detector < Len(Preset(t).tags)
      BY <1>3, <2>2, PresetFacts DEF Preset, AddDetector, MoreDetectors
    <3> QED BY <2>2, <2>3, <3>1
  <2>5. registry' \in Seq(RegistryEntry)
    <3> DEFINE tag == Preset(t).tags[progress'[t].detector]
               e   == [registry[target[t]] EXCEPT !.tags = Append(@, tag)]
    <3>1. registry[target[t]] \in RegistryEntry /\ tag \in Tags
      BY <2>1, <2>4 DEF TypeOK
    <3>2. registry' = registry \/ registry' = [registry EXCEPT ![target[t]] = e]
      BY <1>3 DEF AddDetector
    <3> DEFINE r == registry[target[t]]
    <3> HIDE DEF tag, r
    <3>3. r.tags \in Seq(Tags \union {Freed}) /\ r \in RegistryEntry
      BY <3>1 DEF RegistryEntry, r
    <3>4. Append(r.tags, tag) \in Seq(Tags \union {Freed})
      BY <3>1, <3>3
    <3>5. e = [r EXCEPT !.tags = Append(r.tags, tag)]
      BY DEF r
    <3> HIDE DEF e
    <3>6. e \in RegistryEntry
      BY <3>3, <3>4, <3>5 DEF RegistryEntry
    <3>7. registry \in Seq(RegistryEntry)
      BY DEF TypeOK
    <3> QED BY <3>2, <3>6, <3>7, <2>1
  <2>6. pc' \in [Threads -> Label] /\ oom' \in BOOLEAN
    BY <1>3 DEF AddDetector, Goto, TypeOK, Label
  <2> QED BY <1>3, <2>3, <2>5, <2>6 DEF AddDetector, TypeOK, locks
<1>4. ASSUME NEW t \in Threads, NextPreset(t) \/ LeaveInit(t)
      PROVE  TypeOK'
  <2>1. /\ Initialising(t) /\ progress[t] \in Progress /\ call[t] \in Calls
        /\ call[t].op \in Label
    BY <1>4, CallFacts DEF NextPreset, LeaveInit, Control, ControlAt, TypeOK, Label
  <2>2. progress' \in [Threads -> Progress]
    <3>1. NoProgress \in Progress
      BY PresetFacts DEF NoProgress, Progress
    <3>2. progress[t].preset < Len(Presets) =>
            [preset |-> progress[t].preset + 1, detector |-> 0] \in Progress
      BY <2>1, PresetFacts DEF Progress
    <3> QED BY <1>4, <3>1, <3>2 DEF NextPreset, LeaveInit, TypeOK
  <2> QED BY <1>4, <2>1, <2>2 DEF NextPreset, LeaveInit, UnlockInit, Goto, TypeOK, Label,
       locks, history
<1>5. ASSUME NEW t \in Threads, RegisterNew(t)
      PROVE  TypeOK'
  <2>1. /\ StoredName(Arguments(t).name) \in Names \union {NoName}
        /\ Arguments(t).params \in AllParams
    BY <1>5, ArgumentFacts DEF RegisterNew
  <2>2. registry' \in Seq(RegistryEntry)
    BY <1>5, <2>1, EntryIsEntry, Appended DEF RegisterNew
  <2>3. /\ Count(t, StoredName(Arguments(t).name)) \in [Names -> Nat]
        /\ AfterRegister(t) \in Label /\ NewIndex \in Nat
    BY <2>1 DEF Count, TypeOK, AfterRegister, Label, NewIndex
  <2> QED BY <1>5, <2>2, <2>3 DEF RegisterNew, Goto, TypeOK, locks
<1>6. ASSUME NEW t \in Threads, RegisterFails(t)
      PROVE  TypeOK'
  BY <1>6 DEF RegisterFails, Goto, TypeOK, Label, locks
<1>7. ASSUME NEW t \in Threads, RegisterAgain(t)
      PROVE  TypeOK'
  <2>1. StoredName(Arguments(t).name) \in Names \union {NoName}
    BY <1>7, ArgumentFacts DEF RegisterAgain
  <2>2. Count(t, StoredName(Arguments(t).name)) \in [Names -> Nat]
    BY <2>1 DEF Count, TypeOK
  <2>3. \A c \in Named(StoredName(Arguments(t).name)) : c \in Nat
    BY DEF Named, TypeOK
  <2> QED BY <1>7, <2>2, <2>3 DEF RegisterAgain, Goto, TypeOK, Label, Overwriting, locks
<1>8. ASSUME NEW t \in Threads, Cleanup(t) \/ Clear(t) \/ Default(t) \/ Fill(t)
      PROVE  TypeOK'
  <2> DEFINE r == registry[target[t]]
  <2>1. pc[t] \in Overwriting /\ target[t] \in 1..Len(registry) /\ r \in RegistryEntry
    <3>1. pc[t] \in Overwriting
      BY <1>8 DEF Cleanup, Clear, Default, Fill, Overwriting
    <3>2. target[t] \in 1..Len(registry)
      BY <3>1 DEF Control, ControlAt
    <3> QED BY <3>1, <3>2 DEF TypeOK
  <2>2. Arguments(t).params \in AllParams
    BY <2>1, ArgumentFacts
  <2>3. /\ [r EXCEPT !.tags = [i \in DOMAIN @ |-> Freed], !.gen = @ + 1] \in RegistryEntry
        /\ Cleared(r) \in RegistryEntry
        /\ [r EXCEPT !.first = Defaults, !.second = Defaults] \in RegistryEntry
        /\ \A slots \in BOOLEAN :
             [r EXCEPT !.first = Arguments(t).params, !.second = Arguments(t).params,
                       !.slots = slots] \in RegistryEntry
    <3> HIDE DEF r
    <3>1. [i \in DOMAIN r.tags |-> Freed] \in Seq(Tags \union {Freed})
      <4> DEFINE n == Len(r.tags)
      <4>1. n \in Nat /\ DOMAIN r.tags = 1..n
        BY <2>1 DEF RegistryEntry
      <4> HIDE DEF n
      <4>2. [i \in 1..n |-> Freed] \in [1..n -> Tags \union {Freed}]
        OBVIOUS
      <4> QED BY <4>1, <4>2
    <3>2. [r EXCEPT !.tags = [i \in DOMAIN @ |-> Freed], !.gen = @ + 1] \in RegistryEntry
      <4> DEFINE freed == [i \in DOMAIN r.tags |-> Freed]
      <4>1. freed \in Seq(Tags \union {Freed}) /\ r.gen + 1 \in Nat
        BY <2>1, <3>1 DEF RegistryEntry
      <4>2. [r EXCEPT !.tags = [i \in DOMAIN @ |-> Freed], !.gen = @ + 1]
              = [r EXCEPT !.tags = freed, !.gen = r.gen + 1]
        OBVIOUS
      <4> HIDE DEF freed
      <4>3. [r EXCEPT !.tags = freed, !.gen = r.gen + 1] \in RegistryEntry
        BY <2>1, <4>1 DEF RegistryEntry
      <4> QED BY <4>2, <4>3
    <3>3. Cleared(r) \in RegistryEntry
      <4>1. Zero \in AnyParams /\ <<>> \in Seq(Tags \union {Freed})
        BY DEF AnyParams
      <4> HIDE DEF r
      <4> QED BY <2>1, <4>1 DEF RegistryEntry, Cleared
    <3>4. [r EXCEPT !.first = Defaults, !.second = Defaults] \in RegistryEntry
      <4>1. Defaults \in AnyParams
        BY DEF AnyParams
      <4> QED BY <2>1, <4>1 DEF RegistryEntry
    <3>5. ASSUME NEW slots \in BOOLEAN
          PROVE  [r EXCEPT !.first = Arguments(t).params, !.second = Arguments(t).params,
                           !.slots = slots] \in RegistryEntry
      <4>1. Arguments(t).params \in AnyParams
        BY <2>2 DEF AnyParams
      <4> QED BY <2>1, <4>1 DEF RegistryEntry
    <3> QED BY <3>2, <3>3, <3>4, <3>5
  <2>4. PICK e \in RegistryEntry : Overwrite(t, e)
    BY <1>8, <2>3 DEF Cleanup, Clear, Default, Fill
  <2>5. registry' \in Seq(RegistryEntry)
    BY <2>1, <2>4, Overwritten
  <2>6. pc' \in [Threads -> Label]
    BY <1>8 DEF Cleanup, Clear, Default, Fill, Goto, AfterRegister, TypeOK, Label, Overwriting
  <2> QED BY <1>8, <2>5, <2>6 DEF Cleanup, Clear, Default, Fill, TypeOK, locks, history
<1>9. ASSUME NEW t \in Threads, Get(t) \/ ReadFirst(t) \/ ReadSecond(t) \/ Detect(t)
      PROVE  TypeOK'
  <2>1. /\ \A c \in 1..Len(registry) :
             /\ registry[c].gen \in Nat
             /\ registry[c].first \in AnyParams /\ registry[c].second \in AnyParams
        /\ DOMAIN registry = 1..Len(registry) /\ 1..Len(registry) \subseteq Nat
        /\ view[t] \in View /\ NoView \in View
    <3>1. \A c \in 1..Len(registry) : registry[c] \in RegistryEntry
      BY DEF TypeOK
    <3>2. NoView \in View
      BY DEF NoView, View, AnyParams
    <3> QED BY <3>1, <3>2 DEF TypeOK, RegistryEntry
  <2>2. CASE Get(t)
    <3>1. pc' \in [Threads -> Label] /\ target' \in [Threads -> Nat]
      BY <2>1, <2>2 DEF Get, Goto, Named, TypeOK, Label, Reading
    <3>2. view' \in [Threads -> View]
      <4>1. \A c \in Named(call[t].name) : [view[t] EXCEPT !.gen = registry[c].gen] \in View
        BY <2>1 DEF Named, View
      <4>2. view \in [Threads -> View] /\ t \in Threads
        BY <2>1 DEF TypeOK
      <4>3. CASE UNCHANGED view
        BY <4>2, <4>3
      <4>4. ASSUME NEW c \in Named(call[t].name),
                   view' = [view EXCEPT ![t] = [@ EXCEPT !.gen = registry[c].gen]]
            PROVE  view' \in [Threads -> View]
        <5> DEFINE v == [view[t] EXCEPT !.gen = registry[c].gen]
        <5>1. v \in View /\ view' = [view EXCEPT ![t] = v]
          BY <4>1, <4>4
        <5> HIDE DEF v
        <5> QED BY <4>2, <5>1
      <4> QED BY <2>2, <4>3, <4>4, Zenon DEF Get
    <3> QED BY <2>2, <3>1, <3>2 DEF Get, TypeOK, locks, history
  <2>3. CASE ReadFirst(t)
    <3>1. target[t] \in 1..Len(registry)
      BY <2>3 DEF ReadFirst, Control, ControlAt, Reading
    <3>2. [view[t] EXCEPT !.first = registry[target[t]].first] \in View
      BY <2>1, <3>1 DEF View
    <3>3. view' = [view EXCEPT ![t] = [view[t] EXCEPT !.first = registry[target[t]].first]]
      BY <2>3 DEF ReadFirst
    <3>4. view' \in [Threads -> View]
      BY <3>2, <3>3 DEF TypeOK
    <3> QED BY <2>3, <3>4 DEF ReadFirst, Goto, TypeOK, locks, history, Label, Reading
  <2>4. CASE ReadSecond(t)
    <3> DEFINE e == registry[target[t]]
               v == [view[t] EXCEPT !.second = e.second, !.stale = @ /\ view[t].gen # e.gen]
    <3>1. target[t] \in 1..Len(registry)
      BY <2>4 DEF ReadSecond, Control, ControlAt, Reading
    <3>2. v \in View
      BY <2>1, <3>1 DEF View
    <3>3. view' = [view EXCEPT ![t] = v]
      BY <2>4 DEF ReadSecond, TypeOK
    <3> HIDE DEF v
    <3>4. view' \in [Threads -> View]
      BY <3>2, <3>3 DEF TypeOK
    <3> QED BY <2>4, <3>4 DEF ReadSecond, Goto, TypeOK, locks, history, Label
  <2>5. CASE Detect(t)
    <3> DEFINE c == CHOOSE x \in FirstTo(call[t].tag) : TRUE
    <3>1. FirstTo(call[t].tag) # {} => c \in 1..Len(registry)
      BY <2>1 DEF FirstTo
    <3>2. FirstTo(call[t].tag) # {} =>
            [NoView EXCEPT !.first = registry[c].first, !.second = registry[c].second,
                           !.stale = FALSE] \in View
      BY <2>1, <3>1 DEF View
    <3>3. view' \in [Threads -> View]
      BY <2>1, <2>5, <3>2 DEF Detect, TypeOK
    <3>4. pc' \in [Threads -> Label]
      BY <2>5 DEF Detect, Goto, TypeOK, Label
    <3> QED BY <2>5, <3>3, <3>4 DEF Detect, TypeOK, locks, history
  <2> QED BY <1>9, <2>2, <2>3, <2>4, <2>5
<1>10. CASE UNCHANGED vars
  BY <1>10 DEF vars, locks, history, TypeOK
<1> QED BY <1>1, <1>2, <1>3, <1>4, <1>5, <1>6, <1>7, <1>8, <1>9, <1>10 DEF Next, Step

\* What a step does not touch of a thread leaves it where it may be.
LEMMA OthersStayPut ==
  ASSUME Control, NEW t \in Threads, ControlAt(t)',
         Len(registry) \in Nat, Len(registry') \in Nat, Len(registry) <= Len(registry'),
         \A u \in Threads : u # t =>
           /\ pc'[u] = pc[u] /\ call'[u] = call[u] /\ progress'[u] = progress[u]
           /\ target'[u] = target[u]
           /\ initlock' = u <=> initlock = u
           /\ detectlock' = u <=> detectlock = u
  PROVE  Control'
<1>1. ASSUME NEW u \in Threads, u # t
      PROVE  ControlAt(u)'
  <2>1. ControlAt(u)
    BY DEF Control
  <2> QED BY <1>1, <2>1 DEF ControlAt, Initialising
<1> QED BY <1>1 DEF Control

\* A thread that goes on with its call, out of edi__init.
LEMMA AtCall ==
  ASSUME NEW t \in Threads, call'[t] \in Calls, pc'[t] = call'[t].op,
         progress'[t].preset = 0 \/ ~Initialising(t)', initlock' # t, detectlock' # t
  PROVE  ControlAt(t)'
<1>1. call'[t].op \in {"register", "get", "detect"} /\ ~Initialising(t)'
  BY CallFacts DEF Initialising
<1>2. /\ pc'[t] \notin Overwriting \union Reading \union {"detectors", "init"}
      /\ pc'[t] = call'[t].op
  BY <1>1 DEF Overwriting, Reading
<1> QED BY <1>1, <1>2 DEF ControlAt

\* Every step keeps threads where their calls and their locks have them.
LEMMA ControlStep ==
  ASSUME TypeOK, Control, [Next]_vars
  PROVE  Control'
<1>1. /\ Len(registry) \in Nat /\ NoThread \notin Threads
      /\ \A u \in Threads : ControlAt(u)
  BY EdiRegistryAssumption DEF TypeOK, Control
<1>2. ASSUME NEW t \in Threads, NEW l, Goto(t, l)
      PROVE  pc'[t] = l /\ \A u \in Threads : u # t => pc'[u] = pc[u]
  BY <1>2 DEF Goto, TypeOK
<1>3. ASSUME NEW t \in Threads, Call(t)
      PROVE  Control'
  <2>1. /\ call'[t] \in Calls /\ \A u \in Threads : u # t => call'[u] = call[u]
        /\ pc[t] = "idle" /\ UNCHANGED <<initlock, detectlock, registry, progress, target>>
    BY <1>3 DEF Call, TypeOK, locks
  <2>2. pc'[t] = "init" /\ \A u \in Threads : u # t => pc'[u] = pc[u]
    BY <1>2, <1>3 DEF Call
  <2>3. ControlAt(t)'
    BY <1>1, <2>1, <2>2 DEF ControlAt, Initialising, Overwriting, Reading
  <2> QED BY <1>1, <2>1, <2>2, <2>3, OthersStayPut
<1>4. ASSUME NEW t \in Threads, EnterInit(t)
      PROVE  Control'
  <2>1. /\ pc[t] = "init" /\ initlock = NoThread
        /\ UNCHANGED <<detectlock, registry, call, target>>
    BY <1>4 DEF EnterInit, InitFree
  <2>2. /\ ~Initialising(t) /\ initlock # t /\ detectlock # t
        /\ call[t] \in Calls /\ call[t].op \in {"register", "get", "detect"}
    BY <1>1, <2>1, CallFacts DEF ControlAt, Overwriting
  <2>3. CASE complete
    <3>1. UNCHANGED <<initlock, progress>>
      BY <1>4, <2>3 DEF EnterInit
    <3>2. /\ pc'[t] = call[t].op /\ ~Initialising(t)'
          /\ \A u \in Threads : u # t => pc'[u] = pc[u]
      BY <1>2, <1>4, <2>2, <2>3, <3>1 DEF EnterInit, Initialising
    <3>3. ControlAt(t)'
      BY <1>1, <2>1, <2>2, <3>1, <3>2, AtCall
    <3> QED BY <1>1, <2>1, <3>1, <3>2, <3>3, OthersStayPut
  <2>4. CASE ~complete
    <3>1. /\ initlock' = t /\ progress'[t].preset = 1
          /\ \A u \in Threads : u # t => progress'[u] = progress[u]
      <4>1. [progress[t] EXCEPT !.preset = 1].preset = 1
        BY DEF TypeOK, Progress
      <4> QED BY <1>4, <2>4, <4>1 DEF EnterInit, TypeOK
    <3>2. pc'[t] = "register" /\ \A u \in Threads : u # t => pc'[u] = pc[u]
      BY <1>2, <1>4, <2>4 DEF EnterInit
    <3>3. ControlAt(t)'
      <4>1. Initialising(t)' /\ initlock' = t /\ call'[t] \in Calls /\ detectlock' # t
        BY <2>1, <2>2, <3>1 DEF Initialising
      <4> QED BY <3>2, <4>1 DEF ControlAt, Overwriting, Reading
    <3> QED BY <1>1, <2>1, <3>1, <3>2, <3>3, OthersStayPut
  <2> QED BY <2>3, <2>4
<1>5. ASSUME NEW t \in Threads, AddDetector(t)
      PROVE  Control'
  <2>1. /\ pc[t] = "detectors" /\ UNCHANGED <<initlock, detectlock, call, target>>
        /\ detectlock = NoThread
    BY <1>5 DEF AddDetector, locks
  <2>2. /\ progress'[t].preset = progress[t].preset
        /\ \A u \in Threads : u # t => progress'[u] = progress[u]
    <3>1. [progress[t] EXCEPT !.detector = @ + 1].preset = progress[t].preset
      BY DEF TypeOK, Progress
    <3> QED BY <1>5, <3>1 DEF AddDetector, TypeOK
  <2>3. /\ pc'[t] \in {"detectors", "undefined"}
        /\ \A u \in Threads : u # t => pc'[u] = pc[u]
    <3>1. pc' = pc \/ Goto(t, "undefined")
      BY <1>5 DEF AddDetector
    <3> QED BY <1>2, <2>1, <3>1
  <2>4. Len(registry') = Len(registry)
    BY <1>5 DEF AddDetector, TypeOK
  <2>5. ControlAt(t)'
    BY <1>1, <2>1, <2>2, <2>3, <2>4 DEF ControlAt, Initialising, Overwriting, Reading
  <2> QED BY <1>1, <2>1, <2>2, <2>3, <2>4, <2>5, OthersStayPut
<1>6. ASSUME NEW t \in Threads, NextPreset(t)
      PROVE  Control'
  <2>1. /\ pc[t] = "detectors" /\ UNCHANGED <<initlock, detectlock, registry, call, target>>
    BY <1>6 DEF NextPreset, locks
  <2>2. /\ Initialising(t) /\ progress[t].preset \in Nat
        /\ progress'[t].preset = progress[t].preset + 1
        /\ \A u \in Threads : u # t => progress'[u] = progress[u]
    BY <1>1, <1>6, <2>1 DEF NextPreset, TypeOK, Progress, ControlAt
  <2>3. pc'[t] = "register" /\ \A u \in Threads : u # t => pc'[u] = pc[u]
    BY <1>2, <1>6 DEF NextPreset
  <2>4. ControlAt(t)'
    <3>1. Initialising(t)' /\ initlock' = t /\ call'[t] \in Calls /\ detectlock' # t
      BY <1>1, <2>1, <2>2 DEF Initialising, ControlAt, Overwriting
    <3> QED BY <2>3, <3>1 DEF ControlAt, Overwriting, Reading
  <2> QED BY <1>1, <2>1, <2>2, <2>3, <2>4, OthersStayPut
<1>7. ASSUME NEW t \in Threads, LeaveInit(t)
      PROVE  Control'
  <2>1. /\ pc[t] = "detectors" /\ UNCHANGED <<detectlock, registry, call, target>>
        /\ initlock' = NoThread
    BY <1>7 DEF LeaveInit, UnlockInit
  <2>2. /\ Initialising(t) /\ initlock = t /\ progress'[t].preset = 0
        /\ \A u \in Threads : u # t => progress'[u] = progress[u]
    BY <1>1, <1>7, <2>1 DEF LeaveInit, TypeOK, ControlAt, NoProgress
  <2>3. call[t] \in Calls /\ call[t].op \in {"register", "get", "detect"}
    BY <1>1, <2>2, CallFacts DEF ControlAt
  <2>4. pc'[t] = call[t].op /\ \A u \in Threads : u # t => pc'[u] = pc[u]
    BY <1>2, <1>7 DEF LeaveInit
  <2>5. initlock' # t /\ detectlock' # t
    BY <1>1, <2>1 DEF ControlAt, Overwriting
  <2>6. ControlAt(t)'
    BY <2>1, <2>2, <2>3, <2>4, <2>5, AtCall
  <2> QED BY <1>1, <2>1, <2>2, <2>4, <2>6, OthersStayPut
<1>8. ASSUME NEW t \in Threads, RegisterNew(t)
      PROVE  Control'
  <2>1. /\ pc[t] = "register" /\ UNCHANGED <<initlock, detectlock, call, progress>>
        /\ detectlock = NoThread
        /\ target'[t] = Len(registry) + 1
        /\ \A u \in Threads : u # t => target'[u] = target[u]
    BY <1>8 DEF RegisterNew, locks, NewIndex, TypeOK
  <2>2. Len(registry') = Len(registry) + 1
    BY <1>8 DEF RegisterNew, TypeOK
  <2>3. pc'[t] = AfterRegister(t) /\ \A u \in Threads : u # t => pc'[u] = pc[u]
    BY <1>2, <1>8 DEF RegisterNew
  <2>4. ControlAt(t)'
    <3>1. /\ Initialising(t)' <=> Initialising(t)
          /\ initlock' = t <=> initlock = t
          /\ Initialising(t) <=> initlock = t
          /\ Initialising(t) => call'[t] \in Calls
          /\ detectlock' # t /\ target'[t] \in 1..Len(registry')
      BY <1>1, <2>1, <2>2 DEF Initialising, ControlAt, Overwriting
    <3> QED BY <2>3, <3>1 DEF ControlAt, Overwriting, Reading, AfterRegister
  <2> QED BY <1>1, <2>1, <2>2, <2>3, <2>4, OthersStayPut
<1>9. ASSUME NEW t \in Threads, RegisterFails(t)
      PROVE  Control'
  <2>1. /\ pc[t] = "register" /\ detectlock = NoThread
        /\ UNCHANGED <<initlock, detectlock, registry, call, progress, target>>
    BY <1>9 DEF RegisterFails, locks
  <2>2. /\ pc'[t] = IF Initialising(t) THEN "undefined" ELSE "idle"
        /\ \A u \in Threads : u # t => pc'[u] = pc[u]
    BY <1>2, <1>9 DEF RegisterFails
  <2>3. ControlAt(t)'
    BY <1>1, <2>1, <2>2 DEF ControlAt, Initialising, Overwriting, Reading
  <2> QED BY <1>1, <2>1, <2>2, <2>3, OthersStayPut
<1>10. ASSUME NEW t \in Threads, RegisterAgain(t)
       PROVE  Control'
  <2>1. /\ pc[t] = "register" /\ detectlock = NoThread /\ detectlock' = t
        /\ UNCHANGED <<initlock, registry, call, progress>>
        /\ target'[t] \in 1..Len(registry)
        /\ \A u \in Threads : u # t => target'[u] = target[u]
    BY <1>10 DEF RegisterAgain, locks, Named, TypeOK
  <2>2. pc'[t] = "cleanup" /\ \A u \in Threads : u # t => pc'[u] = pc[u]
    BY <1>2, <1>10 DEF RegisterAgain
  <2>3. ControlAt(t)'
    BY <1>1, <2>1, <2>2 DEF ControlAt, Initialising, Overwriting, Reading
  <2> QED BY <1>1, <2>1, <2>2, <2>3, OthersStayPut
<1>11. ASSUME NEW t \in Threads, Cleanup(t) \/ Clear(t) \/ Default(t)
       PROVE  Control'
  <2>1. /\ pc[t] \in Overwriting /\ Len(registry') = Len(registry)
        /\ UNCHANGED <<initlock, detectlock, call, progress, target>>
    BY <1>11 DEF Cleanup, Clear, Default, locks, Overwriting, Overwrite, TypeOK
  <2>2. pc'[t] \in Overwriting /\ \A u \in Threads : u # t => pc'[u] = pc[u]
    BY <1>2, <1>11 DEF Cleanup, Clear, Default, Overwriting
  <2>3. ControlAt(t)'
    BY <1>1, <2>1, <2>2 DEF ControlAt, Initialising, Overwriting, Reading
  <2> QED BY <1>1, <2>1, <2>2, <2>3, OthersStayPut
<1>12. ASSUME NEW t \in Threads, Fill(t)
       PROVE  Control'
  <2>1. /\ pc[t] = "fill" /\ Len(registry') = Len(registry) /\ detectlock' = NoThread
        /\ UNCHANGED <<initlock, call, progress, target>>
    BY <1>12 DEF Fill, locks, Overwrite, TypeOK
  <2>2. pc'[t] = AfterRegister(t) /\ \A u \in Threads : u # t => pc'[u] = pc[u]
    BY <1>2, <1>12 DEF Fill
  <2>3. detectlock = t
    BY <1>1, <2>1 DEF ControlAt, Overwriting
  <2>4. ControlAt(t)'
    BY <1>1, <2>1, <2>2, <2>3 DEF ControlAt, Initialising, Overwriting, Reading, AfterRegister
  <2> QED BY <1>1, <2>1, <2>2, <2>3, <2>4, OthersStayPut
<1>13. ASSUME NEW t \in Threads, Get(t)
       PROVE  Control'
  <2>1. /\ pc[t] = "get" /\ detectlock = NoThread
        /\ UNCHANGED <<initlock, detectlock, registry, call, progress>>
        /\ \A u \in Threads : u # t => target'[u] = target[u]
    BY <1>13 DEF Get, LookupFree, locks, TypeOK
  <2>2. /\ pc'[t] = "idle" \/ (pc'[t] = "read first" /\ target'[t] \in 1..Len(registry))
        /\ \A u \in Threads : u # t => pc'[u] = pc[u]
    <3>1. CASE Named(call[t].name) = {}
      <4>1. Goto(t, "idle")
        BY <1>13, <3>1 DEF Get
      <4> QED BY <1>2, <4>1
    <3>2. CASE Named(call[t].name) # {}
      <4>1. PICK c \in Named(call[t].name) :
              target' = [target EXCEPT ![t] = c] /\ Goto(t, "read first")
        BY <1>13, <3>2 DEF Get
      <4>2. c \in 1..Len(registry)
        BY DEF Named, TypeOK
      <4>3. target'[t] = c
        BY <4>1 DEF TypeOK
      <4> QED BY <1>2, <4>1, <4>2, <4>3
    <3> QED BY <3>1, <3>2
  <2>3. ControlAt(t)'
    BY <1>1, <2>1, <2>2 DEF ControlAt, Initialising, Overwriting, Reading
  <2>4. \A u \in Threads : u # t =>
           /\ pc'[u] = pc[u] /\ call'[u] = call[u] /\ progress'[u] = progress[u]
           /\ target'[u] = target[u]
           /\ initlock' = u <=> initlock = u
           /\ detectlock' = u <=> detectlock = u
    BY <2>1, <2>2
  <2>5. Len(registry') = Len(registry)
    BY <2>1
  <2> QED BY <1>1, <2>3, <2>4, <2>5, OthersStayPut
<1>14. ASSUME NEW t \in Threads, ReadFirst(t) \/ ReadSecond(t)
       PROVE  Control'
  <2>1. /\ pc[t] \in Reading
        /\ UNCHANGED <<initlock, detectlock, registry, call, progress, target>>
    BY <1>14 DEF ReadFirst, ReadSecond, locks, Reading
  <2>2. pc'[t] \in {"read second", "idle"} /\ \A u \in Threads : u # t => pc'[u] = pc[u]
    BY <1>2, <1>14 DEF ReadFirst, ReadSecond
  <2>3. ControlAt(t)'
    BY <1>1, <2>1, <2>2 DEF ControlAt, Initialising, Overwriting, Reading
  <2>4. \A u \in Threads : u # t =>
           /\ pc'[u] = pc[u] /\ call'[u] = call[u] /\ progress'[u] = progress[u]
           /\ target'[u] = target[u]
           /\ initlock' = u <=> initlock = u
           /\ detectlock' = u <=> detectlock = u
    BY <2>1, <2>2
  <2>5. Len(registry') = Len(registry)
    BY <2>1
  <2> QED BY <1>1, <2>3, <2>4, <2>5, OthersStayPut
<1>15. ASSUME NEW t \in Threads, Detect(t)
       PROVE  Control'
  <2>1. /\ pc[t] = "detect"
        /\ UNCHANGED <<initlock, detectlock, registry, call, progress, target>>
    BY <1>15 DEF Detect, locks
  <2>2. pc'[t] \in {"undefined", "idle"} /\ \A u \in Threads : u # t => pc'[u] = pc[u]
    BY <1>2, <1>15 DEF Detect
  <2>3. ControlAt(t)'
    BY <1>1, <2>1, <2>2 DEF ControlAt, Initialising, Overwriting, Reading
  <2> QED BY <1>1, <2>1, <2>2, <2>3, OthersStayPut
<1>16. CASE UNCHANGED vars
  BY <1>1, <1>16 DEF vars, locks, Control, ControlAt, Initialising
<1> QED BY <1>3, <1>4, <1>5, <1>6, <1>7, <1>8, <1>9, <1>10, <1>11, <1>12, <1>13, <1>14,
        <1>15, <1>16 DEF Next, Step

-----------------------------------------------------------------------------
(* Entries stay whole: the thread that overwrites one holds detectlock, and *)
(* raises the count of that entry before it touches it.                     *)

Writing == {"clear", "default", "fill"}

\* Two threads never write entries at once.
LEMMA OneWriter ==
  ASSUME Control, NEW t \in Threads, NEW u \in Threads, pc[t] \in Overwriting, pc[u] \in Writing
  PROVE  u = t
BY DEF Control, ControlAt, Overwriting, Writing

\* While detectlock is free, none does.
LEMMA NoWriter ==
  ASSUME Control, detectlock = NoThread, NEW u \in Threads
  PROVE  pc[u] \notin Writing
BY EdiRegistryAssumption DEF Control, ControlAt, Overwriting, Writing

\* A step of a thread that is neither writing nor reading, nor begins to.
LEMMA TableUntouched ==
  ASSUME WholeEntries, NEW t \in Threads, registry' = registry, oom => oom',
         pc[t] \notin Writing \union Reading, pc'[t] \notin Writing \union Reading,
         \A u \in Threads : u # t =>
           pc'[u] = pc[u] /\ target'[u] = target[u] /\ view'[u] = view[u]
  PROVE  WholeEntries'
<1>1. ASSUME NEW c \in 1..Len(registry)
      PROVE  EntryAt(c)'
  <2>1. EntryAt(c)
    BY DEF WholeEntries
  <2> QED BY <2>1 DEF EntryAt, Writing
<1>2. ASSUME NEW u \in Threads
      PROVE  ReaderAt(u)'
  <2>1. ReaderAt(u)
    BY DEF WholeEntries
  <2>2. CASE u = t
    BY <2>2 DEF ReaderAt
  <2>3. CASE u # t
    <3>1. \A w \in Threads :
            pc'[w] \in {"clear", "default", "fill"} =>
              pc[w] \in {"clear", "default", "fill"} /\ target'[w] = target[w]
      BY DEF Writing
    <3> QED BY <2>1, <2>3, <3>1 DEF ReaderAt
  <2> QED BY <2>2, <2>3
<1> QED BY <1>1, <1>2 DEF WholeEntries

\* A step of the holder of detectlock, at the entry it has a pointer to.
LEMMA EntryOverwritten ==
  ASSUME TypeOK, Control, WholeEntries, NEW t \in Threads, NEW e \in RegistryEntry,
         pc[t] \in Overwriting, Overwrite(t, e), oom => oom',
         UNCHANGED <<target, view>>,
         pc'[t] \notin Reading, \A u \in Threads : u # t => pc'[u] = pc[u],
         IF pc[t] = "cleanup" THEN e.gen = registry[target[t]].gen + 1
                              ELSE e.gen = registry[target[t]].gen,
         pc'[t] \in {"default", "fill"} \/ (e.first = e.second /\ e.first \in AllParams),
         pc'[t] = "clear" \/ e.tags \in Seq(Tags),
         e.slots \/ oom'
  PROVE  WholeEntries'
<1> DEFINE k == target[t]
<1>1. k \in 1..Len(registry)
  BY DEF Control, ControlAt
<1>2. /\ Len(registry') = Len(registry) /\ registry'[k] = e
      /\ \A c \in 1..Len(registry) : c # k => registry'[c] = registry[c]
  BY <1>1, Overwritten
<1>3. ASSUME NEW c \in 1..Len(registry)
      PROVE  EntryAt(c)'
  <2>1. EntryAt(c)
    BY DEF WholeEntries
  <2>2. CASE c = k
    BY <1>2, <2>2 DEF EntryAt
  <2>3. CASE c # k
    <3>1. registry'[c] = registry[c]
      BY <1>2, <2>3
    <3>2. \A u \in Threads : target[u] = c => u # t
      BY <2>3
    <3>3. \A u \in Threads : target[u] = c => pc'[u] = pc[u] /\ target'[u] = target[u]
      BY <3>2
    <3> QED BY <2>1, <3>1, <3>3 DEF EntryAt
  <2> QED BY <2>2, <2>3
<1>4. ASSUME NEW u \in Threads, pc'[u] \in Reading
      PROVE  ReaderAt(u)'
  <2>1. /\ u # t /\ pc[u] = pc'[u] /\ ReaderAt(u) /\ pc[u] \in Reading
        /\ target[u] \in 1..Len(registry) /\ target'[u] = target[u] /\ view'[u] = view[u]
    BY <1>4 DEF WholeEntries, Control, ControlAt
  <2>2. view[u].gen \in Nat /\ registry[target[u]].gen \in Nat
    <3>1. view[u] \in View /\ registry[target[u]] \in RegistryEntry
      BY <2>1 DEF TypeOK
    <3> QED BY <3>1 DEF View, RegistryEntry
  <2>3. \A w \in Threads : pc'[w] \in Writing => w = t
    <3> SUFFICES ASSUME NEW w \in Threads, pc'[w] \in Writing, w # t
                 PROVE  FALSE
      OBVIOUS
    <3> QED BY OneWriter
  <2>4. CASE target[u] = k
    <3>1. view[u].gen < e.gen \/ (view[u].gen <= e.gen /\ view[u].gen # e.gen)
      <4>1. CASE pc[t] = "cleanup"
        <5>1. view[u].gen <= registry[target[u]].gen
          BY <2>1 DEF ReaderAt
        <5>2. e.gen = registry[target[u]].gen + 1
          BY <2>4, <4>1
        <5> QED BY <2>2, <5>1, <5>2
      <4>2. CASE pc[t] # "cleanup"
        <5>1. pc[t] \in {"clear", "default", "fill"} /\ e.gen = registry[target[u]].gen
          BY <2>4, <4>2 DEF Overwriting
        <5> QED BY <2>1, <2>2, <2>4, <5>1 DEF ReaderAt
      <4> QED BY <4>1, <4>2
    <3>2. e.gen \in Nat
      BY DEF RegistryEntry
    <3>3. view'[u].gen <= registry'[target'[u]].gen /\ view'[u].gen # registry'[target'[u]].gen
      BY <1>2, <2>1, <2>2, <2>4, <3>1, <3>2
    <3> QED BY <3>3 DEF ReaderAt
  <2>5. CASE target[u] # k
    <3>1. registry'[target'[u]] = registry[target[u]]
      BY <1>2, <2>1, <2>5
    <3>2. \A w \in Threads : pc'[w] \in {"clear", "default", "fill"} => target'[w] # target'[u]
      BY <2>1, <2>3, <2>5 DEF Writing
    <3> QED BY <2>1, <3>1, <3>2 DEF ReaderAt
  <2> QED BY <2>4, <2>5
<1>5. \A u \in Threads : ReaderAt(u)'
  <2> TAKE u \in Threads
  <2>1. CASE pc'[u] \in Reading
    BY <1>4, <2>1
  <2>2. CASE pc'[u] \notin Reading
    BY <2>2 DEF ReaderAt
  <2> QED BY <2>1, <2>2
<1> QED BY <1>2, <1>3, <1>5 DEF WholeEntries

\* Every step keeps the entries whole that nobody is writing.
LEMMA WholeStep ==
  ASSUME TypeOK, Control, WholeEntries, [Next]_vars
  PROVE  WholeEntries'
<1>1. /\ Len(registry) \in Nat
      /\ \A t \in Threads : ControlAt(t) /\ ReaderAt(t) /\ pc[t] \in Label
      /\ \A c \in 1..Len(registry) : registry[c] \in RegistryEntry /\ EntryAt(c)
  BY DEF TypeOK, Control, WholeEntries
<1>2. ASSUME NEW t \in Threads, NEW l, Goto(t, l)
      PROVE  pc'[t] = l /\ \A u \in Threads : u # t => pc'[u] = pc[u]
  BY <1>2 DEF Goto, TypeOK
<1>3. ASSUME NEW t \in Threads, Call(t)
      PROVE  WholeEntries'
  <2>1. /\ pc[t] = "idle" /\ UNCHANGED <<registry, target, oom>>
        /\ \A u \in Threads : u # t => view'[u] = view[u]
        /\ Goto(t, "init")
    BY <1>3 DEF Call, TypeOK, history
  <2>2. pc'[t] = "init" /\ \A u \in Threads : u # t => pc'[u] = pc[u]
    BY <1>2, <2>1
  <2> QED BY <2>1, <2>2, TableUntouched DEF Writing, Reading
<1>4. ASSUME NEW t \in Threads, EnterInit(t) \/ NextPreset(t) \/ LeaveInit(t)
      PROVE  WholeEntries'
  <2>1. /\ pc[t] \in {"init", "detectors"} /\ UNCHANGED <<registry, target, view, oom>>
        /\ Goto(t, "register") \/ Goto(t, call[t].op)
    BY <1>4 DEF EnterInit, NextPreset, LeaveInit, history
  <2>2. call[t].op \in {"register", "get", "detect"}
    BY <1>1, <2>1, CallFacts DEF ControlAt
  <2>3. /\ pc'[t] \in {"register", "get", "detect"}
        /\ \A u \in Threads : u # t => pc'[u] = pc[u]
    BY <1>2, <2>1, <2>2
  <2> QED BY <2>1, <2>3, TableUntouched DEF Writing, Reading
<1>5. ASSUME NEW t \in Threads, RegisterFails(t) \/ RegisterAgain(t) \/ Detect(t)
      PROVE  WholeEntries'
  <2>1. /\ pc[t] \in {"register", "detect"} /\ UNCHANGED registry /\ (oom => oom')
        /\ \A u \in Threads : u # t => target'[u] = target[u] /\ view'[u] = view[u]
        /\ \E l \in {"undefined", "idle", "cleanup"} : Goto(t, l)
    BY <1>5 DEF RegisterFails, RegisterAgain, Detect, TypeOK, history
  <2>2. /\ pc'[t] \in {"undefined", "idle", "cleanup"}
        /\ \A u \in Threads : u # t => pc'[u] = pc[u]
    BY <1>2, <2>1
  <2> QED BY <2>1, <2>2, TableUntouched DEF Writing, Reading
<1>6. ASSUME NEW t \in Threads, AddDetector(t)
      PROVE  WholeEntries'
  <2> DEFINE k == target[t]
             tag == Preset(t).tags[progress'[t].detector]
  <2>1. /\ pc[t] = "detectors" /\ detectlock = NoThread /\ UNCHANGED <<target, view>>
        /\ oom => oom'
    BY <1>6 DEF AddDetector
  <2>2. /\ pc'[t] \in {"detectors", "undefined"}
        /\ \A u \in Threads : u # t => pc'[u] = pc[u]
    <3>1. pc' = pc \/ Goto(t, "undefined")
      BY <1>6 DEF AddDetector
    <3> QED BY <1>2, <2>1, <3>1
  <2>3. CASE registry' = registry
    BY <2>1, <2>2, <2>3, TableUntouched DEF Writing, Reading
  <2>4. CASE registry' # registry
    <3>1. registry' = [registry EXCEPT ![k].tags = Append(@, tag)]
      BY <1>6, <2>4 DEF AddDetector
    <3>2. /\ k \in 1..Len(registry) /\ Initialising(t) /\ registry[k] \in RegistryEntry
          /\ registry[k].tags \in Seq(Tags)
      <4>1. k \in 1..Len(registry) /\ Initialising(t)
        BY <1>1, <2>1 DEF ControlAt
      <4>2. EntryAt(k) /\ \A u \in Threads : pc[u] \notin Writing
        BY <1>1, <2>1, <4>1, NoWriter
      <4> QED BY <1>1, <4>1, <4>2 DEF EntryAt, Writing
    <3>3. tag \in Tags
      <4>1. progress[t] \in Progress /\ progress[t].preset \in 1..Len(Presets)
        BY <3>2, PresetFacts DEF TypeOK, Progress, Initialising
      <4>2. Preset(t).tags \in Seq(Tags) /\ progress[t].detector < Len(Preset(t).tags)
        BY <1>6, <4>1, PresetFacts DEF Preset, AddDetector, MoreDetectors
      <4>3. progress'[t].detector = progress[t].detector + 1 /\ progress[t].detector \in Nat
        <5>1. [progress[t] EXCEPT !.detector = @ + 1].detector = progress[t].detector + 1
          BY <4>1 DEF Progress
        <5> QED BY <1>6, <4>1, <5>1 DEF AddDetector, TypeOK, Progress
      <4> QED BY <4>2, <4>3
    <3> HIDE DEF tag, k
    <3>4. /\ Len(registry') = Len(registry)
          /\ \A c \in 1..Len(registry) :
               /\ registry'[c].first = registry[c].first /\ registry'[c].second = registry[c].second
               /\ registry'[c].gen = registry[c].gen /\ registry'[c].slots = registry[c].slots
               /\ registry'[c].tags = IF c = k THEN Append(registry[c].tags, tag)
                                               ELSE registry[c].tags
      <4>1. /\ Len(registry') = Len(registry)
            /\ registry'[k] = [registry[k] EXCEPT !.tags = Append(@, tag)]
            /\ \A c \in 1..Len(registry) : c # k => registry'[c] = registry[c]
        <5> DEFINE e == [registry[k] EXCEPT !.tags = Append(@, tag)]
        <5>1. registry \in Seq(RegistryEntry) /\ registry' = [registry EXCEPT ![k] = e]
          BY <3>1 DEF TypeOK
        <5> HIDE DEF e
        <5>2. /\ Len(registry') = Len(registry) /\ registry'[k] = e
              /\ \A c \in 1..Len(registry) : c # k => registry'[c] = registry[c]
          BY <3>2, <5>1
        <5> QED BY <5>2 DEF e
      <4>2. /\ registry'[k].first = registry[k].first /\ registry'[k].second = registry[k].second
            /\ registry'[k].gen = registry[k].gen /\ registry'[k].slots = registry[k].slots
            /\ registry'[k].tags = Append(registry[k].tags, tag)
        BY <3>2, <4>1 DEF RegistryEntry
      <4> QED BY <4>1, <4>2
    <3>5. \A u \in Threads : pc[u] \notin Writing /\ pc'[u] \notin Writing
      BY <2>1, <2>2, NoWriter DEF Writing
    <3>6. ASSUME NEW c \in 1..Len(registry)
          PROVE  EntryAt(c)'
      <4>1. EntryAt(c) /\ Append(registry[k].tags, tag) \in Seq(Tags)
        BY <1>1, <3>2, <3>3
      <4> QED BY <2>1, <3>4, <3>5, <4>1 DEF EntryAt, Writing
    <3>7. ASSUME NEW u \in Threads, pc'[u] \in Reading
          PROVE  ReaderAt(u)'
      <4>1. pc[u] = pc'[u] /\ ReaderAt(u)
        BY <1>1, <2>2, <3>7 DEF Reading
      <4>2. target[u] \in 1..Len(registry)
        BY <1>1, <3>7, <4>1 DEF ControlAt
      <4> QED BY <2>1, <3>4, <3>5, <4>1, <4>2 DEF ReaderAt, Writing
    <3> QED BY <3>4, <3>6, <3>7 DEF WholeEntries, ReaderAt
  <2> QED BY <2>3, <2>4
<1>7. ASSUME NEW t \in Threads, RegisterNew(t)
      PROVE  WholeEntries'
  <2>1. /\ pc[t] = "register" /\ detectlock = NoThread /\ UNCHANGED view
        /\ \A u \in Threads : u # t => target'[u] = target[u]
        /\ Goto(t, AfterRegister(t))
    BY <1>7 DEF RegisterNew, TypeOK
  <2>2. /\ pc'[t] \in {"detectors", "idle"}
        /\ \A u \in Threads : u # t => pc'[u] = pc[u]
    BY <1>2, <2>1 DEF AfterRegister
  <2>3. PICK slots \in BOOLEAN :
          /\ registry' = Append(registry, Entry(StoredName(Arguments(t).name), Arguments(t).params, slots))
          /\ oom' = (oom \/ ~slots)
    BY <1>7 DEF RegisterNew
  <2> DEFINE e == Entry(StoredName(Arguments(t).name), Arguments(t).params, slots)
  <2>4. /\ Arguments(t).params \in AllParams /\ e \in RegistryEntry
        /\ e.first = Arguments(t).params /\ e.second = Arguments(t).params
        /\ e.tags = <<>> /\ e.slots = slots
    BY <2>1, ArgumentFacts, EntryIsEntry DEF Entry
  <2> HIDE DEF e
  <2>5. /\ Len(registry') = Len(registry) + 1 /\ registry'[Len(registry) + 1] = e
        /\ \A c \in 1..Len(registry) : registry'[c] = registry[c]
    BY <2>3, <2>4, Appended DEF e
  <2>6. \A u \in Threads : pc[u] \notin Writing /\ pc'[u] \notin Writing
    BY <2>1, <2>2, NoWriter DEF Writing
  <2>7. ASSUME NEW c \in 1..Len(registry')
        PROVE  EntryAt(c)'
    <3>1. CASE c \in 1..Len(registry)
      <4>1. EntryAt(c)
        BY <1>1, <3>1
      <4> QED BY <2>3, <2>5, <2>6, <3>1, <4>1 DEF EntryAt, Writing
    <3>2. CASE c = Len(registry) + 1
      <4>1. <<>> \in Seq(Tags)
        OBVIOUS
      <4> QED BY <2>3, <2>4, <2>5, <3>2, <4>1 DEF EntryAt
    <3> QED BY <1>1, <2>5, <3>1, <3>2
  <2>8. ASSUME NEW u \in Threads, pc'[u] \in Reading
        PROVE  ReaderAt(u)'
    <3>1. u # t /\ pc[u] = pc'[u] /\ ReaderAt(u)
      BY <1>1, <2>2, <2>8 DEF Reading
    <3>2. target[u] \in 1..Len(registry)
      BY <1>1, <2>8, <3>1 DEF ControlAt
    <3> QED BY <2>1, <2>5, <2>6, <3>1, <3>2 DEF ReaderAt, Writing
  <2> QED BY <2>7, <2>8 DEF WholeEntries, ReaderAt
<1>8. ASSUME NEW t \in Threads, Cleanup(t) \/ Clear(t) \/ Default(t) \/ Fill(t)
      PROVE  WholeEntries'
  <2> DEFINE r == registry[target[t]]
  <2>1. /\ pc[t] \in Overwriting /\ target[t] \in 1..Len(registry)
        /\ UNCHANGED <<target, view>>
    <3>1. pc[t] \in Overwriting /\ UNCHANGED <<target, view>>
      BY <1>8 DEF Cleanup, Clear, Default, Fill, Overwriting
    <3> QED BY <1>1, <3>1 DEF ControlAt
  <2>2. /\ r \in RegistryEntry /\ EntryAt(target[t]) /\ Arguments(t).params \in AllParams
        /\ r.slots \/ oom
    BY <1>1, <2>1, ArgumentFacts DEF EntryAt
  <2>3. \A u \in Threads : pc[u] \in Writing => u = t
    BY <2>1, OneWriter
  <2>4. CASE Cleanup(t)
    <3> DEFINE freed == [i \in DOMAIN r.tags |-> Freed]
               next  == r.gen + 1
               e     == [r EXCEPT !.tags = freed, !.gen = next]
    <3>1. /\ pc[t] = "cleanup" /\ oom' = oom /\ Goto(t, "clear") /\ Overwrite(t, e)
      BY <2>4 DEF Cleanup, history
    <3>2. pc'[t] = "clear" /\ \A u \in Threads : u # t => pc'[u] = pc[u]
      BY <1>2, <3>1
    <3>3. freed \in Seq(Tags \union {Freed}) /\ next \in Nat
      <4> DEFINE n == Len(r.tags)
      <4>1. n \in Nat /\ DOMAIN r.tags = 1..n /\ r.gen \in Nat
        BY <2>2 DEF RegistryEntry
      <4> HIDE DEF n
      <4>2. [i \in 1..n |-> Freed] \in [1..n -> Tags \union {Freed}]
        OBVIOUS
      <4> QED BY <4>1, <4>2
    <3>4. r.first = r.second /\ r.first \in AllParams
      <4>1. \A u \in Threads : pc[u] \notin {"default", "fill"}
        BY <2>3, <3>1 DEF Writing
      <4> QED BY <2>2, <4>1 DEF EntryAt
    <3> HIDE DEF freed, next, r
    <3>5. /\ e \in RegistryEntry /\ e.gen = next /\ e.first = r.first
          /\ e.second = r.second /\ e.slots = r.slots
      BY <2>2, <3>3 DEF RegistryEntry
    <3> HIDE DEF e
    <3>6. e.first = e.second /\ e.first \in AllParams /\ (e.slots \/ oom')
          /\ e.gen = registry[target[t]].gen + 1
      BY <2>2, <3>1, <3>4, <3>5 DEF r, next
    <3> QED BY <2>1, <3>1, <3>2, <3>5, <3>6, EntryOverwritten DEF Reading
  <2>5. CASE Clear(t)
    <3> DEFINE e == Cleared(r)
    <3>1. /\ pc[t] = "clear" /\ oom' = oom /\ Goto(t, "default") /\ Overwrite(t, e)
      BY <2>5 DEF Clear, history
    <3>2. pc'[t] = "default" /\ \A u \in Threads : u # t => pc'[u] = pc[u]
      BY <1>2, <3>1
    <3>3. Zero \in AnyParams /\ <<>> \in Seq(Tags \union {Freed}) /\ <<>> \in Seq(Tags)
      BY DEF AnyParams
    <3> HIDE DEF r
    <3>4. e \in RegistryEntry /\ e.gen = r.gen /\ e.slots = r.slots /\ e.tags = <<>>
      BY <2>2, <3>3 DEF RegistryEntry, Cleared
    <3> HIDE DEF e
    <3>5. e.tags \in Seq(Tags) /\ (e.slots \/ oom') /\ e.gen = registry[target[t]].gen
      BY <2>2, <3>1, <3>3, <3>4 DEF r
    <3> QED BY <2>1, <3>1, <3>2, <3>4, <3>5, EntryOverwritten DEF Reading
  <2>6. ASSUME pc[t] \in {"default", "fill"}
        PROVE  r.tags \in Seq(Tags)
    <3>1. \A u \in Threads : pc[u] # "clear"
      BY <2>3, <2>6 DEF Writing
    <3> QED BY <2>2, <3>1 DEF EntryAt
  <2>7. CASE Default(t)
    <3> DEFINE e == [r EXCEPT !.first = Defaults, !.second = Defaults]
    <3>1. /\ pc[t] = "default" /\ oom' = oom /\ Goto(t, "fill") /\ Overwrite(t, e)
      BY <2>7 DEF Default, history
    <3>2. pc'[t] = "fill" /\ \A u \in Threads : u # t => pc'[u] = pc[u]
      BY <1>2, <3>1
    <3>3. Defaults \in AnyParams
      BY DEF AnyParams
    <3> HIDE DEF r
    <3>4. e \in RegistryEntry /\ e.gen = r.gen /\ e.slots = r.slots /\ e.tags = r.tags
      BY <2>2, <3>3 DEF RegistryEntry
    <3> HIDE DEF e
    <3>5. e.tags \in Seq(Tags) /\ (e.slots \/ oom') /\ e.gen = registry[target[t]].gen
      BY <2>2, <2>6, <3>1, <3>4 DEF r
    <3> QED BY <2>1, <3>1, <3>2, <3>4, <3>5, EntryOverwritten DEF Reading
  <2>8. CASE Fill(t)
    <3> DEFINE p == Arguments(t).params
    <3>1. PICK slots \in BOOLEAN :
            /\ Overwrite(t, [r EXCEPT !.first = p, !.second = p, !.slots = slots])
            /\ oom' = (oom \/ ~slots)
      BY <2>8 DEF Fill
    <3> DEFINE e == [r EXCEPT !.first = p, !.second = p, !.slots = slots]
    <3>2. pc[t] = "fill" /\ Goto(t, AfterRegister(t))
      BY <2>8 DEF Fill
    <3>3. /\ pc'[t] \in {"detectors", "idle"}
          /\ \A u \in Threads : u # t => pc'[u] = pc[u]
      BY <1>2, <3>2 DEF AfterRegister
    <3>4. p \in AnyParams /\ p \in AllParams /\ Overwrite(t, e)
      BY <2>2, <3>1 DEF AnyParams
    <3> HIDE DEF r, p
    <3>5. /\ e \in RegistryEntry /\ e.gen = r.gen /\ e.slots = slots /\ e.tags = r.tags
          /\ e.first = p /\ e.second = p
      BY <2>2, <3>4 DEF RegistryEntry
    <3> HIDE DEF e
    <3>6. /\ e.tags \in Seq(Tags) /\ (e.slots \/ oom') /\ e.gen = registry[target[t]].gen
          /\ e.first = e.second /\ e.first \in AllParams
      BY <2>2, <2>6, <3>1, <3>2, <3>4, <3>5 DEF r
    <3>7. oom => oom'
      BY <3>1
    <3> QED BY <2>1, <3>2, <3>3, <3>4, <3>5, <3>6, <3>7, EntryOverwritten DEF Reading
  <2> QED BY <1>8, <2>4, <2>5, <2>7, <2>8
<1>9. ASSUME NEW t \in Threads, Get(t) \/ ReadFirst(t) \/ ReadSecond(t)
      PROVE  WholeEntries'
  <2>1. /\ pc[t] \in {"get"} \union Reading /\ UNCHANGED <<registry, oom>>
        /\ \A u \in Threads : u # t => target'[u] = target[u] /\ view'[u] = view[u]
    BY <1>9 DEF Get, ReadFirst, ReadSecond, history, Reading, TypeOK
  <2>2. /\ pc'[t] \in {"idle"} \union Reading
        /\ \A u \in Threads : u # t => pc'[u] = pc[u]
    <3>1. \E l \in {"idle"} \union Reading : Goto(t, l)
      BY <1>9 DEF Get, ReadFirst, ReadSecond, Reading
    <3> QED BY <1>2, <3>1
  <2>3. \A u \in Threads :
          pc'[u] \in Writing => pc[u] \in Writing /\ u # t /\ target'[u] = target[u]
    BY <2>1, <2>2 DEF Writing, Reading
  <2>4. \A u \in Threads : pc[u] \in Writing => pc'[u] = pc[u] /\ u # t /\ target'[u] = target[u]
    BY <2>1, <2>2 DEF Writing, Reading
  <2>5. ASSUME NEW c \in 1..Len(registry)
        PROVE  EntryAt(c)'
    <3>1. EntryAt(c)
      BY <1>1
    <3> QED BY <2>1, <2>4, <3>1 DEF EntryAt, Writing
  <2>6. ASSUME NEW u \in Threads, u # t
        PROVE  ReaderAt(u)'
    <3>1. ReaderAt(u) /\ pc'[u] = pc[u] /\ target'[u] = target[u] /\ view'[u] = view[u]
      BY <1>1, <2>1, <2>2, <2>6
    <3> QED BY <2>1, <2>3, <3>1 DEF ReaderAt, Writing
  <2>7. ReaderAt(t)'
    <3>1. CASE Get(t)
      <4>1. CASE Named(call[t].name) = {}
        <5>1. Goto(t, "idle")
          BY <3>1, <4>1 DEF Get
        <5>2. pc'[t] = "idle"
          BY <1>2, <5>1
        <5> QED BY <5>2 DEF ReaderAt, Reading
      <4>2. CASE Named(call[t].name) # {}
        <5>1. PICK c \in Named(call[t].name) :
                /\ target' = [target EXCEPT ![t] = c]
                /\ view' = [view EXCEPT ![t] = [@ EXCEPT !.gen = registry[c].gen]]
                /\ Goto(t, "read first")
          BY <3>1, <4>2 DEF Get
        <5>2. c \in 1..Len(registry) /\ registry[c].gen \in Nat
          <6>1. c \in 1..Len(registry)
            BY DEF Named, TypeOK
          <6> QED BY <1>1, <6>1 DEF RegistryEntry
        <5>3. target'[t] = c /\ pc'[t] = "read first"
          BY <1>2, <5>1 DEF TypeOK
        <5>4. view'[t].gen = registry[c].gen
          <6>1. [view[t] EXCEPT !.gen = registry[c].gen].gen = registry[c].gen
            BY DEF TypeOK, View
          <6> QED BY <5>1, <6>1 DEF TypeOK
        <5>5. detectlock = NoThread
          BY <3>1 DEF Get, LookupFree
        <5>6. \A u \in Threads : pc'[u] \notin Writing
          BY <2>3, <5>5, NoWriter
        <5>7. registry'[target'[t]] = registry[c]
          BY <2>1, <5>3
        <5>8. view'[t].gen <= registry'[target'[t]].gen
          BY <5>2, <5>4, <5>7
        <5> QED BY <5>3, <5>6, <5>8 DEF ReaderAt, Writing
      <4> QED BY <4>1, <4>2
    <3>2. CASE ReadFirst(t)
      <4>1. /\ pc[t] = "read first" /\ target' = target /\ ReaderAt(t)
            /\ view' = [view EXCEPT ![t].first = registry[target[t]].first]
        BY <1>1, <3>2 DEF ReadFirst
      <4>2. view'[t].gen = view[t].gen /\ view'[t].first = registry[target[t]].first
        BY <4>1 DEF TypeOK, View
      <4> QED BY <2>1, <2>3, <4>1, <4>2 DEF ReaderAt, Reading, Writing
    <3>3. CASE ReadSecond(t)
      <4>1. Goto(t, "idle")
        BY <3>3 DEF ReadSecond
      <4>2. pc'[t] = "idle"
        BY <1>2, <4>1
      <4> QED BY <4>2 DEF ReaderAt, Reading
    <3> QED BY <1>9, <3>1, <3>2, <3>3
  <2> QED BY <2>1, <2>5, <2>6, <2>7 DEF WholeEntries
<1>10. CASE UNCHANGED vars
  BY <1>1, <1>10 DEF vars, locks, history, WholeEntries, EntryAt, ReaderAt
<1> QED BY <1>3, <1>4, <1>5, <1>6, <1>7, <1>8, <1>9, <1>10 DEF Next, Step

-----------------------------------------------------------------------------
(* What threads read.                                                       *)

\* A step of a thread inside its call that reads nothing.
LEMMA ViewsKept ==
  ASSUME WholeViews, NEW t \in Threads, pc[t] # "idle", view' = view, oom => oom',
         pc'[t] = "undefined" => oom', \A u \in Threads : u # t => pc'[u] = pc[u]
  PROVE  WholeViews'
<1>1. ASSUME NEW u \in Threads
      PROVE  ViewAt(u)'
  <2>1. ViewAt(u)
    BY DEF WholeViews
  <2>2. CASE u = t
    BY <2>1, <2>2 DEF ViewAt
  <2>3. CASE u # t
    BY <2>1, <2>3 DEF ViewAt
  <2> QED BY <2>2, <2>3
<1> QED BY <1>1 DEF WholeViews

\* A step of a thread that changes its own view.
LEMMA ViewRead ==
  ASSUME WholeViews, NEW t \in Threads, ViewAt(t)', oom' = oom,
         \A u \in Threads : u # t => pc'[u] = pc[u] /\ view'[u] = view[u]
  PROVE  WholeViews'
<1>1. ASSUME NEW u \in Threads, u # t
      PROVE  ViewAt(u)'
  <2>1. ViewAt(u)
    BY DEF WholeViews
  <2> QED BY <1>1, <2>1 DEF ViewAt
<1> QED BY <1>1 DEF WholeViews

\* Every step keeps whole what threads have read of entries nobody overwrote.
LEMMA ViewsStep ==
  ASSUME IInv, [Next]_vars
  PROVE  WholeViews'
<1>1. /\ TypeOK /\ Control /\ WholeEntries /\ WholeViews
      /\ \A t \in Threads : ControlAt(t) /\ ReaderAt(t) /\ ViewAt(t) /\ view[t] \in View
      /\ \A c \in 1..Len(registry) : registry[c] \in RegistryEntry /\ EntryAt(c)
  BY DEF IInv, TypeOK, Control, WholeEntries, WholeViews
<1>2. ASSUME NEW t \in Threads, NEW l, Goto(t, l)
      PROVE  pc'[t] = l /\ \A u \in Threads : u # t => pc'[u] = pc[u]
  BY <1>1, <1>2 DEF Goto, TypeOK
<1>3. ASSUME NEW t \in Threads, Call(t)
      PROVE  WholeViews'
  <2>1. Goto(t, "init") /\ view' = [view EXCEPT ![t] = NoView] /\ oom' = oom
    BY <1>3 DEF Call, history
  <2>2. /\ pc'[t] = "init" /\ view'[t] = NoView
        /\ \A u \in Threads : u # t => pc'[u] = pc[u] /\ view'[u] = view[u]
    BY <1>1, <1>2, <2>1 DEF TypeOK
  <2>3. ViewAt(t)'
    BY <2>2 DEF ViewAt, NoView
  <2> QED BY <1>1, <2>1, <2>2, <2>3, ViewRead
<1>4. ASSUME NEW t \in Threads, EnterInit(t) \/ NextPreset(t) \/ LeaveInit(t)
      PROVE  WholeViews'
  <2>1. /\ pc[t] \in {"init", "detectors"} /\ UNCHANGED <<view, oom>>
        /\ Goto(t, "register") \/ Goto(t, call[t].op)
    BY <1>4 DEF EnterInit, NextPreset, LeaveInit, history
  <2>2. call[t].op \in {"register", "get", "detect"}
    BY <1>1, <2>1, CallFacts DEF ControlAt
  <2>3. pc'[t] # "undefined" /\ \A u \in Threads : u # t => pc'[u] = pc[u]
    BY <1>2, <2>1, <2>2
  <2> QED BY <1>1, <2>1, <2>3, ViewsKept
<1>5. ASSUME NEW t \in Threads, AddDetector(t)
      PROVE  WholeViews'
  <2>1. /\ pc[t] = "detectors" /\ view' = view /\ (oom' = oom \/ oom')
        /\ \/ Goto(t, "undefined") /\ ~registry[target[t]].slots /\ oom' = oom
           \/ pc' = pc
    BY <1>5 DEF AddDetector
  <2>2. EntryAt(target[t])
    BY <1>1, <2>1 DEF ControlAt
  <2>3. /\ pc'[t] = "undefined" => oom'
        /\ \A u \in Threads : u # t => pc'[u] = pc[u]
    BY <1>2, <2>1, <2>2 DEF EntryAt
  <2> QED BY <1>1, <2>1, <2>3, ViewsKept
<1>6. ASSUME NEW t \in Threads, RegisterNew(t) \/ RegisterAgain(t)
      PROVE  WholeViews'
  <2>1. /\ pc[t] = "register" /\ view' = view
        /\ Goto(t, AfterRegister(t)) \/ Goto(t, "cleanup")
        /\ oom' = oom \/ \E slots \in BOOLEAN : oom' = (oom \/ ~slots)
    BY <1>6 DEF RegisterNew, RegisterAgain
  <2>2. AfterRegister(t) \in {"detectors", "idle"}
    BY DEF AfterRegister
  <2>3. pc'[t] # "undefined" /\ \A u \in Threads : u # t => pc'[u] = pc[u]
    BY <1>2, <2>1, <2>2
  <2>4. oom => oom'
    BY <2>1
  <2> QED BY <1>1, <2>1, <2>3, <2>4, ViewsKept
<1>7. ASSUME NEW t \in Threads, RegisterFails(t)
      PROVE  WholeViews'
  <2>1. /\ pc[t] = "register" /\ view' = view /\ oom'
        /\ Goto(t, IF Initialising(t) THEN "undefined" ELSE "idle")
    BY <1>7 DEF RegisterFails
  <2>2. \A u \in Threads : u # t => pc'[u] = pc[u]
    BY <1>2, <2>1
  <2> QED BY <1>1, <2>1, <2>2, ViewsKept
<1>8. ASSUME NEW t \in Threads, Cleanup(t) \/ Clear(t) \/ Default(t) \/ Fill(t)
      PROVE  WholeViews'
  <2>1. /\ pc[t] \in Overwriting /\ view' = view
        /\ \/ Goto(t, "clear") \/ Goto(t, "default") \/ Goto(t, "fill")
           \/ Goto(t, AfterRegister(t))
        /\ oom' = oom \/ \E slots \in BOOLEAN : oom' = (oom \/ ~slots)
    BY <1>8 DEF Cleanup, Clear, Default, Fill, Overwriting, history
  <2>2. AfterRegister(t) \in {"detectors", "idle"}
    BY DEF AfterRegister
  <2>3. pc'[t] # "undefined" /\ \A u \in Threads : u # t => pc'[u] = pc[u]
    BY <1>2, <2>1, <2>2
  <2>4. oom => oom'
    BY <2>1
  <2> QED BY <1>1, <2>1, <2>3, <2>4, ViewsKept DEF Overwriting
<1>9. ASSUME NEW t \in Threads, Get(t)
      PROVE  WholeViews'
  <2>1. /\ pc[t] = "get" /\ oom' = oom
        /\ \/ Goto(t, "idle") /\ view' = view
           \/ \E c : /\ Goto(t, "read first")
                     /\ view' = [view EXCEPT ![t] = [@ EXCEPT !.gen = registry[c].gen]]
    BY <1>9 DEF Get, history
  <2>2. view[t].stale
    BY <1>1, <2>1 DEF ViewAt
  <2>3. /\ pc'[t] \in {"idle", "read first"} /\ view'[t].stale
        /\ \A u \in Threads : u # t => pc'[u] = pc[u] /\ view'[u] = view[u]
    BY <1>1, <1>2, <2>1, <2>2 DEF TypeOK, View
  <2>4. ViewAt(t)'
    BY <2>3 DEF ViewAt
  <2> QED BY <1>1, <2>1, <2>3, <2>4, ViewRead
<1>10. ASSUME NEW t \in Threads, ReadFirst(t)
       PROVE  WholeViews'
  <2>1. /\ pc[t] = "read first" /\ oom' = oom /\ Goto(t, "read second")
        /\ view' = [view EXCEPT ![t].first = registry[target[t]].first]
    BY <1>10 DEF ReadFirst, history
  <2>2. view[t].stale
    BY <1>1, <2>1 DEF ViewAt
  <2>3. /\ pc'[t] = "read second" /\ view'[t].stale
        /\ \A u \in Threads : u # t => pc'[u] = pc[u] /\ view'[u] = view[u]
    BY <1>1, <1>2, <2>1, <2>2 DEF TypeOK, View
  <2>4. ViewAt(t)'
    BY <2>3 DEF ViewAt
  <2> QED BY <1>1, <2>1, <2>3, <2>4, ViewRead
<1>11. ASSUME NEW t \in Threads, ReadSecond(t)
       PROVE  WholeViews'
  <2> DEFINE e == registry[target[t]]
  <2>1. /\ pc[t] = "read second" /\ oom' = oom /\ Goto(t, "idle")
        /\ view' = [view EXCEPT ![t].second = e.second,
                                ![t].stale = @ /\ view[t].gen # e.gen]
    BY <1>11 DEF ReadSecond, history
  <2>2. target[t] \in 1..Len(registry) /\ EntryAt(target[t]) /\ ReaderAt(t)
    BY <1>1, <2>1 DEF ControlAt, Reading
  <2> HIDE DEF e
  <2>3. /\ view'[t].first = view[t].first /\ view'[t].second = e.second
        /\ ~view'[t].stale => ~view[t].stale \/ view[t].gen = e.gen
        /\ \A u \in Threads : u # t => view'[u] = view[u]
    BY <1>1, <2>1 DEF TypeOK, View
  <2>4. pc'[t] = "idle" /\ \A u \in Threads : u # t => pc'[u] = pc[u]
    BY <1>2, <2>1
  <2>5. ASSUME ~view'[t].stale
        PROVE  view'[t].first = view'[t].second /\ view'[t].first \in AllParams
    <3>1. view[t].gen = e.gen
      BY <1>1, <2>1, <2>3, <2>5 DEF ViewAt
    <3>2. /\ \A u \in Threads :
               pc[u] \in {"clear", "default", "fill"} => target[u] # target[t]
          /\ view[t].first = e.first
      BY <2>1, <2>2, <3>1 DEF ReaderAt, Reading, e
    <3>3. e.first = e.second /\ e.first \in AllParams
      BY <2>2, <3>2 DEF EntryAt, e
    <3> QED BY <2>3, <3>2, <3>3
  <2>6. ViewAt(t)'
    BY <2>4, <2>5 DEF ViewAt
  <2> QED BY <1>1, <2>1, <2>3, <2>4, <2>6, ViewRead
<1>12. ASSUME NEW t \in Threads, Detect(t)
       PROVE  WholeViews'
  <2> DEFINE tag == call[t].tag
  <2>1. pc[t] = "detect" /\ detectlock = NoThread /\ oom' = oom
    BY <1>12 DEF Detect, LookupFree, history
  <2>2. \A u \in Threads : pc[u] \notin Writing
    BY <1>1, <2>1, NoWriter
  <2>3. ASSUME NEW c \in 1..Len(registry)
        PROVE  /\ registry[c].first = registry[c].second /\ registry[c].first \in AllParams
               /\ ~Knows(c, Freed)
    <3>1. /\ registry[c].first = registry[c].second /\ registry[c].first \in AllParams
          /\ registry[c].tags \in Seq(Tags)
      BY <1>1, <2>2 DEF EntryAt, Writing
    <3> QED BY <3>1, EdiRegistryAssumption DEF Knows
  <2>4. ~ReadsFreed(tag) /\ FirstTo(tag) \subseteq 1..Len(registry)
    <3>1. DOMAIN registry = 1..Len(registry)
      BY <1>1 DEF TypeOK
    <3>2. \A c \in DOMAIN registry : ~Knows(c, Freed)
      BY <2>3, <3>1
    <3>3. ~ReadsFreed(tag)
      BY <3>2 DEF ReadsFreed
    <3>4. FirstTo(tag) \subseteq DOMAIN registry
      BY DEF FirstTo
    <3> QED BY <3>1, <3>3, <3>4
  <2> DEFINE k == CHOOSE c \in FirstTo(tag) : TRUE
             e == registry[k]
             v == IF FirstTo(tag) = {} THEN NoView
                  ELSE [NoView EXCEPT !.first = e.first, !.second = e.second, !.stale = FALSE]
  <2>5. Goto(t, "idle") /\ view' = [view EXCEPT ![t] = v]
    BY <1>12, <2>4 DEF Detect
  <2>6. v.stale \/ (v.first = v.second /\ v.first \in AllParams)
    <3>1. CASE FirstTo(tag) = {}
      BY <3>1 DEF NoView
    <3>2. CASE FirstTo(tag) # {}
      <4>1. k \in FirstTo(tag)
        BY <3>2
      <4> HIDE DEF k
      <4>2. e.first = e.second /\ e.first \in AllParams
        BY <2>3, <2>4, <4>1
      <4>3. v.first = e.first /\ v.second = e.second
        BY <3>2 DEF NoView
      <4> QED BY <4>2, <4>3
    <3> QED BY <3>1, <3>2
  <2> HIDE DEF v
  <2>7. /\ pc'[t] = "idle" /\ view'[t] = v
        /\ \A u \in Threads : u # t => pc'[u] = pc[u] /\ view'[u] = view[u]
    BY <1>1, <1>2, <2>5 DEF TypeOK
  <2>8. ViewAt(t)'
    BY <2>6, <2>7 DEF ViewAt
  <2> QED BY <1>1, <2>1, <2>7, <2>8, ViewRead
<1>13. CASE UNCHANGED vars
  BY <1>1, <1>13 DEF vars, history, WholeViews, ViewAt
<1> QED BY <1>3, <1>4, <1>5, <1>6, <1>7, <1>8, <1>9, <1>10, <1>11, <1>12, <1>13 DEF Next, Step

\* All parts of the invariant together.
LEMMA InvariantStep ==
  ASSUME IInv, [Next]_vars
  PROVE  IInv'
BY TypeStep, ControlStep, WholeStep, ViewsStep DEF IInv

\* detect.c:65-330 and build.c:30-60: with any number of threads registering,
\* looking up and detecting at once, separators that nobody overwrote since the
\* lookup are read whole, and nothing undefined happens while memory lasts.
THEOREM UndisturbedReadsAreWhole == Spec => []ReadsAreWhole
<1>1. Init => IInv
  BY InitialInvariant
<1>2. IInv /\ [Next]_vars => IInv'
  BY InvariantStep
<1>3. IInv => ReadsAreWhole
  BY DEF IInv, WholeViews, ViewAt, ReadsAreWhole
<1> QED BY <1>1, <1>2, <1>3, PTL DEF Spec


-----------------------------------------------------------------------------
(* Initialisation, before it, during it and after it.                      *)

Made(i) == registry[i].name = Presets[i].name /\ registry[i].first = Presets[i].params

Fresh ==
  /\ registry = <<>>
  /\ \A n \in Names : registered[n] = 0
  /\ \A t \in Threads : progress[t] = NoProgress /\ pc[t] \in {"idle", "init"}

\* The thread t is in edi__detect_init, and the others are not past edi__init.
Beginning(t) ==
  /\ \A u \in Threads : u # t => progress[u] = NoProgress /\ pc[u] \in {"idle", "init"}
  /\ \A n \in Names : registered[n] = 0
  /\ \A i \in 1..Len(registry) : i <= Len(Presets) /\ Made(i)
  /\ pc[t] \in {"register", "detectors", "undefined"}
  /\ pc[t] = "register" => /\ Len(registry) + 1 = progress[t].preset
                           /\ progress[t].detector = 0
  /\ pc[t] = "detectors" => /\ Len(registry) = progress[t].preset
                            /\ target[t] = progress[t].preset
  /\ ~oom =>
       /\ \A i \in 1..Len(registry) :
            i < progress[t].preset => registry[i].tags = Presets[i].tags
       /\ pc[t] = "detectors" =>
            /\ Len(registry[target[t]].tags) = progress[t].detector
            /\ progress[t].detector <= Len(Preset(t).tags)
            /\ \A j \in 1..progress[t].detector :
                 registry[target[t]].tags[j] = Preset(t).tags[j]

\* A preset stays as it was made until a caller registers over its name.
Ready ==
  /\ initlock = NoThread
  /\ Len(Presets) <= Len(registry)
  /\ \A i \in 1..Len(Presets) :
       registered[Presets[i].name] = 0 =>
         Made(i) /\ (~oom => registry[i].tags = Presets[i].tags)
  /\ \A t \in Threads :
       pc[t] \in Overwriting /\ target[t] \in 1..Len(Presets) =>
         registered[Presets[target[t]].name] > 0

Inits ==
  /\ ~complete /\ initlock = NoThread => Fresh
  /\ ~complete => \A t \in Threads : initlock = t => Beginning(t)
  /\ complete => Ready

\* At first nothing has been registered.
LEMMA InitialInits == Init => Inits
BY EdiRegistryAssumption DEF Init, Inits, Fresh

\* A thread that is in a call is behind the initialisation, or in it.
LEMMA WhenReady ==
  ASSUME TypeOK, Control, Inits, NEW t \in Threads, ~Initialising(t), pc[t] \notin {"idle", "init"}
  PROVE  complete /\ Ready
<1>1. initlock # t
  BY DEF Control, ControlAt
<1>2. CASE ~complete /\ initlock = NoThread
  BY <1>2 DEF Inits, Fresh
<1>3. CASE ~complete /\ initlock \in Threads
  BY <1>1, <1>3 DEF Inits, Beginning
<1> QED BY <1>2, <1>3 DEF TypeOK, Inits

\* A thread in edi__detect_init holds edi__init_lock, and nobody got past it.
LEMMA WhenBeginning ==
  ASSUME TypeOK, Control, Inits, NEW t \in Threads, Initialising(t)
  PROVE  ~complete /\ initlock = t /\ Beginning(t) /\ progress[t].preset \in 1..Len(Presets)
<1>1. initlock = t
  BY DEF Control, ControlAt
<1>2. ~complete
  BY <1>1, EdiRegistryAssumption DEF Inits, Ready
<1>3. progress[t].preset \in 1..Len(Presets)
  BY PresetFacts DEF Initialising, TypeOK, Progress
<1> QED BY <1>1, <1>2, <1>3 DEF Inits

\* A step that leaves the table alone, and is not one of the initialisation.
LEMMA InitsKept ==
  ASSUME Inits, NEW t \in Threads,
         UNCHANGED <<registry, registered, progress, complete, initlock>>, oom => oom',
         \A u \in Threads : u # t => pc'[u] = pc[u] /\ target'[u] = target[u],
         \/ pc[t] \in {"idle", "init"} /\ pc'[t] \in {"idle", "init"}
         \/ complete /\ pc'[t] \notin Overwriting
  PROVE  Inits'
<1>1. CASE ~complete /\ initlock = NoThread
  <2>1. Fresh'
    BY <1>1 DEF Inits, Fresh
  <2> QED BY <1>1, <2>1, EdiRegistryAssumption DEF Inits
<1>2. ASSUME ~complete, NEW b \in Threads, initlock = b
      PROVE  Beginning(b)'
  <2>1. Beginning(b) /\ pc[t] \in {"idle", "init"} /\ pc'[t] \in {"idle", "init"}
    BY <1>2 DEF Inits
  <2>2. b # t
    BY <2>1 DEF Beginning
  <2> QED BY <2>1, <2>2 DEF Beginning, Made, Preset
<1>3. CASE complete
  <2>1. Ready /\ pc'[t] \notin Overwriting
    BY <1>3 DEF Inits, Overwriting
  <2>2. ASSUME NEW u \in Threads, pc'[u] \in Overwriting
        PROVE  pc[u] = pc'[u] /\ target'[u] = target[u]
    BY <2>1, <2>2
  <2>3. Ready'
    BY <2>1, <2>2 DEF Ready, Made
  <2> QED BY <1>3, <2>3 DEF Inits
<1> QED BY <1>1, <1>2, <1>3 DEF Inits

-----------------------------------------------------------------------------
(* The steps of edi__detect_init.                                          *)

\* A thread finds nothing done, and takes edi__init_lock.
LEMMA BeginStep ==
  ASSUME TypeOK, Control, Inits, NEW t \in Threads, EnterInit(t), ~complete
  PROVE  Inits'
<1>1. /\ initlock' = t /\ Goto(t, "register") /\ initlock = NoThread
      /\ progress' = [progress EXCEPT ![t].preset = 1]
      /\ UNCHANGED <<complete, registry, registered>>
  BY DEF EnterInit, InitFree, history
<1>2. Fresh
  BY <1>1 DEF Inits
<1>3. /\ pc'[t] = "register" /\ progress'[t].preset = 1 /\ progress'[t].detector = 0
      /\ \A u \in Threads : u # t => pc'[u] = pc[u] /\ progress'[u] = progress[u]
  BY <1>1, <1>2 DEF Goto, TypeOK, Fresh, Progress, NoProgress
<1>4. registry' = <<>> /\ \A i \in 1..Len(registry') : FALSE
  BY <1>1, <1>2 DEF Fresh
<1>5. Beginning(t)'
  BY <1>1, <1>2, <1>3, <1>4 DEF Beginning, Fresh
<1> QED BY <1>1, <1>5, EdiRegistryAssumption DEF Inits

\* What a step of the thread in edi__detect_init has to show.
LEMMA BeginningStays ==
  ASSUME TypeOK, Control, Inits, NEW t \in Threads, Initialising(t),
         UNCHANGED <<complete, initlock>>, Beginning(t)'
  PROVE  Inits'
<1>1. ~complete /\ initlock = t
  BY WhenBeginning
<1> QED BY <1>1, EdiRegistryAssumption DEF Inits

\* One detector more of the preset that was registered last.
LEMMA DetectorStep ==
  ASSUME TypeOK, Control, Inits, NEW t \in Threads, AddDetector(t)
  PROVE  Inits'
<1> DEFINE p == progress[t].preset
           d == progress[t].detector
           e == registry[p]
<1>1. /\ Initialising(t) /\ pc[t] = "detectors" /\ d < Len(Preset(t).tags)
      /\ UNCHANGED <<complete, initlock, target, registered>>
      /\ progress' = [progress EXCEPT ![t].detector = @ + 1]
  BY DEF AddDetector, MoreDetectors, Control, ControlAt, locks
<1>2. Beginning(t) /\ p \in 1..Len(Presets) /\ Len(registry) = p /\ target[t] = p
  BY <1>1, WhenBeginning DEF Beginning
<1>3. /\ e \in RegistryEntry /\ e.tags \in Seq(Tags \union {Freed}) /\ d \in Nat
      /\ Preset(t).tags \in Seq(Tags) /\ Preset(t) = Presets[p]
  <2>1. e \in RegistryEntry /\ d \in Nat
    BY <1>2 DEF TypeOK, Progress
  <2>2. e.tags \in Seq(Tags \union {Freed})
    BY <2>1 DEF RegistryEntry
  <2> QED BY <1>2, <2>1, <2>2, PresetFacts DEF Preset
<1>4. /\ progress'[t].preset = p /\ progress'[t].detector = d + 1
      /\ \A u \in Threads : u # t => progress'[u] = progress[u]
  BY <1>1 DEF TypeOK, Progress
<1>5. CASE Goto(t, "undefined") /\ UNCHANGED <<registry, oom>> /\ ~registry[target[t]].slots
  <2>1. pc'[t] = "undefined" /\ \A u \in Threads : u # t => pc'[u] = pc[u]
    BY <1>5 DEF Goto, TypeOK
  <2>2. Beginning(t)'
    BY <1>1, <1>2, <1>4, <1>5, <2>1 DEF Beginning, Made
  <2> QED BY <1>1, <2>2, BeginningStays
<1>6. CASE oom' = TRUE /\ UNCHANGED <<pc, registry>>
  <2>1. Beginning(t)'
    BY <1>1, <1>2, <1>4, <1>6 DEF Beginning, Made
  <2> QED BY <1>1, <2>1, BeginningStays
<1>7. CASE /\ registry' = [registry EXCEPT ![target[t]].tags =
                             Append(@, Preset(t).tags[progress'[t].detector])]
           /\ UNCHANGED <<pc, oom>>
  <2> DEFINE s == Preset(t).tags
             n == Append(e.tags, s[d + 1])
  <2>1. registry' = [registry EXCEPT ![p].tags = n]
    BY <1>2, <1>4, <1>7
  <2> HIDE DEF n
  <2>2. /\ Len(registry') = Len(registry) /\ registry'[p].tags = n
        /\ registry'[p].name = e.name /\ registry'[p].first = e.first
        /\ \A i \in 1..Len(registry) : i # p => registry'[i] = registry[i]
    BY <1>2, <1>3, <2>1 DEF TypeOK, RegistryEntry
  <2>3. ASSUME ~oom
        PROVE  /\ Len(n) = d + 1 /\ d + 1 <= Len(s)
               /\ \A j \in 1..(d + 1) : n[j] = s[j]
    <3>1. Len(e.tags) = d /\ \A j \in 1..d : e.tags[j] = s[j]
      BY <1>1, <1>2, <2>3 DEF Beginning
    <3>2. s[d + 1] \in Tags /\ d + 1 <= Len(s)
      BY <1>1, <1>3
    <3>3. Len(n) = d + 1 /\ n[d + 1] = s[d + 1] /\ \A j \in 1..d : n[j] = e.tags[j]
      BY <1>3, <3>1, <3>2 DEF n
    <3> QED BY <1>3, <3>1, <3>2, <3>3
  <2>4. Preset(t)' = Preset(t)
    BY <1>4 DEF Preset
  <2>5. \A i \in 1..Len(registry') : i <= Len(Presets) /\ Made(i)'
    BY <1>2, <2>2 DEF Beginning, Made
  <2>6. ASSUME ~oom, NEW i \in 1..Len(registry), i < p
        PROVE  registry'[i].tags = Presets[i].tags
    BY <1>2, <2>2, <2>6 DEF Beginning
  <2>7. Beginning(t)'
    BY <1>1, <1>2, <1>4, <1>7, <2>2, <2>3, <2>4, <2>5, <2>6 DEF Beginning
  <2> QED BY <1>1, <2>7, BeginningStays
<1> QED BY <1>5, <1>6, <1>7 DEF AddDetector

\* A sequence over a set is one over a larger set.
LEMMA WiderSeq ==
  ASSUME NEW S, NEW x, NEW s \in Seq(S)
  PROVE  s \in Seq(S \union {x})
<1>1. Len(s) \in Nat /\ s \in [1..Len(s) -> S \union {x}]
  OBVIOUS
<1> QED BY <1>1

\* All detectors of a preset have been added.
LEMMA DetectorsDone ==
  ASSUME TypeOK, Control, NEW t \in Threads, Beginning(t), Initialising(t),
         pc[t] = "detectors", ~MoreDetectors(t), ~oom
  PROVE  \A i \in 1..progress[t].preset : registry[i].tags = Presets[i].tags
<1> DEFINE p == progress[t].preset
<1>1. p \in 1..Len(Presets) /\ Len(registry) = p /\ target[t] = p
  BY PresetFacts DEF Beginning, Initialising, TypeOK, Progress
<1>2. /\ registry[p].tags \in Seq(Tags \union {Freed}) /\ progress[t].detector \in Nat
      /\ Presets[p].tags \in Seq(Tags \union {Freed})
  <2>1. registry[p] \in RegistryEntry /\ Presets[p].tags \in Seq(Tags)
    BY <1>1, PresetFacts DEF TypeOK
  <2>2. registry[p].tags \in Seq(Tags \union {Freed})
    BY <2>1 DEF RegistryEntry
  <2>3. progress[t].detector \in Nat
    BY DEF TypeOK, Progress
  <2>4. Presets[p].tags \in Seq(Tags \union {Freed})
    BY <2>1, WiderSeq
  <2> QED BY <2>2, <2>3, <2>4
<1>3. /\ Len(registry[p].tags) = Len(Presets[p].tags)
      /\ \A j \in 1..Len(registry[p].tags) : registry[p].tags[j] = Presets[p].tags[j]
  BY <1>1, <1>2 DEF Beginning, MoreDetectors, Preset
<1>4. registry[p].tags = Presets[p].tags
  BY <1>2, <1>3, SeqEqual
<1> QED BY <1>1, <1>4 DEF Beginning

\* A preset with all its detectors, and on to the next.
LEMMA PresetDone ==
  ASSUME TypeOK, Control, Inits, NEW t \in Threads, NextPreset(t)
  PROVE  Inits'
<1> DEFINE p == progress[t].preset
<1>1. /\ Initialising(t) /\ pc[t] = "detectors" /\ ~MoreDetectors(t)
      /\ Goto(t, "register")
      /\ progress' = [progress EXCEPT ![t] = [preset |-> p + 1, detector |-> 0]]
      /\ UNCHANGED <<complete, initlock, registry, target, registered, oom>>
  BY DEF NextPreset, Control, ControlAt, locks, history
<1>2. Beginning(t) /\ p \in 1..Len(Presets) /\ Len(registry) = p
  BY <1>1, WhenBeginning DEF Beginning
<1>3. /\ pc'[t] = "register" /\ progress'[t].preset = p + 1 /\ progress'[t].detector = 0
      /\ \A u \in Threads : u # t => pc'[u] = pc[u] /\ progress'[u] = progress[u]
  BY <1>1 DEF Goto, TypeOK
<1>4. ~oom => \A i \in 1..p : registry[i].tags = Presets[i].tags
  BY <1>1, <1>2, DetectorsDone
<1>5. Beginning(t)'
  BY <1>1, <1>2, <1>3, <1>4 DEF Beginning, Made
<1> QED BY <1>1, <1>5, BeginningStays

\* The last preset with all its detectors: the table is ready.
LEMMA InitDone ==
  ASSUME TypeOK, Control, Inits, NEW t \in Threads, LeaveInit(t)
  PROVE  Inits' /\ Beginning(t) /\ Len(registry) = Len(Presets) /\ registry' = registry
<1>1. /\ Initialising(t) /\ pc[t] = "detectors" /\ ~MoreDetectors(t)
      /\ Goto(t, call[t].op) /\ complete' = TRUE /\ initlock' = NoThread
      /\ progress[t].preset = Len(Presets)
      /\ UNCHANGED <<registry, registered, oom, call>>
  BY DEF LeaveInit, UnlockInit, Control, ControlAt, history
<1>2. Beginning(t) /\ Len(registry) = Len(Presets) /\ call[t].op \in {"register", "get", "detect"}
  BY <1>1, WhenBeginning, CallFacts DEF Beginning, Control, ControlAt
<1>3. \A u \in Threads : pc'[u] \notin Overwriting
  <2>1. \A u \in Threads : pc'[u] = call[t].op \/ pc'[u] \in {"idle", "init"}
    BY <1>1, <1>2 DEF Goto, TypeOK, Beginning
  <2> QED BY <1>2, <2>1 DEF Overwriting
<1>4. ~oom => \A i \in 1..Len(Presets) : registry[i].tags = Presets[i].tags
  BY <1>1, <1>2, DetectorsDone
<1>5. Ready'
  BY <1>1, <1>2, <1>3, <1>4, PresetFacts DEF Ready, Beginning, Made
<1> QED BY <1>1, <1>2, <1>5 DEF Inits

-----------------------------------------------------------------------------
(* Registrations.                                                          *)

\* A preset gets the next entry, whose detectors are still to come.
LEMMA PresetRegistered ==
  ASSUME TypeOK, Control, Inits, NEW t \in Threads, RegisterNew(t), Initialising(t)
  PROVE  Inits'
<1> DEFINE p == progress[t].preset
<1>1. /\ Beginning(t) /\ p \in 1..Len(Presets) /\ pc[t] = "register"
      /\ Len(registry) + 1 = p /\ progress[t].detector = 0
  BY WhenBeginning DEF RegisterNew, Beginning
<1>2. /\ Arguments(t).name = Presets[p].name /\ Arguments(t).params = Presets[p].params
      /\ StoredName(Arguments(t).name) = Presets[p].name
      /\ Presets[p].name \in Names /\ Presets[p].params \in AllParams
  BY <1>1, PresetFacts, PresetsAssumption, EdiRegistryAssumption
     DEF Arguments, Preset, StoredName
<1>3. PICK slots \in BOOLEAN :
        /\ registry' = Append(registry, Entry(Presets[p].name, Presets[p].params, slots))
        /\ oom' = (oom \/ ~slots)
  BY <1>2 DEF RegisterNew
<1> DEFINE e == Entry(Presets[p].name, Presets[p].params, slots)
<1>4. e \in RegistryEntry
  BY <1>2, EntryIsEntry
<1>5. /\ Len(registry') = p /\ registry'[p] = e
      /\ \A c \in 1..Len(registry) : registry'[c] = registry[c]
  BY <1>1, <1>3, <1>4, Appended
<1>6. e.name = Presets[p].name /\ e.first = Presets[p].params /\ e.tags = <<>>
  BY DEF Entry
<1> HIDE DEF e
<1>7. /\ target'[t] = p /\ pc'[t] = "detectors"
      /\ \A u \in Threads : u # t => pc'[u] = pc[u]
      /\ UNCHANGED <<complete, initlock, progress, registered>>
  <2>1. target' = [target EXCEPT ![t] = p]
    BY <1>1 DEF RegisterNew, NewIndex, TypeOK
  <2>2. Goto(t, "detectors") /\ UNCHANGED <<complete, initlock, progress, registered>>
    BY DEF RegisterNew, AfterRegister, Count, locks
  <2> QED BY <2>1, <2>2 DEF Goto, TypeOK
<1>8. \A i \in 1..Len(registry') : i <= Len(Presets) /\ Made(i)'
  BY <1>1, <1>5, <1>6 DEF Beginning, Made
<1>9. Len(registry'[target'[t]].tags) = 0 /\ Preset(t)' = Presets[p]
  BY <1>5, <1>6, <1>7 DEF Preset
<1>10. Len(Preset(t)'.tags) \in Nat
  BY <1>1, <1>9, PresetFacts
<1>11. oom => oom'
  BY <1>3
<1>12. ASSUME ~oom', NEW i \in 1..Len(registry'), i < p
       PROVE  registry'[i].tags = Presets[i].tags
  BY <1>1, <1>5, <1>11, <1>12 DEF Beginning
<1>13. Beginning(t)'
  BY <1>1, <1>5, <1>7, <1>8, <1>9, <1>10, <1>12 DEF Beginning
<1> QED BY <1>7, <1>13, BeginningStays

\* The names of the presets differ, so that none of them is registered again.
LEMMA PresetsAreNew ==
  ASSUME TypeOK, Control, Inits, NEW t \in Threads, RegisterAgain(t)
  PROVE  ~Initialising(t) /\ complete /\ Ready
<1>1. ASSUME Initialising(t)
      PROVE  FALSE
  <2> DEFINE p == progress[t].preset
  <2>1. /\ Beginning(t) /\ p \in 1..Len(Presets) /\ Len(registry) + 1 = p
        /\ Len(registry) \in Nat
    BY <1>1, WhenBeginning DEF RegisterAgain, Beginning, TypeOK
  <2>2. StoredName(Arguments(t).name) = Presets[p].name
    BY <1>1, <2>1, PresetFacts, PresetsAssumption, EdiRegistryAssumption
       DEF Arguments, Preset, StoredName
  <2>3. PICK c \in 1..Len(registry) : registry[c].name = Presets[p].name
    BY <2>2 DEF RegisterAgain, Named, TypeOK
  <2>4. Presets[c].name = Presets[p].name /\ c \in 1..Len(Presets) /\ c # p
    BY <2>1, <2>3 DEF Beginning, Made
  <2> QED BY <2>1, <2>4, PresetFacts, PresetsAssumption
<1> QED BY <1>1, WhenReady DEF RegisterAgain

\* What callers register comes behind the presets.
LEMMA CallerRegistered ==
  ASSUME TypeOK, Control, Inits, NEW t \in Threads, RegisterNew(t), ~Initialising(t)
  PROVE  Inits'
<1> DEFINE n == StoredName(Arguments(t).name)
<1>1. complete /\ Ready /\ pc[t] = "register"
  BY WhenReady DEF RegisterNew
<1>2. n \in Names \union {NoName} /\ Arguments(t).params \in AllParams
  BY <1>1, ArgumentFacts
<1>3. PICK slots \in BOOLEAN :
        /\ registry' = Append(registry, Entry(n, Arguments(t).params, slots))
        /\ oom' = (oom \/ ~slots)
  BY DEF RegisterNew
<1>4. /\ Len(registry') = Len(registry) + 1 /\ Len(registry) \in Nat
      /\ \A c \in 1..Len(registry) : registry'[c] = registry[c]
  BY <1>2, <1>3, EntryIsEntry, Appended
<1>5. /\ UNCHANGED <<complete, initlock>> /\ (oom => oom')
      /\ Goto(t, "idle")
      /\ registered' = registered \/ registered' = [registered EXCEPT ![n] = @ + 1]
  BY <1>3 DEF RegisterNew, AfterRegister, Count, locks
<1>6. \A m \in Names : registered'[m] = 0 => registered[m] = 0
  BY <1>5 DEF TypeOK
<1>7. \A u \in Threads : pc'[u] \notin Overwriting
  <2>1. \A u \in Threads : pc[u] \notin Overwriting
    BY EdiRegistryAssumption DEF RegisterNew, Control, ControlAt
  <2> QED BY <1>5, <2>1 DEF Goto, TypeOK, Overwriting
<1>8. ASSUME NEW i \in 1..Len(Presets), registered'[Presets[i].name] = 0
      PROVE  Made(i)' /\ (~oom' => registry'[i].tags = Presets[i].tags)
  <2>1. registered[Presets[i].name] = 0 /\ i \in 1..Len(registry)
    BY <1>1, <1>4, <1>6, <1>8, PresetFacts DEF Ready
  <2> QED BY <1>1, <1>4, <1>5, <2>1 DEF Ready, Made
<1>9. Ready'
  BY <1>1, <1>4, <1>5, <1>7, <1>8, PresetFacts DEF Ready
<1> QED BY <1>1, <1>5, <1>9 DEF Inits

\* An entry is about to be overwritten: if it was a preset, its name was its own.
LEMMA RegisteredAgain ==
  ASSUME TypeOK, Control, Inits, NEW t \in Threads, RegisterAgain(t)
  PROVE  Inits'
<1> DEFINE n == StoredName(Arguments(t).name)
<1>1. /\ ~Initialising(t) /\ complete /\ Ready /\ detectlock = NoThread
      /\ UNCHANGED <<complete, initlock, registry, oom>> /\ Goto(t, "cleanup")
  BY PresetsAreNew DEF RegisterAgain, locks
<1>2. PICK c \in Named(n) : target' = [target EXCEPT ![t] = c]
  BY DEF RegisterAgain
<1>3. n # NoName /\ registry[c].name = n /\ n \in Names
  <2>1. pc[t] = "register"
    BY DEF RegisterAgain
  <2>2. n \in Names \union {NoName}
    BY <2>1, ArgumentFacts
  <2> QED BY <2>2 DEF Named
<1>4. registered' = [registered EXCEPT ![n] = @ + 1]
  BY <1>1, <1>3 DEF RegisterAgain, Count
<1>5. /\ \A m \in Names : registered'[m] = 0 => registered[m] = 0
      /\ registered'[n] > 0 /\ \A m \in Names : registered[m] # 0 => registered'[m] > 0
  BY <1>3, <1>4 DEF TypeOK
<1>6. \A u \in Threads : pc'[u] \in Overwriting => u = t
  <2>1. \A u \in Threads : pc[u] \notin Overwriting
    BY <1>1, EdiRegistryAssumption DEF Control, ControlAt
  <2> QED BY <1>1, <2>1 DEF Goto, TypeOK
<1>7. target'[t] = c
  BY <1>2 DEF TypeOK
<1>8. ASSUME c \in 1..Len(Presets)
      PROVE  registered'[Presets[c].name] > 0
  <2>1. CASE registered[Presets[c].name] = 0
    <3>1. Presets[c].name = n
      BY <1>1, <1>3, <1>8, <2>1 DEF Ready, Made
    <3> QED BY <1>5, <3>1
  <2>2. CASE registered[Presets[c].name] # 0
    BY <1>5, <1>8, <2>2, PresetFacts
  <2> QED BY <2>1, <2>2
<1>9. \A i \in 1..Len(Presets) :
        registered'[Presets[i].name] = 0 =>
          Made(i)' /\ (~oom' => registry'[i].tags = Presets[i].tags)
  BY <1>1, <1>5, PresetFacts DEF Ready, Made
<1>10. Ready'
  BY <1>1, <1>6, <1>7, <1>8, <1>9 DEF Ready
<1> QED BY <1>1, <1>10 DEF Inits

\* The entry that is overwritten is one that callers registered over.
LEMMA OverwrittenWasAgain ==
  ASSUME TypeOK, Control, Inits, NEW t \in Threads, pc[t] \in Overwriting,
         NEW e, Overwrite(t, e), oom => oom',
         UNCHANGED <<complete, initlock, target, registered>>,
         \A u \in Threads : u # t => pc'[u] = pc[u]
  PROVE  Inits'
<1>1. complete /\ Ready
  <2>1. ~Initialising(t)
    BY WhenBeginning DEF Beginning, Overwriting
  <2> QED BY <2>1, WhenReady DEF Overwriting
<1>2. target[t] \in 1..Len(registry)
  BY DEF Control, ControlAt
<1>3. /\ Len(registry') = Len(registry)
      /\ \A c \in 1..Len(registry) : c # target[t] => registry'[c] = registry[c]
  BY <1>2 DEF Overwrite, TypeOK
<1>4. ASSUME NEW i \in 1..Len(Presets), registered[Presets[i].name] = 0
      PROVE  Made(i)' /\ (~oom' => registry'[i].tags = Presets[i].tags)
  <2>1. i # target[t] /\ i \in 1..Len(registry)
    BY <1>1, <1>2, <1>4, PresetFacts DEF Ready
  <2> QED BY <1>1, <1>3, <1>4, <2>1 DEF Ready, Made
<1>5. ASSUME NEW u \in Threads, pc'[u] \in Overwriting, target'[u] \in 1..Len(Presets)
      PROVE  registered'[Presets[target'[u]].name] > 0
  <2>1. pc[u] \in Overwriting
    BY <1>5
  <2> QED BY <1>1, <1>5, <2>1 DEF Ready
<1>6. Ready'
  BY <1>1, <1>3, <1>4, <1>5 DEF Ready
<1> QED BY <1>1, <1>6 DEF Inits

\* detect.c:112-200, init.c:42-60: all presets are in the table before edi__init
\* lets a call search it, and stay what they were until they are registered over.
LEMMA InitsStep ==
  ASSUME TypeOK, Control, Inits, [Next]_vars
  PROVE  Inits'
<1>1. ASSUME NEW t \in Threads, NEW l, Goto(t, l)
      PROVE  pc'[t] = l /\ \A u \in Threads : u # t => pc'[u] = pc[u]
  BY <1>1 DEF Goto, TypeOK
<1>2. ASSUME NEW t \in Threads, Call(t)
      PROVE  Inits'
  <2>1. /\ pc[t] = "idle" /\ Goto(t, "init") /\ UNCHANGED target
        /\ UNCHANGED <<registry, registered, progress, complete, initlock, oom>>
    BY <1>2 DEF Call, locks, history
  <2>2. pc'[t] = "init" /\ \A u \in Threads : u # t => pc'[u] = pc[u]
    BY <1>1, <2>1
  <2> QED BY <2>1, <2>2, InitsKept
<1>3. ASSUME NEW t \in Threads, EnterInit(t)
      PROVE  Inits'
  <2>1. CASE complete
    <3>1. /\ pc[t] = "init" /\ Goto(t, call[t].op) /\ UNCHANGED target
          /\ UNCHANGED <<registry, registered, progress, complete, initlock, oom>>
      BY <1>3, <2>1 DEF EnterInit, history
    <3>2. call[t].op \in {"register", "get", "detect"}
      BY <3>1, CallFacts DEF Control, ControlAt
    <3>3. pc'[t] \notin Overwriting /\ \A u \in Threads : u # t => pc'[u] = pc[u]
      BY <1>1, <3>1, <3>2 DEF Overwriting
    <3> QED BY <2>1, <3>1, <3>3, InitsKept
  <2> QED BY <1>3, <2>1, BeginStep
<1>4. ASSUME NEW t \in Threads, RegisterNew(t)
      PROVE  Inits'
  BY <1>4, PresetRegistered, CallerRegistered
<1>5. ASSUME NEW t \in Threads, RegisterFails(t)
      PROVE  Inits'
  <2>1. /\ pc[t] = "register" /\ oom'
        /\ UNCHANGED <<registry, registered, progress, target, complete, initlock>>
    BY <1>5 DEF RegisterFails, locks
  <2>2. CASE Initialising(t)
    <3>1. Beginning(t)
      BY <2>2, WhenBeginning
    <3>2. Goto(t, "undefined")
      BY <1>5, <2>2 DEF RegisterFails
    <3>3. pc'[t] = "undefined" /\ \A u \in Threads : u # t => pc'[u] = pc[u]
      BY <1>1, <3>2
    <3>4. Beginning(t)'
      BY <2>1, <3>1, <3>3 DEF Beginning, Made
    <3> QED BY <2>1, <2>2, <3>4, BeginningStays
  <2>3. CASE ~Initialising(t)
    <3>1. Goto(t, "idle") /\ complete
      BY <1>5, <2>1, <2>3, WhenReady DEF RegisterFails
    <3>2. pc'[t] \notin Overwriting /\ \A u \in Threads : u # t => pc'[u] = pc[u]
      BY <1>1, <3>1 DEF Overwriting
    <3> QED BY <2>1, <3>1, <3>2, InitsKept
  <2> QED BY <2>2, <2>3
<1>6. ASSUME NEW t \in Threads, Cleanup(t) \/ Clear(t) \/ Default(t) \/ Fill(t)
      PROVE  Inits'
  <2>1. /\ pc[t] \in Overwriting
        /\ UNCHANGED <<complete, initlock, target, registered>>
        /\ \E e : Overwrite(t, e)
        /\ oom' = oom \/ \E slots \in BOOLEAN : oom' = (oom \/ ~slots)
    <3>1. CASE Cleanup(t)
      BY <3>1 DEF Cleanup, Overwriting, locks, history
    <3>2. CASE Clear(t)
      BY <3>2 DEF Clear, Overwriting, locks, history
    <3>3. CASE Default(t)
      BY <3>3 DEF Default, Overwriting, locks, history
    <3>4. CASE Fill(t)
      BY <3>4 DEF Fill, Overwriting, locks
    <3> QED BY <1>6, <3>1, <3>2, <3>3, <3>4
  <2>2. \E l : Goto(t, l)
    BY <1>6 DEF Cleanup, Clear, Default, Fill
  <2>3. \A u \in Threads : u # t => pc'[u] = pc[u]
    BY <1>1, <2>2
  <2>4. oom => oom'
    BY <2>1
  <2> QED BY <2>1, <2>3, <2>4, OverwrittenWasAgain
<1>7. ASSUME NEW t \in Threads, Get(t) \/ ReadFirst(t) \/ ReadSecond(t) \/ Detect(t)
      PROVE  Inits'
  <2>1. /\ pc[t] \in {"get", "detect"} \union Reading
        /\ UNCHANGED <<registry, registered, progress, complete, initlock, oom>>
        /\ \A u \in Threads : u # t => target'[u] = target[u]
    BY <1>7 DEF Get, ReadFirst, ReadSecond, Detect, Reading, locks, history, TypeOK
  <2>2. /\ pc'[t] \notin Overwriting
        /\ \A u \in Threads : u # t => pc'[u] = pc[u]
    <3>1. \E l \in {"idle", "undefined"} \union Reading : Goto(t, l)
      BY <1>7 DEF Get, ReadFirst, ReadSecond, Detect, Reading
    <3> QED BY <1>1, <3>1 DEF Overwriting, Reading
  <2>3. complete
    <3>1. ~Initialising(t)
      BY <2>1 DEF Control, ControlAt, Overwriting, Reading
    <3> QED BY <2>1, <3>1, WhenReady DEF Reading
  <2> QED BY <2>1, <2>2, <2>3, InitsKept
<1>8. CASE UNCHANGED vars
  BY <1>8 DEF vars, locks, history, Inits, Fresh, Beginning, Ready, Made, Preset
<1> QED BY <1>2, <1>3, <1>4, <1>5, <1>6, <1>7, <1>8, DetectorStep, PresetDone, InitDone,
        RegisteredAgain DEF Next, Step

-----------------------------------------------------------------------------
(* One entry at most for a name: it comes with the first registration, goes *)
(* with the second, and so on.                                              *)

Times(n) ==
  LET preset == IF \E i \in DOMAIN Presets : Presets[i].name = n THEN 1 ELSE 0
  IN  IF n = Stored[n] THEN (preset + registered[n]) % 2 ELSE 0

\* The name of an entry counts as gone once a thread is to overwrite it.
Going(n) ==
  \E t \in Threads : pc[t] \in {"cleanup", "clear"} /\ registry[target[t]].name = n

NamesAt(n) ==
  \/ /\ Times(n) = 0 /\ (IF Going(n) THEN \E c : Named(n) = {c} ELSE Named(n) = {})
  \/ /\ Times(n) = 1 /\ ~Going(n) /\ \E c : Named(n) = {c}

NamesInv == complete => \A n \in Names : NamesAt(n)

\* A step that changes neither names nor registrations.
LEMMA NamesKept ==
  ASSUME NamesInv, complete' = complete, registered' = registered,
         \A n \in Names : Named(n)' = Named(n) /\ (Going(n)' <=> Going(n))
  PROVE  NamesInv'
<1>1. \A n : Times(n)' = Times(n)
  BY DEF Times
<1> QED BY <1>1 DEF NamesInv, NamesAt

\* No thread but the holder of detectlock makes a name go.
LEMMA NothingGoing ==
  ASSUME Control, detectlock = NoThread
  PROVE  \A t \in Threads : pc[t] \notin {"cleanup", "clear"}
BY EdiRegistryAssumption DEF Control, ControlAt, Overwriting

\* A step that leaves the table alone and begins no overwriting.
LEMMA NamesQuiet ==
  ASSUME NamesInv, NEW t \in Threads, UNCHANGED <<complete, registry, registered>>,
         \A u \in Threads : u # t => pc'[u] = pc[u] /\ target'[u] = target[u],
         pc[t] \notin {"cleanup", "clear"}, pc'[t] \notin {"cleanup", "clear"}
  PROVE  NamesInv'
<1>1. ASSUME NEW n \in Names
      PROVE  Named(n)' = Named(n) /\ (Going(n)' <=> Going(n))
  BY DEF Named, Going
<1> QED BY <1>1, NamesKept

\* After the initialisation the presets have their names, and nobody else has one.
LEMMA NamesAfterInit ==
  ASSUME TypeOK, Control, Inits, NEW t \in Threads, LeaveInit(t)
  PROVE  NamesInv'
<1>1. /\ Beginning(t) /\ Len(registry) = Len(Presets) /\ registry' = registry
      /\ pc[t] = "detectors" /\ Goto(t, call[t].op) /\ registered' = registered
      /\ call[t].op \in {"register", "get", "detect"}
  <2>1. pc[t] = "detectors" /\ Goto(t, call[t].op) /\ registered' = registered
    BY DEF LeaveInit, history
  <2>2. call[t].op \in {"register", "get", "detect"}
    BY <2>1, CallFacts DEF Control, ControlAt
  <2> QED BY <2>1, <2>2, InitDone
<1>2. \A u \in Threads : pc'[u] \notin {"cleanup", "clear"}
  <2>1. \A u \in Threads : pc'[u] = call[t].op \/ pc'[u] \in {"idle", "init"}
    BY <1>1 DEF Goto, TypeOK, Beginning
  <2> QED BY <1>1, <2>1
<1>3. /\ \A i \in 1..Len(Presets) : registry[i].name = Presets[i].name
      /\ \A n \in Names : registered[n] = 0
  BY <1>1 DEF Beginning, Made
<1>4. ASSUME NEW n \in Names
      PROVE  NamesAt(n)'
  <2>1. Named(n)' = {i \in 1..Len(Presets) : Presets[i].name = n}
    BY <1>1, <1>3, EdiRegistryAssumption DEF Named, TypeOK
  <2>2. CASE \E i \in DOMAIN Presets : Presets[i].name = n
    <3>1. PICK i \in DOMAIN Presets : Presets[i].name = n
      BY <2>2
    <3>2. Named(n)' = {i}
      BY <2>1, <3>1, PresetFacts, PresetsAssumption
    <3>3. n = Stored[n]
      BY <3>1, PresetsAssumption
    <3>4. Times(n)' = 1
      BY <1>1, <1>3, <2>2, <3>3 DEF Times
    <3> QED BY <1>2, <3>2, <3>4 DEF NamesAt, Going
  <2>3. CASE ~\E i \in DOMAIN Presets : Presets[i].name = n
    <3>1. Named(n)' = {}
      BY <2>1, <2>3, PresetFacts
    <3>2. Times(n)' = 0
      BY <1>1, <1>3, <2>3 DEF Times
    <3> QED BY <1>2, <3>1, <3>2 DEF NamesAt, Going
  <2> QED BY <2>2, <2>3
<1> QED BY <1>4 DEF NamesInv

\* One registration more under a name that is stored whole.
LEMMA TimesAlternates ==
  ASSUME TypeOK, NEW n \in Names, n = Stored[n], registered' = [registered EXCEPT ![n] = @ + 1]
  PROVE  /\ Times(n) = 0 => Times(n)' = 1
         /\ Times(n) = 1 => Times(n)' = 0
         /\ \A m \in Names : m # n => Times(m)' = Times(m)
<1>1. registered[n] \in Nat /\ registered'[n] = registered[n] + 1
  BY DEF TypeOK
<1>2. \A m \in Names : m # n => registered'[m] = registered[m]
  BY DEF TypeOK
<1>3. /\ Times(n) = 0 => Times(n)' = 1
      /\ Times(n) = 1 => Times(n)' = 0
  BY <1>1 DEF Times
<1> QED BY <1>2, <1>3 DEF Times

\* A name that is not in the table gets an entry, and only one.
LEMMA NamesAfterNew ==
  ASSUME TypeOK, Control, Inits, NamesInv, NEW t \in Threads, RegisterNew(t)
  PROVE  NamesInv'
<1> DEFINE k == Len(registry) + 1
<1>1. /\ pc[t] = "register" /\ detectlock = NoThread
      /\ Goto(t, AfterRegister(t)) /\ complete' = complete
  BY DEF RegisterNew, locks
<1>2. PICK n \in Names \union {NoName} : n = StoredName(Arguments(t).name)
  BY <1>1, ArgumentFacts
<1>3. PICK slots \in BOOLEAN : registry' = Append(registry, Entry(n, Arguments(t).params, slots))
  BY <1>2 DEF RegisterNew
<1>4. /\ Len(registry) \in Nat /\ Len(registry') = k /\ registry'[k].name = n
      /\ \A c \in 1..Len(registry) : registry'[c] = registry[c]
  <2> DEFINE e == Entry(n, Arguments(t).params, slots)
  <2>1. e \in RegistryEntry /\ e.name = n /\ registry' = Append(registry, e)
    BY <1>1, <1>3, ArgumentFacts, EntryIsEntry DEF Entry
  <2> HIDE DEF e
  <2> QED BY <2>1, Appended
<1>5. DOMAIN registry = 1..Len(registry) /\ DOMAIN registry' = 1..k
  <2>1. registry' \in Seq(RegistryEntry)
    BY <1>1, <1>3, ArgumentFacts, EntryIsEntry, Appended
  <2> QED BY <1>4, <2>1 DEF TypeOK
<1>6. \A m \in Names : Named(m)' = IF m = n THEN Named(m) \union {k} ELSE Named(m)
  <2> HIDE DEF k
  <2>1. k \notin 1..Len(registry) /\ 1..k = 1..Len(registry) \union {k}
    BY <1>4 DEF k
  <2> QED BY <1>4, <1>5, <2>1, EdiRegistryAssumption DEF Named
<1>7. \A m : ~Going(m) /\ ~Going(m)'
  <2>1. \A u \in Threads : pc[u] \notin {"cleanup", "clear"}
    BY <1>1, NothingGoing
  <2>2. \A u \in Threads : pc'[u] \notin {"cleanup", "clear"}
    BY <1>1, <2>1 DEF Goto, TypeOK, AfterRegister
  <2> QED BY <2>1, <2>2 DEF Going
<1>8. ASSUME complete
      PROVE  \A m \in Names : NamesAt(m)'
  <2>1. ~Initialising(t)
    BY <1>8, WhenBeginning
  <2>2. \A m \in Names : NamesAt(m)
    BY <1>8 DEF NamesInv
  <2>3. Named(n) = {}
    BY <1>2 DEF RegisterNew
  <2>4. CASE n = NoName
    <3>1. registered' = registered /\ n \notin Names
      BY <1>2, <2>1, <2>4, EdiRegistryAssumption DEF RegisterNew, Count
    <3>2. \A m \in Names : Named(m)' = Named(m) /\ Times(m)' = Times(m)
      BY <1>6, <3>1 DEF Times
    <3> TAKE m \in Names
    <3>3. NamesAt(m) /\ Named(m)' = Named(m) /\ Times(m)' = Times(m)
      BY <2>2, <3>2
    <3> QED BY <1>7, <3>3 DEF NamesAt
  <2>5. CASE n # NoName
    <3>1. n \in Names /\ registered' = [registered EXCEPT ![n] = @ + 1] /\ n = Stored[n]
      <4>1. n \in Names /\ registered' = [registered EXCEPT ![n] = @ + 1]
        BY <1>2, <2>1, <2>5 DEF RegisterNew, Count
      <4>2. Arguments(t).name \in Names /\ n = Stored[Arguments(t).name]
        BY <1>1, <1>2, <2>5, ArgumentFacts DEF StoredName
      <4> QED BY <4>1, <4>2, EdiRegistryAssumption
    <3>2. Times(n) = 0
      BY <1>7, <2>2, <2>3, <3>1 DEF NamesAt
    <3>3. Times(n)' = 1 /\ Named(n)' = {k}
      BY <1>6, <2>3, <3>1, <3>2, TimesAlternates
    <3>4. \A m \in Names : m # n => Times(m)' = Times(m) /\ Named(m)' = Named(m)
      BY <1>6, <3>1, TimesAlternates
    <3> TAKE m \in Names
    <3>5. CASE m = n
      BY <1>7, <3>3, <3>5 DEF NamesAt
    <3>6. CASE m # n
      <4>1. NamesAt(m) /\ Named(m)' = Named(m) /\ Times(m)' = Times(m)
        BY <2>2, <3>4, <3>6
      <4> QED BY <1>7, <4>1 DEF NamesAt
    <3> QED BY <3>5, <3>6
  <2> QED BY <2>4, <2>5
<1> QED BY <1>1, <1>8 DEF NamesInv

\* A name that is in the table begins to go.
LEMMA NamesAfterAgain ==
  ASSUME TypeOK, Control, Inits, NamesInv, NEW t \in Threads, RegisterAgain(t)
  PROVE  NamesInv'
<1>1. /\ pc[t] = "register" /\ detectlock = NoThread /\ Goto(t, "cleanup")
      /\ UNCHANGED <<complete, registry>> /\ complete /\ ~Initialising(t)
  BY PresetsAreNew DEF RegisterAgain, locks
<1>2. PICK n \in Names \union {NoName} : n = StoredName(Arguments(t).name)
  BY <1>1, ArgumentFacts
<1>3. PICK c \in Named(n) : target' = [target EXCEPT ![t] = c]
  BY <1>2 DEF RegisterAgain
<1>4. /\ n \in Names /\ registry[c].name = n /\ target'[t] = c
      /\ registered' = [registered EXCEPT ![n] = @ + 1]
  <2>1. n \in Names /\ registry[c].name = n
    BY DEF Named
  <2> QED BY <1>1, <1>2, <1>3, <2>1, EdiRegistryAssumption DEF RegisterAgain, Count, TypeOK
<1>5. \A m : ~Going(m)
  BY <1>1, NothingGoing DEF Going
<1>6. \A m : Going(m)' <=> m = n
  <2>1. /\ pc'[t] = "cleanup"
        /\ \A u \in Threads : u # t => pc'[u] \notin {"cleanup", "clear"}
    BY <1>1, NothingGoing DEF Goto, TypeOK
  <2> QED BY <1>1, <1>4, <2>1 DEF Going
<1>7. Times(n) = 1 /\ \E d : Named(n) = {d}
  BY <1>1, <1>4, <1>5 DEF NamesInv, NamesAt
<1>8. n = Stored[n]
  BY <1>7 DEF Times
<1>9. Times(n)' = 0 /\ \A m \in Names : m # n => Times(m)' = Times(m)
  BY <1>4, <1>7, <1>8, TimesAlternates
<1>10. \A m : Named(m)' = Named(m)
  BY <1>1 DEF Named
<1>11. ASSUME NEW m \in Names
       PROVE  NamesAt(m)'
  <2>1. NamesAt(m) /\ Named(m)' = Named(m)
    BY <1>1, <1>10 DEF NamesInv
  <2>2. CASE m = n
    BY <1>6, <1>7, <1>9, <1>10, <2>2 DEF NamesAt
  <2>3. CASE m # n
    BY <1>5, <1>6, <1>9, <2>1, <2>3 DEF NamesAt
  <2> QED BY <2>2, <2>3
<1> QED BY <1>11 DEF NamesInv

\* An entry is overwritten and keeps its name.
LEMMA NameOverwritten ==
  ASSUME TypeOK, Control, NamesInv, NEW t \in Threads, pc[t] \in Overwriting,
         NEW e, Overwrite(t, e), e.name = registry[target[t]].name,
         UNCHANGED <<complete, target, registered>>,
         \A u \in Threads : u # t => pc'[u] = pc[u],
         pc[t] \in {"cleanup", "clear"} <=> pc'[t] \in {"cleanup", "clear"}
  PROVE  NamesInv'
<1>1. target[t] \in 1..Len(registry)
  BY DEF Control, ControlAt
<1>2. /\ DOMAIN registry' = DOMAIN registry
      /\ \A c \in DOMAIN registry : registry'[c].name = registry[c].name
  BY <1>1 DEF Overwrite, TypeOK
<1>3. \A n \in Names : Named(n)' = Named(n)
  BY <1>2 DEF Named
<1>4. \A u \in Threads : pc[u] \in {"cleanup", "clear"} => target[u] \in DOMAIN registry
  BY DEF Control, ControlAt, Overwriting, TypeOK
<1>5. \A n \in Names : Going(n)' <=> Going(n)
  BY <1>2, <1>4 DEF Going
<1> QED BY <1>3, <1>5, NamesKept

\* memset takes the name out of the table.
LEMMA NameCleared ==
  ASSUME TypeOK, Control, Inits, NamesInv, NEW t \in Threads, Clear(t)
  PROVE  NamesInv'
<1> DEFINE r == registry[target[t]]
<1>1. /\ pc[t] = "clear" /\ Overwrite(t, Cleared(r)) /\ Goto(t, "default")
      /\ UNCHANGED <<complete, target, registered>>
  BY DEF Clear, locks, history
<1>2. target[t] \in DOMAIN registry /\ DOMAIN registry = 1..Len(registry) /\ r \in RegistryEntry
  BY <1>1 DEF Control, ControlAt, Overwriting, TypeOK
<1>3. Cleared(r).name = NoName
  BY <1>2 DEF Cleared, RegistryEntry
<1>4. /\ DOMAIN registry' = DOMAIN registry
      /\ registry'[target[t]].name = NoName
      /\ \A c \in DOMAIN registry : c # target[t] => registry'[c] = registry[c]
  BY <1>1, <1>2, <1>3 DEF Overwrite
<1>5. PICK n \in Names \union {NoName} : n = r.name
  BY <1>2 DEF RegistryEntry
<1>6. \A u \in Threads : u # t => pc[u] \notin {"cleanup", "clear"}
  BY <1>1 DEF Control, ControlAt, Overwriting
<1>7. \A m : (Going(m) <=> m = n) /\ ~Going(m)'
  <2>1. /\ pc'[t] = "default"
        /\ \A u \in Threads : u # t => pc'[u] \notin {"cleanup", "clear"}
    BY <1>1, <1>6 DEF Goto, TypeOK
  <2> QED BY <1>1, <1>5, <1>6, <2>1 DEF Going
<1>8. ASSUME NEW m \in Names, m # n
      PROVE  Named(m)' = Named(m)
  BY <1>2, <1>4, <1>5, <1>8, EdiRegistryAssumption DEF Named
<1>9. \A m : Times(m)' = Times(m)
  BY <1>1 DEF Times
<1>10. ASSUME complete, NEW m \in Names
       PROVE  NamesAt(m)'
  <2>1. NamesAt(m)
    BY <1>10 DEF NamesInv
  <2>2. CASE m = n
    <3>1. Times(m) = 0 /\ \E c : Named(m) = {c}
      BY <1>7, <2>1, <2>2 DEF NamesAt
    <3>2. target[t] \in Named(m)
      BY <1>2, <1>5, <2>2, EdiRegistryAssumption DEF Named
    <3>3. Named(m) = {target[t]}
      BY <3>1, <3>2
    <3>4. Named(m)' = {}
      BY <1>4, <3>3, EdiRegistryAssumption DEF Named
    <3> QED BY <1>7, <1>9, <3>1, <3>4 DEF NamesAt
  <2>3. CASE m # n
    BY <1>7, <1>8, <1>9, <2>1, <2>3 DEF NamesAt
  <2> QED BY <2>2, <2>3
<1> QED BY <1>1, <1>10 DEF NamesInv

\* Every step keeps names at one entry or none.
LEMMA NamesStep ==
  ASSUME TypeOK, Control, Inits, NamesInv, [Next]_vars
  PROVE  NamesInv'
<1>1. ASSUME NEW t \in Threads, NEW l, Goto(t, l)
      PROVE  pc'[t] = l /\ \A u \in Threads : u # t => pc'[u] = pc[u]
  BY <1>1 DEF Goto, TypeOK
<1>2. ASSUME NEW t \in Threads, Call(t) \/ EnterInit(t)
      PROVE  NamesInv'
  <2>1. /\ pc[t] \in {"idle", "init"} /\ UNCHANGED <<complete, registry, registered, target>>
        /\ Goto(t, "init") \/ Goto(t, "register") \/ (pc[t] = "init" /\ Goto(t, call[t].op))
    BY <1>2 DEF Call, EnterInit, locks, history
  <2>2. pc[t] = "init" => call[t].op \in {"register", "get", "detect"}
    BY CallFacts DEF Control, ControlAt
  <2>3. pc'[t] \notin {"cleanup", "clear"} /\ \A u \in Threads : u # t => pc'[u] = pc[u]
    BY <1>1, <2>1, <2>2
  <2> QED BY <2>1, <2>3, NamesQuiet
<1>3. ASSUME NEW t \in Threads, AddDetector(t) \/ NextPreset(t)
      PROVE  NamesInv'
  <2>1. Initialising(t) /\ complete' = complete
    BY <1>3 DEF AddDetector, NextPreset, Control, ControlAt, locks
  <2> QED BY <2>1, WhenBeginning DEF NamesInv
<1>4. ASSUME NEW t \in Threads, RegisterFails(t)
      PROVE  NamesInv'
  <2>1. /\ pc[t] = "register" /\ UNCHANGED <<complete, registry, registered, target>>
        /\ Goto(t, IF Initialising(t) THEN "undefined" ELSE "idle")
    BY <1>4 DEF RegisterFails, locks
  <2>2. pc'[t] \in {"undefined", "idle"} /\ \A u \in Threads : u # t => pc'[u] = pc[u]
    BY <1>1, <2>1
  <2> QED BY <2>1, <2>2, NamesQuiet
<1>5. ASSUME NEW t \in Threads, Cleanup(t) \/ Default(t) \/ Fill(t)
      PROVE  NamesInv'
  <2> DEFINE r == registry[target[t]]
  <2>1. pc[t] \in Overwriting /\ UNCHANGED <<complete, target, registered>>
    BY <1>5 DEF Cleanup, Default, Fill, Overwriting, locks, history
  <2>2. r \in RegistryEntry
    BY <2>1 DEF Control, ControlAt, TypeOK
  <2>3. PICK e : Overwrite(t, e) /\ e.name = r.name
    <3>1. CASE Cleanup(t)
      <4> DEFINE e == [r EXCEPT !.tags = [i \in DOMAIN @ |-> Freed], !.gen = @ + 1]
      <4>1. e.name = r.name
        BY <2>2 DEF RegistryEntry
      <4> QED BY <3>1, <4>1 DEF Cleanup
    <3>2. CASE Default(t)
      <4> DEFINE e == [r EXCEPT !.first = Defaults, !.second = Defaults]
      <4>1. e.name = r.name
        BY <2>2 DEF RegistryEntry
      <4> QED BY <3>2, <4>1 DEF Default
    <3>3. CASE Fill(t)
      <4>1. PICK slots \in BOOLEAN :
              Overwrite(t, [r EXCEPT !.first = Arguments(t).params,
                                     !.second = Arguments(t).params, !.slots = slots])
        BY <3>3 DEF Fill
      <4> DEFINE e == [r EXCEPT !.first = Arguments(t).params,
                                !.second = Arguments(t).params, !.slots = slots]
      <4>2. e.name = r.name
        BY <2>2 DEF RegistryEntry
      <4> QED BY <4>1, <4>2
    <3> QED BY <1>5, <3>1, <3>2, <3>3
  <2>4. \/ pc[t] = "cleanup" /\ Goto(t, "clear")
        \/ pc[t] = "default" /\ Goto(t, "fill")
        \/ pc[t] = "fill" /\ Goto(t, AfterRegister(t))
    BY <1>5 DEF Cleanup, Default, Fill
  <2>5. /\ pc[t] \in {"cleanup", "clear"} <=> pc'[t] \in {"cleanup", "clear"}
        /\ \A u \in Threads : u # t => pc'[u] = pc[u]
    BY <1>1, <2>4 DEF AfterRegister
  <2> QED BY <2>1, <2>3, <2>5, NameOverwritten
<1>6. ASSUME NEW t \in Threads, Get(t) \/ ReadFirst(t) \/ ReadSecond(t) \/ Detect(t)
      PROVE  NamesInv'
  <2>1. /\ pc[t] \in {"get", "detect"} \union Reading
        /\ UNCHANGED <<complete, registry, registered>>
        /\ \A u \in Threads : u # t => target'[u] = target[u]
    BY <1>6 DEF Get, ReadFirst, ReadSecond, Detect, Reading, locks, history, TypeOK
  <2>2. /\ pc'[t] \notin {"cleanup", "clear"}
        /\ \A u \in Threads : u # t => pc'[u] = pc[u]
    <3>1. \E l \in {"idle", "undefined"} \union Reading : Goto(t, l)
      BY <1>6 DEF Get, ReadFirst, ReadSecond, Detect, Reading
    <3> QED BY <1>1, <3>1 DEF Reading
  <2> QED BY <2>1, <2>2, NamesQuiet DEF Reading
<1>7. CASE UNCHANGED vars
  BY <1>7, NamesKept DEF vars, locks, history, Named, Going
<1> QED BY <1>2, <1>3, <1>4, <1>5, <1>6, <1>7, NamesAfterInit, NamesAfterNew,
        NamesAfterAgain, NameCleared DEF Next, Step

-----------------------------------------------------------------------------
TableInv == TypeOK /\ Control /\ Inits /\ NamesInv

\* All parts of the invariant together.
LEMMA TableInvariant ==
  /\ Init => TableInv
  /\ TableInv /\ [Next]_vars => TableInv'
<1>1. Init => TableInv
  BY InitialInvariant, InitialInits DEF IInv, TableInv, Init, NamesInv
<1>2. TableInv /\ [Next]_vars => TableInv'
  BY TypeStep, ControlStep, InitsStep, NamesStep DEF TableInv
<1> QED BY <1>1, <1>2

\* init.c:42-60, detect.c:56-63: however many threads make the first call at
\* once, none searches the table before all presets are in it with all their
\* detectors, and a preset stays so until a caller registers over its name.
THEOREM PresetsComeFirst == Spec => []PresetsAreReady
<1>1. TableInv => PresetsAreReady
  <2> SUFFICES ASSUME TableInv, NEW t \in Threads, pc[t] \in {"get", "detect"}, ~oom,
                      NEW i \in DOMAIN Presets
               PROVE  /\ i \in DOMAIN registry
                      /\ registered[Presets[i].name] = 0 =>
                           /\ registry[i].name = Presets[i].name
                           /\ registry[i].first = Presets[i].params
                           /\ registry[i].tags = Presets[i].tags
    BY DEF PresetsAreReady
  <2>1. ~Initialising(t)
    BY DEF TableInv, Control, ControlAt, Overwriting
  <2>2. Ready
    BY <2>1, WhenReady DEF TableInv
  <2>3. i \in 1..Len(Presets) /\ DOMAIN registry = 1..Len(registry) /\ Len(registry) \in Nat
    BY PresetFacts DEF TableInv, TypeOK
  <2> QED BY <2>2, <2>3, PresetFacts DEF Ready, Made
<1> QED BY <1>1, TableInvariant, PTL DEF Spec

\* detect.c:201-256: between registrations a name stands for one entry at most, and
\* one that was registered once for that entry, whatever other names are registered
\* by whichever threads (NamesStandForOne).
THEOREM NamesAreOfOne == Spec => []NamesStandForOne
<1>1. TableInv => NamesStandForOne
  <2> SUFFICES ASSUME TableInv, complete, detectlock = NoThread, NEW n \in Names,
                      NEW preset, preset = IF \E i \in DOMAIN Presets : Presets[i].name = n THEN 1 ELSE 0
               PROVE  /\ Cardinality(Named(n)) <= 1
                      /\ preset + registered[n] <= 1 /\ n = Stored[n] =>
                           Cardinality(Named(n)) = preset + registered[n]
    BY DEF NamesStandForOne
  <2>1. NamesAt(n) /\ ~Going(n)
    BY NothingGoing DEF TableInv, NamesInv, Going
  <2>2. Cardinality(Named(n)) = Times(n) /\ Times(n) \in {0, 1}
    BY <2>1, FS_EmptySet, FS_Singleton DEF NamesAt
  <2>3. registered[n] \in Nat /\ preset \in {0, 1}
    BY DEF TableInv, TypeOK
  <2>4. n = Stored[n] => Times(n) = (preset + registered[n]) % 2
    BY DEF Times
  <2>5. preset + registered[n] <= 1 => (preset + registered[n]) % 2 = preset + registered[n]
    <3>1. preset + registered[n] <= 1 => preset + registered[n] \in {0, 1}
      BY <2>3
    <3>2. 0 % 2 = 0 /\ 1 % 2 = 1
      OBVIOUS
    <3> QED BY <3>1, <3>2
  <2> QED BY <2>2, <2>3, <2>4, <2>5
<1> QED BY <1>1, TableInvariant, PTL DEF Spec

=============================================================================
