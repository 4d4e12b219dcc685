------------------------- MODULE ConfigurationProofs -------------------------
(***************************************************************************)
(* Proofs for Configuration, for all command lines and files.              *)
(***************************************************************************)
EXTENDS Configuration, TLAPS

-----------------------------------------------------------------------------
(* Type correctness *)

(* What an event without an interval may hold is an event or garbage.      *)
LEMMA LeftoverType ==
    ASSUME TypeOK, NEW file \in File, NEW j \in DOMAIN file.blocks
    PROVE  Leftover(file, j) \subseteq Event \cup Garbage
<1> SUFFICES ASSUME NEW e \in Leftover(file, j) PROVE e \in Event \cup Garbage
  OBVIOUS
<1>1. CASE \E k \in DOMAIN automation_events : e = automation_events[k].event
  <2>1. PICK k \in DOMAIN automation_events : e = automation_events[k].event
    BY <1>1
  <2>2. automation_events[k] \in Entry
    BY DEF TypeOK
  <2>. QED BY <2>1, <2>2 DEF Entry
<1>2. CASE \E k \in 1 .. j - 1 : e = file.blocks[k].event
  <2>1. PICK k \in 1 .. j - 1 : e = file.blocks[k].event
    BY <1>2
  <2>2. k \in DOMAIN file.blocks
    BY DEF File
  <2>3. file.blocks[k] \in Block
    BY <2>2 DEF File
  <2>. QED BY <2>1, <2>3 DEF Block
<1>3. CASE e \in Garbage
  BY <1>3
<1>. QED BY <1>1, <1>2, <1>3 DEF Leftover

(* The blocks of a file have the type of automation_events.                *)
LEMMA CollectedType ==
    ASSUME TypeOK, NEW file \in File,
           NEW left \in [Zeros(file) -> UNION {Leftover(file, j) : j \in Zeros(file)}]
    PROVE  Collected(file, left) \in
               Seq(Entry)
<1>1. Zeros(file) \subseteq DOMAIN file.blocks
  BY DEF Zeros
<1>2. \A j \in Zeros(file) : left[j] \in Event \cup Garbage
  BY <1>1, LeftoverType
<1>3. file.blocks \in Seq(Block)
  BY DEF File
<1>4. \A j \in DOMAIN file.blocks : file.blocks[j] \in Block /\ j \in Nat
  BY <1>3
<1>5. parsed + 1 \in Nat
  BY DEF TypeOK
<1>6. \A j \in DOMAIN file.blocks :
         [event |-> IF j \in Zeros(file) THEN left[j] ELSE file.blocks[j].event,
          ops |-> file.blocks[j].ops, file |-> parsed + 1, index |-> j]
           \in Entry
  BY <1>2, <1>4, <1>5 DEF Block, Entry
<1>7. DOMAIN file.blocks = 1 .. Len(file.blocks) /\ Len(file.blocks) \in Nat
  BY <1>3
<1>. QED BY <1>6, <1>7 DEF Collected

(* Numbers that stay in their ranges. *)
LEMMA ConnectionsLeft ==
    ASSUME NEW c \in Nat, NEW n \in Nat, NEW b \in Nat, b <= n, NEW taken \in 0 .. b
    PROVE  c + n - taken \in Nat
OBVIOUS

LEMMA NextOne ==
    ASSUME NEW n \in Nat, NEW k \in 1 .. n
    PROVE  k + 1 \in 0 .. n + 1 /\ k + 1 > 1
OBVIOUS

LEMMA StillWithin ==
    ASSUME NEW m \in Nat, NEW n \in Nat, n >= m, NEW k \in 0 .. m + 1
    PROVE  k \in 0 .. n + 1
OBVIOUS

(* What a file defines is a record of definitions. *)
LEMMA DefinitionsType ==
    ASSUME NEW n \in Nat, NEW requests, requests \subseteq Names, NEW templates, templates \subseteq Names
    PROVE  [file |-> n, request |-> requests, template |-> templates]
               \in [file : Nat, request : SUBSET Names, template : SUBSET Names]
OBVIOUS

(* The type invariant holds initially. *)
LEMMA InitType == Init => TypeOK
BY ConstantAssumption DEF Init, TypeOK, Event, NoEvent

(* Every step keeps it. *)
LEMMA NextType == TypeOK /\ [Next]_vars => TypeOK'
<1> SUFFICES ASSUME TypeOK, [Next]_vars PROVE TypeOK'
  OBVIOUS
<1> USE ConstantAssumption DEF TypeOK, startup, search, history
<1>1. CASE AddConfigFile
  <2>1. Head(argv) \in Argument /\ Tail(argv) \in Seq(Argument)
    BY <1>1 DEF AddConfigFile, Given
  <2>2. Head(argv).file \in File
    BY <1>1, <2>1 DEF AddConfigFile, Given, Argument
  <2>. QED BY <1>1, <2>1, <2>2 DEF AddConfigFile, Given
<1>2. CASE LoadDataFile
  <2>1. Tail(argv) \in Seq(Argument)
    BY <1>2 DEF LoadDataFile, Given
  <2>. QED BY <1>2, <2>1 DEF LoadDataFile, Given
<1>3. CASE ChooseMain
  <2>1. Tail(argv) \in Seq(Argument)
    BY <1>3 DEF ChooseMain, Given
  <2>. QED BY <1>3, <2>1 DEF ChooseMain, Given
<1>4. CASE CallMain
  BY <1>4 DEF CallMain
<1>5. CASE LoadConfigFile
  <2> DEFINE file == config_files[parsed + 1]
  <2>1. file \in File
    BY <1>5 DEF LoadConfigFile
  <2>2. CASE file.ok
    <3>1. connections' \in Nat
      <4>1. PICK taken \in 0 .. file.bind : connections' = connections + file.connections - taken
        BY <1>5, <2>2 DEF LoadConfigFile
      <4>2. file.bind \in Nat /\ file.connections \in Nat /\ file.bind <= file.connections
        BY <2>1 DEF File
      <4>3. connections \in Nat
        OBVIOUS
      <4>. QED BY <4>1, <4>2, <4>3, ConnectionsLeft
    <3>2. PICK left \in [Zeros(file) -> UNION {Leftover(file, j) : j \in Zeros(file)}] :
             automation_events' = automation_events \o Collected(file, left)
      BY <1>5, <2>2 DEF LoadConfigFile, Collect
    <3>3. Collected(file, left) \in
             Seq(Entry)
      BY <2>1, <3>2, CollectedType
    <3>4. automation_events' \in
             Seq(Entry)
      BY <3>2, <3>3
    <3>5. Len(automation_events') >= Len(automation_events)
      BY <3>2, <3>3
    <3>6. definitions' \in [file : Nat, request : SUBSET Names, template : SUBSET Names]
      <4>1. definitions' = [file |-> parsed + 1, request |-> file.requests, template |-> file.templates]
        BY <1>5, <2>2 DEF LoadConfigFile, Define
      <4>2. file.requests \subseteq Names /\ file.templates \subseteq Names
        BY <2>1 DEF File
      <4>3. parsed + 1 \in Nat
        OBVIOUS
      <4>. QED BY <4>1, <4>2, <4>3, DefinitionsType
    <3>7. parsed' \in 0 .. Len(config_files)
      <4>1. parsed' = parsed + 1 /\ parsed < Len(config_files)
        BY <1>5, <2>2 DEF LoadConfigFile
      <4>. QED BY <4>1
    <3>8. at' \in 0 .. Len(automation_events') + 1
      <4>1. at' = at /\ at \in 0 .. Len(automation_events) + 1
        BY <1>5 DEF LoadConfigFile
      <4>2. Len(automation_events) \in Nat /\ Len(automation_events') \in Nat
        BY <3>4
      <4>. QED BY <3>5, <4>1, <4>2, StillWithin
    <3>. QED BY <1>5, <2>2, <3>1, <3>4, <3>6, <3>7, <3>8 DEF LoadConfigFile
  <2>3. CASE ~file.ok
    BY <1>5, <2>3 DEF LoadConfigFile
  <2>. QED BY <2>2, <2>3
<1>6. CASE Dispatch
  BY <1>6 DEF Dispatch
<1>7. CASE Trigger
  BY <1>7 DEF Trigger, Step, Idle, LookFor, Event
<1>8. CASE Tick
  BY <1>8 DEF Tick, Step, Idle, LookFor, Event
<1>9. CASE Pass
  BY <1>9 DEF Pass, Looking
<1>10. CASE Match
  <2>1. Current \in Entry
    BY <1>10 DEF Match, Looking, Current
  <2>2. todo' \in Seq(Operation)
    <3>1. CASE trigger.type # "timer"
      BY <1>10, <2>1, <3>1 DEF Match, Entry
    <3>2. CASE trigger.type = "timer"
      <4>1. Head(Current.ops) \in Operation
        BY <1>10, <2>1, <3>2 DEF Match, Entry
      <4>. QED BY <1>10, <3>2, <4>1 DEF Match
    <3>. QED BY <3>1, <3>2
  <2>3. ran' \in Seq([file : Nat, index : Nat])
    BY <1>10, <2>1 DEF Match, Entry
  <2>4. at' = at + 1 /\ at' \in 0 .. Len(automation_events) + 1 /\ at' > 1
    <3>1. at' = at + 1 /\ at \in DOMAIN automation_events
      BY <1>10 DEF Match, Looking
    <3>2. Len(automation_events) \in Nat /\ DOMAIN automation_events = 1 .. Len(automation_events)
      OBVIOUS
    <3>. QED BY <3>1, <3>2, NextOne
  <2>. QED BY <1>10, <2>2, <2>3, <2>4 DEF Match, Looking
<1>11. CASE Misread
  <2>1. Current \in Entry
    BY <1>11 DEF Misread, Looking, Current
  <2>. QED BY <1>11, <2>1 DEF Misread, Crash, Entry, Looking
<1>12. CASE Done
  BY <1>12 DEF Done
<1>13. CASE Skip
  BY <1>13 DEF Skip, Performing
<1>14. CASE LookUp
  <2>1. Op \in Operation
    BY <1>14 DEF LookUp, Performing, Op
  <2>2. Op.name \in Names
    BY <1>14, <2>1 DEF LookUp, Operation
  <2>3. used' \subseteq [kind : {"request", "template"}, name : Names, from : Nat]
    BY <1>14, <2>2 DEF LookUp, Kind
  <2>4. todo' \in Seq(Operation) /\ (todo' # <<>> => at > 1)
    <3>1. todo' \in {todo, Tail(todo)}
      BY <1>14 DEF LookUp
    <3>2. todo # <<>> /\ at > 1
      BY <1>14 DEF LookUp, Performing
    <3>3. Tail(todo) \in Seq(Operation)
      BY <3>2
    <3>. QED BY <3>1, <3>2, <3>3
  <2>5. phase' \in {"running", "crashed"} /\ culprit' \in Nat
    <3>1. automation_events[at - 1] \in Entry
      BY <1>14 DEF LookUp, Performing
    <3>. QED BY <1>14, <3>1 DEF LookUp, Performing, Crash, Entry
  <2>. QED BY <1>14, <2>3, <2>4, <2>5 DEF LookUp
<1>15. CASE Copy
  <2>1. Op \in Operation /\ Tail(todo) \in Seq(Operation)
    BY <1>15 DEF Copy, Performing, Op
  <2>. QED BY <1>15, <2>1 DEF Copy, Performing
<1>16. CASE Other
  BY <1>16 DEF Other, Performing
<1>17. CASE Change
  <2>1. tables' \in [Tables -> {"unknown", "empty", "rows"}]
    BY <1>17 DEF Change
  <2>2. steps' \in 0 .. MaxSteps /\ seconds \in 0 .. steps'
    BY <1>17 DEF Change, Step
  <2>3. UNCHANGED <<phase, startup, seconds, search, history>>
    BY <1>17 DEF Change
  <2>. QED BY <2>1, <2>2, <2>3
<1>18. CASE Finalize
  BY <1>18 DEF Finalize
<1>19. CASE UNCHANGED vars
  BY <1>19 DEF vars
<1>. QED
  BY <1>1, <1>2, <1>3, <1>4, <1>5, <1>6, <1>7, <1>8, <1>9, <1>10, <1>11, <1>12, <1>13, <1>14,
     <1>15, <1>16, <1>17, <1>18, <1>19 DEF Next, Ended

(* Every variable keeps its type. *)
THEOREM TypeCorrect == Spec => []TypeOK
<1>. QED BY InitType, NextType, PTL DEF Spec

-----------------------------------------------------------------------------
(* Where the blocks and the definitions come from *)

(* Every block keeps the operations of its place in its file, and its event *)
(* if it has one.                                                           *)
Origin ==
    \A k \in DOMAIN automation_events :
        LET e == automation_events[k]
        IN  /\ e.file \in 1 .. parsed
            /\ e.index \in DOMAIN config_files[e.file].blocks
            /\ e.ops = config_files[e.file].blocks[e.index].ops
            /\ EveryZero(config_files[e.file].blocks[e.index].event)
                  \/ e.event = config_files[e.file].blocks[e.index].event

(* The definitions are those of the file that was parsed last. *)
LastDefines ==
    parsed > 0 => definitions = [file |-> parsed, request |-> config_files[parsed].requests,
                                 template |-> config_files[parsed].templates]

(* Nothing runs before all files are parsed. *)
AllParsed == phase \in {"running", "crashed"} => parsed = Len(config_files)

(* What is left to do is from the block that was compared last. *)
Doing ==
    todo # <<>> =>
        /\ phase \in {"running", "crashed"}
        /\ at - 1 \in DOMAIN automation_events
        /\ \A k \in DOMAIN todo : \E o \in DOMAIN automation_events[at - 1].ops :
              todo[k] = automation_events[at - 1].ops[o]

(* A crash has its cause in the file of its block. *)
Cause ==
    phase = "crashed" =>
        /\ culprit \in DOMAIN config_files
        /\ ~(Complete(config_files[culprit]) /\ Timed(config_files[culprit]))

(* What was looked up was looked up in the last file. *)
Source ==
    /\ used # {} => phase \notin {"arguments", "loading"}
    /\ \A u \in used : u.from = IF Defines(Len(config_files), u) THEN Len(config_files) ELSE 0

IInv == TypeOK /\ Origin /\ LastDefines /\ AllParsed /\ Doing /\ Cause /\ Source

(* Files, blocks and definitions change while arguments and files are read. *)
LEMMA StaticStep ==
    [Next]_vars =>
        \/ AddConfigFile
        \/ LoadConfigFile /\ config_files[parsed + 1].ok
        \/ UNCHANGED <<config_files, parsed, automation_events, definitions>>
BY DEF Next, vars, startup, search, history, AddConfigFile, LoadDataFile, ChooseMain, CallMain,
       LoadConfigFile, Dispatch, Trigger, Tick, LookFor, Pass, Match, Misread, Done, Skip, LookUp,
       Copy, Other, Change, Finalize, Ended

(* Nothing comes after a crash. *)
LEMMA CrashIsFinal == phase = "crashed" /\ [Next]_vars => UNCHANGED vars
BY DEF Next, vars, AddConfigFile, LoadDataFile, ChooseMain, CallMain, Given, LoadConfigFile,
       Dispatch, Trigger, Tick, Step, Idle, Pass, Match, Misread, Looking, Done, Skip, LookUp,
       Copy, Other, Performing, Change, Finalize, Ended

LEMMA InitInv == Init => IInv
<1> SUFFICES ASSUME Init PROVE IInv
  OBVIOUS
<1>1. TypeOK
  BY InitType
<1>. QED
  BY <1>1 DEF Init, IInv, Origin, LastDefines, AllParsed, Doing, Cause, Source

LEMMA OriginStep == IInv /\ [Next]_vars => Origin'
<1> SUFFICES ASSUME IInv, [Next]_vars PROVE Origin'
  OBVIOUS
<1> USE DEF IInv
<1>1. CASE AddConfigFile
  <2>1. /\ config_files \in Seq(File) /\ config_files' = Append(config_files, Head(argv).file)
        /\ parsed \in 0 .. Len(config_files) /\ parsed' = parsed
        /\ automation_events' = automation_events
    BY <1>1 DEF AddConfigFile, TypeOK
  <2>2. \A k \in 1 .. parsed : config_files'[k] = config_files[k]
    BY <2>1
  <2>. QED BY <2>1, <2>2 DEF Origin
<1>2. CASE LoadConfigFile /\ config_files[parsed + 1].ok
  <2> DEFINE file == config_files[parsed + 1]
  <2>1. PICK left \in [Zeros(file) -> UNION {Leftover(file, j) : j \in Zeros(file)}] :
           automation_events' = automation_events \o Collected(file, left)
    BY <1>2 DEF LoadConfigFile, Collect
  <2>2. /\ file \in File /\ parsed' = parsed + 1 /\ parsed \in Nat
        /\ config_files' = config_files /\ automation_events \in Seq(Entry)
    BY <1>2 DEF LoadConfigFile, TypeOK
  <2>3. Collected(file, left) \in Seq(Entry)
    BY <2>1, <2>2, CollectedType
  <2>4. DOMAIN Collected(file, left) = DOMAIN file.blocks
    BY DEF Collected
  <2> DEFINE n == Len(automation_events)
  <2>5. /\ n \in Nat
        /\ \A k \in 1 .. n : automation_events'[k] = automation_events[k]
        /\ \A k \in DOMAIN automation_events' \ (1 .. n) :
              /\ k - n \in DOMAIN Collected(file, left)
              /\ automation_events'[k] = Collected(file, left)[k - n]
    BY <2>1, <2>2, <2>3
  <2> SUFFICES ASSUME NEW k \in DOMAIN automation_events'
               PROVE  LET e == automation_events'[k]
                      IN  /\ e.file \in 1 .. parsed'
                          /\ e.index \in DOMAIN config_files[e.file].blocks
                          /\ e.ops = config_files[e.file].blocks[e.index].ops
                          /\ EveryZero(config_files[e.file].blocks[e.index].event)
                                \/ e.event = config_files[e.file].blocks[e.index].event
    BY <2>2 DEF Origin, EveryZero
  <2>6. CASE k \in 1 .. n
    <3>1. k \in DOMAIN automation_events
      BY <2>2, <2>6
    <3>2. \A m : m \in 1 .. parsed => m \in 1 .. parsed'
      BY <2>2
    <3>. QED BY <2>5, <2>6, <3>1, <3>2 DEF Origin
  <2>7. CASE k \notin 1 .. n
    <3> DEFINE j == k - n
    <3>1. j \in DOMAIN file.blocks /\ automation_events'[k] = Collected(file, left)[j]
      BY <2>4, <2>5, <2>7
    <3>2. automation_events'[k] =
            [event |-> IF j \in Zeros(file) THEN left[j] ELSE file.blocks[j].event,
             ops |-> file.blocks[j].ops, file |-> parsed + 1, index |-> j]
      BY <3>1 DEF Collected
    <3>3. j \in Zeros(file) => EveryZero(file.blocks[j].event)
      BY DEF Zeros
    <3>4. parsed + 1 \in 1 .. parsed'
      BY <2>2
    <3>. QED BY <3>1, <3>2, <3>3, <3>4
  <2>. QED BY <2>6, <2>7
<1>3. CASE UNCHANGED <<config_files, parsed, automation_events, definitions>>
  BY <1>3 DEF Origin
<1>. QED BY <1>1, <1>2, <1>3, StaticStep

LEMMA LastDefinesStep == IInv /\ [Next]_vars => LastDefines'
<1> SUFFICES ASSUME IInv, [Next]_vars PROVE LastDefines'
  OBVIOUS
<1> USE DEF IInv
<1>1. CASE AddConfigFile
  <2>1. /\ config_files \in Seq(File) /\ config_files' = Append(config_files, Head(argv).file)
        /\ parsed \in 0 .. Len(config_files) /\ parsed' = parsed /\ definitions' = definitions
    BY <1>1 DEF AddConfigFile, TypeOK
  <2>2. parsed > 0 => config_files'[parsed] = config_files[parsed]
    BY <2>1
  <2>. QED BY <2>1, <2>2 DEF LastDefines
<1>2. CASE LoadConfigFile /\ config_files[parsed + 1].ok
  BY <1>2 DEF LoadConfigFile, Define, LastDefines
<1>3. CASE UNCHANGED <<config_files, parsed, automation_events, definitions>>
  BY <1>3 DEF LastDefines
<1>. QED BY <1>1, <1>2, <1>3, StaticStep

LEMMA AllParsedStep == IInv /\ [Next]_vars => AllParsed'
BY DEF IInv, AllParsed, Next, vars, startup, search, history, AddConfigFile, LoadDataFile,
       ChooseMain, CallMain, Given, LoadConfigFile, Dispatch, Trigger, Tick, Step, Idle, LookFor,
       Pass, Match, Misread, Looking, Crash, Done, Skip, LookUp, Copy, Other, Performing, Change,
       Finalize, Ended

(* While the gateway runs, what was parsed stays. *)
LEMMA RunningStep ==
    phase = "running" /\ [Next]_vars =>
        UNCHANGED <<config_files, parsed, automation_events, definitions>>
BY DEF Next, vars, startup, search, history, AddConfigFile, LoadDataFile, ChooseMain, CallMain,
       Given, LoadConfigFile, Dispatch, Trigger, Tick, LookFor, Pass, Match, Misread, Done, Skip,
       LookUp, Copy, Other, Change, Finalize, Ended

(* What is left to do stays, begins with a block, or gets shorter. *)
LEMMA TodoStep ==
    IInv /\ [Next]_vars =>
        \/ todo' = todo /\ (todo # <<>> => UNCHANGED at /\ phase' \in {phase, "crashed"})
        \/ Match
        \/ Performing /\ todo' = Tail(todo) /\ UNCHANGED <<phase, at>>
<1> SUFFICES ASSUME IInv, [Next]_vars
             PROVE  \/ todo' = todo /\ (todo # <<>> => UNCHANGED at /\ phase' \in {phase, "crashed"})
                    \/ Match
                    \/ Performing /\ todo' = Tail(todo) /\ UNCHANGED <<phase, at>>
  OBVIOUS
<1>1. CASE \/ AddConfigFile \/ LoadDataFile \/ ChooseMain \/ CallMain \/ LoadConfigFile \/ Dispatch
  <2>1. phase \in {"arguments", "loading"}
    BY <1>1 DEF AddConfigFile, LoadDataFile, ChooseMain, CallMain, Given, LoadConfigFile, Dispatch
  <2>2. UNCHANGED <<todo, at>>
    BY <1>1 DEF AddConfigFile, LoadDataFile, ChooseMain, CallMain, LoadConfigFile, Dispatch, search
  <2>. QED BY <2>1, <2>2 DEF IInv, Doing
<1>2. CASE Trigger \/ Tick \/ Change \/ Finalize
  <2>1. at = 0 /\ UNCHANGED todo
    BY <1>2 DEF Trigger, Tick, Change, Finalize, Step, Idle, LookFor, search
  <2>. QED BY <2>1 DEF IInv, TypeOK
<1>3. CASE Pass \/ Misread \/ Done \/ Ended \/ UNCHANGED vars
  BY <1>3 DEF Pass, Misread, Done, Looking, Crash, Ended, vars, search
<1>4. CASE Skip \/ Copy \/ Other
  BY <1>4 DEF Skip, Copy, Other, Performing
<1>5. CASE LookUp
  BY <1>5 DEF LookUp, Crash
<1>. QED BY <1>1, <1>2, <1>3, <1>4, <1>5 DEF Next

LEMMA DoingStep == IInv /\ [Next]_vars => Doing'
<1> SUFFICES ASSUME IInv, [Next]_vars, todo' # <<>> PROVE Doing'
  BY DEF Doing
<1> USE DEF IInv
<1>1. CASE todo' = todo /\ (todo # <<>> => UNCHANGED at /\ phase' \in {phase, "crashed"})
  <2>1. phase \in {"running", "crashed"} /\ UNCHANGED at /\ phase' \in {"running", "crashed"}
    BY <1>1 DEF Doing
  <2>2. UNCHANGED automation_events
    BY <2>1, RunningStep, CrashIsFinal DEF vars, startup
  <2>. QED BY <1>1, <2>1, <2>2 DEF Doing
<1>2. CASE Match
  <2>1. /\ at \in DOMAIN automation_events /\ at' = at + 1 /\ at \in Nat
        /\ phase' = "running" /\ automation_events' = automation_events
    BY <1>2 DEF Match, Looking, startup, TypeOK
  <2>2. at' - 1 = at
    BY <2>1
  <2>3. Current \in Entry
    BY <2>1 DEF TypeOK, Current
  <2>4. \A k \in DOMAIN todo' : \E o \in DOMAIN Current.ops : todo'[k] = Current.ops[o]
    <3>1. CASE trigger.type # "timer"
      BY <1>2, <3>1 DEF Match
    <3>2. CASE trigger.type = "timer"
      <4>1. Current.ops \in Seq(Operation) /\ Current.ops # <<>>
        BY <1>2, <2>3, <3>2 DEF Match, Entry
      <4>2. todo' \in {<<>>, <<Head(Current.ops)>>}
        BY <1>2, <3>2 DEF Match
      <4>3. 1 \in DOMAIN Current.ops /\ Head(Current.ops) = Current.ops[1]
        BY <4>1
      <4>. QED BY <4>2, <4>3
    <3>. QED BY <3>1, <3>2
  <2>. QED BY <2>1, <2>2, <2>4 DEF Doing, Current
<1>3. CASE Performing /\ todo' = Tail(todo) /\ UNCHANGED <<phase, at>>
  <2>1. phase = "running" /\ todo # <<>> /\ todo \in Seq(Operation)
    BY <1>3 DEF Performing, TypeOK
  <2>2. UNCHANGED automation_events
    BY <2>1, RunningStep
  <2>3. \A k \in DOMAIN todo' : k + 1 \in DOMAIN todo /\ todo'[k] = todo[k + 1]
    BY <1>3, <2>1
  <2>. QED BY <1>3, <2>1, <2>2, <2>3 DEF Doing
<1>. QED BY <1>1, <1>2, <1>3, TodoStep

(* The file of the block that is looked at, or performed, is one of the     *)
(* command line; an uninitialised event is one that should have been        *)
(* "every 0".                                                               *)
LEMMA BlockOrigin ==
    ASSUME IInv, phase = "running", NEW k \in DOMAIN automation_events
    PROVE  LET e == automation_events[k]
           IN  /\ e.file \in DOMAIN config_files
               /\ e.index \in DOMAIN config_files[e.file].blocks
               /\ config_files[e.file].blocks[e.index] \in Block
               /\ e.ops = config_files[e.file].blocks[e.index].ops
               /\ EveryZero(config_files[e.file].blocks[e.index].event)
                     \/ e.event = config_files[e.file].blocks[e.index].event
<1>1. parsed = Len(config_files) /\ config_files \in Seq(File)
  BY DEF IInv, AllParsed, TypeOK
<1>2. automation_events[k].file \in DOMAIN config_files
  BY <1>1 DEF IInv, Origin
<1>3. config_files[automation_events[k].file] \in File
  BY <1>1, <1>2
<1>4. config_files[automation_events[k].file].blocks \in Seq(Block)
  BY <1>3 DEF File
<1>. QED BY <1>2, <1>4 DEF IInv, Origin

(* Where there is a file and something runs, all files were parsed. *)
LEMMA ParsedSome ==
    ASSUME TypeOK, AllParsed, phase = "running", NEW f \in DOMAIN config_files
    PROVE  parsed = Len(config_files) /\ parsed > 0
<1>1. config_files \in Seq(File) /\ parsed = Len(config_files)
  BY DEF TypeOK, AllParsed
<1>2. Len(config_files) \in Nat /\ f \in 1 .. Len(config_files)
  BY <1>1
<1>. QED BY <1>1, <1>2

LEMMA CauseStep == IInv /\ [Next]_vars => Cause'
<1> SUFFICES ASSUME IInv, [Next]_vars, phase' = "crashed" PROVE Cause'
  BY DEF Cause
<1>1. CASE phase = "crashed"
  <2>1. UNCHANGED vars
    BY <1>1, CrashIsFinal
  <2>. QED BY <1>1, <2>1 DEF IInv, Cause, Complete, Timed, vars, startup, history
<1>2. CASE phase # "crashed"
  <2>1. Misread \/ (LookUp /\ Dereferenced)
    BY <1>2 DEF IInv, TypeOK, Next, vars, startup, search, history, AddConfigFile, LoadDataFile,
         ChooseMain, CallMain, Given, LoadConfigFile, Dispatch, Trigger, Tick, Step, Idle, LookFor,
         Pass, Match, Looking, Crash, Done, Skip, LookUp, Copy, Other, Performing, Change, Finalize,
         Ended
  <2>2. phase = "running" /\ UNCHANGED <<config_files, parsed, automation_events, definitions>>
    BY <2>1, RunningStep DEF Misread, Looking, LookUp, Performing
  <2>3. CASE Misread
    <3> DEFINE event == config_files[Current.file].blocks[Current.index].event
    <3>1. at \in DOMAIN automation_events /\ culprit' = Current.file
      BY <2>3 DEF Misread, Looking, Crash
    <3>2. /\ Current.file \in DOMAIN config_files
          /\ Current.index \in DOMAIN config_files[Current.file].blocks
          /\ config_files[Current.file].blocks[Current.index] \in Block
          /\ Current.ops = config_files[Current.file].blocks[Current.index].ops
          /\ EveryZero(event) \/ Current.event = event
      BY <2>2, <3>1, BlockOrigin DEF Current
    <3>3. EveryZero(event)
            \/ (event.type = "timer" /\ config_files[Current.file].blocks[Current.index].ops = <<>>)
      <4>1. CASE Current.event = event /\ Undefined(Current.event)
        <5>1. event \in Event
          BY <3>2 DEF Block
        <5>2. event.key = 0
          BY <4>1, <5>1, ConstantAssumption DEF Undefined, Event
        <5>3. 0 \notin Keys
          BY ConstantAssumption
        <5>4. event.type = "timer"
          BY <5>1, <5>2, <5>3 DEF Event
        <5>. QED BY <5>2, <5>4 DEF EveryZero
      <4>2. CASE Current.event = event /\ ~Undefined(Current.event)
        BY <2>3, <3>2, <4>2 DEF Misread, Same
      <4>3. CASE EveryZero(event)
        BY <4>3
      <4>. QED BY <3>2, <4>1, <4>2, <4>3
    <3>4. ~Timed(config_files[Current.file])
      BY <3>2, <3>3 DEF Timed, EveryZero
    <3>. QED BY <2>2, <3>1, <3>2, <3>4 DEF Cause, Complete, Timed
  <2>4. CASE LookUp /\ Dereferenced
    <3> DEFINE file == config_files[automation_events[at - 1].file]
               i == automation_events[at - 1].index
    <3>1. at - 1 \in DOMAIN automation_events /\ culprit' = automation_events[at - 1].file
      BY <2>4 DEF LookUp, Crash, IInv, Doing, Performing
    <3>2. /\ automation_events[at - 1].file \in DOMAIN config_files
          /\ i \in DOMAIN file.blocks
          /\ automation_events[at - 1].ops = file.blocks[i].ops
      BY <2>2, <3>1, BlockOrigin
    <3>3. \E o \in DOMAIN file.blocks[i].ops : Op = file.blocks[i].ops[o]
      <4>1. 1 \in DOMAIN todo /\ Op = todo[1]
        BY <2>4 DEF LookUp, Performing, Op, IInv, TypeOK
      <4>. QED BY <2>4, <3>2, <4>1 DEF LookUp, Performing, IInv, Doing
    <3>4. definitions = [file |-> Len(config_files),
                         request |-> config_files[Len(config_files)].requests,
                         template |-> config_files[Len(config_files)].templates]
      <4>1. parsed = Len(config_files) /\ parsed > 0
        BY <2>2, <3>2, ParsedSome DEF IInv
      <4>. QED BY <4>1 DEF IInv, LastDefines
    <3>5. \/ Op.op = "foreach" /\ Op.name \notin config_files[Len(config_files)].requests
          \/ Op.op = "http" /\ Op.name \notin config_files[Len(config_files)].templates
      BY <2>4, <3>4 DEF LookUp, Dereferenced, Found, Kind
    <3>6. ~Complete(file)
      BY <3>2, <3>3, <3>5 DEF Complete
    <3>. QED BY <2>2, <3>1, <3>2, <3>6 DEF Cause, Complete, Timed
  <2>. QED BY <2>1, <2>3, <2>4
<1>. QED BY <1>1, <1>2

LEMMA SourceStep == IInv /\ [Next]_vars => Source'
<1> SUFFICES ASSUME IInv, [Next]_vars PROVE Source'
  OBVIOUS
<1> USE DEF IInv
<1>1. CASE LookUp
  <2>1. /\ phase = "running" /\ phase' \in {"running", "crashed"}
        /\ used' = used \cup {[kind |-> Kind, name |-> Op.name,
                               from |-> IF Found THEN definitions.file ELSE 0]}
    BY <1>1 DEF LookUp, Performing, Crash
  <2>2. UNCHANGED config_files
    BY <2>1, RunningStep
  <2>3. at - 1 \in DOMAIN automation_events
    BY <1>1 DEF LookUp, Performing, Doing
  <2>4. automation_events[at - 1].file \in DOMAIN config_files
    BY <2>1, <2>3, BlockOrigin
  <2>5. parsed = Len(config_files) /\ parsed > 0
    BY <2>1, <2>4, ParsedSome
  <2>6. definitions = [file |-> Len(config_files),
                       request |-> config_files[Len(config_files)].requests,
                       template |-> config_files[Len(config_files)].templates]
    BY <2>5 DEF LastDefines
  <2>7. Found <=> Defines(Len(config_files), [kind |-> Kind, name |-> Op.name,
                                              from |-> IF Found THEN definitions.file ELSE 0])
    BY <2>6 DEF Found, Kind, Defines
  <2>. QED BY <2>1, <2>2, <2>6, <2>7 DEF Source, Defines
<1>2. CASE ~LookUp
  <2>1. /\ UNCHANGED used
        /\ phase \notin {"arguments", "loading"} =>
              UNCHANGED config_files /\ phase' \notin {"arguments", "loading"}
    BY <1>2 DEF Next, vars, startup, search, history, AddConfigFile, LoadDataFile, ChooseMain,
         CallMain, Given, LoadConfigFile, Dispatch, Trigger, Tick, Step, Idle, LookFor, Pass, Match,
         Misread, Looking, Crash, Done, Skip, Copy, Other, Performing, Change, Finalize, Ended
  <2>. QED BY <2>1 DEF Source, Defines
<1>. QED BY <1>1, <1>2

LEMMA InvStep == IInv /\ [Next]_vars => IInv'
BY NextType, OriginStep, LastDefinesStep, AllParsedStep, DoingStep, CauseStep, SourceStep DEF IInv

LEMMA Invariance == Spec => []IInv
<1>. QED BY InvStep, InitInv, PTL DEF Spec

-----------------------------------------------------------------------------
(* All blocks of an event run, in order *)

Before(x, y) == x.file < y.file \/ (x.file = y.file /\ x.index < y.index)

Place(e) == [file |-> e.file, index |-> e.index]

(* Every block of a parsed file is there. *)
Everything ==
    \A i \in 1 .. parsed : \A j \in DOMAIN config_files[i].blocks :
        \E k \in DOMAIN automation_events : Place(automation_events[k]) = [file |-> i, index |-> j]

(* The blocks are in the order of the files. *)
Sorted ==
    \A k, l \in DOMAIN automation_events :
        k < l => Before(Place(automation_events[k]), Place(automation_events[l]))

(* What ran so far are the blocks before at that the trigger is for. *)
RanSoFar ==
    at # 0 =>
        /\ phase \in {"running", "crashed"}
        /\ \A n \in DOMAIN ran : \E k \in DOMAIN automation_events :
              k < at /\ ran[n] = Place(automation_events[k]) /\ Same(automation_events[k].event)
        /\ \A k \in DOMAIN automation_events :
              k < at /\ Same(automation_events[k].event) =>
                  \E n \in DOMAIN ran : ran[n] = Place(automation_events[k])
        /\ \A m, n \in DOMAIN ran : m < n => Before(ran[m], ran[n])

(* The blocks after a file was parsed: the ones there were, and its own. *)
LEMMA LoadedBlocks ==
    ASSUME IInv, LoadConfigFile, config_files[parsed + 1].ok
    PROVE  LET n == Len(automation_events)
               blocks == config_files[parsed + 1].blocks
           IN  /\ n \in Nat /\ DOMAIN automation_events = 1 .. n
               /\ blocks \in Seq(Block)
               /\ DOMAIN automation_events' = 1 .. n + Len(blocks)
               /\ \A k \in 1 .. n : automation_events'[k] = automation_events[k]
               /\ \A j \in DOMAIN blocks :
                     Place(automation_events'[n + j]) = [file |-> parsed + 1, index |-> j]
<1> DEFINE file == config_files[parsed + 1]
           n == Len(automation_events)
<1>1. PICK left \in [Zeros(file) -> UNION {Leftover(file, j) : j \in Zeros(file)}] :
         automation_events' = automation_events \o Collected(file, left)
  BY DEF LoadConfigFile, Collect
<1>2. file \in File /\ automation_events \in Seq(Entry) /\ TypeOK
  <2>1. TypeOK /\ automation_events \in Seq(Entry) /\ config_files \in Seq(File)
    BY DEF IInv, TypeOK
  <2>2. parsed \in Nat /\ parsed < Len(config_files)
    BY DEF LoadConfigFile, IInv, TypeOK
  <2>3. parsed + 1 \in 1 .. Len(config_files)
    BY <2>1, <2>2
  <2>. QED BY <2>1, <2>3
<1>3. file.blocks \in Seq(Block)
  BY <1>2 DEF File
<1>4. Collected(file, left) \in Seq(Entry)
  BY <1>1, <1>2, CollectedType
<1>5. DOMAIN Collected(file, left) = DOMAIN file.blocks
  BY DEF Collected
<1>6. Len(Collected(file, left)) = Len(file.blocks)
  BY <1>3, <1>4, <1>5
<1>7. \A j \in DOMAIN file.blocks :
         Place(Collected(file, left)[j]) = [file |-> parsed + 1, index |-> j]
  BY DEF Collected, Place
<1>8. n \in Nat /\ DOMAIN automation_events = 1 .. n
  BY <1>2
<1>9. DOMAIN automation_events' = 1 .. n + Len(file.blocks)
  <2>1. /\ Len(automation_events') = n + Len(Collected(file, left))
        /\ automation_events' \in Seq(Entry)
    BY <1>1, <1>2, <1>4
  <2>. QED BY <1>6, <2>1
<1>10. \A k \in 1 .. n : automation_events'[k] = automation_events[k]
  BY <1>1, <1>2, <1>4
<1>11. \A j \in DOMAIN file.blocks : automation_events'[n + j] = Collected(file, left)[j]
  <2>1. DOMAIN file.blocks = 1 .. Len(Collected(file, left))
    BY <1>4, <1>5
  <2>. QED BY <1>1, <1>2, <1>4, <2>1
<1>. QED BY <1>3, <1>7, <1>8, <1>9, <1>10, <1>11

LEMMA EverythingStep == IInv /\ Everything /\ [Next]_vars => Everything'
<1> SUFFICES ASSUME IInv, Everything, [Next]_vars PROVE Everything'
  OBVIOUS
<1>1. CASE AddConfigFile
  <2>1. /\ config_files \in Seq(File) /\ config_files' = Append(config_files, Head(argv).file)
        /\ parsed \in 0 .. Len(config_files) /\ parsed' = parsed
        /\ automation_events' = automation_events
    BY <1>1 DEF AddConfigFile, IInv, TypeOK
  <2>2. \A i \in 1 .. parsed : config_files'[i] = config_files[i]
    BY <2>1
  <2>. QED BY <2>1, <2>2 DEF Everything
<1>2. CASE LoadConfigFile /\ config_files[parsed + 1].ok
  <2> DEFINE blocks == config_files[parsed + 1].blocks
             n == Len(automation_events)
  <2>1. /\ n \in Nat /\ DOMAIN automation_events = 1 .. n
        /\ blocks \in Seq(Block)
        /\ DOMAIN automation_events' = 1 .. n + Len(blocks)
        /\ \A k \in 1 .. n : automation_events'[k] = automation_events[k]
        /\ \A j \in DOMAIN blocks :
              Place(automation_events'[n + j]) = [file |-> parsed + 1, index |-> j]
    BY <1>2, LoadedBlocks
  <2>2. parsed' = parsed + 1 /\ parsed \in Nat /\ config_files' = config_files
    BY <1>2 DEF LoadConfigFile, IInv, TypeOK
  <2> SUFFICES ASSUME NEW i \in 1 .. parsed', NEW j \in DOMAIN config_files[i].blocks
               PROVE  \E k \in DOMAIN automation_events' :
                          Place(automation_events'[k]) = [file |-> i, index |-> j]
    BY <2>2 DEF Everything, Place
  <2>3. CASE i = parsed + 1
    <3>1. j \in DOMAIN blocks /\ n + j \in 1 .. n + Len(blocks)
      BY <2>1, <2>3
    <3>. QED BY <2>1, <2>3, <3>1
  <2>4. CASE i # parsed + 1
    <3>1. i \in 1 .. parsed
      BY <2>2, <2>4
    <3>2. PICK k \in 1 .. n : Place(automation_events[k]) = [file |-> i, index |-> j]
      BY <2>1, <3>1 DEF Everything
    <3>3. k \in 1 .. n + Len(blocks)
      BY <2>1
    <3>. QED BY <2>1, <3>2, <3>3
  <2>. QED BY <2>3, <2>4
<1>3. CASE UNCHANGED <<config_files, parsed, automation_events, definitions>>
  BY <1>3 DEF Everything, Place
<1>. QED BY <1>1, <1>2, <1>3, StaticStep

LEMMA SortedStep == IInv /\ Sorted /\ [Next]_vars => Sorted'
<1> SUFFICES ASSUME IInv, Sorted, [Next]_vars PROVE Sorted'
  OBVIOUS
<1>1. CASE UNCHANGED automation_events
  BY <1>1 DEF Sorted, Before, Place
<1>2. CASE LoadConfigFile /\ config_files[parsed + 1].ok
  <2> DEFINE blocks == config_files[parsed + 1].blocks
             n == Len(automation_events)
  <2>1. /\ n \in Nat /\ DOMAIN automation_events = 1 .. n
        /\ blocks \in Seq(Block)
        /\ DOMAIN automation_events' = 1 .. n + Len(blocks)
        /\ \A k \in 1 .. n : automation_events'[k] = automation_events[k]
        /\ \A j \in DOMAIN blocks :
              Place(automation_events'[n + j]) = [file |-> parsed + 1, index |-> j]
    BY <1>2, LoadedBlocks
  <2>2. parsed \in Nat
    BY DEF IInv, TypeOK
  <2>3. \A k \in 1 .. n : Place(automation_events[k]).file \in 1 .. parsed
    BY <2>1 DEF IInv, Origin, Place
  <2>4. \A k \in DOMAIN automation_events' \ (1 .. n) :
           k \in Int /\ Place(automation_events'[k]) = [file |-> parsed + 1, index |-> k - n]
    <3> SUFFICES ASSUME NEW k \in 1 .. n + Len(blocks), k \notin 1 .. n
                 PROVE  k \in Int /\ Place(automation_events'[k]) = [file |-> parsed + 1, index |-> k - n]
      BY <2>1
    <3>1. k - n \in DOMAIN blocks /\ n + (k - n) = k
      BY <2>1
    <3>. QED BY <2>1, <3>1
  <2> SUFFICES ASSUME NEW k \in DOMAIN automation_events', NEW l \in DOMAIN automation_events', k < l
               PROVE  Before(Place(automation_events'[k]), Place(automation_events'[l]))
    BY DEF Sorted, Place, Before
  <2>5. CASE l \in 1 .. n
    <3>1. k \in 1 .. n
      BY <2>1, <2>5
    <3>. QED BY <2>1, <2>5, <3>1 DEF Sorted, Place
  <2>6. CASE k \in 1 .. n /\ l \notin 1 .. n
    <3>1. Place(automation_events'[k]).file \in 1 .. parsed
      BY <2>1, <2>3, <2>6 DEF Place
    <3>2. Place(automation_events'[l]).file = parsed + 1
      BY <2>4, <2>6
    <3>. QED BY <2>2, <3>1, <3>2 DEF Before
  <2>7. CASE k \notin 1 .. n /\ l \notin 1 .. n
    <3>1. k - n < l - n
      BY <2>1, <2>4, <2>7
    <3>. QED BY <2>4, <2>7, <3>1 DEF Before
  <2>. QED BY <2>1, <2>5, <2>6, <2>7
<1>. QED BY <1>1, <1>2, StaticStep DEF AddConfigFile

(* Positions before the next one are those before this one, and this one. *)
LEMMA Upto ==
    ASSUME IInv, at \in DOMAIN automation_events, at' = at + 1
    PROVE  at # 0 /\ \A k \in DOMAIN automation_events : k < at' <=> (k < at \/ k = at)
<1>1. DOMAIN automation_events = 1 .. Len(automation_events) /\ Len(automation_events) \in Nat
  BY DEF IInv, TypeOK
<1> DEFINE n == Len(automation_events)
<1>2. ASSUME NEW i \in 1 .. n, NEW k \in 1 .. n
      PROVE  i # 0 /\ (k < i + 1 <=> (k < i \/ k = i))
  BY <1>1
<1> HIDE DEF n
<1>3. at \in 1 .. n /\ DOMAIN automation_events = 1 .. n
  BY <1>1 DEF n
<1>. QED BY <1>2, <1>3

(* What is being looked for, and what ran for it. *)
LEMMA RanStep == IInv /\ Sorted /\ RanSoFar /\ [Next]_vars => RanSoFar'
<1> SUFFICES ASSUME IInv, Sorted, RanSoFar, [Next]_vars, at' # 0 PROVE RanSoFar'
  BY DEF RanSoFar
<1>1. CASE Trigger \/ Tick
  <2>1. at' = 1 /\ ran' = <<>> /\ phase' = "running" /\ UNCHANGED automation_events
    BY <1>1 DEF Trigger, Tick, Step, Idle, LookFor, startup
  <2>2. \A k \in DOMAIN automation_events : ~(k < 1)
    BY DEF IInv, TypeOK
  <2>. QED BY <2>1, <2>2 DEF RanSoFar
<1>2. CASE Pass
  <2>1. /\ phase = "running" /\ phase' = phase /\ at \in DOMAIN automation_events /\ at' = at + 1
        /\ UNCHANGED <<automation_events, trigger, ran>> /\ ~Same(automation_events[at].event)
    BY <1>2 DEF Pass, Looking, Current, startup
  <2>2. at # 0 /\ \A k \in DOMAIN automation_events : k < at' <=> (k < at \/ k = at)
    BY <2>1, Upto
  <2>. QED BY <2>1, <2>2 DEF RanSoFar, Same, Undefined, Place, Before
<1>3. CASE Match
  <2>1. /\ phase = "running" /\ phase' = phase /\ at \in DOMAIN automation_events /\ at' = at + 1
        /\ UNCHANGED <<automation_events, trigger>> /\ Same(automation_events[at].event)
        /\ ran' = Append(ran, Place(automation_events[at]))
    BY <1>3 DEF Match, Looking, Current, Place, startup
  <2>2. at # 0 /\ \A k \in DOMAIN automation_events : k < at' <=> (k < at \/ k = at)
    BY <2>1, Upto
  <2> DEFINE l == Len(ran) + 1
  <2>3. /\ l \in Nat /\ DOMAIN ran = 1 .. Len(ran) /\ DOMAIN ran' = 1 .. l /\ Len(ran) \in Nat
        /\ \A n \in DOMAIN ran : ran'[n] = ran[n]
        /\ ran'[l] = Place(automation_events[at])
    <3>1. ran \in Seq([file : Nat, index : Nat]) /\ automation_events[at] \in Entry
      BY <2>1 DEF IInv, TypeOK
    <3>2. Place(automation_events[at]) \in [file : Nat, index : Nat]
      BY <3>1 DEF Entry, Place
    <3> DEFINE e == Place(automation_events[at])
    <3> HIDE DEF e
    <3>3. ran' = Append(ran, e)
      BY <2>1 DEF e
    <3>4. ran \in Seq([file : Nat, index : Nat]) /\ e \in [file : Nat, index : Nat]
      BY <3>1, <3>2 DEF e
    <3>5. ASSUME NEW S, NEW s \in Seq(S), NEW x \in S
          PROVE  /\ Len(s) \in Nat /\ DOMAIN s = 1 .. Len(s)
                 /\ DOMAIN Append(s, x) = 1 .. Len(s) + 1
                 /\ \A n \in DOMAIN s : Append(s, x)[n] = s[n]
                 /\ Append(s, x)[Len(s) + 1] = x
      OBVIOUS
    <3>. QED BY <3>3, <3>4, <3>5 DEF e
  <2>4. ASSUME NEW n \in DOMAIN ran'
        PROVE  \E k \in DOMAIN automation_events :
                  k < at' /\ ran'[n] = Place(automation_events[k]) /\ Same(automation_events[k].event)
    <3>1. CASE n = l
      BY <2>1, <2>2, <2>3, <3>1
    <3>2. CASE n # l
      <4>1. n \in DOMAIN ran /\ ran'[n] = ran[n]
        BY <2>3, <3>2
      <4>. QED BY <2>2, <4>1 DEF RanSoFar
    <3>. QED BY <3>1, <3>2
  <2>5. ASSUME NEW k \in DOMAIN automation_events, k < at', Same(automation_events[k].event)
        PROVE  \E n \in DOMAIN ran' : ran'[n] = Place(automation_events[k])
    <3>1. CASE k = at
      <4>1. l \in DOMAIN ran'
        BY <2>3
      <4>. QED BY <2>3, <3>1, <4>1
    <3>2. CASE k < at
      <4>1. PICK n \in DOMAIN ran : ran[n] = Place(automation_events[k])
        BY <2>2, <2>5, <3>2 DEF RanSoFar
      <4>2. n \in DOMAIN ran'
        BY <2>3
      <4>. QED BY <2>3, <4>1, <4>2
    <3>. QED BY <2>2, <2>5, <3>1, <3>2
  <2>6. ASSUME NEW m \in DOMAIN ran', NEW n \in DOMAIN ran', m < n
        PROVE  Before(ran'[m], ran'[n])
    <3>1. m \in DOMAIN ran
      BY <2>3, <2>6
    <3>2. CASE n = l
      <4>1. PICK k \in DOMAIN automation_events : k < at /\ ran[m] = Place(automation_events[k])
        BY <2>2, <3>1 DEF RanSoFar
      <4>2. Before(Place(automation_events[k]), Place(automation_events[at]))
        BY <2>1, <4>1 DEF Sorted
      <4>. QED BY <2>3, <3>1, <3>2, <4>1, <4>2
    <3>3. CASE n # l
      <4>1. n \in DOMAIN ran
        BY <2>3, <3>3
      <4>. QED BY <2>2, <2>3, <2>6, <3>1, <4>1 DEF RanSoFar
    <3>. QED BY <3>2, <3>3
  <2>. QED BY <2>1, <2>4, <2>5, <2>6 DEF RanSoFar, Same, Undefined, Place, Before
<1>4. CASE UNCHANGED <<automation_events, trigger, at, ran>> /\ phase' \in {phase, "crashed"}
  BY <1>4 DEF RanSoFar, Same, Undefined, Place, Before
<1>5. CASE AddConfigFile \/ LoadDataFile \/ ChooseMain \/ CallMain \/ LoadConfigFile \/ Dispatch
  <2>1. phase \in {"arguments", "loading"} /\ UNCHANGED at
    BY <1>5 DEF AddConfigFile, LoadDataFile, ChooseMain, CallMain, Given, LoadConfigFile, Dispatch,
         search
  <2>. QED BY <2>1 DEF RanSoFar
<1>6. CASE Done \/ Finalize
  BY <1>6 DEF Done, Finalize, Idle, search
<1>7. CASE Misread \/ Skip \/ LookUp \/ Copy \/ Other \/ Change \/ Ended \/ UNCHANGED vars
  <2>1. UNCHANGED <<automation_events, trigger, at, ran>> /\ phase' \in {phase, "crashed"}
    BY <1>7 DEF Misread, Skip, LookUp, Copy, Other, Change, Step, Ended, Crash, startup, search, vars
  <2>. QED BY <1>4, <2>1
<1>. QED BY <1>1, <1>2, <1>3, <1>5, <1>6, <1>7 DEF Next

LEMMA OrderInvariance == Spec => [](IInv /\ Everything /\ Sorted /\ RanSoFar)
<1>1. Init => IInv /\ Everything /\ Sorted /\ RanSoFar
  BY InitInv DEF Init, Everything, Sorted, RanSoFar
<1>2. /\ IInv /\ Everything /\ Sorted /\ RanSoFar
      /\ [Next]_vars
      => IInv' /\ Everything' /\ Sorted' /\ RanSoFar'
  BY InvStep, EverythingStep, SortedStep, RanStep
<1>. QED BY <1>1, <1>2, PTL DEF Spec

-----------------------------------------------------------------------------
(* The theorems *)

(* A block crashes the gateway only if its file names what the last file    *)
(* does not define, or has a timer without interval or operations.          *)
THEOREM CrashCause == Spec => []CrashExplained
<1>1. IInv => CrashExplained
  BY DEF IInv, Cause, CrashExplained
<1>. QED BY <1>1, Invariance, PTL

(* Several files are as good as one, except for what a file other than the  *)
(* last defines.                                                            *)
THEOREM FilesAddUp == Spec => []AsOneFile
<1>1. IInv => AsOneFile
  BY DEF IInv, Source, AsOneFile
<1>. QED BY <1>1, Invariance, PTL

(* Whatever ran for an event: the blocks of all files that were written for *)
(* it, each once, in the order of the files.                                *)
THEOREM NothingIsLeftOut == Spec => []AllFilesRun
<1>1. ASSUME IInv, Everything, RanSoFar PROVE AllFilesRun
  <2> SUFFICES ASSUME at > Len(automation_events), at # 0
               PROVE  /\ \A m, n \in DOMAIN ran : m < n => Before(ran[m], ran[n])
                      /\ \A i \in DOMAIN config_files : \A j \in DOMAIN config_files[i].blocks :
                            ~EveryZero(config_files[i].blocks[j].event) =>
                              ((\E n \in DOMAIN ran : ran[n] = [file |-> i, index |-> j])
                                  <=> Same(config_files[i].blocks[j].event))
    BY DEF AllFilesRun, Before
  <2>1. /\ parsed = Len(config_files) /\ DOMAIN config_files = 1 .. parsed
        /\ DOMAIN automation_events = 1 .. Len(automation_events) /\ at \in Nat
        /\ Len(automation_events) \in Nat
    BY <1>1 DEF IInv, RanSoFar, AllParsed, TypeOK
  <2>2. \A k \in DOMAIN automation_events : k < at
    BY <2>1
  <2>3. \A m, n \in DOMAIN ran : m < n => Before(ran[m], ran[n])
    BY <1>1 DEF RanSoFar
  <2>4. ASSUME NEW i \in DOMAIN config_files, NEW j \in DOMAIN config_files[i].blocks,
               ~EveryZero(config_files[i].blocks[j].event)
        PROVE  (\E n \in DOMAIN ran : ran[n] = [file |-> i, index |-> j])
                  <=> Same(config_files[i].blocks[j].event)
    <3>1. \A k \in DOMAIN automation_events :
             Place(automation_events[k]) = [file |-> i, index |-> j] =>
                automation_events[k].event = config_files[i].blocks[j].event
      BY <1>1, <2>4 DEF IInv, Origin, Place
    <3>2. PICK k \in DOMAIN automation_events :
             Place(automation_events[k]) = [file |-> i, index |-> j]
      BY <1>1, <2>1 DEF Everything
    <3>3. Same(config_files[i].blocks[j].event) =>
             \E n \in DOMAIN ran : ran[n] = [file |-> i, index |-> j]
      BY <1>1, <2>2, <3>1, <3>2 DEF RanSoFar
    <3>4. ASSUME NEW n \in DOMAIN ran, ran[n] = [file |-> i, index |-> j]
          PROVE  Same(config_files[i].blocks[j].event)
      BY <1>1, <3>1, <3>4 DEF RanSoFar
    <3>. QED BY <3>3, <3>4
  <2>. QED BY <2>3, <2>4
<1>. QED BY <1>1, OrderInvariance, PTL

=============================================================================
