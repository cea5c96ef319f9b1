------------------------ MODULE RMAPEngineLife_proofs ------------------------
(***************************************************************************)
(* Theorems about RMAPEngineLife: the commands of the peers, for any       *)
(* number of application threads; close() and the engine's thread, for an  *)
(* application of one thread.                                              *)
(***************************************************************************)
EXTENDS RMAPEngineLife, CommonLemmas

\* The constants are used in every step.
USE AddressSpaceAssumption

-----------------------------------------------------------------------------
(* The inductive invariant.                                                *)
ProcessThread ==
    [command : Commands, action : STRING, place : {"processing", "sending", "completed"},
     module : Nat]

CommandsInv ==
    /\ counters \in [received : 0 .. MaxCommands, answered : Nat, discarded : Nat, aborted : Nat]
    /\ DOMAIN processThreads \subseteq 1 .. counters.received
    /\ processThreads \in [DOMAIN processThreads -> ProcessThread]
    /\ {module, opened} \subseteq Nat
    /\ EveryCommandAccountedFor

EnginePlaces ==
    {"notRunning", "starting", "loop", "receiving", "ending", "stopActions", "closing",
     "deleting", "clearing", "ended"}
AppPlaces == {"idle", "stopWait", "closing", "deleting", "clearing"}

Types ==
    /\ style \in Styles /\ linkState \in {"Closed", "Opened"}
    /\ opened \in 0 .. MaxModules /\ module \in {0, opened}
    /\ deleted \in [1 .. MaxModules -> {0, 1}]
    /\ {stopped, hasStopped, actionsRun, peerUp} \subseteq BOOLEAN
    /\ place \in [Threads -> EnginePlaces \cup AppPlaces]
    /\ place[Engine] \in EnginePlaces
    /\ \A t \in Apps : place[t] \in AppPlaces
    /\ resumeAt \in [Threads -> {"idle", "deleting"}]
    /\ inUse \in [Threads -> Nat]
    /\ runs \in Nat /\ stopActions \in {0, 1}

(* The engine's thread: its flags, and its stop actions.                   *)
Closing == {"closing", "deleting", "clearing"}
EngineFlags ==
    /\ place[Engine] \in {"loop", "receiving", "ending", "stopActions", "ended"} \cup Closing
         => ~hasStopped
    /\ place[Engine] \notin {"loop", "receiving", "ending"} => stopped
    /\ place[Engine] \in {"loop", "receiving", "ending", "stopActions"} \cup Closing
         => ~actionsRun /\ stopActions = 0
    /\ place[Engine] = "starting" => stopActions = 0
    /\ place[Engine] # "notRunning" => runs > 0
    /\ place[Engine] \in {"ended", "notRunning"} /\ runs > 0 => stopActions = 1
    /\ place[Engine] \in Closing => style.closesOnStop

(* The application's thread: it waits whenever the engine is asked to stop, *)
(* and deletes the module when the engine has left it.                     *)
AppWaits ==
    \A t \in Apps :
        /\ place[t] \in Closing \/ (place[t] = "stopWait" /\ resumeAt[t] = "deleting")
             => ~style.closesOnStop
        /\ place[t] # "idle" => place[Engine] # "starting"
        /\ place[Engine] \in {"loop", "receiving", "ending"} /\ stopped => place[t] = "stopWait"
        /\ place[t] \in {"deleting", "clearing"}
             => place[Engine] \in {"notRunning", "stopActions", "ended"}

(* The modules: the one the link is open on lives, and the engine's thread *)
(* receives on no other.                                                   *)
ModulesInv ==
    /\ linkState = "Opened" => module # 0 /\ deleted[module] = 0
    /\ \A m \in 1 .. MaxModules : m > opened => deleted[m] = 0
    /\ module # 0 /\ (\A t \in Threads : place[t] # "clearing") => deleted[module] = 0
    /\ \A t \in Threads : place[t] \in {"deleting", "clearing"} => linkState = "Closed"
    /\ \A t \in Apps : place[t] = "stopWait" /\ resumeAt[t] = "deleting" => linkState = "Closed"
    /\ inUse[Engine] # 0 => place[Engine] = "receiving"
    /\ place[Engine] = "receiving" => module # 0 /\ inUse[Engine] = module

ThreadsInv == Types /\ EngineFlags /\ AppWaits /\ ModulesInv

-----------------------------------------------------------------------------
(* The addresses of an access.                                             *)

\* A sum of two addresses wraps around at most once.
LEMMA WrappedSum ==
    ASSUME NEW x \in Nat, x < 2 * AddressSpace
    PROVE  x % AddressSpace = IF x < AddressSpace THEN x ELSE x - AddressSpace
  <1>1. CASE x < AddressSpace
    BY ONLY <1>1, AddressSpaceAssumption
  <1>2. CASE x >= AddressSpace
    <2>1. PICK r \in 0 .. AddressSpace - 1 : x = AddressSpace * 1 + r
      BY ONLY <1>2, x < 2 * AddressSpace, AddressSpaceAssumption
    <2>2. x % AddressSpace = r
      BY ONLY <2>1, AddressSpaceAssumption
    <2>3. QED BY ONLY <1>2, <2>1, <2>2, AddressSpaceAssumption
  <1>3. QED BY <1>1, <1>2

\* The action that is found belongs to a range that contains the first and
\* the last address of the access.
LEMMA ActionHasRange ==
    ASSUME NEW c \in Commands, ActionFor(Targets, c.address, c.length) # {}
    PROVE  \E k \in DOMAIN Targets : \E j \in DOMAIN Targets[k] :
              /\ ActionFor(Targets, c.address, c.length) = {Targets[k][j].action}
              /\ RangeContains(Targets[k][j].range, DispatchRange(c.address, c.length))
  <1> DEFINE Fits(e) == RangeContains(e.range, DispatchRange(c.address, c.length))
             Accepts(t) == CorrespondingAction(t, c.address, c.length) # {}
             K == {k \in 1 .. Len(Targets) : Accepts(Targets[k])}
             least == CHOOSE n \in K : \A m \in K : n =< m
             J == {j \in 1 .. Len(Targets[least]) : Fits(Targets[least][j])}
             first == CHOOSE n \in J : \A m \in J : n =< m
  <1> DEFINE Pair == [range : [from : Address, to : Address], action : STRING]
  <1>0. Targets \in Seq(Seq(Pair))
    BY LifeAssumption
  <1> HIDE DEF Pair
  <1>1. ActionFor(Targets, c.address, c.length) =
            IF (IF K # {} THEN least ELSE 0) = 0 THEN {}
            ELSE CorrespondingAction(Targets[IF K # {} THEN least ELSE 0], c.address, c.length)
    BY DEF ActionFor, SelectInSeq, Min
  <1>2. K # {} /\ K \in SUBSET Nat
    <2>1. K # {}
      BY <1>1
    <2>2. K \in SUBSET Nat
      BY ONLY TRUE
    <2>3. QED BY <2>1, <2>2
  <1>3. least \in K
    <2> HIDE DEF K
    <2>1. QED BY <1>2, LeastIsLeast
  <1>4. least \in DOMAIN Targets /\ least # 0
    <2>1. least \in 1 .. Len(Targets)
      BY <1>3
    <2>2. \A n \in 1 .. Len(Targets) : n \in DOMAIN Targets /\ n # 0
      BY ONLY <1>0
    <2> HIDE DEF least
    <2>3. QED BY ONLY <2>1, <2>2
  <1>5. CorrespondingAction(Targets[least], c.address, c.length) =
            IF (IF J # {} THEN first ELSE 0) = 0 THEN {}
            ELSE {Targets[least][IF J # {} THEN first ELSE 0].action}
    BY DEF CorrespondingAction, SelectInSeq, Min
  <1>6. J # {} /\ J \in SUBSET Nat
    <2>1. CorrespondingAction(Targets[least], c.address, c.length) # {}
      BY <1>3
    <2>2. J # {}
      BY <1>5, <2>1
    <2>3. J \in SUBSET Nat
      BY ONLY TRUE
    <2>4. QED BY <2>2, <2>3
  <1>7. first \in J
    <2> HIDE DEF J
    <2>1. QED BY <1>6, LeastIsLeast
  <1>8. Targets[least] \in Seq(Pair)
    BY ONLY <1>0, <1>4
  <1>9. first \in DOMAIN Targets[least] /\ first # 0
    <2>1. first \in 1 .. Len(Targets[least])
      BY <1>7
    <2>2. \A n \in 1 .. Len(Targets[least]) : n \in DOMAIN Targets[least] /\ n # 0
      <3> HIDE DEF least
      <3>1. QED BY ONLY <1>8
    <2> HIDE DEF least, first
    <2>3. QED BY ONLY <2>1, <2>2
  <1>10. ActionFor(Targets, c.address, c.length) = {Targets[least][first].action}
    BY <1>1, <1>2, <1>4, <1>5, <1>6, <1>9
  <1>11. Fits(Targets[least][first])
    BY <1>7
  <1>12. QED BY <1>4, <1>9, <1>10, <1>11

\* Such a range holds every address the access touches.
LEMMA AccessStaysInRange ==
    ASSUME NEW r \in [from : Address, to : Address], NEW c \in Commands,
           RangeContains(r, DispatchRange(c.address, c.length)),
           r.to - r.from + c.length <= AddressSpace
    PROVE  Touched(c) \subseteq r.from .. r.to
  <1> SUFFICES ASSUME NEW k \in 0 .. c.length - 1
               PROVE  (c.address + k) % AddressSpace \in r.from .. r.to
    BY DEF Touched
  <1>1. /\ c.address \in 0 .. AddressSpace - 1 /\ c.length \in 0 .. AddressSpace - 1
        /\ r.from \in 0 .. AddressSpace - 1 /\ r.to \in 0 .. AddressSpace - 1
    BY LifeAssumption DEF Address
  <1> DEFINE last == c.address + c.length - 1
  <1>2. c.length > 0 /\ last \in Nat /\ last < 2 * AddressSpace
    BY <1>1
  <1>3. /\ last % AddressSpace >= r.from /\ r.to >= c.address
        /\ r.from <= c.address /\ last % AddressSpace <= r.to
    <2>1. last % AddressSpace \in Nat
      BY <1>2
    <2>2. QED BY <1>1, <2>1 DEF RangeContains, DispatchRange
  <1>4. last < AddressSpace
    <2>1. CASE last >= AddressSpace
      <3>1. last % AddressSpace = last - AddressSpace
        BY <1>2, <2>1, WrappedSum
      <3>2. QED BY <1>1, <1>3, <3>1
    <2>2. QED BY <1>2, <2>1
  <1>5. last % AddressSpace = last
    BY <1>2, <1>4, WrappedSum
  <1>6. c.address + k \in Nat /\ c.address + k <= last
    BY <1>1
  <1>7. (c.address + k) % AddressSpace = c.address + k
    BY <1>2, <1>4, <1>6, WrappedSum
  <1>8. QED BY ONLY <1>1, <1>3, <1>5, <1>6, <1>7

-----------------------------------------------------------------------------
(* No command is lost, and none leaves its range.                          *)

\* The bounds are numbers; a stop action's flags are Booleans.
LEMMA Bounds ==
    MaxModules \in Nat /\ MaxCommands \in Nat /\ MaxRuns \in Nat /\ Engine \notin Apps
  BY LifeAssumption

\* The number of commands received is a number.
LEMMA CountsAreNumbers ==
    ASSUME CommandsInv
    PROVE  /\ counters.received \in Nat /\ counters.received <= MaxCommands
           /\ counters.answered \in Nat /\ counters.discarded \in Nat /\ counters.aborted \in Nat
           /\ counters = [received |-> counters.received, answered |-> counters.answered,
                          discarded |-> counters.discarded, aborted |-> counters.aborted]
  <1>1. counters \in [received : 0 .. MaxCommands, answered : Nat, discarded : Nat, aborted : Nat]
    BY DEF CommandsInv
  <1>2. QED BY ONLY <1>1, Bounds

\* The threads that have not completed are a finite set.
LEMMA RunningIsFinite ==
    ASSUME CommandsInv
    PROVE  /\ IsFiniteSet(Running) /\ Cardinality(Running) \in Nat
           /\ Running \subseteq 1 .. counters.received
  <1>1. counters.received \in Int
    BY CountsAreNumbers
  <1>2. IsFiniteSet(1 .. counters.received)
    BY <1>1, FS_Interval
  <1>3. Running \in SUBSET (1 .. counters.received)
    BY DEF CommandsInv, Running
  <1>4. IsFiniteSet(Running)
    BY <1>2, <1>3, FS_Subset
  <1>5. QED BY <1>3, <1>4, FS_CardinalityType

\* An action has a name.
LEMMA TargetsHaveActions ==
    ASSUME NEW k \in DOMAIN Targets, NEW j \in DOMAIN Targets[k]
    PROVE  /\ Targets[k][j].range \in [from : Address, to : Address]
           /\ Targets[k][j].action \in STRING
  <1> DEFINE Pair == [range : [from : Address, to : Address], action : STRING]
  <1>1. Targets \in Seq(Seq(Pair))
    BY LifeAssumption
  <1> HIDE DEF Pair
  <1>2. Targets[k] \in Seq(Pair)
    BY ONLY <1>1, k \in DOMAIN Targets
  <1>3. Targets[k][j] \in Pair
    BY ONLY <1>2, j \in DOMAIN Targets[k]
  <1> USE DEF Pair
  <1>4. QED BY ONLY <1>3

\* A command that arrives gets a thread or is counted as discarded; the
\* threads that have completed go.
LEMMA CommandArrivesKeepsCount ==
    ASSUME CommandsInv, CommandArrives
    PROVE  CommandsInv'
  <1> USE DEF CommandsInv
  <1>1. PICK command \in Commands :
          LET actions == ActionFor(Targets, command.address, command.length)
          IN IF actions = {}
             THEN /\ processThreads' = Collected
                  /\ counters' = [counters EXCEPT !.received = @ + 1, !.discarded = @ + 1]
             ELSE /\ processThreads' = [n \in Running \cup {counters.received + 1} |->
                         IF n \in Running THEN processThreads[n]
                         ELSE [command |-> command, action |-> CHOOSE a \in actions : TRUE,
                               place |-> "processing", module |-> 0]]
                  /\ counters' = [counters EXCEPT !.received = @ + 1]
    BY DEF CommandArrives
  <1>2. counters.received < MaxCommands /\ UNCHANGED <<module, opened>>
    BY DEF CommandArrives, linkVars
  <1>a. /\ counters.received \in Nat /\ MaxCommands \in Nat
        /\ counters.answered \in Nat /\ counters.discarded \in Nat /\ counters.aborted \in Nat
        /\ counters = [received |-> counters.received, answered |-> counters.answered,
                       discarded |-> counters.discarded, aborted |-> counters.aborted]
    BY CountsAreNumbers, Bounds
  <1>b. counters.received = counters.answered + counters.discarded + counters.aborted
                            + Cardinality(Running)
    BY DEF EveryCommandAccountedFor
  <1>3. /\ IsFiniteSet(Running) /\ Cardinality(Running) \in Nat
        /\ Running \subseteq 1 .. counters.received
    BY RunningIsFinite
  <1>4. \A n \in Running : processThreads[n] \in ProcessThread
                            /\ processThreads[n].place # "completed"
    BY DEF Running
  <1>5. CASE ActionFor(Targets, command.address, command.length) = {}
    <2>1. /\ processThreads' = Collected
          /\ counters' = [counters EXCEPT !.received = @ + 1, !.discarded = @ + 1]
      BY <1>1, <1>5
    <2>2. DOMAIN processThreads' = Running /\ \A n \in Running : processThreads'[n] = processThreads[n]
      BY <2>1 DEF Collected
    <2>3. Running' = Running
      BY <2>2, <1>4 DEF Running
    <2>c. counters' = [received |-> counters.received + 1, answered |-> counters.answered,
                       discarded |-> counters.discarded + 1, aborted |-> counters.aborted]
      BY ONLY <1>a, <2>1
    <2>4. EveryCommandAccountedFor'
      BY ONLY <1>a, <1>b, <1>3, <2>c, <2>3 DEF EveryCommandAccountedFor
    <2>d. /\ counters' \in [received : 0 .. MaxCommands, answered : Nat, discarded : Nat, aborted : Nat]
          /\ 1 .. counters.received \subseteq 1 .. counters'.received
      BY ONLY <1>a, <1>2, <2>c
    <2>5. processThreads' \in [DOMAIN processThreads' -> ProcessThread]
      BY <1>4, <2>1 DEF Collected
    <2>6. QED BY <1>2, <1>3, <2>2, <2>4, <2>5, <2>d
  <1>6. CASE ActionFor(Targets, command.address, command.length) # {}
    <2> DEFINE new == counters.received + 1
               action == CHOOSE a \in ActionFor(Targets, command.address, command.length) : TRUE
               thread == [command |-> command, action |-> action, place |-> "processing",
                          module |-> 0]
    <2>1. /\ processThreads' = [n \in Running \cup {new} |->
                                    IF n \in Running THEN processThreads[n] ELSE thread]
          /\ counters' = [counters EXCEPT !.received = @ + 1]
      BY <1>1, <1>6
    <2>2. thread \in ProcessThread
      <3>1. PICK k \in DOMAIN Targets : \E j \in DOMAIN Targets[k] :
                ActionFor(Targets, command.address, command.length) = {Targets[k][j].action}
        BY <1>6, ActionHasRange
      <3>2. PICK j \in DOMAIN Targets[k] :
                ActionFor(Targets, command.address, command.length) = {Targets[k][j].action}
        BY <3>1
      <3>3. Targets[k][j].action \in STRING
        BY TargetsHaveActions
      <3>4. action \in STRING
        BY <3>2, <3>3
      <3> HIDE DEF action
      <3>5. QED BY <3>4 DEF ProcessThread
    <2> HIDE DEF thread
    <2>3. new \notin Running
      <3>1. new \notin 1 .. counters.received
        BY ONLY <1>a
      <3>2. QED BY <1>3, <3>1
    <2>4. /\ DOMAIN processThreads' = Running \cup {new}
          /\ \A n \in Running : processThreads'[n] = processThreads[n]
          /\ processThreads'[new] = thread
      BY <2>1, <2>3
    <2>5. Running' = Running \cup {new}
      BY <2>4, <1>4 DEF Running, thread
    <2>6. Cardinality(Running') = Cardinality(Running) + 1
      BY <2>3, <2>5, <1>3, FS_AddElement
    <2>c. counters' = [received |-> counters.received + 1, answered |-> counters.answered,
                       discarded |-> counters.discarded, aborted |-> counters.aborted]
      BY ONLY <1>a, <2>1
    <2>7. EveryCommandAccountedFor'
      BY ONLY <1>a, <1>b, <1>3, <2>c, <2>6 DEF EveryCommandAccountedFor
    <2>d. /\ counters' \in [received : 0 .. MaxCommands, answered : Nat, discarded : Nat, aborted : Nat]
          /\ 1 .. counters.received \subseteq 1 .. counters'.received
          /\ new \in 1 .. counters'.received
      BY ONLY <1>a, <1>2, <2>c
    <2>8. processThreads' \in [DOMAIN processThreads' -> ProcessThread]
      BY <1>4, <2>1, <2>2
    <2>9. QED BY <1>2, <1>3, <2>4, <2>7, <2>8, <2>d
  <1>7. QED BY <1>5, <1>6

\* A thread answers its command, or the command is counted as lost.
LEMMA ProcessStepKeepsCount ==
    ASSUME CommandsInv, NEW i \in 1 .. MaxCommands, ProcessStep(i)
    PROVE  CommandsInv'
  <1> USE DEF CommandsInv
  <1>1. /\ IsFiniteSet(Running) /\ Cardinality(Running) \in Nat
    BY RunningIsFinite
  <1>2. i \in DOMAIN processThreads /\ processThreads[i] \in ProcessThread /\ i \in Running
    BY DEF ProcessStep, ActionThrows, ActionReplies, ReplyLeaves, At, Running
  <1>3. UNCHANGED <<module, opened>>
    BY DEF ProcessStep, ActionThrows, ActionReplies, ReplyLeaves, linkVars
  <1>4. CASE /\ ThreadGoes(i, "completed", 0)
             /\ \/ counters' = [counters EXCEPT !.answered = @ + 1]
                \/ counters' = [counters EXCEPT !.discarded = @ + 1]
                \/ counters' = [counters EXCEPT !.aborted = @ + 1]
    <2>1. Running' = Running \ {i}
      BY <1>2, <1>4 DEF Running, ThreadGoes, ProcessThread
    <2>2. Cardinality(Running') = Cardinality(Running) - 1
      BY <1>1, <1>2, <2>1, FS_RemoveElement
    <2>a. /\ counters.received \in Nat /\ counters.received <= MaxCommands /\ MaxCommands \in Nat
          /\ counters.answered \in Nat /\ counters.discarded \in Nat /\ counters.aborted \in Nat
          /\ counters = [received |-> counters.received, answered |-> counters.answered,
                         discarded |-> counters.discarded, aborted |-> counters.aborted]
      BY CountsAreNumbers, Bounds
    <2>b. counters.received = counters.answered + counters.discarded + counters.aborted
                              + Cardinality(Running)
      BY DEF EveryCommandAccountedFor
    <2>c. PICK a \in {0, 1}, d \in {0, 1}, b \in {0, 1} :
              /\ a + d + b = 1
              /\ counters' = [received |-> counters.received, answered |-> counters.answered + a,
                              discarded |-> counters.discarded + d, aborted |-> counters.aborted + b]
      <3>1. CASE counters' = [counters EXCEPT !.answered = @ + 1]
        <4>1. counters' = [received |-> counters.received, answered |-> counters.answered + 1,
                           discarded |-> counters.discarded + 0, aborted |-> counters.aborted + 0]
          BY ONLY <2>a, <3>1
        <4>2. QED BY ONLY <4>1, 1 + 0 + 0 = 1
      <3>2. CASE counters' = [counters EXCEPT !.discarded = @ + 1]
        <4>1. counters' = [received |-> counters.received, answered |-> counters.answered + 0,
                           discarded |-> counters.discarded + 1, aborted |-> counters.aborted + 0]
          BY ONLY <2>a, <3>2
        <4>2. QED BY ONLY <4>1, 0 + 1 + 0 = 1
      <3>3. CASE counters' = [counters EXCEPT !.aborted = @ + 1]
        <4>1. counters' = [received |-> counters.received, answered |-> counters.answered + 0,
                           discarded |-> counters.discarded + 0, aborted |-> counters.aborted + 1]
          BY ONLY <2>a, <3>3
        <4>2. QED BY ONLY <4>1, 0 + 0 + 1 = 1
      <3>4. QED BY <1>4, <3>1, <3>2, <3>3
    <2>3. EveryCommandAccountedFor'
      BY ONLY <1>1, <2>a, <2>b, <2>c, <2>2 DEF EveryCommandAccountedFor
    <2>d. /\ counters' \in [received : 0 .. MaxCommands, answered : Nat, discarded : Nat, aborted : Nat]
          /\ counters'.received = counters.received
      BY ONLY <2>a, <2>c
    <2>4. /\ DOMAIN processThreads' = DOMAIN processThreads
          /\ processThreads' \in [DOMAIN processThreads -> ProcessThread]
      BY <1>2, <1>4 DEF ThreadGoes, ProcessThread
    <2>5. QED BY <1>3, <2>3, <2>4, <2>d
  <1>5. CASE ThreadGoes(i, "sending", module) /\ UNCHANGED counters
    <2>1. Running' = Running
      BY <1>2, <1>5 DEF Running, ThreadGoes, ProcessThread
    <2>2. /\ DOMAIN processThreads' = DOMAIN processThreads
          /\ processThreads' \in [DOMAIN processThreads -> ProcessThread]
      BY <1>2, <1>5 DEF ThreadGoes, ProcessThread
    <2>3. QED BY <1>3, <1>5, <2>1, <2>2 DEF EveryCommandAccountedFor
  <1>6. QED
    BY <1>4, <1>5 DEF ProcessStep, ActionThrows, ActionReplies, ReplyLeaves

\* The other steps leave the commands and their threads alone.
LEMMA OtherStepsKeepCount ==
    ASSUME CommandsInv,
           \/ \E t \in Apps : Open(t) \/ Start(t) \/ Stop(t) \/ CloseBegins(t) \/ CloseStep(t)
           \/ RunBegins \/ ReceiveBegins \/ ReceiveTimesOutAgain \/ ReceiveDisconnected
           \/ RunEnds \/ StopActionsRun \/ ThreadEnds \/ CloseStep(Engine) \/ LinkBreaks
           \/ UNCHANGED lifeVars
    PROVE  CommandsInv'
  <1>1. UNCHANGED <<processThreads, counters>>
    BY DEF Open, Start, Stop, CloseBegins, CloseStep, StopReturns, CloseSetsState, CloseDeletes,
           CloseClears, RunBegins, ReceiveBegins, ReceiveTimesOutAgain, ReceiveDisconnected,
           RunEnds, StopActionsRun, ThreadEnds, LinkBreaks, lifeVars
  <1>2. {module', opened'} \subseteq Nat
    BY DEF Open, Start, Stop, CloseBegins, CloseStep, StopReturns, CloseSetsState, CloseDeletes,
           CloseClears, RunBegins, ReceiveBegins, ReceiveTimesOutAgain, ReceiveDisconnected,
           RunEnds, StopActionsRun, ThreadEnds, LinkBreaks, lifeVars, linkVars, CommandsInv
  <1>3. Running' = Running
    BY <1>1 DEF Running
  <1>4. EveryCommandAccountedFor'
    BY <1>1, <1>3 DEF CommandsInv, EveryCommandAccountedFor
  <1>5. QED BY <1>1, <1>2, <1>4 DEF CommandsInv

\* The counters hold, whoever starts, stops and closes.
THEOREM CommandsAlwaysCounted == LifeSpec => []CommandsInv
  <1>1. LifeInit => CommandsInv
    <2> SUFFICES ASSUME LifeInit PROVE CommandsInv
      OBVIOUS
    <2>1. /\ DOMAIN processThreads = {} /\ module = 0 /\ opened = 0
          /\ counters = [received |-> 0, answered |-> 0, discarded |-> 0, aborted |-> 0]
      BY DEF LifeInit
    <2>2. Running = {}
      BY <2>1 DEF Running
    <2>3. Cardinality(Running) = 0
      BY <2>2, FS_EmptySet
    <2>4. counters \in [received : 0 .. MaxCommands, answered : Nat, discarded : Nat, aborted : Nat]
      BY ONLY <2>1, Bounds
    <2>5. EveryCommandAccountedFor
      BY ONLY <2>1, <2>3 DEF EveryCommandAccountedFor
    <2>6. processThreads \in [DOMAIN processThreads -> ProcessThread]
      BY <2>1 DEF LifeInit
    <2>7. QED BY <2>1, <2>4, <2>5, <2>6 DEF CommandsInv
  <1>2. CommandsInv /\ [LifeNext]_lifeVars => CommandsInv'
    BY CommandArrivesKeepsCount, ProcessStepKeepsCount, OtherStepsKeepCount
       DEF LifeNext, EngineStep
  <1>3. QED BY <1>1, <1>2, PTL DEF LifeSpec

\* Every command received is answered, or counted as discarded or aborted, or
\* still with its thread: no interleaving of the threads that process
\* commands, of stop() and of close() loses one.
THEOREM NoCommandIsLost == LifeSpec => []EveryCommandAccountedFor
  <1>1. CommandsInv => EveryCommandAccountedFor
    BY DEF CommandsInv
  <1>2. QED BY <1>1, CommandsAlwaysCounted, PTL

-----------------------------------------------------------------------------
(* The ranges of the targets: a thread has the command and the action it   *)
(* was made with.                                                          *)

\* What ActionFor finds is an action whose range holds the access.
LEMMA ActionHoldsAccess ==
    ASSUME RangesLeaveRoom, NEW c \in Commands, ActionFor(Targets, c.address, c.length) # {}
    PROVE  \E k \in DOMAIN Targets : \E j \in DOMAIN Targets[k] :
              /\ Targets[k][j].action
                     = CHOOSE a \in ActionFor(Targets, c.address, c.length) : TRUE
              /\ Touched(c) \subseteq Targets[k][j].range.from .. Targets[k][j].range.to
  <1>0. PICK k \in DOMAIN Targets : \E j \in DOMAIN Targets[k] :
            /\ ActionFor(Targets, c.address, c.length) = {Targets[k][j].action}
            /\ RangeContains(Targets[k][j].range, DispatchRange(c.address, c.length))
    BY ActionHasRange
  <1>1. PICK j \in DOMAIN Targets[k] :
            /\ ActionFor(Targets, c.address, c.length) = {Targets[k][j].action}
            /\ RangeContains(Targets[k][j].range, DispatchRange(c.address, c.length))
    BY <1>0
  <1>2. (CHOOSE a \in ActionFor(Targets, c.address, c.length) : TRUE) = Targets[k][j].action
    BY <1>1
  <1>3. Targets[k][j].range \in [from : Address, to : Address]
    BY TargetsHaveActions
  <1>4. Targets[k][j].range.to - Targets[k][j].range.from + c.length <= AddressSpace
    BY DEF RangesLeaveRoom
  <1>5. Touched(c) \subseteq Targets[k][j].range.from .. Targets[k][j].range.to
    BY <1>1, <1>3, <1>4, AccessStaysInRange
  <1>6. QED BY <1>2, <1>5

\* A thread stays with an action whose range holds its command's addresses,
\* sums that wrap around included, when no range is as large as the address
\* space less an access.
THEOREM AccessesStayInRange ==
    ASSUME RangesLeaveRoom
    PROVE  LifeSpec => []CommandsStayInRange
  <1> DEFINE Held(c, a) ==
        \E k \in DOMAIN Targets : \E j \in DOMAIN Targets[k] :
            /\ Targets[k][j].action = a
            /\ Touched(c) \subseteq Targets[k][j].range.from .. Targets[k][j].range.to
  <1>1. CommandsStayInRange
          <=> \A i \in DOMAIN processThreads :
                  Held(processThreads[i].command, processThreads[i].action)
    BY DEF CommandsStayInRange
  <1>2. CommandsStayInRange'
          <=> \A i \in DOMAIN processThreads' :
                  Held(processThreads'[i].command, processThreads'[i].action)
    BY DEF CommandsStayInRange, Touched
  <1>3. \A c \in Commands : ActionFor(Targets, c.address, c.length) # {}
            => Held(c, CHOOSE a \in ActionFor(Targets, c.address, c.length) : TRUE)
    BY ActionHoldsAccess
  <1> HIDE DEF Held
  <1>4. LifeInit => CommandsStayInRange
    BY <1>1 DEF LifeInit
  <1>5. CommandsInv /\ CommandsStayInRange /\ [LifeNext]_lifeVars => CommandsStayInRange'
    <2> SUFFICES ASSUME CommandsInv, CommandsStayInRange, [LifeNext]_lifeVars
                 PROVE  CommandsStayInRange'
      OBVIOUS
    <2>1. CASE CommandArrives
      <3>1. \A n \in Running : n \in DOMAIN processThreads
        BY DEF Running
      <3>2. PICK command \in Commands :
              LET actions == ActionFor(Targets, command.address, command.length)
              IN IF actions = {} THEN processThreads' = Collected
                 ELSE processThreads' = [n \in Running \cup {counters.received + 1} |->
                           IF n \in Running THEN processThreads[n]
                           ELSE [command |-> command, action |-> CHOOSE a \in actions : TRUE,
                                 place |-> "processing", module |-> 0]]
        BY <2>1 DEF CommandArrives
      <3>3. CASE ActionFor(Targets, command.address, command.length) = {}
        BY <1>1, <1>2, <3>1, <3>2, <3>3 DEF Collected
      <3>4. CASE ActionFor(Targets, command.address, command.length) # {}
        <4> DEFINE action == CHOOSE a \in ActionFor(Targets, command.address, command.length) : TRUE
        <4>1. Held(command, action)
          BY <1>3, <3>4
        <4>2. processThreads' = [n \in Running \cup {counters.received + 1} |->
                  IF n \in Running THEN processThreads[n]
                  ELSE [command |-> command, action |-> action, place |-> "processing",
                        module |-> 0]]
          BY <3>2, <3>4
        <4> HIDE DEF action
        <4>3. QED BY <1>1, <1>2, <3>1, <4>1, <4>2
      <3>5. QED BY <3>3, <3>4
    <2>2. CASE \E i \in 1 .. MaxCommands : ProcessStep(i)
      <3>1. PICK i \in DOMAIN processThreads :
                ThreadGoes(i, "completed", 0) \/ ThreadGoes(i, "sending", module)
        <4>1. PICK i \in 1 .. MaxCommands : ProcessStep(i)
          BY <2>2
        <4>2. i \in DOMAIN processThreads
          BY <4>1 DEF ProcessStep, ActionThrows, ActionReplies, ReplyLeaves, At
        <4>3. ThreadGoes(i, "completed", 0) \/ ThreadGoes(i, "sending", module)
          BY <4>1 DEF ProcessStep, ActionThrows, ActionReplies, ReplyLeaves
        <4>4. QED BY <4>2, <4>3
      <3>2. processThreads \in [DOMAIN processThreads -> ProcessThread]
        BY DEF CommandsInv
      <3>3. /\ DOMAIN processThreads' = DOMAIN processThreads
            /\ \A n \in DOMAIN processThreads :
                  /\ processThreads'[n].command = processThreads[n].command
                  /\ processThreads'[n].action = processThreads[n].action
        BY <3>1, <3>2 DEF ThreadGoes, ProcessThread
      <3>4. QED BY <1>1, <1>2, <3>3
    <2>3. CASE UNCHANGED processThreads
      BY <1>1, <1>2, <2>3
    <2>4. QED
      BY <2>1, <2>2, <2>3
         DEF LifeNext, EngineStep, Open, Start, Stop, CloseBegins, CloseStep, StopReturns,
             CloseSetsState, CloseDeletes, CloseClears, RunBegins, ReceiveBegins,
             ReceiveTimesOutAgain, ReceiveDisconnected, RunEnds, StopActionsRun, ThreadEnds,
             LinkBreaks, lifeVars
  <1>6. QED BY <1>4, <1>5, CommandsAlwaysCounted, PTL DEF LifeSpec

-----------------------------------------------------------------------------
(* The engine's thread and the application's, for an application of one     *)
(* thread that does not stop an engine that is still starting.             *)

\* The thread of the application: open(), start(), stop() and close().
LEMMA ApplicationSteps ==
    ASSUME OnePatientThread, ThreadsInv, NEW a \in Apps,
           \/ Open(a) \/ Start(a) \/ Stop(a) \/ StopReturns(a) \/ CloseBegins(a)
           \/ CloseSetsState(a) \/ CloseDeletes(a) \/ CloseClears(a)
    PROVE  ThreadsInv'
  <1> USE DEF Threads
  <1>0. Engine \notin Apps /\ style.patient /\ (\A t, u \in Apps : t = u) /\ MaxModules \in Nat
    BY Bounds DEF OnePatientThread, ThreadsInv, Types
  <1>1. CASE Open(a)
    <2>1. Types'
      BY <1>0, <1>1
         DEF Open, ThreadsInv, Types, EnginePlaces, AppPlaces, Go, LeaveModule, AskToStop,
             MayInterfere, linkVars, flagVars, threadVars
    <2>2. EngineFlags'
      BY <1>0, <1>1, <2>1
         DEF Open, ThreadsInv, Types, EngineFlags, AppWaits, ModulesInv, Closing, AppPlaces, Go,
             LeaveModule, AskToStop, MayInterfere, linkVars, flagVars, threadVars
    <2>3. AppWaits'
      BY <1>0, <1>1, <2>1
         DEF Open, ThreadsInv, Types, EngineFlags, AppWaits, ModulesInv, Closing, AppPlaces, Go,
             LeaveModule, AskToStop, MayInterfere, linkVars, flagVars, threadVars
    <2>4. ModulesInv'
      BY <1>0, <1>1, <2>1
         DEF Open, ThreadsInv, Types, EngineFlags, AppWaits, ModulesInv, Closing, AppPlaces, Go,
             LeaveModule, AskToStop, MayInterfere, linkVars, flagVars, threadVars
    <2>5. QED BY <2>1, <2>2, <2>3, <2>4 DEF ThreadsInv
  <1>2. CASE Start(a)
    <2>1. Types'
      BY <1>0, <1>2
         DEF Start, ThreadsInv, Types, EnginePlaces, AppPlaces, Go, LeaveModule, AskToStop,
             MayInterfere, linkVars, flagVars, threadVars
    <2>2. EngineFlags'
      BY <1>0, <1>2, <2>1
         DEF Start, ThreadsInv, Types, EngineFlags, AppWaits, ModulesInv, Closing, AppPlaces,
             Go, LeaveModule, AskToStop, MayInterfere, linkVars, flagVars, threadVars
    <2>3. AppWaits'
      BY <1>0, <1>2, <2>1
         DEF Start, ThreadsInv, Types, EngineFlags, AppWaits, ModulesInv, Closing, AppPlaces,
             Go, LeaveModule, AskToStop, MayInterfere, linkVars, flagVars, threadVars
    <2>4. ModulesInv'
      BY <1>0, <1>2, <2>1
         DEF Start, ThreadsInv, Types, EngineFlags, AppWaits, ModulesInv, Closing, AppPlaces,
             Go, LeaveModule, AskToStop, MayInterfere, linkVars, flagVars, threadVars
    <2>5. QED BY <2>1, <2>2, <2>3, <2>4 DEF ThreadsInv
  <1>3. CASE Stop(a)
    <2>a. PICK p \in {"idle", "stopWait"} : place' = [place EXCEPT ![a] = p]
      BY <1>3 DEF Stop, AskToStop, Go
    <2>b. PICK r \in {resumeAt, [resumeAt EXCEPT ![a] = "idle"]} : resumeAt' = r
      BY <1>3 DEF Stop, AskToStop
    <2>c. /\ place' \in [Threads -> EnginePlaces \cup AppPlaces]
          /\ place'[Engine] = place[Engine] /\ \A t \in Apps : place'[t] = p
      BY <1>0, <2>a DEF ThreadsInv, Types, AppPlaces
    <2>d. resumeAt' \in [Threads -> {"idle", "deleting"}]
      BY <2>b DEF ThreadsInv, Types
    <2>e. p \in AppPlaces
      BY DEF AppPlaces
    <2>1. Types'
      BY <1>3, <2>c, <2>d, <2>e DEF Stop, AskToStop, ThreadsInv, Types, linkVars
    <2>2. EngineFlags'
      BY <1>0, <1>3, <2>1
         DEF Stop, ThreadsInv, Types, EngineFlags, AppWaits, ModulesInv, Closing, AppPlaces, Go,
             LeaveModule, AskToStop, MayInterfere, linkVars, flagVars, threadVars
    <2>3. AppWaits'
      BY <1>0, <1>3, <2>1
         DEF Stop, ThreadsInv, Types, EngineFlags, AppWaits, ModulesInv, Closing, AppPlaces, Go,
             LeaveModule, AskToStop, MayInterfere, linkVars, flagVars, threadVars
    <2>4. ModulesInv'
      BY <1>0, <1>3, <2>1
         DEF Stop, ThreadsInv, Types, EngineFlags, AppWaits, ModulesInv, Closing, AppPlaces, Go,
             LeaveModule, AskToStop, MayInterfere, linkVars, flagVars, threadVars
    <2>5. QED BY <2>1, <2>2, <2>3, <2>4 DEF ThreadsInv
  <1>4. CASE StopReturns(a)
    <2>a. /\ place' = [place EXCEPT ![a] = resumeAt[a]] /\ resumeAt[a] \in {"idle", "deleting"}
          /\ place[a] = "stopWait" /\ hasStopped
      BY <1>4 DEF StopReturns, Go, ThreadsInv, Types
    <2>c. /\ place' \in [Threads -> EnginePlaces \cup AppPlaces]
          /\ place'[Engine] = place[Engine] /\ \A t \in Apps : t = a /\ place'[t] = resumeAt[a]
      BY <1>0, <2>a DEF ThreadsInv, Types, AppPlaces
    <2>b. UNCHANGED <<style, linkVars, flagVars, resumeAt, inUse, runs, stopActions>>
      BY <1>4 DEF StopReturns
    <2>e. resumeAt[a] \in AppPlaces
      BY <2>a DEF AppPlaces
    <2>1. Types'
      BY <2>b, <2>c, <2>e DEF ThreadsInv, Types, linkVars, flagVars
    <2>f. place[Engine] = "notRunning" \/ place[Engine] = "stopActions"
      BY <1>0, <2>a DEF ThreadsInv, Types, EnginePlaces, EngineFlags, AppWaits, Closing
    <2>2. EngineFlags'
      BY <2>b, <2>c DEF ThreadsInv, EngineFlags, flagVars
    <2>3. AppWaits'
      <3>1. resumeAt[a] = "deleting" => ~style.closesOnStop
        BY <2>a DEF ThreadsInv, AppWaits
      <3>2. QED BY <2>a, <2>b, <2>c, <2>f, <3>1 DEF AppWaits, Closing
    <2>4. ModulesInv'
      <3>1. inUse[Engine] = 0 \/ place[Engine] = "receiving"
        BY DEF ThreadsInv, ModulesInv
      <3>2. QED BY <2>a, <2>b, <2>c, <2>f, <3>1 DEF ThreadsInv, ModulesInv, linkVars
    <2>5. QED BY <2>1, <2>2, <2>3, <2>4 DEF ThreadsInv
  <1>5. CASE CloseBegins(a)
    <2>1. Types'
      BY <1>0, <1>5
         DEF CloseBegins, ThreadsInv, Types, EnginePlaces, AppPlaces, Go, LeaveModule,
             AskToStop, MayInterfere, linkVars, flagVars, threadVars
    <2>2. EngineFlags'
      BY <1>0, <1>5, <2>1
         DEF CloseBegins, ThreadsInv, Types, EngineFlags, AppWaits, ModulesInv, Closing,
             AppPlaces, Go, LeaveModule, AskToStop, MayInterfere, linkVars, flagVars, threadVars
    <2>3. AppWaits'
      BY <1>0, <1>5, <2>1
         DEF CloseBegins, ThreadsInv, Types, EngineFlags, AppWaits, ModulesInv, Closing,
             AppPlaces, Go, LeaveModule, AskToStop, MayInterfere, linkVars, flagVars, threadVars
    <2>4. ModulesInv'
      BY <1>0, <1>5, <2>1
         DEF CloseBegins, ThreadsInv, Types, EngineFlags, AppWaits, ModulesInv, Closing,
             AppPlaces, Go, LeaveModule, AskToStop, MayInterfere, linkVars, flagVars, threadVars
    <2>5. QED BY <2>1, <2>2, <2>3, <2>4 DEF ThreadsInv
  <1>6. CASE CloseSetsState(a)
    <2>a. PICK p \in {"deleting", "stopWait"} : place' = [place EXCEPT ![a] = p]
      BY <1>6 DEF CloseSetsState, AskToStop, Go
    <2>b. PICK r \in {resumeAt, [resumeAt EXCEPT ![a] = "deleting"]} : resumeAt' = r
      BY <1>6 DEF CloseSetsState, AskToStop
    <2>c. /\ place' \in [Threads -> EnginePlaces \cup AppPlaces]
          /\ place'[Engine] = place[Engine] /\ \A t \in Apps : place'[t] = p
      BY <1>0, <2>a DEF ThreadsInv, Types, AppPlaces
    <2>d. resumeAt' \in [Threads -> {"idle", "deleting"}]
      BY <2>b DEF ThreadsInv, Types
    <2>e. p \in AppPlaces
      BY DEF AppPlaces
    <2>1. Types'
      BY <1>6, <2>c, <2>d, <2>e DEF CloseSetsState, AskToStop, ThreadsInv, Types, linkVars
    <2>2. EngineFlags'
      BY <1>0, <1>6, <2>1
         DEF CloseSetsState, ThreadsInv, Types, EngineFlags, AppWaits, ModulesInv, Closing,
             AppPlaces, Go, LeaveModule, AskToStop, MayInterfere, linkVars, flagVars, threadVars
    <2>3. AppWaits'
      <3>1. /\ ~style.closesOnStop /\ style' = style
            /\ place[Engine] # "starting" /\ place[Engine] \notin Closing
        BY <1>0, <1>6 DEF CloseSetsState, ThreadsInv, EngineFlags, AppWaits, Closing
      <3>2. CASE stopped
        <4>1. /\ p = "deleting" /\ stopped'
          BY <1>6, <2>a, <2>c, <3>2 DEF CloseSetsState, AskToStop, Go, ThreadsInv, Types
        <4>2. place[Engine] \in {"notRunning", "stopActions", "ended"}
          BY <1>6, <3>1, <3>2 DEF CloseSetsState, ThreadsInv, Types, EnginePlaces, AppWaits, Closing
        <4>3. QED BY <2>c, <3>1, <4>1, <4>2 DEF AppWaits
      <3>3. CASE ~stopped
        <4>1. p = "stopWait"
          BY <1>6, <2>c, <3>3 DEF CloseSetsState, AskToStop, Go, ThreadsInv, Types
        <4>2. QED BY <2>c, <3>1, <4>1 DEF AppWaits, Closing
      <3>4. QED BY <3>2, <3>3
    <2>4. ModulesInv'
      BY <1>0, <1>6, <2>1
         DEF CloseSetsState, ThreadsInv, Types, EngineFlags, AppWaits, ModulesInv, Closing,
             AppPlaces, Go, LeaveModule, AskToStop, MayInterfere, linkVars, flagVars, threadVars
    <2>5. QED BY <2>1, <2>2, <2>3, <2>4 DEF ThreadsInv
  <1>7. CASE CloseDeletes(a)
    <2>1. Types'
      BY <1>0, <1>7
         DEF CloseDeletes, ThreadsInv, Types, EngineFlags, AppWaits, ModulesInv, Closing,
             AppPlaces, EnginePlaces, Go, LeaveModule, AskToStop, MayInterfere, linkVars,
             flagVars, threadVars
    <2>2. EngineFlags'
      BY <1>0, <1>7, <2>1
         DEF CloseDeletes, ThreadsInv, Types, EngineFlags, AppWaits, ModulesInv, Closing,
             AppPlaces, Go, LeaveModule, AskToStop, MayInterfere, linkVars, flagVars, threadVars
    <2>3. AppWaits'
      BY <1>0, <1>7, <2>1
         DEF CloseDeletes, ThreadsInv, Types, EngineFlags, AppWaits, ModulesInv, Closing,
             AppPlaces, Go, LeaveModule, AskToStop, MayInterfere, linkVars, flagVars, threadVars
    <2>4. ModulesInv'
      BY <1>0, <1>7, <2>1
         DEF CloseDeletes, ThreadsInv, Types, EngineFlags, AppWaits, ModulesInv, Closing,
             AppPlaces, Go, LeaveModule, AskToStop, MayInterfere, linkVars, flagVars, threadVars
    <2>5. QED BY <2>1, <2>2, <2>3, <2>4 DEF ThreadsInv
  <1>8. CASE CloseClears(a)
    <2>a. /\ place' = [place EXCEPT ![a] = "idle"] /\ module' = 0 /\ peerUp' = FALSE
          /\ UNCHANGED <<style, linkState, opened, deleted, stopped, hasStopped, actionsRun,
                         stopActions, resumeAt, inUse, runs>>
      BY <1>0, <1>8 DEF CloseClears, Go
    <2>c. /\ place' \in [Threads -> EnginePlaces \cup AppPlaces]
          /\ place'[Engine] = place[Engine] /\ \A t \in Apps : place'[t] = "idle"
      BY <1>0, <2>a DEF ThreadsInv, Types, AppPlaces
    <2>e. "idle" \in AppPlaces
      BY DEF AppPlaces
    <2>1. Types'
      BY <2>a, <2>c, <2>e DEF ThreadsInv, Types
    <2>2. EngineFlags'
      BY <1>0, <1>8, <2>1
         DEF CloseClears, ThreadsInv, Types, EngineFlags, AppWaits, ModulesInv, Closing,
             AppPlaces, Go, LeaveModule, AskToStop, MayInterfere, linkVars, flagVars, threadVars
    <2>3. AppWaits'
      BY <1>0, <1>8, <2>1
         DEF CloseClears, ThreadsInv, Types, EngineFlags, AppWaits, ModulesInv, Closing,
             AppPlaces, Go, LeaveModule, AskToStop, MayInterfere, linkVars, flagVars, threadVars
    <2>4. ModulesInv'
      BY <1>0, <1>8, <2>1
         DEF CloseClears, ThreadsInv, Types, EngineFlags, AppWaits, ModulesInv, Closing,
             AppPlaces, Go, LeaveModule, AskToStop, MayInterfere, linkVars, flagVars, threadVars
    <2>5. QED BY <2>1, <2>2, <2>3, <2>4 DEF ThreadsInv
  <1>9. QED BY <1>1, <1>2, <1>3, <1>4, <1>5, <1>6, <1>7, <1>8

\* The engine's thread: run(), its stop actions and the close() among them.
LEMMA EngineSteps ==
    ASSUME OnePatientThread, ThreadsInv,
           \/ RunBegins \/ ReceiveBegins \/ ReceiveTimesOutAgain \/ ReceiveDisconnected
           \/ CommandArrives \/ RunEnds \/ StopActionsRun \/ ThreadEnds \/ LinkBreaks
           \/ StopReturns(Engine) \/ CloseSetsState(Engine) \/ CloseDeletes(Engine)
           \/ CloseClears(Engine)
    PROVE  ThreadsInv'
  <1> USE DEF Threads
  <1>0. Engine \notin Apps /\ style.patient /\ (\A t, u \in Apps : t = u) /\ MaxModules \in Nat
    BY Bounds DEF OnePatientThread, ThreadsInv, Types
  <1>1. CASE RunBegins
    <2>1. Types'
      BY <1>0, <1>1
         DEF RunBegins, ThreadsInv, Types, EnginePlaces, AppPlaces, Go, LeaveModule, AskToStop,
             MayInterfere, linkVars, flagVars, threadVars
    <2>2. EngineFlags'
      BY <1>0, <1>1, <2>1
         DEF RunBegins, ThreadsInv, Types, EngineFlags, AppWaits, ModulesInv, Closing,
             AppPlaces, Go, LeaveModule, AskToStop, MayInterfere, linkVars, flagVars, threadVars
    <2>3. AppWaits'
      BY <1>0, <1>1, <2>1
         DEF RunBegins, ThreadsInv, Types, EngineFlags, AppWaits, ModulesInv, Closing,
             AppPlaces, Go, LeaveModule, AskToStop, MayInterfere, linkVars, flagVars, threadVars
    <2>4. ModulesInv'
      BY <1>0, <1>1, <2>1
         DEF RunBegins, ThreadsInv, Types, EngineFlags, AppWaits, ModulesInv, Closing,
             AppPlaces, Go, LeaveModule, AskToStop, MayInterfere, linkVars, flagVars, threadVars
    <2>5. QED BY <2>1, <2>2, <2>3, <2>4 DEF ThreadsInv
  <1>2. CASE ReceiveBegins
    <2>1. Types'
      BY <1>0, <1>2
         DEF ReceiveBegins, ThreadsInv, Types, EnginePlaces, AppPlaces, Go, LeaveModule,
             AskToStop, MayInterfere, linkVars, flagVars, threadVars
    <2>2. EngineFlags'
      BY <1>0, <1>2, <2>1
         DEF ReceiveBegins, ThreadsInv, Types, EngineFlags, AppWaits, ModulesInv, Closing,
             AppPlaces, Go, LeaveModule, AskToStop, MayInterfere, linkVars, flagVars, threadVars
    <2>3. AppWaits'
      BY <1>0, <1>2, <2>1
         DEF ReceiveBegins, ThreadsInv, Types, EngineFlags, AppWaits, ModulesInv, Closing,
             AppPlaces, Go, LeaveModule, AskToStop, MayInterfere, linkVars, flagVars, threadVars
    <2>4. ModulesInv'
      BY <1>0, <1>2, <2>1
         DEF ReceiveBegins, ThreadsInv, Types, EngineFlags, AppWaits, ModulesInv, Closing,
             AppPlaces, Go, LeaveModule, AskToStop, MayInterfere, linkVars, flagVars, threadVars
    <2>5. QED BY <2>1, <2>2, <2>3, <2>4 DEF ThreadsInv
  <1>3. CASE ReceiveTimesOutAgain
    <2>1. Types'
      BY <1>0, <1>3
         DEF ReceiveTimesOutAgain, ThreadsInv, Types, EnginePlaces, AppPlaces, Go, LeaveModule,
             AskToStop, MayInterfere, linkVars, flagVars, threadVars
    <2>2. EngineFlags'
      BY <1>0, <1>3, <2>1
         DEF ReceiveTimesOutAgain, ThreadsInv, Types, EngineFlags, AppWaits, ModulesInv,
             Closing, AppPlaces, Go, LeaveModule, AskToStop, MayInterfere, linkVars, flagVars,
             threadVars
    <2>3. AppWaits'
      BY <1>0, <1>3, <2>1
         DEF ReceiveTimesOutAgain, ThreadsInv, Types, EngineFlags, AppWaits, ModulesInv,
             Closing, AppPlaces, Go, LeaveModule, AskToStop, MayInterfere, linkVars, flagVars,
             threadVars
    <2>4. ModulesInv'
      BY <1>0, <1>3, <2>1
         DEF ReceiveTimesOutAgain, ThreadsInv, Types, EngineFlags, AppWaits, ModulesInv,
             Closing, AppPlaces, Go, LeaveModule, AskToStop, MayInterfere, linkVars, flagVars,
             threadVars
    <2>5. QED BY <2>1, <2>2, <2>3, <2>4 DEF ThreadsInv
  <1>4. CASE ReceiveDisconnected
    <2>1. Types'
      BY <1>0, <1>4
         DEF ReceiveDisconnected, ThreadsInv, Types, EnginePlaces, AppPlaces, Go, LeaveModule,
             AskToStop, MayInterfere, linkVars, flagVars, threadVars
    <2>2. EngineFlags'
      BY <1>0, <1>4, <2>1
         DEF ReceiveDisconnected, ThreadsInv, Types, EngineFlags, AppWaits, ModulesInv, Closing,
             AppPlaces, Go, LeaveModule, AskToStop, MayInterfere, linkVars, flagVars, threadVars
    <2>3. AppWaits'
      BY <1>0, <1>4, <2>1
         DEF ReceiveDisconnected, ThreadsInv, Types, EngineFlags, AppWaits, ModulesInv, Closing,
             AppPlaces, Go, LeaveModule, AskToStop, MayInterfere, linkVars, flagVars, threadVars
    <2>4. ModulesInv'
      BY <1>0, <1>4, <2>1
         DEF ReceiveDisconnected, ThreadsInv, Types, EngineFlags, AppWaits, ModulesInv, Closing,
             AppPlaces, Go, LeaveModule, AskToStop, MayInterfere, linkVars, flagVars, threadVars
    <2>5. QED BY <2>1, <2>2, <2>3, <2>4 DEF ThreadsInv
  <1>5. CASE CommandArrives
    <2>1. Types'
      BY <1>0, <1>5
         DEF CommandArrives, ThreadsInv, Types, EnginePlaces, AppPlaces, Go, LeaveModule,
             AskToStop, MayInterfere, linkVars, flagVars, threadVars
    <2>2. EngineFlags'
      BY <1>0, <1>5, <2>1
         DEF CommandArrives, ThreadsInv, Types, EngineFlags, AppWaits, ModulesInv, Closing,
             AppPlaces, Go, LeaveModule, AskToStop, MayInterfere, linkVars, flagVars, threadVars
    <2>3. AppWaits'
      BY <1>0, <1>5, <2>1
         DEF CommandArrives, ThreadsInv, Types, EngineFlags, AppWaits, ModulesInv, Closing,
             AppPlaces, Go, LeaveModule, AskToStop, MayInterfere, linkVars, flagVars, threadVars
    <2>4. ModulesInv'
      BY <1>0, <1>5, <2>1
         DEF CommandArrives, ThreadsInv, Types, EngineFlags, AppWaits, ModulesInv, Closing,
             AppPlaces, Go, LeaveModule, AskToStop, MayInterfere, linkVars, flagVars, threadVars
    <2>5. QED BY <2>1, <2>2, <2>3, <2>4 DEF ThreadsInv
  <1>6. CASE RunEnds
    <2>1. Types'
      BY <1>0, <1>6
         DEF RunEnds, ThreadsInv, Types, EnginePlaces, AppPlaces, Go, LeaveModule, AskToStop,
             MayInterfere, linkVars, flagVars, threadVars
    <2>2. EngineFlags'
      BY <1>0, <1>6, <2>1
         DEF RunEnds, ThreadsInv, Types, EngineFlags, AppWaits, ModulesInv, Closing, AppPlaces,
             Go, LeaveModule, AskToStop, MayInterfere, linkVars, flagVars, threadVars
    <2>3. AppWaits'
      BY <1>0, <1>6, <2>1
         DEF RunEnds, ThreadsInv, Types, EngineFlags, AppWaits, ModulesInv, Closing, AppPlaces,
             Go, LeaveModule, AskToStop, MayInterfere, linkVars, flagVars, threadVars
    <2>4. ModulesInv'
      BY <1>0, <1>6, <2>1
         DEF RunEnds, ThreadsInv, Types, EngineFlags, AppWaits, ModulesInv, Closing, AppPlaces,
             Go, LeaveModule, AskToStop, MayInterfere, linkVars, flagVars, threadVars
    <2>5. QED BY <2>1, <2>2, <2>3, <2>4 DEF ThreadsInv
  <1>7. CASE StopActionsRun
    <2>a. PICK p \in {"closing", "ended"} : place' = [place EXCEPT ![Engine] = p]
      BY <1>7 DEF StopActionsRun, Go
    <2>c. /\ place' \in [Threads -> EnginePlaces \cup AppPlaces]
          /\ place'[Engine] = p /\ \A t \in Apps : place'[t] = place[t]
      BY <1>0, <2>a DEF ThreadsInv, Types, EnginePlaces
    <2>e. p \in EnginePlaces /\ stopActions = 0
      BY <1>7 DEF StopActionsRun, EnginePlaces, ThreadsInv, EngineFlags
    <2>f. actionsRun' \in BOOLEAN /\ stopActions' \in {0, 1}
      <3>1. actionsRun \in BOOLEAN
        BY DEF ThreadsInv, Types
      <3>2. CASE UNCHANGED <<actionsRun, stopActions>>
        BY <2>e, <3>1, <3>2
      <3>3. CASE /\ actionsRun' = TRUE
                 /\ stopActions' = IF actionsRun THEN stopActions ELSE stopActions + 1
        <4>1. stopActions' = 0 \/ stopActions' = 1
          BY <2>e, <3>3
        <4>2. QED BY <3>3, <4>1
      <3>4. QED BY <1>7, <3>2, <3>3 DEF StopActionsRun
    <2>1. Types'
      BY <1>7, <2>c, <2>e, <2>f DEF StopActionsRun, ThreadsInv, Types, linkVars
    <2>2. EngineFlags'
      BY <1>0, <1>7, <2>1
         DEF StopActionsRun, ThreadsInv, Types, EngineFlags, AppWaits, ModulesInv, Closing,
             AppPlaces, Go, LeaveModule, AskToStop, MayInterfere, linkVars, flagVars, threadVars
    <2>3. AppWaits'
      BY <1>0, <1>7, <2>1
         DEF StopActionsRun, ThreadsInv, Types, EngineFlags, AppWaits, ModulesInv, Closing,
             AppPlaces, Go, LeaveModule, AskToStop, MayInterfere, linkVars, flagVars, threadVars
    <2>4. ModulesInv'
      BY <1>0, <1>7, <2>1
         DEF StopActionsRun, ThreadsInv, Types, EngineFlags, AppWaits, ModulesInv, Closing,
             AppPlaces, Go, LeaveModule, AskToStop, MayInterfere, linkVars, flagVars, threadVars
    <2>5. QED BY <2>1, <2>2, <2>3, <2>4 DEF ThreadsInv
  <1>8. CASE ThreadEnds
    <2>1. Types'
      BY <1>0, <1>8
         DEF ThreadEnds, ThreadsInv, Types, EnginePlaces, AppPlaces, Go, LeaveModule, AskToStop,
             MayInterfere, linkVars, flagVars, threadVars
    <2>2. EngineFlags'
      BY <1>0, <1>8, <2>1
         DEF ThreadEnds, ThreadsInv, Types, EngineFlags, AppWaits, ModulesInv, Closing,
             AppPlaces, Go, LeaveModule, AskToStop, MayInterfere, linkVars, flagVars, threadVars
    <2>3. AppWaits'
      BY <1>0, <1>8, <2>1
         DEF ThreadEnds, ThreadsInv, Types, EngineFlags, AppWaits, ModulesInv, Closing,
             AppPlaces, Go, LeaveModule, AskToStop, MayInterfere, linkVars, flagVars, threadVars
    <2>4. ModulesInv'
      BY <1>0, <1>8, <2>1
         DEF ThreadEnds, ThreadsInv, Types, EngineFlags, AppWaits, ModulesInv, Closing,
             AppPlaces, Go, LeaveModule, AskToStop, MayInterfere, linkVars, flagVars, threadVars
    <2>5. QED BY <2>1, <2>2, <2>3, <2>4 DEF ThreadsInv
  <1>9. CASE LinkBreaks
    <2>1. Types'
      BY <1>0, <1>9
         DEF LinkBreaks, ThreadsInv, Types, EnginePlaces, AppPlaces, Go, LeaveModule, AskToStop,
             MayInterfere, linkVars, flagVars, threadVars
    <2>2. EngineFlags'
      BY <1>0, <1>9, <2>1
         DEF LinkBreaks, ThreadsInv, Types, EngineFlags, AppWaits, ModulesInv, Closing,
             AppPlaces, Go, LeaveModule, AskToStop, MayInterfere, linkVars, flagVars, threadVars
    <2>3. AppWaits'
      BY <1>0, <1>9, <2>1
         DEF LinkBreaks, ThreadsInv, Types, EngineFlags, AppWaits, ModulesInv, Closing,
             AppPlaces, Go, LeaveModule, AskToStop, MayInterfere, linkVars, flagVars, threadVars
    <2>4. ModulesInv'
      BY <1>0, <1>9, <2>1
         DEF LinkBreaks, ThreadsInv, Types, EngineFlags, AppWaits, ModulesInv, Closing,
             AppPlaces, Go, LeaveModule, AskToStop, MayInterfere, linkVars, flagVars, threadVars
    <2>5. QED BY <2>1, <2>2, <2>3, <2>4 DEF ThreadsInv
  <1>10. CASE StopReturns(Engine)
    BY <1>10 DEF StopReturns, ThreadsInv, Types, EnginePlaces
  <1>11. CASE CloseSetsState(Engine)
    <2>1. Types'
      BY <1>0, <1>11
         DEF CloseSetsState, ThreadsInv, Types, EngineFlags, AppWaits, ModulesInv, Closing,
             AppPlaces, EnginePlaces, Go, LeaveModule, AskToStop, MayInterfere, linkVars,
             flagVars, threadVars
    <2>2. EngineFlags'
      BY <1>0, <1>11, <2>1
         DEF CloseSetsState, ThreadsInv, Types, EngineFlags, AppWaits, ModulesInv, Closing,
             AppPlaces, Go, LeaveModule, AskToStop, MayInterfere, linkVars, flagVars, threadVars
    <2>3. AppWaits'
      BY <1>0, <1>11, <2>1
         DEF CloseSetsState, ThreadsInv, Types, EngineFlags, AppWaits, ModulesInv, Closing,
             AppPlaces, Go, LeaveModule, AskToStop, MayInterfere, linkVars, flagVars, threadVars
    <2>4. ModulesInv'
      BY <1>0, <1>11, <2>1
         DEF CloseSetsState, ThreadsInv, Types, EngineFlags, AppWaits, ModulesInv, Closing,
             AppPlaces, Go, LeaveModule, AskToStop, MayInterfere, linkVars, flagVars, threadVars
    <2>5. QED BY <2>1, <2>2, <2>3, <2>4 DEF ThreadsInv
  <1>12. CASE CloseDeletes(Engine)
    <2>1. Types'
      BY <1>0, <1>12
         DEF CloseDeletes, ThreadsInv, Types, EngineFlags, AppWaits, ModulesInv, Closing,
             AppPlaces, EnginePlaces, Go, LeaveModule, AskToStop, MayInterfere, linkVars,
             flagVars, threadVars
    <2>2. EngineFlags'
      BY <1>0, <1>12, <2>1
         DEF CloseDeletes, ThreadsInv, Types, EngineFlags, AppWaits, ModulesInv, Closing,
             AppPlaces, Go, LeaveModule, AskToStop, MayInterfere, linkVars, flagVars, threadVars
    <2>3. AppWaits'
      BY <1>0, <1>12, <2>1
         DEF CloseDeletes, ThreadsInv, Types, EngineFlags, AppWaits, ModulesInv, Closing,
             AppPlaces, Go, LeaveModule, AskToStop, MayInterfere, linkVars, flagVars, threadVars
    <2>4. ModulesInv'
      BY <1>0, <1>12, <2>1
         DEF CloseDeletes, ThreadsInv, Types, EngineFlags, AppWaits, ModulesInv, Closing,
             AppPlaces, Go, LeaveModule, AskToStop, MayInterfere, linkVars, flagVars, threadVars
    <2>5. QED BY <2>1, <2>2, <2>3, <2>4 DEF ThreadsInv
  <1>13. CASE CloseClears(Engine)
    <2>a. /\ place' = [place EXCEPT ![Engine] = "ended"] /\ module' = 0 /\ peerUp' = FALSE
          /\ actionsRun' = TRUE /\ stopActions' = stopActions + 1 /\ place[Engine] = "clearing"
          /\ UNCHANGED <<style, linkState, opened, deleted, stopped, hasStopped, resumeAt,
                         inUse, runs>>
      BY <1>0, <1>13 DEF CloseClears, Go
    <2>c. /\ place' \in [Threads -> EnginePlaces \cup AppPlaces]
          /\ place'[Engine] = "ended" /\ \A t \in Apps : place'[t] = place[t]
      BY <1>0, <2>a DEF ThreadsInv, Types, EnginePlaces
    <2>e. "ended" \in EnginePlaces /\ stopActions = 0
      BY <2>a DEF EnginePlaces, ThreadsInv, EngineFlags, Closing
    <2>f. stopActions' = 1
      BY <2>a, <2>e
    <2>1. Types'
      BY <2>a, <2>c, <2>e, <2>f DEF ThreadsInv, Types
    <2>2. EngineFlags'
      BY <1>0, <1>13, <2>1
         DEF CloseClears, ThreadsInv, Types, EngineFlags, AppWaits, ModulesInv, Closing,
             AppPlaces, Go, LeaveModule, AskToStop, MayInterfere, linkVars, flagVars, threadVars
    <2>3. AppWaits'
      BY <1>0, <1>13, <2>1
         DEF CloseClears, ThreadsInv, Types, EngineFlags, AppWaits, ModulesInv, Closing,
             AppPlaces, Go, LeaveModule, AskToStop, MayInterfere, linkVars, flagVars, threadVars
    <2>4. ModulesInv'
      BY <1>0, <1>13, <2>1
         DEF CloseClears, ThreadsInv, Types, EngineFlags, AppWaits, ModulesInv, Closing,
             AppPlaces, Go, LeaveModule, AskToStop, MayInterfere, linkVars, flagVars, threadVars
    <2>5. QED BY <2>1, <2>2, <2>3, <2>4 DEF ThreadsInv
  <1>14. QED BY <1>1, <1>2, <1>3, <1>4, <1>5, <1>6, <1>7, <1>8, <1>9, <1>10, <1>11, <1>12, <1>13


\* The threads and the modules, through every step.
THEOREM ThreadsAndModules ==
    ASSUME OnePatientThread
    PROVE  LifeSpec => []ThreadsInv
  <1> USE DEF Threads
  <1>1. LifeInit => ThreadsInv
    <2> SUFFICES ASSUME LifeInit PROVE ThreadsInv
      OBVIOUS
    <2>1. /\ Engine \notin Apps /\ MaxModules \in Nat
      BY Bounds
    <2>2. /\ place \in [Threads -> EnginePlaces \cup AppPlaces]
          /\ place[Engine] = "notRunning" /\ \A t \in Apps : place[t] = "idle"
          /\ resumeAt \in [Threads -> {"idle", "deleting"}] /\ inUse \in [Threads -> Nat]
          /\ inUse[Engine] = 0
      BY <2>1 DEF LifeInit, EnginePlaces, AppPlaces
    <2>3. Types
      <3>1. /\ style \in Styles /\ linkState \in {"Closed", "Opened"}
            /\ opened \in 0 .. MaxModules /\ module \in {0, opened}
            /\ runs \in Nat /\ stopActions \in {0, 1}
        BY <2>1 DEF LifeInit
      <3>2. deleted \in [1 .. MaxModules -> {0, 1}]
        BY DEF LifeInit
      <3>3. {stopped, hasStopped, actionsRun, peerUp} \subseteq BOOLEAN
        BY DEF LifeInit
      <3>4. place[Engine] \in EnginePlaces /\ \A t \in Apps : place[t] \in AppPlaces
        BY <2>2 DEF EnginePlaces, AppPlaces
      <3>5. QED BY ONLY <2>2, <3>1, <3>2, <3>3, <3>4 DEF Types
    <2>4. EngineFlags /\ AppWaits /\ ModulesInv
      BY <2>1, <2>2 DEF LifeInit, EngineFlags, AppWaits, ModulesInv, Closing
    <2>5. QED BY <2>3, <2>4 DEF ThreadsInv
  <1>2. ThreadsInv /\ [LifeNext]_lifeVars => ThreadsInv'
    <2> SUFFICES ASSUME ThreadsInv, [LifeNext]_lifeVars
                 PROVE  ThreadsInv'
      OBVIOUS
    <2>1. CASE \E t \in Apps : Open(t) \/ Start(t) \/ Stop(t) \/ CloseBegins(t) \/ CloseStep(t)
      BY <2>1, ApplicationSteps DEF CloseStep
    <2>2. CASE EngineStep \/ LinkBreaks
      BY <2>2, EngineSteps DEF EngineStep, CloseStep
    <2>3. CASE (\E i \in 1 .. MaxCommands : ProcessStep(i)) \/ UNCHANGED lifeVars
      <3>1. UNCHANGED <<style, linkVars, flagVars, threadVars, runs, stopActions>>
        BY <2>3 DEF ProcessStep, ActionThrows, ActionReplies, ReplyLeaves, lifeVars
      <3>2. QED
        BY <3>1 DEF ThreadsInv, Types, EngineFlags, AppWaits, ModulesInv, linkVars, flagVars,
                    threadVars
    <2>4. QED BY <2>1, <2>2, <2>3 DEF LifeNext
  <1>3. QED BY <1>1, <1>2, PTL DEF LifeSpec

\* close() deletes a module only when the engine's thread has left it: with an
\* application of one thread the engine never receives on a deleted one.
THEOREM EngineNeverReceivesOnDeleted ==
    ASSUME OnePatientThread
    PROVE  LifeSpec => []EngineReceivesOnLiveModule
  <1>1. ThreadsInv => EngineReceivesOnLiveModule
    <2> SUFFICES ASSUME ThreadsInv, inUse[Engine] # 0
                 PROVE  deleted[inUse[Engine]] = 0
      BY DEF EngineReceivesOnLiveModule
    <2>1. place[Engine] = "receiving" /\ inUse[Engine] = module /\ module # 0
      BY DEF ThreadsInv, ModulesInv
    <2>2. \A t \in Threads : place[t] # "clearing"
      BY <2>1 DEF ThreadsInv, AppWaits, Threads
    <2>3. QED BY <2>1, <2>2 DEF ThreadsInv, ModulesInv
  <1>2. QED BY <1>1, ThreadsAndModules, PTL

\* Whatever starts, stops, breaks and closes in which order, the pointer of
\* close() leads to a live module or to none, no module is deleted twice, every
\* run's stop actions run once, and no command is lost or leaves its range.
THEOREM LifeIsSound ==
    ASSUME OnePatientThread, RangesLeaveRoom
    PROVE  LifeSpec => []LifeInv
  <1>1. CommandsInv /\ ThreadsInv => LifeTypeOK
    <2> SUFFICES ASSUME CommandsInv, ThreadsInv PROVE LifeTypeOK
      OBVIOUS
    <2>1. counters \in [received : 0 .. MaxCommands, answered : 0 .. MaxCommands,
                        discarded : 0 .. MaxCommands, aborted : 0 .. MaxCommands]
      <3>1. Cardinality(Running) \in Nat
        BY RunningIsFinite
      <3>2. counters.received = counters.answered + counters.discarded + counters.aborted
                                + Cardinality(Running)
        BY DEF CommandsInv, EveryCommandAccountedFor
      <3>3. /\ counters.received \in 0 .. MaxCommands /\ counters.answered \in 0 .. MaxCommands
            /\ counters.discarded \in 0 .. MaxCommands /\ counters.aborted \in 0 .. MaxCommands
        BY ONLY <3>1, <3>2, CommandsInv, CountsAreNumbers, Bounds
      <3>4. counters = [received |-> counters.received, answered |-> counters.answered,
                        discarded |-> counters.discarded, aborted |-> counters.aborted]
        BY CountsAreNumbers
      <3>5. QED BY ONLY <3>3, <3>4
    <2>2. /\ module \in 0 .. MaxModules /\ deleted \in [1 .. MaxModules -> Nat]
          /\ linkState \in {"Closed", "Opened"}
          /\ {stopped, hasStopped, actionsRun, peerUp} \subseteq BOOLEAN
      BY Bounds DEF ThreadsInv, Types
    <2>3. /\ place[Engine] \in {"notRunning", "starting", "loop", "receiving", "ending",
                                "stopActions", "closing", "stopWait", "deleting", "clearing",
                                "ended"}
          /\ \A t \in Apps : place[t] \in {"idle", "stopWait", "closing", "deleting", "clearing"}
      BY DEF ThreadsInv, Types, EnginePlaces, AppPlaces
    <2>4. QED BY <2>1, <2>2, <2>3 DEF LifeTypeOK
  <1>2. ThreadsInv => NoDanglingModule
    <2> SUFFICES ASSUME ThreadsInv PROVE NoDanglingModule
      OBVIOUS
    <2>1. \A m \in DOMAIN deleted : deleted[m] <= 1
      BY DEF ThreadsInv, Types
    <2>2. QED BY <2>1 DEF ThreadsInv, ModulesInv, NoDanglingModule
  <1>3. ThreadsInv => StopActionsOncePerRun
    BY DEF ThreadsInv, Types, EngineFlags, StopActionsOncePerRun
  <1>4. CommandsInv => EveryCommandAccountedFor
    BY DEF CommandsInv
  <1>5. LifeSpec => []CommandsStayInRange
    BY AccessesStayInRange
  <1>6. LifeSpec => []ThreadsInv
    BY ThreadsAndModules
  <1>7. QED BY <1>1, <1>2, <1>3, <1>4, <1>5, <1>6, CommandsAlwaysCounted, PTL DEF LifeInv
=============================================================================
