--------------------------- MODULE RMAPEngineLife ---------------------------
(***************************************************************************)
(* The life of an RMAPEngine on a SpaceWireIFOverTCP: opening the link,    *)
(* starting the engine's thread, stop() and close() by other threads, the  *)
(* link breaking, the actions run when the engine stops and when the link  *)
(* closes, and the threads that process commands and answer them.          *)
(*                                                                         *)
(* What matters is when close() deletes the SSDTP module, which the        *)
(* engine's thread and the command threads use through a bare pointer: a   *)
(* module is its number, 0 for NULL, and deleted[m] says how often it was  *)
(* deleted.                                                                *)
(***************************************************************************)
EXTENDS RMAPTarget, FiniteSets

CONSTANTS
    Apps,           \* the application's threads
    Styles,         \* [closesOnStop, patient] : what the application is like
    Targets,        \* the registered RMAPTargets
    Commands,       \* the [address, length] a peer's commands may have
    MaxModules,     \* bound: how often the link is opened
    MaxCommands,    \* bound: the commands received
    MaxRuns         \* bound: how often the engine is started

Engine == "engine"
Threads == Apps \cup {Engine}

(* A range of a target and the access of a command are addresses of 32     *)
(* bits, the length of an access is one of 24.                             *)
ASSUME LifeAssumption ==
    /\ Engine \notin Apps
    /\ \A s \in Styles : {s.closesOnStop, s.patient} \subseteq BOOLEAN
    /\ Targets \in Seq(Seq([range : [from : Address, to : Address], action : STRING]))
    /\ Commands \subseteq [address : Address, length : Address]
    /\ {MaxModules, MaxCommands, MaxRuns} \subseteq Nat

VARIABLES
    style,          \* the application's style
    linkState,      \* SpaceWireIF::state
    module,         \* SpaceWireIFOverTCP::ssdtp
    opened,         \* how many modules were made
    deleted,        \* module -> how often it was deleted
    peerUp,         \* whether the peer still holds the current connection
    stopped,        \* RMAPEngine::stopped
    hasStopped,     \* RMAPEngine::hasStopped
    actionsRun,     \* RMAPEngine::stopActionsHasBeenExecuted
    place,          \* where each thread is
    resumeAt,           \* where a thread goes on after stop()
    inUse,          \* the module a thread works with
    runs,           \* the times the engine was started
    stopActions,    \* ghost: runs of the stop actions since the engine's start
    processThreads, \* rmapTargetProcessThreads: the threads by their commands' numbers
    counters        \* commands received, answered, discarded, aborted

linkVars == <<linkState, module, opened, deleted, peerUp>>
flagVars == <<stopped, hasStopped, actionsRun>>
threadVars == <<place, resumeAt, inUse>>
lifeVars == <<style, linkVars, flagVars, threadVars, runs, stopActions, processThreads,
              counters>>

Go(t, p) == place' = [place EXCEPT ![t] = p]

(* hasStopped and the engine's other flags: initialize() leaves hasStopped *)
(* as it is.                                                               *)
LifeInit ==
    /\ style \in Styles
    /\ linkState = "Closed" /\ module = 0 /\ opened = 0
    /\ deleted = [m \in 1 .. MaxModules |-> 0] /\ peerUp = FALSE
    /\ stopped = TRUE /\ hasStopped \in BOOLEAN /\ actionsRun = FALSE
    /\ place = [t \in Threads |-> IF t = Engine THEN "notRunning" ELSE "idle"]
    /\ resumeAt = [t \in Threads |-> "idle"] /\ inUse = [t \in Threads |-> 0]
    /\ runs = 0 /\ stopActions = 0
    /\ processThreads = [n \in {} |-> {}]
    /\ counters = [received |-> 0, answered |-> 0, discarded |-> 0, aborted |-> 0]

-----------------------------------------------------------------------------
(* The application opens the link and starts the engine, when it is not    *)
(* open and the engine's last run is over.                                 *)
Open(t) ==
    /\ place[t] = "idle" /\ linkState = "Closed" /\ opened < MaxModules
    /\ place[Engine] = "notRunning"
    /\ \A u \in Apps : place[u] = "idle"
    /\ linkState' = "Opened" /\ opened' = opened + 1 /\ module' = opened + 1
    /\ peerUp' = TRUE
    /\ UNCHANGED <<style, deleted, flagVars, threadVars, runs, stopActions, processThreads,
                   counters>>

Start(t) ==
    /\ place[t] = "idle" /\ linkState = "Opened" /\ runs < MaxRuns
    /\ style.patient => \A u \in Apps : place[u] = "idle"
    /\ place[Engine] = "notRunning" /\ runs' = runs + 1
    /\ Go(Engine, "starting") /\ stopActions' = 0
    /\ UNCHANGED <<style, linkVars, flagVars, resumeAt, inUse, processThreads, counters>>

(* The peer closes the connection, or it breaks.                           *)
LinkBreaks ==
    /\ peerUp /\ peerUp' = FALSE
    /\ UNCHANGED <<style, linkState, module, opened, deleted, flagVars, threadVars, runs,
                   stopActions, processThreads, counters>>

-----------------------------------------------------------------------------
(* stop(): ask, then look every so often whether the engine's thread has   *)
(* ended.  cancelReceive() does nothing on this interface.                 *)

\* Faulty variant: stop() does not wait for the engine's thread.
AskToStopOnly(t, next) == stopped' = TRUE /\ Go(t, next) /\ UNCHANGED resumeAt

AskToStop(t, next) ==
    IF stopped THEN Go(t, next) /\ UNCHANGED <<stopped, resumeAt>>
    ELSE stopped' = TRUE /\ Go(t, "stopWait") /\ resumeAt' = [resumeAt EXCEPT ![t] = next]

MayInterfere == style.patient => place[Engine] # "starting"

Stop(t) ==
    /\ place[t] = "idle" /\ MayInterfere
    /\ AskToStop(t, "idle")
    /\ UNCHANGED <<style, linkVars, hasStopped, actionsRun, inUse, runs, stopActions,
                   processThreads, counters>>

StopReturns(t) ==
    /\ place[t] = "stopWait" /\ hasStopped
    /\ Go(t, resumeAt[t])
    /\ UNCHANGED <<style, linkVars, flagVars, resumeAt, inUse, runs, stopActions, processThreads,
                   counters>>

(* close(), by an application's thread or by the engine's as a stop        *)
(* action: look at the state, set it, run the close actions (the engine's  *)
(* is stop()), delete the module.                                          *)
CloseBegins(t) ==
    /\ t \in Apps /\ place[t] = "idle" /\ MayInterfere /\ ~style.closesOnStop
    /\ Go(t, IF linkState = "Closed" THEN "idle" ELSE "closing")
    /\ UNCHANGED <<style, linkVars, flagVars, resumeAt, inUse, runs, stopActions, processThreads,
                   counters>>

CloseSetsState(t) ==
    /\ place[t] = "closing"
    /\ linkState' = "Closed"
    /\ AskToStop(t, "deleting")
    /\ UNCHANGED <<style, module, opened, deleted, peerUp, hasStopped, actionsRun, inUse, runs,
                   stopActions, processThreads, counters>>

CloseDeletes(t) ==
    /\ place[t] = "deleting"
    /\ deleted' = IF module = 0 THEN deleted ELSE [deleted EXCEPT ![module] = @ + 1]
    /\ Go(t, "clearing")
    /\ UNCHANGED <<style, linkState, module, opened, peerUp, flagVars, resumeAt, inUse, runs,
                   stopActions, processThreads, counters>>

CloseClears(t) ==
    /\ place[t] = "clearing"
    /\ module' = 0 /\ peerUp' = FALSE
    /\ IF t = Engine THEN Go(t, "ended") /\ actionsRun' = TRUE /\ stopActions' = stopActions + 1
       ELSE Go(t, "idle") /\ UNCHANGED <<actionsRun, stopActions>>
    /\ UNCHANGED <<style, linkState, opened, deleted, stopped, hasStopped, resumeAt, inUse, runs,
                   processThreads, counters>>

-----------------------------------------------------------------------------

(* The engine's thread: run().                                             *)
RunBegins ==
    /\ place[Engine] = "starting"
    /\ stopped' = FALSE /\ hasStopped' = FALSE /\ actionsRun' = FALSE
    /\ Go(Engine, "loop")
    /\ UNCHANGED <<style, linkVars, resumeAt, inUse, runs, stopActions, processThreads, counters>>

(* The head of the loop and of receive(): a module that is NULL ends it.   *)
ReceiveBegins ==
    /\ place[Engine] = "loop"
    /\ IF stopped \/ module = 0
       THEN Go(Engine, "ending") /\ UNCHANGED inUse
       ELSE Go(Engine, "receiving") /\ inUse' = [inUse EXCEPT ![Engine] = module]
    /\ UNCHANGED <<style, linkVars, flagVars, resumeAt, runs, stopActions, processThreads,
                   counters>>

LeaveModule(p) ==
    Go(Engine, p) /\ inUse' = [inUse EXCEPT ![Engine] = 0]

ReceiveTimesOutAgain ==
    /\ place[Engine] = "receiving" /\ LeaveModule("loop")
    /\ UNCHANGED <<style, linkVars, flagVars, resumeAt, runs, stopActions, processThreads,
                   counters>>

ReceiveDisconnected ==
    /\ place[Engine] = "receiving" /\ ~peerUp /\ LeaveModule("ending")
    /\ UNCHANGED <<style, linkVars, flagVars, resumeAt, runs, stopActions, processThreads,
                   counters>>

(* rmapCommandPacketReceived(): the threads that have completed are        *)
(* collected first; a command for no target is counted and dropped.        *)
Running == {n \in DOMAIN processThreads : processThreads[n].place # "completed"}
Collected == [n \in Running |-> processThreads[n]]

CommandArrives ==
    /\ place[Engine] = "receiving" /\ peerUp /\ counters.received < MaxCommands
    /\ LeaveModule("loop")
    /\ \E command \in Commands :
          LET actions == ActionFor(Targets, command.address, command.length)
          IN IF actions = {}
             THEN /\ processThreads' = Collected
                  /\ counters' = [counters EXCEPT !.received = @ + 1, !.discarded = @ + 1]
             ELSE /\ processThreads' = [n \in Running \cup {counters.received + 1} |->
                         IF n \in Running THEN processThreads[n]
                         ELSE [command |-> command, action |-> CHOOSE a \in actions : TRUE,
                               place |-> "processing", module |-> 0]]
                  /\ counters' = [counters EXCEPT !.received = @ + 1]
    /\ UNCHANGED <<style, linkVars, flagVars, resumeAt, runs, stopActions>>

RunEnds ==
    /\ place[Engine] = "ending" /\ stopped' = TRUE
    /\ Go(Engine, "stopActions")
    /\ UNCHANGED <<style, linkVars, hasStopped, actionsRun, resumeAt, inUse, runs, stopActions,
                   processThreads, counters>>

(* invokeRegisteredStopActions(): the tutorials' action closes the link.   *)
StopActionsRun ==
    /\ place[Engine] = "stopActions"
    /\ IF ~actionsRun /\ style.closesOnStop /\ linkState = "Opened"
       THEN Go(Engine, "closing") /\ UNCHANGED <<actionsRun, stopActions>>
       ELSE /\ Go(Engine, "ended") /\ actionsRun' = TRUE
            /\ stopActions' = IF actionsRun THEN stopActions ELSE stopActions + 1
    /\ UNCHANGED <<style, linkVars, stopped, hasStopped, resumeAt, inUse, runs, processThreads,
                   counters>>

\* Faulty variant: hasStopped is set only when the stop actions closed the link.
ThreadEndsSilently ==
    /\ place[Engine] = "ended" /\ hasStopped' = (hasStopped \/ linkState = "Closed")
    /\ Go(Engine, "notRunning")
    /\ UNCHANGED <<style, linkVars, stopped, actionsRun, resumeAt, inUse, runs, stopActions,
                   processThreads, counters>>

ThreadEnds ==
    /\ place[Engine] = "ended" /\ hasStopped' = TRUE
    /\ Go(Engine, "notRunning")
    /\ UNCHANGED <<style, linkVars, stopped, actionsRun, resumeAt, inUse, runs, stopActions,
                   processThreads, counters>>

-----------------------------------------------------------------------------
(* RMAPTargetProcessThread::run(): the action may throw; the reply is sent *)
(* through the link as it is by then, asked for or not.                    *)
At(i, p) == i \in DOMAIN processThreads /\ processThreads[i].place = p
ThreadGoes(i, p, m) ==
    processThreads' = [processThreads EXCEPT ![i].place = p, ![i].module = m]

\* Faulty variant: an action that throws is not counted.
ActionThrowsUncounted(i) ==
    /\ At(i, "processing") /\ ThreadGoes(i, "completed", 0)
    /\ UNCHANGED <<style, linkVars, flagVars, threadVars, runs, stopActions, counters>>

ActionThrows(i) ==
    /\ At(i, "processing") /\ ThreadGoes(i, "completed", 0)
    /\ counters' = [counters EXCEPT !.discarded = @ + 1]
    /\ UNCHANGED <<style, linkVars, flagVars, threadVars, runs, stopActions>>

ActionReplies(i) ==
    /\ At(i, "processing")
    /\ IF module = 0
       THEN ThreadGoes(i, "completed", 0) /\ counters' = [counters EXCEPT !.aborted = @ + 1]
       ELSE ThreadGoes(i, "sending", module) /\ UNCHANGED counters
    /\ UNCHANGED <<style, linkVars, flagVars, threadVars, runs, stopActions>>

ReplyLeaves(i) ==
    /\ At(i, "sending") /\ ThreadGoes(i, "completed", 0)
    /\ \/ peerUp /\ counters' = [counters EXCEPT !.answered = @ + 1]
       \/ ~peerUp /\ counters' = [counters EXCEPT !.aborted = @ + 1]
    /\ UNCHANGED <<style, linkVars, flagVars, threadVars, runs, stopActions>>

-----------------------------------------------------------------------------
CloseStep(t) ==
    StopReturns(t) \/ CloseSetsState(t) \/ CloseDeletes(t) \/ CloseClears(t)
EngineStep ==
    \/ RunBegins \/ ReceiveBegins \/ ReceiveTimesOutAgain \/ ReceiveDisconnected
    \/ CommandArrives \/ RunEnds \/ StopActionsRun \/ ThreadEnds
    \/ CloseStep(Engine)
ProcessStep(i) == ActionThrows(i) \/ ActionReplies(i) \/ ReplyLeaves(i)

LifeNext ==
    \/ \E t \in Apps : Open(t) \/ Start(t) \/ Stop(t) \/ CloseBegins(t) \/ CloseStep(t)
    \/ EngineStep \/ LinkBreaks
    \/ \E i \in 1 .. MaxCommands : ProcessStep(i)

LifeFairness ==
    /\ WF_lifeVars(EngineStep)
    /\ \A t \in Apps : WF_lifeVars(CloseStep(t))
LifeSpec == LifeInit /\ [][LifeNext]_lifeVars /\ LifeFairness

-----------------------------------------------------------------------------
(* Properties.                                                             *)
LifeTypeOK ==
    /\ linkState \in {"Closed", "Opened"} /\ module \in 0 .. MaxModules
    /\ deleted \in [1 .. MaxModules -> Nat]
    /\ {stopped, hasStopped, actionsRun, peerUp} \subseteq BOOLEAN
    /\ place[Engine] \in {"notRunning", "starting", "loop", "receiving", "ending",
                          "stopActions", "closing", "stopWait", "deleting", "clearing", "ended"}
    /\ \A t \in Apps : place[t] \in {"idle", "stopWait", "closing", "deleting", "clearing"}
    /\ counters \in [received : 0 .. MaxCommands, answered : 0 .. MaxCommands,
                     discarded : 0 .. MaxCommands, aborted : 0 .. MaxCommands]

(* close() deletes the module only when the engine's thread has left it:   *)
(* the thread never receives on a module that is gone.                     *)
EngineReceivesOnLiveModule ==
    inUse[Engine] # 0 => deleted[inUse[Engine]] = 0

(* No module is deleted twice, and once no thread is in close() any more   *)
(* the pointer does not lead to a deleted one.                             *)
NoDanglingModule ==
    /\ \A m \in DOMAIN deleted : deleted[m] <= 1
    /\ module # 0 /\ (\A t \in Threads : place[t] # "clearing") => deleted[module] = 0

(* The stop actions run once for every run of the engine, and have run     *)
(* before stop() returns.                                                  *)
StopActionsOncePerRun ==
    /\ stopActions <= 1
    /\ runs > 0 /\ place[Engine] \in {"ended", "notRunning"} => stopActions = 1

(* Every command received is answered, or counted as discarded or aborted, *)
(* or still with its thread.                                               *)
EveryCommandAccountedFor ==
    counters.received = counters.answered + counters.discarded + counters.aborted
                        + Cardinality(Running)

(* The addresses an access touches.                                        *)
Touched(command) ==
    {(command.address + k) % AddressSpace : k \in 0 .. command.length - 1}

(* A command is given only to an action one of whose ranges holds every    *)
(* address it touches, sums that wrap around included.                     *)
CommandsStayInRange ==
    \A i \in DOMAIN processThreads :
        \E k \in DOMAIN Targets : \E j \in DOMAIN Targets[k] :
            /\ Targets[k][j].action = processThreads[i].action
            /\ Touched(processThreads[i].command) \subseteq
                   Targets[k][j].range.from .. Targets[k][j].range.to

(* Whatever starts, stops, breaks and closes in which order: the pointer    *)
(* of close() leads to a live module or to none, every run's stop actions   *)
(* run once, and no command of a target is lost or leaves its range.        *)
LifeInv ==
    /\ LifeTypeOK /\ NoDanglingModule /\ StopActionsOncePerRun
    /\ EveryCommandAccountedFor /\ CommandsStayInRange

(* A thread that waits for the engine to stop comes back.                  *)
StopAlwaysReturns ==
    \A t \in Apps : place[t] = "stopWait" ~> place[t] # "stopWait"

-----------------------------------------------------------------------------
(* What the proofs ask of an instance.                                     *)

(* Who stops and closes, and what it keeps to: one thread of the           *)
(* application, which does not call stop() or close() while the engine's   *)
(* thread is on its way into run().                                        *)
OnePatientThread ==
    /\ \A t, u \in Apps : t = u
    /\ \A s \in Styles : s.patient

(* Every range leaves out at least as many addresses as the longest        *)
(* command has: then an access that wraps around the address space does    *)
(* not begin and end in one range.                                         *)
RangesLeaveRoom ==
    \A k \in DOMAIN Targets : \A j \in DOMAIN Targets[k] : \A c \in Commands :
        Targets[k][j].range.to - Targets[k][j].range.from + c.length <= AddressSpace
=============================================================================
