----------------------------- MODULE RMAPEngine -----------------------------
(***************************************************************************)
(* The initiator side of an RMAP node: the threads that call RMAPInitiator *)
(* (src/includes/RMAPInitiator.hh), the receive loop of the RMAPEngine     *)
(* they share (src/includes/RMAPEngine.hh), and the RMAPTransaction each   *)
(* initiator owns (src/includes/RMAPTransaction.hh), which both sides read *)
(* and write.  A step is a stretch of one thread's code between two points *)
(* where the other threads can observe or disturb it.  The network and the *)
(* targets are the environment: a command that asks for a reply is in      *)
(* flight until its reply reaches the engine or is lost.                   *)
(***************************************************************************)
EXTENDS TransactionIDs, FiniteSets

CONSTANTS Ops,               \* the calls the application makes
          ManualInitiators,  \* initiators on which setTransactionID() was called
          ManualTID,         \* the ID each of them specified
          Faults,            \* what the environment does wrong
          ReplyKinds,        \* "ok", or "error": a status other than success, or too much data
          LateReplies,       \* FALSE: a caller only gives up when no reply is on its way
          MaxCommands        \* bound: calls per initiator

AllOps    == {"read", "write", "writeNoReply", "nonblockingRead"}
AllFaults == {"loss", "sendFails", "stop", "disconnect"}

ASSUME EnvironmentAssumption ==
    /\ Ops \subseteq AllOps
    /\ ManualInitiators \subseteq Initiators
    /\ ManualTID \in [ManualInitiators -> TIDs]
    /\ Faults \subseteq AllFaults
    /\ ReplyKinds \subseteq {"ok", "error"}
    /\ LateReplies \in BOOLEAN
    /\ MaxCommands \in Nat

VARIABLES
    pc,       \* where the thread calling initiator i is
    op,       \* the call it is making
    seq,      \* how many commands i has begun (numbers its commands and replies)
    tid,      \* the transaction ID in i's commandPacket
    tstate,   \* i's RMAPTransaction::state
    treply,   \* i's RMAPTransaction::replyPacket
    reply,    \* i's RMAPInitiator::replyPacket
    result,   \* how i's last call ended
    engine,   \* where the engine's thread is
    stopped,  \* RMAPEngine::stopped
    hand,     \* the transaction and reply rmapReplyPacketReceived() works on
    network,  \* commands whose reply may still arrive
    live,     \* reply packets handed to a transaction and not deleted
    orphans   \* IDs left registered by an initiateTransaction() that threw

tidVars    == <<available, transactions>>
callVars   == <<pc, op, seq, tid, result>>
engineVars == <<engine, stopped, hand>>
vars == <<available, transactions, pc, op, seq, tid, tstate, treply, reply,
          result, engine, stopped, hand, network, live, orphans>>

Commands == [from : Initiators, seq : 0 .. MaxCommands, tid : TIDs]
Packets  == [from : Initiators, seq : 0 .. MaxCommands, kind : ReplyKinds]
NoPacket == [from |-> NoOne]
NoHand   == [owner |-> NoOne, packet |-> NoPacket]

TransactionStates == {"NotInitiated", "Initiated", "CommandSent", "ReplyReceived"}
Stages == {"idle", "getTID", "register", "send", "sent", "checkSent", "markSent",
           "wait", "pending", "take", "clear", "examine", "cancel", "abandon", "crashed"}
Results == {"none", "ok", "error", "timeout", "notInitiated", "cancelled"}

ExpectsReply(i) == op[i] # "writeNoReply"
Manual(i) == i \in ManualInitiators

Init ==
    /\ InitTIDs
    /\ pc = [i \in Initiators |-> "idle"]
    /\ op = [i \in Initiators |-> "read"]
    /\ seq = [i \in Initiators |-> 0]
    /\ tid = [i \in Initiators |-> 0]
    /\ tstate = [i \in Initiators |-> "NotInitiated"]
    /\ treply = [i \in Initiators |-> NoPacket]
    /\ reply = [i \in Initiators |-> NoPacket]
    /\ result = [i \in Initiators |-> "none"]
    /\ engine = "off"
    /\ stopped = TRUE
    /\ hand = NoHand
    /\ network = {}
    /\ live = {}
    /\ orphans = {}

-----------------------------------------------------------------------------
(* The calling thread of initiator i: initiateTransaction()                *)

\* Faulty variant: the pointer to the last reply is dropped and not deleted.
CallForgetsReply(i) ==
    /\ pc[i] = "idle"
    /\ seq[i] < MaxCommands
    /\ \E o \in Ops : op' = [op EXCEPT ![i] = o]
    /\ seq' = [seq EXCEPT ![i] = @ + 1]
    /\ reply' = [reply EXCEPT ![i] = NoPacket]
    /\ tstate' = [tstate EXCEPT ![i] = "NotInitiated"]
    /\ pc' = [pc EXCEPT ![i] = "getTID"]
    /\ UNCHANGED <<tidVars, engineVars, tid, treply, result, network, live, orphans>>

\* The reply kept from the last call is deleted, the command filled in, and
\* initiateTransaction() resets the state before it looks for an ID.
Call(i) ==
    /\ pc[i] = "idle"
    /\ seq[i] < MaxCommands
    /\ \E o \in Ops : op' = [op EXCEPT ![i] = o]
    /\ seq' = [seq EXCEPT ![i] = @ + 1]
    /\ live' = live \ {reply[i]}
    /\ reply' = [reply EXCEPT ![i] = NoPacket]
    /\ tstate' = [tstate EXCEPT ![i] = "NotInitiated"]
    /\ pc' = [pc EXCEPT ![i] = "getTID"]
    /\ UNCHANGED <<tidVars, engineVars, tid, treply, result, network, orphans>>

\* An exception leaves initiateTransaction(): the reads catch it and reset the
\* state, write() lets it through.
Throw(i) ==
    /\ tstate' = [tstate EXCEPT ![i] =
                    IF op[i] \in {"read", "nonblockingRead"} THEN "NotInitiated" ELSE @]
    /\ result' = [result EXCEPT ![i] = "notInitiated"]
    /\ pc' = [pc EXCEPT ![i] = "idle"]
    /\ UNCHANGED <<op, seq, treply, reply, engineVars, network, live>>

GetNextAvailableTransactionID(i) ==
    /\ pc[i] = "getTID"
    /\ ~Manual(i)
    /\ available # <<>>
    /\ tid' = [tid EXCEPT ![i] = Head(available)]
    /\ PopFrontTransactionID
    /\ pc' = [pc EXCEPT ![i] = "register"]
    /\ UNCHANGED <<op, seq, result, tstate, treply, reply, engineVars, network, live, orphans>>

TooManyConcurrentTransactions(i) ==
    /\ pc[i] = "getTID"
    /\ ~Manual(i)
    /\ available = <<>>
    /\ Throw(i)
    /\ UNCHANGED <<tidVars, tid, orphans>>

\* Faulty variant: the ID is not looked up.
CheckForgotten(i) ==
    /\ pc[i] = "getTID"
    /\ Manual(i)
    /\ tid' = [tid EXCEPT ![i] = ManualTID[i]]
    /\ pc' = [pc EXCEPT ![i] = "register"]
    /\ UNCHANGED <<tidVars, op, seq, result, tstate, treply, reply, engineVars, network,
                   live, orphans>>

\* The specified ID is only looked up here; it is taken in a later critical section.
CheckSpecifiedTransactionID(i) ==
    /\ pc[i] = "getTID"
    /\ Manual(i)
    /\ IsTransactionIDAvailable(ManualTID[i])
    /\ tid' = [tid EXCEPT ![i] = ManualTID[i]]
    /\ pc' = [pc EXCEPT ![i] = "register"]
    /\ UNCHANGED <<tidVars, op, seq, result, tstate, treply, reply, engineVars, network,
                   live, orphans>>

SpecifiedTransactionIDIsAlreadyInUse(i) ==
    /\ pc[i] = "getTID"
    /\ Manual(i)
    /\ ~IsTransactionIDAvailable(ManualTID[i])
    /\ Throw(i)
    /\ UNCHANGED <<tidVars, tid, orphans>>

\* With a reply to come the transaction is registered; without, the ID goes
\* back to the list before the command is sent.
Register(i) ==
    /\ pc[i] = "register"
    /\ IF ExpectsReply(i)
       THEN RegisterTransaction(tid[i], i)
       ELSE PushBackUtilizedTransactionID(tid[i])
    /\ pc' = [pc EXCEPT ![i] = "send"]
    /\ UNCHANGED <<op, seq, tid, result, tstate, treply, reply, engineVars, network, live,
                   orphans>>

\* isStarted(), then sendPacket() under the transaction's stateMutex, which
\* stays locked (pc = "sent") until the state is set.
SendPacket(i) ==
    /\ pc[i] = "send"
    /\ ~stopped
    /\ network' = IF ExpectsReply(i)
                  THEN network \cup {[from |-> i, seq |-> seq[i], tid |-> tid[i]]}
                  ELSE network
    /\ pc' = [pc EXCEPT ![i] = "sent"]
    /\ UNCHANGED <<tidVars, op, seq, tid, result, tstate, treply, reply, engineVars, live,
                   orphans>>

\* RMAPEngineIsNotStarted, or PacketWasNotSentCorrectly.  A registered ID stays so.
SendFails(i) ==
    /\ pc[i] = "send"
    /\ stopped \/ "sendFails" \in Faults
    /\ Throw(i)
    /\ orphans' = IF ExpectsReply(i) THEN orphans \cup {tid[i]} ELSE orphans
    /\ UNCHANGED <<tidVars, tid>>

SetInitiated(i) ==
    /\ pc[i] = "sent"
    /\ tstate' = [tstate EXCEPT ![i] = "Initiated"]
    /\ pc' = [pc EXCEPT ![i] = CASE op[i] = "read"            -> "wait"
                                 [] op[i] = "write"           -> "markSent"
                                 [] op[i] = "writeNoReply"    -> "checkSent"
                                 [] op[i] = "nonblockingRead" -> "pending"]
    /\ UNCHANGED <<tidVars, op, seq, tid, result, treply, reply, engineVars, network, live,
                   orphans>>

-----------------------------------------------------------------------------
(* The calling thread: read(), write() and the non-blocking read after     *)
(* initiateTransaction() has returned                                      *)

\* write() without a reply: the state says whether the command was sent.
ReturnWithoutReply(i) ==
    /\ pc[i] = "checkSent"
    /\ LET sent == tstate[i] = "Initiated" IN
         /\ tstate' = [tstate EXCEPT ![i] = IF sent THEN @ ELSE "NotInitiated"]
         /\ result' = [result EXCEPT ![i] = IF sent THEN "ok" ELSE "notInitiated"]
    /\ pc' = [pc EXCEPT ![i] = "idle"]
    /\ UNCHANGED <<tidVars, op, seq, tid, treply, reply, engineVars, network, live, orphans>>

\* write() with a reply sets the state once more, outside stateMutex.
SetCommandSent(i) ==
    /\ pc[i] = "markSent"
    /\ tstate' = [tstate EXCEPT ![i] = "CommandSent"]
    /\ pc' = [pc EXCEPT ![i] = "wait"]
    /\ UNCHANGED <<tidVars, op, seq, tid, result, treply, reply, engineVars, network, live,
                   orphans>>

\* The reply to i's current command is on the network, in the engine's hands or
\* already attached to the transaction.
ReplyOnItsWay(i) ==
    \/ \E c \in network : c.from = i /\ c.seq = seq[i]
    \/ hand.owner = i
    \/ tstate[i] = "ReplyReceived"
MayGiveUp(i) == LateReplies \/ ~ReplyOnItsWay(i)

\* Faulty variant: the state is not looked at after the wait.
WaitReturnsUnchecked(i) ==
    /\ pc[i] = "wait"
    /\ pc' = [pc EXCEPT ![i] = "take"]
    /\ UNCHANGED <<tidVars, op, seq, tid, result, tstate, treply, reply, engineVars, network,
                   live, orphans>>

\* Faulty variant: the wait has no timeout.
WaitReturnsOnSignalOnly(i) ==
    /\ pc[i] = "wait"
    /\ tstate[i] = "ReplyReceived"
    /\ pc' = [pc EXCEPT ![i] = "take"]
    /\ UNCHANGED <<tidVars, op, seq, tid, result, tstate, treply, reply, engineVars, network,
                   live, orphans>>

\* condition.wait() returns, signalled or timed out, and the state decides.
WaitReturns(i) ==
    /\ pc[i] = "wait"
    /\ \/ /\ tstate[i] = "ReplyReceived"
          /\ pc' = [pc EXCEPT ![i] = "take"]
       \/ /\ tstate[i] # "ReplyReceived"
          /\ MayGiveUp(i)
          /\ pc' = [pc EXCEPT ![i] = "cancel"]
    /\ UNCHANGED <<tidVars, op, seq, tid, result, tstate, treply, reply, engineVars, network,
                   live, orphans>>

\* isNonblockingReadCompleted() returned true and getNonblockingReadData() is called.
NonblockingReadCompleted(i) ==
    /\ pc[i] = "pending"
    /\ tstate[i] = "ReplyReceived"
    /\ pc' = [pc EXCEPT ![i] = "take"]
    /\ UNCHANGED <<tidVars, op, seq, tid, result, tstate, treply, reply, engineVars, network,
                   live, orphans>>

TakeReply(i) ==
    /\ pc[i] = "take"
    /\ reply' = [reply EXCEPT ![i] = treply[i]]
    /\ pc' = [pc EXCEPT ![i] = IF op[i] = "nonblockingRead" THEN "examine" ELSE "clear"]
    /\ UNCHANGED <<tidVars, op, seq, tid, result, tstate, treply, engineVars, network, live,
                   orphans>>

ClearReply(i) ==
    /\ pc[i] = "clear"
    /\ treply' = [treply EXCEPT ![i] = NoPacket]
    /\ pc' = [pc EXCEPT ![i] = "examine"]
    /\ UNCHANGED <<tidVars, op, seq, tid, result, tstate, reply, engineVars, network, live,
                   orphans>>

\* The status is read through the pointer: a reply that is NULL or was deleted
\* is undefined behaviour, and the model stops the thread there.
ExamineReply(i) ==
    /\ pc[i] = "examine"
    /\ \/ /\ reply[i] \in live
          /\ result' = [result EXCEPT ![i] = reply[i].kind]
          /\ IF reply[i].kind = "ok"
             THEN UNCHANGED <<reply, live>>
             ELSE /\ live' = live \ {reply[i]}
                  /\ reply' = [reply EXCEPT ![i] = NoPacket]
          /\ tstate' = [tstate EXCEPT ![i] =
                          IF op[i] = "nonblockingRead" THEN @ ELSE "NotInitiated"]
          /\ pc' = [pc EXCEPT ![i] = "idle"]
       \/ /\ reply[i] \notin live
          /\ pc' = [pc EXCEPT ![i] = "crashed"]
          /\ UNCHANGED <<reply, live, tstate, result>>
    /\ UNCHANGED <<tidVars, op, seq, tid, treply, engineVars, network, orphans>>

\* Faulty variant: the transaction that timed out stays registered.
CancelNothing(i) ==
    /\ pc[i] = "cancel"
    /\ pc' = [pc EXCEPT ![i] = "abandon"]
    /\ UNCHANGED <<tidVars, op, seq, tid, result, tstate, treply, reply, engineVars, network,
                   live, orphans>>

\* cancelTransaction(): whatever is registered under the command's ID is erased.
Cancel(i) ==
    /\ pc[i] = "cancel"
    /\ DeleteTransactionIDFromDB(tid[i])
    /\ pc' = [pc EXCEPT ![i] = "abandon"]
    /\ UNCHANGED <<op, seq, tid, result, tstate, treply, reply, engineVars, network, live,
                   orphans>>

ThrowTimeout(i) ==
    /\ pc[i] = "abandon"
    /\ tstate' = [tstate EXCEPT ![i] = IF op[i] = "write" THEN "Initiated" ELSE "NotInitiated"]
    /\ result' = [result EXCEPT ![i] = "timeout"]
    /\ pc' = [pc EXCEPT ![i] = "idle"]
    /\ UNCHANGED <<tidVars, op, seq, tid, treply, reply, engineVars, network, live, orphans>>

\* cancelNonblockingRead() cancels the transaction and leaves its state alone.
CancelNonblockingRead(i) ==
    /\ pc[i] = "pending"
    /\ MayGiveUp(i)
    /\ DeleteTransactionIDFromDB(tid[i])
    /\ result' = [result EXCEPT ![i] = "cancelled"]
    /\ pc' = [pc EXCEPT ![i] = "idle"]
    /\ UNCHANGED <<op, seq, tid, tstate, treply, reply, engineVars, network, live, orphans>>

-----------------------------------------------------------------------------
(* The engine's thread: run()                                              *)

callerVars == <<callVars, reply>>

StartEngine ==
    /\ engine = "off"
    /\ engine' = "receive"
    /\ stopped' = FALSE
    /\ UNCHANGED <<tidVars, callerVars, tstate, treply, hand, network, live, orphans>>

\* stop() from another thread: the loop sees it before it receives again.
StopEngine ==
    /\ "stop" \in Faults
    /\ ~stopped
    /\ stopped' = TRUE
    /\ UNCHANGED <<tidVars, callerVars, tstate, treply, engine, hand, network, live, orphans>>

\* The loop ends because it was stopped, or because receive() failed.
LeaveReceiveLoop ==
    /\ engine = "receive"
    /\ stopped \/ "disconnect" \in Faults
    /\ engine' = "off"
    /\ stopped' = TRUE
    /\ UNCHANGED <<tidVars, callerVars, tstate, treply, hand, network, live, orphans>>

\* Where the loop is after a packet: while (!stopped).
AfterPacket == IF stopped THEN "off" ELSE "receive"

\* A reply under an ID nobody is registered for joins discardedRMAPReplyPackets.
DiscardReply(c) ==
    /\ engine = "receive"
    /\ IsTransactionIDAvailable(c.tid)
    /\ network' = network \ {c}
    /\ engine' = AfterPacket
    /\ UNCHANGED <<tidVars, callerVars, tstate, treply, stopped, hand, live, orphans>>

ResolveTransaction(c) ==
    /\ engine = "receive"
    /\ ~IsTransactionIDAvailable(c.tid)
    /\ network' = network \ {c}
    /\ \E k \in ReplyKinds :
         LET packet == [from |-> c.from, seq |-> c.seq, kind |-> k] IN
           /\ hand' = [owner |-> transactions[c.tid], packet |-> packet]
           /\ live' = live \cup {packet}
    /\ DeleteTransactionIDFromDB(c.tid)
    /\ engine' = "setReply"
    /\ UNCHANGED <<callerVars, tstate, treply, stopped, orphans>>

SetReplyPacket ==
    /\ engine = "setReply"
    /\ treply' = [treply EXCEPT ![hand.owner] = hand.packet]
    /\ engine' = "setState"
    /\ UNCHANGED <<tidVars, callerVars, tstate, stopped, hand, network, live, orphans>>

\* Faulty variant: the state is set without locking stateMutex.
SetReplyReceivedUnlocked ==
    /\ engine = "setState"
    /\ tstate' = [tstate EXCEPT ![hand.owner] = "ReplyReceived"]
    /\ hand' = NoHand
    /\ engine' = AfterPacket
    /\ UNCHANGED <<tidVars, callerVars, treply, stopped, network, live, orphans>>

\* Waits for the owner's stateMutex.  The signal that follows only ends a wait
\* that the timeout would end as well.
SetReplyReceived ==
    /\ engine = "setState"
    /\ pc[hand.owner] # "sent"
    /\ tstate' = [tstate EXCEPT ![hand.owner] = "ReplyReceived"]
    /\ hand' = NoHand
    /\ engine' = AfterPacket
    /\ UNCHANGED <<tidVars, callerVars, treply, stopped, network, live, orphans>>

\* The command or its reply is lost, or the target never answers.
LoseReply(c) ==
    /\ "loss" \in Faults
    /\ network' = network \ {c}
    /\ UNCHANGED <<tidVars, callerVars, tstate, treply, engineVars, live, orphans>>

-----------------------------------------------------------------------------
\* What the thread inside a call does next; the application decides the rest.
CallStep(i) ==
    \/ GetNextAvailableTransactionID(i)
    \/ TooManyConcurrentTransactions(i)
    \/ CheckSpecifiedTransactionID(i)
    \/ SpecifiedTransactionIDIsAlreadyInUse(i)
    \/ Register(i)
    \/ SendPacket(i)
    \/ SendFails(i)
    \/ SetInitiated(i)
    \/ ReturnWithoutReply(i)
    \/ SetCommandSent(i)
    \/ WaitReturns(i)
    \/ TakeReply(i)
    \/ ClearReply(i)
    \/ ExamineReply(i)
    \/ Cancel(i)
    \/ ThrowTimeout(i)

ApplicationStep(i) == Call(i) \/ NonblockingReadCompleted(i) \/ CancelNonblockingRead(i)

EngineStep ==
    \/ \E c \in network : DiscardReply(c) \/ ResolveTransaction(c)
    \/ SetReplyPacket
    \/ SetReplyReceived

Next ==
    \/ \E i \in Initiators : CallStep(i) \/ ApplicationStep(i)
    \/ EngineStep
    \/ StartEngine
    \/ StopEngine
    \/ LeaveReceiveLoop
    \/ \E c \in network : LoseReply(c)

Spec == Init /\ [][Next]_vars

\* A thread inside a call keeps running: its wait has a timeout, and the only
\* locks it takes are held for a bounded time.
FairSpec == Spec /\ \A i \in Initiators : WF_vars(CallStep(i))

-----------------------------------------------------------------------------
(* Properties                                                              *)

\* Every variable has its type; a packet number never exceeds the bound.
TypeOK ==
    /\ available \in Seq(TIDs)
    /\ transactions \in [TIDs -> Initiators \cup {NoOne}]
    /\ pc \in [Initiators -> Stages]
    /\ op \in [Initiators -> AllOps]
    /\ seq \in [Initiators -> 0 .. MaxCommands]
    /\ tid \in [Initiators -> TIDs]
    /\ tstate \in [Initiators -> TransactionStates]
    /\ treply \in [Initiators -> Packets \cup {NoPacket}]
    /\ reply \in [Initiators -> Packets \cup {NoPacket}]
    /\ result \in [Initiators -> Results]
    /\ engine \in {"off", "receive", "setReply", "setState"}
    /\ stopped \in BOOLEAN
    /\ hand \in [owner : Initiators, packet : Packets] \cup {NoHand}
    /\ (engine \in {"setReply", "setState"}) <=> (hand # NoHand)
    /\ network \subseteq Commands
    /\ live \subseteq Packets
    /\ orphans \subseteq TIDs

\* Initiator i has taken ID t off the list and has not yet registered it or
\* put it back.
Holds(i, t) == pc[i] = "register" /\ tid[i] = t

Listed(t) == \E k \in 1 .. Len(available) : available[k] = t

\* When every ID is assigned by the engine, whatever is lost, late or fails,
\* each ID is in exactly one place: once in the available list, or registered
\* to a transaction, or in the hands of one initiator between
\* getNextAvailableTransactionID() and its registration.  No ID is ever given
\* to two transactions, and none is lost from the database.
TIDConservation ==
    /\ \A j, k \in 1 .. Len(available) : available[j] = available[k] => j = k
    /\ \A i, j \in Initiators, t \in TIDs : Holds(i, t) /\ Holds(j, t) => i = j
    /\ \A t \in TIDs :
         /\ Listed(t) \/ transactions[t] # NoOne \/ \E i \in Initiators : Holds(i, t)
         /\ ~(Listed(t) /\ transactions[t] # NoOne)
         /\ ~(Listed(t) /\ \E i \in Initiators : Holds(i, t))
         /\ ~(transactions[t] # NoOne /\ \E i \in Initiators : Holds(i, t))

\* IDs are reused in the order of their release.  As long as fewer calls are made
\* than there are IDs, even a reply that comes after its caller gave up is never
\* resolved to another initiator's transaction: it is discarded.
NoCrossTalk == hand # NoHand => hand.packet.from = hand.owner

\* The reply a call accepts is the reply to the command that call sent, not to
\* an earlier command of the same RMAPTransaction or to another initiator's.
\* It presumes that a caller gives up only when no reply is on its way.
ReplyMatchesCommand ==
    \A i \in Initiators :
        (pc[i] = "idle" /\ result[i] = "ok" /\ op[i] # "writeNoReply") =>
            /\ reply[i] # NoPacket
            /\ reply[i].from = i
            /\ reply[i].seq = seq[i]

\* A reply pointer that a call is about to follow is neither NULL nor deleted,
\* although the engine's thread sets it outside every lock.
TakesLivePacket ==
    \A i \in Initiators : pc[i] \in {"clear", "examine"} => reply[i] \in live

\* No reply packet is forgotten: each one handed to a transaction and not yet
\* deleted can be reached from the engine, its transaction or its initiator.
NoPacketLeak ==
    \A p \in live : p = hand.packet \/ \E i \in Initiators : p \in {treply[i], reply[i]}

\* An ID stays registered only while the call it was assigned to is in progress,
\* unless sending the command failed: initiateTransaction() then leaves it behind.
OnlyFailedSendsLeakTIDs ==
    \A t \in TIDs :
        transactions[t] # NoOne =>
            \/ t \in orphans
            \/ /\ tid[transactions[t]] = t
               /\ pc[transactions[t]] \in {"send", "sent", "markSent", "wait", "pending", "cancel"}

\* A call that gives up cancels its own transaction and nobody else's.
CancelsOwnTransaction ==
    \A i \in Initiators :
        pc[i] = "cancel" => transactions[tid[i]] \in {i, NoOne}

\* A read ends in Timeout only if its reply was lost: one that the engine has
\* attached to the transaction is neither overwritten by the caller's own state
\* changes nor missed because the signal came before the wait.
ReadTimesOutOnlyWithoutReply ==
    \A i \in Initiators :
        (op[i] = "read" /\ pc[i] \in {"cancel", "abandon"}) =>
            ~(treply[i] # NoPacket /\ treply[i].from = i /\ treply[i].seq = seq[i])

\* write() says of its timeout path that "reply packet is not created": when it
\* cancels, the engine has not attached the reply to this command.
WriteTimesOutOnlyWithoutReply ==
    \A i \in Initiators :
        (op[i] = "write" /\ pc[i] \in {"cancel", "abandon"}) =>
            ~(treply[i] # NoPacket /\ treply[i].from = i /\ treply[i].seq = seq[i])

\* initiateTransaction() checks that a specified ID is not "already used by another
\* transaction", and assigns only unused ones (RMAPEngine.hh:514-534): unless two
\* initiators specify the same ID, a registration replaces no other, not even one a
\* failed send has left behind.
RegistersUnusedID ==
    \A i \in Initiators : pc[i] = "register" => transactions[tid[i]] = NoOne

\* Every call returns: whatever is lost, and when the IDs have run out.  (A
\* thread that followed a bad pointer counts as ended.)
EveryCallReturns ==
    \A i \in Initiators :
        pc[i] = "getTID" ~> pc[i] \in {"idle", "pending", "crashed"}

=============================================================================
