-------------------------- MODULE RMAPEngine_proofs --------------------------
(***************************************************************************)
(* Theorems about RMAPEngine, for any initiators, number of transaction    *)
(* IDs, number of calls and faults of the environment.                     *)
(***************************************************************************)
EXTENDS RMAPEngine, TLAPS

\* The constants are used in every step.
USE NoOneAssumption, NTIDsAssumption, EnvironmentAssumption

-----------------------------------------------------------------------------
(* Type correctness                                                        *)

\* The database operators keep the types of the list and of the map.
LEMMA PopFrontType ==
    ASSUME available \in Seq(TIDs), available # <<>>, PopFrontTransactionID
    PROVE  /\ Head(available) \in TIDs
           /\ available' \in Seq(TIDs)
           /\ transactions' = transactions
  BY DEF PopFrontTransactionID

\* Putting an ID back, likewise.
LEMMA PushBackType ==
    ASSUME available \in Seq(TIDs), NEW t \in TIDs, PushBackUtilizedTransactionID(t)
    PROVE  /\ available' \in Seq(TIDs)
           /\ transactions' = transactions
  BY DEF PushBackUtilizedTransactionID

\* And deleting a transaction.
LEMMA DeleteType ==
    ASSUME available \in Seq(TIDs), transactions \in [TIDs -> Initiators \cup {NoOne}],
           NEW t \in TIDs, DeleteTransactionIDFromDB(t)
    PROVE  /\ available' \in Seq(TIDs)
           /\ transactions' \in [TIDs -> Initiators \cup {NoOne}]
  BY DEF DeleteTransactionIDFromDB

\* Every step of a thread inside a call keeps the types.
LEMMA CallStepType ==
    ASSUME TypeOK, NEW i \in Initiators, CallStep(i)
    PROVE  TypeOK'
  <1> USE DEF TypeOK, Stages, Results, TransactionStates, AllOps, callVars, engineVars, tidVars
  <1>1. CASE GetNextAvailableTransactionID(i)
    <2>1. /\ Head(available) \in TIDs
          /\ available' \in Seq(TIDs)
          /\ transactions' = transactions
      BY <1>1, PopFrontType DEF GetNextAvailableTransactionID
    <2>2. QED BY <1>1, <2>1 DEF GetNextAvailableTransactionID
  <1>2. CASE TooManyConcurrentTransactions(i)
    BY <1>2 DEF TooManyConcurrentTransactions, Throw
  <1>3. CASE CheckSpecifiedTransactionID(i)
    BY <1>3 DEF CheckSpecifiedTransactionID, Manual
  <1>4. CASE SpecifiedTransactionIDIsAlreadyInUse(i)
    BY <1>4 DEF SpecifiedTransactionIDIsAlreadyInUse, Throw
  <1>5. CASE Register(i)
    <2>1. /\ available' \in Seq(TIDs)
          /\ transactions' \in [TIDs -> Initiators \cup {NoOne}]
      <3>1. CASE ExpectsReply(i)
        BY <1>5, <3>1 DEF Register, RegisterTransaction
      <3>2. CASE ~ExpectsReply(i)
        <4>1. PushBackUtilizedTransactionID(tid[i])
          BY <1>5, <3>2 DEF Register
        <4>2. tid[i] \in TIDs
          OBVIOUS
        <4>3. QED BY <4>1, <4>2, PushBackType
      <3>3. QED BY <3>1, <3>2
    <2>2. QED BY <1>5, <2>1 DEF Register
  <1>6. CASE SendPacket(i)
    BY <1>6 DEF SendPacket, Commands, ExpectsReply
  <1>7. CASE SendFails(i)
    BY <1>7 DEF SendFails, Throw
  <1>8. CASE SetInitiated(i)
    BY <1>8 DEF SetInitiated
  <1>9. CASE ReturnWithoutReply(i)
    BY <1>9 DEF ReturnWithoutReply
  <1>10. CASE SetCommandSent(i)
    BY <1>10 DEF SetCommandSent
  <1>11. CASE WaitReturns(i)
    BY <1>11 DEF WaitReturns
  <1>12. CASE TakeReply(i)
    BY <1>12 DEF TakeReply
  <1>13. CASE ClearReply(i)
    BY <1>13 DEF ClearReply
  <1>14. CASE ExamineReply(i)
    <2>1. CASE reply[i] \in live
      <3>1. reply[i].kind \in Results
        BY <2>1 DEF Packets
      <3>2. /\ live' \in {live, live \ {reply[i]}}
            /\ reply' \in {reply, [reply EXCEPT ![i] = NoPacket]}
            /\ result' = [result EXCEPT ![i] = reply[i].kind]
            /\ tstate' \in {tstate, [tstate EXCEPT ![i] = "NotInitiated"]}
            /\ pc' = [pc EXCEPT ![i] = "idle"]
            /\ UNCHANGED <<available, transactions, op, seq, tid, treply, engine, stopped,
                            hand, network, orphans>>
        <4>1. [tstate EXCEPT ![i] = tstate[i]] = tstate
          OBVIOUS
        <4>2. tstate' \in {tstate, [tstate EXCEPT ![i] = "NotInitiated"]}
          BY <1>14, <2>1, <4>1 DEF ExamineReply
        <4>3. QED BY <1>14, <2>1, <4>2 DEF ExamineReply
      <3>3. result' \in [Initiators -> Results]
        BY <3>1, <3>2
      <3>4. live' \subseteq Packets /\ reply' \in [Initiators -> Packets \cup {NoPacket}]
        BY <3>2
      <3>5. tstate' \in [Initiators -> TransactionStates] /\ pc' \in [Initiators -> Stages]
        BY <3>2
      <3>6. QED BY ONLY TypeOK, <3>2, <3>3, <3>4, <3>5 DEF TypeOK
    <2>2. CASE reply[i] \notin live
      BY <1>14, <2>2 DEF ExamineReply
    <2>3. QED BY <2>1, <2>2
  <1>15. CASE Cancel(i)
    <2>1. /\ available' \in Seq(TIDs)
          /\ transactions' \in [TIDs -> Initiators \cup {NoOne}]
      BY <1>15, DeleteType DEF Cancel
    <2>2. QED BY <1>15, <2>1 DEF Cancel
  <1>16. CASE ThrowTimeout(i)
    BY <1>16 DEF ThrowTimeout
  <1>17. QED
    BY <1>1, <1>2, <1>3, <1>4, <1>5, <1>6, <1>7, <1>8, <1>9, <1>10, <1>11, <1>12, <1>13,
       <1>14, <1>15, <1>16 DEF CallStep

\* The decisions of the application keep the types.
LEMMA ApplicationStepType ==
    ASSUME TypeOK, NEW i \in Initiators, ApplicationStep(i)
    PROVE  TypeOK'
  <1> USE DEF TypeOK, Stages, Results, TransactionStates, AllOps, callVars, engineVars, tidVars
  <1>1. CASE Call(i)
    BY <1>1 DEF Call, NoPacket
  <1>2. CASE NonblockingReadCompleted(i)
    BY <1>2 DEF NonblockingReadCompleted
  <1>3. CASE CancelNonblockingRead(i)
    <2>1. /\ available' \in Seq(TIDs)
          /\ transactions' \in [TIDs -> Initiators \cup {NoOne}]
      BY <1>3, DeleteType DEF CancelNonblockingRead
    <2>2. QED BY <1>3, <2>1 DEF CancelNonblockingRead
  <1>4. QED BY <1>1, <1>2, <1>3 DEF ApplicationStep

\* The engine's thread and the environment keep the types.
LEMMA EngineStepType ==
    ASSUME TypeOK,
           \/ EngineStep
           \/ StartEngine
           \/ StopEngine
           \/ LeaveReceiveLoop
           \/ \E c \in network : LoseReply(c)
    PROVE  TypeOK'
  <1> USE DEF TypeOK, Stages, TransactionStates, callVars, callerVars, engineVars, tidVars
  <1>1. ASSUME NEW c \in network, DiscardReply(c)
        PROVE  TypeOK'
    BY <1>1 DEF DiscardReply, AfterPacket
  <1>2. ASSUME NEW c \in network, ResolveTransaction(c)
        PROVE  TypeOK'
    <2>1. c.tid \in TIDs /\ c.from \in Initiators /\ c.seq \in 0 .. MaxCommands
      BY DEF Commands
    <2>2. /\ available' \in Seq(TIDs)
          /\ transactions' \in [TIDs -> Initiators \cup {NoOne}]
      BY <1>2, <2>1, DeleteType DEF ResolveTransaction
    <2>3. transactions[c.tid] \in Initiators
      BY <1>2, <2>1 DEF ResolveTransaction, IsTransactionIDAvailable
    <2>4. PICK k \in ReplyKinds :
            /\ hand' = [owner |-> transactions[c.tid],
                        packet |-> [from |-> c.from, seq |-> c.seq, kind |-> k]]
            /\ live' = live \cup {[from |-> c.from, seq |-> c.seq, kind |-> k]}
      BY <1>2 DEF ResolveTransaction
    <2>5. [from |-> c.from, seq |-> c.seq, kind |-> k] \in Packets
      BY <2>1 DEF Packets
    <2>6. hand' \in [owner : Initiators, packet : Packets] /\ hand' # NoHand
      BY <2>3, <2>4, <2>5 DEF NoHand
    <2>7. QED BY <1>2, <2>2, <2>4, <2>5, <2>6 DEF ResolveTransaction
  <1>3. CASE SetReplyPacket
    BY <1>3 DEF SetReplyPacket
  <1>4. CASE SetReplyReceived
    BY <1>4 DEF SetReplyReceived, AfterPacket, NoHand
  <1>5. CASE StartEngine
    BY <1>5 DEF StartEngine
  <1>6. CASE StopEngine
    BY <1>6 DEF StopEngine
  <1>7. CASE LeaveReceiveLoop
    BY <1>7 DEF LeaveReceiveLoop
  <1>8. ASSUME NEW c \in network, LoseReply(c)
        PROVE  TypeOK'
    BY <1>8 DEF LoseReply
  <1>9. QED
    BY <1>1, <1>2, <1>3, <1>4, <1>5, <1>6, <1>7, <1>8 DEF EngineStep

\* The variables of the initiators, the engine and the network always have
\* their types: in particular the engine holds a transaction and a reply
\* exactly between resolving the one and marking it ReplyReceived.
THEOREM TypeCorrect == Spec => []TypeOK
  <1>1. Init => TypeOK
    BY DEF Init, InitTIDs, TypeOK, Stages, Results, TransactionStates, AllOps, TIDs,
           Packets, NoPacket, NoHand, Commands
  <1>2. TypeOK /\ [Next]_vars => TypeOK'
    <2> SUFFICES ASSUME TypeOK, [Next]_vars
                 PROVE  TypeOK'
      OBVIOUS
    <2>1. CASE UNCHANGED vars
      BY <2>1 DEF vars, TypeOK
    <2>2. CASE Next
      BY <2>2, CallStepType, ApplicationStepType, EngineStepType DEF Next
    <2>3. QED BY <2>1, <2>2
  <1>3. QED BY <1>1, <1>2, PTL DEF Spec

-----------------------------------------------------------------------------
(* Conservation of transaction IDs                                         *)

\* A step that leaves the database alone and moves no initiator into or out of
\* the stretch where it holds an ID keeps the IDs where they are.
LEMMA ConservationUntouched ==
    ASSUME TIDConservation, UNCHANGED <<available, transactions>>,
           \A i \in Initiators, t \in TIDs : Holds(i, t)' <=> Holds(i, t)
    PROVE  TIDConservation'
  BY DEF TIDConservation, Listed

\* Taking the front ID off the list hands it to the initiator that asks.
LEMMA ConservationPop ==
    ASSUME TypeOK, TIDConservation, NEW i \in Initiators, GetNextAvailableTransactionID(i)
    PROVE  TIDConservation'
  <1> DEFINE h == Head(available)
  <1>1. /\ available \in Seq(TIDs)
        /\ available # <<>>
        /\ Len(available) \in Nat
        /\ Len(available) > 0
        /\ h = available[1]
        /\ h \in TIDs
    BY DEF TypeOK, GetNextAvailableTransactionID
  <1>2. /\ Len(available') = Len(available) - 1
        /\ \A k \in 1 .. Len(available') : available'[k] = available[k + 1]
        /\ transactions' = transactions
    BY <1>1 DEF GetNextAvailableTransactionID, PopFrontTransactionID
  <1>3. /\ ~Holds(i, h)
        /\ \A j \in Initiators, t \in TIDs :
             Holds(j, t)' <=> Holds(j, t) \/ (j = i /\ t = h)
    BY <1>1 DEF Holds, GetNextAvailableTransactionID, TypeOK, Stages
  <1>4. \A t \in TIDs : Listed(t)' <=> Listed(t) /\ t # h
    <2> SUFFICES ASSUME NEW t \in TIDs
                 PROVE  Listed(t)' <=> Listed(t) /\ t # h
      OBVIOUS
    <2>1. ASSUME Listed(t)'
          PROVE  Listed(t) /\ t # h
      <3>1. PICK k \in 1 .. Len(available') : available'[k] = t
        BY <2>1 DEF Listed
      <3>2. k + 1 \in 1 .. Len(available) /\ available[k + 1] = t /\ k + 1 # 1
        BY <1>1, <1>2, <3>1
      <3>3. 1 \in 1 .. Len(available)
        BY <1>1
      <3>4. t # h
        BY <1>1, <3>2, <3>3 DEF TIDConservation
      <3>5. QED BY <3>2, <3>4 DEF Listed
    <2>2. ASSUME Listed(t), t # h
          PROVE  Listed(t)'
      <3>1. PICK k \in 1 .. Len(available) : available[k] = t
        BY <2>2 DEF Listed
      <3>2. k # 1
        BY <1>1, <2>2, <3>1
      <3>3. k - 1 \in 1 .. Len(available') /\ available'[k - 1] = t
        BY <1>1, <1>2, <3>1, <3>2
      <3>4. QED BY <3>3 DEF Listed
    <2>3. QED BY <2>1, <2>2
  <1>5. \A j, k \in 1 .. Len(available') : available'[j] = available'[k] => j = k
    <2> SUFFICES ASSUME NEW j \in 1 .. Len(available'), NEW k \in 1 .. Len(available'),
                        available'[j] = available'[k]
                 PROVE  j = k
      OBVIOUS
    <2>1. /\ j + 1 \in 1 .. Len(available)
          /\ k + 1 \in 1 .. Len(available)
          /\ available[j + 1] = available[k + 1]
      BY <1>1, <1>2
    <2>2. j + 1 = k + 1
      BY <2>1 DEF TIDConservation
    <2>3. QED BY <1>1, <1>2, <2>2
  <1>6. Listed(h)
    BY <1>1 DEF Listed
  <1>7. \A j \in Initiators : ~Holds(j, h)
    BY <1>1, <1>6 DEF TIDConservation
  <1>8. \A j, k \in Initiators, t \in TIDs : Holds(j, t)' /\ Holds(k, t)' => j = k
    BY <1>3, <1>7 DEF TIDConservation
  <1>9. \A t \in TIDs :
          /\ Listed(t)' \/ transactions'[t] # NoOne \/ \E j \in Initiators : Holds(j, t)'
          /\ ~(Listed(t)' /\ transactions'[t] # NoOne)
          /\ ~(Listed(t)' /\ \E j \in Initiators : Holds(j, t)')
          /\ ~(transactions'[t] # NoOne /\ \E j \in Initiators : Holds(j, t)')
    BY <1>1, <1>2, <1>3, <1>4, <1>6 DEF TIDConservation
  <1>10. QED BY <1>5, <1>8, <1>9 DEF TIDConservation

\* Pushing back an ID that is neither listed, nor registered, nor held afterwards,
\* and moving no other ID, keeps every ID in one place.
LEMMA ConservationPushBack ==
    ASSUME TypeOK, TIDConservation, NEW t \in TIDs,
           available' = Append(available, t),
           ~Listed(t),
           transactions'[t] = NoOne,
           \A u \in TIDs \ {t} : transactions'[u] = transactions[u],
           \A i \in Initiators : ~Holds(i, t)',
           \A i \in Initiators, u \in TIDs \ {t} : Holds(i, u)' <=> Holds(i, u)
    PROVE  TIDConservation'
  <1>1. available \in Seq(TIDs) /\ Len(available) \in Nat
    BY DEF TypeOK
  <1>2. /\ Len(available') = Len(available) + 1
        /\ available'[Len(available) + 1] = t
        /\ \A k \in 1 .. Len(available) : available'[k] = available[k]
    BY <1>1
  <1>3. \A u \in TIDs : Listed(u)' <=> Listed(u) \/ u = t
    <2> SUFFICES ASSUME NEW u \in TIDs
                 PROVE  Listed(u)' <=> Listed(u) \/ u = t
      OBVIOUS
    <2>1. Listed(u)' => Listed(u) \/ u = t
      BY <1>1, <1>2 DEF Listed
    <2>2. Listed(u) \/ u = t => Listed(u)'
      BY <1>1, <1>2 DEF Listed
    <2>3. QED BY <2>1, <2>2
  <1>4. \A j, k \in 1 .. Len(available') : available'[j] = available'[k] => j = k
    <2> SUFFICES ASSUME NEW j \in 1 .. Len(available'), NEW k \in 1 .. Len(available'),
                        available'[j] = available'[k]
                 PROVE  j = k
      OBVIOUS
    <2>1. CASE j \in 1 .. Len(available) /\ k \in 1 .. Len(available)
      BY <1>2, <2>1 DEF TIDConservation
    <2>2. CASE j = Len(available) + 1 /\ k \in 1 .. Len(available)
      BY <1>2, <2>2 DEF Listed
    <2>3. CASE j \in 1 .. Len(available) /\ k = Len(available) + 1
      BY <1>2, <2>3 DEF Listed
    <2>4. CASE j = Len(available) + 1 /\ k = Len(available) + 1
      BY <2>4
    <2>5. QED BY <1>1, <1>2, <2>1, <2>2, <2>3, <2>4
  <1>5. \A i, j \in Initiators, u \in TIDs : Holds(i, u)' /\ Holds(j, u)' => i = j
    <2> SUFFICES ASSUME NEW i \in Initiators, NEW j \in Initiators, NEW u \in TIDs,
                        Holds(i, u)', Holds(j, u)'
                 PROVE  i = j
      OBVIOUS
    <2>1. u # t
      OBVIOUS
    <2>2. Holds(i, u) /\ Holds(j, u)
      BY <2>1
    <2>3. QED BY <2>2 DEF TIDConservation
  <1>6. \A u \in TIDs :
          /\ Listed(u)' \/ transactions'[u] # NoOne \/ \E i \in Initiators : Holds(i, u)'
          /\ ~(Listed(u)' /\ transactions'[u] # NoOne)
          /\ ~(Listed(u)' /\ \E i \in Initiators : Holds(i, u)')
          /\ ~(transactions'[u] # NoOne /\ \E i \in Initiators : Holds(i, u)')
    <2> SUFFICES ASSUME NEW u \in TIDs
                 PROVE  /\ Listed(u)' \/ transactions'[u] # NoOne
                                      \/ \E i \in Initiators : Holds(i, u)'
                        /\ ~(Listed(u)' /\ transactions'[u] # NoOne)
                        /\ ~(Listed(u)' /\ \E i \in Initiators : Holds(i, u)')
                        /\ ~(transactions'[u] # NoOne /\ \E i \in Initiators : Holds(i, u)')
      OBVIOUS
    <2>1. CASE u = t
      BY <1>3, <2>1
    <2>2. CASE u # t
      BY <1>3, <2>2 DEF TIDConservation
    <2>3. QED BY <2>1, <2>2
  <1>7. QED BY <1>4, <1>5, <1>6 DEF TIDConservation

\* Deleting an ID from the database puts it back on the list if it was registered.
LEMMA ConservationDelete ==
    ASSUME TypeOK, TIDConservation, NEW t \in TIDs, DeleteTransactionIDFromDB(t),
           \A i \in Initiators, u \in TIDs : Holds(i, u)' <=> Holds(i, u)
    PROVE  TIDConservation'
  <1>1. CASE transactions[t] = NoOne
    BY <1>1, ConservationUntouched DEF DeleteTransactionIDFromDB
  <1>2. CASE transactions[t] # NoOne
    <2>1. /\ available' = Append(available, t)
          /\ transactions' = [transactions EXCEPT ![t] = NoOne]
      BY <1>2 DEF DeleteTransactionIDFromDB
    <2>2. /\ transactions'[t] = NoOne
          /\ \A u \in TIDs \ {t} : transactions'[u] = transactions[u]
      BY <2>1 DEF TypeOK
    <2>3. ~Listed(t) /\ \A i \in Initiators : ~Holds(i, t)
      BY <1>2 DEF TIDConservation
    <2>4. QED BY <2>1, <2>2, <2>3, ConservationPushBack
  <1>3. QED BY <1>1, <1>2

\* A thread that neither takes nor gives up an ID leaves what every initiator holds.
LEMMA HoldsUntouched ==
    ASSUME TypeOK, NEW i \in Initiators, pc[i] # "register", UNCHANGED tid,
           NEW s, s # "register", pc' = [pc EXCEPT ![i] = s]
    PROVE  \A j \in Initiators, t \in TIDs : Holds(j, t)' <=> Holds(j, t)
  BY DEF Holds, TypeOK

\* Registration ends the holding of an ID: it enters the map, or goes back to the list.
LEMMA ConservationRegister ==
    ASSUME TypeOK, TIDConservation, NEW i \in Initiators, Register(i)
    PROVE  TIDConservation'
  <1> PICK t \in TIDs : t = tid[i]
    BY DEF TypeOK
  <1>1. /\ Holds(i, t)
        /\ ~Listed(t)
        /\ transactions[t] = NoOne
    BY DEF Register, Holds, TIDConservation
  <1>2. \A j \in Initiators, u \in TIDs : Holds(j, u)' <=> Holds(j, u) /\ j # i
    BY DEF Register, TypeOK, Holds
  <1>3. /\ \A j \in Initiators : ~Holds(j, t)'
        /\ \A j \in Initiators, u \in TIDs \ {t} : Holds(j, u)' <=> Holds(j, u)
    <2>1. \A j \in Initiators : Holds(j, t) => j = i
      BY <1>1 DEF TIDConservation
    <2>2. \A u \in TIDs \ {t} : ~Holds(i, u)
      BY DEF Holds
    <2>3. QED BY <1>1, <1>2, <2>1, <2>2
  <1>4. CASE ExpectsReply(i)
    <2>1. available' = available /\ transactions' = [transactions EXCEPT ![t] = i]
      BY <1>4 DEF Register, RegisterTransaction
    <2>2. /\ transactions'[t] = i
          /\ \A u \in TIDs \ {t} : transactions'[u] = transactions[u]
      BY <1>1, <2>1 DEF TypeOK
    <2>3. \A u \in TIDs : Listed(u)' <=> Listed(u)
      BY <2>1 DEF Listed
    <2>4. \A j, k \in 1 .. Len(available') : available'[j] = available'[k] => j = k
      BY <2>1 DEF TIDConservation
    <2>5. \A j, k \in Initiators, u \in TIDs : Holds(j, u)' /\ Holds(k, u)' => j = k
      BY <1>2 DEF TIDConservation
    <2>6. ASSUME NEW u \in TIDs
          PROVE  /\ Listed(u)' \/ transactions'[u] # NoOne
                               \/ \E j \in Initiators : Holds(j, u)'
                 /\ ~(Listed(u)' /\ transactions'[u] # NoOne)
                 /\ ~(Listed(u)' /\ \E j \in Initiators : Holds(j, u)')
                 /\ ~(transactions'[u] # NoOne /\ \E j \in Initiators : Holds(j, u)')
      <3>1. CASE u = t
        BY <1>1, <1>3, <2>2, <2>3, <3>1
      <3>2. CASE u # t
        BY <1>3, <2>2, <2>3, <3>2 DEF TIDConservation
      <3>3. QED BY <3>1, <3>2
    <2>7. QED BY <2>4, <2>5, <2>6 DEF TIDConservation
  <1>5. CASE ~ExpectsReply(i)
    <2>1. available' = Append(available, t) /\ transactions' = transactions
      BY <1>5 DEF Register, PushBackUtilizedTransactionID
    <2>2. QED BY <1>1, <1>3, <2>1, ConservationPushBack
  <1>6. QED BY <1>4, <1>5

\* Every step of a thread inside a call conserves the IDs.
LEMMA ConservationCallStep ==
    ASSUME ManualInitiators = {}, TypeOK, TIDConservation,
           NEW i \in Initiators, CallStep(i)
    PROVE  TIDConservation'
  <1> USE DEF tidVars, engineVars
  <1>1. CASE GetNextAvailableTransactionID(i)
    BY <1>1, ConservationPop
  <1>2. CASE Register(i)
    BY <1>2, ConservationRegister
  <1>3. CASE CheckSpecifiedTransactionID(i) \/ SpecifiedTransactionIDIsAlreadyInUse(i)
    BY <1>3 DEF CheckSpecifiedTransactionID, SpecifiedTransactionIDIsAlreadyInUse, Manual
  <1>4. CASE Cancel(i)
    <2>1. \A j \in Initiators, t \in TIDs : Holds(j, t)' <=> Holds(j, t)
      BY <1>4, HoldsUntouched DEF Cancel
    <2>2. tid[i] \in TIDs
      BY DEF TypeOK
    <2>3. QED BY <1>4, <2>1, <2>2, ConservationDelete DEF Cancel
  <1>5. CASE \/ TooManyConcurrentTransactions(i) \/ SendPacket(i) \/ SendFails(i)
             \/ SetInitiated(i) \/ ReturnWithoutReply(i) \/ SetCommandSent(i)
             \/ WaitReturns(i) \/ TakeReply(i) \/ ClearReply(i) \/ ExamineReply(i)
             \/ ThrowTimeout(i)
    <2>1. UNCHANGED <<available, transactions>> /\ UNCHANGED tid
      BY <1>5 DEF TooManyConcurrentTransactions, SendPacket, SendFails, SetInitiated,
             ReturnWithoutReply, SetCommandSent, WaitReturns, TakeReply, ClearReply,
             ExamineReply, ThrowTimeout
    <2>2. PICK s \in Stages : s # "register" /\ pc' = [pc EXCEPT ![i] = s]
      <3>1. CASE SetInitiated(i)
        <4>1. op[i] \in AllOps
          BY DEF TypeOK
        <4>2. QED BY <3>1, <4>1 DEF SetInitiated, Stages, AllOps
      <3>2. CASE TakeReply(i)
        BY <3>2 DEF TakeReply, Stages
      <3>3. CASE WaitReturns(i) \/ ExamineReply(i)
        BY <3>3 DEF WaitReturns, ExamineReply, Stages
      <3>4. CASE \/ TooManyConcurrentTransactions(i) \/ SendPacket(i) \/ SendFails(i)
                 \/ ReturnWithoutReply(i) \/ SetCommandSent(i) \/ ClearReply(i)
                 \/ ThrowTimeout(i)
        BY <3>4 DEF TooManyConcurrentTransactions, Throw, SendPacket, SendFails,
               ReturnWithoutReply, SetCommandSent, ClearReply, ThrowTimeout, Stages
      <3>5. QED BY <1>5, <3>1, <3>2, <3>3, <3>4
    <2>3. pc[i] # "register"
      BY <1>5 DEF TooManyConcurrentTransactions, SendPacket, SendFails, SetInitiated,
             ReturnWithoutReply, SetCommandSent, WaitReturns, TakeReply, ClearReply,
             ExamineReply, ThrowTimeout
    <2>4. QED BY <2>1, <2>2, <2>3, HoldsUntouched, ConservationUntouched
  <1>6. QED BY <1>1, <1>2, <1>3, <1>4, <1>5 DEF CallStep

\* So does every decision of the application,
LEMMA ConservationApplicationStep ==
    ASSUME TypeOK, TIDConservation, NEW i \in Initiators, ApplicationStep(i)
    PROVE  TIDConservation'
  <1>1. CASE Call(i)
    <2>1. \A j \in Initiators, t \in TIDs : Holds(j, t)' <=> Holds(j, t)
      BY <1>1, HoldsUntouched DEF Call
    <2>2. QED BY <1>1, <2>1, ConservationUntouched DEF Call, tidVars
  <1>2. CASE NonblockingReadCompleted(i)
    <2>1. \A j \in Initiators, t \in TIDs : Holds(j, t)' <=> Holds(j, t)
      BY <1>2, HoldsUntouched DEF NonblockingReadCompleted
    <2>2. QED BY <1>2, <2>1, ConservationUntouched DEF NonblockingReadCompleted, tidVars
  <1>3. CASE CancelNonblockingRead(i)
    <2>1. \A j \in Initiators, t \in TIDs : Holds(j, t)' <=> Holds(j, t)
      BY <1>3, HoldsUntouched DEF CancelNonblockingRead
    <2>2. tid[i] \in TIDs
      BY DEF TypeOK
    <2>3. QED BY <1>3, <2>1, <2>2, ConservationDelete DEF CancelNonblockingRead
  <1>4. QED BY <1>1, <1>2, <1>3 DEF ApplicationStep

\* and every step of the engine and of the environment.
LEMMA ConservationEngineStep ==
    ASSUME TypeOK, TIDConservation,
           \/ EngineStep
           \/ StartEngine
           \/ StopEngine
           \/ LeaveReceiveLoop
           \/ \E c \in network : LoseReply(c)
    PROVE  TIDConservation'
  <1> USE DEF callVars, callerVars, tidVars
  <1>1. ASSUME NEW c \in network, ResolveTransaction(c)
        PROVE  TIDConservation'
    <2>1. c.tid \in TIDs
      BY DEF TypeOK, Commands
    <2>2. \A j \in Initiators, t \in TIDs : Holds(j, t)' <=> Holds(j, t)
      BY <1>1 DEF ResolveTransaction, Holds
    <2>3. QED BY <1>1, <2>1, <2>2, ConservationDelete DEF ResolveTransaction
  <1>2. CASE \/ \E c \in network : DiscardReply(c) \/ LoseReply(c)
             \/ SetReplyPacket \/ SetReplyReceived
             \/ StartEngine \/ StopEngine \/ LeaveReceiveLoop
    <2>1. UNCHANGED <<available, transactions>> /\ UNCHANGED <<pc, tid>>
      BY <1>2 DEF DiscardReply, LoseReply, SetReplyPacket, SetReplyReceived, StartEngine,
             StopEngine, LeaveReceiveLoop
    <2>2. \A j \in Initiators, t \in TIDs : Holds(j, t)' <=> Holds(j, t)
      BY <2>1 DEF Holds
    <2>3. QED BY <2>1, <2>2, ConservationUntouched
  <1>3. QED BY <1>1, <1>2 DEF EngineStep

\* With IDs assigned by the engine, no interleaving of calls, replies, losses,
\* failures and restarts of the engine loses an ID or gives it to two transactions.
THEOREM TIDsConserved ==
    ASSUME ManualInitiators = {}
    PROVE  Spec => []TIDConservation
  <1>1. Init => TIDConservation
    <2> SUFFICES ASSUME Init
                 PROVE  TIDConservation
      OBVIOUS
    <2>1. /\ Len(available) = NTIDs
          /\ \A k \in 1 .. NTIDs : available[k] = k - 1
      BY DEF Init, InitTIDs
    <2>2. \A t \in TIDs : Listed(t) /\ transactions[t] = NoOne
      <3> SUFFICES ASSUME NEW t \in TIDs
                   PROVE  Listed(t) /\ transactions[t] = NoOne
        OBVIOUS
      <3>1. t + 1 \in 1 .. NTIDs /\ available[t + 1] = t
        BY <2>1 DEF TIDs
      <3>2. QED BY <2>1, <3>1 DEF Listed, Init, InitTIDs
    <2>3. \A i \in Initiators, t \in TIDs : ~Holds(i, t)
      BY DEF Init, Holds
    <2>4. \A j, k \in 1 .. Len(available) : available[j] = available[k] => j = k
      BY <2>1
    <2>5. QED BY <2>2, <2>3, <2>4 DEF TIDConservation
  <1>2. TypeOK /\ TIDConservation /\ [Next]_vars => TIDConservation'
    <2> SUFFICES ASSUME TypeOK, TIDConservation, [Next]_vars
                 PROVE  TIDConservation'
      OBVIOUS
    <2>1. CASE UNCHANGED vars
      <3>1. UNCHANGED <<available, transactions, pc, tid>>
        BY <2>1 DEF vars
      <3>2. QED BY <3>1, ConservationUntouched DEF Holds
    <2>2. CASE Next
      BY <2>2, ConservationCallStep, ConservationApplicationStep, ConservationEngineStep
         DEF Next
    <2>3. QED BY <2>1, <2>2
  <1>3. QED BY <1>1, <1>2, TypeCorrect, PTL DEF Spec

\* With IDs assigned by the engine, every registration takes an ID under which
\* nobody is registered: none replaces another, not even one that a failed send
\* has left behind.
THEOREM RegistrationsReplaceNone ==
    ASSUME ManualInitiators = {}
    PROVE  Spec => []RegistersUnusedID
  <1>1. TypeOK /\ TIDConservation => RegistersUnusedID
    BY DEF TypeOK, TIDConservation, RegistersUnusedID, Holds
  <1>2. QED BY <1>1, TypeCorrect, TIDsConserved, PTL

-----------------------------------------------------------------------------
(***************************************************************************)
(* Reads with timely replies: what the callers and the engine hand to each *)
(* other, where IDs are assigned by the engine, a caller gives up only     *)
(* when no reply is on its way, and no call is a write() with a reply      *)
(* (which overwrites the state of its transaction).                        *)
(***************************************************************************)

Timely == ManualInitiators = {} /\ ~LateReplies /\ "write" \notin Ops

-----------------------------------------------------------------------------
(* The inductive invariant                                                 *)

\* Initiator i has sent its command and waits for the reply; Current(i) also counts the
\* moments before it sends and while it gives up.
Waiting(i) == pc[i] \in {"sent", "wait", "pending"} /\ ExpectsReply(i)
Current(i) == pc[i] \in {"send", "sent", "wait", "pending", "cancel"} /\ ExpectsReply(i)
Answered(i) == tstate[i] = "ReplyReceived"

\* What each place in a call says of the call, the state and the reply pointer.
CallsInOrder ==
    \A i \in Initiators :
        /\ op[i] # "write" /\ pc[i] \notin {"markSent", "crashed"}
        /\ pc[i] \in {"wait", "clear", "cancel", "abandon"} => op[i] = "read"
        /\ pc[i] = "pending" => op[i] = "nonblockingRead"
        /\ pc[i] = "checkSent" => op[i] = "writeNoReply"
        /\ pc[i] \in {"take", "examine"} => op[i] \in {"read", "nonblockingRead"}
        /\ pc[i] \in {"getTID", "register", "send", "sent"} => tstate[i] = "NotInitiated"
        /\ pc[i] = "cancel" => ~Answered(i)
        /\ pc[i] = "take" => Answered(i)
        /\ pc[i] \notin {"idle", "clear", "examine"} => reply[i] = NoPacket

\* An ID is registered for the current command of its owner, or is an orphan, and the
\* registration lasts until the reply is resolved.
IDsRegistered ==
    /\ \A t \in orphans : transactions[t] # NoOne
    /\ \A t \in TIDs, i \in Initiators :
          transactions[t] = i => (t \in orphans <=> ~(Current(i) /\ tid[i] = t))
    /\ \A i \in Initiators :
          /\ pc[i] \in {"send", "cancel"} /\ ExpectsReply(i) => transactions[tid[i]] = i
          /\ Waiting(i) => (transactions[tid[i]] = i <=> hand.owner # i /\ ~Answered(i))

\* A command in flight is the current one of a caller that waits and is registered; so is
\* the one whose reply the engine has in its hands, but for the registration.
RepliesOnTheirWay ==
    /\ \A c \in network :
          /\ Waiting(c.from) /\ c.seq = seq[c.from] /\ c.tid = tid[c.from]
          /\ transactions[c.tid] = c.from
    /\ \A i \in Initiators : hand.owner = i =>
          /\ Waiting(i) /\ ~Answered(i)
          /\ hand.packet \in live /\ hand.packet.from = i /\ hand.packet.seq = seq[i]
          /\ engine = "setState" => treply[i] = hand.packet

\* Whose packet each pointer holds, and until when it is not deleted.
PacketsOf(i) ==
    /\ treply[i] # NoPacket =>
          /\ treply[i].from = i /\ treply[i].seq <= seq[i]
          /\ treply[i].seq = seq[i] =>
                \/ pc[i] \in {"idle", "take", "clear", "examine"}
                \/ hand.owner = i
                \/ Answered(i) /\ pc[i] \in {"wait", "pending"}
    /\ reply[i] # NoPacket => reply[i].from = i
    /\ Answered(i) /\ pc[i] \in {"wait", "pending", "take"} =>
          treply[i] \in live /\ treply[i].seq = seq[i]
    /\ pc[i] = "clear" => reply[i] = treply[i]
    /\ pc[i] \in {"clear", "examine"} => reply[i] \in live /\ reply[i].seq = seq[i]
    /\ treply[i] \in live =>
          \/ treply[i] \in {reply[i], hand.packet}
          \/ Answered(i) /\ pc[i] \in {"wait", "pending", "take"}
    /\ pc[i] = "idle" /\ result[i] = "ok" /\ op[i] # "writeNoReply" =>
          reply[i] # NoPacket /\ reply[i].seq = seq[i]

PacketsKept == (\A i \in Initiators : PacketsOf(i)) /\ NoPacketLeak

TimelyInv == CallsInOrder /\ IDsRegistered /\ RepliesOnTheirWay /\ PacketsKept

-----------------------------------------------------------------------------
(* Every step preserves it                                                 *)

\* No step brings a call to a place with the wrong state or a reply left over.
LEMMA CallsInOrderStep ==
    ASSUME Timely, TypeOK, TIDConservation, TimelyInv, [Next]_vars
    PROVE  CallsInOrder'
  <1> USE DEF Timely, TypeOK, TimelyInv, CallsInOrder, Answered,
              tidVars, callVars, callerVars, engineVars, AllOps, Manual, NoHand, NoPacket
  <1>1. ASSUME NEW i \in Initiators, GetNextAvailableTransactionID(i) PROVE CallsInOrder'
    BY <1>1 DEF GetNextAvailableTransactionID, PopFrontTransactionID
  <1>2. ASSUME NEW i \in Initiators, TooManyConcurrentTransactions(i) PROVE CallsInOrder'
    BY <1>2 DEF TooManyConcurrentTransactions, Throw
  <1>3. ASSUME NEW i \in Initiators, Register(i) PROVE CallsInOrder'
    BY <1>3 DEF Register, RegisterTransaction, PushBackUtilizedTransactionID
  <1>4. ASSUME NEW i \in Initiators, SendPacket(i) PROVE CallsInOrder'
    BY <1>4 DEF SendPacket
  <1>5. ASSUME NEW i \in Initiators, SendFails(i) PROVE CallsInOrder'
    BY <1>5 DEF SendFails, Throw
  <1>6. ASSUME NEW i \in Initiators, SetInitiated(i) PROVE CallsInOrder'
    BY <1>6 DEF SetInitiated
  <1>7. ASSUME NEW i \in Initiators, ReturnWithoutReply(i) PROVE CallsInOrder'
    BY <1>7 DEF ReturnWithoutReply
  <1>8. ASSUME NEW i \in Initiators, WaitReturns(i) PROVE CallsInOrder'
    BY <1>8 DEF WaitReturns, MayGiveUp, ReplyOnItsWay
  <1>9. ASSUME NEW i \in Initiators, TakeReply(i) PROVE CallsInOrder'
    BY <1>9 DEF TakeReply
  <1>10. ASSUME NEW i \in Initiators, ClearReply(i) PROVE CallsInOrder'
    BY <1>10 DEF ClearReply
  <1>11. ASSUME NEW i \in Initiators, ExamineReply(i) PROVE CallsInOrder'
    BY <1>11 DEF ExamineReply, PacketsKept, PacketsOf
  <1>12. ASSUME NEW i \in Initiators, Cancel(i) PROVE CallsInOrder'
    BY <1>12 DEF Cancel, DeleteTransactionIDFromDB
  <1>13. ASSUME NEW i \in Initiators, ThrowTimeout(i) PROVE CallsInOrder'
    BY <1>13 DEF ThrowTimeout
  <1>14. ASSUME NEW i \in Initiators, Call(i) PROVE CallsInOrder'
    BY <1>14 DEF Call
  <1>15. ASSUME NEW i \in Initiators, NonblockingReadCompleted(i) PROVE CallsInOrder'
    BY <1>15 DEF NonblockingReadCompleted
  <1>16. ASSUME NEW i \in Initiators, CancelNonblockingRead(i) PROVE CallsInOrder'
    BY <1>16 DEF CancelNonblockingRead, DeleteTransactionIDFromDB, MayGiveUp, ReplyOnItsWay
  <1>17. ASSUME NEW i \in Initiators,
                \/ CheckSpecifiedTransactionID(i) \/ SpecifiedTransactionIDIsAlreadyInUse(i)
                \/ SetCommandSent(i)
         PROVE  CallsInOrder'
    BY <1>17 DEF CheckSpecifiedTransactionID, SpecifiedTransactionIDIsAlreadyInUse, SetCommandSent
  <1>18. ASSUME NEW c \in network, DiscardReply(c) PROVE CallsInOrder'
    BY <1>18 DEF DiscardReply, AfterPacket, IsTransactionIDAvailable
  <1>19. ASSUME NEW c \in network, ResolveTransaction(c) PROVE CallsInOrder'
    BY <1>19 DEF ResolveTransaction, IsTransactionIDAvailable, DeleteTransactionIDFromDB
  <1>20. ASSUME NEW c \in network, LoseReply(c) PROVE CallsInOrder'
    BY <1>20 DEF LoseReply
  <1>21. CASE SetReplyPacket
    BY <1>21 DEF SetReplyPacket
  <1>22. CASE SetReplyReceived
    <2>1. PICK o \in Initiators : o = hand.owner
      BY <1>22 DEF SetReplyReceived
    <2>2. pc[o] \in {"wait", "pending"}
      BY <1>22, <2>1 DEF SetReplyReceived, RepliesOnTheirWay, Waiting
    <2>3. tstate' = [tstate EXCEPT ![o] = "ReplyReceived"] /\ UNCHANGED <<pc, op, reply>>
      BY <1>22, <2>1 DEF SetReplyReceived
    <2> QED
      BY <2>1, <2>2, <2>3
  <1>23. CASE StartEngine
    BY <1>23 DEF StartEngine
  <1>24. CASE StopEngine
    BY <1>24 DEF StopEngine
  <1>25. CASE LeaveReceiveLoop
    BY <1>25 DEF LeaveReceiveLoop
  <1>26. CASE UNCHANGED vars
    BY <1>26 DEF vars
  <1>27. [Next]_vars
    OBVIOUS
  <1> QED
    BY ONLY <1>1, <1>2, <1>3, <1>4, <1>5, <1>6, <1>7, <1>8, <1>9, <1>10, <1>11, <1>12, <1>13,
       <1>14, <1>15, <1>16, <1>17, <1>18, <1>19, <1>20,
       <1>21, <1>22, <1>23, <1>24, <1>25, <1>26, <1>27
    DEF Next, CallStep, ApplicationStep, EngineStep

\* A registration follows its command; conservation of IDs keeps it apart from the others.
LEMMA IDsRegisteredStep ==
    ASSUME Timely, TypeOK, TIDConservation, TimelyInv, [Next]_vars
    PROVE  IDsRegistered'
  <1> USE DEF Timely, TypeOK, TimelyInv, CallsInOrder, IDsRegistered, RepliesOnTheirWay,
              Waiting, Current, Answered, ExpectsReply,
              tidVars, callVars, callerVars, engineVars, AllOps, Manual, NoHand, NoPacket
  <1>1. ASSUME NEW i \in Initiators, GetNextAvailableTransactionID(i) PROVE IDsRegistered'
    BY <1>1 DEF GetNextAvailableTransactionID, PopFrontTransactionID
  <1>2. ASSUME NEW i \in Initiators, TooManyConcurrentTransactions(i) PROVE IDsRegistered'
    BY <1>2 DEF TooManyConcurrentTransactions, Throw
  <1>3. ASSUME NEW i \in Initiators, Register(i) PROVE IDsRegistered'
    <2>1. /\ pc[i] = "register" /\ tid[i] \in TIDs
          /\ pc' = [pc EXCEPT ![i] = "send"]
          /\ UNCHANGED <<tid, op, tstate, hand, orphans>>
      BY <1>3 DEF Register
    <2>2. transactions[tid[i]] = NoOne
      BY <2>1 DEF TIDConservation, Holds
    <2>3. CASE ExpectsReply(i)
      <3>1. transactions' = [transactions EXCEPT ![tid[i]] = i]
        BY <1>3, <2>3 DEF Register, RegisterTransaction
      <3>2. \A t \in TIDs : transactions'[t] = (IF t = tid[i] THEN i ELSE transactions[t])
        BY <3>1
      <3>3. \A j \in Initiators : j # i => pc'[j] = pc[j]
        BY <2>1
      <3>4. pc'[i] = "send"
        BY <2>1
      <3>5. IDsRegistered /\ transactions \in [TIDs -> Initiators \cup {NoOne}]
        OBVIOUS
      <3>6. ASSUME NEW t \in orphans PROVE transactions'[t] # NoOne
        BY <3>2
      <3>7. ASSUME NEW t \in TIDs, NEW j \in Initiators, transactions'[t] = j
            PROVE  t \in orphans <=> ~(Current(j)' /\ tid[j] = t)
        <4>1. CASE t = tid[i]
          <5>1. j = i /\ t \notin orphans
            BY <2>2, <3>2, <3>7, <4>1
          <5> QED BY ONLY <2>1, <2>3, <3>4, <4>1, <5>1 DEF Current, ExpectsReply
        <4>2. CASE t # tid[i]
          <5>1. transactions[t] = j
            BY <3>2, <3>7, <4>2
          <5>2. t \in orphans <=> ~(Current(j) /\ tid[j] = t)
            BY <5>1
          <5> QED BY ONLY <2>1, <3>3, <4>2, <5>2, j \in Initiators DEF Current, ExpectsReply
        <4> QED BY <4>1, <4>2
      <3>8. ASSUME NEW j \in Initiators, j # i
            PROVE  /\ tid[j] \in TIDs
                   /\ transactions'[tid[j]] = j <=> transactions[tid[j]] = j
        BY <2>2, <3>2, <3>8
      <3> QED BY <2>1, <2>3, <3>2, <3>3, <3>4, <3>6, <3>7, <3>8
    <2>4. CASE ~ExpectsReply(i)
      <3>1. transactions' = transactions
        BY <1>3, <2>4 DEF Register, PushBackUtilizedTransactionID
      <3> QED BY <2>1, <2>4, <3>1
    <2> QED BY <2>3, <2>4
  <1>4. ASSUME NEW i \in Initiators, SendPacket(i) PROVE IDsRegistered'
    BY <1>4 DEF SendPacket
  <1>5. ASSUME NEW i \in Initiators, SendFails(i) PROVE IDsRegistered'
    BY <1>5 DEF SendFails, Throw
  <1>6. ASSUME NEW i \in Initiators, SetInitiated(i) PROVE IDsRegistered'
    BY <1>6 DEF SetInitiated
  <1>7. ASSUME NEW i \in Initiators, ReturnWithoutReply(i) PROVE IDsRegistered'
    BY <1>7 DEF ReturnWithoutReply
  <1>8. ASSUME NEW i \in Initiators, WaitReturns(i) PROVE IDsRegistered'
    <2>1. pc[i] = "wait" /\ UNCHANGED <<transactions, tid, op, tstate, hand, orphans>>
      BY <1>8 DEF WaitReturns
    <2>2. CASE tstate[i] = "ReplyReceived" /\ pc' = [pc EXCEPT ![i] = "take"]
      BY <2>1, <2>2
    <2>3. CASE tstate[i] # "ReplyReceived" /\ MayGiveUp(i) /\ pc' = [pc EXCEPT ![i] = "cancel"]
      <3>1. hand.owner # i /\ ~Answered(i)
        BY <2>3 DEF MayGiveUp, ReplyOnItsWay
      <3>2. transactions[tid[i]] = i
        BY <2>1, <3>1
      <3> QED BY <2>1, <2>3, <3>1, <3>2
    <2> QED BY <1>8, <2>2, <2>3 DEF WaitReturns
  <1>9. ASSUME NEW i \in Initiators, TakeReply(i) PROVE IDsRegistered'
    BY <1>9 DEF TakeReply
  <1>10. ASSUME NEW i \in Initiators, ClearReply(i) PROVE IDsRegistered'
    BY <1>10 DEF ClearReply
  <1>11. ASSUME NEW i \in Initiators, ExamineReply(i) PROVE IDsRegistered'
    <2>1. /\ pc[i] = "examine" /\ pc' = [pc EXCEPT ![i] = "idle"]
          /\ UNCHANGED <<transactions, tid, op, hand, orphans, seq, network, engine, treply>>
          /\ \A j \in Initiators : j # i => tstate'[j] = tstate[j]
      BY <1>11 DEF ExamineReply, PacketsKept, PacketsOf
    <2> QED BY <2>1
  <1>12. ASSUME NEW i \in Initiators, Cancel(i) PROVE IDsRegistered'
    <2>1. pc[i] = "cancel" /\ transactions[tid[i]] = i /\ tid[i] \in TIDs
      BY <1>12 DEF Cancel
    <2>2. /\ transactions' = [transactions EXCEPT ![tid[i]] = NoOne]
          /\ pc' = [pc EXCEPT ![i] = "abandon"]
          /\ UNCHANGED <<tid, op, tstate, hand, orphans>>
      BY <1>12, <2>1 DEF Cancel, DeleteTransactionIDFromDB
    <2>3. tid[i] \notin orphans
      BY <2>1
    <2> QED BY <2>1, <2>2, <2>3
  <1>13. ASSUME NEW i \in Initiators, ThrowTimeout(i) PROVE IDsRegistered'
    BY <1>13 DEF ThrowTimeout
  <1>14. ASSUME NEW i \in Initiators, Call(i) PROVE IDsRegistered'
    BY <1>14 DEF Call
  <1>15. ASSUME NEW i \in Initiators, NonblockingReadCompleted(i) PROVE IDsRegistered'
    BY <1>15 DEF NonblockingReadCompleted
  <1>16. ASSUME NEW i \in Initiators, CancelNonblockingRead(i) PROVE IDsRegistered'
    <2>1. /\ pc[i] = "pending" /\ tid[i] \in TIDs /\ hand.owner # i /\ ~Answered(i)
          /\ \A c \in network : ~(c.from = i /\ c.seq = seq[i])
      BY <1>16 DEF CancelNonblockingRead, MayGiveUp, ReplyOnItsWay
    <2>2. transactions[tid[i]] = i
      BY <2>1
    <2>3. /\ transactions' = [transactions EXCEPT ![tid[i]] = NoOne]
          /\ pc' = [pc EXCEPT ![i] = "idle"]
          /\ UNCHANGED <<tid, op, tstate, hand, orphans>>
      BY <1>16, <2>2 DEF CancelNonblockingRead, DeleteTransactionIDFromDB
    <2>4. tid[i] \notin orphans
      BY <2>1, <2>2
    <2> QED BY <2>1, <2>2, <2>3, <2>4
  <1>17. ASSUME NEW i \in Initiators,
                \/ CheckSpecifiedTransactionID(i) \/ SpecifiedTransactionIDIsAlreadyInUse(i)
                \/ SetCommandSent(i)
         PROVE  IDsRegistered'
    BY <1>17 DEF CheckSpecifiedTransactionID, SpecifiedTransactionIDIsAlreadyInUse, SetCommandSent
  <1>18. ASSUME NEW c \in network, DiscardReply(c) PROVE IDsRegistered'
    BY <1>18 DEF DiscardReply, AfterPacket, IsTransactionIDAvailable
  <1>19. ASSUME NEW c \in network, ResolveTransaction(c) PROVE IDsRegistered'
    <2>1. PICK o \in Initiators : o = c.from
      BY DEF Commands
    <2>2. /\ Waiting(o) /\ c.tid = tid[o] /\ tid[o] \in TIDs /\ transactions[tid[o]] = o
          /\ tid[o] \notin orphans
      BY <2>1
    <2>3. /\ transactions' = [transactions EXCEPT ![tid[o]] = NoOne]
          /\ hand'.owner = o
          /\ UNCHANGED <<tid, pc, op, tstate, orphans>>
      BY <1>19, <2>1, <2>2 DEF ResolveTransaction, DeleteTransactionIDFromDB
    <2>4. hand.owner = NoOne
      BY <1>19 DEF ResolveTransaction
    <2> QED BY <2>2, <2>3, <2>4
  <1>20. ASSUME NEW c \in network, LoseReply(c) PROVE IDsRegistered'
    BY <1>20 DEF LoseReply
  <1>21. CASE SetReplyPacket
    BY <1>21 DEF SetReplyPacket
  <1>22. CASE SetReplyReceived
    BY <1>22 DEF SetReplyReceived, AfterPacket
  <1>23. CASE StartEngine
    BY <1>23 DEF StartEngine
  <1>24. CASE StopEngine
    BY <1>24 DEF StopEngine
  <1>25. CASE LeaveReceiveLoop
    BY <1>25 DEF LeaveReceiveLoop
  <1>26. CASE UNCHANGED vars
    BY <1>26 DEF vars
  <1>27. [Next]_vars
    OBVIOUS
  <1> QED
    BY ONLY <1>1, <1>2, <1>3, <1>4, <1>5, <1>6, <1>7, <1>8, <1>9, <1>10, <1>11, <1>12, <1>13,
       <1>14, <1>15, <1>16, <1>17, <1>18, <1>19, <1>20,
       <1>21, <1>22, <1>23, <1>24, <1>25, <1>26, <1>27
    DEF Next, CallStep, ApplicationStep, EngineStep

\* A caller that gives up has no command in flight, and none in the engine's hands.
LEMMA RepliesOnTheirWayStep ==
    ASSUME Timely, TypeOK, TIDConservation, TimelyInv, [Next]_vars
    PROVE  RepliesOnTheirWay'
  <1> USE DEF Timely, TypeOK, TimelyInv, CallsInOrder, IDsRegistered, RepliesOnTheirWay,
              Waiting, Current, Answered, ExpectsReply,
              tidVars, callVars, callerVars, engineVars, AllOps, Manual, NoHand, NoPacket
  <1>a. \A c \in network : c.from \in Initiators /\ c.tid \in TIDs
    BY DEF Commands
  <1>b. \A c \in network : Waiting(c.from) /\ transactions[c.tid] = c.from
    OBVIOUS
  <1>1. ASSUME NEW i \in Initiators, GetNextAvailableTransactionID(i) PROVE RepliesOnTheirWay'
    BY <1>1 DEF GetNextAvailableTransactionID, PopFrontTransactionID
  <1>2. ASSUME NEW i \in Initiators, TooManyConcurrentTransactions(i) PROVE RepliesOnTheirWay'
    BY <1>2 DEF TooManyConcurrentTransactions, Throw
  <1>3. ASSUME NEW i \in Initiators, Register(i) PROVE RepliesOnTheirWay'
    <2>1. /\ pc[i] = "register" /\ tid[i] \in TIDs
          /\ pc' = [pc EXCEPT ![i] = "send"]
          /\ UNCHANGED <<tid, op, tstate, treply, hand, engine, seq, network, live>>
      BY <1>3 DEF Register
    <2>2. transactions[tid[i]] = NoOne
      BY <2>1 DEF TIDConservation, Holds
    <2>3. \A t \in TIDs : t # tid[i] => transactions'[t] = transactions[t]
      BY <1>3 DEF Register, RegisterTransaction, PushBackUtilizedTransactionID
    <2>4. \A c \in network : c.from \in Initiators /\ c.tid \in TIDs
      BY DEF Commands
    <2>5. \A c \in network : c.tid # tid[i] /\ c.from # i
      BY <2>1, <2>2, <2>4
    <2> QED BY <2>1, <2>3, <2>4, <2>5
  <1>4. ASSUME NEW i \in Initiators, SendPacket(i) PROVE RepliesOnTheirWay'
    BY <1>4 DEF SendPacket
  <1>5. ASSUME NEW i \in Initiators, SendFails(i) PROVE RepliesOnTheirWay'
    BY <1>5 DEF SendFails, Throw
  <1>6. ASSUME NEW i \in Initiators, SetInitiated(i) PROVE RepliesOnTheirWay'
    BY <1>6 DEF SetInitiated
  <1>7. ASSUME NEW i \in Initiators, ReturnWithoutReply(i) PROVE RepliesOnTheirWay'
    BY <1>7 DEF ReturnWithoutReply
  <1>8. ASSUME NEW i \in Initiators, WaitReturns(i) PROVE RepliesOnTheirWay'
    <2>1. /\ pc[i] = "wait"
          /\ UNCHANGED <<transactions, tid, op, tstate, treply, hand, engine, seq, network, live>>
      BY <1>8 DEF WaitReturns
    <2>2. \E s \in Stages : pc' = [pc EXCEPT ![i] = s]
      BY <1>8 DEF WaitReturns, Stages
    <2>3. hand.owner # i
      BY <1>8 DEF WaitReturns, MayGiveUp, ReplyOnItsWay
    <2>4. \A c \in network : c.from \in Initiators /\ c.from # i
      <3>1. CASE Answered(i)
        BY <1>a, <3>1
      <3>2. CASE ~Answered(i)
        <4>1. \A c \in network : ~(c.from = i /\ c.seq = seq[i])
          BY <1>8, <3>2 DEF WaitReturns, MayGiveUp, ReplyOnItsWay
        <4> QED BY <1>a, <4>1
      <3> QED BY <3>1, <3>2
    <2> QED BY <2>1, <2>2, <2>3, <2>4
  <1>9. ASSUME NEW i \in Initiators, TakeReply(i) PROVE RepliesOnTheirWay'
    BY <1>9 DEF TakeReply
  <1>10. ASSUME NEW i \in Initiators, ClearReply(i) PROVE RepliesOnTheirWay'
    BY <1>10 DEF ClearReply
  <1>11. ASSUME NEW i \in Initiators, ExamineReply(i) PROVE RepliesOnTheirWay'
    <2>1. /\ pc[i] = "examine" /\ pc' = [pc EXCEPT ![i] = "idle"]
          /\ UNCHANGED <<transactions, tid, op, hand, seq, network, engine, treply>>
          /\ \A j \in Initiators : j # i => tstate'[j] = tstate[j]
          /\ live \ {reply[i]} \subseteq live'
      BY <1>11 DEF ExamineReply, PacketsKept, PacketsOf
    <2>2. \A c \in network : c.from \in Initiators /\ c.from # i
      BY ONLY <1>a, <1>b, <2>1 DEF Waiting
    <2>3. hand.owner # i /\ (hand.owner # NoOne => hand.packet # reply[i])
      BY <2>1 DEF PacketsKept, PacketsOf
    <2> QED BY <2>1, <2>2, <2>3
  <1>12. ASSUME NEW i \in Initiators, Cancel(i) PROVE RepliesOnTheirWay'
    <2>1. pc[i] = "cancel" /\ transactions[tid[i]] = i /\ tid[i] \in TIDs
      BY <1>12 DEF Cancel
    <2>2. /\ transactions' = [transactions EXCEPT ![tid[i]] = NoOne]
          /\ pc' = [pc EXCEPT ![i] = "abandon"]
          /\ UNCHANGED <<tid, op, tstate, treply, hand, engine, seq, network, live>>
      BY <1>12, <2>1 DEF Cancel, DeleteTransactionIDFromDB
    <2>3. \A c \in network : c.from \in Initiators /\ c.from # i /\ c.tid \in TIDs
      BY ONLY <1>a, <1>b, <2>1 DEF Waiting
    <2>4. \A c \in network : c.tid # tid[i]
      BY ONLY <1>b, <2>1, <2>3
    <2> QED BY <2>1, <2>2, <2>3, <2>4
  <1>13. ASSUME NEW i \in Initiators, ThrowTimeout(i) PROVE RepliesOnTheirWay'
    BY <1>13 DEF ThrowTimeout
  <1>14. ASSUME NEW i \in Initiators, Call(i) PROVE RepliesOnTheirWay'
    <2>1. /\ pc[i] = "idle" /\ pc' = [pc EXCEPT ![i] = "getTID"]
          /\ UNCHANGED <<transactions, tid, hand, network, engine, treply>>
          /\ \A j \in Initiators : j # i => /\ tstate'[j] = tstate[j] /\ op'[j] = op[j]
                                          /\ seq'[j] = seq[j]
          /\ live' = live \ {reply[i]}
      BY <1>14 DEF Call
    <2>2. \A c \in network : c.from \in Initiators /\ c.from # i
      BY ONLY <1>a, <1>b, <2>1 DEF Waiting
    <2>3. hand.owner # i /\ (hand.owner # NoOne => hand.packet # reply[i])
      BY <2>1 DEF PacketsKept, PacketsOf
    <2> QED BY <2>1, <2>2, <2>3
  <1>15. ASSUME NEW i \in Initiators, NonblockingReadCompleted(i) PROVE RepliesOnTheirWay'
    BY <1>15 DEF NonblockingReadCompleted
  <1>16. ASSUME NEW i \in Initiators, CancelNonblockingRead(i) PROVE RepliesOnTheirWay'
    <2>1. /\ pc[i] = "pending" /\ tid[i] \in TIDs /\ hand.owner # i /\ ~Answered(i)
          /\ \A c \in network : ~(c.from = i /\ c.seq = seq[i])
      BY <1>16 DEF CancelNonblockingRead, MayGiveUp, ReplyOnItsWay
    <2>2. transactions[tid[i]] = i
      BY <2>1
    <2>3. /\ transactions' = [transactions EXCEPT ![tid[i]] = NoOne]
          /\ pc' = [pc EXCEPT ![i] = "idle"]
          /\ UNCHANGED <<tid, op, tstate, treply, hand, engine, seq, network, live>>
      BY <1>16, <2>2 DEF CancelNonblockingRead, DeleteTransactionIDFromDB
    <2>4. \A c \in network : c.from \in Initiators /\ c.from # i /\ c.tid \in TIDs
      BY <2>1 DEF Commands
    <2>5. \A c \in network : c.tid # tid[i]
      BY <2>2, <2>4
    <2> QED BY <2>1, <2>3, <2>4, <2>5
  <1>17. ASSUME NEW i \in Initiators,
                \/ CheckSpecifiedTransactionID(i) \/ SpecifiedTransactionIDIsAlreadyInUse(i)
                \/ SetCommandSent(i)
         PROVE  RepliesOnTheirWay'
    BY <1>17 DEF CheckSpecifiedTransactionID, SpecifiedTransactionIDIsAlreadyInUse, SetCommandSent
  <1>18. ASSUME NEW c \in network, DiscardReply(c) PROVE RepliesOnTheirWay'
    BY <1>18 DEF DiscardReply, AfterPacket, IsTransactionIDAvailable
  <1>19. ASSUME NEW c \in network, ResolveTransaction(c) PROVE RepliesOnTheirWay'
    <2>1. PICK o \in Initiators : o = c.from
      BY DEF Commands
    <2>2. /\ Waiting(o) /\ c.tid = tid[o] /\ tid[o] \in TIDs /\ transactions[tid[o]] = o
          /\ c.seq = seq[o] /\ ~Answered(o)
      BY <2>1
    <2>3. PICK k \in ReplyKinds :
            /\ hand' = [owner |-> o, packet |-> [from |-> o, seq |-> seq[o], kind |-> k]]
            /\ live' = live \cup {[from |-> o, seq |-> seq[o], kind |-> k]}
      <3>1. c.from = o /\ c.seq = seq[o] /\ transactions[c.tid] = o
        BY <2>1, <2>2
      <3> QED BY ONLY <1>19, <3>1 DEF ResolveTransaction
    <2>4. /\ transactions' = [transactions EXCEPT ![tid[o]] = NoOne]
          /\ network' = network \ {c} /\ engine' = "setReply"
          /\ UNCHANGED <<tid, pc, op, seq, tstate, treply>>
      BY <1>19, <2>2 DEF ResolveTransaction, DeleteTransactionIDFromDB
    <2>5. \A d \in network' : d.from \in Initiators /\ d.from # o /\ d.tid \in TIDs
      <3>1. \A d \in network : /\ d = [from |-> d.from, seq |-> d.seq, tid |-> d.tid]
                                /\ d.from \in Initiators /\ d.tid \in TIDs
        BY DEF Commands
      <3>2. \A d \in network : d.from = o => d.seq = c.seq /\ d.tid = c.tid
        BY <2>1
      <3>3. \A d \in network : d.from = o => d = c
        BY <2>1, <3>1, <3>2
      <3> QED BY <2>4, <3>1, <3>3
    <2>6. \A d \in network' : d \in network /\ d.tid # tid[o]
      BY ONLY <1>b, <2>2, <2>4, <2>5
    <2> QED BY <2>2, <2>3, <2>4, <2>5, <2>6
  <1>20. ASSUME NEW c \in network, LoseReply(c) PROVE RepliesOnTheirWay'
    BY <1>20 DEF LoseReply
  <1>21. CASE SetReplyPacket
    BY <1>21 DEF SetReplyPacket
  <1>22. CASE SetReplyReceived
    BY <1>22 DEF SetReplyReceived, AfterPacket
  <1>23. CASE StartEngine
    BY <1>23 DEF StartEngine
  <1>24. CASE StopEngine
    BY <1>24 DEF StopEngine
  <1>25. CASE LeaveReceiveLoop
    BY <1>25 DEF LeaveReceiveLoop
  <1>26. CASE UNCHANGED vars
    BY <1>26 DEF vars
  <1>27. [Next]_vars
    OBVIOUS
  <1> QED
    BY ONLY <1>1, <1>2, <1>3, <1>4, <1>5, <1>6, <1>7, <1>8, <1>9, <1>10, <1>11, <1>12, <1>13,
       <1>14, <1>15, <1>16, <1>17, <1>18, <1>19, <1>20,
       <1>21, <1>22, <1>23, <1>24, <1>25, <1>26, <1>27
    DEF Next, CallStep, ApplicationStep, EngineStep

\* A reply is handed over, and deleted, by one thread at a time.
LEMMA PacketsKeptStep ==
    ASSUME Timely, TypeOK, TIDConservation, TimelyInv, [Next]_vars
    PROVE  PacketsKept'
  <1> USE DEF Timely, TypeOK, TimelyInv, CallsInOrder, RepliesOnTheirWay, PacketsKept, PacketsOf,
              NoPacketLeak, Waiting, Answered, ExpectsReply,
              tidVars, callVars, callerVars, engineVars, AllOps, Manual, NoHand, NoPacket
  <1>1. ASSUME NEW i \in Initiators, GetNextAvailableTransactionID(i) PROVE PacketsKept'
    BY <1>1 DEF GetNextAvailableTransactionID, PopFrontTransactionID
  <1>2. ASSUME NEW i \in Initiators, TooManyConcurrentTransactions(i) PROVE PacketsKept'
    BY <1>2 DEF TooManyConcurrentTransactions, Throw
  <1>3. ASSUME NEW i \in Initiators, Register(i) PROVE PacketsKept'
    BY <1>3 DEF Register, RegisterTransaction, PushBackUtilizedTransactionID
  <1>4. ASSUME NEW i \in Initiators, SendPacket(i) PROVE PacketsKept'
    BY <1>4 DEF SendPacket
  <1>5. ASSUME NEW i \in Initiators, SendFails(i) PROVE PacketsKept'
    BY <1>5 DEF SendFails, Throw
  <1>6. ASSUME NEW i \in Initiators, SetInitiated(i) PROVE PacketsKept'
    BY <1>6 DEF SetInitiated
  <1>7. ASSUME NEW i \in Initiators, ReturnWithoutReply(i) PROVE PacketsKept'
    <2>1. /\ pc[i] = "checkSent" /\ op[i] = "writeNoReply"
          /\ pc' = [pc EXCEPT ![i] = "idle"]
          /\ UNCHANGED <<op, seq, treply, reply, hand, live>>
          /\ \A j \in Initiators : j # i => tstate'[j] = tstate[j] /\ result'[j] = result[j]
      BY <1>7 DEF ReturnWithoutReply
    <2> QED BY <2>1
  <1>8. ASSUME NEW i \in Initiators, WaitReturns(i) PROVE PacketsKept'
    BY <1>8 DEF WaitReturns, MayGiveUp, ReplyOnItsWay
  <1>9. ASSUME NEW i \in Initiators, TakeReply(i) PROVE PacketsKept'
    <2>1. /\ pc[i] = "take" /\ Answered(i) /\ reply[i] = NoPacket
          /\ reply' = [reply EXCEPT ![i] = treply[i]]
          /\ UNCHANGED <<op, seq, treply, tstate, result, hand, live>>
      BY <1>9 DEF TakeReply
    <2>2. pc' \in {[pc EXCEPT ![i] = "examine"], [pc EXCEPT ![i] = "clear"]}
      BY <1>9 DEF TakeReply
    <2>3. treply[i] \in live /\ treply[i].seq = seq[i] /\ NoPacket \notin live
      BY <2>1 DEF Packets
    <2>4. treply[i] # NoPacket => treply[i].from = i
      OBVIOUS
    <2>5. ASSUME NEW j \in Initiators PROVE PacketsOf(j)'
      <3>1. CASE j = i
        BY <2>1, <2>2, <2>3, <2>4, <3>1
      <3>2. CASE j # i
        BY <2>1, <2>2, <3>2
      <3> QED BY <3>1, <3>2
    <2>6. NoPacketLeak'
      BY <2>1, <2>3
    <2> QED BY ONLY <2>5, <2>6 DEF PacketsKept
  <1>10. ASSUME NEW i \in Initiators, ClearReply(i) PROVE PacketsKept'
    <2>1. /\ pc[i] = "clear" /\ reply[i] = treply[i]
          /\ treply' = [treply EXCEPT ![i] = NoPacket]
          /\ pc' = [pc EXCEPT ![i] = "examine"]
          /\ UNCHANGED <<op, seq, reply, tstate, result, hand, live>>
      BY <1>10 DEF ClearReply
    <2>2. NoPacket \notin live
      BY DEF Packets
    <2>5. ASSUME NEW j \in Initiators PROVE PacketsOf(j)'
      <3>1. CASE j = i
        BY <2>1, <2>2, <3>1
      <3>2. CASE j # i
        BY <2>1, <3>2
      <3> QED BY <3>1, <3>2
    <2>6. NoPacketLeak'
      BY <2>1
    <2> QED BY ONLY <2>5, <2>6 DEF PacketsKept
  <1>11. ASSUME NEW i \in Initiators, ExamineReply(i) PROVE PacketsKept'
    <2>1. /\ pc[i] = "examine" /\ reply[i] \in live /\ reply[i].seq = seq[i]
          /\ pc' = [pc EXCEPT ![i] = "idle"]
          /\ result' = [result EXCEPT ![i] = reply[i].kind]
          /\ UNCHANGED <<op, seq, treply, hand>>
          /\ \A j \in Initiators : j # i => tstate'[j] = tstate[j]
      BY <1>11 DEF ExamineReply
    <2>2. \/ reply[i].kind = "ok" /\ reply' = reply /\ live' = live
          \/ /\ reply[i].kind # "ok"
             /\ reply' = [reply EXCEPT ![i] = NoPacket] /\ live' = live \ {reply[i]}
      BY <1>11, <2>1 DEF ExamineReply
    <2>3. NoPacket \notin live
      BY DEF Packets
    <2>4. reply[i].from = i /\ reply[i] # NoPacket
      BY <2>1, <2>3
    <2>5. ASSUME NEW j \in Initiators PROVE PacketsOf(j)'
      <3>1. CASE j = i
        <4>1. treply[i] \in live' => treply[i] \in {reply'[i], hand.packet}
          <5>1. treply[i] \in live => treply[i] \in {reply[i], hand.packet}
            BY <2>1
          <5> QED BY ONLY <2>2, <5>1
        <4>2. treply[i] # NoPacket => treply[i].from = i /\ treply[i].seq <= seq[i]
          OBVIOUS
        <4>3. /\ reply'[i] # NoPacket => reply'[i].from = i
              /\ result'[i] = "ok" => reply'[i] = reply[i]
          BY <2>1, <2>2, <2>4
        <4>4. pc'[i] = "idle"
          BY <2>1
        <4> QED BY ONLY <2>1, <2>4, <3>1, <4>1, <4>2, <4>3, <4>4 DEF PacketsOf
      <3>2. CASE j # i
        <4>1. treply[j] # reply[i] /\ reply[j] # reply[i]
          BY <2>4, <3>2
        <4> QED BY <2>1, <2>2, <3>2, <4>1
      <3> QED BY <3>1, <3>2
    <2>6. NoPacketLeak'
      BY <2>1, <2>2
    <2> QED BY ONLY <2>5, <2>6 DEF PacketsKept
  <1>12. ASSUME NEW i \in Initiators, Cancel(i) PROVE PacketsKept'
    BY <1>12 DEF Cancel, DeleteTransactionIDFromDB
  <1>13. ASSUME NEW i \in Initiators, ThrowTimeout(i) PROVE PacketsKept'
    BY <1>13 DEF ThrowTimeout
  <1>14. ASSUME NEW i \in Initiators, Call(i) PROVE PacketsKept'
    <2>1. /\ pc[i] = "idle" /\ pc' = [pc EXCEPT ![i] = "getTID"]
          /\ reply' = [reply EXCEPT ![i] = NoPacket]
          /\ tstate' = [tstate EXCEPT ![i] = "NotInitiated"]
          /\ live' = live \ {reply[i]}
          /\ UNCHANGED <<treply, hand, result>>
      BY <1>14 DEF Call
    <2>b. seq'[i] = seq[i] + 1 /\ \A j \in Initiators : j # i => seq'[j] = seq[j]
      BY <1>14 DEF Call
    <2>a. \A j \in Initiators : j # i => op'[j] = op[j]
      <3>1. PICK o \in Ops : op' = [op EXCEPT ![i] = o]
        BY ONLY <1>14 DEF Call
      <3> QED BY <3>1
    <2>2. NoPacket \notin live
      BY DEF Packets
    <2>3. \A j \in Initiators : treply[j] # NoPacket => treply[j].seq \in Nat /\ seq[j] \in Nat
      BY DEF Packets
    <2>4. reply[i] # NoPacket => reply[i].from = i
      OBVIOUS
    <2>5. ASSUME NEW j \in Initiators PROVE PacketsOf(j)'
      <3>1. CASE j = i
        <4>0. seq'[i] = seq[i] + 1 /\ seq[i] \in Nat
          BY <2>b
        <4>1. treply[i] # NoPacket => treply[i].seq < seq'[i] /\ treply[i].seq \in Nat
          <5>1. treply[i] # NoPacket => treply[i].seq <= seq[i] /\ treply[i].seq \in Nat
            BY <2>3
          <5> QED BY ONLY <4>0, <5>1
        <4>2. treply[i] # NoPacket => treply[i].from = i
          OBVIOUS
        <4>3. treply[i] \in live' => treply[i] = hand.packet
          <5>1. treply[i] \in live => treply[i] \in {reply[i], hand.packet}
            BY <2>1
          <5> QED BY ONLY <2>1, <5>1
        <4>4. pc'[i] = "getTID" /\ reply'[i] = NoPacket /\ seq'[i] \in Nat
          BY <2>1, <4>0
        <4> QED BY ONLY <2>1, <3>1, <4>1, <4>2, <4>3, <4>4 DEF PacketsOf, Answered
      <3>2. CASE j # i
        <4>1. /\ treply[j] # NoPacket => treply[j] # reply[i]
              /\ reply[j] # NoPacket => reply[j] # reply[i]
          BY <2>4, <3>2
        <4> QED BY <2>1, <2>a, <2>b, <2>2, <3>2, <4>1
      <3> QED BY <3>1, <3>2
    <2>6. NoPacketLeak'
      BY <2>1
    <2> QED BY ONLY <2>5, <2>6 DEF PacketsKept
  <1>15. ASSUME NEW i \in Initiators, NonblockingReadCompleted(i) PROVE PacketsKept'
    BY <1>15 DEF NonblockingReadCompleted
  <1>16. ASSUME NEW i \in Initiators, CancelNonblockingRead(i) PROVE PacketsKept'
    BY <1>16 DEF CancelNonblockingRead, DeleteTransactionIDFromDB, MayGiveUp, ReplyOnItsWay
  <1>17. ASSUME NEW i \in Initiators,
                \/ CheckSpecifiedTransactionID(i) \/ SpecifiedTransactionIDIsAlreadyInUse(i)
                \/ SetCommandSent(i)
         PROVE  PacketsKept'
    BY <1>17 DEF CheckSpecifiedTransactionID, SpecifiedTransactionIDIsAlreadyInUse, SetCommandSent
  <1>18. ASSUME NEW c \in network, DiscardReply(c) PROVE PacketsKept'
    BY <1>18 DEF DiscardReply, AfterPacket, IsTransactionIDAvailable
  <1>19. ASSUME NEW c \in network, ResolveTransaction(c) PROVE PacketsKept'
    <2>1. PICK packet \in Packets : live' = live \cup {packet} /\ hand'.packet = packet
      <3>1. c.from \in Initiators /\ c.seq \in 0 .. MaxCommands
        BY DEF Commands
      <3> QED BY ONLY <1>19, <3>1 DEF ResolveTransaction, Packets
    <2>2. hand = NoHand /\ NoPacket \notin live
      BY <1>19 DEF ResolveTransaction, Packets
    <2>3. UNCHANGED <<pc, op, seq, result, tstate, treply, reply>>
      BY <1>19 DEF ResolveTransaction
    <2>5. ASSUME NEW j \in Initiators PROVE PacketsOf(j)'
      <3>1. PacketsOf(j) /\ hand.owner # j /\ hand.packet = NoPacket
        BY <2>2
      <3>2. treply[j] \in live' => treply[j] \in live \/ treply[j] = hand'.packet
        BY <2>1
      <3> QED BY ONLY <2>1, <2>2, <2>3, <3>1, <3>2 DEF PacketsOf, Answered
    <2>6. NoPacketLeak'
      <3>1. NoPacketLeak /\ hand.packet = NoPacket
        BY <2>2
      <3> QED BY ONLY <2>1, <2>2, <2>3, <3>1 DEF NoPacketLeak
    <2> QED BY ONLY <2>5, <2>6 DEF PacketsKept
  <1>20. ASSUME NEW c \in network, LoseReply(c) PROVE PacketsKept'
    BY <1>20 DEF LoseReply
  <1>21. CASE SetReplyPacket
    BY <1>21 DEF SetReplyPacket
  <1>22. CASE SetReplyReceived
    BY <1>22 DEF SetReplyReceived, AfterPacket
  <1>23. CASE StartEngine
    BY <1>23 DEF StartEngine
  <1>24. CASE StopEngine
    BY <1>24 DEF StopEngine
  <1>25. CASE LeaveReceiveLoop
    BY <1>25 DEF LeaveReceiveLoop
  <1>26. CASE UNCHANGED vars
    BY <1>26 DEF vars
  <1>27. [Next]_vars
    OBVIOUS
  <1> QED
    BY ONLY <1>1, <1>2, <1>3, <1>4, <1>5, <1>6, <1>7, <1>8, <1>9, <1>10, <1>11, <1>12, <1>13,
       <1>14, <1>15, <1>16, <1>17, <1>18, <1>19, <1>20,
       <1>21, <1>22, <1>23, <1>24, <1>25, <1>26, <1>27
    DEF Next, CallStep, ApplicationStep, EngineStep

-----------------------------------------------------------------------------
(* The theorems                                                            *)

LEMMA TimelyInductive ==
    ASSUME Timely
    PROVE  Spec => []TimelyInv
  <1>1. Init => TimelyInv
    <2> SUFFICES ASSUME Init PROVE TimelyInv
      OBVIOUS
    <2>1. CallsInOrder
      BY DEF Init, CallsInOrder, Answered
    <2>2. IDsRegistered
      BY DEF Init, InitTIDs, IDsRegistered, Waiting, Current, TIDs
    <2>3. RepliesOnTheirWay
      BY DEF Init, RepliesOnTheirWay, NoHand
    <2>4. PacketsKept
      BY DEF Init, PacketsKept, PacketsOf, NoPacketLeak, NoPacket
    <2> QED BY <2>1, <2>2, <2>3, <2>4 DEF TimelyInv
  <1>2. TypeOK /\ TIDConservation /\ TimelyInv /\ [Next]_vars => TimelyInv'
    BY CallsInOrderStep, IDsRegisteredStep, RepliesOnTheirWayStep, PacketsKeptStep DEF TimelyInv
  <1>3. Spec => []TIDConservation
    BY TIDsConserved DEF Timely
  <1> QED BY <1>1, <1>2, <1>3, TypeCorrect, PTL DEF Spec

\* A reply pointer that a call follows was never deleted and is not NULL (RMAPInitiator.hh
\* takes it from the transaction without a lock).
THEOREM RepliesAreLive ==
    ASSUME Timely
    PROVE  Spec => []TakesLivePacket
  <1>1. TimelyInv => TakesLivePacket
    BY DEF TimelyInv, PacketsKept, PacketsOf, TakesLivePacket
  <1> QED BY <1>1, TimelyInductive, PTL

\* No reply packet is forgotten by engine, transaction and initiator at once.
THEOREM RepliesAreNotLeaked ==
    ASSUME Timely
    PROVE  Spec => []NoPacketLeak
  <1>1. TimelyInv => NoPacketLeak
    BY DEF TimelyInv, PacketsKept
  <1> QED BY <1>1, TimelyInductive, PTL

\* A call accepts the reply to its own command only, though IDs are used again and again.
THEOREM RepliesMatch ==
    ASSUME Timely
    PROVE  Spec => []ReplyMatchesCommand
  <1>1. TimelyInv => ReplyMatchesCommand
    BY DEF TimelyInv, PacketsKept, PacketsOf, ReplyMatchesCommand
  <1> QED BY <1>1, TimelyInductive, PTL

\* A registration outlives its call only if sending the command failed.
THEOREM RegistrationsEnd ==
    ASSUME Timely
    PROVE  Spec => []OnlyFailedSendsLeakTIDs
  <1>1. TypeOK /\ TimelyInv => OnlyFailedSendsLeakTIDs
    BY DEF TypeOK, TimelyInv, IDsRegistered, Current, OnlyFailedSendsLeakTIDs
  <1> QED BY <1>1, TimelyInductive, TypeCorrect, PTL

\* cancelTransaction() erases the caller's own registration.
THEOREM CancelsItsOwn ==
    ASSUME Timely
    PROVE  Spec => []CancelsOwnTransaction
  <1>1. TimelyInv => CancelsOwnTransaction
    BY DEF TimelyInv, CallsInOrder, IDsRegistered, ExpectsReply, CancelsOwnTransaction
  <1> QED BY <1>1, TimelyInductive, PTL

\* A read that ends in Timeout has no reply that its caller missed.
THEOREM TimeoutsAreLosses ==
    ASSUME Timely
    PROVE  Spec => []ReadTimesOutOnlyWithoutReply
  <1>1. TimelyInv => ReadTimesOutOnlyWithoutReply
    BY DEF TimelyInv, PacketsKept, PacketsOf, RepliesOnTheirWay, Waiting,
           ReadTimesOutOnlyWithoutReply
  <1> QED BY <1>1, TimelyInductive, PTL
==============================================================================
