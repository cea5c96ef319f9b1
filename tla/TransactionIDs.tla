--------------------------- MODULE TransactionIDs ---------------------------
(***************************************************************************)
(* The transaction-ID database of RMAPEngine (src/includes/RMAPEngine.hh): *)
(* the FIFO list of available IDs and the map from an ID to the            *)
(* transaction registered under it.  Each operator is the effect of one    *)
(* critical section of transactionIDMutex; the caller says what else the   *)
(* step changes.                                                           *)
(***************************************************************************)
EXTENDS Naturals, Sequences

CONSTANTS Initiators,   \* the RMAPInitiators of one engine, one RMAPTransaction each
          NoOne,        \* "no transaction registered under this ID"
          NTIDs         \* MaximumTIDNumber, 65536 in the code

ASSUME NoOneAssumption == NoOne \notin Initiators
ASSUME NTIDsAssumption == NTIDs \in Nat \ {0}

VARIABLES available,    \* availableTransactionIDList
          transactions  \* transactions; NoOne where the map has no entry

TIDs == 0 .. NTIDs - 1

\* initialize(): every ID is pushed back in increasing order.
InitTIDs ==
    /\ available = [k \in 1 .. NTIDs |-> k - 1]
    /\ transactions = [t \in TIDs |-> NoOne]

\* The ID is not a key of the map.  The list is not consulted.
IsTransactionIDAvailable(t) == transactions[t] = NoOne

\* Faulty variant: the front ID is read and stays in the list.
PopFrontForgotten == UNCHANGED <<available, transactions>>

\* The front of the list is taken off it.
PopFrontTransactionID ==
    /\ available' = Tail(available)
    /\ UNCHANGED transactions

PushBackUtilizedTransactionID(t) ==
    /\ available' = Append(available, t)
    /\ UNCHANGED transactions

\* transactions[transactionID] = transaction, whatever was there.
RegisterTransaction(t, i) ==
    /\ transactions' = [transactions EXCEPT ![t] = i]
    /\ UNCHANGED available

\* Faulty variant: the ID is pushed to the front and is the next one used.
DeletePushesFront(t) ==
    IF transactions[t] # NoOne
    THEN /\ transactions' = [transactions EXCEPT ![t] = NoOne]
         /\ available' = <<t>> \o available
    ELSE UNCHANGED <<available, transactions>>

\* An entry found is erased and its ID pushed back; otherwise nothing happens.
DeleteTransactionIDFromDB(t) ==
    IF transactions[t] # NoOne
    THEN /\ transactions' = [transactions EXCEPT ![t] = NoOne]
         /\ available' = Append(available, t)
    ELSE UNCHANGED <<available, transactions>>

=============================================================================
