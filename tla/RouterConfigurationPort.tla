----------------------- MODULE RouterConfigurationPort -----------------------
(***************************************************************************)
(* The configuration ports of two SpaceWire routers                        *)
(* (src/includes/ConfigurationPorts/), two classes that differ in their    *)
(* constants and otherwise share their text.  A router is a memory of      *)
(* 32-bit registers, here sets of bits, reached through an RMAPInitiator.  *)
(* A setter reads a register, changes some bits and writes it back, in two *)
(* RMAP transactions; other clients of the router come in between.         *)
(***************************************************************************)
EXTENDS Naturals, FiniteSets, Sequences

CONSTANTS Clients,          \* threads or hosts that configure the router
          Router,           \* which router: its tables, frequencies and dividers
          ConfigRequests,   \* the calls they make, [op, port, arg]
          LogicalAddresses, \* those whose routing table entry is modelled
          InitialWords,     \* what a register may hold at first
          RouterFaults,     \* what can go wrong with an RMAP transaction
          MaxConfigCalls    \* bound: calls per client

\* The memory objects in the configuration file built into each class.
SixPortCSRs                  == [port \in 0 .. 9 |-> 4 * port]
GigabitEthernetCSRs          == [port \in 0 .. 9 |-> 4 * port]
SixPortRoutingTable          == [la \in 32 .. 255 |-> 4 * la]
GigabitEthernetRoutingTable  == [la \in 32 .. 255 |-> 4 * la]

\* Frequencies are in units of 100 kHz.
SixPortRouter ==
    [maximumPort |-> 6, csr |-> SixPortCSRs, routingTable |-> SixPortRoutingTable,
     maximumFrequency |-> 1000,
     divider |-> [f \in {1000, 500, 250, 125, 100, 50, 20} |->
                    CASE f = 1000 -> 0 [] f = 500 -> 1 [] f = 250 -> 3 [] f = 125 -> 7
                      [] f = 100 -> 9 [] f = 50 -> 19 [] f = 20 -> 49]]
GigabitEthernetRouter ==
    [maximumPort |-> 9, csr |-> GigabitEthernetCSRs,
     routingTable |-> GigabitEthernetRoutingTable, maximumFrequency |-> 2000,
     divider |-> [f \in {2000, 1000, 500, 250, 100, 50, 20} |->
                    CASE f = 2000 -> 0 [] f = 1000 -> 1 [] f = 500 -> 3 [] f = 250 -> 7
                      [] f = 100 -> 19 [] f = 50 -> 39 [] f = 20 -> 99]]

CSRSetters   == {"setLinkEnable", "unsetLinkEnable", "setLinkStart", "unsetLinkStart",
                 "setAutoStart", "unsetAutoStart", "setLinkFrequency"}
TableCalls   == {"writeRoutingTable", "readRoutingTable", "readWholeRoutingTable"}
AllRouterFaults == {"timeout", "late", "engine", "error"}
RegisterBits    == 0 .. 31

ASSUME RouterAssumption ==
    /\ Router \in {SixPortRouter, GigabitEthernetRouter}
    /\ RouterFaults \subseteq AllRouterFaults
    /\ LogicalAddresses \subseteq 32 .. 255
    /\ \A r \in ConfigRequests :
          /\ r.op \in CSRSetters \cup TableCalls
          /\ r.port \in Nat
          /\ r.op \in TableCalls => r.port \in LogicalAddresses
    /\ InitialWords \subseteq SUBSET RegisterBits
    /\ MaxConfigCalls \in Nat

-----------------------------------------------------------------------------
(* Registers and their bits                                                *)

\* The bits of the byte n when it is put at bit `base`.
DividerBits(base, n) == {base + b : b \in {k \in 0 .. 7 : (n \div 2^k) % 2 = 1}}

CSRAddress(port)        == Router.csr[port]
RoutingTableAddress(la) == Router.routingTable[la]

RegisterAddress(r) == IF r.op \in TableCalls THEN RoutingTableAddress(r.port)
                      ELSE CSRAddress(r.port)
RegisterAddresses  ==
    {RegisterAddress(r) : r \in {q \in ConfigRequests : q.op \in TableCalls
                                                        \/ q.port <= Router.maximumPort}}
    \cup {RoutingTableAddress(la) : la \in LogicalAddresses}

StartBit     == 16
DisableBit   == 17
AutoStartBit == 18
ResetBit     == 19
DividerByte  == 24 .. 31
DividerField == 24 .. 29
ConnectedBit == 4

IsConnected(w)   == ConnectedBit \in w
IsLinkEnabled(w) == DisableBit \notin w
IsLinkStarted(w) == StartBit \in w
IsAutoStarted(w) == AutoStartBit \in w
\* getLinkFrequency() is maximumFrequency / (d + 1) for this d.
DividerRead(w)   == CHOOSE d \in 0 .. 63 : DividerBits(24, d) = w \cap DividerField

\* Bytes 0 and 1 are filled; a port number from 16 on falls off its byte.
PortNumbersToRoutingTable(ports) == ports \cap (0 .. 15)
RoutingTableToPortNumbers(w)     == w

\* What each setter makes of the word it has read.
SetLinkEnable(w)   == (w \ {StartBit, DisableBit}) \cup {StartBit}
UnsetLinkEnable(w) == (w \ {StartBit, DisableBit, ResetBit}) \cup {DisableBit, ResetBit}
SetLinkStart(w)    == w \cup {StartBit}
UnsetLinkStart(w)  == w \ {StartBit}
SetAutoStart(w)    == w \cup {AutoStartBit}
UnsetAutoStart(w)  == w \ {AutoStartBit}
SetDivider(w, d)   == (w \ DividerByte) \cup DividerBits(24, d)

\* Faulty variant: the mask of setLinkStart() clears Auto Start as well.
ChangedClearsNeighbour(r, w) ==
    IF r.op = "setLinkStart" THEN SetLinkStart(w \ {AutoStartBit}) ELSE SetDivider(w, 1)

\* The word that a call writes, from the word w it has read.
Changed(r, w) ==
    CASE r.op = "setLinkEnable"     -> SetLinkEnable(w)
      [] r.op = "unsetLinkEnable"   -> UnsetLinkEnable(w)
      [] r.op = "setLinkStart"      -> SetLinkStart(w)
      [] r.op = "unsetLinkStart"    -> UnsetLinkStart(w)
      [] r.op = "setAutoStart"      -> SetAutoStart(w)
      [] r.op = "unsetAutoStart"    -> UnsetAutoStart(w)
      [] r.op = "setLinkFrequency"  -> SetDivider(w, Router.divider[r.arg])
      [] r.op = "writeRoutingTable" -> PortNumbersToRoutingTable(r.arg)

-----------------------------------------------------------------------------
VARIABLES
    routerMemory,       \* the router's memory
    attached,        \* clients whose object has an RMAPInitiator
    configPlace,     \* where a client is in its call
    configRequest,   \* the call it is making, or made last
    wordRead,        \* the register it has read
    tableRows,       \* the rows readWholeRoutingTable() has read
    configOutcome,   \* how its last call ended
    configCalls,     \* how many calls it has begun
    abandonedWrites, \* writes that timed out and may still be executed
    settled,         \* no write but its own to its register since its call read it
    before           \* the register as it was just before its write

routerVars == <<routerMemory, attached, configPlace, configRequest, wordRead, tableRows,
                configOutcome, configCalls, abandonedWrites, settled, before>>

NoConfigRequest == [op |-> "none", port |-> 0, arg |-> 0]
ConfigOutcomes  == {"none", "ok", "InvalidPortNumber", "InvalidLinkFrequency",
              "RMAPInitiatorIsNotAvailable", "OperationFailed", "RMAPInitiatorException"}
TableOrder     == [k \in 1 .. Cardinality(LogicalAddresses) |->
                CHOOSE la \in LogicalAddresses :
                    Cardinality({x \in LogicalAddresses : x < la}) = k - 1]

RouterInit ==
    /\ routerMemory \in [RegisterAddresses -> InitialWords]
    /\ attached \in {Clients, {}}
    /\ configPlace = [c \in Clients |-> "idle"]
    /\ configRequest = [c \in Clients |-> NoConfigRequest]
    /\ wordRead = [c \in Clients |-> {}]
    /\ tableRows = [c \in Clients |-> <<>>]
    /\ configOutcome = [c \in Clients |-> "none"]
    /\ configCalls = [c \in Clients |-> 0]
    /\ abandonedWrites = {}
    /\ settled = [c \in Clients |-> FALSE]
    /\ before = [c \in Clients |-> {}]

SetRMAPInitiator(c) ==
    /\ c \notin attached
    /\ attached' = attached \cup {c}
    /\ UNCHANGED <<routerMemory, configPlace, configRequest, wordRead, tableRows,
                   configOutcome, configCalls, abandonedWrites, settled, before>>

FrequencyIsValid(r) == r.op = "setLinkFrequency" => r.arg \in DOMAIN Router.divider
PortIsValid(r)      == r.op \in CSRSetters => r.port <= Router.maximumPort

\* What the checks at the head of a call come to.  setLinkFrequency() looks at
\* the frequency, the initiator and the port, the others at the port first.
Refusal(c, r) ==
    CASE ~FrequencyIsValid(r)                    -> "InvalidLinkFrequency"
      [] FrequencyIsValid(r) /\ ~PortIsValid(r)
            /\ (r.op # "setLinkFrequency" \/ c \in attached) -> "InvalidPortNumber"
      [] FrequencyIsValid(r) /\ c \notin attached
            /\ (r.op = "setLinkFrequency" \/ PortIsValid(r)) -> "RMAPInitiatorIsNotAvailable"
      [] OTHER                                   -> "none"

BeginCall(c) ==
    /\ configPlace[c] = "idle"
    /\ configCalls[c] < MaxConfigCalls
    /\ configCalls' = [configCalls EXCEPT ![c] = @ + 1]
    /\ tableRows' = [tableRows EXCEPT ![c] = <<>>]
    /\ settled' = [settled EXCEPT ![c] = FALSE]
    /\ \E r \in ConfigRequests :
         /\ configRequest' = [configRequest EXCEPT ![c] = r]
         /\ IF Refusal(c, r) # "none"
            THEN /\ configOutcome' = [configOutcome EXCEPT ![c] = Refusal(c, r)]
                 /\ UNCHANGED configPlace
            ELSE /\ configOutcome' = [configOutcome EXCEPT ![c] = "none"]
                 /\ configPlace' = [configPlace EXCEPT ![c] =
                        CASE r.op = "writeRoutingTable" -> "write"
                          [] r.op = "readWholeRoutingTable" -> "readAll"
                          [] OTHER -> "read"]
    /\ UNCHANGED <<routerMemory, attached, wordRead, abandonedWrites, before>>

ConfigReturn(c, how) ==
    /\ configOutcome' = [configOutcome EXCEPT ![c] = how]
    /\ configPlace' = [configPlace EXCEPT ![c] = "idle"]

\* An RMAPReplyException (a status other than success) is not in the exception
\* specification of the methods that let it through: the process terminates.
\* setLinkFrequency() and readWholeRoutingTable() turn it into their own.
ErrorReply(c) ==
    IF configRequest[c].op \in {"setLinkFrequency", "readWholeRoutingTable"}
    THEN ConfigReturn(c, "OperationFailed")
    ELSE /\ configPlace' = [configPlace EXCEPT ![c] = "terminated"]
         /\ UNCHANGED configOutcome

\* readWholeRoutingTable() also turns an RMAPInitiatorException into its own.
InitiatorFails(c) ==
    ConfigReturn(c, IF configRequest[c].op = "readWholeRoutingTable" THEN "OperationFailed"
              ELSE "RMAPInitiatorException")

ReadRegister(c) ==
    /\ configPlace[c] = "read"
    /\ wordRead' = [wordRead EXCEPT ![c] = routerMemory[RegisterAddress(configRequest[c])]]
    /\ settled' = [settled EXCEPT ![c] = TRUE]
    /\ IF configRequest[c].op = "readRoutingTable"
       THEN ConfigReturn(c, "ok")
       ELSE /\ configPlace' = [configPlace EXCEPT ![c] = "write"]
            /\ UNCHANGED configOutcome
    /\ UNCHANGED <<routerMemory, attached, configRequest, tableRows, configCalls,
                   abandonedWrites, before>>

\* One row of readWholeRoutingTable().
ReadRow(c) ==
    LET k == Len(tableRows[c]) + 1 IN
      /\ configPlace[c] = "readAll"
      /\ k < Len(TableOrder)
      /\ tableRows' = [tableRows EXCEPT ![c] = Append(@,
            RoutingTableToPortNumbers(routerMemory[RoutingTableAddress(TableOrder[k])]))]
      /\ settled' = [settled EXCEPT ![c] = (k = 1) \/ @]
      /\ UNCHANGED <<routerMemory, attached, configPlace, configRequest, wordRead,
                     configOutcome, configCalls, abandonedWrites, before>>

\* The loop ends before the last logical address: its row is converted from
\* memory that was allocated and never written.
FinishWholeTable(c) ==
    /\ configPlace[c] = "readAll"
    /\ Len(tableRows[c]) + 1 = Len(TableOrder)
    /\ \E garbage \in InitialWords : tableRows' = [tableRows EXCEPT ![c] = Append(@, garbage)]
    /\ ConfigReturn(c, "ok")
    /\ UNCHANGED <<routerMemory, attached, configRequest, wordRead, configCalls,
                   abandonedWrites, settled, before>>

ReadFails(c) ==
    /\ configPlace[c] \in {"read", "readAll"}
    /\ \/ /\ RouterFaults \cap {"timeout", "late"} # {}
          /\ InitiatorFails(c)
       \/ /\ "engine" \in RouterFaults
          /\ ConfigReturn(c, "OperationFailed")
       \/ /\ "error" \in RouterFaults
          /\ ErrorReply(c)
    /\ settled' = [settled EXCEPT ![c] = FALSE]
    /\ UNCHANGED <<routerMemory, attached, configRequest, wordRead, tableRows, configCalls,
                   abandonedWrites, before>>

\* The router stores a word: of a link register the control bits and the
\* divider, of a routing table entry everything.
Stored(a, w) ==
    IF a \in {CSRAddress(p) : p \in 0 .. Router.maximumPort}
    THEN LET writable == (StartBit .. ResetBit) \cup DividerField
         IN  (routerMemory[a] \ writable) \cup (w \cap writable)
    ELSE w

\* Client c's write of w to a is executed; other calls on a are disturbed.
ExecuteWrite(c, a, w) ==
    /\ routerMemory' = [routerMemory EXCEPT ![a] = Stored(a, w)]
    /\ settled' = [d \in Clients |->
            IF d = c THEN settled[d] \/ configRequest[d].op = "writeRoutingTable"
            ELSE settled[d] /\ RegisterAddress(configRequest[d]) # a
                            /\ ~(configRequest[d].op = "readWholeRoutingTable"
                                 /\ a \in {RoutingTableAddress(la) : la \in LogicalAddresses})]

WriteRegister(c) ==
    /\ configPlace[c] = "write"
    /\ ExecuteWrite(c, RegisterAddress(configRequest[c]), Changed(configRequest[c], wordRead[c]))
    /\ before' = [before EXCEPT ![c] = routerMemory[RegisterAddress(configRequest[c])]]
    /\ \/ ConfigReturn(c, "ok")
       \/ "timeout" \in RouterFaults /\ ConfigReturn(c, "RMAPInitiatorException")
    /\ UNCHANGED <<attached, configRequest, wordRead, tableRows, configCalls,
                   abandonedWrites>>

\* The command is lost, still under way, refused by the engine or by the router.
WriteFails(c) ==
    /\ configPlace[c] = "write"
    /\ \/ /\ "timeout" \in RouterFaults
          /\ ConfigReturn(c, "RMAPInitiatorException")
          /\ UNCHANGED abandonedWrites
       \/ /\ "late" \in RouterFaults
          /\ ConfigReturn(c, "RMAPInitiatorException")
          /\ abandonedWrites' = abandonedWrites \cup
                 {[address |-> RegisterAddress(configRequest[c]),
                   word |-> Changed(configRequest[c], wordRead[c])]}
       \/ /\ "engine" \in RouterFaults
          /\ ConfigReturn(c, "OperationFailed")
          /\ UNCHANGED abandonedWrites
       \/ /\ "error" \in RouterFaults
          /\ ErrorReply(c)
          /\ UNCHANGED abandonedWrites
    /\ settled' = [settled EXCEPT ![c] = FALSE]
    /\ UNCHANGED <<routerMemory, attached, configRequest, wordRead, tableRows, configCalls,
                   before>>

\* A write whose caller has given up is executed after all.
LateWrite ==
    \E x \in abandonedWrites :
        /\ routerMemory' = [routerMemory EXCEPT ![x.address] = Stored(x.address, x.word)]
        /\ settled' = [d \in Clients |-> FALSE]
        /\ abandonedWrites' = abandonedWrites \ {x}
        /\ UNCHANGED <<attached, configPlace, configRequest, wordRead, tableRows,
                       configOutcome, configCalls, before>>

\* A cable is plugged in or pulled out: the status bit of the port changes.
CableChanges ==
    \E r \in ConfigRequests :
        /\ r.op \in CSRSetters /\ PortIsValid(r)
        /\ \A c \in Clients : configCalls[c] < MaxConfigCalls
        /\ routerMemory' = [routerMemory EXCEPT ![RegisterAddress(r)] =
              IF IsConnected(@) THEN @ \ {ConnectedBit} ELSE @ \cup {ConnectedBit}]
        /\ UNCHANGED <<attached, configPlace, configRequest, wordRead, tableRows,
                       configOutcome, configCalls, abandonedWrites, settled, before>>

RouterNext ==
    \/ \E c \in Clients :
          \/ SetRMAPInitiator(c) \/ BeginCall(c) \/ ReadRegister(c) \/ ReadRow(c)
          \/ FinishWholeTable(c) \/ ReadFails(c) \/ WriteRegister(c) \/ WriteFails(c)
    \/ LateWrite
    \/ CableChanges

RouterSpec == RouterInit /\ [][RouterNext]_routerVars

-----------------------------------------------------------------------------
(* Properties                                                              *)

RouterTypeOK ==
    /\ routerMemory \in [RegisterAddresses -> SUBSET RegisterBits]
    /\ attached \subseteq Clients
    /\ configPlace \in [Clients -> {"idle", "read", "readAll", "write", "terminated"}]
    /\ configRequest \in [Clients -> ConfigRequests \cup {NoConfigRequest}]
    /\ wordRead \in [Clients -> SUBSET RegisterBits]
    /\ configOutcome \in [Clients -> ConfigOutcomes]
    /\ configCalls \in [Clients -> 0 .. MaxConfigCalls]
    /\ abandonedWrites \subseteq [address : RegisterAddresses, word : SUBSET RegisterBits]
    /\ settled \in [Clients -> BOOLEAN]
    /\ before \in [Clients -> SUBSET RegisterBits]

\* A setter has returned, and nobody else has written its register since it read it.
Configured(c) == configPlace[c] = "idle" /\ configOutcome[c] = "ok" /\ settled[c]
RegisterNow(c)  == routerMemory[RegisterAddress(configRequest[c])]

\* After a setter has returned, its getter tells what was asked for, whatever
\* the register held before, unless another write came in between.
GettersTellWhatWasSet ==
    \A c \in Clients : Configured(c) =>
        LET r == configRequest[c] IN
          /\ r.op = "setLinkEnable"    => IsLinkEnabled(RegisterNow(c))
          /\ r.op = "unsetLinkEnable"  => ~IsLinkEnabled(RegisterNow(c))
          /\ r.op = "setLinkStart"     => IsLinkStarted(RegisterNow(c))
          /\ r.op = "unsetLinkStart"   => ~IsLinkStarted(RegisterNow(c))
          /\ r.op = "setAutoStart"     => IsAutoStarted(RegisterNow(c))
          /\ r.op = "unsetAutoStart"   => ~IsAutoStarted(RegisterNow(c))
          /\ r.op = "setLinkFrequency" =>
                r.arg * (DividerRead(RegisterNow(c)) + 1) = Router.maximumFrequency
          /\ r.op = "writeRoutingTable" => RoutingTableToPortNumbers(RegisterNow(c)) = r.arg

\* A setter leaves the other settings of the port alone: each of them is as it
\* was when the write reached the router, though it was sent as it was read.
OtherSettingsKept ==
    \A c \in Clients : Configured(c) /\ configRequest[c].op \in CSRSetters =>
        LET r == configRequest[c] IN
          /\ r.op \notin {"setLinkEnable", "unsetLinkEnable"} =>
                (IsLinkEnabled(RegisterNow(c)) <=> IsLinkEnabled(before[c]))
          /\ r.op \in {"setAutoStart", "unsetAutoStart", "setLinkFrequency"} =>
                (IsLinkStarted(RegisterNow(c)) <=> IsLinkStarted(before[c]))
          /\ r.op \notin {"setAutoStart", "unsetAutoStart"} =>
                (IsAutoStarted(RegisterNow(c)) <=> IsAutoStarted(before[c]))
          /\ r.op # "setLinkFrequency" => DividerRead(RegisterNow(c)) = DividerRead(before[c])

\* readWholeRoutingTable() has put each row but the last under its own logical
\* address, if nobody wrote to the table meanwhile.
WholeTableAligned ==
    \A c \in Clients : Configured(c) /\ configRequest[c].op = "readWholeRoutingTable" =>
        \A k \in 1 .. Len(TableOrder) - 1 :
            tableRows[c][k] =
                RoutingTableToPortNumbers(routerMemory[RoutingTableAddress(TableOrder[k])])

\* Two programs that configure one router: a call that returned has set what it was asked
\* to, kept every other setting as the router held it, and got rows that belong together,
\* as far as no other call wrote in between.
RouterInv ==
    /\ RouterTypeOK
    /\ GettersTellWhatWasSet /\ OtherSettingsKept /\ WholeTableAligned

-----------------------------------------------------------------------------
(* What the proofs ask of an instance.                                     *)

\* A divider that is asked for fits the six bits that getLinkFrequency() reads back.  That
\* of 2 MHz does not in SpaceWireToGigabitEthernet: 99 is read as 35, which is 5.5 MHz.
DividersFit ==
    \A r \in ConfigRequests :
        r.op = "setLinkFrequency" /\ r.arg \in DOMAIN Router.divider =>
            Router.divider[r.arg] \in 0 .. 63

\* No port number is asked for that falls off its byte.
PortsFit == \A r \in ConfigRequests : r.op = "writeRoutingTable" => r.arg \subseteq 0 .. 15
=============================================================================
