------------------- MODULE RouterConfigurationPort_proofs -------------------
(***************************************************************************)
(* Theorems about RouterConfigurationPort, for any number of programs that *)
(* configure a router of one of the two kinds, any requests, and any rows of*)
(* the routing table.                                                      *)
(***************************************************************************)
EXTENDS RouterConfigurationPort, CommonLemmas

-----------------------------------------------------------------------------
(* The registers of a router.                                              *)

RouterWords == SUBSET RegisterBits
Asked(r) == r \in ConfigRequests /\ FrequencyIsValid(r) /\ PortIsValid(r)
Writable == (StartBit .. ResetBit) \cup DividerField
CSRs == {CSRAddress(p) : p \in 0 .. Router.maximumPort}
TableAddresses == {RoutingTableAddress(la) : la \in LogicalAddresses}

(* Where the registers of both routers are.                                *)
LEMMA RouterFacts ==
    /\ Router.maximumPort \in 0 .. 9
    /\ \A p \in 0 .. 9 : CSRAddress(p) = 4 * p
    /\ \A la \in 32 .. 255 : RoutingTableAddress(la) = 4 * la
  BY RouterAssumption DEF SixPortRouter, GigabitEthernetRouter, SixPortCSRs, GigabitEthernetCSRs,
     SixPortRoutingTable, GigabitEthernetRoutingTable, CSRAddress, RoutingTableAddress

(* The registers of the links are none of the routing table's.              *)
LEMMA TableIsNoCSR == CSRs \cap TableAddresses = {}
  BY RouterAssumption, RouterFacts DEF CSRs, TableAddresses

(* A request goes to a register of the links or of the routing table.      *)
LEMMA AddressesOfRequests ==
    ASSUME NEW r \in ConfigRequests, PortIsValid(r)
    PROVE  /\ RegisterAddress(r) \in RegisterAddresses
           /\ r.op \in CSRSetters => RegisterAddress(r) \in CSRs
           /\ r.op \in TableCalls => RegisterAddress(r) \in TableAddresses
  <1>1. r \in ConfigRequests /\ r.op \in CSRSetters \cup TableCalls /\ r.port \in Nat
        /\ (r.op \in TableCalls => r.port \in LogicalAddresses)
        /\ (r.op \in CSRSetters => r.port <= Router.maximumPort)
    BY RouterAssumption DEF PortIsValid
  <1>2. CSRSetters \cap TableCalls = {}
    BY DEF CSRSetters, TableCalls
  <1>3. RegisterAddress(r) \in RegisterAddresses
    BY <1>1, <1>2 DEF RegisterAddresses
  <1>4. r.op \in CSRSetters => r.port \in 0 .. Router.maximumPort
    BY <1>1, RouterFacts
  <1>5. QED
    BY <1>1, <1>2, <1>3, <1>4 DEF RegisterAddress, CSRs, TableAddresses

(* A divider is made of its six bits.                                      *)
LEMMA DividerBitsAreBits ==
    ASSUME NEW n PROVE DividerBits(24, n) \subseteq 24 .. 31
  BY DEF DividerBits

(* What a setter makes of a word is a word.                                *)
LEMMA ChangedIsAWord ==
    ASSUME NEW r, Asked(r), NEW w \in RouterWords,
           r.op \in CSRSetters \cup {"writeRoutingTable"}
    PROVE  Changed(r, w) \in RouterWords
  <1>1. CASE r.op = "setLinkFrequency"
    BY <1>1, DividerBitsAreBits DEF Changed, SetDivider, RouterWords, RegisterBits
  <1>2. CASE r.op # "setLinkFrequency"
    BY <1>2 DEF Changed, CSRSetters, RouterWords, RegisterBits, SetLinkEnable, UnsetLinkEnable,
       SetLinkStart, UnsetLinkStart, SetAutoStart, UnsetAutoStart, PortNumbersToRoutingTable,
       StartBit, DisableBit, AutoStartBit, ResetBit
  <1>3. QED BY <1>1, <1>2

(* What the router keeps of a word is a word.                              *)
LEMMA StoredIsAWord ==
    ASSUME routerMemory \in [RegisterAddresses -> RouterWords], NEW a \in RegisterAddresses,
           NEW w \in RouterWords
    PROVE  Stored(a, w) \in RouterWords
  BY DEF Stored, RouterWords, RegisterBits, DividerField, StartBit, ResetBit

(* A divider below 64 is told by its bits.                                  *)
LEMMA DividerIsReadBack ==
    ASSUME NEW d \in 0 .. 63, NEW w, w \cap DividerField = DividerBits(24, d)
    PROVE  DividerRead(w) = d
  <1>1. ASSUME NEW e \in 0 .. 63, DividerBits(24, e) = DividerBits(24, d) PROVE e = d
    <2>1. \A k \in 0 .. 7, n \in 0 .. 63 : 24 + k \in DividerBits(24, n) <=> (n \div 2^k) % 2 = 1
      BY DEF DividerBits
    <2>2. \A k \in 0 .. 7 : (e \div 2^k) % 2 = 1 <=> (d \div 2^k) % 2 = 1
      BY <1>1, <2>1
    <2>3. /\ (e \div 1) % 2 = 1 <=> (d \div 1) % 2 = 1
          /\ (e \div 2) % 2 = 1 <=> (d \div 2) % 2 = 1
          /\ (e \div 4) % 2 = 1 <=> (d \div 4) % 2 = 1
          /\ (e \div 8) % 2 = 1 <=> (d \div 8) % 2 = 1
          /\ (e \div 16) % 2 = 1 <=> (d \div 16) % 2 = 1
          /\ (e \div 32) % 2 = 1 <=> (d \div 32) % 2 = 1
      <3>1. 2^0 = 1 /\ 2^1 = 2 /\ 2^2 = 4 /\ 2^3 = 8 /\ 2^4 = 16 /\ 2^5 = 32
        OBVIOUS
      <3>2. QED BY ONLY <2>2, <3>1
    <2>4. QED BY ONLY <2>3, d \in 0 .. 63, e \in 0 .. 63
  <1>2. QED BY <1>1 DEF DividerRead

(* The dividers of both routers are numbers.                               *)
LEMMA DividersOfRouters ==
    ASSUME NEW f \in DOMAIN Router.divider
    PROVE  f * (Router.divider[f] + 1) = Router.maximumFrequency
  <1>1. CASE Router = SixPortRouter
    <2>1. f \in {1000, 500, 250, 125, 100, 50, 20}
      BY <1>1 DEF SixPortRouter
    <2>2. QED BY <1>1, <2>1 DEF SixPortRouter
  <1>2. CASE Router = GigabitEthernetRouter
    <2>1. f \in {2000, 1000, 500, 250, 100, 50, 20}
      BY <1>2 DEF GigabitEthernetRouter
    <2>2. QED BY <1>2, <2>1 DEF GigabitEthernetRouter
  <1>3. QED BY <1>1, <1>2, RouterAssumption

(* Every divider of the six-port router fits: the theorem asks nothing of    *)
(* its instances in this respect.                                           *)
LEMMA SixPortDividersFit == Router = SixPortRouter => DividersFit
  BY DEF DividersFit, SixPortRouter

-----------------------------------------------------------------------------
(* The rows of the routing table, in the order of their addresses.          *)

(* readRoutingTable() asks for as many rows as there are.                  *)
LEMMA TableOrderIsASequence ==
    Len(TableOrder) = Cardinality(LogicalAddresses) /\ Len(TableOrder) \in Nat
  <1>1. LogicalAddresses \subseteq 32 .. 255
    BY RouterAssumption
  <1>2. 32 \in Int /\ 255 \in Int
    OBVIOUS
  <1>3. IsFiniteSet(32 .. 255)
    BY ONLY <1>2, FS_Interval
  <1>4. IsFiniteSet(LogicalAddresses)
    BY ONLY <1>1, <1>3, FS_Subset
  <1>5. Cardinality(LogicalAddresses) \in Nat
    BY ONLY <1>4, FS_CardinalityType
  <1>6. QED BY <1>5 DEF TableOrder

(* Each row it asks for is one of the table: by induction over how many rows*)
(* are before it.                                                          *)
LEMMA TableOrderIsInTable ==
    ASSUME NEW k \in 1 .. Len(TableOrder)
    PROVE  TableOrder[k] \in LogicalAddresses
  <1> DEFINE LA == LogicalAddresses
             Below(la) == {x \in LA : x < la}
             N == Cardinality(LA)
             S == {n \in Nat : n < N => \E la \in LA : Cardinality(Below(la)) = n}
  <1>1. LA \in SUBSET Nat /\ IsFiniteSet(LA) /\ N \in Nat
    <2>1. LA \subseteq 32 .. 255
      BY RouterAssumption
    <2>2. IsFiniteSet(32 .. 255)
      <3>1. 32 \in Int /\ 255 \in Int
        OBVIOUS
      <3>2. QED BY ONLY <3>1, FS_Interval
    <2>3. IsFiniteSet(LA)
      BY ONLY <2>1, <2>2, FS_Subset
    <2>4. N \in Nat
      BY ONLY <2>3, FS_CardinalityType
    <2>5. QED BY <2>1, <2>3, <2>4
  <1>2. 0 \in S
    <2> SUFFICES ASSUME 0 < N PROVE \E la \in LA : Cardinality(Below(la)) = 0
      OBVIOUS
    <2>1. LA # {}
      BY FS_EmptySet
    <2>2. PICK la \in LA : \A x \in LA : la <= x
      BY <1>1, <2>1, LeastNumber
    <2>3. Below(la) = {}
      <3>1. ASSUME NEW x \in LA PROVE ~(x < la)
        <4>1. x \in Nat /\ la \in Nat /\ la <= x
          BY <1>1, <2>2
        <4>2. QED BY <4>1
      <3>2. QED BY <3>1
    <2>4. QED BY <2>3, FS_EmptySet
  <1>3. ASSUME NEW n \in Nat, n \in S PROVE n + 1 \in S
    <2>a. n + 1 \in Nat
      OBVIOUS
    <2> SUFFICES ASSUME n + 1 < N PROVE \E la \in LA : Cardinality(Below(la)) = n + 1
      BY <2>a
    <2>1. PICK la \in LA : Cardinality(Below(la)) = n
      <3>1. n < N
        BY <1>1
      <3>2. QED BY <1>3, <3>1
    <2> DEFINE A == Below(la) \cup {la}
               T == LA \ A
    <2>2. IsFiniteSet(Below(la)) /\ la \notin Below(la)
      BY <1>1, FS_Subset, Below(la) \subseteq LA
    <2>3. IsFiniteSet(A) /\ Cardinality(A) = n + 1
      BY <2>1, <2>2, FS_AddElement
    <2>4. T # {}
      <3>1. SUFFICES ASSUME T = {} PROVE FALSE
        OBVIOUS
      <3>2. A = LA
        BY <3>1
      <3>3. n + 1 = N
        BY <2>3, <3>2
      <3>4. QED BY <1>1, <3>3
    <2>5. T \in SUBSET Nat
      BY <1>1
    <2> HIDE DEF T
    <2>6. PICK m \in T : \A x \in T : m <= x
      BY <2>4, <2>5, LeastNumber
    <2>7. Below(m) = A /\ m \in LA
      <3>1. m \in LA /\ m \in Nat /\ la \in Nat /\ ~(m < la) /\ m # la
        BY <1>1, <2>6 DEF T
      <3>2. \A x \in LA : x < m <=> x \in A
        <4> TAKE x \in LA
        <4>1. x \in Nat
          BY <1>1
        <4>2. CASE x \in A
          BY <3>1, <4>1, <4>2
        <4>3. CASE x \notin A
          BY <2>6, <3>1, <4>1, <4>3 DEF T
        <4>4. QED BY <4>2, <4>3
      <3>3. QED BY <3>1, <3>2
    <2>8. QED BY <2>3, <2>7
  <1>4. Nat \subseteq S
    <2> HIDE DEF S
    <2>1. QED BY <1>2, <1>3, SetInductionOnNat
  <1>5. Len(TableOrder) = N /\ k \in 1 .. N /\ k - 1 \in Nat /\ k - 1 < N
    <2>1. Len(TableOrder) = N
      BY <1>1 DEF TableOrder
    <2>2. QED BY <1>1, <2>1
  <1>6. TableOrder[k] = CHOOSE la \in LA : Cardinality(Below(la)) = k - 1
    BY <1>5 DEF TableOrder
  <1>7. \E la \in LA : Cardinality(Below(la)) = k - 1
    BY <1>4, <1>5
  <1>8. QED BY <1>6, <1>7

-----------------------------------------------------------------------------
(* The inductive invariant                                                 *)

\* What the getter tells of the register w after the call r, and what the call has kept of
\* the register's content b: the conjuncts of GettersTellWhatWasSet and OtherSettingsKept.
Tells(r, w) ==
    /\ r.op = "setLinkEnable"    => IsLinkEnabled(w)
    /\ r.op = "unsetLinkEnable"  => ~IsLinkEnabled(w)
    /\ r.op = "setLinkStart"     => IsLinkStarted(w)
    /\ r.op = "unsetLinkStart"   => ~IsLinkStarted(w)
    /\ r.op = "setAutoStart"     => IsAutoStarted(w)
    /\ r.op = "unsetAutoStart"   => ~IsAutoStarted(w)
    /\ r.op = "setLinkFrequency" => r.arg * (DividerRead(w) + 1) = Router.maximumFrequency
    /\ r.op = "writeRoutingTable" => RoutingTableToPortNumbers(w) = r.arg
Keeps(r, w, b) ==
    /\ r.op \notin {"setLinkEnable", "unsetLinkEnable"} => (IsLinkEnabled(w) <=> IsLinkEnabled(b))
    /\ r.op \in {"setAutoStart", "unsetAutoStart", "setLinkFrequency"} =>
          (IsLinkStarted(w) <=> IsLinkStarted(b))
    /\ r.op \notin {"setAutoStart", "unsetAutoStart"} => (IsAutoStarted(w) <=> IsAutoStarted(b))
    /\ r.op # "setLinkFrequency" => DividerRead(w) = DividerRead(b)

\* Two contents of a register that differ in nothing but the cable.
Alike(w, v) == w \ {ConnectedBit} = v \ {ConnectedBit}

RouterTypes == RouterTypeOK /\ tableRows \in [Clients -> Seq(RouterWords)]

\* A call that is under way passed its checks, and is where a call of its kind can be.
InPlace(c) ==
    LET op == configRequest[c].op IN
      /\ configPlace[c] \in {"read", "readAll", "write"} \/ configOutcome[c] = "ok" =>
            Asked(configRequest[c])
      /\ configPlace[c] = "read" => op \in CSRSetters \cup {"readRoutingTable"}
      /\ configPlace[c] = "readAll" => op = "readWholeRoutingTable"
      /\ configPlace[c] = "write" => op \in CSRSetters \cup {"writeRoutingTable"}

\* The word a setter will write goes by what the register still holds.
WordIsFresh(c) ==
    configPlace[c] = "write" /\ configRequest[c].op \in CSRSetters /\ settled[c] =>
        Alike(wordRead[c], RegisterNow(c))

RowIsFresh(c, k) ==
    tableRows[c][k] = RoutingTableToPortNumbers(routerMemory[RoutingTableAddress(TableOrder[k])])
RowsAreFresh(c) ==
    configPlace[c] = "readAll" =>
        /\ Len(tableRows[c]) <= Len(TableOrder)
        /\ settled[c] => \A k \in 1 .. Len(tableRows[c]) : RowIsFresh(c, k)

CallIsDone(c) ==
    Configured(c) =>
        /\ Tells(configRequest[c], RegisterNow(c))
        /\ configRequest[c].op \in CSRSetters =>
              Keeps(configRequest[c], RegisterNow(c), before[c])
        /\ configRequest[c].op = "readWholeRoutingTable" =>
              \A k \in 1 .. Len(TableOrder) - 1 : RowIsFresh(c, k)

ClientInv(c) == InPlace(c) /\ WordIsFresh(c) /\ RowsAreFresh(c) /\ CallIsDone(c)
RouterIInv == RouterTypes /\ \A c \in Clients : ClientInv(c)

-----------------------------------------------------------------------------
(* Words that are alike tell the same.                                     *)

(* Words that differ in the connected bit only have the same other bits ...*)
LEMMA BitsAlike ==
    ASSUME NEW w, NEW v, Alike(w, v)
    PROVE  /\ IsLinkEnabled(w) <=> IsLinkEnabled(v)
           /\ IsLinkStarted(w) <=> IsLinkStarted(v)
           /\ IsAutoStarted(w) <=> IsAutoStarted(v)
           /\ DividerRead(w) = DividerRead(v)
  <1>1. \A b : b # 4 => (b \in w <=> b \in v)
    BY DEF Alike, ConnectedBit
  <1>2. w \cap DividerField = v \cap DividerField
    BY <1>1 DEF DividerField
  <1>3. QED
    BY <1>1, <1>2 DEF IsLinkEnabled, IsLinkStarted, IsAutoStarted, DividerRead, DisableBit,
       StartBit, AutoStartBit

(* ... and the getters of what can be set tell the same of both.           *)
LEMMA AlikeTellTheSame ==
    ASSUME NEW r, r.op \in CSRSetters, NEW w, NEW v, NEW b, Alike(w, v), Tells(r, v), Keeps(r, v, b)
    PROVE  Tells(r, w) /\ Keeps(r, w, b)
  <1>1. r.op # "writeRoutingTable"
    BY DEF CSRSetters
  <1>2. QED BY BitsAlike, <1>1 DEF Tells, Keeps

\* What c keeps from one state to the next, but for `settled`.
StaysPut(c) ==
    /\ configPlace'[c] = configPlace[c] /\ configRequest'[c] = configRequest[c]
    /\ wordRead'[c] = wordRead[c] /\ tableRows'[c] = tableRows[c]
    /\ configOutcome'[c] = configOutcome[c] /\ before'[c] = before[c]

\* Its registers stay as they are, if it is to stay settled.
Undisturbed(c) ==
    settled'[c] =>
        /\ settled[c]
        /\ LET r == configRequest[c]
               a == RegisterAddress(r)
           IN  /\ Asked(r) /\ r.op \in CSRSetters => Alike(routerMemory'[a], routerMemory[a])
               /\ Asked(r) /\ r.op \notin CSRSetters => routerMemory'[a] = routerMemory[a]
               /\ r.op = "readWholeRoutingTable" =>
                     \A la \in LogicalAddresses : routerMemory'[RoutingTableAddress(la)]
                                                  = routerMemory[RoutingTableAddress(la)]

(* A client that makes no step keeps its part of the invariant, as long as   *)
(* its registers stay as they are or it is not settled.                     *)
LEMMA OthersAreKept ==
    ASSUME RouterTypes, RouterTypes', NEW c \in Clients, ClientInv(c), StaysPut(c), Undisturbed(c)
    PROVE  ClientInv(c)'
  <1> DEFINE r == configRequest[c]
             a == RegisterAddress(r)
  <1>1. InPlace(c)'
    BY DEF ClientInv, InPlace, StaysPut
  <1>2. Asked(r) => r.op \in CSRSetters \cup TableCalls
    BY RouterAssumption DEF Asked
  <1>3. RegisterNow(c)' = routerMemory'[a] /\ RegisterNow(c) = routerMemory[a]
    BY DEF RegisterNow, StaysPut
  <1>4. ASSUME settled'[c], NEW k \in 1 .. Len(TableOrder), RowIsFresh(c, k),
               r.op = "readWholeRoutingTable"
        PROVE  RowIsFresh(c, k)'
    BY <1>4, TableOrderIsInTable DEF RowIsFresh, StaysPut, Undisturbed, RoutingTableToPortNumbers
  <1>5. WordIsFresh(c)'
    <2> SUFFICES ASSUME configPlace[c] = "write", r.op \in CSRSetters, settled'[c]
                 PROVE  Alike(wordRead[c], routerMemory'[a])
      BY <1>3 DEF WordIsFresh, StaysPut
    <2>1. Alike(wordRead[c], routerMemory[a]) /\ Asked(r)
      BY <1>3 DEF ClientInv, WordIsFresh, InPlace, Undisturbed
    <2>2. QED BY <2>1 DEF Undisturbed, Alike
  <1>6. RowsAreFresh(c)'
    <2> SUFFICES ASSUME configPlace[c] = "readAll"
                 PROVE  /\ Len(tableRows[c]) <= Len(TableOrder)
                        /\ settled'[c] => \A k \in 1 .. Len(tableRows[c]) : RowIsFresh(c, k)'
      BY DEF RowsAreFresh, StaysPut
    <2>1. Len(tableRows[c]) <= Len(TableOrder) /\ r.op = "readWholeRoutingTable"
      BY DEF ClientInv, RowsAreFresh, InPlace
    <2>2. Len(tableRows[c]) \in Nat /\ Len(TableOrder) \in Nat
      BY TableOrderIsASequence DEF RouterTypes
    <2>3. ASSUME settled'[c], NEW k \in 1 .. Len(tableRows[c]) PROVE RowIsFresh(c, k)'
      <3>1. RowIsFresh(c, k)
        BY <2>3 DEF ClientInv, RowsAreFresh, Undisturbed
      <3>2. k \in 1 .. Len(TableOrder)
        BY <2>1, <2>2
      <3>3. QED BY <1>4, <2>1, <2>3, <3>1, <3>2
    <2>4. QED BY <2>1, <2>3
  <1>7. CallIsDone(c)'
    <2> SUFFICES ASSUME Configured(c)'
                 PROVE  /\ Tells(r, routerMemory'[a])
                        /\ r.op \in CSRSetters => Keeps(r, routerMemory'[a], before[c])
                        /\ r.op = "readWholeRoutingTable" =>
                              \A k \in 1 .. Len(TableOrder) - 1 : RowIsFresh(c, k)'
      BY <1>3 DEF CallIsDone, StaysPut
    <2>1. Configured(c) /\ settled'[c] /\ Asked(r)
      BY DEF Configured, StaysPut, Undisturbed, ClientInv, InPlace
    <2>2. /\ Tells(r, routerMemory[a])
          /\ r.op \in CSRSetters => Keeps(r, routerMemory[a], before[c])
          /\ r.op = "readWholeRoutingTable" =>
                \A k \in 1 .. Len(TableOrder) - 1 : RowIsFresh(c, k)
      BY <1>3, <2>1 DEF ClientInv, CallIsDone
    <2>3. CASE r.op \in CSRSetters
      BY <2>1, <2>2, <2>3, AlikeTellTheSame DEF Undisturbed, CSRSetters
    <2>4. CASE r.op \notin CSRSetters
      <3>1. routerMemory'[a] = routerMemory[a]
        BY <2>1, <2>4 DEF Undisturbed
      <3>2. Len(TableOrder) \in Nat
        BY TableOrderIsASequence
      <3>3. QED BY <1>4, <2>1, <2>2, <2>4, <3>1, <3>2
    <2>5. QED BY <2>3, <2>4
  <1>8. QED BY <1>1, <1>5, <1>6, <1>7 DEF ClientInv

(* A step of one client that leaves the registers alone.                    *)
LEMMA OthersOfQuietStep ==
    ASSUME RouterIInv, RouterTypes', NEW c \in Clients, routerMemory' = routerMemory,
           \A d \in Clients \ {c} : StaysPut(d) /\ settled'[d] = settled[d],
           ClientInv(c)'
    PROVE  RouterIInv'
  <1>1. ASSUME NEW d \in Clients \ {c} PROVE ClientInv(d)'
    <2>1. Undisturbed(d)
      BY DEF Undisturbed, Alike
    <2>2. QED BY <2>1, OthersAreKept DEF RouterIInv
  <1>2. QED BY <1>1 DEF RouterIInv

-----------------------------------------------------------------------------
(* What a write leaves in the register.                                    *)

(* A setter's read, change and write do what was asked and nothing else.   *)
LEMMA WriteDoesWhatWasAsked ==
    ASSUME DividersFit, NEW r, Asked(r), r.op \in CSRSetters, NEW w \in RouterWords,
           NEW v \in RouterWords, Alike(w, v), NEW n,
           n = (v \ Writable) \cup (Changed(r, w) \cap Writable)
    PROVE  Tells(r, n) /\ Keeps(r, n, v)
  <1>1. \A b : b # 4 => (b \in w <=> b \in v)
    BY DEF Alike, ConnectedBit
  <1> DEFINE x == Changed(r, w)
  <1>2. \A b : b \in n <=> (b \in v /\ b \notin Writable) \/ (b \in x /\ b \in Writable)
    OBVIOUS
  <1>3. \A b \in 16 .. 19 \cup 24 .. 29 : b \in n <=> b \in x
    BY <1>2 DEF Writable, StartBit, ResetBit, DividerField
  <1>4. CASE r.op = "setLinkFrequency"
    <2>1. r.arg \in DOMAIN Router.divider /\ r \in ConfigRequests
      BY <1>4 DEF Asked, FrequencyIsValid
    <2> DEFINE d == Router.divider[r.arg]
    <2>2. d \in 0 .. 63
      BY <1>4, <2>1 DEF DividersFit
    <2>3. x = (w \ DividerByte) \cup DividerBits(24, d)
      BY <1>4 DEF Changed, SetDivider, CSRSetters
    <2>4. DividerBits(24, d) \subseteq 24 .. 29
      <3>1. 2^6 = 64 /\ 2^7 = 128
        OBVIOUS
      <3>2. d \div 64 = 0 /\ d \div 128 = 0
        BY ONLY <2>2
      <3>3. ASSUME NEW k \in 0 .. 7, (d \div 2^k) % 2 = 1 PROVE k \in 0 .. 5
        <4>1. ASSUME k = 6 PROVE FALSE
          <5>1. (d \div 2^6) % 2 = 1
            BY <3>3, <4>1
          <5>2. (d \div 64) % 2 = 1
            BY <3>1, <5>1
          <5>3. QED BY ONLY <5>2, <2>2
        <4>2. ASSUME k = 7 PROVE FALSE
          <5>1. (d \div 2^7) % 2 = 1
            BY <3>3, <4>2
          <5>2. (d \div 128) % 2 = 1
            BY <3>1, <5>1
          <5>3. QED BY ONLY <5>2, <2>2
        <4>3. QED BY <4>1, <4>2
      <3>4. ASSUME NEW b \in DividerBits(24, d) PROVE b \in 24 .. 29
        <4>1. PICK k \in 0 .. 7 : b = 24 + k /\ (d \div 2^k) % 2 = 1
          BY <3>4 DEF DividerBits
        <4>2. k \in 0 .. 5
          BY <3>3, <4>1
        <4>3. QED BY ONLY <4>1, <4>2
      <3>5. QED BY <3>4
    <2>5. n \cap DividerField = DividerBits(24, d)
      BY <1>3, <2>3, <2>4 DEF DividerField, DividerByte
    <2>6. DividerRead(n) = d
      BY <2>2, <2>5, DividerIsReadBack
    <2>7. r.arg * (d + 1) = Router.maximumFrequency
      BY <2>1, DividersOfRouters
    <2>8. \A b \in 16 .. 19 : b \in n <=> b \in v
      BY <1>1, <1>3, <2>3, <2>4 DEF DividerByte
    <2>9. QED
      BY <1>4, <2>6, <2>7, <2>8 DEF Tells, Keeps, IsLinkEnabled, IsLinkStarted, IsAutoStarted,
         StartBit, DisableBit, AutoStartBit
  <1>5. CASE r.op # "setLinkFrequency"
    <2>1. \A b \in 24 .. 29 : b \in x <=> b \in w
      BY <1>5 DEF Changed, CSRSetters, SetLinkEnable, UnsetLinkEnable, SetLinkStart,
         UnsetLinkStart, SetAutoStart, UnsetAutoStart, StartBit, DisableBit, AutoStartBit, ResetBit
    <2>2. n \cap DividerField = v \cap DividerField
      BY <1>1, <1>3, <2>1 DEF DividerField
    <2>3. DividerRead(n) = DividerRead(v)
      BY <2>2 DEF DividerRead
    <2>4. /\ StartBit \in n <=> StartBit \in x
          /\ DisableBit \in n <=> DisableBit \in x
          /\ AutoStartBit \in n <=> AutoStartBit \in x
          /\ StartBit \in v <=> StartBit \in w
          /\ DisableBit \in v <=> DisableBit \in w
          /\ AutoStartBit \in v <=> AutoStartBit \in w
      BY <1>1, <1>3 DEF StartBit, DisableBit, AutoStartBit
    <2>5. r.op # "writeRoutingTable"
      BY DEF CSRSetters
    <2>6. /\ Tells(r, n)
          /\ r.op \notin {"setLinkEnable", "unsetLinkEnable"} =>
                (DisableBit \in n <=> DisableBit \in v)
          /\ r.op \in {"setAutoStart", "unsetAutoStart"} => (StartBit \in n <=> StartBit \in v)
          /\ r.op \notin {"setAutoStart", "unsetAutoStart"} =>
                (AutoStartBit \in n <=> AutoStartBit \in v)
      BY <1>5, <2>4, <2>5 DEF Tells, Changed, CSRSetters, SetLinkEnable, UnsetLinkEnable,
         SetLinkStart, UnsetLinkStart, SetAutoStart, UnsetAutoStart, StartBit, DisableBit,
         AutoStartBit, ResetBit, IsLinkEnabled, IsLinkStarted, IsAutoStarted
    <2>7. QED
      BY <1>5, <2>3, <2>6 DEF Keeps, IsLinkEnabled, IsLinkStarted, IsAutoStarted
  <1>6. QED BY <1>4, <1>5

-----------------------------------------------------------------------------
(* Every step preserves the types.                                         *)

(* A client that is in a call asked for something valid.                   *)
LEMMA RequestsAreAsked ==
    ASSUME NEW c \in Clients, NEW r \in ConfigRequests, Refusal(c, r) = "none"
    PROVE  Asked(r)
  BY DEF Asked, Refusal

(* Every step keeps the types.                                             *)
LEMMA RouterStaysTyped ==
    ASSUME RouterIInv, [RouterNext]_routerVars
    PROVE  RouterTypes'
  <1> USE DEF RouterTypes, RouterTypeOK, RouterWords
  <1>a. RouterTypes
    BY DEF RouterIInv
  <1>1. CASE UNCHANGED routerVars
    BY <1>a, <1>1 DEF routerVars
  <1>2. ASSUME NEW c \in Clients, SetRMAPInitiator(c) PROVE RouterTypes'
    BY <1>a, <1>2 DEF SetRMAPInitiator
  <1>3. ASSUME NEW c \in Clients, BeginCall(c) PROVE RouterTypes'
    <2>1. PICK r \in ConfigRequests :
            /\ configRequest' = [configRequest EXCEPT ![c] = r]
            /\ IF Refusal(c, r) # "none"
               THEN /\ configOutcome' = [configOutcome EXCEPT ![c] = Refusal(c, r)]
                    /\ UNCHANGED configPlace
               ELSE /\ configOutcome' = [configOutcome EXCEPT ![c] = "none"]
                    /\ configPlace' = [configPlace EXCEPT ![c] =
                           CASE r.op = "writeRoutingTable" -> "write"
                             [] r.op = "readWholeRoutingTable" -> "readAll"
                             [] OTHER -> "read"]
      BY <1>3 DEF BeginCall
    <2>2. Refusal(c, r) \in ConfigOutcomes
      BY DEF Refusal, ConfigOutcomes
    <2>3. configRequest' \in [Clients -> ConfigRequests \cup {NoConfigRequest}]
      BY <1>a, <2>1
    <2>4. configOutcome' \in [Clients -> ConfigOutcomes]
      BY <1>a, <2>1, <2>2 DEF ConfigOutcomes
    <2>5. configPlace' \in [Clients -> {"idle", "read", "readAll", "write", "terminated"}]
      BY <1>a, <2>1
    <2>6. configCalls' \in [Clients -> 0 .. MaxConfigCalls]
      BY <1>a, <1>3, RouterAssumption DEF BeginCall
    <2>7. tableRows' \in [Clients -> Seq(SUBSET RegisterBits)] /\ settled' \in [Clients -> BOOLEAN]
      BY <1>a, <1>3 DEF BeginCall
    <2>8. QED BY <1>a, <1>3, <2>3, <2>4, <2>5, <2>6, <2>7 DEF BeginCall
  <1>4. ASSUME NEW c \in Clients, ReadRegister(c) PROVE RouterTypes'
    <2>1. Asked(configRequest[c])
      BY <1>4 DEF ReadRegister, RouterIInv, ClientInv, InPlace
    <2>2. routerMemory[RegisterAddress(configRequest[c])] \in SUBSET RegisterBits
      BY <1>a, <2>1, AddressesOfRequests DEF Asked
    <2>3. QED BY <1>a, <1>4, <2>2 DEF ReadRegister, ConfigReturn, ConfigOutcomes
  <1>5. ASSUME NEW c \in Clients, ReadRow(c) PROVE RouterTypes'
    <2>1. Len(tableRows[c]) + 1 \in 1 .. Len(TableOrder)
      BY <1>a, <1>5, TableOrderIsASequence DEF ReadRow
    <2>2. RoutingTableToPortNumbers(routerMemory[RoutingTableAddress(
            TableOrder[Len(tableRows[c]) + 1])]) \in SUBSET RegisterBits
      BY <1>a, <2>1, TableOrderIsInTable DEF RegisterAddresses, RoutingTableToPortNumbers
    <2>3. tableRows' \in [Clients -> Seq(SUBSET RegisterBits)]
      BY <1>a, <1>5, <2>2 DEF ReadRow
    <2>4. settled' \in [Clients -> BOOLEAN]
      BY <1>a, <1>5 DEF ReadRow
    <2>5. QED BY <1>a, <1>5, <2>3, <2>4 DEF ReadRow
  <1>6. ASSUME NEW c \in Clients, FinishWholeTable(c) PROVE RouterTypes'
    <2>1. PICK garbage \in InitialWords : tableRows' = [tableRows EXCEPT ![c] = Append(@, garbage)]
      BY <1>6 DEF FinishWholeTable
    <2>2. garbage \in SUBSET RegisterBits
      BY RouterAssumption
    <2>3. tableRows' \in [Clients -> Seq(SUBSET RegisterBits)]
      BY <1>a, <2>1, <2>2
    <2>4. QED BY <1>a, <1>6, <2>3 DEF FinishWholeTable, ConfigReturn, ConfigOutcomes
  <1>7. ASSUME NEW c \in Clients, ReadFails(c) PROVE RouterTypes'
    BY <1>a, <1>7 DEF ReadFails, InitiatorFails, ErrorReply, ConfigReturn, ConfigOutcomes
  <1>8. ASSUME NEW c \in Clients, configPlace[c] = "write"
        PROVE  /\ Asked(configRequest[c])
               /\ RegisterAddress(configRequest[c]) \in RegisterAddresses
               /\ Changed(configRequest[c], wordRead[c]) \in SUBSET RegisterBits
    <2>1. Asked(configRequest[c]) /\ configRequest[c].op \in CSRSetters \cup {"writeRoutingTable"}
      BY <1>8 DEF RouterIInv, ClientInv, InPlace
    <2>2. QED BY <1>a, <2>1, AddressesOfRequests, ChangedIsAWord DEF Asked
  <1>9. ASSUME NEW c \in Clients, WriteRegister(c) PROVE RouterTypes'
    <2> DEFINE a == RegisterAddress(configRequest[c])
               w == Changed(configRequest[c], wordRead[c])
    <2>1. a \in RegisterAddresses /\ w \in SUBSET RegisterBits
      BY <1>8, <1>9 DEF WriteRegister
    <2>2. Stored(a, w) \in SUBSET RegisterBits
      BY <1>a, <2>1, StoredIsAWord
    <2>3. /\ routerMemory' = [routerMemory EXCEPT ![a] = Stored(a, w)]
          /\ settled' \in [Clients -> BOOLEAN]
      BY <1>a, <1>9 DEF WriteRegister, ExecuteWrite
    <2> HIDE DEF w
    <2>4. QED BY <1>a, <1>9, <2>1, <2>2, <2>3 DEF WriteRegister, ConfigReturn, ConfigOutcomes
  <1>10. ASSUME NEW c \in Clients, WriteFails(c) PROVE RouterTypes'
    <2>1. abandonedWrites' \subseteq [address : RegisterAddresses, word : SUBSET RegisterBits]
      BY <1>a, <1>8, <1>10 DEF WriteFails
    <2>2. QED
      BY <1>a, <1>10, <2>1 DEF WriteFails, ErrorReply, ConfigReturn, ConfigOutcomes
  <1>11. ASSUME LateWrite PROVE RouterTypes'
    <2>1. PICK x \in abandonedWrites :
            /\ routerMemory' = [routerMemory EXCEPT ![x.address] = Stored(x.address, x.word)]
            /\ abandonedWrites' = abandonedWrites \ {x}
      BY <1>11 DEF LateWrite
    <2>2. Stored(x.address, x.word) \in SUBSET RegisterBits
      BY <1>a, StoredIsAWord
    <2>3. QED BY <1>a, <1>11, <2>1, <2>2 DEF LateWrite
  <1>12. ASSUME CableChanges PROVE RouterTypes'
    <2>1. PICK r \in ConfigRequests :
            /\ PortIsValid(r)
            /\ routerMemory' = [routerMemory EXCEPT ![RegisterAddress(r)] =
                 IF IsConnected(@) THEN @ \ {ConnectedBit} ELSE @ \cup {ConnectedBit}]
      BY <1>12 DEF CableChanges
    <2> DEFINE v == routerMemory[RegisterAddress(r)]
               w == IF IsConnected(v) THEN v \ {ConnectedBit} ELSE v \cup {ConnectedBit}
    <2>2. routerMemory' = [routerMemory EXCEPT ![RegisterAddress(r)] = w]
      BY <2>1
    <2>3. w \in SUBSET RegisterBits
      BY <1>a, <2>1, AddressesOfRequests DEF RegisterBits, ConnectedBit
    <2> HIDE DEF w
    <2>4. routerMemory' \in [RegisterAddresses -> SUBSET RegisterBits]
      BY <1>a, <2>2, <2>3
    <2>5. QED BY <1>a, <1>12, <2>4 DEF CableChanges
  <1>13. QED
    BY <1>1, <1>2, <1>3, <1>4, <1>5, <1>6, <1>7, <1>9, <1>10, <1>11, <1>12 DEF RouterNext

-----------------------------------------------------------------------------
(* Every step preserves the invariant.                                     *)

(* The invariant holds at first ...                                        *)
LEMMA RouterStartsSound == RouterInit => RouterIInv
  <1> SUFFICES ASSUME RouterInit PROVE RouterIInv
    OBVIOUS
  <1>1. RouterTypes
    BY RouterAssumption DEF RouterInit, RouterTypes, RouterTypeOK, RouterWords, ConfigOutcomes
  <1>2. ASSUME NEW c \in Clients PROVE ClientInv(c)
    BY <1>1 DEF RouterInit, ClientInv, InPlace, WordIsFresh, RowsAreFresh, CallIsDone, Configured
  <1>3. QED BY <1>1, <1>2 DEF RouterIInv

(* The calls that read.                                                     *)
LEMMA ReadingStepsKeepRouter ==
    ASSUME RouterIInv, RouterTypes', NEW c \in Clients,
           \/ SetRMAPInitiator(c) \/ BeginCall(c) \/ ReadRegister(c) \/ ReadRow(c)
           \/ FinishWholeTable(c) \/ ReadFails(c) \/ WriteFails(c)
    PROVE  RouterIInv'
  <1>a. RouterTypes /\ ClientInv(c)
    BY DEF RouterIInv
  <1> USE DEF RouterTypes, RouterTypeOK
  <1>1. routerMemory' = routerMemory
    BY DEF SetRMAPInitiator, BeginCall, ReadRegister, ReadRow, FinishWholeTable, ReadFails, WriteFails
  <1>2. ASSUME NEW d \in Clients \ {c} PROVE StaysPut(d) /\ settled'[d] = settled[d]
    <2>1. CASE SetRMAPInitiator(c)
      BY <2>1 DEF SetRMAPInitiator, StaysPut
    <2>2. CASE BeginCall(c)
      BY <1>a, <2>2 DEF BeginCall, StaysPut
    <2>3. CASE ReadRegister(c)
      BY <1>a, <2>3 DEF ReadRegister, ConfigReturn, StaysPut
    <2>4. CASE ReadRow(c) \/ FinishWholeTable(c)
      BY <1>a, <2>4 DEF ReadRow, FinishWholeTable, ConfigReturn, StaysPut
    <2>5. CASE ReadFails(c) \/ WriteFails(c)
      BY <1>a, <2>5 DEF ReadFails, WriteFails, InitiatorFails, ErrorReply, ConfigReturn, StaysPut
    <2>6. QED BY <2>1, <2>2, <2>3, <2>4, <2>5
  <1>3. CASE SetRMAPInitiator(c)
    BY <1>a, <1>3 DEF SetRMAPInitiator, ClientInv, InPlace, WordIsFresh, RowsAreFresh, RowIsFresh,
       CallIsDone, Configured, RegisterNow, RouterIInv
  <1>4. CASE BeginCall(c)
    <2>1. PICK r \in ConfigRequests :
            /\ configRequest'[c] = r
            /\ IF Refusal(c, r) # "none"
               THEN configOutcome'[c] = Refusal(c, r) /\ configPlace'[c] = configPlace[c]
               ELSE /\ configOutcome'[c] = "none"
                    /\ configPlace'[c] = CASE r.op = "writeRoutingTable" -> "write"
                                           [] r.op = "readWholeRoutingTable" -> "readAll"
                                           [] OTHER -> "read"
      BY <1>a, <1>4 DEF BeginCall
    <2>2. tableRows'[c] = <<>> /\ settled'[c] = FALSE /\ configPlace[c] = "idle"
      BY <1>a, <1>4 DEF BeginCall
    <2>3. Refusal(c, r) # "ok"
      BY DEF Refusal
    <2>4. InPlace(c)'
      <3>1. CASE Refusal(c, r) # "none"
        BY <2>1, <2>2, <2>3, <3>1 DEF InPlace
      <3>2. CASE Refusal(c, r) = "none"
        <4>1. Asked(r) /\ r.op \in CSRSetters \cup TableCalls
          BY <3>2, RequestsAreAsked, RouterAssumption
        <4>2. configOutcome'[c] = "none"
              /\ configPlace'[c] = (CASE r.op = "writeRoutingTable" -> "write"
                                     [] r.op = "readWholeRoutingTable" -> "readAll"
                                     [] OTHER -> "read")
          BY <2>1, <3>2
        <4>3. QED BY <2>1, <4>1, <4>2 DEF InPlace, TableCalls, CSRSetters
      <3>3. QED BY <3>1, <3>2
    <2>5. ClientInv(c)'
      BY <2>2, <2>4, TableOrderIsASequence
         DEF ClientInv, WordIsFresh, RowsAreFresh, CallIsDone, Configured
    <2>6. QED BY <1>1, <1>2, <2>5, OthersOfQuietStep
  <1>5. CASE ReadRegister(c)
    <2>1. /\ configPlace[c] = "read" /\ configRequest'[c] = configRequest[c]
          /\ wordRead'[c] = RegisterNow(c) /\ settled'[c] = TRUE
          /\ \/ configRequest[c].op = "readRoutingTable" /\ configPlace'[c] = "idle"
             \/ /\ configRequest[c].op # "readRoutingTable"
                /\ configPlace'[c] = "write" /\ configOutcome'[c] = configOutcome[c]
      BY <1>a, <1>5 DEF ReadRegister, ConfigReturn, RegisterNow
    <2>2. RegisterNow(c)' = RegisterNow(c)
      BY <1>1, <2>1 DEF RegisterNow
    <2>3. ClientInv(c)'
      <3>1. InPlace(c)' /\ RowsAreFresh(c)'
        BY <1>a, <2>1 DEF ClientInv, InPlace, RowsAreFresh, CSRSetters
      <3>2. WordIsFresh(c)'
        BY <2>1, <2>2 DEF WordIsFresh, Alike
      <3>3. CallIsDone(c)'
        BY <2>1 DEF CallIsDone, Configured, Tells, CSRSetters
      <3>4. QED BY <3>1, <3>2, <3>3 DEF ClientInv
    <2>4. QED BY <1>1, <1>2, <2>3, OthersOfQuietStep
  <1>6. CASE ReadRow(c)
    <2> DEFINE k == Len(tableRows[c]) + 1
               row == RoutingTableToPortNumbers(routerMemory[RoutingTableAddress(TableOrder[k])])
    <2>1. /\ configPlace[c] = "readAll" /\ k < Len(TableOrder)
          /\ tableRows'[c] = Append(tableRows[c], row)
          /\ settled'[c] = ((k = 1) \/ settled[c])
          /\ configPlace'[c] = configPlace[c] /\ configRequest'[c] = configRequest[c]
          /\ configOutcome'[c] = configOutcome[c]
      BY <1>a, <1>6 DEF ReadRow
    <2>2. Len(tableRows[c]) \in Nat /\ Len(tableRows'[c]) = k /\ k \in 1 .. Len(tableRows'[c])
          /\ tableRows'[c][k] = row
          /\ \A i \in 1 .. Len(tableRows[c]) : tableRows'[c][i] = tableRows[c][i]
      <3>1. tableRows[c] \in Seq(RouterWords)
        BY <1>a
      <3> HIDE DEF row
      <3>2. QED BY <2>1, <3>1
    <2>3. ASSUME settled'[c], NEW i \in 1 .. k PROVE RowIsFresh(c, i)'
      <3>1. CASE i = k
        BY <1>1, <2>2, <3>1 DEF RowIsFresh
      <3>2. CASE i # k
        <4>1. i \in 1 .. Len(tableRows[c]) /\ k # 1
          BY <2>2, <3>2
        <4>2. RowIsFresh(c, i)
          BY <1>a, <2>1, <2>3, <4>1 DEF ClientInv, RowsAreFresh
        <4>3. QED BY <1>1, <2>2, <4>1, <4>2 DEF RowIsFresh
      <3>3. QED BY <3>1, <3>2
    <2>4. ClientInv(c)'
      <3>1. RowsAreFresh(c)'
        BY <2>1, <2>2, <2>3, TableOrderIsASequence DEF RowsAreFresh
      <3>2. InPlace(c)' /\ WordIsFresh(c)' /\ CallIsDone(c)'
        BY <1>a, <2>1 DEF ClientInv, InPlace, WordIsFresh, CallIsDone, Configured
      <3>3. QED BY <3>1, <3>2 DEF ClientInv
    <2>5. QED BY <1>1, <1>2, <2>4, OthersOfQuietStep
  <1>7. CASE FinishWholeTable(c)
    <2>1. PICK garbage \in InitialWords :
            tableRows' = [tableRows EXCEPT ![c] = Append(@, garbage)]
      BY <1>7 DEF FinishWholeTable
    <2>2. /\ configPlace[c] = "readAll" /\ Len(tableRows[c]) + 1 = Len(TableOrder)
          /\ tableRows'[c] = Append(tableRows[c], garbage)
          /\ settled'[c] = settled[c] /\ configRequest'[c] = configRequest[c]
          /\ configPlace'[c] = "idle" /\ configOutcome'[c] = "ok"
      BY <1>a, <1>7, <2>1 DEF FinishWholeTable, ConfigReturn
    <2>3. /\ Len(tableRows[c]) \in Nat
          /\ \A i \in 1 .. Len(tableRows[c]) : tableRows'[c][i] = tableRows[c][i]
      <3>1. tableRows[c] \in Seq(RouterWords)
        BY <1>a
      <3>2. QED BY <2>2, <3>1
    <2>4. configRequest[c].op = "readWholeRoutingTable" /\ Asked(configRequest[c])
      BY <1>a, <2>2 DEF ClientInv, InPlace
    <2>5. ASSUME settled[c], NEW i \in 1 .. Len(TableOrder) - 1 PROVE RowIsFresh(c, i)'
      <3>1. i \in 1 .. Len(tableRows[c])
        BY <2>2, <2>3
      <3>2. RowIsFresh(c, i)
        BY <1>a, <2>2, <2>5, <3>1 DEF ClientInv, RowsAreFresh
      <3>3. QED BY <1>1, <2>3, <3>1, <3>2 DEF RowIsFresh
    <2>6. ClientInv(c)'
      <3>1. CallIsDone(c)'
        BY <2>2, <2>4, <2>5 DEF CallIsDone, Configured, Tells, CSRSetters
      <3>2. InPlace(c)' /\ WordIsFresh(c)' /\ RowsAreFresh(c)'
        BY <2>2, <2>4 DEF InPlace, WordIsFresh, RowsAreFresh
      <3>3. QED BY <3>1, <3>2 DEF ClientInv
    <2>7. QED BY <1>1, <1>2, <2>6, OthersOfQuietStep
  <1>8. CASE ReadFails(c) \/ WriteFails(c)
    <2>1. /\ configPlace[c] \in {"read", "readAll", "write"}
          /\ configPlace'[c] \in {"idle", "terminated"}
          /\ configRequest'[c] = configRequest[c] /\ settled'[c] = FALSE
      BY <1>a, <1>8 DEF ReadFails, WriteFails, InitiatorFails, ErrorReply, ConfigReturn
    <2>2. ClientInv(c)'
      BY <1>a, <2>1 DEF ClientInv, InPlace, WordIsFresh, RowsAreFresh, CallIsDone, Configured
    <2>3. QED BY <1>1, <1>2, <2>2, OthersOfQuietStep
  <1>9. QED BY <1>3, <1>4, <1>5, <1>6, <1>7, <1>8

(* A write that the router executes, and its client's return.               *)
LEMMA WriteRegisterKeepsRouter ==
    ASSUME DividersFit, PortsFit, RouterIInv, RouterTypes', NEW c \in Clients, WriteRegister(c)
    PROVE  RouterIInv'
  <1> USE DEF RouterTypes, RouterTypeOK
  <1> DEFINE r == configRequest[c]
             a == RegisterAddress(r)
             w == Changed(r, wordRead[c])
  <1>1. RouterTypes /\ ClientInv(c) /\ configPlace[c] = "write"
    BY DEF RouterIInv, WriteRegister
  <1>2. Asked(r) /\ r \in ConfigRequests /\ PortIsValid(r)
        /\ r.op \in CSRSetters \cup {"writeRoutingTable"}
    BY <1>1 DEF ClientInv, InPlace, Asked
  <1>3. /\ a \in RegisterAddresses
        /\ r.op \in CSRSetters => a \in CSRs
        /\ r.op = "writeRoutingTable" => a \in TableAddresses
    BY <1>2, AddressesOfRequests DEF TableCalls
  <1>4. /\ routerMemory' = [routerMemory EXCEPT ![a] = Stored(a, w)]
        /\ settled'[c] = (settled[c] \/ r.op = "writeRoutingTable")
        /\ before'[c] = routerMemory[a]
        /\ configPlace'[c] = "idle" /\ configRequest'[c] = r
        /\ configRequest' = configRequest
    BY <1>1 DEF WriteRegister, ExecuteWrite, ConfigReturn
  <1>5. routerMemory'[a] = Stored(a, w) /\ RegisterNow(c)' = Stored(a, w)
    BY <1>1, <1>3, <1>4 DEF RegisterNow
  <1>6. ASSUME NEW d \in Clients \ {c} PROVE ClientInv(d)'
    <2>1. StaysPut(d)
      BY <1>1 DEF WriteRegister, ConfigReturn, StaysPut
    <2>2. settled'[d] => /\ settled[d] /\ RegisterAddress(configRequest[d]) # a
                         /\ configRequest[d].op = "readWholeRoutingTable" => a \notin TableAddresses
      BY <1>1 DEF WriteRegister, ExecuteWrite, TableAddresses
    <2>3. \A x \in RegisterAddresses : x # a => routerMemory'[x] = routerMemory[x]
      BY <1>1, <1>4
    <2>4. TableAddresses \subseteq RegisterAddresses
      BY DEF TableAddresses, RegisterAddresses
    <2>5. Asked(configRequest[d]) => RegisterAddress(configRequest[d]) \in RegisterAddresses
      BY AddressesOfRequests DEF Asked
    <2>6. Undisturbed(d)
      BY <2>2, <2>3, <2>4, <2>5 DEF Undisturbed, Alike, TableAddresses
    <2>7. QED BY <2>1, <2>6, OthersAreKept DEF RouterIInv
  <1>7. CallIsDone(c)'
    <2> SUFFICES ASSUME settled'[c]
                 PROVE  /\ Tells(r, Stored(a, w))
                        /\ r.op \in CSRSetters => Keeps(r, Stored(a, w), routerMemory[a])
                        /\ r.op # "readWholeRoutingTable"
      BY <1>4, <1>5 DEF CallIsDone, Configured
    <2>1. CASE r.op \in CSRSetters
      <3>1. settled[c] /\ Alike(wordRead[c], routerMemory[a])
        BY <1>1, <1>4, <2>1 DEF ClientInv, WordIsFresh, RegisterNow, CSRSetters
      <3>2. Stored(a, w) = (routerMemory[a] \ Writable) \cup (w \cap Writable)
        BY <1>3, <2>1 DEF Stored, Writable, CSRs
      <3>3. wordRead[c] \in RouterWords /\ routerMemory[a] \in RouterWords
        BY <1>1, <1>3 DEF RouterWords
      <3> HIDE DEF r, a
      <3>4. Tells(r, Stored(a, w)) /\ Keeps(r, Stored(a, w), routerMemory[a])
        BY <1>2, <2>1, <3>1, <3>2, <3>3, WriteDoesWhatWasAsked
      <3>5. QED BY <2>1, <3>4 DEF CSRSetters
    <2>2. CASE r.op = "writeRoutingTable"
      <3>1. a \notin CSRs
        BY <1>3, <2>2, TableIsNoCSR
      <3>2. Stored(a, w) = r.arg \cap 0 .. 15
        BY <2>2, <3>1 DEF Stored, CSRs, Changed, PortNumbersToRoutingTable
      <3>3. r.arg \cap 0 .. 15 = r.arg
        BY <1>2, <2>2 DEF PortsFit
      <3>4. QED BY <2>2, <3>2, <3>3 DEF Tells, RoutingTableToPortNumbers, CSRSetters
    <2>3. QED BY <1>2, <2>1, <2>2
  <1>8. InPlace(c)' /\ WordIsFresh(c)' /\ RowsAreFresh(c)'
    BY <1>2, <1>4 DEF InPlace, WordIsFresh, RowsAreFresh
  <1>9. QED BY <1>6, <1>7, <1>8 DEF ClientInv, RouterIInv

(* What the router does by itself.                                          *)
LEMMA OwnStepsKeepRouter ==
    ASSUME RouterIInv, RouterTypes', LateWrite \/ CableChanges
    PROVE  RouterIInv'
  <1> USE DEF RouterTypes, RouterTypeOK
  <1>1. RouterTypes
    BY DEF RouterIInv
  <1>2. ASSUME NEW d \in Clients PROVE ClientInv(d)'
    <2>1. StaysPut(d)
      BY DEF LateWrite, CableChanges, StaysPut
    <2>2. CASE LateWrite
      <3>1. settled'[d] = FALSE
        BY <2>2 DEF LateWrite
      <3>2. QED BY <1>1, <2>1, <3>1, OthersAreKept DEF Undisturbed, RouterIInv
    <2>3. CASE CableChanges
      <3>1. PICK r \in ConfigRequests :
              /\ r.op \in CSRSetters /\ PortIsValid(r)
              /\ routerMemory' = [routerMemory EXCEPT ![RegisterAddress(r)] =
                   IF IsConnected(@) THEN @ \ {ConnectedBit} ELSE @ \cup {ConnectedBit}]
              /\ settled' = settled
        BY <2>3 DEF CableChanges
      <3>2. RegisterAddress(r) \in RegisterAddresses /\ RegisterAddress(r) \in CSRs
        BY <3>1, AddressesOfRequests
      <3>3. \A x \in RegisterAddresses :
              /\ Alike(routerMemory'[x], routerMemory[x])
              /\ x \in TableAddresses => routerMemory'[x] = routerMemory[x]
        <4> TAKE x \in RegisterAddresses
        <4>1. CASE x = RegisterAddress(r)
          <5>1. x \notin TableAddresses
            BY <3>2, <4>1, TableIsNoCSR
          <5>2. routerMemory'[x] \in {routerMemory[x] \ {ConnectedBit},
                                      routerMemory[x] \cup {ConnectedBit}}
            BY <1>1, <3>1, <4>1
          <5>3. QED BY <5>1, <5>2 DEF Alike
        <4>2. CASE x # RegisterAddress(r)
          <5>1. routerMemory'[x] = routerMemory[x]
            BY <1>1, <3>1, <4>2
          <5>2. QED BY <5>1 DEF Alike
        <4>3. QED BY <4>1, <4>2
      <3>4. TableAddresses \subseteq RegisterAddresses
        BY DEF TableAddresses, RegisterAddresses
      <3>5. Asked(configRequest[d]) =>
              /\ RegisterAddress(configRequest[d]) \in RegisterAddresses
              /\ configRequest[d].op \notin CSRSetters =>
                    RegisterAddress(configRequest[d]) \in TableAddresses
        BY AddressesOfRequests, RouterAssumption DEF Asked
      <3>6. Undisturbed(d)
        BY <3>1, <3>3, <3>4, <3>5 DEF Undisturbed, TableAddresses
      <3>7. QED BY <1>1, <2>1, <3>6, OthersAreKept DEF RouterIInv
    <2>4. QED BY <2>2, <2>3
  <1>3. QED BY <1>2 DEF RouterIInv

(* ... and is kept by every step.                                          *)
LEMMA RouterStaysSound ==
    ASSUME DividersFit, PortsFit, RouterIInv, [RouterNext]_routerVars
    PROVE  RouterIInv'
  <1>1. RouterTypes'
    BY RouterStaysTyped
  <1>2. CASE UNCHANGED routerVars
    <2>1. ASSUME NEW d \in Clients PROVE ClientInv(d)'
      BY <1>2 DEF routerVars, RouterIInv, ClientInv, InPlace, WordIsFresh, RowsAreFresh, RowIsFresh,
         CallIsDone, Configured, RegisterNow
    <2>2. QED BY <1>1, <2>1 DEF RouterIInv
  <1>3. QED
    BY <1>1, <1>2, ReadingStepsKeepRouter, WriteRegisterKeepsRouter, OwnStepsKeepRouter
       DEF RouterNext

(* A call that returned has set what it was asked to, kept the other       *)
(* settings as the router held them, and got rows that belong together     *)
(* (RouterInv): for any number of clients, calls and faults, if the        *)
(* dividers of the router fit the six bits that the getter reads and no    *)
(* request goes to a port that has no bit in a row of the table.           *)
THEOREM RouterIsSound ==
    ASSUME DividersFit, PortsFit
    PROVE  RouterSpec => []RouterInv
  <1>1. ASSUME RouterIInv PROVE RouterInv
    <2>1. RouterTypeOK
      BY <1>1 DEF RouterIInv, RouterTypes
    <2>2. ASSUME NEW c \in Clients PROVE CallIsDone(c)
      BY <1>1 DEF RouterIInv, ClientInv
    <2>3. GettersTellWhatWasSet
      BY <2>2 DEF GettersTellWhatWasSet, CallIsDone, Tells
    <2>4. OtherSettingsKept
      BY <2>2 DEF OtherSettingsKept, CallIsDone, Keeps
    <2>5. WholeTableAligned
      BY <2>2 DEF WholeTableAligned, CallIsDone, RowIsFresh
    <2>6. QED BY <2>1, <2>3, <2>4, <2>5 DEF RouterInv
  <1>2. RouterIInv /\ [RouterNext]_routerVars => RouterIInv'
    BY RouterStaysSound
  <1>3. QED BY <1>1, <1>2, RouterStartsSound, PTL DEF RouterSpec
=============================================================================
