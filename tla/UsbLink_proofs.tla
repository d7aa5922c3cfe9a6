--------------------------- MODULE UsbLink_proofs ---------------------------
(***************************************************************************)
(* Theorems about UsbLink, for every size of the buffer and every bound.   *)
(***************************************************************************)
EXTENDS UsbLink, TLAPS, FiniteSetTheorems

-----------------------------------------------------------------------------
(* What the operators of write() return.                                   *)
LEMMA UnitsTyped ==
  ASSUME NEW m \in Messages \cup {Nothing}
  PROVE  /\ Units(m) \in Seq(Unit)
         /\ Len(Units(m)) = SizeOf(m)
         /\ SizeOf(m) \in 0 .. BufferSize
<1>1. SizeOf(m) \in 0 .. BufferSize
  BY BufferSizeAssumption DEF SizeOf
<1>2. Units(m) \in [1 .. SizeOf(m) -> Unit]
  BY <1>1, BufferSizeAssumption DEF Units, Unit
<1> QED
  BY <1>1, <1>2

LEMMA TornTyped == Torn \in Unit
BY BufferSizeAssumption DEF Torn, Unit

LEMMA ToSendTyped ==
  ASSUME pending \in Seq(Unit), Len(pending) <= BufferSize, msg \in Messages \cup {Nothing}
  PROVE  /\ ToSend \in Seq(Unit) /\ Len(ToSend) <= BufferSize
         /\ Left \in Seq(Unit) /\ Len(Left) <= BufferSize
<1>1. /\ Units(msg) \in Seq(Unit)
      /\ Len(Units(msg)) = SizeOf(msg)
      /\ SizeOf(msg) \in 0 .. BufferSize
  BY UnitsTyped
<1>2. /\ pending \o Units(msg) \in Seq(Unit)
      /\ Len(pending \o Units(msg)) = Len(pending) + Len(Units(msg))
  BY <1>1
<1>3. CASE pending = <<>>
  BY <1>1, <1>2, <1>3 DEF ToSend, Left
<1>4. CASE pending # <<>> /\ Overflows
  BY <1>1, <1>4 DEF ToSend, Left
<1>5. CASE pending # <<>> /\ ~Overflows
  BY <1>1, <1>2, <1>5, BufferSizeAssumption DEF ToSend, Left, Overflows
<1> QED
  BY <1>3, <1>4, <1>5

LEMMA ClobberedTyped ==
  ASSUME flight.data \in Seq(Unit), NEW buffer, NEW first \in Int, NEW units \in Seq(Unit),
         NEW d \in Clobbered(buffer, first, units)
  PROVE  d \in Seq(Unit) /\ Len(d) = Len(flight.data)
<1>1. CASE flight.from # buffer
  BY <1>1 DEF Clobbered
<1>2. CASE flight.from = buffer
  <2>1. Range(flight.data) \subseteq Unit /\ Range(units) \subseteq Unit
    BY DEF Range
  <2>2. d \in [DOMAIN flight.data -> Range(flight.data) \cup Range(units) \cup {Torn}]
    BY <1>2 DEF Clobbered
  <2>3. Range(flight.data) \cup Range(units) \cup {Torn} \subseteq Unit
    BY <2>1, TornTyped
  <2>4. d \in [1 .. Len(flight.data) -> Unit]
    BY <2>2, <2>3
  <2> QED
    BY <2>4
<1> QED
  BY <1>1, <1>2

LEMMA Bounds ==
  /\ BufferSize \in Nat /\ BufferSize >= 1
  /\ MaxPackets \in Nat /\ MaxTelemetry \in Nat /\ MaxCuts \in Nat
BY BufferSizeAssumption, BoundsAssumption

(* What write() leaves behind when it returns to the tick.                 *)
LEMMA ReturnTyped ==
  ASSUME TypeOK, NEW ok \in BOOLEAN, Return(ok)
  PROVE  /\ reply' \in [Replies -> 0 .. MaxPackets]
         /\ accepted' \in Seq(Messages)
         /\ stage' \in {"telemetry"} \cup Replies
         /\ step' \in {"choose", "check"}
         /\ msg' \in Messages \cup {Nothing}
<1>1. reply' \in [Replies -> 0 .. MaxPackets]
  BY Bounds DEF TypeOK, Return
<1>2. accepted' \in Seq(Messages)
  BY DEF TypeOK, Return
<1>3. ASSUME NEW k \in Replies, reply'[k] # 0
      PROVE  [kind |-> k, n |-> reply'[k]] \in Messages
  BY <1>1, <1>3, Bounds DEF Messages
<1>4. /\ stage' \in {"telemetry"} \cup Replies
      /\ step' \in {"choose", "check"}
      /\ msg' \in Messages \cup {Nothing}
  BY <1>3 DEF Return, Proceed, Replies
<1> QED
  BY <1>1, <1>2, <1>4

-----------------------------------------------------------------------------
(* The flag and the transfer.  A transfer out of tx_buffer holds the flag  *)
(* from before it starts until it ends or is cut, and the copy into        *)
(* tx_buffer is only reached with the flag up: that is why it never meets  *)
(* a transfer.                                                             *)
FlagGuardsBuffer ==
  /\ flight.from = "tx" => ~flag /\ flight.data = handed
  /\ step = "start" => flag
  /\ step = "transmit" => ~flag /\ flight.from = "none" /\ (configured \/ cuts > 0)
LinkInv == TypeOK /\ FlagGuardsBuffer /\ StuckOnlyAfterReset

LEMMA LinkInit == Init => LinkInv
<1> SUFFICES ASSUME Init PROVE LinkInv
  OBVIOUS
<1>1. flight \in [from : {"none", "tx", "pending"}, data : Seq(Unit)]
  BY DEF Init, Idle
<1>2. Len(flight.data) <= BufferSize /\ Len(pending) <= BufferSize
  BY Bounds DEF Init, Idle
<1>3. /\ pending \in Seq(Unit) /\ wire \in Seq(Unit) /\ handed \in Seq(Unit)
      /\ requests \in Seq(Replies) /\ Len(requests) <= MaxPackets
      /\ accepted \in Seq(Messages) /\ handled \in Seq(1 .. MaxPackets)
  BY Bounds DEF Init
<1>4. /\ rxBuffer \in 0 .. MaxPackets /\ taken \in 0 .. MaxPackets
      /\ reply \in [Replies -> 0 .. MaxPackets]
      /\ telemetries \in 0 .. MaxTelemetry /\ cuts \in 0 .. MaxCuts
  BY Bounds DEF Init
<1>5. TypeOK
  BY <1>1, <1>2, <1>3, <1>4 DEF Init, TypeOK
<1> QED
  BY <1>5 DEF Init, LinkInv, FlagGuardsBuffer, StuckOnlyAfterReset, Stuck, Idle

LEMMA LinkStep == LinkInv /\ [Next]_vars => LinkInv'
<1> SUFFICES ASSUME LinkInv, [Next]_vars PROVE LinkInv'
  OBVIOUS
<1> USE DEF LinkInv
<1>0. CASE UNCHANGED vars
  BY <1>0 DEF vars, rxVars, txVars, TypeOK, FlagGuardsBuffer, StuckOnlyAfterReset, Stuck,
     TxState
<1>1. CASE ReadSize
  <2>1. TypeOK'
    BY <1>1 DEF ReadSize, TypeOK, txVars
  <2> QED
    BY <1>1, <2>1 DEF ReadSize, FlagGuardsBuffer, StuckOnlyAfterReset, Stuck, TxState, txVars
<1>2. CASE CopyReceived
  <2>1. TypeOK'
    BY <1>2, Bounds DEF CopyReceived, TypeOK, txVars
  <2> QED
    BY <1>2, <2>1 DEF CopyReceived, FlagGuardsBuffer, StuckOnlyAfterReset, Stuck, TxState,
       txVars
<1>3. CASE ClearSize
  <2>1. TypeOK'
    BY <1>3 DEF ClearSize, SizeCleared, TypeOK, txVars
  <2> QED
    BY <1>3, <2>1 DEF ClearSize, FlagGuardsBuffer, StuckOnlyAfterReset, Stuck, TxState, txVars
<1>4. CASE Rearm
  <2>1. reply' \in [Replies -> 0 .. MaxPackets] /\ handled' \in Seq(1 .. MaxPackets)
    <3>1. CASE configured /\ taken # 0
      <4>1. taken \in 1 .. MaxPackets
        BY <3>1, Bounds DEF TypeOK
      <4>2. handled' = Append(handled, taken)
            /\ reply' = [reply EXCEPT ![requests[taken]] = taken]
        BY <1>4, <3>1 DEF Rearm
      <4>3. handled \in Seq(1 .. MaxPackets) /\ reply \in [Replies -> 0 .. MaxPackets]
            /\ taken \in 0 .. MaxPackets
        BY DEF TypeOK
      <4>4. Append(handled, taken) \in Seq(1 .. MaxPackets)
        BY <4>1, <4>3
      <4>5. [reply EXCEPT ![requests[taken]] = taken] \in [Replies -> 0 .. MaxPackets]
        BY <4>3
      <4> QED
        BY <4>2, <4>4, <4>5
    <3>2. CASE ~(configured /\ taken # 0)
      BY <1>4, <3>2 DEF Rearm, TypeOK
    <3> QED
      BY <3>1, <3>2
  <2>2. TypeOK'
    <3>1. armed' \in {"none", "user", "rx"}
      BY <1>4 DEF Rearm, TypeOK
    <3>2. /\ taken' = 0 /\ size' = 0 /\ stage' = "flush" /\ step' = "check"
          /\ msg' = Nothing
          /\ UNCHANGED <<configured, rxSize, rxBuffer, exposed, requests, txVars,
                         telemetries, cuts>>
      BY <1>4 DEF Rearm
    <3> QED
      BY <2>1, <3>1, <3>2, Bounds DEF TypeOK, txVars
  <2> QED
    BY <1>4, <2>2 DEF Rearm, FlagGuardsBuffer, StuckOnlyAfterReset, Stuck, TxState, txVars
<1>5. CASE CheckAvailable
  <2>1. CASE NothingToSend
    <3>1. Return(TRUE)
      BY <1>5, <2>1 DEF CheckAvailable
    <3>2. TypeOK'
      BY <1>5, <3>1, ReturnTyped DEF CheckAvailable, TypeOK, rxVars
    <3> QED
      BY <1>5, <3>1, <3>2, ReturnTyped DEF CheckAvailable, FlagGuardsBuffer,
         StuckOnlyAfterReset, Stuck, TxState
  <2>2. CASE ~NothingToSend
    <3>1. TypeOK'
      BY <1>5, <2>2 DEF CheckAvailable, TypeOK, rxVars
    <3> QED
      BY <1>5, <2>2, <3>1 DEF CheckAvailable, Available, FlagGuardsBuffer,
         StuckOnlyAfterReset, Stuck, TxState
  <2> QED
    BY <2>1, <2>2
<1>6. CASE AppendPending
  <2>1. Return(TRUE)
    BY <1>6 DEF AppendPending
  <2>2. Units(msg) \in Seq(Unit) /\ Len(Units(msg)) = SizeOf(msg)
    BY UnitsTyped DEF TypeOK
  <2>3. pending' \in Seq(Unit) /\ Len(pending') <= BufferSize
    <3>0. pending \in Seq(Unit) /\ Len(pending) \in Nat
      BY DEF TypeOK
    <3>1. /\ pending \o Units(msg) \in Seq(Unit)
          /\ Len(pending \o Units(msg)) = Len(pending) + Len(Units(msg))
      BY <2>2, <3>0
    <3>2. SizeOf(msg) \in Int
      BY UnitsTyped, Bounds DEF TypeOK
    <3>3. Len(pending) + SizeOf(msg) <= BufferSize
      <4>1. ~Overflows
        BY <1>6 DEF AppendPending
      <4> QED
        BY <3>0, <3>2, <4>1, Bounds DEF Overflows
    <3> QED
      BY <1>6, <2>2, <3>1, <3>3 DEF AppendPending
  <2>4. PICK d \in Clobbered("pending", Len(pending) + 1, Units(msg)) :
          flight' = [flight EXCEPT !.data = d]
    BY <1>6 DEF AppendPending
  <2>5. d \in Seq(Unit) /\ Len(d) = Len(flight.data)
    BY <2>2, ClobberedTyped DEF TypeOK
  <2>6. flight' \in [from : {"none", "tx", "pending"}, data : Seq(Unit)]
        /\ Len(flight'.data) <= BufferSize /\ flight'.from = flight.from
    BY <2>4, <2>5, Bounds DEF TypeOK
  <2>7. flight.from = "tx" => flight' = flight
    BY <2>4 DEF Clobbered, TypeOK
  <2>8. TypeOK'
    BY <1>6, <2>1, <2>3, <2>6, ReturnTyped DEF AppendPending, TypeOK, rxVars
  <2> QED
    BY <1>6, <2>1, <2>6, <2>7, <2>8, ReturnTyped DEF AppendPending, FlagGuardsBuffer,
       StuckOnlyAfterReset, Stuck, TxState
<1>7. CASE PendingOverflows
  <2>1. TypeOK'
    BY <1>7 DEF PendingOverflows, TypeOK, rxVars, txVars
  <2> QED
    BY <1>7, <2>1 DEF PendingOverflows, FlagGuardsBuffer, StuckOnlyAfterReset, Stuck, TxState,
       txVars
<1>8. CASE StartTransmit
  <2>1. /\ ToSend \in Seq(Unit) /\ Len(ToSend) <= BufferSize
        /\ Left \in Seq(Unit) /\ Len(Left) <= BufferSize
    BY ToSendTyped DEF TypeOK
  <2>2. flight.from # "tx"
    BY <1>8 DEF StartTransmit, FlagGuardsBuffer
  <2>3. flight' = flight
    BY <1>8, <2>2 DEF StartTransmit, Clobbered, TypeOK
  <2>4. CASE configured /\ ~TxState
    <3>1. TypeOK'
      BY <1>8, <2>3, <2>4 DEF StartTransmit, TypeOK, rxVars
    <3> QED
      BY <1>8, <2>3, <2>4, <3>1 DEF StartTransmit, FlagGuardsBuffer, StuckOnlyAfterReset,
         Stuck, TxState, TypeOK
  <2>5. CASE ~(configured /\ ~TxState)
    <3>1. Return(FALSE)
      BY <1>8, <2>5 DEF StartTransmit
    <3>2. TypeOK'
      BY <1>8, <2>1, <2>3, <2>5, <3>1, ReturnTyped DEF StartTransmit, TypeOK, rxVars
    <3> QED
      BY <1>8, <2>2, <2>3, <2>5, <3>1, <3>2, ReturnTyped DEF StartTransmit, FlagGuardsBuffer,
         StuckOnlyAfterReset, Stuck, TxState
  <2> QED
    BY <2>4, <2>5
<1>9. CASE TransmitPacket
  <2>1. /\ ToSend \in Seq(Unit) /\ Len(ToSend) <= BufferSize
        /\ Left \in Seq(Unit) /\ Len(Left) <= BufferSize
    BY ToSendTyped DEF TypeOK
  <2>2. Return(configured) /\ configured \in BOOLEAN
    BY <1>9 DEF TransmitPacket, TypeOK
  <2>3. /\ flight' \in [from : {"none", "tx", "pending"}, data : Seq(Unit)]
        /\ Len(flight'.data) <= BufferSize
        /\ handed' \in Seq(Unit)
    BY <1>9, <2>1 DEF TransmitPacket, TypeOK
  <2>4. TypeOK'
    BY <1>9, <2>1, <2>2, <2>3, ReturnTyped DEF TransmitPacket, TypeOK, rxVars
  <2>5. FlagGuardsBuffer'
    BY <1>9, <2>2, ReturnTyped DEF TransmitPacket, FlagGuardsBuffer
  <2>6. StuckOnlyAfterReset'
    BY <1>9 DEF TransmitPacket, FlagGuardsBuffer, StuckOnlyAfterReset, Stuck, TxState
  <2> QED
    BY <2>4, <2>5, <2>6
<1>10. CASE DirectWrite
  <2>1. Units(msg) \in Seq(Unit) /\ Len(Units(msg)) = SizeOf(msg) /\ SizeOf(msg) <= BufferSize
    BY UnitsTyped, Bounds DEF TypeOK
  <2>2. CASE configured /\ ~TxState
    <3>1. PICK c \in [DOMAIN pending -> {"old", "new", "torn"}] :
            flight' = [from |-> "pending",
                       data |-> [i \in DOMAIN pending |->
                          IF i > Len(Units(msg)) THEN pending[i]
                          ELSE IF c[i] = "old" THEN pending[i]
                          ELSE IF c[i] = "new" THEN Units(msg)[i] ELSE Torn]]
      BY <1>10, <2>2 DEF DirectWrite
    <3>2. flight'.data \in [1 .. Len(pending) -> Unit]
      BY <2>1, <3>1, TornTyped DEF TypeOK
    <3>3. flight' \in [from : {"none", "tx", "pending"}, data : Seq(Unit)]
          /\ Len(flight'.data) <= BufferSize
      BY <3>1, <3>2 DEF TypeOK
    <3>4. Return(TRUE)
      BY <1>10, <2>2 DEF DirectWrite
    <3>5. TypeOK'
      BY <1>10, <2>1, <2>2, <3>3, <3>4, ReturnTyped DEF DirectWrite, TypeOK, rxVars
    <3>6. flight'.from = "pending"
      BY <3>1
    <3> QED
      BY <1>10, <2>2, <3>4, <3>5, <3>6, ReturnTyped DEF DirectWrite, FlagGuardsBuffer,
         StuckOnlyAfterReset, Stuck, TxState
  <2>3. CASE ~(configured /\ ~TxState)
    <3>1. Return(FALSE)
      BY <1>10, <2>3 DEF DirectWrite
    <3>2. {u.of : u \in Range(pending)} \subseteq Messages \cup {Nothing}
      <4>1. \A u \in Range(pending) : u \in Unit
        BY DEF TypeOK, Range
      <4> QED
        BY <4>1 DEF Unit
    <3>3. TypeOK'
      <4>1. dropped' \subseteq Messages \cup {Nothing}
        BY <1>10, <2>3, <3>2 DEF DirectWrite, TypeOK
      <4>2. pending' \in Seq(Unit) /\ Len(pending') <= BufferSize
        <5>1. pending' = <<>>
          BY <1>10, <2>3 DEF DirectWrite
        <5> QED
          BY <5>1, Bounds
      <4> QED
        BY <1>10, <2>3, <3>1, <4>1, <4>2, ReturnTyped DEF DirectWrite, TypeOK, rxVars
    <3> QED
      BY <1>10, <2>3, <3>1, <3>3, ReturnTyped DEF DirectWrite, FlagGuardsBuffer,
         StuckOnlyAfterReset, Stuck, TxState
  <2> QED
    BY <2>2, <2>3
<1>11. ASSUME NEW k \in Telemetries, SendTelemetry(k)
       PROVE  LinkInv'
  <2>1. msg' \in Messages /\ telemetries' \in 0 .. MaxTelemetry
    BY <1>11, Bounds DEF SendTelemetry, TypeOK, Messages
  <2>2. TypeOK'
    BY <1>11, <2>1 DEF SendTelemetry, TypeOK, rxVars, txVars
  <2> QED
    BY <1>11, <2>2 DEF SendTelemetry, FlagGuardsBuffer, StuckOnlyAfterReset, Stuck, TxState,
       txVars
<1>12. CASE TickEnds
  <2>1. TypeOK'
    BY <1>12 DEF TickEnds, TypeOK, rxVars, txVars
  <2> QED
    BY <1>12, <2>1 DEF TickEnds, FlagGuardsBuffer, StuckOnlyAfterReset, Stuck, TxState, txVars
<1>13. CASE TransferCompletes
  <2>1. wire' \in Seq(Unit)
    BY <1>13 DEF TransferCompletes, TypeOK
  <2>2. flight' = Idle /\ Idle \in [from : {"none", "tx", "pending"}, data : Seq(Unit)]
        /\ Len(Idle.data) <= BufferSize /\ Idle.from = "none"
    BY <1>13, Bounds DEF TransferCompletes, Idle
  <2>3. TypeOK'
    BY <1>13, <2>1, <2>2 DEF TransferCompletes, FlagAfterTransfer, TypeOK, rxVars
  <2> QED
    BY <1>13, <2>2, <2>3 DEF TransferCompletes, FlagAfterTransfer, FlagGuardsBuffer,
       StuckOnlyAfterReset, Stuck, TxState
<1>14. CASE Cut
  <2>1. cuts' \in 0 .. MaxCuts /\ cuts' > 0
    BY <1>14, Bounds DEF Cut, TypeOK
  <2>2. flight' = Idle /\ Idle \in [from : {"none", "tx", "pending"}, data : Seq(Unit)]
        /\ Len(Idle.data) <= BufferSize /\ Idle.from = "none"
    BY <1>14, Bounds DEF Cut, Idle
  <2>3. exposed' \subseteq 1 .. MaxPackets
    <3>1. DOMAIN requests = 1 .. Len(requests) /\ Len(requests) \in Nat
      BY DEF TypeOK
    <3>2. DOMAIN requests \subseteq 1 .. MaxPackets /\ exposed \subseteq 1 .. MaxPackets
      BY <3>1, Bounds DEF TypeOK
    <3> QED
      BY <1>14, <3>2 DEF Cut
  <2>4. TypeOK'
    <3>1. /\ configured' = FALSE /\ armed' = "none" /\ handed' = <<>>
          /\ UNCHANGED <<rxSize, rxBuffer, size, taken, handled, requests, flag, pending,
                         wire, accepted, dropped, direct, stage, step, msg, reply,
                         telemetries>>
      BY <1>14 DEF Cut
    <3>2. /\ flight' \in [from : {"none", "tx", "pending"}, data : Seq(Unit)]
          /\ Len(flight'.data) <= BufferSize
          /\ handed' \in Seq(Unit)
      BY <2>2, <3>1
    <3> QED
      BY <2>1, <2>3, <3>1, <3>2 DEF TypeOK
  <2> QED
    BY <1>14, <2>1, <2>2, <2>4 DEF Cut, FlagGuardsBuffer, StuckOnlyAfterReset
<1>15. CASE Configure
  <2>1. TypeOK'
    BY <1>15 DEF Configure, TypeOK, txVars
  <2> QED
    BY <1>15, <2>1 DEF Configure, FlagGuardsBuffer, StuckOnlyAfterReset, Stuck, TxState,
       txVars
<1>16. ASSUME NEW k \in Replies, PacketArrives(k)
       PROVE  LinkInv'
  <2>1. requests' \in Seq(Replies) /\ Len(requests') = Len(requests) + 1
        /\ Len(requests') \in 1 .. MaxPackets
    BY <1>16, Bounds DEF PacketArrives, TypeOK
  <2>2. rxBuffer' \in 0 .. MaxPackets /\ exposed' \subseteq 1 .. MaxPackets
    <3>1. rxBuffer' \in {rxBuffer, Len(requests')}
          /\ exposed' \subseteq exposed \cup {Len(requests')}
      BY <1>16 DEF PacketArrives
    <3>2. Len(requests') \in 0 .. MaxPackets
      BY <2>1, Bounds
    <3> QED
      BY <2>1, <3>1, <3>2 DEF TypeOK
  <2>3. TypeOK'
    BY <1>16, <2>1, <2>2 DEF PacketArrives, ArmedAfterPacket, TypeOK, txVars
  <2> QED
    BY <1>16, <2>3 DEF PacketArrives, FlagGuardsBuffer, StuckOnlyAfterReset, Stuck, TxState,
       txVars
<1> QED
  BY <1>0, <1>1, <1>2, <1>3, <1>4, <1>5, <1>6, <1>7, <1>8, <1>9, <1>10, <1>11, <1>12, <1>13,
     <1>14, <1>15, <1>16 DEF Next, MainLoop, Bus

\* Every variable has its type, and neither buffer is ever written past its
\* end (CommInterruptsHandler::write checks the sizes before each copy).
THEOREM BuffersHold == Spec => []TypeOK
<1>1. LinkInv => TypeOK
  BY DEF LinkInv
<1> QED
  BY <1>1, LinkInit, LinkStep, PTL DEF Spec

\* The bytes of a transfer out of tx_buffer do not change under it, whatever
\* is cut, refused or late.
THEOREM TransfersStayWhole == Spec => []TransferStaysWhole
<1>1. LinkInv => TransferStaysWhole
  BY DEF LinkInv, FlagGuardsBuffer, TransferStaysWhole
<1> QED
  BY <1>1, LinkInit, LinkStep, PTL DEF Spec

\* The transmit flag is left cleared with no transfer to set it only by a
\* reset of the bus.
THEOREM OnlyResetsStick == Spec => []StuckOnlyAfterReset
<1>1. LinkInv => StuckOnlyAfterReset
  BY DEF LinkInv
<1> QED
  BY <1>1, LinkInit, LinkStep, PTL DEF Spec

-----------------------------------------------------------------------------
(* Reception.  A packet that was not exposed is either ahead of read() in  *)
(* the buffer, with the endpoint shut behind it, or it has been handled    *)
(* and whatever read() may still take is later than it.                    *)
Ahead(p) ==
  /\ rxSize = 1 => rxBuffer > p
  /\ step = "copy" /\ size = 1 => rxBuffer > p
  /\ taken # 0 => taken > p
Waiting(p) ==
  /\ rxBuffer = p /\ armed = "none"
  /\ \/ step \notin {"clear", "arm"} /\ rxSize = 1 /\ (step = "copy" => size = 1)
     \/ step \in {"clear", "arm"} /\ taken = p /\ (step = "arm" => rxSize = 0)
InOrder(p) == \A i, j \in DOMAIN handled : handled[i] = p /\ i < j => handled[j] > p
PacketsKnown ==
  /\ rxBuffer <= Len(requests) /\ taken <= Len(requests)
  /\ \A i \in DOMAIN handled : handled[i] \in DOMAIN requests
RxInv ==
  /\ PacketsKnown
  /\ step \in {"size", "copy", "clear", "arm"} => stage = "read"
  /\ taken # 0 => step \in {"clear", "arm"}
  /\ armed = "user" \/ ~configured => DOMAIN requests \subseteq exposed
  /\ \A p \in DOMAIN requests \ exposed :
       /\ InOrder(p)
       /\ IF p \in Range(handled) THEN Ahead(p) ELSE Waiting(p)

(* The steps outside read() leave the receiver alone.                      *)
Writing ==
  \/ CheckAvailable \/ AppendPending \/ PendingOverflows
  \/ StartTransmit \/ TransmitPacket \/ DirectWrite
  \/ \E k \in Telemetries : SendTelemetry(k)
  \/ TickEnds

LEMMA ReturnStep ==
  ASSUME NEW ok, Return(ok)
  PROVE  step' \in {"choose", "check"}
BY DEF Return, Proceed

LEMMA WritingLeavesReceiver ==
  ASSUME Writing
  PROVE  /\ UNCHANGED <<configured, rxVars>>
         /\ step \notin {"size", "copy", "clear", "arm"}
         /\ step' \notin {"copy", "clear", "arm"} /\ (step' = "size" => stage' = "read")
<1>1. CASE CheckAvailable
  BY <1>1, ReturnStep DEF CheckAvailable
<1>2. CASE AppendPending
  BY <1>2, ReturnStep DEF AppendPending
<1>3. CASE PendingOverflows
  BY <1>3 DEF PendingOverflows
<1>4. CASE StartTransmit
  BY <1>4, ReturnStep DEF StartTransmit
<1>5. CASE TransmitPacket
  BY <1>5, ReturnStep DEF TransmitPacket
<1>6. CASE DirectWrite
  BY <1>6, ReturnStep DEF DirectWrite
<1>7. CASE \E k \in Telemetries : SendTelemetry(k)
  BY <1>7 DEF SendTelemetry
<1>8. CASE TickEnds
  BY <1>8 DEF TickEnds
<1> QED
  BY <1>1, <1>2, <1>3, <1>4, <1>5, <1>6, <1>7, <1>8 DEF Writing

LEMMA RxStep == TypeOK /\ RxInv /\ [Next]_vars => RxInv'
<1> SUFFICES ASSUME TypeOK, RxInv, [Next]_vars PROVE RxInv'
  OBVIOUS
<1> USE DEF RxInv, PacketsKnown
<1>a. /\ requests \in Seq(Replies) /\ Len(requests) \in Nat
      /\ DOMAIN requests = 1 .. Len(requests)
      /\ handled \in Seq(1 .. MaxPackets) /\ Len(handled) \in Nat
      /\ DOMAIN handled = 1 .. Len(handled)
      /\ rxBuffer \in Nat /\ taken \in Nat /\ rxSize \in {0, 1} /\ size \in {0, 1}
  BY Bounds DEF TypeOK
<1>b. ASSUME UNCHANGED <<configured, rxVars>>, step' = step, stage' = stage
      PROVE  RxInv'
  BY <1>b DEF rxVars, Ahead, Waiting, InOrder, Range
<1>1. CASE UNCHANGED vars
  BY <1>1, <1>b DEF vars
<1>2. CASE Writing
  <2>1. /\ UNCHANGED <<configured, rxVars>>
        /\ step \notin {"size", "copy", "clear", "arm"}
        /\ step' \notin {"copy", "clear", "arm"} /\ (step' = "size" => stage' = "read")
    BY <1>2, WritingLeavesReceiver
  <2> QED
    BY <2>1 DEF rxVars, Ahead, Waiting, InOrder, Range
<1>3. CASE TransferCompletes
  BY <1>3, <1>b DEF TransferCompletes
<1>4. CASE ReadSize
  BY <1>4, <1>a DEF ReadSize, Ahead, Waiting, InOrder, Range
<1>5. CASE CopyReceived
  BY <1>5, <1>a DEF CopyReceived, Ahead, Waiting, InOrder, Range
<1>6. CASE ClearSize
  BY <1>6, <1>a DEF ClearSize, SizeCleared, Ahead, Waiting, InOrder, Range
<1>7. CASE Rearm
  <2>1. CASE configured /\ taken # 0
    <3>1. /\ handled' = Append(handled, taken) /\ armed' = "rx" /\ taken' = 0
          /\ step' = "check" /\ step = "arm"
          /\ UNCHANGED <<configured, rxSize, rxBuffer, exposed, requests>>
      BY <1>7, <2>1 DEF Rearm
    <3>2. /\ Len(handled') = Len(handled) + 1 /\ DOMAIN handled' = 1 .. Len(handled) + 1
          /\ handled'[Len(handled) + 1] = taken
          /\ \A i \in 1 .. Len(handled) : handled'[i] = handled[i]
          /\ taken \in DOMAIN requests
      BY <1>a, <2>1, <3>1
    <3>3. PacketsKnown' /\ (armed' = "user" \/ ~configured' => DOMAIN requests' \subseteq exposed')
      BY <1>a, <2>1, <3>1, <3>2
    <3>4. ASSUME NEW p \in DOMAIN requests \ exposed
          PROVE  InOrder(p)' /\ p \in Range(handled') /\ Ahead(p)'
      <4>1. CASE p \in Range(handled)
        <5>1. taken > p /\ (rxSize = 1 => rxBuffer > p) /\ InOrder(p)
          BY <2>1, <3>4, <4>1 DEF Ahead
        <5> QED
          BY <1>a, <3>1, <3>2, <4>1, <5>1 DEF InOrder, Ahead, Range
      <4>2. CASE p \notin Range(handled)
        <5>1. taken = p /\ rxBuffer = p /\ \A i \in 1 .. Len(handled) : handled[i] # p
          BY <1>a, <3>1, <3>4, <4>2 DEF Waiting, Range
        <5>2. rxSize = 0
          BY <3>1, <3>4, <4>2 DEF Waiting
        <5>3. InOrder(p)'
          BY <1>a, <3>1, <3>2, <5>1 DEF InOrder
        <5>4. p \in Range(handled')
          BY <1>a, <3>2, <5>1 DEF Range
        <5>5. Ahead(p)'
          BY <3>1, <5>2 DEF Ahead
        <5> QED
          BY <5>3, <5>4, <5>5
      <4> QED
        BY <4>1, <4>2
    <3> QED
      BY <3>1, <3>3, <3>4
  <2>2. CASE configured /\ taken = 0
    <3>1. /\ UNCHANGED handled /\ armed' = "rx" /\ taken' = 0 /\ step' = "check"
          /\ step = "arm" /\ UNCHANGED <<configured, rxSize, rxBuffer, exposed, requests>>
      BY <1>7, <2>2 DEF Rearm
    <3>2. \A p \in DOMAIN requests \ exposed : p \in Range(handled)
      BY <1>a, <2>2, <3>1 DEF Waiting
    <3> QED
      BY <1>a, <2>2, <3>1, <3>2 DEF InOrder, Ahead, Range
  <2>3. CASE ~configured
    <3>1. /\ UNCHANGED <<handled, armed, configured, rxSize, rxBuffer, exposed, requests>>
          /\ taken' = 0 /\ step' = "check"
      BY <1>7, <2>3 DEF Rearm
    <3> QED
      BY <1>a, <2>3, <3>1
  <2> QED
    BY <2>1, <2>2, <2>3
<1>8. CASE Cut
  BY <1>8, <1>a DEF Cut
<1>9. CASE Configure
  BY <1>9, <1>a DEF Configure
<1>10. ASSUME NEW k \in Replies, PacketArrives(k)
       PROVE  RxInv'
  <2>0. PICK q \in Nat : q = Len(requests) + 1
    BY <1>a
  <2>1. /\ requests' = Append(requests, k) /\ rxSize' = 1 /\ armed' = "none"
        /\ armed # "none" /\ configured
        /\ UNCHANGED <<configured, size, taken, handled, step, stage>>
    BY <1>10 DEF PacketArrives, ArmedAfterPacket
  <2>2. Len(requests') = q /\ DOMAIN requests' = 1 .. q
    BY <1>a, <2>0, <2>1
  <2>3. rxBuffer' = IF armed = "rx" THEN q ELSE rxBuffer
    BY <1>10, <2>2 DEF PacketArrives
  <2>4. PacketsKnown'
    BY <1>a, <2>0, <2>1, <2>2, <2>3
  <2>5. exposed' \in {exposed, exposed \cup {q}} /\ (armed = "user" => q \in exposed')
        /\ (q \notin exposed' => stage # "read" \/ step = "size")
    BY <1>10, <2>2 DEF PacketArrives
  <2>6. CASE armed = "user"
    BY <1>a, <2>0, <2>1, <2>2, <2>4, <2>5, <2>6
  <2>7. CASE armed = "rx"
    <3>1. rxBuffer' = q
      BY <2>3, <2>7
    <3>2. ASSUME NEW p \in DOMAIN requests \ exposed
          PROVE  InOrder(p)' /\ p \in Range(handled') /\ Ahead(p)'
      <4>1. p \in Range(handled)
        BY <2>7, <3>2 DEF Waiting
      <4>2. InOrder(p) /\ Ahead(p) /\ p < q
        BY <1>a, <2>0, <3>2, <4>1
      <4> QED
        BY <1>a, <2>1, <3>1, <4>1, <4>2 DEF InOrder, Ahead, Range
    <3>3. q \notin Range(handled')
      BY <1>a, <2>0, <2>1 DEF Range
    <3>4. q \notin exposed' => InOrder(q)' /\ Waiting(q)'
      <4>1. \A i \in DOMAIN handled : handled[i] # q
        BY <1>a, <2>0
      <4>2. q \notin exposed' => step \notin {"copy", "clear", "arm"}
        BY <2>5
      <4> QED
        BY <2>1, <3>1, <4>1, <4>2 DEF InOrder, Waiting
    <3> QED
      BY <1>a, <2>0, <2>1, <2>2, <2>4, <2>5, <2>7, <3>2, <3>3, <3>4
  <2> QED
    BY <2>1, <2>6, <2>7 DEF TypeOK
<1> QED
  BY <1>1, <1>2, <1>3, <1>4, <1>5, <1>6, <1>7, <1>8, <1>9, <1>10
     DEF Next, MainLoop, Bus, Writing

\* A packet that does not arrive within read(), on a link that is not reset,
\* is handled once and before any later one.
THEOREM PacketsArriveOnce == Spec => []PacketsHandledOnce
<1>1. Init => RxInv
  BY DEF Init, RxInv, PacketsKnown
<1>2. TypeOK /\ RxInv => PacketsHandledOnce
  BY DEF RxInv, PacketsHandledOnce, InOrder, Waiting, TypeOK
<1> QED
  BY <1>1, <1>2, RxStep, BuffersHold, PTL DEF Spec

-----------------------------------------------------------------------------
(* Replies.  The reply being written is the one that is pending, so it is  *)
(* cleared only as the answer to the request it holds.                     *)
IsReplied(p) == \E i \in DOMAIN accepted : accepted[i] = [kind |-> requests[p], n |-> p]
Settled(i) ==
  \/ IsReplied(handled[i])
  \/ reply[requests[handled[i]]] = handled[i]
  \/ \E j \in i + 1 .. Len(handled) : requests[handled[j]] = requests[handled[i]]
RepliesKnown ==
  /\ \A k \in Replies :
       reply[k] # 0 => reply[k] \in Range(handled) /\ requests[reply[k]] = k
  /\ IF stage \in Replies
     THEN reply[stage] # 0 /\ msg = [kind |-> stage, n |-> reply[stage]]
     ELSE msg.kind \notin Replies
  /\ step = "choose" => stage = "telemetry"
  /\ \A i \in DOMAIN accepted : accepted[i].kind \in Replies => accepted[i].n \in Range(handled)
ReplyInv == RepliesKnown /\ \A i \in DOMAIN handled : Settled(i)

LEMMA KindsApart ==
  /\ Nothing.kind \notin Replies /\ "telemetry" \notin Replies /\ "read" \notin Replies
  /\ "flush" \notin Replies
  /\ \A k \in Telemetries : k \notin Replies
BY DEF Nothing, Replies, Telemetries

(* A return of write() with everything else about requests as it was.      *)
LEMMA ReturnKeepsReplies ==
  ASSUME TypeOK, PacketsKnown, ReplyInv, NEW ok \in BOOLEAN, Return(ok),
         UNCHANGED <<requests, handled>>
  PROVE  ReplyInv'
<1> USE DEF ReplyInv, RepliesKnown
<1>a. /\ requests \in Seq(Replies) /\ handled \in Seq(1 .. MaxPackets)
      /\ accepted \in Seq(Messages) /\ DOMAIN accepted = 1 .. Len(accepted)
      /\ reply \in [Replies -> 0 .. MaxPackets] /\ Len(accepted) \in Nat
  BY DEF TypeOK
<1>b. \A p \in DOMAIN requests : requests[p] \in Replies
  BY <1>a
<1>1. /\ reply' = IF stage \in Replies /\ ok THEN [reply EXCEPT ![stage] = 0] ELSE reply
      /\ accepted' = IF ok /\ msg # Nothing THEN Append(accepted, msg) ELSE accepted
      /\ Proceed(stage)
  BY DEF Return, Clears
<1>2. IF stage' \in Replies
      THEN reply'[stage'] # 0 /\ msg' = [kind |-> stage', n |-> reply'[stage']]
      ELSE msg'.kind \notin Replies
  BY <1>1, KindsApart DEF Proceed, Replies
<1>3. step' = "choose" => stage' = "telemetry"
  BY <1>1 DEF Proceed
<1>4. \A k \in Replies : reply'[k] # 0 => reply'[k] = reply[k]
  BY <1>1, <1>a
<1>5. \A i \in DOMAIN accepted : i \in DOMAIN accepted' /\ accepted'[i] = accepted[i]
  BY <1>1, <1>a
<1>6. \A i \in DOMAIN accepted' : \/ i \in DOMAIN accepted /\ accepted'[i] = accepted[i]
                                  \/ accepted'[i] = msg
  BY <1>1, <1>a
<1>7. msg.kind \in Replies => msg.n \in Range(handled)
  BY <1>a, KindsApart
<1>8. RepliesKnown'
  <2>1. \A i \in DOMAIN accepted' :
          accepted'[i].kind \in Replies => accepted'[i].n \in Range(handled)
    BY <1>6, <1>7
  <2> QED
    BY <1>2, <1>3, <1>4, <2>1 DEF Range
<1>9. ASSUME NEW i \in DOMAIN handled
      PROVE  Settled(i)'
  <2> DEFINE p == handled[i]
  <2>1. requests[p] \in Replies
    BY <1>b DEF PacketsKnown
  <2>2. CASE IsReplied(p)
    BY <1>5, <2>2 DEF Settled, IsReplied
  <2>3. CASE reply[requests[p]] = p
    <3>1. CASE reply'[requests[p]] = p
      BY <3>1 DEF Settled
    <3>2. CASE reply'[requests[p]] # p
      <4>1. stage = requests[p] /\ stage \in Replies /\ ok
        BY <1>1, <1>a, <2>1, <2>3, <3>2
      <4>2. msg = [kind |-> requests[p], n |-> p]
        BY <2>3, <4>1
      <4>3. msg # Nothing
        BY <2>1, <4>2, KindsApart DEF Nothing
      <4>4. accepted' = Append(accepted, msg)
        BY <1>1, <4>1, <4>3
      <4>5. Len(accepted) + 1 \in DOMAIN accepted' /\ accepted'[Len(accepted) + 1] = msg
        BY <1>a, <4>4
      <4> QED
        BY <4>2, <4>5 DEF Settled, IsReplied
    <3> QED
      BY <3>1, <3>2
  <2>4. CASE \E j \in i + 1 .. Len(handled) : requests[handled[j]] = requests[p]
    BY <2>4 DEF Settled
  <2> QED
    BY <2>2, <2>3, <2>4 DEF Settled
<1> QED
  BY <1>8, <1>9

LEMMA ReplyStep == TypeOK /\ RxInv /\ ReplyInv /\ [Next]_vars => ReplyInv'
<1> SUFFICES ASSUME TypeOK, RxInv, ReplyInv, [Next]_vars PROVE ReplyInv'
  OBVIOUS
<1>a. PacketsKnown
  BY DEF RxInv
<1>b. ASSUME UNCHANGED <<stage, msg, reply, requests, accepted, handled>>,
             step' # "choose" \/ step' = step
      PROVE  ReplyInv'
  BY <1>b DEF ReplyInv, RepliesKnown, Settled, IsReplied
<1>c. ASSUME NEW ok \in BOOLEAN, Return(ok), UNCHANGED rxVars
      PROVE  ReplyInv'
  BY <1>a, <1>c, ReturnKeepsReplies DEF rxVars
<1>1. CASE UNCHANGED vars
  BY <1>1, <1>b DEF vars, rxVars, txVars
<1>2. CASE ReadSize
  BY <1>2, <1>b DEF ReadSize, txVars
<1>3. CASE CopyReceived
  BY <1>3, <1>b DEF CopyReceived, txVars
<1>4. CASE ClearSize
  BY <1>4, <1>b DEF ClearSize, txVars
<1>5. CASE Rearm
  <2>0. /\ stage = "read" /\ stage' = "flush" /\ step' = "check" /\ msg' = Nothing
        /\ UNCHANGED <<requests, accepted>>
    BY <1>5 DEF Rearm, txVars
  <2>1. CASE configured /\ taken # 0
    <3>1. handled' = Append(handled, taken)
          /\ reply' = [reply EXCEPT ![requests[taken]] = taken]
      BY <1>5, <2>1 DEF Rearm
    <3>2. /\ handled \in Seq(1 .. MaxPackets) /\ reply \in [Replies -> 0 .. MaxPackets]
          /\ requests \in Seq(Replies) /\ DOMAIN requests = 1 .. Len(requests)
          /\ taken \in Nat /\ Len(requests) \in Nat /\ Len(handled) \in Nat
          /\ DOMAIN handled = 1 .. Len(handled)
      BY Bounds DEF TypeOK
    <3>3. taken \in DOMAIN requests /\ requests[taken] \in Replies
      BY <1>a, <2>1, <3>2 DEF PacketsKnown
    <3>4. /\ Len(handled') = Len(handled) + 1 /\ DOMAIN handled' = 1 .. Len(handled) + 1
          /\ handled'[Len(handled) + 1] = taken
          /\ \A i \in 1 .. Len(handled) : handled'[i] = handled[i]
      BY <2>1, <3>1, <3>2
    <3>5. Range(handled') = Range(handled) \cup {taken}
      BY <3>2, <3>4 DEF Range
    <3>6. RepliesKnown'
      <4>1. \A k \in Replies : reply'[k] = IF k = requests[taken] THEN taken ELSE reply[k]
        BY <3>1, <3>2
      <4> QED
        BY <2>0, <3>5, <4>1, KindsApart DEF ReplyInv, RepliesKnown
    <3>7. ASSUME NEW i \in DOMAIN handled
          PROVE  Settled(i)'
      <4>1. Settled(i) /\ handled[i] \in DOMAIN requests /\ handled'[i] = handled[i]
            /\ requests[handled[i]] \in Replies
        BY <1>a, <3>2, <3>4 DEF PacketsKnown, ReplyInv
      <4>2. CASE requests[taken] = requests[handled[i]]
        <5>1. Len(handled) + 1 \in i + 1 .. Len(handled')
          BY <3>2, <3>4
        <5> QED
          BY <2>0, <3>4, <4>1, <4>2, <5>1 DEF Settled
      <4>3. CASE requests[taken] # requests[handled[i]]
        <5>1. reply'[requests[handled[i]]] = reply[requests[handled[i]]]
          BY <3>1, <3>2, <4>1, <4>3
        <5>2. \A j \in i + 1 .. Len(handled) :
                j \in i + 1 .. Len(handled') /\ handled'[j] = handled[j]
          BY <3>2, <3>4
        <5> QED
          BY <2>0, <4>1, <5>1, <5>2 DEF Settled, IsReplied
      <4> QED
        BY <4>2, <4>3
    <3>8. ASSUME NEW i \in DOMAIN handled', i \notin DOMAIN handled
          PROVE  Settled(i)'
      <4>1. handled'[i] = taken
        BY <3>2, <3>4, <3>8
      <4> QED
        BY <2>0, <3>1, <3>2, <3>3, <4>1 DEF Settled
    <3> QED
      BY <3>6, <3>7, <3>8 DEF ReplyInv
  <2>2. CASE ~(configured /\ taken # 0)
    <3>1. UNCHANGED <<handled, reply>>
      BY <1>5, <2>2 DEF Rearm
    <3> QED
      BY <2>0, <3>1, KindsApart DEF ReplyInv, RepliesKnown, Settled, IsReplied
  <2> QED
    BY <2>1, <2>2
<1>6. CASE CheckAvailable
  <2>1. CASE NothingToSend
    BY <1>6, <1>c, <2>1 DEF CheckAvailable
  <2>2. CASE ~NothingToSend
    BY <1>6, <1>b, <2>2 DEF CheckAvailable, rxVars
  <2> QED
    BY <2>1, <2>2
<1>7. CASE AppendPending
  BY <1>7, <1>c DEF AppendPending
<1>8. CASE PendingOverflows
  BY <1>8, <1>b DEF PendingOverflows, rxVars, txVars
<1>9. CASE StartTransmit
  <2>1. CASE configured /\ ~TxState
    BY <1>9, <1>b, <2>1 DEF StartTransmit, rxVars
  <2>2. CASE ~(configured /\ ~TxState)
    BY <1>9, <1>c, <2>2 DEF StartTransmit
  <2> QED
    BY <2>1, <2>2
<1>10. CASE TransmitPacket
  <2>1. configured \in BOOLEAN
    BY DEF TypeOK
  <2> QED
    BY <1>10, <1>c, <2>1 DEF TransmitPacket
<1>11. CASE DirectWrite
  BY <1>11, <1>c DEF DirectWrite
<1>12. ASSUME NEW k \in Telemetries, SendTelemetry(k)
       PROVE  ReplyInv'
  <2>1. /\ step = "choose" /\ step' = "check" /\ msg'.kind = k
        /\ UNCHANGED <<stage, reply, requests, accepted, handled>>
    BY <1>12 DEF SendTelemetry, rxVars, txVars
  <2> QED
    BY <2>1, KindsApart DEF ReplyInv, RepliesKnown, Settled, IsReplied
<1>13. CASE TickEnds
  <2>1. /\ step = "choose" /\ step' = "size" /\ stage' = "read"
        /\ UNCHANGED <<msg, reply, requests, accepted, handled>>
    BY <1>13 DEF TickEnds, rxVars, txVars
  <2> QED
    BY <2>1, KindsApart DEF ReplyInv, RepliesKnown, Settled, IsReplied
<1>14. CASE TransferCompletes
  BY <1>14, <1>b DEF TransferCompletes, rxVars
<1>15. CASE Cut
  BY <1>15, <1>b DEF Cut
<1>16. CASE Configure
  BY <1>16, <1>b DEF Configure, txVars
<1>17. ASSUME NEW k \in Replies, PacketArrives(k)
       PROVE  ReplyInv'
  <2>1. /\ requests' = Append(requests, k)
        /\ UNCHANGED <<stage, step, msg, reply, accepted, handled>>
    BY <1>17 DEF PacketArrives, txVars
  <2>2. requests \in Seq(Replies)
    BY DEF TypeOK
  <2>3. \A p \in DOMAIN requests : requests'[p] = requests[p]
    BY <2>1, <2>2
  <2>4. \A i \in DOMAIN handled : handled[i] \in DOMAIN requests
    BY <1>a DEF PacketsKnown
  <2>5. \A p \in Range(handled) : p \in DOMAIN requests
    BY <2>4 DEF Range
  <2>6. RepliesKnown'
    BY <2>1, <2>3, <2>5 DEF ReplyInv, RepliesKnown
  <2>7. ASSUME NEW i \in DOMAIN handled
        PROVE  Settled(i)'
    <3>1. handled \in Seq(1 .. MaxPackets) /\ DOMAIN handled = 1 .. Len(handled)
          /\ Len(handled) \in Nat
      BY DEF TypeOK
    <3>2. \A j \in i + 1 .. Len(handled) : requests'[handled[j]] = requests[handled[j]]
      BY <2>3, <2>4, <3>1
    <3> QED
      BY <2>1, <2>3, <2>4, <3>2 DEF ReplyInv, Settled, IsReplied
  <2> QED
    BY <2>1, <2>6, <2>7 DEF ReplyInv
<1> QED
  BY <1>1, <1>2, <1>3, <1>4, <1>5, <1>6, <1>7, <1>8, <1>9, <1>10, <1>11, <1>12, <1>13,
     <1>14, <1>15, <1>16, <1>17 DEF Next, MainLoop, Bus

\* No request that was handled goes unanswered without a later one of its
\* kind, and nothing is answered that was not asked.
THEOREM RequestsAreKept == Spec => []RequestsAccountedFor
<1>1. Init => RxInv /\ ReplyInv
  BY KindsApart DEF Init, RxInv, PacketsKnown, ReplyInv, RepliesKnown
<1>2. ReplyInv => RequestsAccountedFor
  BY DEF ReplyInv, RepliesKnown, Settled, IsReplied, RequestsAccountedFor
<1> QED
  BY <1>1, <1>2, RxStep, ReplyStep, BuffersHold, PTL DEF Spec

-----------------------------------------------------------------------------
(* Stale packets.  A reset owes one second reading of the packet in the read  *)
(* buffer: it arms the endpoint with UserRxBufferFS, the packet that comes    *)
(* there only sets the size, and read() takes the old one.  Each debt is one  *)
(* of three things, and no step makes a new one.                             *)
Kept == rxBuffer # 0 /\ rxBuffer \in Range(handled) \cup {taken}
KeptToRead == Kept /\ IF step = "copy" THEN size = 1 ELSE step # "clear" /\ rxSize = 1
OldTaken == taken # 0 /\ taken \in Range(handled)
ToUserBuffer == rxBuffer # 0 /\ (~configured \/ armed = "user")
Owed == (IF KeptToRead THEN 1 ELSE 0) + (IF OldTaken THEN 1 ELSE 0)
          + (IF ToUserBuffer THEN 1 ELSE 0)
HandledTwice == Len(handled) - Cardinality(Range(handled))
StaleInv == HandledTwice + Owed <= cuts

LEMMA HandledCounted ==
  ASSUME TypeOK
  PROVE  /\ IsFiniteSet(Range(handled)) /\ Cardinality(Range(handled)) \in Nat
         /\ Len(handled) \in Nat /\ cuts \in Nat
         /\ HandledTwice \in Int /\ Owed \in 0 .. 3
<1>1. Range(handled) \subseteq 1 .. MaxPackets
  <2>1. handled \in Seq(1 .. MaxPackets)
    BY DEF TypeOK
  <2>2. \A i \in DOMAIN handled : handled[i] \in 1 .. MaxPackets
    BY <2>1, Bounds
  <2> QED
    BY <2>2 DEF Range
<1>2. IsFiniteSet(1 .. MaxPackets)
  BY FS_Interval, Bounds
<1>3. IsFiniteSet(Range(handled)) /\ Cardinality(Range(handled)) \in Nat
  BY <1>1, <1>2, FS_Subset, FS_CardinalityType
<1>4. Len(handled) \in Nat /\ cuts \in Nat
  BY Bounds DEF TypeOK
<1> QED
  BY <1>3, <1>4 DEF HandledTwice, Owed

LEMMA StaleStep == TypeOK /\ RxInv /\ StaleInv /\ [Next]_vars => StaleInv'
<1> SUFFICES ASSUME TypeOK, RxInv, StaleInv, [Next]_vars PROVE StaleInv'
  OBVIOUS
<1>a. /\ Cardinality(Range(handled)) \in Nat /\ Len(handled) \in Nat /\ cuts \in Nat
      /\ HandledTwice \in Int /\ rxSize \in {0, 1} /\ size \in {0, 1}
  BY HandledCounted DEF TypeOK
<1>b. ASSUME handled' = handled, cuts' = cuts, KeptToRead' => KeptToRead,
             OldTaken' => OldTaken, ToUserBuffer' => ToUserBuffer
      PROVE  StaleInv'
  BY <1>a, <1>b DEF StaleInv, HandledTwice, Owed
<1>1. CASE UNCHANGED vars
  BY <1>1, <1>b DEF vars, rxVars, txVars, KeptToRead, Kept, OldTaken, ToUserBuffer
<1>2. CASE Writing
  <2>1. /\ UNCHANGED <<configured, rxVars>> /\ cuts' = cuts
        /\ step \notin {"copy", "clear"} /\ step' \notin {"copy", "clear"}
    BY <1>2, WritingLeavesReceiver, ReturnStep
       DEF Writing, CheckAvailable, AppendPending, PendingOverflows, StartTransmit,
           TransmitPacket, DirectWrite, SendTelemetry, TickEnds
  <2> QED
    BY <2>1, <1>b DEF rxVars, KeptToRead, Kept, OldTaken, ToUserBuffer
<1>3. CASE ReadSize
  BY <1>3, <1>b DEF ReadSize, KeptToRead, Kept, OldTaken, ToUserBuffer
<1>4. CASE CopyReceived
  <2>1. /\ step = "copy" /\ step' = "clear" /\ taken = 0
        /\ taken' = (IF size > 0 THEN rxBuffer ELSE 0)
        /\ UNCHANGED <<configured, armed, rxBuffer, handled, cuts>>
    BY <1>4 DEF CopyReceived, RxInv
  <2>2. ~KeptToRead' /\ ~OldTaken /\ (OldTaken' => KeptToRead) /\ ToUserBuffer' = ToUserBuffer
    BY <1>a, <2>1 DEF KeptToRead, Kept, OldTaken, ToUserBuffer
  <2> QED
    BY <1>a, <2>1, <2>2 DEF StaleInv, HandledTwice, Owed
<1>5. CASE ClearSize
  BY <1>5, <1>b DEF ClearSize, SizeCleared, KeptToRead, Kept, OldTaken, ToUserBuffer
<1>6. CASE Rearm
  <2>1. /\ step = "arm" /\ step' = "check" /\ taken' = 0 /\ cuts' = cuts
        /\ UNCHANGED <<configured, rxSize, rxBuffer>>
    BY <1>6 DEF Rearm
  <2>2. CASE configured /\ taken # 0
    <3>1. handled' = Append(handled, taken) /\ armed' = "rx"
      BY <1>6, <2>2 DEF Rearm
    <3>2. handled \in Seq(1 .. MaxPackets) /\ taken \in 1 .. MaxPackets
      BY <2>2, Bounds DEF TypeOK
    <3>3. Len(handled') = Len(handled) + 1 /\ Range(handled') = Range(handled) \cup {taken}
      <4>1. /\ Len(handled') = Len(handled) + 1 /\ DOMAIN handled' = 1 .. Len(handled) + 1
            /\ handled'[Len(handled) + 1] = taken
            /\ \A i \in 1 .. Len(handled) : handled'[i] = handled[i]
            /\ DOMAIN handled = 1 .. Len(handled)
        BY <3>1, <3>2
      <4> QED
        BY <1>a, <4>1 DEF Range
    <3>4. Cardinality(Range(handled')) = Cardinality(Range(handled)) + (IF OldTaken THEN 0 ELSE 1)
      <4>1. IsFiniteSet(Range(handled)) /\ Cardinality(Range(handled)) \in Nat
        BY HandledCounted
      <4>2. Cardinality(Range(handled) \cup {taken})
              = IF taken \in Range(handled) THEN Cardinality(Range(handled))
                ELSE Cardinality(Range(handled)) + 1
        BY <4>1, FS_AddElement
      <4>3. CASE taken \in Range(handled)
        BY <2>2, <3>3, <4>1, <4>2, <4>3 DEF OldTaken
      <4>4. CASE taken \notin Range(handled)
        BY <3>3, <4>2, <4>4 DEF OldTaken
      <4> QED
        BY <4>3, <4>4
    <3>5. /\ KeptToRead' => KeptToRead
          /\ ~OldTaken' /\ ~ToUserBuffer'
      BY <2>1, <2>2, <3>1, <3>3 DEF KeptToRead, Kept, OldTaken, ToUserBuffer
    <3> QED
      BY <1>a, <2>1, <3>3, <3>4, <3>5 DEF StaleInv, HandledTwice, Owed
  <2>3. CASE ~(configured /\ taken # 0)
    <3>1. handled' = handled /\ armed' = IF configured THEN "rx" ELSE armed
      BY <1>6, <2>3 DEF Rearm
    <3> QED
      BY <1>b, <2>1, <3>1 DEF KeptToRead, Kept, OldTaken, ToUserBuffer
  <2> QED
    BY <2>2, <2>3
<1>7. CASE TransferCompletes
  BY <1>7, <1>b DEF TransferCompletes, rxVars, KeptToRead, Kept, OldTaken, ToUserBuffer
<1>8. CASE Cut
  <2>1. /\ cuts' = cuts + 1 /\ UNCHANGED <<rxBuffer, handled, taken, step, size, rxSize>>
    BY <1>8 DEF Cut
  <2>2. ~ToUserBuffer \/ ToUserBuffer
    OBVIOUS
  <2>3. KeptToRead' = KeptToRead /\ OldTaken' = OldTaken
    BY <2>1 DEF KeptToRead, Kept, OldTaken
  <2> QED
    BY <1>a, <2>1, <2>3 DEF StaleInv, HandledTwice, Owed
<1>9. CASE Configure
  BY <1>9, <1>b DEF Configure, KeptToRead, Kept, OldTaken, ToUserBuffer
<1>10. ASSUME NEW k \in Replies, PacketArrives(k)
       PROVE  StaleInv'
  <2>1. /\ configured /\ configured' /\ armed # "none" /\ armed' = "none"
        /\ rxBuffer' = (IF armed = "rx" THEN Len(requests') ELSE rxBuffer)
        /\ Len(requests') = Len(requests) + 1 /\ Len(requests) \in Nat
        /\ UNCHANGED <<handled, taken, step, size, cuts>>
    BY <1>10 DEF PacketArrives, ArmedAfterPacket, TypeOK
  <2>2. ~ToUserBuffer' /\ OldTaken' = OldTaken
    BY <2>1 DEF ToUserBuffer, OldTaken
  <2>3. CASE armed = "rx"
    <3>1. Len(requests) + 1 \notin Range(handled) /\ Len(requests) + 1 # taken
      <4>1. \A i \in DOMAIN handled : handled[i] \in 1 .. Len(requests)
        BY DEF RxInv, PacketsKnown, TypeOK
      <4>2. taken \in Nat /\ taken <= Len(requests)
        BY Bounds DEF RxInv, PacketsKnown, TypeOK
      <4> QED
        BY <2>1, <4>1, <4>2 DEF Range
    <3>2. ~KeptToRead'
      BY <2>1, <2>3, <3>1 DEF KeptToRead, Kept
    <3> QED
      BY <1>b, <2>1, <2>2, <3>2
  <2>4. CASE armed = "user"
    <3>1. KeptToRead' => ToUserBuffer
      BY <2>1, <2>4 DEF KeptToRead, Kept, ToUserBuffer
    <3> QED
      BY <1>a, <2>1, <2>2, <3>1 DEF StaleInv, HandledTwice, Owed
  <2> QED
    BY <2>1, <2>3, <2>4 DEF TypeOK
<1> QED
  BY <1>1, <1>2, <1>3, <1>4, <1>5, <1>6, <1>7, <1>8, <1>9, <1>10 DEF Next, MainLoop, Bus, Writing

LEMMA StaleInit == Init => RxInv /\ StaleInv
<1>1. SUFFICES ASSUME Init PROVE RxInv /\ StaleInv
  OBVIOUS
<1>2. RxInv
  BY <1>1 DEF Init, RxInv, PacketsKnown
<1>3. Range(handled) = {} /\ Len(handled) = 0
  BY <1>1 DEF Init, Range
<1>4. Cardinality(Range(handled)) = 0
  BY <1>3, FS_EmptySet
<1>5. Owed = 0 /\ cuts = 0
  BY <1>1 DEF Init, Owed, KeptToRead, Kept, OldTaken, ToUserBuffer
<1> QED
  BY <1>2, <1>3, <1>4, <1>5 DEF StaleInv, HandledTwice

\* A packet is handled a second time at most once for each reset of the bus.
THEOREM StaleOncePerReset == Spec => []StaleOnlyAfterReset
<1>1. TypeOK /\ StaleInv => StaleOnlyAfterReset
  BY HandledCounted DEF StaleInv, HandledTwice, StaleOnlyAfterReset
<1> QED
  BY <1>1, StaleInit, RxStep, StaleStep, BuffersHold, PTL DEF Spec
=============================================================================
