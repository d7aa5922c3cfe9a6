------------------------------- MODULE UsbLink -------------------------------
(***************************************************************************)
(* The application's USB link: the double buffer that the main loop and    *)
(* the interrupts of the CDC class share (CommInterruptsHandler, CommUsb,  *)
(* usbd_cdc_if.cpp, usbd_cdc.c), the replies that BluewhiteUsbComm::tick   *)
(* retries until a write is taken, and the telemetry that is not retried.  *)
(*                                                                         *)
(* The main loop is the program counter <<stage, step>>: between any two   *)
(* of its steps a packet may arrive, a transfer may complete, and the      *)
(* cable may be cut (a bus reset, which frees the class) or the device may *)
(* be configured again.                                                    *)
(*                                                                         *)
(* Data is counted in units, of which a buffer holds BufferSize: a reply   *)
(* and a state telemetry take one, the telemetry of all the variables, the *)
(* longest packet there is, fills the buffer (gpc_bluelink_usb_callbacks   *)
(* .hpp:13).  A packet from the host is one request, known by its number.  *)
(***************************************************************************)
EXTENDS Integers, Sequences, SequencesExt, FiniteSets

CONSTANTS BufferSize,   \* the units of BUFFER_SIZE
          MaxPackets,   \* bound: packets the host sends
          MaxTelemetry, \* bound: telemetries the controller sends
          MaxCuts       \* bound: bus resets

ASSUME BufferSizeAssumption == BufferSize \in Nat \ {0}
ASSUME BoundsAssumption == {MaxPackets, MaxTelemetry, MaxCuts} \subseteq Nat

VARIABLES
  configured,  \* handler_->pClassData is not null
  armed,       \* the buffer the OUT endpoint receives into, or "none"
  rxSize,      \* usb_receive_size: 0, or 1 for a packet
  rxBuffer,    \* the packet in the read buffer, 0 for none yet
  flag,        \* usb_transmit_flag
  flight,      \* the transfer under way: TxState, its buffer and contents
  pending,     \* pending_tx_buffer, in units
  stage,       \* what tick() and the telemetry sender are doing
  step,        \* where in read() or write() they are
  size,        \* read(): the size it has read
  taken,       \* read(): the packet it has copied
  msg,         \* write(): the message it is called with, Nothing to flush
  reply,       \* the reply pending of each kind: the request it answers, or 0
  requests,    \* what the host has sent: the kind of each packet
  telemetries, \* the number of telemetries sent
  cuts,        \* the number of bus resets
  wire,        \* history: the units the host has received, kept as long as
               \* DeliveredInOrder speaks of them
  accepted,    \* history: the messages whose write succeeded, in order
  handled,     \* history: the packets handled, in order
  exposed,     \* history: packets that came within read() or over a reset
  dropped,     \* history: the messages given up when the buffer overflowed
  direct,      \* history: a transfer has been started from pending itself
  handed       \* history: the contents of the transfer when it was started

rxVars == <<armed, rxSize, rxBuffer, size, taken, handled, exposed, requests>>
txVars == <<flag, flight, pending, wire, accepted, dropped, direct, handed>>
vars == <<configured, rxVars, txVars, stage, step, msg, reply, telemetries, cuts>>

Replies == {"metadata", "version"}
Telemetries == {"state", "variables"}

Nothing == [kind |-> "nothing", n |-> 0]
Messages == [kind : Replies, n : 1 .. MaxPackets]
            \cup [kind : Telemetries, n : 1 .. MaxTelemetry]

\* The units of a message, and what is left of one that was overwritten.
SizeOf(m) == IF m = Nothing THEN 0 ELSE IF m.kind = "variables" THEN BufferSize ELSE 1
Units(m) == [k \in 1 .. SizeOf(m) |-> [of |-> m, part |-> k]]
Torn == [of |-> Nothing, part |-> 0]
Unit == [of : Messages \cup {Nothing}, part : 0 .. BufferSize]

Idle == [from |-> "none", data |-> <<>>]
TxState == flight.from # "none"

Init ==
  /\ configured = FALSE /\ armed = "none" /\ rxSize = 0 /\ rxBuffer = 0
  /\ flag = TRUE /\ flight = Idle /\ pending = <<>>
  /\ stage = "telemetry" /\ step = "choose" /\ msg = Nothing
  /\ size = 0 /\ taken = 0
  /\ reply = [k \in Replies |-> 0]
  /\ requests = <<>> /\ telemetries = 0 /\ cuts = 0
  /\ wire = <<>> /\ accepted = <<>> /\ handled = <<>> /\ exposed = {}
  /\ dropped = {} /\ direct = FALSE /\ handed = <<>>

-----------------------------------------------------------------------------
(* Reception: CommInterruptsHandler::read(), once per tick.                *)

\* mutant: the callback arms the endpoint again, as the template of the
\* middleware does
ArmedByCallback == armed
\* The packet waits in its buffer until read() has taken it.
ArmedAfterPacket == "none"

\* USBD_CDC_DataOut and CDC_Receive_FS: only the length is noted.
PacketArrives(k) ==
  /\ configured /\ armed # "none" /\ Len(requests) < MaxPackets
  /\ requests' = Append(requests, k)
  /\ rxSize' = 1
  /\ rxBuffer' = IF armed = "rx" THEN Len(requests') ELSE rxBuffer
  /\ exposed' = IF (stage = "read" /\ step # "size") \/ armed = "user"
                THEN exposed \cup {Len(requests')} ELSE exposed
  /\ armed' = ArmedAfterPacket
  /\ UNCHANGED <<configured, size, taken, handled, txVars, stage, step, msg, reply,
                 telemetries, cuts>>

ReadSize ==
  /\ stage = "read" /\ step = "size"
  /\ size' = rxSize
  /\ step' = "copy"
  /\ UNCHANGED <<configured, armed, rxSize, rxBuffer, taken, handled, exposed, requests,
                 txVars, stage, msg, reply, telemetries, cuts>>

CopyReceived ==
  /\ stage = "read" /\ step = "copy"
  /\ taken' = IF size > 0 THEN rxBuffer ELSE 0
  /\ step' = "clear"
  /\ UNCHANGED <<configured, armed, rxSize, rxBuffer, size, handled, exposed, requests,
                 txVars, stage, msg, reply, telemetries, cuts>>

\* mutant: the size is left as it is
SizeKept == rxSize
\* *receive_size_ = 0
SizeCleared == 0

ClearSize ==
  /\ stage = "read" /\ step = "clear"
  /\ rxSize' = SizeCleared
  /\ step' = "arm"
  /\ UNCHANGED <<configured, armed, rxBuffer, size, taken, handled, exposed, requests,
                 txVars, stage, msg, reply, telemetries, cuts>>

\* SetRxBuffer and ReceivePacket; what was copied is handled if they succeed,
\* and a request replaces the reply that is pending.
Rearm ==
  /\ stage = "read" /\ step = "arm"
  /\ IF configured
     THEN /\ armed' = "rx"
          /\ IF taken = 0
             THEN UNCHANGED <<handled, reply>>
             ELSE /\ handled' = Append(handled, taken)
                  /\ reply' = [reply EXCEPT ![requests[taken]] = taken]
     ELSE UNCHANGED <<armed, handled, reply>>
  /\ taken' = 0 /\ size' = 0
  /\ stage' = "flush" /\ step' = "check" /\ msg' = Nothing
  /\ UNCHANGED <<configured, rxSize, rxBuffer, exposed, requests, txVars,
                 telemetries, cuts>>

-----------------------------------------------------------------------------
(* Transmission: CommInterruptsHandler::write(), called with nothing to    *)
(* flush, then with the replies and the telemetries.                       *)

\* mutant: nobody looks at the flag
AlwaysAvailable == TRUE
Available == flag

\* mutant: a message is always appended
NeverOverflows == FALSE
Overflows == Len(pending) + SizeOf(msg) > BufferSize

\* mutant: the new message is put before what was waiting
NewestFirst == IF Overflows THEN pending ELSE Units(msg) \o pending
\* What is handed over: all that waits, and the message too if it fits.
ToSend == IF pending # <<>> /\ Overflows THEN pending ELSE pending \o Units(msg)
\* What then waits: the message that did not fit.
Left == IF pending # <<>> /\ Overflows THEN Units(msg) ELSE <<>>

\* What a transfer may carry once "units" have been written into its buffer
\* from position "first" on: a packet of it was copied before, after or during.
Clobbered(buffer, first, units) ==
  IF flight.from # buffer THEN {flight.data}
  ELSE {d \in [DOMAIN flight.data -> Range(flight.data) \cup Range(units) \cup {Torn}] :
          \A i \in DOMAIN d :
            d[i] \in IF i \in first .. first + Len(units) - 1
                     THEN {flight.data[i], units[i - first + 1], Torn}
                     ELSE {flight.data[i]}}

\* What tick() and the telemetry sender do after "s": replies that are
\* pending are written, then telemetries that are due.
Proceed(s) ==
  LET next == IF s = "flush" /\ reply'["metadata"] # 0 THEN "metadata"
              ELSE IF s \in {"flush", "metadata"} /\ reply'["version"] # 0 THEN "version"
              ELSE "telemetry"
  IN /\ stage' = next
     /\ step' = IF next = "telemetry" THEN "choose" ELSE "check"
     /\ msg' = IF next = "telemetry" THEN Nothing ELSE [kind |-> next, n |-> reply'[next]]

\* mutant: the reply is taken for sent whatever write() returned
Forgets(ok) == TRUE
\* clearMetadataReplyPending() only when bytes were written
Clears(ok) == ok

\* write() returns to writeMessageNow() and that to its caller.
Return(ok) ==
  /\ reply' = IF stage \in Replies /\ Clears(ok) THEN [reply EXCEPT ![stage] = 0] ELSE reply
  /\ accepted' = IF ok /\ msg # Nothing THEN Append(accepted, msg) ELSE accepted
  /\ Proceed(stage)

\* mutant: a call with nothing to write returns at once
NoNewMessage == msg = Nothing
NothingToSend == ToSend = <<>>

CheckAvailable ==
  /\ step = "check" /\ Available
  /\ IF NothingToSend
     THEN Return(TRUE)
     ELSE step' = "start" /\ UNCHANGED <<stage, msg, reply, accepted>>
  /\ UNCHANGED <<configured, rxVars, flag, flight, pending, wire, dropped, direct, handed,
                 telemetries, cuts>>

\* The link is busy: the message waits.
AppendPending ==
  /\ step = "check" /\ ~Available /\ ~Overflows
  /\ pending' = pending \o Units(msg)
  /\ \E d \in Clobbered("pending", Len(pending) + 1, Units(msg)) :
       flight' = [flight EXCEPT !.data = d]
  /\ Return(TRUE)
  /\ UNCHANGED <<configured, rxVars, flag, wire, dropped, direct, handed, telemetries, cuts>>

PendingOverflows ==
  /\ step = "check" /\ ~Available /\ Overflows
  /\ step' = "direct"
  /\ UNCHANGED <<configured, rxVars, txVars, stage, msg, reply, telemetries, cuts>>

\* The copy into tx_buffer, and the first half of startTransmitInterrupt().
StartTransmit ==
  /\ step = "start"
  /\ \E d \in Clobbered("tx", 1, ToSend) : flight' = [flight EXCEPT !.data = d]
  /\ IF configured /\ ~TxState
     THEN /\ flag' = FALSE
          /\ step' = "transmit"
          /\ UNCHANGED <<pending, accepted, stage, msg, reply>>
     ELSE /\ pending' = Left
          /\ Return(FALSE)
          /\ UNCHANGED flag
  /\ UNCHANGED <<configured, rxVars, wire, dropped, direct, handed, telemetries, cuts>>

\* USBD_CDC_TransmitPacket; the pending bytes go whatever it returns.
TransmitPacket ==
  /\ step = "transmit"
  /\ IF configured
     THEN flight' = [from |-> "tx", data |-> ToSend] /\ handed' = ToSend
     ELSE UNCHANGED <<flight, handed>>
  /\ pending' = Left
  /\ Return(configured)
  /\ UNCHANGED <<configured, rxVars, flag, wire, dropped, direct, telemetries, cuts>>

\* comm_->write(): CDC_Transmit_FS with the pending bytes where they are.
\* They are cleared, and the next ones take their place in memory.
DirectWrite ==
  /\ step = "direct"
  /\ IF configured /\ ~TxState
     THEN /\ handed' = pending
          /\ direct' = TRUE
          /\ pending' = Units(msg)
          /\ \E d \in {[i \in DOMAIN pending |->
                          IF i > Len(Units(msg)) THEN pending[i]
                          ELSE IF c[i] = "old" THEN pending[i]
                          ELSE IF c[i] = "new" THEN Units(msg)[i] ELSE Torn] :
                         c \in [DOMAIN pending -> {"old", "new", "torn"}]} :
               flight' = [from |-> "pending", data |-> d]
          /\ Return(TRUE)
          /\ UNCHANGED dropped
     ELSE /\ dropped' = dropped \cup {u.of : u \in Range(pending)}
          /\ pending' = <<>>
          /\ Return(FALSE)
          /\ UNCHANGED <<flight, direct, handed>>
  /\ UNCHANGED <<configured, rxVars, flag, wire, telemetries, cuts>>

\* A telemetry is due and the host has opened the port.
SendTelemetry(k) ==
  /\ step = "choose" /\ telemetries < MaxTelemetry
  /\ telemetries' = telemetries + 1
  /\ msg' = [kind |-> k, n |-> telemetries + 1]
  /\ step' = "check"
  /\ UNCHANGED <<configured, rxVars, txVars, stage, reply, cuts>>

\* The telemetry sender is done: BluewhiteUsbComm::tick() begins.
TickEnds ==
  /\ step = "choose"
  /\ stage' = "read" /\ step' = "size"
  /\ UNCHANGED <<configured, rxVars, txVars, msg, reply, telemetries, cuts>>

-----------------------------------------------------------------------------
(* The host and the bus.                                                   *)

\* mutant: the callback does not give the buffer back
FlagKept == flag
\* CDC_TransmitCplt_FS
FlagAfterTransfer == TRUE

\* USBD_CDC_DataIn: TxState, then the callback.
TransferCompletes ==
  /\ configured /\ TxState
  /\ wire' = IF direct \/ cuts > 0 THEN <<>> ELSE wire \o flight.data
  /\ flight' = Idle
  /\ flag' = FlagAfterTransfer
  /\ handed' = <<>>
  /\ UNCHANGED <<configured, rxVars, pending, accepted, dropped, direct, stage, step, msg,
                 reply, telemetries, cuts>>

\* A bus reset: USBD_CDC_DeInit closes the endpoints and frees the class.
\* The flags of the application stay as they are, and what the host had of
\* the transfer is gone with its port.
Cut ==
  /\ configured /\ cuts < MaxCuts
  /\ configured' = FALSE
  /\ armed' = "none"
  /\ flight' = Idle
  /\ handed' = <<>>
  /\ cuts' = cuts + 1
  /\ exposed' = exposed \cup DOMAIN requests
  /\ UNCHANGED <<rxSize, rxBuffer, size, taken, handled, requests, flag, pending, wire,
                 accepted, dropped, direct, stage, step, msg, reply, telemetries>>

\* USBD_CDC_Init and CDC_Init_FS: the first packet will go to UserRxBufferFS.
Configure ==
  /\ ~configured
  /\ configured' = TRUE
  /\ armed' = "user"
  /\ UNCHANGED <<rxSize, rxBuffer, size, taken, handled, exposed, requests, txVars, stage,
                 step, msg, reply, telemetries, cuts>>

MainLoop ==
  \/ ReadSize \/ CopyReceived \/ ClearSize \/ Rearm
  \/ CheckAvailable \/ AppendPending \/ PendingOverflows
  \/ StartTransmit \/ TransmitPacket \/ DirectWrite
  \/ \E k \in Telemetries : SendTelemetry(k)
  \/ TickEnds

Bus == TransferCompletes \/ Cut \/ Configure \/ \E k \in Replies : PacketArrives(k)

Next == MainLoop \/ Bus

Spec == Init /\ [][Next]_vars
\* The main loop runs on, and a host that reads lets a transfer complete.
FairSpec == Spec /\ WF_vars(MainLoop) /\ WF_vars(TransferCompletes)

-----------------------------------------------------------------------------
(* Properties                                                              *)

\* Every variable has its type, and the buffers never hold more than
\* BUFFER_SIZE, whatever write() is called with.
TypeOK ==
  /\ configured \in BOOLEAN /\ armed \in {"none", "user", "rx"}
  /\ rxSize \in {0, 1} /\ rxBuffer \in 0 .. MaxPackets
  /\ flag \in BOOLEAN /\ direct \in BOOLEAN
  /\ flight \in [from : {"none", "tx", "pending"}, data : Seq(Unit)]
  /\ pending \in Seq(Unit) /\ wire \in Seq(Unit) /\ handed \in Seq(Unit)
  /\ Len(flight.data) <= BufferSize /\ Len(pending) <= BufferSize
  /\ stage \in {"read", "flush", "telemetry"} \cup Replies
  /\ step \in {"size", "copy", "clear", "arm", "check", "start", "transmit", "direct",
               "choose"}
  /\ size \in {0, 1} /\ taken \in 0 .. MaxPackets
  /\ msg \in Messages \cup {Nothing}
  /\ reply \in [Replies -> 0 .. MaxPackets]
  /\ requests \in Seq(Replies) /\ Len(requests) <= MaxPackets
  /\ telemetries \in 0 .. MaxTelemetry /\ cuts \in 0 .. MaxCuts
  /\ accepted \in Seq(Messages) /\ handled \in Seq(1 .. MaxPackets)
  /\ exposed \subseteq 1 .. MaxPackets /\ dropped \subseteq Messages \cup {Nothing}

\* A packet that arrives while the main loop is not within read(), on a link
\* that is not reset, is not lost, however the ticks and the packets after it
\* fall: it is handled, once, and before any later one, or it still waits to
\* be read.  (CommInterruptsHandler::read and CDC_Receive_FS share the size
\* without a lock.)
PacketsHandledOnce ==
  \A p \in DOMAIN requests \ exposed :
    /\ \/ p \in Range(handled)
       \/ rxSize = 1 /\ rxBuffer = p
       \/ taken = p
    /\ \A i, j \in DOMAIN handled : handled[i] = p /\ i < j => handled[j] > p

\* A packet is handled a second time only where a bus reset has armed the
\* endpoint with UserRxBufferFS, and then once for each reset: read() copies
\* rx_buffer, which still holds the last packet.
StaleOnlyAfterReset == Len(handled) - Cardinality(Range(handled)) <= cuts

\* The buffer of a transfer under way is not written, whether the transfer
\* was cut, refused or overtaken: the one exception is the transfer that
\* starts from pending_tx_buffer itself (comm_interrupts_handler.cpp:40).
TransferStaysWhole == flight.from = "tx" => flight.data = handed

\* As long as the bus is not reset and no transfer was started from the
\* pending bytes themselves, what the host has, what is on its way and what
\* waits are the messages accepted, whole, in order and once each, but for
\* those given up when the buffer overflowed behind a busy link.  In
\* particular startTransmitInterrupt() then never refuses.
DeliveredInOrder ==
  LET delivered(m) == IF m \in dropped THEN <<>> ELSE Units(m)
  IN cuts = 0 /\ ~direct
       => wire \o flight.data \o pending
            = FlattenSeq([i \in DOMAIN accepted |-> delivered(accepted[i])])

\* No transfer is under way and yet the flag says that one is.
Stuck == ~flag /\ ~TxState /\ step # "transmit"

\* Only a bus reset can leave the transmit flag cleared for good: a transfer
\* that ends takes the flag with it.
StuckOnlyAfterReset == Stuck => cuts > 0

\* A request handled is answered, or its reply is pending, or a later request
\* of its kind has taken its place (one pending reply of each kind,
\* bluewhite_message_handler.cpp:109); and only requests are answered.
RequestsAccountedFor ==
  LET answered(p) == \E i \in DOMAIN accepted : accepted[i] = [kind |-> requests[p], n |-> p]
  IN /\ \A i \in DOMAIN handled :
          LET p == handled[i] IN
            \/ answered(p)
            \/ reply[requests[p]] = p
            \/ \E j \in i + 1 .. Len(handled) : requests[handled[j]] = requests[p]
     /\ \A i \in DOMAIN accepted :
          accepted[i].kind \in Replies => accepted[i].n \in Range(handled)

\* What waits behind a busy link leaves when the link is free again, without
\* another message to push it, unless the flag is stuck or the link is down
\* (writePendingDataIfNeeded in every tick).
PendingLeaves == pending # <<>> ~> pending = <<>> \/ Stuck \/ ~configured
=============================================================================
