---------------------------- MODULE UsbOrder_proofs ----------------------------
(***************************************************************************)
(* Of what UsbLink's write() has accepted the host gets every message,     *)
(* whole, in order and once, for every size of the buffer and every bound. *)
(***************************************************************************)
EXTENDS UsbLink_proofs, SequenceTheorems, WellFoundedInduction

-----------------------------------------------------------------------------
(* FlattenSeq, by induction over the set of the numbers a fact holds of.   *)
(* What holds of 0 and of each number whose predecessor it holds of.        *)
LEMMA AllNumbers ==
  ASSUME NEW S \in SUBSET Nat, 0 \in S, \A n \in Nat \ {0} : n - 1 \in S => n \in S
  PROVE  S = Nat
<1>1. SUFFICES ASSUME Nat \ S # {} PROVE FALSE
  OBVIOUS
<1>2. \E i \in Nat \ S : \A j \in Nat \ S : ~(<<j, i>> \in OpToRel(<, Nat))
  BY <1>1, NatLessThanWellFounded, WFMin, Zenon
<1>3. PICK i \in Nat \ S : \A j \in Nat \ S : ~(<<j, i>> \in OpToRel(<, Nat))
  BY <1>2
<1>4. i - 1 \in Nat \ S
  <2>1. i \in Nat \ {0} /\ i \notin S
    OBVIOUS
  <2>2. i - 1 \in Nat
    BY <2>1
  <2> QED
    BY <2>1, <2>2
<1>5. <<i - 1, i>> \in OpToRel(<, Nat)
  BY <1>4 DEF OpToRel
<1> QED
  BY <1>3, <1>4, <1>5

(* "f" adds up the sequences of "ss", one after the other.                  *)
AddsUp(f, ss, N) == f[0] = <<>> /\ \A i \in 1 .. N : f[i] = f[i - 1] \o ss[i]

LEMMA SumExists ==
  ASSUME NEW S, NEW N \in Nat, NEW ss \in [1 .. N -> Seq(S)]
  PROVE  \E f \in [0 .. N -> Seq(S)] : AddsUp(f, ss, N)
<1> DEFINE P == {n \in Nat : n <= N => \E f \in [0 .. n -> Seq(S)] : AddsUp(f, ss, n)}
<1>1. 0 \in P
  <2>1. [i \in 0 .. 0 |-> <<>>] \in [0 .. 0 -> Seq(S)]
    OBVIOUS
  <2>2. AddsUp([i \in 0 .. 0 |-> <<>>], ss, 0)
    BY DEF AddsUp
  <2> QED
    BY <2>1, <2>2
<1>2. ASSUME NEW n \in Nat \ {0}, n - 1 \in P PROVE n \in P
  <2>1. SUFFICES ASSUME n <= N PROVE  \E f \in [0 .. n -> Seq(S)] : AddsUp(f, ss, n)
    OBVIOUS
  <2>2. PICK f \in [0 .. n - 1 -> Seq(S)] : AddsUp(f, ss, n - 1)
    BY <1>2, <2>1
  <2> DEFINE g == [i \in 0 .. n |-> IF i = n THEN f[n - 1] \o ss[n] ELSE f[i]]
  <2>3. f[n - 1] \in Seq(S) /\ ss[n] \in Seq(S)
    BY <2>1, <2>2
  <2>4. f[n - 1] \o ss[n] \in Seq(S)
    BY <2>3
  <2>5. g \in [0 .. n -> Seq(S)]
    BY <2>2, <2>4
  <2>6. AddsUp(g, ss, n)
    <3>1. g[0] = <<>>
      BY <2>2 DEF AddsUp
    <3>2. ASSUME NEW i \in 1 .. n PROVE g[i] = g[i - 1] \o ss[i]
      <4>1. i \in 0 .. n /\ i - 1 \in 0 .. n /\ i - 1 # n
        OBVIOUS
      <4>2. g[i - 1] = f[i - 1]
        BY <4>1
      <4>3. CASE i = n
        BY <4>1, <4>2, <4>3
      <4>4. CASE i # n
        <5>1. i \in 1 .. n - 1
          BY <4>4
        <5>2. f[i] = f[i - 1] \o ss[i]
          BY <5>1, <2>2 DEF AddsUp
        <5> QED
          BY <4>1, <4>2, <4>4, <5>2
      <4> QED
        BY <4>3, <4>4
    <3> HIDE DEF g
    <3> QED
      BY <3>1, <3>2 DEF AddsUp
  <2> QED
    BY <2>5, <2>6
<1>3. P \in SUBSET Nat
  OBVIOUS
<1> HIDE DEF P
<1>4. N \in P
  BY <1>1, <1>2, <1>3, AllNumbers
<1> QED
  BY <1>4 DEF P

LEMMA FlattenDef ==
  ASSUME NEW ss, Len(ss) # 0
  PROVE  FlattenSeq(ss)
           = (CHOOSE f : f = [i \in 1 .. Len(ss) |->
                                IF i = 1 THEN ss[i] ELSE f[i - 1] \o ss[i]])[Len(ss)]
BY Zenon DEF FlattenSeq

LEMMA FlattenIsSum ==
  ASSUME NEW S, NEW N \in Nat, NEW ss \in [1 .. N -> Seq(S)],
         NEW f \in [0 .. N -> Seq(S)], AddsUp(f, ss, N)
  PROVE  FlattenSeq(ss) = f[N]
<1>1. Len(ss) = N
  OBVIOUS
<1>2. f[0] = <<>> /\ \A i \in 1 .. N : f[i] = f[i - 1] \o ss[i]
  BY DEF AddsUp
<1>3. CASE N = 0
  <2>1. FlattenSeq(ss) = ss
    BY <1>1, <1>3, Zenon DEF FlattenSeq
  <2>2. ss = <<>>
    BY <1>3
  <2> QED
    BY <1>2, <1>3, <2>1, <2>2
<1>4. CASE N # 0
  <2> DEFINE Sum(g) == [i \in 1 .. Len(ss) |-> IF i = 1 THEN ss[i] ELSE g[i - 1] \o ss[i]]
             h == [i \in 1 .. N |-> f[i]]
             flat == CHOOSE g : g = Sum(g)
  <2>1. FlattenSeq(ss) = flat[N]
    <3>1. Len(ss) # 0
      BY <1>1, <1>4
    <3>2. FlattenSeq(ss) = flat[Len(ss)]
      BY <3>1, FlattenDef, Zenon
    <3> QED
      BY <1>1, <3>2, Zenon
  <2>2. h = Sum(h)
    <3> USE <1>1
    <3>1. ASSUME NEW i \in 1 .. N PROVE h[i] = Sum(h)[i]
      <4>1. ss[i] \in Seq(S) /\ h[i] = f[i] /\ f[i] = f[i - 1] \o ss[i]
        BY <1>2
      <4>2. CASE i = 1
        <5>1. f[i - 1] = <<>>
          BY <1>2, <4>2
        <5>2. <<>> \o ss[i] = ss[i]
          BY <4>1
        <5>3. f[i] = ss[i]
          BY <4>1, <5>1, <5>2, Zenon
        <5> QED
          BY <4>1, <4>2, <5>3
      <4>3. CASE i # 1
        <5>1. i - 1 \in 1 .. N
          BY <4>3
        <5> QED
          BY <4>1, <4>3, <5>1
      <4> QED
        BY <4>2, <4>3
    <3> QED
      BY <3>1, <1>1
  <2> HIDE DEF h, Sum
  <2>3. flat = Sum(flat)
    BY <2>2, Zenon
  <2> HIDE DEF flat
  <2>4. \A i \in 1 .. N : flat[i] = IF i = 1 THEN ss[i] ELSE flat[i - 1] \o ss[i]
    <3>1. \A i \in 1 .. N : Sum(flat)[i] = IF i = 1 THEN ss[i] ELSE flat[i - 1] \o ss[i]
      BY <1>1 DEF Sum
    <3> QED
      BY <2>3, <3>1, Zenon
  <2> DEFINE P == {n \in Nat : n \in 1 .. N => flat[n] = f[n]}
  <2>5. 0 \in P
    OBVIOUS
  <2>6. ASSUME NEW n \in Nat \ {0}, n - 1 \in P PROVE n \in P
    <3>1. SUFFICES ASSUME n \in 1 .. N PROVE flat[n] = f[n]
      OBVIOUS
    <3>2. ss[n] \in Seq(S) /\ f[n] = f[n - 1] \o ss[n]
      BY <1>2, <3>1
    <3>3. CASE n = 1
      <4>1. f[n - 1] = <<>>
        BY <1>2, <3>3
      <4>2. <<>> \o ss[n] = ss[n]
        BY <3>2
      <4>3. flat[n] = ss[n]
        BY <2>4, <3>1, <3>3
      <4> QED
        BY <3>2, <4>1, <4>2, <4>3, Zenon
    <3>4. CASE n # 1
      <4>1. n - 1 \in 1 .. N
        BY <3>1, <3>4
      <4>2. flat[n - 1] = f[n - 1]
        BY <2>6, <4>1
      <4>3. flat[n] = flat[n - 1] \o ss[n]
        BY <2>4, <3>1, <3>4, Zenon
      <4> QED
        BY <3>2, <4>2, <4>3, Zenon
    <3> QED
      BY <3>3, <3>4
  <2>7. P \in SUBSET Nat
    OBVIOUS
  <2> HIDE DEF P
  <2>8. N \in P
    BY <2>5, <2>6, <2>7, AllNumbers
  <2>9. flat[N] = f[N]
    BY <2>8, <1>4 DEF P
  <2> QED
    BY <2>1, <2>9, Zenon
<1> QED
  BY <1>3, <1>4

(* What FlattenSeq returns, from the front to the back.                     *)
LEMMA FlattenTyped ==
  ASSUME NEW S, NEW N \in Nat, NEW ss \in [1 .. N -> Seq(S)]
  PROVE  FlattenSeq(ss) \in Seq(S)
<1>1. PICK f \in [0 .. N -> Seq(S)] : AddsUp(f, ss, N)
  BY SumExists
<1>2. FlattenSeq(ss) = f[N]
  BY <1>1, FlattenIsSum
<1> QED
  BY <1>1, <1>2

LEMMA FlattenEmpty == FlattenSeq(<<>>) = <<>>
BY DEF FlattenSeq

LEMMA FlattenLast ==
  ASSUME NEW S, NEW N \in Nat \ {0}, NEW ss \in [1 .. N -> Seq(S)]
  PROVE  FlattenSeq(ss) = FlattenSeq([i \in 1 .. N - 1 |-> ss[i]]) \o ss[N]
<1> DEFINE front == [i \in 1 .. N - 1 |-> ss[i]]
<1>1. N - 1 \in Nat /\ front \in [1 .. N - 1 -> Seq(S)]
  OBVIOUS
<1>2. PICK f \in [0 .. N -> Seq(S)] : AddsUp(f, ss, N)
  BY SumExists
<1>3. FlattenSeq(ss) = f[N]
  BY <1>2, FlattenIsSum
<1>4. f[N] = f[N - 1] \o ss[N]
  <2>1. \A i \in 1 .. N : f[i] = f[i - 1] \o ss[i]
    BY <1>2 DEF AddsUp
  <2>2. N \in 1 .. N
    OBVIOUS
  <2> QED
    BY <2>1, <2>2, Zenon
<1> DEFINE g == [i \in 0 .. N - 1 |-> f[i]]
<1>5. g \in [0 .. N - 1 -> Seq(S)] /\ g[N - 1] = f[N - 1]
  OBVIOUS
<1>6. AddsUp(g, front, N - 1)
  <2>1. g[0] = <<>>
    BY <1>2 DEF AddsUp
  <2>2. ASSUME NEW i \in 1 .. N - 1 PROVE g[i] = g[i - 1] \o front[i]
    <3>1. i \in 1 .. N /\ i - 1 \in 0 .. N - 1 /\ i \in 0 .. N - 1
      OBVIOUS
    <3>2. f[i] = f[i - 1] \o ss[i]
      BY <1>2, <3>1 DEF AddsUp
    <3> QED
      BY <3>1, <3>2
  <2> HIDE DEF g, front
  <2> QED
    BY <2>1, <2>2 DEF AddsUp
<1> HIDE DEF g, front
<1>7. FlattenSeq(front) = g[N - 1]
  BY <1>1, <1>5, <1>6, FlattenIsSum
<1> QED
  BY <1>3, <1>4, <1>5, <1>7 DEF front

-----------------------------------------------------------------------------
(* The units of the first n messages accepted, but for those given up.     *)
Part(acc, gone, i) == IF acc[i] \in gone THEN <<>> ELSE Units(acc[i])
Given(acc, gone, n) == FlattenSeq([i \in 1 .. n |-> Part(acc, gone, i)])

LEMMA PartTyped ==
  ASSUME NEW acc \in Seq(Messages), NEW gone, NEW i \in 1 .. Len(acc)
  PROVE  Part(acc, gone, i) \in Seq(Unit)
<1>1. acc[i] \in Messages \cup {Nothing}
  OBVIOUS
<1> QED
  BY <1>1, UnitsTyped DEF Part

LEMMA GivenTyped ==
  ASSUME NEW acc \in Seq(Messages), NEW gone, NEW n \in 0 .. Len(acc)
  PROVE  Given(acc, gone, n) \in Seq(Unit)
<1>1. [i \in 1 .. n |-> Part(acc, gone, i)] \in [1 .. n -> Seq(Unit)]
  BY PartTyped
<1> QED
  BY <1>1, FlattenTyped DEF Given

LEMMA GivenNone ==
  ASSUME NEW acc, NEW gone
  PROVE  Given(acc, gone, 0) = <<>>
<1>1. [i \in 1 .. 0 |-> Part(acc, gone, i)] = <<>>
  OBVIOUS
<1> QED
  BY <1>1, FlattenEmpty, Zenon DEF Given

LEMMA GivenLast ==
  ASSUME NEW acc \in Seq(Messages), NEW gone, NEW n \in 1 .. Len(acc)
  PROVE  Given(acc, gone, n) = Given(acc, gone, n - 1) \o Part(acc, gone, n)
<1> DEFINE ss == [i \in 1 .. n |-> Part(acc, gone, i)]
<1>1. ss \in [1 .. n -> Seq(Unit)] /\ n \in Nat \ {0}
  BY PartTyped
<1>2. [i \in 1 .. n - 1 |-> ss[i]] = [i \in 1 .. n - 1 |-> Part(acc, gone, i)]
  OBVIOUS
<1>3. ss[n] = Part(acc, gone, n)
  OBVIOUS
<1>4. FlattenSeq(ss) = Given(acc, gone, n)
  BY DEF Given
<1> HIDE DEF ss
<1>5. FlattenSeq(ss) = FlattenSeq([i \in 1 .. n - 1 |-> ss[i]]) \o ss[n]
  BY <1>1, FlattenLast
<1> QED
  BY <1>2, <1>3, <1>4, <1>5, Zenon DEF Given

LEMMA GivenSame ==
  ASSUME NEW acc, NEW gone, NEW acc2, NEW gone2, NEW n,
         \A i \in 1 .. n : Part(acc, gone, i) = Part(acc2, gone2, i)
  PROVE  Given(acc, gone, n) = Given(acc2, gone2, n)
<1>1. [i \in 1 .. n |-> Part(acc, gone, i)] = [i \in 1 .. n |-> Part(acc2, gone2, i)]
  OBVIOUS
<1> QED
  BY <1>1, Zenon DEF Given

(* Messages given up add nothing.                                          *)
LEMMA GivenNothing ==
  ASSUME NEW acc \in Seq(Messages), NEW gone, NEW k \in 0 .. Len(acc),
         \A j \in k + 1 .. Len(acc) : acc[j] \in gone
  PROVE  Given(acc, gone, Len(acc)) = Given(acc, gone, k)
<1> DEFINE P == {n \in Nat : n \in k .. Len(acc) => Given(acc, gone, n) = Given(acc, gone, k)}
<1>1. 0 \in P
  OBVIOUS
<1>2. ASSUME NEW n \in Nat \ {0}, n - 1 \in P PROVE n \in P
  <2>1. SUFFICES ASSUME n \in k .. Len(acc), n # k
                 PROVE  Given(acc, gone, n) = Given(acc, gone, k)
    OBVIOUS
  <2>2. n - 1 \in k .. Len(acc) /\ n \in k + 1 .. Len(acc) /\ n \in 1 .. Len(acc)
        /\ n - 1 \in 0 .. Len(acc)
    BY <2>1
  <2>3. Given(acc, gone, n - 1) = Given(acc, gone, k)
    BY <1>2, <2>2
  <2>4. Part(acc, gone, n) = <<>>
    BY <2>2 DEF Part
  <2>5. Given(acc, gone, n) = Given(acc, gone, n - 1) \o <<>>
    BY <2>2, <2>4, GivenLast
  <2>6. Given(acc, gone, n - 1) \in Seq(Unit)
    BY <2>2, GivenTyped
  <2>7. Given(acc, gone, n - 1) \o <<>> = Given(acc, gone, n - 1)
    BY <2>6
  <2> QED
    BY <2>3, <2>5, <2>7, Zenon
<1>3. P \in SUBSET Nat
  OBVIOUS
<1>4. Len(acc) \in Nat /\ Len(acc) \in k .. Len(acc)
  OBVIOUS
<1> HIDE DEF P
<1>5. Len(acc) \in P
  BY <1>1, <1>2, <1>3, <1>4, AllNumbers
<1> QED
  BY <1>4, <1>5 DEF P

(* One more message.                                                       *)
LEMMA GivenMore ==
  ASSUME NEW acc \in Seq(Messages), NEW gone, NEW m \in Messages, m \notin gone
  PROVE  /\ Given(Append(acc, m), gone, Len(acc) + 1) = Given(acc, gone, Len(acc)) \o Units(m)
         /\ \A n \in 0 .. Len(acc) : Given(Append(acc, m), gone, n) = Given(acc, gone, n)
<1>1. /\ Append(acc, m) \in Seq(Messages) /\ Len(Append(acc, m)) = Len(acc) + 1
      /\ Append(acc, m)[Len(acc) + 1] = m
      /\ \A i \in 1 .. Len(acc) : Append(acc, m)[i] = acc[i]
  OBVIOUS
<1>2. ASSUME NEW n \in 0 .. Len(acc)
      PROVE  Given(Append(acc, m), gone, n) = Given(acc, gone, n)
  <2>1. \A i \in 1 .. n : Part(Append(acc, m), gone, i) = Part(acc, gone, i)
    BY <1>1 DEF Part
  <2> QED
    BY <2>1, GivenSame
<1>3. Given(Append(acc, m), gone, Len(acc) + 1) = Given(acc, gone, Len(acc)) \o Units(m)
  <2> DEFINE new == Append(acc, m)
             n == Len(acc) + 1
  <2>1. new \in Seq(Messages) /\ n \in 1 .. Len(new) /\ n - 1 = Len(acc) /\ Len(acc) \in 0 .. Len(acc)
    BY <1>1
  <2>2. Part(new, gone, n) = Units(m)
    BY <1>1 DEF Part
  <2>3. Given(new, gone, Len(acc)) = Given(acc, gone, Len(acc))
    BY <1>2, <2>1
  <2> HIDE DEF new, n
  <2>4. Given(new, gone, n) = Given(new, gone, n - 1) \o Part(new, gone, n)
    BY <2>1, GivenLast
  <2>5. Given(new, gone, n) = Given(acc, gone, Len(acc)) \o Units(m)
    BY <2>1, <2>2, <2>3, <2>4, Zenon
  <2> QED
    BY <2>5 DEF new, n
<1> QED
  BY <1>2, <1>3

-----------------------------------------------------------------------------
(* A link that has not been reset.  Before it is configured nothing waits, *)
(* and the flag is down only while a transfer starts or is under way: that *)
(* is why startTransmitInterrupt() never refuses.                          *)
LineInv ==
  cuts = 0 =>
    /\ ~configured => pending = <<>> /\ flag /\ ~TxState
    /\ ~TxState => flight.data = <<>>
    /\ flight.from = "pending" => direct

LEMMA NotClobbered ==
  ASSUME TypeOK, NEW buffer, flight.from # buffer, NEW first, NEW units,
         NEW d \in Clobbered(buffer, first, units)
  PROVE  [flight EXCEPT !.data = d] = flight
<1>1. d = flight.data
  BY DEF Clobbered
<1>2. flight \in [from : {"none", "tx", "pending"}, data : Seq(Unit)]
  BY DEF TypeOK
<1> QED
  BY <1>1, <1>2

LEMMA LineStep == LinkInv /\ LineInv /\ [Next]_vars => LineInv'
<1> SUFFICES ASSUME LinkInv, LineInv, [Next]_vars PROVE LineInv'
  OBVIOUS
<1>a. /\ TypeOK /\ FlagGuardsBuffer /\ flight.from \in {"none", "tx", "pending"}
      /\ flight \in [from : {"none", "tx", "pending"}, data : Seq(Unit)]
  BY DEF LinkInv, TypeOK
<1>b. ASSUME UNCHANGED <<cuts, configured, flag, pending, flight, direct>> PROVE LineInv'
  BY <1>b DEF LineInv, TxState
<1>1. CASE UNCHANGED vars
  BY <1>1, <1>b DEF vars, txVars
<1>2. CASE ReadSize \/ CopyReceived \/ ClearSize \/ Rearm
  BY <1>2, <1>b DEF ReadSize, CopyReceived, ClearSize, Rearm, txVars
<1>3. CASE CheckAvailable \/ PendingOverflows \/ TickEnds
  BY <1>3, <1>b DEF CheckAvailable, PendingOverflows, TickEnds, txVars
<1>4. CASE AppendPending
  <2>1. ~flag /\ UNCHANGED <<configured, flag, direct, cuts>>
    BY <1>4 DEF AppendPending, Available
  <2>2. PICK d \in Clobbered("pending", Len(pending) + 1, Units(msg)) :
          flight' = [flight EXCEPT !.data = d]
    BY <1>4 DEF AppendPending
  <2>3. flight'.from = flight.from
    BY <2>2, <1>a
  <2>4. flight.from # "pending" => flight' = flight
    BY <2>2, <1>a, NotClobbered
  <2> QED
    BY <2>1, <2>3, <2>4 DEF LineInv, TxState
<1>5. CASE StartTransmit
  <2>1. step = "start" /\ flag /\ UNCHANGED <<configured, direct, cuts>>
    BY <1>5, <1>a DEF StartTransmit, FlagGuardsBuffer
  <2>2. flight.from # "tx"
    BY <2>1, <1>a DEF FlagGuardsBuffer
  <2>3. flight' = flight
    BY <1>5, <2>2, <1>a, NotClobbered DEF StartTransmit
  <2>4. pending' = pending \/ (pending' = Left /\ ~(configured /\ ~TxState) /\ flag' = flag)
    BY <1>5 DEF StartTransmit
  <2>5. pending = <<>> => Left = <<>>
    BY DEF Left
  <2>6. (configured /\ ~TxState) \/ flag' = flag
    BY <1>5 DEF StartTransmit
  <2> QED
    BY <2>1, <2>3, <2>4, <2>5, <2>6 DEF LineInv, TxState
<1>6. CASE TransmitPacket
  <2>1. configured \/ cuts > 0
    BY <1>6, <1>a DEF TransmitPacket, FlagGuardsBuffer
  <2>2. UNCHANGED <<configured, cuts>> /\ (configured => flight'.from = "tx")
    BY <1>6 DEF TransmitPacket
  <2> QED
    BY <2>1, <2>2, Bounds DEF LineInv, TxState
<1>7. CASE DirectWrite
  <2>1. UNCHANGED <<configured, flag, cuts>>
    BY <1>7 DEF DirectWrite
  <2>2. CASE configured /\ ~TxState
    <3>1. flight'.from = "pending" /\ direct'
      BY <1>7, <2>2 DEF DirectWrite
    <3> QED
      BY <2>1, <2>2, <3>1 DEF LineInv, TxState
  <2>3. CASE ~(configured /\ ~TxState)
    <3>1. pending' = <<>> /\ UNCHANGED <<flight, direct>>
      BY <1>7, <2>3 DEF DirectWrite
    <3> QED
      BY <2>1, <3>1 DEF LineInv, TxState
  <2> QED
    BY <2>2, <2>3
<1>8. CASE \E k \in Telemetries : SendTelemetry(k)
  BY <1>8, <1>b DEF SendTelemetry, txVars
<1>9. CASE TransferCompletes
  BY <1>9 DEF TransferCompletes, LineInv, TxState, Idle
<1>10. CASE Cut
  <2>1. cuts' = cuts + 1 /\ cuts \in Nat
    BY <1>10, <1>a, Bounds DEF Cut, TypeOK
  <2> QED
    BY <2>1 DEF LineInv
<1>11. CASE Configure
  BY <1>11 DEF Configure, txVars, LineInv, TxState
<1>12. CASE \E k \in Replies : PacketArrives(k)
  BY <1>12, <1>b DEF PacketArrives, txVars
<1> QED
  BY <1>1, <1>2, <1>3, <1>4, <1>5, <1>6, <1>7, <1>8, <1>9, <1>10, <1>11, <1>12
     DEF Next, MainLoop, Bus

-----------------------------------------------------------------------------
(* No message is accepted twice: telemetries are numbered, and a request   *)
(* is handled only once on a link that is not reset, so its reply is not   *)
(* pending again once it has been written.                                 *)
AcceptedOnce == \A i, j \in DOMAIN accepted : accepted[i] = accepted[j] => i = j
AnsweredOnce ==
  \A i \in DOMAIN accepted :
    accepted[i].kind \in Replies => reply[accepted[i].kind] # accepted[i].n
TelemetryNumbered ==
  /\ \A i \in DOMAIN accepted :
       accepted[i].kind \in Telemetries => accepted[i].n <= telemetries
  /\ msg.kind \in Telemetries =>
       /\ stage = "telemetry" /\ msg.n = telemetries
       /\ \A i \in DOMAIN accepted :
            accepted[i].kind \in Telemetries => accepted[i].n < telemetries
  /\ step = "choose" => msg.kind \notin Telemetries
FreshInv == TelemetryNumbered /\ (cuts = 0 => AcceptedOnce /\ AnsweredOnce)

LEMMA MessageParts ==
  ASSUME NEW m \in Messages
  PROVE  /\ m.kind \in Replies \cup Telemetries /\ m.n \in Nat /\ m.n >= 1 /\ m # Nothing
         /\ Units(m) \in Seq(Unit) /\ Len(Units(m)) >= 1 /\ \A u \in Range(Units(m)) : u.of = m
<1>1. m.kind \in Replies \cup Telemetries /\ m.n \in Nat /\ m.n >= 1
  BY Bounds DEF Messages
<1>2. m # Nothing
  BY <1>1 DEF Nothing
<1>3. SizeOf(m) \in Nat /\ SizeOf(m) >= 1
  BY <1>2, Bounds DEF SizeOf
<1>4. Units(m) \in Seq(Unit) /\ Len(Units(m)) = SizeOf(m)
  BY UnitsTyped
<1>5. \A u \in Range(Units(m)) : u.of = m
  BY <1>3 DEF Units, Range
<1> QED
  BY <1>1, <1>2, <1>3, <1>4, <1>5

LEMMA NothingHasNoUnits == Units(Nothing) = <<>>
BY DEF Units, SizeOf

LEMMA MessageIsNew ==
  ASSUME TypeOK, ReplyInv, FreshInv, cuts = 0, msg # Nothing
  PROVE  msg \in Messages /\ \A i \in DOMAIN accepted : accepted[i] # msg
<1>1. msg \in Messages
  BY DEF TypeOK
<1>2. CASE msg.kind \in Replies
  <2>1. stage \in Replies /\ msg = [kind |-> stage, n |-> reply[stage]]
    BY <1>2 DEF ReplyInv, RepliesKnown
  <2>2. msg.kind = stage /\ msg.n = reply[stage]
    BY <2>1
  <2> QED
    BY <1>1, <1>2, <2>2 DEF FreshInv, AnsweredOnce
<1>3. CASE msg.kind \in Telemetries
  <2>1. msg.n = telemetries /\ telemetries \in Int
    BY <1>3, Bounds DEF FreshInv, TelemetryNumbered, TypeOK
  <2> QED
    BY <1>1, <1>3, <2>1 DEF FreshInv, TelemetryNumbered
<1> QED
  BY <1>1, <1>2, <1>3, MessageParts

(* A return of write().                                                    *)
LEMMA ReturnKeepsFresh ==
  ASSUME TypeOK, ReplyInv, FreshInv, NEW ok \in BOOLEAN, Return(ok),
         UNCHANGED <<telemetries, cuts>>
  PROVE  FreshInv'
<1>a. /\ accepted \in Seq(Messages) /\ DOMAIN accepted = 1 .. Len(accepted)
      /\ Len(accepted) \in Nat /\ telemetries \in Int
      /\ reply \in [Replies -> 0 .. MaxPackets]
      /\ \A i \in DOMAIN accepted : accepted[i] \in Messages
  BY Bounds DEF TypeOK
<1>1. /\ reply' = IF stage \in Replies /\ ok THEN [reply EXCEPT ![stage] = 0] ELSE reply
      /\ accepted' = IF ok /\ msg # Nothing THEN Append(accepted, msg) ELSE accepted
  BY DEF Return, Clears
<1>2. msg'.kind \notin Telemetries
  BY DEF Return, Proceed, Nothing, Replies, Telemetries
<1>3. \A k \in Replies : reply'[k] = reply[k] \/ reply'[k] = 0
  BY <1>1, <1>a
<1>4. CASE accepted' = accepted
  BY <1>2, <1>3, <1>4, <1>a, MessageParts
     DEF FreshInv, TelemetryNumbered, AcceptedOnce, AnsweredOnce
<1>5. CASE ok /\ msg # Nothing
  <2>1. msg \in Messages
    BY <1>5 DEF TypeOK
  <2>2. /\ DOMAIN accepted' = 1 .. Len(accepted) + 1
        /\ \A i \in DOMAIN accepted : accepted'[i] = accepted[i]
        /\ accepted'[Len(accepted) + 1] = msg
    BY <1>1, <1>5, <1>a, <2>1
  <2>3. TelemetryNumbered'
    <3>1. msg.kind \in Telemetries => msg.n <= telemetries
      BY <1>a DEF FreshInv, TelemetryNumbered
    <3> QED
      BY <1>2, <2>2, <3>1, <1>a DEF FreshInv, TelemetryNumbered
  <2>4. ASSUME cuts = 0 PROVE AcceptedOnce'
    <3>1. \A i \in DOMAIN accepted : accepted[i] # msg
      BY <1>5, <2>4, MessageIsNew
    <3> QED
      BY <2>2, <2>4, <3>1, <1>a DEF FreshInv, AcceptedOnce
  <2>5. ASSUME cuts = 0 PROVE AnsweredOnce'
    <3>1. ASSUME NEW i \in DOMAIN accepted, accepted[i].kind \in Replies
          PROVE  reply'[accepted[i].kind] # accepted[i].n
      BY <2>5, <3>1, <1>3, <1>a, MessageParts DEF FreshInv, AnsweredOnce
    <3>2. ASSUME msg.kind \in Replies PROVE reply'[msg.kind] # msg.n
      <4>1. stage \in Replies /\ msg.kind = stage
        BY <3>2 DEF ReplyInv, RepliesKnown
      <4>2. reply'[stage] = 0
        BY <1>1, <1>5, <1>a, <4>1
      <4> QED
        BY <2>1, <4>1, <4>2, MessageParts
    <3> QED
      BY <2>2, <3>1, <3>2, <1>a DEF AnsweredOnce
  <2> QED
    BY <2>3, <2>4, <2>5 DEF FreshInv
<1> QED
  BY <1>1, <1>4, <1>5

LEMMA CardinalityUpTo ==
  ASSUME NEW n \in Nat
  PROVE  IsFiniteSet(1 .. n) /\ Cardinality(1 .. n) = n
<1>1. IsFiniteSet(1 .. n) /\ Cardinality(1 .. n) = IF 1 > n THEN 0 ELSE n - 1 + 1
  BY FS_Interval
<1> QED
  BY <1>1

(* On a link that is not reset read() takes no packet twice.               *)
LEMMA TakenIsNew ==
  ASSUME TypeOK, StaleInv, cuts = 0, taken # 0
  PROVE  taken \notin Range(handled)
<1>1. handled \in [1 .. Len(handled) -> Range(handled)] /\ Len(handled) \in Nat
  BY DEF TypeOK, Range
<1>2. handled \in Surjection(1 .. Len(handled), Range(handled))
  BY <1>1 DEF Surjection, Range
<1>3. /\ IsFiniteSet(1 .. Len(handled)) /\ Cardinality(1 .. Len(handled)) = Len(handled)
  BY <1>1, CardinalityUpTo
<1>4. Cardinality(Range(handled)) <= Len(handled)
  BY <1>2, <1>3, FS_Surjection
<1>5. Owed = 0
  BY <1>4, HandledCounted DEF StaleInv, HandledTwice
<1> QED
  BY <1>5 DEF Owed, OldTaken

LEMMA FreshStep ==
  TypeOK /\ RxInv /\ ReplyInv /\ StaleInv /\ FreshInv /\ [Next]_vars => FreshInv'
<1> SUFFICES ASSUME TypeOK, RxInv, ReplyInv, StaleInv, FreshInv, [Next]_vars PROVE FreshInv'
  OBVIOUS
<1>a. ASSUME UNCHANGED <<accepted, reply, telemetries, cuts>>,
             msg' = msg, stage' = stage \/ msg.kind \notin Telemetries,
             step' # "choose" \/ step' = step
      PROVE  FreshInv'
  BY <1>a DEF FreshInv, TelemetryNumbered, AcceptedOnce, AnsweredOnce
<1>b. telemetries \in Nat /\ cuts \in Nat
  BY Bounds DEF TypeOK
<1>1. CASE UNCHANGED vars
  BY <1>1, <1>a DEF vars, txVars
<1>2. CASE ReadSize \/ CopyReceived \/ ClearSize
  BY <1>2, <1>a DEF ReadSize, CopyReceived, ClearSize, txVars
<1>3. CASE Rearm
  <2>1. UNCHANGED <<accepted, telemetries, cuts>> /\ msg' = Nothing
    BY <1>3 DEF Rearm, txVars
  <2>2. TelemetryNumbered'
    BY <2>1 DEF FreshInv, TelemetryNumbered, Nothing, Telemetries
  <2>3. ASSUME cuts = 0 PROVE AnsweredOnce'
    <3>1. CASE reply' = reply
      BY <2>1, <2>3, <3>1 DEF FreshInv, AnsweredOnce
    <3>2. CASE taken # 0 /\ reply' = [reply EXCEPT ![requests[taken]] = taken]
      <4>1. taken \notin Range(handled)
        BY <2>3, <3>2, TakenIsNew
      <4>2. \A i \in DOMAIN accepted :
              accepted[i].kind \in Replies => accepted[i].n \in Range(handled)
        BY DEF ReplyInv, RepliesKnown
      <4>3. reply \in [Replies -> 0 .. MaxPackets]
        BY DEF TypeOK
      <4>4. \A k \in Replies : reply'[k] = reply[k] \/ reply'[k] = taken
        BY <3>2, <4>3
      <4> QED
        BY <2>1, <2>3, <4>1, <4>2, <4>4 DEF FreshInv, AnsweredOnce
    <3> QED
      BY <1>3, <3>1, <3>2 DEF Rearm
  <2> QED
    BY <2>1, <2>2, <2>3 DEF FreshInv, AcceptedOnce
<1>4. CASE CheckAvailable
  <2>1. UNCHANGED <<telemetries, cuts>>
    BY <1>4 DEF CheckAvailable
  <2>2. CASE NothingToSend
    BY <1>4, <2>1, <2>2, ReturnKeepsFresh DEF CheckAvailable
  <2>3. CASE ~NothingToSend
    BY <1>4, <2>1, <2>3, <1>a DEF CheckAvailable
  <2> QED
    BY <2>2, <2>3
<1>5. CASE AppendPending
  BY <1>5, ReturnKeepsFresh DEF AppendPending
<1>6. CASE PendingOverflows
  BY <1>6, <1>a DEF PendingOverflows, txVars
<1>7. CASE StartTransmit
  <2>1. UNCHANGED <<telemetries, cuts>>
    BY <1>7 DEF StartTransmit
  <2>2. CASE configured /\ ~TxState
    BY <1>7, <2>1, <2>2, <1>a DEF StartTransmit
  <2>3. CASE ~(configured /\ ~TxState)
    BY <1>7, <2>1, <2>3, ReturnKeepsFresh DEF StartTransmit
  <2> QED
    BY <2>2, <2>3
<1>8. CASE TransmitPacket
  <2>1. configured \in BOOLEAN /\ Return(configured) /\ UNCHANGED <<telemetries, cuts>>
    BY <1>8 DEF TransmitPacket, TypeOK
  <2> QED
    BY <2>1, ReturnKeepsFresh
<1>9. CASE DirectWrite
  <2>1. UNCHANGED <<telemetries, cuts>> /\ (Return(TRUE) \/ Return(FALSE))
    BY <1>9 DEF DirectWrite
  <2> QED
    BY <2>1, ReturnKeepsFresh
<1>10. ASSUME NEW k \in Telemetries, SendTelemetry(k) PROVE FreshInv'
  <2>1. /\ telemetries' = telemetries + 1 /\ msg' = [kind |-> k, n |-> telemetries + 1]
        /\ UNCHANGED <<accepted, reply, cuts>> /\ stage' = stage /\ step = "choose" /\ step' = "check"
    BY <1>10 DEF SendTelemetry, txVars
  <2>2. stage' = "telemetry"
    BY <2>1 DEF ReplyInv, RepliesKnown
  <2>3. accepted \in Seq(Messages) /\ \A i \in DOMAIN accepted : accepted[i].n \in Int
    <3>1. accepted \in Seq(Messages) /\ \A i \in DOMAIN accepted : accepted[i] \in Messages
      BY DEF TypeOK
    <3> QED
      BY <3>1, MessageParts
  <2>4. TelemetryNumbered'
    BY <1>b, <2>1, <2>2, <2>3 DEF FreshInv, TelemetryNumbered
  <2> QED
    BY <2>1, <2>4 DEF FreshInv, AcceptedOnce, AnsweredOnce
<1>11. CASE TickEnds
  <2>1. /\ step = "choose" /\ step' = "size" /\ msg' = msg
        /\ UNCHANGED <<accepted, reply, telemetries, cuts>>
    BY <1>11 DEF TickEnds, txVars
  <2> QED
    BY <2>1, <1>a DEF FreshInv, TelemetryNumbered
<1>12. CASE TransferCompletes
  BY <1>12, <1>a DEF TransferCompletes
<1>13. CASE Cut
  <2>1. cuts' = cuts + 1 /\ UNCHANGED <<accepted, reply, telemetries, msg, stage, step>>
    BY <1>13 DEF Cut
  <2> QED
    BY <2>1, <1>b DEF FreshInv, TelemetryNumbered
<1>14. CASE Configure
  BY <1>14, <1>a DEF Configure, txVars
<1>15. CASE \E k \in Replies : PacketArrives(k)
  BY <1>15, <1>a DEF PacketArrives, txVars
<1> QED
  BY <1>1, <1>2, <1>3, <1>4, <1>5, <1>6, <1>7, <1>8, <1>9, <1>10, <1>11, <1>12, <1>13, <1>14,
     <1>15 DEF Next, MainLoop, Bus

-----------------------------------------------------------------------------
(* The first k messages accepted have left, whole, for the host or for the *)
(* transfer under way; those after them wait, and are what waits.          *)
Split(k) ==
  /\ Given(accepted, dropped, k) = wire \o flight.data
  /\ Given(accepted, dropped, Len(accepted)) = Given(accepted, dropped, k) \o pending
  /\ \A u \in Range(pending) : \E j \in k + 1 .. Len(accepted) : u.of = accepted[j]
  /\ \A j \in k + 1 .. Len(accepted) :
       accepted[j] \in dropped \/ \E u \in Range(pending) : u.of = accepted[j]
OrderInv ==
  cuts = 0 /\ ~direct =>
    dropped \subseteq Range(accepted) /\ \E k \in 0 .. Len(accepted) : Split(k)

LEMMA OrderMeansDelivered == TypeOK /\ OrderInv => DeliveredInOrder
<1> SUFFICES ASSUME TypeOK, OrderInv, cuts = 0, ~direct
             PROVE  wire \o flight.data \o pending
                      = FlattenSeq([i \in DOMAIN accepted |->
                          IF accepted[i] \in dropped THEN <<>> ELSE Units(accepted[i])])
  BY Zenon DEF DeliveredInOrder
<1>1. PICK k \in 0 .. Len(accepted) : Split(k)
  BY DEF OrderInv
<1>2. DOMAIN accepted = 1 .. Len(accepted)
  BY DEF TypeOK
<1>3. Given(accepted, dropped, Len(accepted))
        = FlattenSeq([i \in DOMAIN accepted |->
            IF accepted[i] \in dropped THEN <<>> ELSE Units(accepted[i])])
  BY <1>2, Zenon DEF Given, Part
<1> QED
  BY <1>1, <1>3, Zenon DEF Split

(* The message write() has in hand joins those that wait or leave.         *)
LEMMA Joined ==
  ASSUME TypeOK, ReplyInv, FreshInv, OrderInv, cuts = 0, ~direct,
         msg \in Messages, accepted' = Append(accepted, msg), dropped' = dropped
  PROVE  /\ accepted' \in Seq(Messages) /\ Len(accepted') = Len(accepted) + 1
         /\ \A i \in 1 .. Len(accepted) : accepted'[i] = accepted[i]
         /\ accepted'[Len(accepted) + 1] = msg
         /\ dropped' \subseteq Range(accepted') /\ msg \notin dropped
         /\ \A n \in 0 .. Len(accepted) :
              Given(accepted', dropped', n) = Given(accepted, dropped, n)
         /\ Given(accepted', dropped', Len(accepted) + 1)
              = Given(accepted, dropped, Len(accepted)) \o Units(msg)
<1>1. accepted \in Seq(Messages)
  BY DEF TypeOK
<1>2. /\ accepted' \in Seq(Messages) /\ Len(accepted') = Len(accepted) + 1
      /\ \A i \in 1 .. Len(accepted) : accepted'[i] = accepted[i]
      /\ accepted'[Len(accepted) + 1] = msg
  BY <1>1
<1>3. dropped \subseteq Range(accepted)
  BY DEF OrderInv
<1>4. Range(accepted) \subseteq Range(accepted')
  BY <1>1, <1>2 DEF Range
<1>5. msg \notin dropped
  <2>1. \A i \in DOMAIN accepted : accepted[i] # msg
    BY MessageParts, MessageIsNew
  <2> QED
    BY <1>3, <2>1 DEF Range
<1>6. /\ Given(Append(accepted, msg), dropped, Len(accepted) + 1)
           = Given(accepted, dropped, Len(accepted)) \o Units(msg)
      /\ \A n \in 0 .. Len(accepted) :
           Given(Append(accepted, msg), dropped, n) = Given(accepted, dropped, n)
  BY <1>1, <1>5, GivenMore
<1> QED
  BY <1>2, <1>3, <1>4, <1>5, <1>6

LEMMA Associative ==
  ASSUME NEW r \in Seq(Unit), NEW s \in Seq(Unit), NEW t \in Seq(Unit)
  PROVE  (r \o s) \o t = r \o (s \o t)
BY ConcatAssociative

(* The message is put behind those that wait.                              *)
LEMMA WaitingOneMore ==
  ASSUME TypeOK, ReplyInv, FreshInv, OrderInv, cuts = 0, ~direct,
         pending' = pending \o Units(msg), UNCHANGED <<wire, flight, dropped>>,
         accepted' = IF msg # Nothing THEN Append(accepted, msg) ELSE accepted
  PROVE  OrderInv'
<1>1. PICK k \in 0 .. Len(accepted) : Split(k)
  BY DEF OrderInv
<1>a. /\ accepted \in Seq(Messages) /\ Len(accepted) \in Nat
      /\ pending \in Seq(Unit) /\ Given(accepted, dropped, k) \in Seq(Unit)
  BY GivenTyped DEF TypeOK
<1>2. CASE msg = Nothing
  <2>1. pending' = pending /\ accepted' = accepted
    BY <1>2, <1>a, NothingHasNoUnits
  <2>2. Split(k)'
    BY <1>1, <2>1 DEF Split
  <2> QED
    BY <2>1, <2>2 DEF OrderInv
<1>3. CASE msg # Nothing
  <2>1. msg \in Messages /\ accepted' = Append(accepted, msg)
    BY <1>3 DEF TypeOK
  <2>2. /\ accepted' \in Seq(Messages) /\ Len(accepted') = Len(accepted) + 1
        /\ \A i \in 1 .. Len(accepted) : accepted'[i] = accepted[i]
        /\ accepted'[Len(accepted) + 1] = msg
        /\ dropped' \subseteq Range(accepted')
        /\ \A n \in 0 .. Len(accepted) :
             Given(accepted', dropped', n) = Given(accepted, dropped, n)
        /\ Given(accepted', dropped', Len(accepted) + 1)
             = Given(accepted, dropped, Len(accepted)) \o Units(msg)
    BY <2>1, Joined
  <2>3. Units(msg) \in Seq(Unit) /\ Len(Units(msg)) >= 1 /\ \A u \in Range(Units(msg)) : u.of = msg
    BY <2>1, MessageParts
  <2>4. Given(accepted', dropped', k) = wire' \o flight'.data
    BY <1>1, <2>2 DEF Split
  <2>5. Given(accepted', dropped', Len(accepted')) = Given(accepted', dropped', k) \o pending'
    <3>1. (Given(accepted, dropped, k) \o pending) \o Units(msg)
            = Given(accepted, dropped, k) \o (pending \o Units(msg))
      BY <1>a, <2>3, Associative
    <3> QED
      BY <1>1, <2>2, <3>1 DEF Split
  <2>6. Range(pending') = Range(pending) \cup Range(Units(msg))
    BY <1>a, <2>3, RangeConcatenation
  <2>7. ASSUME NEW u \in Range(pending')
        PROVE  \E j \in k + 1 .. Len(accepted') : u.of = accepted'[j]
    <3>1. CASE u \in Range(pending)
      <4>1. PICK j \in k + 1 .. Len(accepted) : u.of = accepted[j]
        BY <1>1, <3>1 DEF Split
      <4> QED
        BY <4>1, <1>a, <2>2
    <3>2. CASE u \in Range(Units(msg))
      <4>1. Len(accepted) + 1 \in k + 1 .. Len(accepted')
        BY <1>a, <2>2
      <4> QED
        BY <3>2, <4>1, <2>2, <2>3
    <3> QED
      BY <2>6, <3>1, <3>2
  <2>8. ASSUME NEW j \in k + 1 .. Len(accepted')
        PROVE  accepted'[j] \in dropped' \/ \E u \in Range(pending') : u.of = accepted'[j]
    <3>1. CASE j \in k + 1 .. Len(accepted)
      BY <3>1, <1>1, <1>a, <2>2, <2>6 DEF Split
    <3>2. CASE j = Len(accepted) + 1
      <4>1. Units(msg)[1] \in Range(Units(msg))
        BY <2>3 DEF Range
      <4> QED
        BY <3>2, <4>1, <2>2, <2>3, <2>6
    <3> QED
      BY <3>1, <3>2, <1>a, <2>2
  <2>9. k \in 0 .. Len(accepted')
    BY <1>a, <2>2
  <2>10. Split(k)'
    BY <2>4, <2>5, <2>7, <2>8 DEF Split
  <2> QED
    BY <2>2, <2>9, <2>10 DEF OrderInv
<1> QED
  BY <1>2, <1>3

(* What waits leaves, and the message with it or, if it does not fit,      *)
(* behind it.                                                              *)
LEMMA WaitingLeaves ==
  ASSUME TypeOK, ReplyInv, FreshInv, OrderInv, cuts = 0, ~direct, flight.data = <<>>,
         flight'.data = ToSend, pending' = Left, UNCHANGED <<wire, dropped>>,
         accepted' = IF msg # Nothing THEN Append(accepted, msg) ELSE accepted
  PROVE  OrderInv'
<1>1. PICK k \in 0 .. Len(accepted) : Split(k)
  BY DEF OrderInv
<1> DEFINE N == Len(accepted)
<1>a. /\ accepted \in Seq(Messages) /\ N \in Nat /\ N \in 0 .. N
      /\ pending \in Seq(Unit) /\ wire \in Seq(Unit) /\ msg \in Messages \cup {Nothing}
  BY DEF TypeOK
<1>b. Units(msg) \in Seq(Unit)
  BY <1>a, UnitsTyped
<1>2. Given(accepted, dropped, N) = wire \o pending
  <2>1. wire \o <<>> = wire
    BY <1>a
  <2> QED
    BY <1>1, <2>1 DEF Split
<1>3. dropped' \subseteq Range(accepted')
  <2>1. CASE msg = Nothing
    BY <2>1 DEF OrderInv
  <2>2. CASE msg # Nothing
    BY <1>a, <2>2, Joined
  <2> QED
    BY <2>1, <2>2
<1>4. CASE pending # <<>> /\ Overflows
  <2>1. flight'.data = pending /\ pending' = Units(msg)
    BY <1>4 DEF ToSend, Left
  <2>2. msg # Nothing
    BY <1>4, <1>a, Bounds DEF Overflows, SizeOf, TypeOK
  <2>3. msg \in Messages /\ accepted' = Append(accepted, msg)
    BY <1>a, <2>2
  <2>4. /\ Len(accepted') = N + 1 /\ accepted'[N + 1] = msg
        /\ \A n \in 0 .. N : Given(accepted', dropped', n) = Given(accepted, dropped, n)
        /\ Given(accepted', dropped', N + 1) = Given(accepted, dropped, N) \o Units(msg)
    BY <2>3, Joined
  <2>5. /\ Len(Units(msg)) >= 1 /\ \A u \in Range(Units(msg)) : u.of = msg
        /\ Units(msg)[1] \in Range(Units(msg))
    BY <2>3, MessageParts DEF Range
  <2>6. Given(accepted', dropped', N) = wire' \o flight'.data
    BY <1>2, <1>a, <2>1, <2>4
  <2>7. Given(accepted', dropped', Len(accepted')) = Given(accepted', dropped', N) \o pending'
    BY <1>a, <2>1, <2>4
  <2>8. /\ \A j \in N + 1 .. Len(accepted') : j = N + 1
        /\ N + 1 \in N + 1 .. Len(accepted') /\ N \in 0 .. Len(accepted')
    BY <1>a, <2>4
  <2>9. PICK n \in Nat : n = N
    BY <1>a
  <2> HIDE DEF N
  <2>10. Split(n)'
    BY <2>1, <2>4, <2>5, <2>6, <2>7, <2>8, <2>9 DEF Split
  <2> QED
    BY <1>3, <2>8, <2>9, <2>10 DEF OrderInv
<1>5. CASE ~(pending # <<>> /\ Overflows)
  <2> DEFINE K == Len(accepted')
  <2>1. flight'.data = pending \o Units(msg) /\ pending' = <<>>
    BY <1>5 DEF ToSend, Left
  <2>2. wire \o (pending \o Units(msg)) = (wire \o pending) \o Units(msg)
    BY <1>a, <1>b, Associative
  <2>3. Given(accepted', dropped', K) = Given(accepted, dropped, N) \o Units(msg)
        /\ accepted' \in Seq(Messages)
    <3>1. CASE msg = Nothing
      <4>1. Given(accepted, dropped, N) \o <<>> = Given(accepted, dropped, N)
        BY <1>a, GivenTyped
      <4> QED
        BY <3>1, <4>1, <1>a, NothingHasNoUnits
    <3>2. CASE msg # Nothing
      BY <3>2, <1>a, Joined
    <3> QED
      BY <3>1, <3>2
  <2>4. Given(accepted', dropped', K) = wire' \o flight'.data
    BY <1>2, <2>1, <2>2, <2>3
  <2>5. K \in Nat /\ K \in 0 .. K /\ K + 1 .. K = {} /\ Range(pending') = {}
    BY <2>1, <2>3 DEF Range
  <2>6. Given(accepted', dropped', K) \o <<>> = Given(accepted', dropped', K)
    BY <2>3, <2>5, GivenTyped
  <2>7. PICK n \in Nat : n = K
    BY <2>5
  <2>8. Split(n)'
    BY <2>1, <2>4, <2>5, <2>6, <2>7 DEF Split
  <2> QED
    BY <1>3, <2>5, <2>7, <2>8 DEF OrderInv
<1> QED
  BY <1>4, <1>5

(* What waits is given up: only messages that have not left.               *)
LEMMA WaitingDropped ==
  ASSUME TypeOK, FreshInv, OrderInv, cuts = 0, ~direct,
         dropped' = dropped \cup {u.of : u \in Range(pending)}, pending' = <<>>,
         UNCHANGED <<wire, flight, accepted>>
  PROVE  OrderInv'
<1>1. PICK k \in 0 .. Len(accepted) : Split(k)
  BY DEF OrderInv
<1>a. accepted \in Seq(Messages) /\ Len(accepted) \in Nat /\ DOMAIN accepted = 1 .. Len(accepted)
  BY DEF TypeOK
<1>2. dropped' \subseteq Range(accepted')
  <2>1. ASSUME NEW u \in Range(pending) PROVE u.of \in Range(accepted)
    <3>1. PICK j \in k + 1 .. Len(accepted) : u.of = accepted[j]
      BY <1>1 DEF Split
    <3>2. j \in DOMAIN accepted
      BY <1>a
    <3> QED
      BY <3>1, <3>2 DEF Range
  <2> QED
    BY <2>1 DEF OrderInv
<1>3. ASSUME NEW i \in 1 .. k PROVE accepted[i] \in dropped' <=> accepted[i] \in dropped
  <2>1. SUFFICES ASSUME NEW u \in Range(pending), u.of = accepted[i] PROVE FALSE
    OBVIOUS
  <2>2. PICK j \in k + 1 .. Len(accepted) : u.of = accepted[j]
    BY <1>1 DEF Split
  <2>3. i \in DOMAIN accepted /\ j \in DOMAIN accepted /\ i # j
    BY <1>a
  <2> QED
    BY <2>1, <2>2, <2>3 DEF FreshInv, AcceptedOnce
<1>4. Given(accepted', dropped', k) = Given(accepted, dropped, k)
  <2>1. \A i \in 1 .. k : Part(accepted, dropped, i) = Part(accepted, dropped', i)
    BY <1>3 DEF Part
  <2> QED
    BY <2>1, GivenSame
<1>5. \A j \in k + 1 .. Len(accepted) : accepted[j] \in dropped'
  BY <1>1 DEF Split
<1>6. Given(accepted', dropped', Len(accepted)) = Given(accepted', dropped', k)
  BY <1>a, <1>5, GivenNothing
<1>7. Given(accepted', dropped', k) \o <<>> = Given(accepted', dropped', k)
  <2>1. Given(accepted', dropped', k) \in Seq(Unit)
    BY <1>a, GivenTyped
  <2> QED
    BY <2>1
<1>8. Range(pending') = {}
  BY DEF Range
<1>9. Split(k)'
  BY <1>1, <1>4, <1>5, <1>6, <1>7, <1>8 DEF Split
<1> QED
  BY <1>2, <1>9 DEF OrderInv

LEMMA OrderStep ==
  LinkInv /\ ReplyInv /\ LineInv /\ FreshInv /\ OrderInv /\ [Next]_vars => OrderInv'
<1> SUFFICES ASSUME LinkInv, ReplyInv, LineInv, FreshInv, OrderInv, [Next]_vars,
                    cuts' = 0, ~direct'
             PROVE  OrderInv'
  BY DEF OrderInv
<1>a. /\ TypeOK /\ FlagGuardsBuffer /\ cuts \in Nat
      /\ flight \in [from : {"none", "tx", "pending"}, data : Seq(Unit)]
  BY Bounds DEF LinkInv, TypeOK
<1>b. cuts = 0 /\ ~direct
  <2>1. cuts' = cuts \/ cuts' = cuts + 1
    BY DEF Next, MainLoop, Bus, vars, ReadSize, CopyReceived, ClearSize, Rearm, CheckAvailable,
           AppendPending, PendingOverflows, StartTransmit, TransmitPacket, DirectWrite,
           SendTelemetry, TickEnds, TransferCompletes, Cut, Configure, PacketArrives
  <2>2. direct' = direct \/ direct'
    BY DEF Next, MainLoop, Bus, vars, txVars, ReadSize, CopyReceived, ClearSize, Rearm,
           CheckAvailable, AppendPending, PendingOverflows, StartTransmit, TransmitPacket,
           DirectWrite, SendTelemetry, TickEnds, TransferCompletes, Cut, Configure,
           PacketArrives
  <2> QED
    BY <1>a, <2>1, <2>2
<1>c. ASSUME UNCHANGED <<wire, flight, pending, accepted, dropped>> PROVE OrderInv'
  <2>1. PICK k \in 0 .. Len(accepted) : Split(k)
    BY <1>b DEF OrderInv
  <2>2. Split(k)'
    BY <1>c, <2>1 DEF Split
  <2> QED
    BY <1>b, <1>c, <2>2 DEF OrderInv
<1>d. /\ ~configured => pending = <<>> /\ flag /\ ~TxState
      /\ ~TxState => flight.data = <<>>
      /\ flight.from # "pending"
  BY <1>b DEF LineInv
<1>1. CASE UNCHANGED vars
  BY <1>1, <1>c DEF vars, txVars
<1>2. CASE ReadSize \/ CopyReceived \/ ClearSize \/ Rearm
  BY <1>2, <1>c DEF ReadSize, CopyReceived, ClearSize, Rearm, txVars
<1>3. CASE PendingOverflows \/ TickEnds \/ \E k \in Telemetries : SendTelemetry(k)
  BY <1>3, <1>c DEF PendingOverflows, TickEnds, SendTelemetry, txVars
<1>4. CASE Configure \/ \E k \in Replies : PacketArrives(k)
  BY <1>4, <1>c DEF Configure, PacketArrives, txVars
<1>5. CASE CheckAvailable
  <2>1. UNCHANGED <<wire, flight, pending, dropped>>
    BY <1>5 DEF CheckAvailable
  <2>2. CASE NothingToSend
    <3>1. msg = Nothing
      <4>1. SUFFICES ASSUME msg # Nothing PROVE FALSE
        OBVIOUS
      <4>2. msg \in Messages /\ pending \in Seq(Unit)
        BY <1>a, <4>1 DEF TypeOK
      <4>3. Units(msg) \in Seq(Unit) /\ Len(Units(msg)) >= 1
        BY <4>2, MessageParts
      <4> QED
        BY <2>2, <4>2, <4>3 DEF NothingToSend, ToSend
    <3>2. accepted' = accepted
      BY <1>5, <2>2, <3>1 DEF CheckAvailable, Return
    <3> QED
      BY <2>1, <3>2, <1>c
  <2>3. CASE ~NothingToSend
    BY <1>5, <2>1, <2>3, <1>c DEF CheckAvailable
  <2> QED
    BY <2>2, <2>3
<1>6. CASE AppendPending
  <2>1. /\ pending' = pending \o Units(msg) /\ UNCHANGED <<wire, dropped>>
        /\ accepted' = IF msg # Nothing THEN Append(accepted, msg) ELSE accepted
    BY <1>6 DEF AppendPending, Return
  <2>2. flight' = flight
    BY <1>6, <1>a, <1>d, NotClobbered DEF AppendPending
  <2> QED
    BY <2>1, <2>2, <1>a, <1>b, WaitingOneMore
<1>7. CASE StartTransmit
  <2>1. step = "start" /\ flag /\ flight.from # "tx" /\ ~TxState
    BY <1>7, <1>a, <1>d DEF StartTransmit, FlagGuardsBuffer, TxState
  <2>2. flight' = flight /\ UNCHANGED <<wire, dropped>>
    BY <1>7, <2>1, <1>a, NotClobbered DEF StartTransmit
  <2>3. CASE configured
    BY <1>7, <2>1, <2>2, <2>3, <1>c DEF StartTransmit
  <2>4. CASE ~configured
    <3>1. pending' = Left /\ Left = <<>> /\ pending = <<>>
      BY <1>7, <2>4, <1>d DEF StartTransmit, Left
    <3>2. accepted' = accepted
      BY <1>7, <2>4 DEF StartTransmit, Return
    <3> QED
      BY <2>2, <3>1, <3>2, <1>c
  <2> QED
    BY <2>3, <2>4
<1>8. CASE TransmitPacket
  <2>1. configured /\ flight.data = <<>>
    BY <1>8, <1>a, <1>b, <1>d DEF TransmitPacket, FlagGuardsBuffer, TxState
  <2>2. /\ flight' = [from |-> "tx", data |-> ToSend] /\ pending' = Left
        /\ UNCHANGED <<wire, dropped>>
        /\ accepted' = IF msg # Nothing THEN Append(accepted, msg) ELSE accepted
    BY <1>8, <2>1 DEF TransmitPacket, Return
  <2> QED
    BY <2>1, <2>2, <1>a, <1>b, WaitingLeaves
<1>9. CASE DirectWrite
  <2>1. ~(configured /\ ~TxState)
    BY <1>9 DEF DirectWrite
  <2>2. /\ dropped' = dropped \cup {u.of : u \in Range(pending)} /\ pending' = <<>>
        /\ UNCHANGED <<wire, flight, accepted>>
    BY <1>9, <2>1 DEF DirectWrite, Return
  <2> QED
    BY <2>2, <1>a, <1>b, WaitingDropped
<1>10. CASE TransferCompletes
  <2>1. /\ wire' = wire \o flight.data /\ flight' = Idle
        /\ UNCHANGED <<pending, accepted, dropped>>
    BY <1>10, <1>b DEF TransferCompletes
  <2>2. PICK k \in 0 .. Len(accepted) : Split(k)
    BY <1>b DEF OrderInv
  <2>3. flight'.data = <<>> /\ wire' \in Seq(Unit)
    BY <2>1, <1>a DEF Idle, TypeOK
  <2>4. wire' \o flight'.data = wire \o flight.data
    BY <2>1, <2>3
  <2>5. Split(k)'
    BY <2>1, <2>2, <2>4 DEF Split
  <2> QED
    BY <1>b, <2>1, <2>5 DEF OrderInv
<1>11. CASE Cut
  BY <1>11, <1>a, <1>b DEF Cut
<1> QED
  BY <1>1, <1>2, <1>3, <1>4, <1>5, <1>6, <1>7, <1>8, <1>9, <1>10, <1>11 DEF Next, MainLoop, Bus

\* Until the bus is reset or a transfer starts from the pending bytes
\* themselves, the host gets the messages accepted whole, in order and once
\* each, but for those given up when the buffer overflowed.
THEOREM HostGetsAll == Spec => []DeliveredInOrder
<1>1. Init => LinkInv /\ RxInv /\ ReplyInv /\ StaleInv /\ LineInv /\ FreshInv /\ OrderInv
  <2> SUFFICES ASSUME Init
               PROVE  LinkInv /\ RxInv /\ ReplyInv /\ StaleInv /\ LineInv /\ FreshInv /\ OrderInv
    OBVIOUS
  <2>1. LinkInv
    BY LinkInit
  <2>2. RxInv /\ ReplyInv
    BY KindsApart DEF Init, RxInv, PacketsKnown, ReplyInv, RepliesKnown
  <2>3. StaleInv
    BY StaleInit
  <2>4. LineInv
    BY DEF Init, LineInv, TxState, Idle
  <2>5. FreshInv
    BY DEF Init, FreshInv, TelemetryNumbered, AcceptedOnce, AnsweredOnce, Nothing, Telemetries
  <2>6. OrderInv
    <3>1. /\ accepted = <<>> /\ dropped = {} /\ wire = <<>> /\ flight.data = <<>> /\ pending = <<>>
      BY DEF Init, Idle
    <3>2. Given(accepted, dropped, 0) = <<>>
      BY GivenNone
    <3>3. Len(accepted) = 0 /\ Range(pending) = {} /\ <<>> \o <<>> = <<>>
      BY <3>1 DEF Range
    <3>4. Split(0)
      BY <3>1, <3>2, <3>3 DEF Split
    <3> QED
      BY <3>1, <3>3, <3>4 DEF OrderInv
  <2> QED
    BY <2>1, <2>2, <2>3, <2>4, <2>5, <2>6
<1>2. LinkInv => TypeOK
  BY DEF LinkInv
<1> QED
  BY <1>1, <1>2, LinkStep, RxStep, ReplyStep, StaleStep, LineStep, FreshStep, OrderStep,
     OrderMeansDelivered, PTL DEF Spec
================================================================================
