--------------------------- MODULE FrameStreamProofs ---------------------------
(***************************************************************************)
(* Proofs about FrameStream, for every set of producers and of modes and    *)
(* any number of frames: frames are delivered in the order their producer   *)
(* queued them, and the newest frame is not lost.                           *)
(***************************************************************************)
EXTENDS FrameStream, SequenceTheorems, TLAPS

Values == Producers \X Nat

\* What the counters of a producer may be.
StreamTypeOK ==
    /\ pending \in Seq(Values)
    /\ indebted \subseteq Producers
    /\ published \in [Producers -> Nat]
    /\ delivered \in [Producers -> Nat]
    /\ newest \in Values \cup {NoValue}

\* Frames that wait are newer than all their producer had drawn, none is newer
\* than the last it queued, and they wait in the order it queued them.
PendingInOrder ==
    /\ \A i \in 1 .. Len(pending) :
          /\ delivered[pending[i][1]] < pending[i][2]
          /\ pending[i][2] <= published[pending[i][1]]
    /\ \A i, j \in 1 .. Len(pending) :
          i < j /\ pending[i][1] = pending[j][1] => pending[i][2] < pending[j][2]

\* The newest frame is its producer's last.
NewestIsLast == newest # NoValue => published[newest[1]] = newest[2]

DeliveredQueued == \A p \in Producers : delivered[p] <= published[p]

StreamInv ==
    /\ StreamTypeOK
    /\ PendingInOrder
    /\ NewestIsLast
    /\ DeliveredQueued
    /\ NewestKept

\* The step property: a producer's frames are delivered in order.
DeliversInOrder ==
    \A p \in Producers : delivered'[p] # delivered[p] =>
        delivered[p] < delivered'[p] /\ delivered'[p] <= published[p]

LEMMA ValueParts ==
    ASSUME NEW v \in Values
    PROVE  v[1] \in Producers /\ v[2] \in Nat
  BY DEF Values

LEMMA InitStreamInv == Init => StreamInv
  BY DEF Init, StreamInv, StreamTypeOK, PendingInOrder, NewestIsLast, DeliveredQueued,
         NewestKept

\* The queue loses its oldest frame.
LEMMA TailPending ==
    ASSUME StreamTypeOK, pending # <<>>
    PROVE  /\ Head(pending) \in Values /\ Head(pending) = pending[1]
           /\ Tail(pending) \in Seq(Values)
           /\ Len(pending) \in Nat \ {0}
           /\ Len(Tail(pending)) = Len(pending) - 1
           /\ \A i \in 1 .. Len(Tail(pending)) :
                 Tail(pending)[i] = pending[i + 1] /\ i + 1 \in 1 .. Len(pending)
  BY HeadTailProperties, EmptySeq DEF StreamTypeOK

LEMMA ResetStep ==
    ASSUME StreamInv, Reset
    PROVE  StreamInv' /\ DeliversInOrder
  BY DEF Reset, StreamInv, StreamTypeOK, PendingInOrder, NewestIsLast, DeliveredQueued,
         NewestKept, DeliversInOrder

LEMMA DeliverStep ==
    ASSUME StreamInv, Deliver
    PROVE  StreamInv' /\ DeliversInOrder
  <1> DEFINE v == Head(pending)
  <1> USE DEF StreamInv
  <1>1. /\ pending # <<>> /\ pending' = Tail(pending)
        /\ delivered' = [delivered EXCEPT ![v[1]] = v[2]]
        /\ UNCHANGED <<mode, indebted, published, newest>>
    BY DEF Deliver
  <1>2. /\ v \in Values /\ v = pending[1]
        /\ pending' \in Seq(Values)
        /\ Len(pending) \in Nat \ {0}
        /\ Len(pending') = Len(pending) - 1
        /\ \A i \in 1 .. Len(pending') :
              pending'[i] = pending[i + 1] /\ i + 1 \in 1 .. Len(pending)
    BY <1>1, TailPending
  <1>3. v[1] \in Producers /\ v[2] \in Nat
    BY <1>2, ValueParts
  <1>4. /\ delivered' \in [Producers -> Nat]
        /\ delivered'[v[1]] = v[2]
        /\ \A p \in Producers \ {v[1]} : delivered'[p] = delivered[p]
    BY <1>1, <1>3 DEF StreamTypeOK
  <1>5. delivered[v[1]] < v[2] /\ v[2] <= published[v[1]]
    BY <1>2 DEF PendingInOrder
  <1>6. StreamTypeOK'
    BY <1>1, <1>2, <1>4 DEF StreamTypeOK
  <1>7. \A i \in 1 .. Len(pending') : pending'[i] \in Values
    BY <1>2
  <1>8. PendingInOrder'
    <2>1. ASSUME NEW i \in 1 .. Len(pending')
          PROVE  /\ delivered'[pending'[i][1]] < pending'[i][2]
                 /\ pending'[i][2] <= published'[pending'[i][1]]
      <3>1. pending'[i] = pending[i + 1] /\ i + 1 \in 1 .. Len(pending) /\ 1 < i + 1
            /\ 1 \in 1 .. Len(pending)
        BY <1>2
      <3>2. pending'[i][1] \in Producers
        BY <1>7, ValueParts
      <3>3. CASE pending'[i][1] = v[1]
        BY <1>1, <1>2, <1>4, <3>1, <3>3 DEF PendingInOrder
      <3>4. CASE pending'[i][1] # v[1]
        BY <1>1, <1>4, <3>1, <3>2, <3>4 DEF PendingInOrder
      <3> QED BY <3>3, <3>4
    <2>2. ASSUME NEW i \in 1 .. Len(pending'), NEW j \in 1 .. Len(pending'),
                 i < j, pending'[i][1] = pending'[j][1]
          PROVE  pending'[i][2] < pending'[j][2]
      <3>1. /\ pending'[i] = pending[i + 1] /\ i + 1 \in 1 .. Len(pending)
            /\ pending'[j] = pending[j + 1] /\ j + 1 \in 1 .. Len(pending)
            /\ i + 1 < j + 1
        BY <1>2, <2>2
      <3> QED BY <2>2, <3>1 DEF PendingInOrder
    <2> QED BY <2>1, <2>2 DEF PendingInOrder
  <1>9. NewestIsLast' /\ DeliveredQueued'
    BY <1>1, <1>3, <1>4, <1>5 DEF NewestIsLast, DeliveredQueued
  <1>10. NewestKept'
    <2> SUFFICES ASSUME newest # NoValue, indebted = {}
                 PROVE  \/ delivered'[newest[1]] >= newest[2]
                        \/ pending' # <<>> /\ Back(pending') = newest
      BY <1>1 DEF NewestKept
    <2>1. newest \in Values /\ newest[1] \in Producers /\ newest[2] \in Nat
          /\ published[newest[1]] = newest[2]
      BY ValueParts DEF StreamTypeOK, NewestIsLast
    <2>2. CASE delivered[newest[1]] >= newest[2]
      <3>1. newest[1] # v[1] \/ delivered'[newest[1]] = v[2]
        BY <1>4
      <3>2. newest[1] = v[1] => newest[2] <= delivered[v[1]] /\ delivered[v[1]] \in Nat
        BY <2>1, <2>2 DEF StreamTypeOK
      <3> QED BY <1>3, <1>4, <1>5, <2>1, <2>2, <3>1, <3>2
    <2>3. CASE Back(pending) = newest /\ Len(pending) = 1
      BY <1>2, <1>3, <1>4, <2>1, <2>3 DEF Back
    <2>4. CASE Back(pending) = newest /\ Len(pending) # 1
      <3>1. Len(pending') \in 1 .. Len(pending') /\ pending' # <<>>
        BY <1>2, <2>4
      <3>2. pending'[Len(pending')] = pending[Len(pending)]
        BY <1>2, <3>1
      <3> QED BY <2>4, <3>1, <3>2 DEF Back
    <2> QED BY <2>2, <2>3, <2>4 DEF NewestKept
  <1>11. DeliversInOrder
    BY <1>3, <1>4, <1>5 DEF DeliversInOrder
  <1> QED BY <1>6, <1>8, <1>9, <1>10, <1>11

\* Frames are discarded in favour of one that is owed.
LEMMA DiscardStep ==
    ASSUME StreamInv, DiscardAll \/ \E p \in Producers : DiscardOldest(p)
    PROVE  StreamInv' /\ DeliversInOrder
  <1> USE DEF StreamInv
  <1>1. /\ UNCHANGED <<published, delivered, newest>>
        /\ indebted' \subseteq Producers /\ indebted' # {}
        /\ pending' = <<>> \/ (pending # <<>> /\ pending' = Tail(pending))
    <2>1. ASSUME DiscardAll
          PROVE  /\ UNCHANGED <<published, delivered, newest>>
                 /\ indebted' \subseteq Producers /\ indebted' # {}
                 /\ pending' = <<>>
      BY <2>1 DEF DiscardAll, StreamTypeOK
    <2>2. ASSUME NEW p \in Producers, DiscardOldest(p)
          PROVE  /\ UNCHANGED <<published, delivered, newest>>
                 /\ indebted' \subseteq Producers /\ indebted' # {}
                 /\ pending # <<>> /\ pending' = Tail(pending)
      BY <2>2 DEF DiscardOldest, StreamTypeOK
    <2>3. CASE DiscardAll BY <2>1, <2>3
    <2>4. CASE \E p \in Producers : DiscardOldest(p) BY <2>2, <2>4
    <2> QED BY <2>3, <2>4
  <1>2. pending' \in Seq(Values)
    <2>1. <<>> \in Seq(Values) OBVIOUS
    <2> QED BY <1>1, <2>1, TailPending
  <1>3. PendingInOrder'
    <2>1. CASE pending' = <<>>
      BY <2>1 DEF PendingInOrder
    <2>2. CASE pending # <<>> /\ pending' = Tail(pending)
      <3>1. /\ Len(pending') \in Nat
            /\ \A i \in 1 .. Len(pending') :
                  pending'[i] = pending[i + 1] /\ i + 1 \in 1 .. Len(pending)
        BY <1>2, <2>2, TailPending
      <3>2. \A i, j \in 1 .. Len(pending') : i < j => i + 1 < j + 1
        BY <3>1
      <3> QED BY <1>1, <3>1, <3>2 DEF PendingInOrder
    <2> QED BY <1>1, <2>1, <2>2
  <1> QED BY <1>1, <1>2, <1>3
          DEF StreamTypeOK, NewestIsLast, DeliveredQueued, NewestKept, DeliversInOrder

\* A new frame enters: at the end, in place of the last, or alone.
LEMMA EnterStep ==
    ASSUME StreamInv, NEW p \in Producers, NEW n \in 1 .. MaxPuts,
           Arrive(p, n) \/ Replace(p, n) \/ Supersede(p, n)
    PROVE  StreamInv' /\ DeliversInOrder
  <1> USE DEF StreamInv
  <1>1. /\ n > published[p]
        /\ published' = [published EXCEPT ![p] = n]
        /\ newest' = <<p, n>>
        /\ indebted' \subseteq Producers
        /\ UNCHANGED delivered
    BY DEF Arrive, Replace, Supersede, Enters, StreamTypeOK
  <1>2. n \in Nat /\ <<p, n>> \in Values /\ <<p, n>>[1] = p /\ <<p, n>>[2] = n
    BY DEF Values
  <1>3. /\ published' \in [Producers -> Nat]
        /\ published'[p] = n /\ \A q \in Producers \ {p} : published'[q] = published[q]
        /\ \A q \in Producers : published[q] <= published'[q]
    BY <1>1, <1>2 DEF StreamTypeOK
  <1>4. PICK k \in Nat :
          /\ pending' \in Seq(Values)
          /\ Len(pending') = k + 1 /\ k <= Len(pending)
          /\ pending'[k + 1] = <<p, n>>
          /\ \A i \in 1 .. k : pending'[i] = pending[i]
    <2>1. CASE Arrive(p, n)
      <3> WITNESS Len(pending) \in Nat
      <3> QED BY <1>2, <2>1 DEF Arrive, StreamTypeOK
    <2>2. CASE Replace(p, n)
      <3>1. pending # <<>> /\ pending' = [pending EXCEPT ![Len(pending)] = <<p, n>>]
        BY <2>2 DEF Replace
      <3>2. Len(pending) \in Nat \ {0} /\ Len(pending) - 1 \in Nat
        BY <3>1, EmptySeq DEF StreamTypeOK
      <3>3. pending' \in Seq(Values) /\ Len(pending') = Len(pending)
        BY <1>2, <3>1, <3>2, ExceptSeq DEF StreamTypeOK
      <3> DEFINE m == Len(pending) - 1
      <3>4. m \in Nat /\ Len(pending) = m + 1 /\ m <= Len(pending)
        BY <3>2
      <3>5. /\ pending'[m + 1] = <<p, n>>
            /\ \A i \in 1 .. m : pending'[i] = pending[i]
        BY <3>1, <3>2, ElementOfSeq DEF StreamTypeOK
      <3>6. Len(pending') = m + 1
        BY <3>3, <3>4
      <3> m \in Nat BY <3>4
      <3> HIDE DEF m
      <3> WITNESS m \in Nat
      <3> QED BY <3>3, <3>4, <3>5, <3>6
    <2>3. CASE Supersede(p, n)
      <3> WITNESS 0 \in Nat
      <3> QED BY <1>2, <2>3 DEF Supersede, StreamTypeOK
    <2> QED BY <2>1, <2>2, <2>3
  <1>5. StreamTypeOK'
    BY <1>1, <1>2, <1>3, <1>4 DEF StreamTypeOK
  <1>6. \A i \in 1 .. k : i \in 1 .. Len(pending) /\ pending[i] \in Values
    BY <1>4 DEF StreamTypeOK
  <1>7. PendingInOrder'
    <2>1. ASSUME NEW i \in 1 .. Len(pending')
          PROVE  /\ delivered'[pending'[i][1]] < pending'[i][2]
                 /\ pending'[i][2] <= published'[pending'[i][1]]
      <3>1. CASE i = k + 1
        BY <1>1, <1>2, <1>3, <1>4, <3>1 DEF StreamTypeOK, DeliveredQueued
      <3>2. CASE i # k + 1
        <4>1. i \in 1 .. k
          BY <1>4, <3>2
        <4>2. pending'[i] = pending[i] /\ pending[i][1] \in Producers /\ pending[i][2] \in Nat
              /\ pending[i][2] <= published[pending[i][1]]
              /\ delivered[pending[i][1]] < pending[i][2]
          BY <1>4, <1>6, <4>1, ValueParts DEF PendingInOrder
        <4> QED BY <1>1, <1>3, <4>2 DEF StreamTypeOK
      <3> QED BY <3>1, <3>2
    <2>2. ASSUME NEW i \in 1 .. Len(pending'), NEW j \in 1 .. Len(pending'),
                 i < j, pending'[i][1] = pending'[j][1]
          PROVE  pending'[i][2] < pending'[j][2]
      <3>1. i \in 1 .. k /\ pending'[i] = pending[i] /\ i \in 1 .. Len(pending)
            /\ pending[i][1] \in Producers /\ pending[i][2] \in Nat
        BY <1>4, <1>6, <2>2, ValueParts
      <3>2. CASE j = k + 1
        BY <1>1, <1>2, <1>4, <2>2, <3>1, <3>2 DEF PendingInOrder, StreamTypeOK
      <3>3. CASE j # k + 1
        <4>1. j \in 1 .. k /\ pending'[j] = pending[j] /\ j \in 1 .. Len(pending)
          BY <1>4, <1>6, <3>3
        <4> QED BY <2>2, <3>1, <4>1 DEF PendingInOrder
      <3> QED BY <3>2, <3>3
    <2> QED BY <2>1, <2>2 DEF PendingInOrder
  <1>8. NewestIsLast' /\ DeliveredQueued'
    <2>1. NewestIsLast'
      BY <1>1, <1>2, <1>3 DEF NewestIsLast
    <2>2. ASSUME NEW q \in Producers PROVE delivered'[q] <= published'[q]
      BY <1>1, <1>3 DEF StreamTypeOK, DeliveredQueued
    <2> QED BY <2>1, <2>2 DEF DeliveredQueued
  <1>9. NewestKept'
    <2>1. pending' # <<>> /\ Back(pending') = newest'
      BY <1>1, <1>4 DEF Back
    <2> QED BY <2>1 DEF NewestKept
  <1>10. DeliversInOrder
    BY <1>1 DEF DeliversInOrder
  <1> QED BY <1>5, <1>7, <1>8, <1>9, <1>10

LEMMA NextStreamInv ==
    ASSUME StreamInv, [Next]_vars
    PROVE  StreamInv' /\ DeliversInOrder
  <1>1. CASE UNCHANGED vars
    BY <1>1 DEF vars, StreamInv, StreamTypeOK, PendingInOrder, NewestIsLast,
                DeliveredQueued, NewestKept, DeliversInOrder
  <1>2. CASE Next
    BY <1>2, ResetStep, DeliverStep, DiscardStep, EnterStep DEF Next
  <1> QED BY <1>1, <1>2

\* Waiting frames stay newer than the drawn ones of their producer and in its
\* order, and the newest is the last that waits unless it was drawn or is owed
\* (what put_frame_data may do to the full queue in the four modes).
THEOREM StreamInvariant == Spec => []StreamInv
  <1>1. StreamInv /\ [Next]_vars => StreamInv'
    BY NextStreamInv
  <1> QED BY InitStreamInv, <1>1, PTL DEF Spec

\* No mode loses the newest frame: while nobody owes one, it was drawn or is the
\* last that waits.
THEOREM NewestIsKept == Spec => []NewestKept
  <1>1. StreamInv => NewestKept BY DEF StreamInv
  <1> QED BY StreamInvariant, <1>1, PTL

\* Whatever a mode discards, it delivers each producer's frames in order.
THEOREM DeliveryIsInOrder == Spec => [][DeliversInOrder]_vars
  <1>1. StreamInv /\ [Next]_vars => [DeliversInOrder]_vars
    BY NextStreamInv
  <1> QED BY StreamInvariant, <1>1, PTL DEF Spec
=============================================================================
