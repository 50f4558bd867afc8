--------------------------- MODULE FramePoolProofs ---------------------------
(***************************************************************************)
(* Proofs about FramePool for every number of producers, renderers,        *)
(* buffers and puts.                                                       *)
(***************************************************************************)
EXTENDS FramePool, SequenceTheorems, TLAPS

(***************************************************************************)
(* Queues without repetition and the sets of their elements.               *)
(***************************************************************************)
\* push: the queue gains one element, at its end.
LEMMA AppendQueue ==
    ASSUME NEW S, NEW q \in Seq(S), NEW x \in S
    PROVE  /\ Append(q, x) \in Seq(S)
           /\ Append(q, x) # <<>>
           /\ Last(Append(q, x)) = x
           /\ InQueue(Append(q, x)) = InQueue(q) \cup {x}
           /\ Distinct(q) /\ x \notin InQueue(q) => Distinct(Append(q, x))
  <1>1. /\ Append(q, x) \in Seq(S)
        /\ Len(Append(q, x)) = Len(q) + 1
        /\ Append(q, x)[Len(q) + 1] = x
        /\ \A i \in 1 .. Len(q) : Append(q, x)[i] = q[i]
        /\ Len(q) \in Nat
    OBVIOUS
  <1>2. Append(q, x) # <<>> /\ Last(Append(q, x)) = x
    BY <1>1 DEF Last
  <1>3. InQueue(Append(q, x)) = InQueue(q) \cup {x}
    BY <1>1 DEF InQueue
  <1>4. Distinct(q) /\ x \notin InQueue(q) => Distinct(Append(q, x))
    BY <1>1 DEF Distinct, InQueue
  <1> QED BY <1>1, <1>2, <1>3, <1>4

\* front, pop: the queue loses its first element.
LEMMA PopQueue ==
    ASSUME NEW S, NEW q \in Seq(S), q # <<>>
    PROVE  /\ Head(q) \in S
           /\ Tail(q) \in Seq(S)
           /\ InQueue(q) = {Head(q)} \cup InQueue(Tail(q))
           /\ Distinct(q) => Distinct(Tail(q)) /\ Head(q) \notin InQueue(Tail(q))
  <1>1. /\ Head(q) \in S
        /\ Tail(q) \in Seq(S)
        /\ Len(q) \in Nat \ {0}
        /\ Len(Tail(q)) = Len(q) - 1
        /\ Head(q) = q[1]
        /\ \A i \in 1 .. Len(Tail(q)) : Tail(q)[i] = q[i + 1]
    BY HeadTailProperties, EmptySeq
  <1>2. InQueue(q) = {Head(q)} \cup InQueue(Tail(q))
    <2>1. ASSUME NEW i \in 1 .. Len(q) PROVE q[i] \in {Head(q)} \cup InQueue(Tail(q))
      <3>1. CASE i = 1 BY <1>1, <3>1
      <3>2. CASE i # 1
        <4>1. i - 1 \in 1 .. Len(Tail(q)) /\ Tail(q)[i - 1] = q[i]
          BY <1>1, <3>2
        <4> QED BY <4>1 DEF InQueue
      <3> QED BY <3>1, <3>2
    <2>2. InQueue(Tail(q)) \subseteq InQueue(q)
      BY <1>1 DEF InQueue
    <2> QED BY <1>1, <2>1, <2>2 DEF InQueue
  <1>3. ASSUME Distinct(q) PROVE Distinct(Tail(q)) /\ Head(q) \notin InQueue(Tail(q))
    <2>1. ASSUME NEW i \in 1 .. Len(Tail(q)), NEW j \in 1 .. Len(Tail(q)),
                 Tail(q)[i] = Tail(q)[j]
          PROVE  i = j
      <3>1. i + 1 \in 1 .. Len(q) /\ j + 1 \in 1 .. Len(q) /\ q[i + 1] = q[j + 1]
        BY <1>1, <2>1
      <3> QED BY <1>3, <3>1 DEF Distinct
    <2>2. ASSUME NEW i \in 1 .. Len(Tail(q)) PROVE Tail(q)[i] # Head(q)
      <3>1. i + 1 \in 1 .. Len(q) /\ 1 \in 1 .. Len(q) /\ i + 1 # 1
        BY <1>1
      <3> QED BY <1>1, <1>3, <3>1 DEF Distinct
    <2> QED BY <2>1, <2>2 DEF Distinct, InQueue
  <1> QED BY <1>1, <1>2, <1>3

\* The drain: every element of s is popped and pushed to q.
LEMMA DrainQueue ==
    ASSUME NEW S, NEW q \in Seq(S), NEW s \in Seq(S)
    PROVE  /\ q \o s \in Seq(S)
           /\ InQueue(q \o s) = InQueue(q) \cup InQueue(s)
           /\ Distinct(q) /\ Distinct(s) /\ InQueue(q) \cap InQueue(s) = {}
                => Distinct(q \o s)
  <1>1. /\ q \o s \in Seq(S)
        /\ Len(q \o s) = Len(q) + Len(s)
        /\ \A i \in 1 .. Len(q) + Len(s) :
              (q \o s)[i] = IF i <= Len(q) THEN q[i] ELSE s[i - Len(q)]
        /\ Len(q) \in Nat /\ Len(s) \in Nat
    BY ConcatProperties
  <1>2. InQueue(q \o s) \subseteq InQueue(q) \cup InQueue(s)
    BY <1>1 DEF InQueue
  <1>3. InQueue(q) \subseteq InQueue(q \o s)
    BY <1>1 DEF InQueue
  <1>4. InQueue(s) \subseteq InQueue(q \o s)
    <2>1. \A i \in 1 .. Len(s) :
            Len(q) + i \in 1 .. Len(q \o s) /\ (q \o s)[Len(q) + i] = s[i]
      BY <1>1
    <2> QED BY <2>1 DEF InQueue
  <1>5. ASSUME Distinct(q), Distinct(s), InQueue(q) \cap InQueue(s) = {},
               NEW i \in 1 .. Len(q \o s), NEW j \in 1 .. Len(q \o s),
               (q \o s)[i] = (q \o s)[j]
        PROVE  i = j
    <2>1. CASE i <= Len(q) /\ j <= Len(q)
      BY <1>1, <1>5, <2>1 DEF Distinct
    <2>2. CASE i > Len(q) /\ j > Len(q)
      <3>1. i - Len(q) \in 1 .. Len(s) /\ j - Len(q) \in 1 .. Len(s)
            /\ s[i - Len(q)] = s[j - Len(q)]
        BY <1>1, <1>5, <2>2
      <3> QED BY <1>1, <1>5, <3>1 DEF Distinct
    <2>3. CASE i <= Len(q) /\ j > Len(q)
      <3>1. j - Len(q) \in 1 .. Len(s) /\ i \in 1 .. Len(q) /\ q[i] = s[j - Len(q)]
        BY <1>1, <1>5, <2>3
      <3> QED BY <1>5, <3>1 DEF InQueue
    <2>4. CASE i > Len(q) /\ j <= Len(q)
      <3>1. i - Len(q) \in 1 .. Len(s) /\ j \in 1 .. Len(q) /\ q[j] = s[i - Len(q)]
        BY <1>1, <1>5, <2>4
      <3> QED BY <1>5, <3>1 DEF InQueue
    <2> QED BY <1>1, <2>1, <2>2, <2>3, <2>4
  <1>6. InQueue(q \o s) = InQueue(q) \cup InQueue(s)
    BY <1>2, <1>3, <1>4
  <1>7. Distinct(q) /\ Distinct(s) /\ InQueue(q) \cap InQueue(s) = {} => Distinct(q \o s)
    BY <1>5 DEF Distinct
  <1> QED BY <1>1, <1>6, <1>7

LEMMA SmallQueues ==
    ASSUME NEW S, NEW x \in S
    PROVE  /\ <<>> \in Seq(S) /\ InQueue(<<>>) = {} /\ Distinct(<<>>)
           /\ <<x>> \in Seq(S) /\ <<x>> # <<>> /\ Last(<<x>>) = x
           /\ InQueue(<<x>>) = {x} /\ Distinct(<<x>>)
  BY DEF InQueue, Distinct, Last

\* The last element of a queue is one of its elements.
LEMMA LastInQueue ==
    ASSUME NEW S, NEW q \in Seq(S), q # <<>>
    PROVE  Last(q) \in S /\ Last(q) \in InQueue(q)
  <1>1. Len(q) \in 1 .. Len(q) BY EmptySeq
  <1> QED BY <1>1, ElementOfSeq DEF Last, InQueue

(***************************************************************************)
(* What one thread's step does to the owner of a mutex and to the set of   *)
(* buffers in hand.  The step takes thread t from its label to label `to'. *)
(***************************************************************************)
LEMMA Labelled ==
    ASSUME TypeOK, NEW t \in Threads, NEW to, pc' = [pc EXCEPT ![t] = to]
    PROVE  pc'[t] = to /\ \A u \in Threads \ {t} : pc'[u] = pc[u]
  BY DEF TypeOK

LEMMA FullMutexStep ==
    ASSUME TypeOK, FullMutexHeld, NEW t \in Threads, NEW to,
           pc' = [pc EXCEPT ![t] = to],
           \/ m_lock_full = NoThread /\ m_lock_full' = t /\ to \in HoldsFull
           \/ m_lock_full' = NoThread /\ pc[t] \in HoldsFull /\ to \notin HoldsFull
           \/ m_lock_full' = m_lock_full /\ (pc[t] \in HoldsFull <=> to \in HoldsFull)
    PROVE  FullMutexHeld' /\ m_lock_full' \in Threads \cup {NoThread}
  <1>1. pc'[t] = to /\ \A u \in Threads \ {t} : pc'[u] = pc[u] BY Labelled
  <1>2. NoThread \notin Threads BY FramePoolAssumption
  <1> QED BY <1>1, <1>2, Zenon DEF FullMutexHeld, TypeOK

LEMMA FreeMutexStep ==
    ASSUME TypeOK, FreeMutexHeld, NEW t \in Threads, NEW to,
           pc' = [pc EXCEPT ![t] = to],
           \/ m_lock_free = NoThread /\ m_lock_free' = t /\ to \in HoldsFree
           \/ m_lock_free' = NoThread /\ pc[t] \in HoldsFree /\ to \notin HoldsFree
           \/ m_lock_free' = m_lock_free /\ (pc[t] \in HoldsFree <=> to \in HoldsFree)
    PROVE  FreeMutexHeld' /\ m_lock_free' \in Threads \cup {NoThread}
  <1>1. pc'[t] = to /\ \A u \in Threads \ {t} : pc'[u] = pc[u] BY Labelled
  <1>2. NoThread \notin Threads BY FramePoolAssumption
  <1> QED BY <1>1, <1>2, Zenon DEF FreeMutexHeld, TypeOK

\* The thread keeps what it has.
LEMMA OwnedKept ==
    ASSUME TypeOK, NEW t \in Threads, NEW to, pc' = [pc EXCEPT ![t] = to],
           t_p_frame' = t_p_frame, pc[t] \in InHand <=> to \in InHand
    PROVE  Owned' = Owned /\ (OneHandPerFrame => OneHandPerFrame')
  <1>1. pc'[t] = to /\ \A u \in Threads \ {t} : pc'[u] = pc[u] BY Labelled
  <1> QED BY <1>1 DEF Owned, OneHandPerFrame

\* The thread takes buffer f, which nobody has.
LEMMA OwnedTaken ==
    ASSUME TypeOK, NEW t \in Threads, NEW to, pc' = [pc EXCEPT ![t] = to],
           NEW f \in Frames, t_p_frame' = [t_p_frame EXCEPT ![t] = f],
           pc[t] \notin InHand, to \in InHand
    PROVE  /\ Owned' = Owned \cup {f}
           /\ OneHandPerFrame /\ f \notin Owned => OneHandPerFrame'
  <1>1. pc'[t] = to /\ \A u \in Threads \ {t} : pc'[u] = pc[u] BY Labelled
  <1>2. t_p_frame'[t] = f /\ \A u \in Threads \ {t} : t_p_frame'[u] = t_p_frame[u]
    BY DEF TypeOK
  <1> QED BY <1>1, <1>2 DEF Owned, OneHandPerFrame

\* The thread gives its buffer away.
LEMMA OwnedGiven ==
    ASSUME TypeOK, NEW t \in Threads, NEW to, pc' = [pc EXCEPT ![t] = to],
           t_p_frame' = [t_p_frame EXCEPT ![t] = NoFrame],
           OneHandPerFrame, pc[t] \in InHand, to \notin InHand
    PROVE  Owned' = Owned \ {t_p_frame[t]} /\ OneHandPerFrame' /\ t_p_frame[t] \in Owned
  <1>1. pc'[t] = to /\ \A u \in Threads \ {t} : pc'[u] = pc[u] BY Labelled
  <1>2. t_p_frame'[t] = NoFrame /\ \A u \in Threads \ {t} : t_p_frame'[u] = t_p_frame[u]
    BY DEF TypeOK
  <1> QED BY <1>1, <1>2 DEF Owned, OneHandPerFrame

\* The thread had none, and has none.
LEMMA OwnedNone ==
    ASSUME TypeOK, NEW t \in Threads, NEW to, pc' = [pc EXCEPT ![t] = to],
           NEW f, t_p_frame' = [t_p_frame EXCEPT ![t] = f],
           pc[t] \notin InHand, to \notin InHand
    PROVE  Owned' = Owned /\ (OneHandPerFrame => OneHandPerFrame')
  <1>1. pc'[t] = to /\ \A u \in Threads \ {t} : pc'[u] = pc[u] BY Labelled
  <1>2. \A u \in Threads \ {t} : t_p_frame'[u] = t_p_frame[u]
    BY DEF TypeOK
  <1> QED BY <1>1, <1>2 DEF Owned, OneHandPerFrame

\* No buffer changes its place.
LEMMA PlacesKept ==
    ASSUME NoFrameLost, NoFrameShared, Owned' = Owned, OneHandPerFrame',
           UNCHANGED <<poolVars, queueVars>>
    PROVE  NoFrameLost' /\ NoFrameShared'
  BY DEF NoFrameLost, NoFrameShared, queueVars, poolVars, InQueue, Distinct

LEMMA LabelSets ==
    /\ Fills \subseteq HoldsFrame /\ HoldsFrame \subseteq InHand \cup InPlace
    /\ InPlace \subseteq HoldsFull /\ InHand \cap InPlace = {}
    /\ HasFilled \cup Draws \subseteq InHand
    /\ "idle" \notin HoldsFull \cup HoldsFree \cup HoldsFrame \cup InHand \cup InPlace
    /\ WaitsForFrame \subseteq InHand \ HoldsFrame
    /\ InPlace = {"rx_lock_frame", "rx_fill"}
    /\ HasFilled \cap HoldsFrame = {} /\ Fills \cap HoldsFree = {}
    /\ Fills \cap Draws = {} /\ "idle" \notin Fills
  BY DEF Fills, HoldsFrame, InHand, InPlace, HoldsFull, HoldsFree, HasFilled, Draws,
         WaitsForFrame

(***************************************************************************)
(* Steps that take a mutex and touch nothing else.                         *)
(***************************************************************************)
\* The thread does not change what it has nor what it may assume of it.
SameHold(from, to) ==
    /\ to \in Labels
    /\ from \in InHand <=> to \in InHand
    /\ from \in InPlace <=> to \in InPlace
    /\ from \in HoldsFrame <=> to \in HoldsFrame
    /\ from \in HasFilled \cup Draws <=> to \in HasFilled \cup Draws
    /\ from \notin Fills /\ to \notin Fills

LEMMA MoveStep ==
    ASSUME IInv, NEW t \in Threads, NEW to,
           SameHold(pc[t], to), pc' = [pc EXCEPT ![t] = to],
           UNCHANGED <<poolVars, queueVars, m_lock, frameVars, t_p_frame, history>>,
           \A u \in Producers : pc[u] # "idle" => puts'[u] = puts[u]
    PROVE  /\ pc' \in [Threads -> Labels]
           /\ FrameMutexesHeld' /\ BuffersHeld' /\ NoFrameLost' /\ NoFrameShared'
           /\ ContentsKnown'
           /\ (t \in Producers => pc[t] # "idle" \/ puts'[t] \in 1 .. MaxPuts)
                => PutsCounted'
  <1> USE DEF IInv, SameHold
  <1>1. pc'[t] = to /\ \A u \in Threads \ {t} : pc'[u] = pc[u] BY Labelled
  <1>2. pc' \in [Threads -> Labels]
    BY DEF TypeOK
  <1>3. FrameMutexesHeld'
    BY <1>1 DEF FrameMutexesHeld
  <1>4. BuffersHeld'
    BY <1>1 DEF BuffersHeld, queueVars
  <1>5. Owned' = Owned /\ OneHandPerFrame'
    BY OwnedKept DEF NoFrameShared
  <1>6. NoFrameLost' /\ NoFrameShared'
    BY <1>5, PlacesKept
  <1>7. ContentsKnown'
    <2>1. \A p \in Producers : pc'[p] = "rx_fill" <=> pc[p] = "rx_fill"
      BY <1>1 DEF Fills, Threads
    <2>2. \A f : Whole(f)' <=> Whole(f)
      BY DEF Whole, frameVars
    <2>3. \A p \in Producers : pc[p] \in Fills => Value(p)' = Value(p)
      BY LabelSets DEF Value
    <2>4. \A i \in 1 .. Len(m_queue_full') :
            \/ Whole(m_queue_full[i])'
            \/ \E p \in Producers : pc'[p] = "rx_fill" /\ t_p_frame'[p] = m_queue_full'[i]
      BY <2>1, <2>2 DEF ContentsKnown, queueVars
    <2>5. \A u \in Threads : pc'[u] \in HasFilled \cup Draws => Whole(t_p_frame[u])'
      BY <1>1, <2>2 DEF ContentsKnown
    <2>6. \A p \in Producers : pc'[p] \in Fills => m_extent'[t_p_frame'[p]] = Value(p)'
      BY <1>1, <2>3 DEF ContentsKnown, frameVars, Threads
    <2> QED BY <2>2, <2>4, <2>5, <2>6 DEF ContentsKnown, queueVars
  <1>8. ASSUME t \in Producers => pc[t] # "idle" \/ puts'[t] \in 1 .. MaxPuts
        PROVE  PutsCounted'
    BY <1>1, <1>8 DEF PutsCounted, Threads
  <1> QED BY <1>2, <1>3, <1>4, <1>6, <1>7, <1>8

LEMMA LockFullStep ==
    ASSUME IInv, NEW t \in Threads, NEW from, NEW to, LockFull(t, from, to),
           from # "idle", SameHold(from, to),
           to \in HoldsFull, from \in HoldsFree <=> to \in HoldsFree
    PROVE  IInv'
  <1> USE DEF IInv, LockFull, Goto
  <1>1. FullMutexHeld' /\ m_lock_full' \in Threads \cup {NoThread}
    BY FullMutexStep
  <1>2. FreeMutexHeld'
    BY FreeMutexStep
  <1>3. /\ pc' \in [Threads -> Labels]
        /\ FrameMutexesHeld' /\ BuffersHeld' /\ NoFrameLost' /\ NoFrameShared'
        /\ ContentsKnown' /\ PutsCounted'
    <2>1. /\ pc[t] # "idle" /\ SameHold(pc[t], to) /\ pc' = [pc EXCEPT ![t] = to]
          /\ UNCHANGED <<poolVars, queueVars, m_lock, frameVars, t_p_frame, history>>
          /\ \A u \in Producers : pc[u] # "idle" => puts'[u] = puts[u]
      OBVIOUS
    <2> QED BY <2>1, MoveStep
  <1>4. TypeOK'
    BY <1>1, <1>3 DEF TypeOK, poolVars, queueVars, frameVars, history
  <1> QED BY <1>1, <1>2, <1>3, <1>4

LEMMA LockFreeStep ==
    ASSUME IInv, NEW t \in Threads, NEW from, NEW to, LockFree(t, from, to),
           from # "idle", SameHold(from, to),
           to \in HoldsFree, from \in HoldsFull <=> to \in HoldsFull
    PROVE  IInv'
  <1> USE DEF IInv, LockFree, Goto
  <1>1. FreeMutexHeld' /\ m_lock_free' \in Threads \cup {NoThread}
    BY FreeMutexStep
  <1>2. FullMutexHeld'
    BY FullMutexStep
  <1>3. /\ pc' \in [Threads -> Labels]
        /\ FrameMutexesHeld' /\ BuffersHeld' /\ NoFrameLost' /\ NoFrameShared'
        /\ ContentsKnown' /\ PutsCounted'
    <2>1. /\ pc[t] # "idle" /\ SameHold(pc[t], to) /\ pc' = [pc EXCEPT ![t] = to]
          /\ UNCHANGED <<poolVars, queueVars, m_lock, frameVars, t_p_frame, history>>
          /\ \A u \in Producers : pc[u] # "idle" => puts'[u] = puts[u]
      OBVIOUS
    <2> QED BY <2>1, MoveStep
  <1>4. TypeOK'
    BY <1>1, <1>3 DEF TypeOK, poolVars, queueVars, frameVars, history
  <1> QED BY <1>1, <1>2, <1>3, <1>4

(***************************************************************************)
(* Exclusive use of a buffer.                                              *)
(***************************************************************************)
\* Two threads never work on the same buffer, in hand or in place.
LEMMA FrameAlone ==
    ASSUME IInv, NEW t \in Threads, NEW u \in Threads, t # u,
           pc[t] \in InHand \cup InPlace, pc[u] \in InHand \cup InPlace
    PROVE  t_p_frame[t] # t_p_frame[u]
  <1> USE DEF IInv
  <1>1. CASE pc[t] \in InHand /\ pc[u] \in InHand
    BY <1>1 DEF NoFrameShared, OneHandPerFrame
  <1>2. CASE pc[t] \in InPlace /\ pc[u] \in InPlace
    BY <1>2, LabelSets DEF FullMutexHeld
  <1>3. ASSUME NEW v \in Threads, NEW w \in Threads, pc[v] \in InHand, pc[w] \in InPlace
        PROVE  t_p_frame[v] # t_p_frame[w]
    <2>1. t_p_frame[v] \in Owned
      BY <1>3 DEF Owned
    <2>2. t_p_frame[w] \in InQueue(m_queue_full)
      BY <1>3, LastInQueue DEF BuffersHeld, TypeOK
    <2> QED BY <2>1, <2>2 DEF NoFrameShared
  <1> QED BY <1>1, <1>2, <1>3

\* A buffer in hand is in neither queue.
LEMMA FrameTaken ==
    ASSUME IInv, NEW t \in Threads, pc[t] \in InHand
    PROVE  /\ t_p_frame[t] \in Frames
           /\ t_p_frame[t] \in Owned
           /\ t_p_frame[t] \notin InQueue(m_queue_full)
           /\ t_p_frame[t] \notin InQueue(m_queue_free)
  <1>1. t_p_frame[t] \in Owned
    BY DEF Owned
  <1> QED BY <1>1 DEF IInv, NoFrameShared, BuffersHeld

\* Nobody works in place while another thread holds m_lock_full.
LEMMA FullQueueWhole ==
    ASSUME IInv, NEW t \in Threads, pc[t] \in HoldsFull \ InPlace
    PROVE  /\ \A u \in Threads : pc[u] \notin InPlace
           /\ \A i \in 1 .. Len(m_queue_full) : Whole(m_queue_full[i])
  <1>1. \A u \in Threads : pc[u] \notin InPlace
    BY LabelSets DEF IInv, FullMutexHeld
  <1> QED BY <1>1, LabelSets DEF IInv, ContentsKnown, Threads

(***************************************************************************)
(* Copying into a buffer.                                                  *)
(***************************************************************************)
LEMMA StartFillStep ==
    ASSUME IInv, NEW p \in Producers, NEW from, NEW to, StartFill(p, from, to),
           \/ from \in WaitsForFrame /\ to \in Fills \cap InHand
           \/ from = "rx_lock_frame" /\ to = "rx_fill",
           from \in HoldsFull <=> to \in HoldsFull, to \in Labels
    PROVE  IInv'
  <1> DEFINE f == t_p_frame[p]
  <1> USE DEF IInv
  <1>1. /\ pc[p] = from /\ p \in Threads /\ m_lock[f] = NoThread
        /\ pc' = [pc EXCEPT ![p] = to]
        /\ m_lock' = [m_lock EXCEPT ![f] = p]
        /\ m_extent' = [m_extent EXCEPT ![f] = Value(p)]
        /\ m_state' = [m_state EXCEPT ![f] = "FILLING"]
        /\ UNCHANGED <<poolVars, queueVars, m_lock_free, m_lock_full, m_p_data,
                       t_p_frame, puts, history>>
    BY DEF StartFill, Goto, Threads
  <1>2. /\ from \in InHand <=> to \in InHand
        /\ from \in InPlace <=> to \in InPlace
        /\ from \in InHand \cup InPlace
        /\ from \notin HoldsFree /\ to \notin HoldsFree
        /\ from \notin HoldsFrame /\ to \in Fills /\ to \in HoldsFrame
        /\ from \notin HasFilled \cup Draws /\ to \notin HasFilled \cup Draws
        /\ from # "idle"
    BY DEF WaitsForFrame, Fills, InHand, InPlace, HoldsFree, HoldsFrame, HasFilled, Draws
  <1>3. f \in Frames /\ Value(p) \in Values
    BY <1>1, <1>2 DEF BuffersHeld, PutsCounted, Value, Values
  <1>4. pc'[p] = to /\ \A u \in Threads \ {p} : pc'[u] = pc[u]
    BY <1>1, Labelled
  <1>5. FullMutexHeld'
    BY <1>1, FullMutexStep
  <1>6. FreeMutexHeld'
    BY <1>1, <1>2, FreeMutexStep
  <1>7. FrameMutexesHeld'
    <2>1. NoThread \notin Threads BY FramePoolAssumption
    <2> QED BY <1>1, <1>2, <1>3, <1>4, <2>1 DEF FrameMutexesHeld, TypeOK
  <1>8. BuffersHeld'
    BY <1>1, <1>2, <1>4 DEF BuffersHeld, queueVars
  <1>9. Owned' = Owned /\ OneHandPerFrame'
    BY <1>1, <1>2, OwnedKept DEF NoFrameShared
  <1>10. NoFrameLost' /\ NoFrameShared'
    BY <1>1, <1>9, PlacesKept
  <1>11. \A g \in Frames \ {f} : Whole(g)' <=> Whole(g)
    BY <1>1, <1>3 DEF Whole, TypeOK
  <1>12. ContentsKnown'
    <2>1. ASSUME NEW i \in 1 .. Len(m_queue_full')
          PROVE  \/ Whole(m_queue_full[i])'
                 \/ \E q \in Producers : pc'[q] = "rx_fill" /\ t_p_frame'[q] = m_queue_full'[i]
      <3> DEFINE g == m_queue_full[i]
      <3>1. i \in 1 .. Len(m_queue_full) /\ m_queue_full' = m_queue_full /\ g \in Frames
            /\ g \in InQueue(m_queue_full)
        BY <1>1, ElementOfSeq DEF queueVars, TypeOK, InQueue
      <3>2. CASE g = f
        <4>1. from = "rx_lock_frame"
          BY <3>1, <3>2, <1>1, FrameTaken DEF WaitsForFrame, InHand
        <4> QED BY <4>1, <3>1, <3>2, <1>1, <1>4 DEF WaitsForFrame
      <3>3. CASE g # f
        <4>1. CASE Whole(g)
          BY <4>1, <3>1, <3>3, <1>11
        <4>2. CASE \E q \in Producers : pc[q] = "rx_fill" /\ t_p_frame[q] = g
          BY <4>2, <3>1, <3>3, <1>1, <1>4 DEF Threads
        <4> QED BY <3>1, <4>1, <4>2 DEF ContentsKnown
      <3> QED BY <3>2, <3>3
    <2>2. ASSUME NEW u \in Threads, pc'[u] \in HasFilled \cup Draws
          PROVE  Whole(t_p_frame[u])'
      <3>1. u # p /\ pc[u] \in HasFilled \cup Draws
        BY <1>2, <1>4, <2>2
      <3>2. t_p_frame[u] \in Frames \ {f}
        BY <3>1, <1>1, <1>2, LabelSets, FrameAlone, FrameTaken
      <3> QED BY <3>1, <3>2, <1>1, <1>11 DEF ContentsKnown
    <2>3. ASSUME NEW q \in Producers, pc'[q] \in Fills
          PROVE  m_extent'[t_p_frame'[q]] = Value(q)'
      <3>1. CASE q = p
        BY <3>1, <1>1, <1>3 DEF Value, TypeOK
      <3>2. CASE q # p
        <4>1. q \in Threads /\ pc[q] \in Fills
          BY <3>2, <1>4, <2>3 DEF Threads
        <4>2. t_p_frame[q] \in Frames \ {f}
          BY <4>1, <3>2, <1>1, <1>2, LabelSets, FrameAlone DEF BuffersHeld
        <4> QED BY <4>1, <4>2, <1>1 DEF ContentsKnown, Value, TypeOK
      <3> QED BY <3>1, <3>2
    <2> QED BY <2>1, <2>2, <2>3 DEF ContentsKnown
  <1>13. PutsCounted'
    BY <1>1, <1>2, <1>4 DEF PutsCounted, Threads
  <1>14. TypeOK'
    BY <1>1, <1>3 DEF TypeOK, poolVars, queueVars, frameVars, history
  <1> QED BY <1>5, <1>6, <1>7, <1>8, <1>10, <1>12, <1>13, <1>14

\* The copy is done: the buffer is whole, and the others are as they were.
LEMMA FilledWhole ==
    ASSUME IInv, NEW p \in Producers, pc[p] \in Fills, FinishFill(p), m_extent' = m_extent,
           NEW f, f = t_p_frame[p]
    PROVE  /\ f \in Frames /\ Value(p) \in Values
           /\ Whole(f)'
           /\ \A g \in Frames \ {f} : Whole(g)' <=> Whole(g)
  <1>1. f \in Frames
    BY LabelSets DEF IInv, BuffersHeld, Threads
  <1>2. Value(p) \in Values /\ m_extent[f] = Value(p)
    BY DEF IInv, PutsCounted, ContentsKnown, Value, Values, Fills
  <1>3. /\ m_state \in [Frames -> {"FREE", "FILLING", "FILLED"}]
        /\ m_p_data \in [Frames -> Values \cup {NoValue}]
    BY DEF IInv, TypeOK
  <1> QED BY <1>1, <1>2, <1>3 DEF Whole, FinishFill

LEMMA EndFillStep ==
    ASSUME IInv, NEW p \in Producers, NEW from, NEW to, EndFill(p, from, to),
           from \in Fills \cap InHand, to \in HasFilled, to \in Labels,
           from \in HoldsFull <=> to \in HoldsFull, to \notin HoldsFree
    PROVE  IInv'
  <1> PICK f : f = t_p_frame[p] OBVIOUS
  <1> USE DEF IInv
  <1>1. /\ pc[p] = from /\ p \in Threads /\ FinishFill(p)
        /\ pc' = [pc EXCEPT ![p] = to]
        /\ UNCHANGED <<poolVars, queueVars, m_lock_free, m_lock_full, m_extent,
                       t_p_frame, puts, history>>
    BY DEF EndFill, Goto, Threads
  <1>2. /\ from \in InHand /\ to \in InHand /\ from \notin InPlace /\ to \notin InPlace
        /\ from \notin HoldsFree
        /\ from \in HoldsFrame /\ to \notin HoldsFrame /\ to \notin Fills
        /\ from # "idle" /\ from # "rx_fill"
    BY LabelSets, Zenon
  <1>3. /\ f \in Frames /\ Value(p) \in Values /\ Whole(f)'
        /\ \A g \in Frames \ {f} : Whole(g)' <=> Whole(g)
    BY <1>1, FilledWhole
  <1>4. pc'[p] = to /\ \A u \in Threads \ {p} : pc'[u] = pc[u]
    BY <1>1, Labelled
  <1>5. FullMutexHeld'
    BY <1>1, FullMutexStep
  <1>6. FreeMutexHeld'
    BY <1>1, <1>2, FreeMutexStep
  <1>7. FrameMutexesHeld'
    <2>1. NoThread \notin Threads BY FramePoolAssumption
    <2>2. m_lock[f] = p
      BY <1>1, <1>2, <1>3 DEF FrameMutexesHeld
    <2> QED BY <1>1, <1>2, <1>3, <1>4, <2>1, <2>2 DEF FrameMutexesHeld, FinishFill, TypeOK
  <1>8. BuffersHeld'
    BY <1>1, <1>2, <1>4 DEF BuffersHeld, queueVars
  <1>9. Owned' = Owned /\ OneHandPerFrame'
    BY <1>1, <1>2, OwnedKept DEF NoFrameShared
  <1>10. NoFrameLost' /\ NoFrameShared'
    BY <1>1, <1>9, PlacesKept
  <1>11. ContentsKnown'
    <2>1. ASSUME NEW i \in 1 .. Len(m_queue_full')
          PROVE  \/ Whole(m_queue_full[i])'
                 \/ \E q \in Producers : pc'[q] = "rx_fill" /\ t_p_frame'[q] = m_queue_full'[i]
      <3>1. /\ i \in 1 .. Len(m_queue_full) /\ m_queue_full' = m_queue_full
            /\ m_queue_full[i] \in Frames \ {f}
        BY <1>1, <1>2, FrameTaken, ElementOfSeq DEF queueVars, TypeOK, InQueue
      <3> QED BY <3>1, <1>1, <1>2, <1>3, <1>4 DEF ContentsKnown, Threads
    <2>2. ASSUME NEW u \in Threads, pc'[u] \in HasFilled \cup Draws
          PROVE  Whole(t_p_frame[u])'
      <3>1. CASE u = p BY <3>1, <1>1, <1>3
      <3>2. CASE u # p
        <4>1. pc[u] \in HasFilled \cup Draws BY <3>2, <1>4, <2>2
        <4>2. t_p_frame[u] \in Frames \ {f}
          BY <4>1, <3>2, <1>1, <1>2, LabelSets, FrameAlone, FrameTaken
        <4> QED BY <4>1, <4>2, <1>1, <1>3 DEF ContentsKnown
      <3> QED BY <3>1, <3>2
    <2>3. ASSUME NEW q \in Producers, pc'[q] \in Fills
          PROVE  m_extent'[t_p_frame'[q]] = Value(q)'
      BY <2>3, <1>1, <1>2, <1>4 DEF ContentsKnown, Value, Threads
    <2> QED BY <2>1, <2>2, <2>3 DEF ContentsKnown
  <1>12. PutsCounted'
    BY <1>1, <1>2, <1>4 DEF PutsCounted, Threads
  <1>13. TypeOK'
    BY <1>1, <1>3 DEF TypeOK, FinishFill, poolVars, queueVars, history
  <1> QED BY <1>5, <1>6, <1>7, <1>8, <1>10, <1>11, <1>12, <1>13

LEMMA RelaxedFilledStep ==
    ASSUME IInv, NEW p \in Producers, RelaxedFilled(p)
    PROVE  IInv'
  <1> PICK f : f = t_p_frame[p] OBVIOUS
  <1> USE DEF IInv
  <1>1. /\ pc[p] = "rx_fill" /\ p \in Threads /\ FinishFill(p)
        /\ pc' = [pc EXCEPT ![p] = "idle"]
        /\ t_p_frame' = [t_p_frame EXCEPT ![p] = NoFrame]
        /\ m_lock_full' = NoThread
        /\ Publish(p)
        /\ UNCHANGED <<poolVars, queueVars, m_lock_free, m_extent, puts>>
    BY DEF RelaxedFilled, Return, Goto, Threads
  <1>2. /\ "rx_fill" \in InPlace /\ "rx_fill" \in Fills /\ "rx_fill" \in HoldsFrame
        /\ "rx_fill" \in HoldsFull /\ "rx_fill" \notin InHand
        /\ "rx_fill" \notin HoldsFree
        /\ "idle" \notin HoldsFull \cup HoldsFree \cup HoldsFrame \cup InHand \cup InPlace
        /\ "idle" \notin HasFilled \cup Draws \cup Fills
    BY LabelSets DEF Fills, InPlace, HoldsFrame, HoldsFull, HoldsFree, InHand
  <1>3. /\ f \in Frames /\ Value(p) \in Values /\ Whole(f)'
        /\ \A g \in Frames \ {f} : Whole(g)' <=> Whole(g)
    BY <1>1, <1>2, FilledWhole
  <1>4. pc'[p] = "idle" /\ \A u \in Threads \ {p} : pc'[u] = pc[u]
    BY <1>1, Labelled
  <1>5. \A u \in Threads \ {p} : t_p_frame'[u] = t_p_frame[u]
    BY <1>1 DEF TypeOK
  <1>6. FullMutexHeld'
    BY <1>1, <1>2, FullMutexStep
  <1>7. FreeMutexHeld'
    BY <1>1, <1>2, FreeMutexStep
  <1>8. FrameMutexesHeld'
    <2>1. NoThread \notin Threads BY FramePoolAssumption
    <2>2. m_lock[f] = p
      BY <1>1, <1>2, <1>3 DEF FrameMutexesHeld
    <2> QED BY <1>1, <1>2, <1>3, <1>4, <1>5, <2>1, <2>2
            DEF FrameMutexesHeld, FinishFill, TypeOK
  <1>9. BuffersHeld'
    BY <1>1, <1>2, <1>4, <1>5 DEF BuffersHeld, queueVars
  <1>10. Owned' = Owned /\ OneHandPerFrame'
    BY <1>1, <1>2, OwnedNone DEF NoFrameShared
  <1>11. NoFrameLost' /\ NoFrameShared'
    BY <1>1, <1>10, PlacesKept
  <1>12. ContentsKnown'
    <2>1. ASSUME NEW i \in 1 .. Len(m_queue_full')
          PROVE  Whole(m_queue_full[i])'
      <3>1. /\ i \in 1 .. Len(m_queue_full) /\ m_queue_full' = m_queue_full
            /\ m_queue_full[i] \in Frames
        BY <1>1, ElementOfSeq DEF queueVars, TypeOK
      <3>2. \A q \in Producers : pc[q] = "rx_fill" => q = p
        BY <1>1, <1>2 DEF FullMutexHeld, Threads
      <3>3. m_queue_full[i] # f => Whole(m_queue_full[i])
        BY <3>1, <3>2 DEF ContentsKnown
      <3> QED BY <3>1, <3>3, <1>3
    <2>2. ASSUME NEW u \in Threads, pc'[u] \in HasFilled \cup Draws
          PROVE  Whole(t_p_frame[u])'
      <3>1. u # p /\ pc[u] \in HasFilled \cup Draws
        BY <1>2, <1>4, <2>2
      <3>2. t_p_frame[u] \in Frames \ {f}
        BY <3>1, <1>1, <1>2, LabelSets, FrameAlone, FrameTaken
      <3> QED BY <3>1, <3>2, <1>5, <1>3 DEF ContentsKnown
    <2>3. ASSUME NEW q \in Producers, pc'[q] \in Fills
          PROVE  m_extent'[t_p_frame'[q]] = Value(q)'
      BY <2>3, <1>1, <1>2, <1>4, <1>5 DEF ContentsKnown, Value, Threads
    <2> QED BY <2>1, <2>2, <2>3 DEF ContentsKnown
  <1>13. PutsCounted'
    BY <1>1, <1>2, <1>4 DEF PutsCounted, Threads
  <1>14. TypeOK'
    <2>1. pc' \in [Threads -> Labels] BY <1>1 DEF TypeOK, Labels
    <2>2. published' \in [Producers -> 0 .. MaxPuts] BY <1>1 DEF TypeOK, Publish
    <2> QED BY <1>1, <1>3, <2>1, <2>2, FramePoolAssumption
            DEF TypeOK, FinishFill, Publish, poolVars, queueVars
  <1> QED BY <1>6, <1>7, <1>8, <1>9, <1>11, <1>12, <1>13, <1>14

(***************************************************************************)
(* Drawing.                                                                *)
(***************************************************************************)
\* The contents of the buffers stay, and no put takes up or ends a copy.
LEMMA ContentsKept ==
    ASSUME IInv, NEW t \in Threads, NEW to, pc' = [pc EXCEPT ![t] = to],
           UNCHANGED <<queueVars, frameVars, t_p_frame, puts>>,
           pc[t] # "rx_fill", to \notin Fills,
           to \in HasFilled \cup Draws => pc[t] \in HasFilled \cup Draws
    PROVE  ContentsKnown'
  <1> USE DEF IInv
  <1>1. pc'[t] = to /\ \A u \in Threads \ {t} : pc'[u] = pc[u] BY Labelled
  <1>2. \A f : Whole(f)' <=> Whole(f)
    BY DEF Whole, frameVars
  <1>3. \A i \in 1 .. Len(m_queue_full') :
          \/ Whole(m_queue_full[i])'
          \/ \E p \in Producers : pc'[p] = "rx_fill" /\ t_p_frame'[p] = m_queue_full'[i]
    BY <1>1, <1>2 DEF ContentsKnown, queueVars, Threads
  <1>4. \A u \in Threads : pc'[u] \in HasFilled \cup Draws => Whole(t_p_frame[u])'
    BY <1>1, <1>2 DEF ContentsKnown
  <1>5. \A p \in Producers : pc'[p] \in Fills => m_extent'[t_p_frame'[p]] = Value(p)'
    BY <1>1 DEF ContentsKnown, frameVars, Threads, Value
  <1> QED BY <1>2, <1>3, <1>4, <1>5 DEF ContentsKnown, queueVars

LEMMA StartRenderStep ==
    ASSUME IInv, NEW r \in Renderers, StartRender(r)
    PROVE  IInv'
  <1> PICK f : f = t_p_frame[r] OBVIOUS
  <1> USE DEF IInv
  <1>1. /\ pc[r] = "get_lock_frame" /\ r \in Threads /\ m_lock[f] = NoThread
        /\ pc' = [pc EXCEPT ![r] = "render"]
        /\ m_lock' = [m_lock EXCEPT ![f] = r]
        /\ UNCHANGED <<poolVars, queueVars, m_lock_free, m_lock_full, frameVars,
                       t_p_frame, puts, history>>
    BY DEF StartRender, Goto, Threads
  <1>2. /\ "get_lock_frame" \in InHand \cap Draws /\ "render" \in InHand \cap Draws
        /\ "get_lock_frame" \notin HoldsFull \cup HoldsFree \cup HoldsFrame \cup InPlace
        /\ "render" \notin HoldsFull \cup HoldsFree \cup InPlace \cup Fills
        /\ "render" \in HoldsFrame /\ "render" \in Labels
    BY DEF InHand, Draws, HoldsFull, HoldsFree, HoldsFrame, InPlace, Fills, Labels,
           RendererLabels
  <1>3. f \in Frames
    BY <1>1, <1>2, FrameTaken
  <1>4. pc'[r] = "render" /\ \A u \in Threads \ {r} : pc'[u] = pc[u]
    BY <1>1, Labelled
  <1>5. FullMutexHeld' /\ FreeMutexHeld'
    BY <1>1, <1>2, FullMutexStep, FreeMutexStep
  <1>6. FrameMutexesHeld'
    <2>1. NoThread \notin Threads BY FramePoolAssumption
    <2> QED BY <1>1, <1>2, <1>3, <1>4, <2>1 DEF FrameMutexesHeld, TypeOK
  <1>7. BuffersHeld'
    BY <1>1, <1>2, <1>4 DEF BuffersHeld, queueVars
  <1>8. Owned' = Owned /\ OneHandPerFrame'
    BY <1>1, <1>2, OwnedKept DEF NoFrameShared
  <1>9. NoFrameLost' /\ NoFrameShared'
    BY <1>1, <1>8, PlacesKept
  <1>10. ContentsKnown'
    BY <1>1, <1>2, ContentsKept
  <1>11. PutsCounted'
    BY <1>1, <1>4, FramePoolAssumption DEF PutsCounted, Threads
  <1>12. TypeOK'
    BY <1>1, <1>2 DEF TypeOK, poolVars, queueVars, frameVars, history
  <1> QED BY <1>5, <1>6, <1>7, <1>9, <1>10, <1>11, <1>12

LEMMA EndRenderStep ==
    ASSUME IInv, NEW r \in Renderers, EndRender(r)
    PROVE  IInv'
  <1> PICK f : f = t_p_frame[r] OBVIOUS
  <1> USE DEF IInv
  <1>1. /\ pc[r] = "render" /\ r \in Threads
        /\ pc' = [pc EXCEPT ![r] = "put_lock_free"]
        /\ m_lock' = [m_lock EXCEPT ![f] = NoThread]
        /\ UNCHANGED <<poolVars, queueVars, m_lock_free, m_lock_full, frameVars,
                       t_p_frame, puts, history>>
    BY DEF EndRender, Goto, Threads
  <1>2. /\ "render" \in InHand /\ "put_lock_free" \in InHand
        /\ "render" \notin HoldsFull \cup HoldsFree \cup InPlace
        /\ "put_lock_free" \notin HoldsFull \cup HoldsFree \cup HoldsFrame \cup InPlace
        /\ "put_lock_free" \notin HasFilled \cup Draws \cup Fills
        /\ "render" \in HoldsFrame /\ "put_lock_free" \in Labels
    BY DEF InHand, Draws, HoldsFull, HoldsFree, HoldsFrame, InPlace, Fills, Labels,
           RendererLabels, HasFilled
  <1>3. f \in Frames /\ m_lock[f] = r
    BY <1>1, <1>2, FrameTaken DEF FrameMutexesHeld
  <1>4. pc'[r] = "put_lock_free" /\ \A u \in Threads \ {r} : pc'[u] = pc[u]
    BY <1>1, Labelled
  <1>5. FullMutexHeld' /\ FreeMutexHeld'
    BY <1>1, <1>2, FullMutexStep, FreeMutexStep
  <1>6. FrameMutexesHeld'
    <2>1. NoThread \notin Threads BY FramePoolAssumption
    <2> QED BY <1>1, <1>2, <1>3, <1>4, <2>1 DEF FrameMutexesHeld, TypeOK
  <1>7. BuffersHeld'
    BY <1>1, <1>2, <1>4 DEF BuffersHeld, queueVars
  <1>8. Owned' = Owned /\ OneHandPerFrame'
    BY <1>1, <1>2, OwnedKept DEF NoFrameShared
  <1>9. NoFrameLost' /\ NoFrameShared'
    BY <1>1, <1>8, PlacesKept
  <1>10. ContentsKnown'
    BY <1>1, <1>2, ContentsKept
  <1>11. PutsCounted'
    BY <1>1, <1>4, FramePoolAssumption DEF PutsCounted, Threads
  <1>12. TypeOK'
    BY <1>1, <1>2 DEF TypeOK, poolVars, queueVars, frameVars, history
  <1> QED BY <1>5, <1>6, <1>7, <1>9, <1>10, <1>11, <1>12

(***************************************************************************)
(* Steps that move buffers between the queues and a call: what they leave  *)
(* alone.  The thread is not at a copy or a draw.                          *)
(***************************************************************************)
\* Threads other than t keep their buffers and the mutexes of buffers stay.
LEMMA OthersKept ==
    ASSUME IInv, NEW t \in Threads, NEW to, to \notin HoldsFrame, pc[t] \notin HoldsFrame,
           pc' = [pc EXCEPT ![t] = to], m_lock' = m_lock,
           NEW f, t_p_frame' = [t_p_frame EXCEPT ![t] = f] \/ t_p_frame' = t_p_frame
    PROVE  /\ FrameMutexesHeld'
           /\ pc'[t] = to /\ \A u \in Threads \ {t} : pc'[u] = pc[u]
           /\ \A u \in Threads \ {t} : t_p_frame'[u] = t_p_frame[u]
  <1>1. pc'[t] = to /\ \A u \in Threads \ {t} : pc'[u] = pc[u]
    BY Labelled DEF IInv
  <1>2. \A u \in Threads \ {t} : t_p_frame'[u] = t_p_frame[u]
    BY DEF IInv, TypeOK
  <1> QED BY <1>1, <1>2 DEF IInv, FrameMutexesHeld

\* The full queue and the contents of the buffers stay.
LEMMA ContentsOfQueueKept ==
    ASSUME IInv, NEW t \in Threads, NEW to, to \notin Fills \cup HasFilled \cup Draws,
           pc[t] # "rx_fill",
           pc' = [pc EXCEPT ![t] = to],
           NEW f, t_p_frame' = [t_p_frame EXCEPT ![t] = f] \/ t_p_frame' = t_p_frame,
           m_queue_full' = m_queue_full, UNCHANGED <<frameVars, puts>>
    PROVE  ContentsKnown'
  <1> USE DEF IInv
  <1>1. pc'[t] = to /\ \A u \in Threads \ {t} : pc'[u] = pc[u] BY Labelled
  <1>2. \A u \in Threads \ {t} : t_p_frame'[u] = t_p_frame[u] BY DEF TypeOK
  <1>3. \A g : Whole(g)' <=> Whole(g)
    BY DEF Whole, frameVars
  <1>4. \A i \in 1 .. Len(m_queue_full') :
          \/ Whole(m_queue_full[i])'
          \/ \E p \in Producers : pc'[p] = "rx_fill" /\ t_p_frame'[p] = m_queue_full'[i]
    BY <1>1, <1>2, <1>3 DEF ContentsKnown, Threads
  <1>5. \A u \in Threads : pc'[u] \in HasFilled \cup Draws => Whole(t_p_frame[u])'
    BY <1>1, <1>2, <1>3 DEF ContentsKnown
  <1>6. \A p \in Producers : pc'[p] \in Fills => m_extent'[t_p_frame'[p]] = Value(p)'
    BY <1>1, <1>2 DEF ContentsKnown, frameVars, Threads, Value
  <1> QED BY <1>3, <1>4, <1>5, <1>6 DEF ContentsKnown

\* The full queue changes, under m_lock_full: its buffers are whole.
LEMMA ContentsOfNewQueue ==
    ASSUME IInv, NEW t \in Threads, NEW to, to \notin Fills,
           pc[t] \in HoldsFull \ InPlace,
           pc' = [pc EXCEPT ![t] = to],
           NEW f, t_p_frame' = [t_p_frame EXCEPT ![t] = f] \/ t_p_frame' = t_p_frame,
           \A i \in 1 .. Len(m_queue_full') : Whole(m_queue_full'[i]),
           to \in HasFilled \cup Draws => t_p_frame'[t] = f /\ Whole(f),
           UNCHANGED <<frameVars, puts>>
    PROVE  ContentsKnown'
  <1> USE DEF IInv
  <1>1. pc'[t] = to /\ \A u \in Threads \ {t} : pc'[u] = pc[u] BY Labelled
  <1>2. \A u \in Threads \ {t} : t_p_frame'[u] = t_p_frame[u] BY DEF TypeOK
  <1>3. \A g : Whole(g)' <=> Whole(g)
    BY DEF Whole, frameVars
  <1>4. \A i \in 1 .. Len(m_queue_full') : Whole(m_queue_full[i])'
    BY <1>3
  <1>5. \A u \in Threads : pc'[u] \in HasFilled \cup Draws => Whole(t_p_frame[u])'
    BY <1>1, <1>2, <1>3 DEF ContentsKnown
  <1>6. ASSUME NEW p \in Producers, pc'[p] \in Fills
        PROVE  m_extent'[t_p_frame'[p]] = Value(p)'
    <2>1. p \in Threads \ {t} BY <1>1, <1>6 DEF Threads
    <2> QED BY <1>1, <1>2, <1>6, <2>1 DEF ContentsKnown, frameVars, Value
  <1> QED BY <1>4, <1>5, <1>6 DEF ContentsKnown

(***************************************************************************)
(* The free queue.                                                         *)
(***************************************************************************)
LEMMA TakeFreeStep ==
    ASSUME IInv, NEW p \in Producers, TakeFree(p)
    PROVE  IInv'
  <1> USE DEF IInv
  <1>1. /\ pc[p] = "take_free" /\ p \in Threads /\ m_lock_free' = NoThread
        /\ UNCHANGED <<poolVars, m_queue_full, m_lock_full, m_lock, frameVars, puts, history>>
    BY DEF TakeFree, Threads
  <1>2. /\ "take_free" \in HoldsFree
        /\ "take_free" \notin HoldsFull \cup HoldsFrame \cup InHand \cup InPlace \cup Fills
    BY DEF HoldsFree, HoldsFull, HoldsFrame, InHand, InPlace, Fills, WaitsForFrame,
           HasFilled, Draws
  <1>3. PICK to, f : /\ pc' = [pc EXCEPT ![p] = to]
                     /\ \/ /\ m_queue_free # <<>> /\ f = Head(m_queue_free)
                           /\ t_p_frame' = [t_p_frame EXCEPT ![p] = f]
                           /\ m_queue_free' = Tail(m_queue_free)
                           /\ to = "lock_frame"
                        \/ /\ f = NoFrame
                           /\ \/ t_p_frame' = [t_p_frame EXCEPT ![p] = f]
                              \/ t_p_frame' = t_p_frame
                           /\ m_queue_free' = m_queue_free
                           /\ to \in {"mb_lock_full", "rx_lock_full", "idle"}
    BY DEF TakeFree, NoFreeFrame, Return, Goto
  <1>4. /\ to \in Labels
        /\ to \notin HoldsFull \cup HoldsFree \cup HoldsFrame \cup InPlace
        /\ to \notin Fills \cup HasFilled \cup Draws
        /\ to \in InHand <=> to = "lock_frame"
    BY <1>3 DEF HoldsFree, HoldsFull, HoldsFrame, InHand, InPlace, Fills, WaitsForFrame,
           HasFilled, Draws, Labels, ProducerLabels
  <1>5. FullMutexHeld'
    BY <1>1, <1>2, <1>3, <1>4, FullMutexStep
  <1>6. FreeMutexHeld'
    BY <1>1, <1>2, <1>3, <1>4, FreeMutexStep
  <1>7. /\ FrameMutexesHeld'
        /\ pc'[p] = to /\ \A u \in Threads \ {p} : pc'[u] = pc[u]
        /\ \A u \in Threads \ {p} : t_p_frame'[u] = t_p_frame[u]
    BY <1>1, <1>2, <1>3, <1>4, OthersKept
  <1>8. ContentsKnown'
    BY <1>1, <1>2, <1>3, <1>4, ContentsOfQueueKept
  <1>9. ASSUME to = "lock_frame"
        PROVE  /\ m_queue_free # <<>> /\ f = Head(m_queue_free)
               /\ m_queue_free' = Tail(m_queue_free)
               /\ t_p_frame' = [t_p_frame EXCEPT ![p] = f]
               /\ f \in Frames /\ m_queue_free' \in Seq(Frames)
               /\ t_p_frame'[p] = f
               /\ InQueue(m_queue_free) = {f} \cup InQueue(m_queue_free')
               /\ Distinct(m_queue_free') /\ f \notin InQueue(m_queue_free')
    <2>1. /\ m_queue_free # <<>> /\ f = Head(m_queue_free)
          /\ m_queue_free' = Tail(m_queue_free)
          /\ t_p_frame' = [t_p_frame EXCEPT ![p] = f]
      BY <1>3, <1>9
    <2>2. m_queue_free \in Seq(Frames) /\ Distinct(m_queue_free)
      BY DEF TypeOK, NoFrameShared
    <2>3. t_p_frame'[p] = f
      BY <1>1, <2>1 DEF TypeOK
    <2> QED BY <2>1, <2>2, <2>3, PopQueue
  <1>10. BuffersHeld'
    BY <1>1, <1>4, <1>7, <1>9 DEF BuffersHeld
  <1>11. NoFrameLost' /\ NoFrameShared'
    <2>1. CASE to = "lock_frame"
      <3>1. /\ InQueue(m_queue_free) = {f} \cup InQueue(m_queue_free')
            /\ Distinct(m_queue_free') /\ f \notin InQueue(m_queue_free')
        BY <1>9, <2>1
      <3>2. f \notin Owned
        BY <3>1 DEF NoFrameShared
      <3>3. Owned' = Owned \cup {f} /\ OneHandPerFrame'
        BY <1>1, <1>2, <1>3, <1>4, <1>9, <2>1, <3>2, OwnedTaken DEF NoFrameShared
      <3>4. NoFrameLost'
        BY <1>1, <3>1, <3>3 DEF NoFrameLost, poolVars, InQueue
      <3>5. NoFrameShared'
        BY <1>1, <3>1, <3>2, <3>3 DEF NoFrameShared
      <3> QED BY <3>4, <3>5
    <2>2. CASE to # "lock_frame"
      <3>1. Owned' = Owned /\ OneHandPerFrame'
        BY <1>1, <1>2, <1>3, <1>4, <2>2, OwnedKept, OwnedNone DEF NoFrameShared
      <3> QED BY <1>1, <1>3, <2>2, <3>1, PlacesKept DEF queueVars
    <2> QED BY <2>1, <2>2
  <1>12. PutsCounted'
    BY <1>1, <1>7 DEF PutsCounted, Threads
  <1>13. TypeOK'
    <2>1. m_queue_free' \in Seq(Frames)
      BY <1>3, <1>9 DEF TypeOK
    <2>2. t_p_frame' \in [Threads -> Frames \cup {NoFrame}]
      BY <1>3, <1>9 DEF TypeOK
    <2> QED BY <1>1, <1>3, <1>4, <2>1, <2>2 DEF TypeOK, poolVars, frameVars, history
  <1> QED BY <1>5, <1>6, <1>7, <1>8, <1>10, <1>11, <1>12, <1>13

LEMMA PutFrameBufferStep ==
    ASSUME IInv, NEW r \in Renderers, PutFrameBuffer(r)
    PROVE  IInv'
  <1> PICK f : f = t_p_frame[r] OBVIOUS
  <1> USE DEF IInv
  <1>1. /\ pc[r] = "put" /\ r \in Threads /\ m_lock_free' = NoThread
        /\ pc' = [pc EXCEPT ![r] = "idle"]
        /\ t_p_frame' = [t_p_frame EXCEPT ![r] = NoFrame]
        /\ m_queue_free' = Append(m_queue_free, f)
        /\ UNCHANGED <<poolVars, m_queue_full, m_lock_full, m_lock, frameVars, puts, history>>
    BY DEF PutFrameBuffer, Return, Goto, Threads
  <1>2. /\ "put" \in HoldsFree /\ "put" \in InHand /\ "put" # "rx_fill"
        /\ "put" \notin HoldsFull \cup HoldsFrame
    BY DEF HoldsFree, HoldsFull, HoldsFrame, InHand, Fills
  <1>3. "idle" \notin Fills \cup HasFilled \cup Draws \cup HoldsFrame
    BY LabelSets
  <1>4. FullMutexHeld' /\ FreeMutexHeld'
    BY <1>1, <1>2, LabelSets, FullMutexStep, FreeMutexStep
  <1>5. /\ FrameMutexesHeld'
        /\ pc'[r] = "idle" /\ \A u \in Threads \ {r} : pc'[u] = pc[u]
        /\ \A u \in Threads \ {r} : t_p_frame'[u] = t_p_frame[u]
    BY <1>1, <1>2, <1>3, OthersKept
  <1>6. ContentsKnown'
    BY <1>1, <1>2, <1>3, ContentsOfQueueKept
  <1>7. BuffersHeld'
    BY <1>1, <1>5, LabelSets DEF BuffersHeld
  <1>8. /\ f \in Frames /\ f \in Owned
        /\ f \notin InQueue(m_queue_full) /\ f \notin InQueue(m_queue_free)
    BY <1>1, <1>2, FrameTaken
  <1>9. /\ m_queue_free' \in Seq(Frames)
        /\ InQueue(m_queue_free') = InQueue(m_queue_free) \cup {f}
        /\ Distinct(m_queue_free')
    BY <1>1, <1>8, AppendQueue DEF TypeOK, NoFrameShared
  <1>10. Owned' = Owned \ {f} /\ OneHandPerFrame'
    BY <1>1, <1>2, LabelSets, OwnedGiven DEF NoFrameShared
  <1>11. NoFrameLost'
    BY <1>1, <1>8, <1>9, <1>10 DEF NoFrameLost, poolVars, InQueue
  <1>12. NoFrameShared'
    BY <1>1, <1>8, <1>9, <1>10 DEF NoFrameShared
  <1>13. PutsCounted'
    BY <1>1, <1>5 DEF PutsCounted, Threads
  <1>14. TypeOK'
    BY <1>1, <1>9 DEF TypeOK, poolVars, frameVars, history, Labels
  <1> QED BY <1>4, <1>5, <1>6, <1>7, <1>11, <1>12, <1>13, <1>14

(***************************************************************************)
(* The full queue.                                                         *)
(***************************************************************************)
\* The front of the full queue passes into the hands of t.
LEMMA PopFull ==
    ASSUME IInv, NEW t \in Threads, NEW to,
           pc[t] \in HoldsFull \ InPlace, pc[t] \notin InHand \cup HoldsFrame,
           pc[t] # "idle" \/ t \notin Producers,
           m_queue_full # <<>>,
           NEW f, f = Head(m_queue_full),
           pc' = [pc EXCEPT ![t] = to],
           t_p_frame' = [t_p_frame EXCEPT ![t] = f],
           m_queue_full' = Tail(m_queue_full),
           to \in InHand \cap Labels,
           to \notin HoldsFrame \cup InPlace \cup Fills \cup HasFilled,
           UNCHANGED <<poolVars, m_queue_free, m_lock, frameVars, puts>>
    PROVE  /\ FrameMutexesHeld' /\ BuffersHeld' /\ NoFrameLost' /\ NoFrameShared'
           /\ ContentsKnown' /\ PutsCounted'
           /\ f \in Frames /\ Whole(f) /\ m_queue_full' \in Seq(Frames)
           /\ t_p_frame' \in [Threads -> Frames \cup {NoFrame}]
           /\ pc' \in [Threads -> Labels]
  <1> USE DEF IInv
  <1>1. m_queue_full \in Seq(Frames) /\ Distinct(m_queue_full)
    BY DEF TypeOK, NoFrameShared
  <1>2. /\ f \in Frames /\ m_queue_full' \in Seq(Frames)
        /\ InQueue(m_queue_full) = {f} \cup InQueue(m_queue_full')
        /\ Distinct(m_queue_full') /\ f \notin InQueue(m_queue_full')
    BY <1>1, PopQueue
  <1>3. /\ \A u \in Threads : pc[u] \notin InPlace
        /\ \A i \in 1 .. Len(m_queue_full) : Whole(m_queue_full[i])
    BY FullQueueWhole
  <1>4. \A g \in InQueue(m_queue_full) : Whole(g)
    BY <1>3 DEF InQueue
  <1>5. Whole(f) /\ \A i \in 1 .. Len(m_queue_full') : Whole(m_queue_full'[i])
    BY <1>2, <1>4 DEF InQueue
  <1>6. /\ FrameMutexesHeld'
        /\ pc'[t] = to /\ \A u \in Threads \ {t} : pc'[u] = pc[u]
        /\ \A u \in Threads \ {t} : t_p_frame'[u] = t_p_frame[u]
    BY OthersKept
  <1>7. t_p_frame'[t] = f
    BY DEF TypeOK
  <1>8. ContentsKnown'
    BY <1>5, <1>7, ContentsOfNewQueue
  <1>9. BuffersHeld'
    BY <1>2, <1>3, <1>6, <1>7 DEF BuffersHeld
  <1>10. f \notin Owned
    BY <1>2 DEF NoFrameShared
  <1>11. Owned' = Owned \cup {f} /\ OneHandPerFrame'
    BY <1>2, <1>10, OwnedTaken DEF NoFrameShared
  <1>12. NoFrameLost'
    BY <1>2, <1>11 DEF NoFrameLost, poolVars, InQueue
  <1>13. NoFrameShared'
    BY <1>2, <1>10, <1>11 DEF NoFrameShared
  <1>14. PutsCounted'
    BY <1>6 DEF PutsCounted, Threads
  <1>15. /\ t_p_frame' \in [Threads -> Frames \cup {NoFrame}]
         /\ pc' \in [Threads -> Labels]
    BY <1>2 DEF TypeOK
  <1> QED BY <1>2, <1>5, <1>6, <1>8, <1>9, <1>12, <1>13, <1>14, <1>15

\* The full queue is empty: t leaves with nothing.
LEMMA PopNothing ==
    ASSUME IInv, NEW t \in Threads, NEW to,
           pc[t] \in HoldsFull \ InPlace, pc[t] \notin InHand \cup HoldsFrame,
           to \in {"idle", "lock_free"}, t \in Producers => pc[t] # "idle",
           t_p_frame' = t_p_frame \/ t_p_frame' = [t_p_frame EXCEPT ![t] = NoFrame],
           pc' = [pc EXCEPT ![t] = to],
           UNCHANGED <<poolVars, queueVars, m_lock, frameVars, puts>>
    PROVE  /\ FrameMutexesHeld' /\ BuffersHeld' /\ NoFrameLost' /\ NoFrameShared'
           /\ ContentsKnown' /\ PutsCounted'
           /\ t_p_frame' \in [Threads -> Frames \cup {NoFrame}]
           /\ pc' \in [Threads -> Labels]
  <1> USE DEF IInv
  <1>1. /\ to \in Labels
        /\ to \notin InHand \cup InPlace \cup HoldsFrame \cup Fills \cup HasFilled \cup Draws
    BY DEF Labels, ProducerLabels, InHand, InPlace, HoldsFrame, Fills, HasFilled, Draws,
           WaitsForFrame
  <1>2. /\ FrameMutexesHeld'
        /\ pc'[t] = to /\ \A u \in Threads \ {t} : pc'[u] = pc[u]
        /\ \A u \in Threads \ {t} : t_p_frame'[u] = t_p_frame[u]
    BY <1>1, OthersKept
  <1>3. ContentsKnown'
    BY <1>1, LabelSets, ContentsOfQueueKept DEF queueVars
  <1>4. BuffersHeld'
    BY <1>1, <1>2 DEF BuffersHeld, queueVars
  <1>5. Owned' = Owned /\ OneHandPerFrame'
    BY <1>1, OwnedKept, OwnedNone DEF NoFrameShared
  <1>6. NoFrameLost' /\ NoFrameShared'
    BY <1>5, PlacesKept
  <1>7. PutsCounted'
    BY <1>2 DEF PutsCounted, Threads
  <1>8. /\ t_p_frame' \in [Threads -> Frames \cup {NoFrame}]
        /\ pc' \in [Threads -> Labels]
    BY <1>1 DEF TypeOK
  <1> QED BY <1>2, <1>3, <1>4, <1>6, <1>7, <1>8

LEMMA ImmediateFrontStep ==
    ASSUME IInv, NEW p \in Producers, ImmediateFront(p)
    PROVE  IInv'
  <1> USE DEF IInv
  <1>1. /\ pc[p] = "imm_front" /\ p \in Threads
        /\ UNCHANGED <<poolVars, m_queue_free, m_lock_free, m_lock, frameVars, puts, history>>
    BY DEF ImmediateFront, Threads
  <1>2. /\ "imm_front" \in HoldsFull /\ "imm_front" # "idle"
        /\ "imm_front" \notin InHand \cup InPlace \cup HoldsFrame \cup HoldsFree
        /\ "imm_lock_frame" \in InHand \cap Labels \cap HoldsFull
        /\ "imm_lock_frame" \notin HoldsFrame \cup InPlace \cup Fills \cup HasFilled
        /\ "imm_lock_frame" \notin HoldsFree
        /\ "lock_free" \notin HoldsFull \cup HoldsFree
    BY DEF HoldsFree, HoldsFull, HoldsFrame, InHand, InPlace, Fills, WaitsForFrame,
           HasFilled, Draws, Labels, ProducerLabels
  <1>3. CASE m_queue_full # <<>>
    <2>1. /\ t_p_frame' = [t_p_frame EXCEPT ![p] = Head(m_queue_full)]
          /\ m_queue_full' = Tail(m_queue_full)
          /\ pc' = [pc EXCEPT ![p] = "imm_lock_frame"]
          /\ m_lock_full' = m_lock_full
      BY <1>3 DEF ImmediateFront, Goto
    <2>2. FullMutexHeld' /\ FreeMutexHeld'
      BY <1>1, <1>2, <2>1, FullMutexStep, FreeMutexStep
    <2>3. /\ FrameMutexesHeld' /\ BuffersHeld' /\ NoFrameLost' /\ NoFrameShared'
          /\ ContentsKnown' /\ PutsCounted' /\ m_queue_full' \in Seq(Frames)
          /\ t_p_frame' \in [Threads -> Frames \cup {NoFrame}]
          /\ pc' \in [Threads -> Labels]
      BY <1>1, <1>2, <1>3, <2>1, PopFull
    <2>4. TypeOK'
      BY <1>1, <2>1, <2>3 DEF TypeOK, poolVars, frameVars, history
    <2> QED BY <2>2, <2>3, <2>4
  <1>4. CASE m_queue_full = <<>>
    <2>1. /\ t_p_frame' = t_p_frame /\ m_queue_full' = m_queue_full
          /\ pc' = [pc EXCEPT ![p] = "lock_free"]
          /\ m_lock_full' = NoThread
      BY <1>4 DEF ImmediateFront, Goto
    <2>2. FullMutexHeld' /\ FreeMutexHeld'
      BY <1>1, <1>2, <2>1, FullMutexStep, FreeMutexStep
    <2>3. /\ FrameMutexesHeld' /\ BuffersHeld' /\ NoFrameLost' /\ NoFrameShared'
          /\ ContentsKnown' /\ PutsCounted'
          /\ t_p_frame' \in [Threads -> Frames \cup {NoFrame}]
          /\ pc' \in [Threads -> Labels]
      BY <1>1, <1>2, <2>1, PopNothing DEF queueVars
    <2>4. TypeOK'
      BY <1>1, <2>1, <2>3 DEF TypeOK, poolVars, frameVars, history
    <2> QED BY <2>2, <2>3, <2>4
  <1> QED BY <1>3, <1>4

LEMMA MailboxPopStep ==
    ASSUME IInv, NEW p \in Producers, MailboxPop(p)
    PROVE  IInv'
  <1> USE DEF IInv
  <1>1. /\ pc[p] = "mb_pop" /\ p \in Threads /\ m_lock_full' = NoThread
        /\ UNCHANGED <<poolVars, m_queue_free, m_lock_free, m_lock, frameVars, puts, history>>
    BY DEF MailboxPop, Threads
  <1>2. /\ "mb_pop" \in HoldsFull /\ "mb_pop" # "idle"
        /\ "mb_pop" \notin InHand \cup InPlace \cup HoldsFrame \cup HoldsFree
        /\ "mb_lock_frame" \in InHand \cap Labels
        /\ "mb_lock_frame" \notin HoldsFrame \cup InPlace \cup Fills \cup HasFilled
        /\ "mb_lock_frame" \notin HoldsFull \cup HoldsFree
        /\ "idle" \notin HoldsFull \cup HoldsFree
    BY DEF HoldsFree, HoldsFull, HoldsFrame, InHand, InPlace, Fills, WaitsForFrame,
           HasFilled, Draws, Labels, ProducerLabels
  <1>3. CASE m_queue_full # <<>>
    <2>1. /\ t_p_frame' = [t_p_frame EXCEPT ![p] = Head(m_queue_full)]
          /\ m_queue_full' = Tail(m_queue_full)
          /\ pc' = [pc EXCEPT ![p] = "mb_lock_frame"]
      BY <1>3 DEF MailboxPop, Goto
    <2>2. FullMutexHeld' /\ FreeMutexHeld'
      BY <1>1, <1>2, <2>1, FullMutexStep, FreeMutexStep
    <2>3. /\ FrameMutexesHeld' /\ BuffersHeld' /\ NoFrameLost' /\ NoFrameShared'
          /\ ContentsKnown' /\ PutsCounted' /\ m_queue_full' \in Seq(Frames)
          /\ t_p_frame' \in [Threads -> Frames \cup {NoFrame}]
          /\ pc' \in [Threads -> Labels]
      BY <1>1, <1>2, <1>3, <2>1, PopFull
    <2>4. TypeOK'
      BY <1>1, <2>3 DEF TypeOK, poolVars, frameVars, history
    <2> QED BY <2>2, <2>3, <2>4
  <1>4. CASE m_queue_full = <<>>
    <2>1. /\ t_p_frame' = [t_p_frame EXCEPT ![p] = NoFrame]
          /\ m_queue_full' = m_queue_full
          /\ pc' = [pc EXCEPT ![p] = "idle"]
      BY <1>4 DEF MailboxPop, Return, Goto
    <2>2. FullMutexHeld' /\ FreeMutexHeld'
      BY <1>1, <1>2, <2>1, FullMutexStep, FreeMutexStep
    <2>3. /\ FrameMutexesHeld' /\ BuffersHeld' /\ NoFrameLost' /\ NoFrameShared'
          /\ ContentsKnown' /\ PutsCounted'
          /\ t_p_frame' \in [Threads -> Frames \cup {NoFrame}]
          /\ pc' \in [Threads -> Labels]
      BY <1>1, <1>2, <2>1, PopNothing DEF queueVars
    <2>4. TypeOK'
      BY <1>1, <2>1, <2>3 DEF TypeOK, poolVars, frameVars, history
    <2> QED BY <2>2, <2>3, <2>4
  <1> QED BY <1>3, <1>4

LEMMA GetFrameBufferStep ==
    ASSUME IInv, NEW r \in Renderers, GetFrameBuffer(r)
    PROVE  IInv'
  <1> USE DEF IInv
  <1>1. /\ pc[r] = "get" /\ r \in Threads /\ r \notin Producers /\ m_lock_full' = NoThread
        /\ UNCHANGED <<poolVars, m_queue_free, m_lock_free, m_lock, frameVars, puts,
                       published, newest>>
    BY FramePoolAssumption DEF GetFrameBuffer, Threads
  <1>2. /\ "get" \in HoldsFull
        /\ "get" \notin InHand \cup InPlace \cup HoldsFrame \cup HoldsFree
        /\ "get_lock_frame" \in InHand \cap Labels
        /\ "get_lock_frame" \notin HoldsFrame \cup InPlace \cup Fills \cup HasFilled
        /\ "get_lock_frame" \notin HoldsFull \cup HoldsFree
        /\ "idle" \notin HoldsFull \cup HoldsFree
    BY DEF HoldsFree, HoldsFull, HoldsFrame, InHand, InPlace, Fills, WaitsForFrame,
           HasFilled, Draws, Labels, RendererLabels
  <1>3. CASE m_queue_full # <<>>
    <2>1. PICK v : v = m_p_data[Head(m_queue_full)] OBVIOUS
    <2>2. /\ t_p_frame' = [t_p_frame EXCEPT ![r] = Head(m_queue_full)]
          /\ m_queue_full' = Tail(m_queue_full)
          /\ pc' = [pc EXCEPT ![r] = "get_lock_frame"]
          /\ delivered' = [delivered EXCEPT ![v[1]] = v[2]]
      BY <1>3, <2>1 DEF GetFrameBuffer, Goto
    <2>3. FullMutexHeld' /\ FreeMutexHeld'
      BY <1>1, <1>2, <2>2, FullMutexStep, FreeMutexStep
    <2>4. /\ FrameMutexesHeld' /\ BuffersHeld' /\ NoFrameLost' /\ NoFrameShared'
          /\ ContentsKnown' /\ PutsCounted' /\ m_queue_full' \in Seq(Frames)
          /\ t_p_frame' \in [Threads -> Frames \cup {NoFrame}]
          /\ pc' \in [Threads -> Labels]
          /\ Whole(Head(m_queue_full))
      BY <1>1, <1>2, <1>3, <2>2, PopFull
    <2>5. delivered' \in [Producers -> 0 .. MaxPuts]
      <3>1. v \in Producers \X (1 .. MaxPuts)
        BY <2>1, <2>4 DEF Whole, Values
      <3> QED BY <2>2, <3>1, FramePoolAssumption DEF TypeOK
    <2>6. TypeOK'
      BY <1>1, <2>4, <2>5 DEF TypeOK, poolVars, frameVars
    <2> QED BY <2>3, <2>4, <2>6
  <1>4. CASE m_queue_full = <<>>
    <2>1. /\ t_p_frame' = [t_p_frame EXCEPT ![r] = NoFrame]
          /\ m_queue_full' = m_queue_full /\ delivered' = delivered
          /\ pc' = [pc EXCEPT ![r] = "idle"]
      BY <1>4 DEF GetFrameBuffer, Return, Goto
    <2>2. FullMutexHeld' /\ FreeMutexHeld'
      BY <1>1, <1>2, <2>1, FullMutexStep, FreeMutexStep
    <2>3. /\ FrameMutexesHeld' /\ BuffersHeld' /\ NoFrameLost' /\ NoFrameShared'
          /\ ContentsKnown' /\ PutsCounted'
          /\ t_p_frame' \in [Threads -> Frames \cup {NoFrame}]
          /\ pc' \in [Threads -> Labels]
      BY <1>1, <1>2, <2>1, PopNothing DEF queueVars
    <2>4. TypeOK'
      BY <1>1, <2>1, <2>3 DEF TypeOK, poolVars, frameVars
    <2> QED BY <2>2, <2>3, <2>4
  <1> QED BY <1>3, <1>4

LEMMA PushStep ==
    ASSUME IInv, NEW p \in Producers, NEW from, from \in {"push", "mb_push"}, Push(p, from)
    PROVE  IInv'
  <1> PICK f : f = t_p_frame[p] OBVIOUS
  <1> USE DEF IInv
  <1>1. /\ pc[p] = from /\ p \in Threads /\ m_lock_full' = NoThread /\ Publish(p)
        /\ pc' = [pc EXCEPT ![p] = "idle"]
        /\ t_p_frame' = [t_p_frame EXCEPT ![p] = NoFrame]
        /\ m_queue_full' = Append(m_queue_full, f)
        /\ UNCHANGED <<poolVars, m_queue_free, m_lock_free, m_lock, frameVars, puts>>
    BY DEF Push, Return, Goto, Threads
  <1>2. /\ from \in HoldsFull \ InPlace /\ from \in InHand /\ from \in HasFilled
        /\ from \notin HoldsFree \cup HoldsFrame /\ from # "idle"
    BY DEF HoldsFull, InPlace, InHand, HasFilled, HoldsFree, HoldsFrame, Fills
  <1>3. "idle" \notin HoldsFull \cup HoldsFree \cup Fills \cup HasFilled \cup Draws \cup
          HoldsFrame \cup InHand \cup InPlace
    BY LabelSets
  <1>4. FullMutexHeld' /\ FreeMutexHeld'
    BY <1>1, <1>2, <1>3, FullMutexStep, FreeMutexStep
  <1>5. /\ FrameMutexesHeld'
        /\ pc'[p] = "idle" /\ \A u \in Threads \ {p} : pc'[u] = pc[u]
        /\ \A u \in Threads \ {p} : t_p_frame'[u] = t_p_frame[u]
    BY <1>1, <1>2, <1>3, OthersKept
  <1>6. /\ f \in Frames /\ f \in Owned /\ Whole(f)
        /\ f \notin InQueue(m_queue_full) /\ f \notin InQueue(m_queue_free)
    BY <1>1, <1>2, FrameTaken DEF ContentsKnown
  <1>7. /\ m_queue_full' \in Seq(Frames)
        /\ InQueue(m_queue_full') = InQueue(m_queue_full) \cup {f}
        /\ Distinct(m_queue_full')
    BY <1>1, <1>6, AppendQueue DEF TypeOK, NoFrameShared
  <1>8. /\ \A u \in Threads : pc[u] \notin InPlace
        /\ \A i \in 1 .. Len(m_queue_full) : Whole(m_queue_full[i])
    BY <1>1, <1>2, FullQueueWhole
  <1>9. \A g \in InQueue(m_queue_full') : Whole(g)
    BY <1>6, <1>7, <1>8 DEF InQueue
  <1>10. \A i \in 1 .. Len(m_queue_full') : Whole(m_queue_full'[i])
    BY <1>9 DEF InQueue
  <1>11. ContentsKnown'
    BY <1>1, <1>2, <1>3, <1>10, ContentsOfNewQueue
  <1>12. BuffersHeld'
    BY <1>1, <1>3, <1>5, <1>8 DEF BuffersHeld
  <1>13. Owned' = Owned \ {f} /\ OneHandPerFrame'
    BY <1>1, <1>2, <1>3, OwnedGiven DEF NoFrameShared
  <1>14. NoFrameLost'
    BY <1>1, <1>6, <1>7, <1>13 DEF NoFrameLost, poolVars, InQueue
  <1>15. NoFrameShared'
    BY <1>1, <1>6, <1>7, <1>13 DEF NoFrameShared
  <1>16. PutsCounted'
    BY <1>1, <1>5 DEF PutsCounted, Threads
  <1>17. puts[p] \in 1 .. MaxPuts /\ Value(p) \in Values
    BY <1>1, <1>2 DEF PutsCounted, Value, Values
  <1>18. TypeOK'
    <2>1. published' \in [Producers -> 0 .. MaxPuts] /\ newest' \in Values \cup {NoValue}
          /\ delivered' = delivered
      BY <1>1, <1>17, FramePoolAssumption DEF TypeOK, Publish
    <2> QED BY <1>1, <1>7, <2>1 DEF TypeOK, poolVars, frameVars, Labels
  <1> QED BY <1>4, <1>5, <1>11, <1>12, <1>14, <1>15, <1>16, <1>18

LEMMA ImmediateDrainStep ==
    ASSUME IInv, NEW p \in Producers, ImmediateDrain(p)
    PROVE  IInv'
  <1> PICK f : f = t_p_frame[p] OBVIOUS
  <1> USE DEF IInv
  <1>1. /\ pc[p] = "imm_drain" /\ p \in Threads
        /\ m_lock_full' = NoThread /\ m_lock_free' = NoThread /\ Publish(p)
        /\ pc' = [pc EXCEPT ![p] = "idle"]
        /\ t_p_frame' = [t_p_frame EXCEPT ![p] = NoFrame]
        /\ m_queue_free' = m_queue_free \o m_queue_full
        /\ m_queue_full' = <<f>>
        /\ UNCHANGED <<poolVars, m_lock, frameVars, puts>>
    BY DEF ImmediateDrain, Return, Goto, Threads
  <1>2. /\ "imm_drain" \in HoldsFull \ InPlace /\ "imm_drain" \in InHand \cap HasFilled
        /\ "imm_drain" \in HoldsFree
        /\ "imm_drain" \notin HoldsFrame
    BY DEF HoldsFull, InPlace, InHand, HasFilled, HoldsFree, HoldsFrame, Fills
  <1>3. "idle" \notin HoldsFull \cup HoldsFree \cup Fills \cup HasFilled \cup Draws \cup
          HoldsFrame \cup InHand \cup InPlace
    BY LabelSets
  <1>4. FullMutexHeld' /\ FreeMutexHeld'
    BY <1>1, <1>2, <1>3, FullMutexStep, FreeMutexStep
  <1>5. /\ FrameMutexesHeld'
        /\ pc'[p] = "idle" /\ \A u \in Threads \ {p} : pc'[u] = pc[u]
        /\ \A u \in Threads \ {p} : t_p_frame'[u] = t_p_frame[u]
    BY <1>1, <1>2, <1>3, OthersKept
  <1>6. /\ f \in Frames /\ f \in Owned /\ Whole(f)
        /\ f \notin InQueue(m_queue_full) /\ f \notin InQueue(m_queue_free)
    BY <1>1, <1>2, FrameTaken DEF ContentsKnown
  <1>7. /\ m_queue_full' \in Seq(Frames)
        /\ InQueue(m_queue_full') = {f} /\ Distinct(m_queue_full')
        /\ \A i \in 1 .. Len(m_queue_full') : Whole(m_queue_full'[i])
    BY <1>1, <1>6, SmallQueues
  <1>8. /\ m_queue_free' \in Seq(Frames)
        /\ InQueue(m_queue_free') = InQueue(m_queue_free) \cup InQueue(m_queue_full)
        /\ Distinct(m_queue_free')
    BY <1>1, DrainQueue DEF TypeOK, NoFrameShared
  <1>9. \A u \in Threads : pc[u] \notin InPlace
    BY <1>1, <1>2, FullQueueWhole
  <1>10. ContentsKnown'
    BY <1>1, <1>2, <1>3, <1>7, ContentsOfNewQueue
  <1>11. BuffersHeld'
    BY <1>1, <1>3, <1>5, <1>9 DEF BuffersHeld
  <1>12. Owned' = Owned \ {f} /\ OneHandPerFrame'
    BY <1>1, <1>2, <1>3, OwnedGiven DEF NoFrameShared
  <1>13. NoFrameLost'
    BY <1>1, <1>6, <1>7, <1>8, <1>12 DEF NoFrameLost, poolVars, InQueue
  <1>14. NoFrameShared'
    BY <1>1, <1>6, <1>7, <1>8, <1>12 DEF NoFrameShared
  <1>15. PutsCounted'
    BY <1>1, <1>5 DEF PutsCounted, Threads
  <1>16. puts[p] \in 1 .. MaxPuts /\ Value(p) \in Values
    BY <1>1, <1>2 DEF PutsCounted, Value, Values
  <1>17. TypeOK'
    <2>1. published' \in [Producers -> 0 .. MaxPuts] /\ newest' \in Values \cup {NoValue}
          /\ delivered' = delivered
      BY <1>1, <1>16, FramePoolAssumption DEF TypeOK, Publish
    <2> QED BY <1>1, <1>7, <1>8, <2>1 DEF TypeOK, poolVars, frameVars, Labels
  <1> QED BY <1>4, <1>5, <1>10, <1>11, <1>13, <1>14, <1>15, <1>17

LEMMA EmptyQueue ==
    ASSUME NEW S
    PROVE  /\ <<>> \in Seq(S) /\ Len(<<>>) = 0 /\ 1 .. Len(<<>>) = {}
           /\ InQueue(<<>>) = {} /\ Distinct(<<>>)
  BY DEF InQueue, Distinct

LEMMA MailboxDrainStep ==
    ASSUME IInv, NEW p \in Producers, MailboxDrain(p)
    PROVE  IInv'
  <1> PICK f : f = t_p_frame[p] OBVIOUS
  <1> USE DEF IInv
  <1>1. /\ pc[p] = "mb_drain" /\ p \in Threads
        /\ m_lock_full' = NoThread /\ m_lock_free' = NoThread
        /\ pc' = [pc EXCEPT ![p] = "mb_lock_push"]
        /\ m_queue_free' = m_queue_free \o m_queue_full
        /\ m_queue_full' = <<>>
        /\ UNCHANGED <<poolVars, m_lock, frameVars, t_p_frame, puts, history>>
    BY DEF MailboxDrain, Goto, Threads
  <1>2. /\ "mb_drain" \in HoldsFull \ InPlace /\ "mb_drain" \in InHand \cap HasFilled
        /\ "mb_drain" \in HoldsFree /\ "mb_drain" # "idle"
        /\ "mb_drain" \notin HoldsFrame
        /\ "mb_lock_push" \in InHand \cap HasFilled \cap Labels
        /\ "mb_lock_push" \notin HoldsFull \cup HoldsFree \cup HoldsFrame \cup InPlace \cup Fills
    BY DEF HoldsFull, InPlace, InHand, HasFilled, HoldsFree, HoldsFrame, Fills, Labels,
           ProducerLabels
  <1>3. FullMutexHeld' /\ FreeMutexHeld'
    BY <1>1, <1>2, FullMutexStep, FreeMutexStep
  <1>4. /\ FrameMutexesHeld'
        /\ pc'[p] = "mb_lock_push" /\ \A u \in Threads \ {p} : pc'[u] = pc[u]
    BY <1>1, <1>2, OthersKept
  <1>5. f \in Frames /\ Whole(f)
    BY <1>1, <1>2, FrameTaken DEF ContentsKnown
  <1>6. /\ m_queue_full' \in Seq(Frames)
        /\ InQueue(m_queue_full') = {} /\ Distinct(m_queue_full')
        /\ \A i \in 1 .. Len(m_queue_full') : Whole(m_queue_full'[i])
    BY <1>1, EmptyQueue
  <1>7. /\ m_queue_free' \in Seq(Frames)
        /\ InQueue(m_queue_free') = InQueue(m_queue_free) \cup InQueue(m_queue_full)
        /\ Distinct(m_queue_free')
    BY <1>1, DrainQueue DEF TypeOK, NoFrameShared
  <1>8. \A u \in Threads : pc[u] \notin InPlace
    BY <1>1, <1>2, FullQueueWhole
  <1>9. ContentsKnown'
    BY <1>1, <1>2, <1>5, <1>6, ContentsOfNewQueue
  <1>10. BuffersHeld'
    BY <1>1, <1>2, <1>4, <1>8 DEF BuffersHeld
  <1>11. Owned' = Owned /\ OneHandPerFrame'
    BY <1>1, <1>2, OwnedKept DEF NoFrameShared
  <1>12. NoFrameLost'
    BY <1>1, <1>6, <1>7, <1>11 DEF NoFrameLost, poolVars, InQueue
  <1>13. NoFrameShared'
    BY <1>1, <1>6, <1>7, <1>11 DEF NoFrameShared
  <1>14. PutsCounted'
    BY <1>1, <1>2, <1>4 DEF PutsCounted, Threads
  <1>15. TypeOK'
    BY <1>1, <1>2, <1>6, <1>7 DEF TypeOK, poolVars, frameVars, history
  <1> QED BY <1>3, <1>4, <1>9, <1>10, <1>12, <1>13, <1>14, <1>15

LEMMA RelaxedBackStep ==
    ASSUME IInv, NEW p \in Producers, RelaxedBack(p)
    PROVE  IInv'
  <1> USE DEF IInv
  <1>1. /\ pc[p] = "rx_back" /\ p \in Threads
        /\ UNCHANGED <<poolVars, queueVars, m_lock_free, m_lock, frameVars, puts, history>>
    BY DEF RelaxedBack, Threads
  <1>2. /\ "rx_back" \in HoldsFull \ InPlace /\ "rx_back" # "idle"
        /\ "rx_back" \notin InHand \cup HoldsFrame \cup HoldsFree
        /\ "rx_lock_frame" \in InPlace \cap Labels \cap HoldsFull
        /\ "rx_lock_frame" \notin HoldsFrame \cup InHand \cup Fills \cup HasFilled \cup Draws
        /\ "rx_lock_frame" \notin HoldsFree
        /\ "idle" \notin HoldsFull \cup HoldsFree
    BY DEF HoldsFree, HoldsFull, HoldsFrame, InHand, InPlace, Fills, WaitsForFrame,
           HasFilled, Draws, Labels, ProducerLabels
  <1>3. CASE m_queue_full # <<>>
    <2>1. PICK f : f = Last(m_queue_full) OBVIOUS
    <2>2. /\ t_p_frame' = [t_p_frame EXCEPT ![p] = f]
          /\ pc' = [pc EXCEPT ![p] = "rx_lock_frame"]
          /\ m_lock_full' = m_lock_full
      BY <1>3, <2>1 DEF RelaxedBack, Goto
    <2>3. f \in Frames
      BY <1>3, <2>1, LastInQueue DEF TypeOK
    <2>4. FullMutexHeld' /\ FreeMutexHeld'
      BY <1>1, <1>2, <2>2, FullMutexStep, FreeMutexStep
    <2>5. /\ FrameMutexesHeld'
          /\ pc'[p] = "rx_lock_frame" /\ \A u \in Threads \ {p} : pc'[u] = pc[u]
          /\ \A u \in Threads \ {p} : t_p_frame'[u] = t_p_frame[u]
      BY <1>1, <1>2, <2>2, OthersKept
    <2>6. t_p_frame'[p] = f
      BY <1>1, <2>2 DEF TypeOK
    <2>7. ContentsKnown'
      BY <1>1, <1>2, <2>2, ContentsOfQueueKept DEF queueVars
    <2>8. BuffersHeld'
      BY <1>1, <1>2, <1>3, <2>1, <2>3, <2>5, <2>6 DEF BuffersHeld, queueVars, Last
    <2>9. Owned' = Owned /\ OneHandPerFrame'
      BY <1>1, <1>2, <2>2, OwnedNone DEF NoFrameShared
    <2>10. NoFrameLost' /\ NoFrameShared'
      BY <1>1, <2>9, PlacesKept
    <2>11. PutsCounted'
      BY <1>1, <1>2, <2>5 DEF PutsCounted, Threads
    <2>12. TypeOK'
      BY <1>1, <1>2, <2>2, <2>3 DEF TypeOK, poolVars, queueVars, frameVars, history
    <2> QED BY <2>4, <2>5, <2>7, <2>8, <2>10, <2>11, <2>12
  <1>4. CASE m_queue_full = <<>>
    <2>1. /\ t_p_frame' = [t_p_frame EXCEPT ![p] = NoFrame]
          /\ pc' = [pc EXCEPT ![p] = "idle"]
          /\ m_lock_full' = NoThread
      BY <1>4 DEF RelaxedBack, Return, Goto
    <2>2. FullMutexHeld' /\ FreeMutexHeld'
      BY <1>1, <1>2, <2>1, FullMutexStep, FreeMutexStep
    <2>3. /\ FrameMutexesHeld' /\ BuffersHeld' /\ NoFrameLost' /\ NoFrameShared'
          /\ ContentsKnown' /\ PutsCounted'
          /\ t_p_frame' \in [Threads -> Frames \cup {NoFrame}]
          /\ pc' \in [Threads -> Labels]
      BY <1>1, <1>2, <2>1, PopNothing
    <2>4. TypeOK'
      BY <1>1, <2>1, <2>3 DEF TypeOK, poolVars, queueVars, frameVars, history
    <2> QED BY <2>2, <2>3, <2>4
  <1> QED BY <1>3, <1>4

(***************************************************************************)
(* The start of a call.                                                    *)
(***************************************************************************)
LEMMA MWPutFrameBufferQueueStep ==
    ASSUME IInv, NEW p \in Producers, MWPutFrameBufferQueue(p)
    PROVE  IInv'
  <1> USE DEF IInv
  <1>1. PICK to \in {"imm_lock_full", "lock_free"} : pc' = [pc EXCEPT ![p] = to]
    BY DEF MWPutFrameBufferQueue, Goto
  <1>2. /\ pc[p] = "idle" /\ puts[p] < MaxPuts /\ puts' = [puts EXCEPT ![p] = @ + 1]
        /\ UNCHANGED <<poolVars, queueVars, m_lock_free, m_lock_full, m_lock, frameVars,
                       t_p_frame, history>>
        /\ p \in Threads
    BY DEF MWPutFrameBufferQueue, Threads
  <1>3. /\ SameHold("idle", to) /\ to \notin HoldsFull \cup HoldsFree
        /\ "idle" \notin HoldsFull \cup HoldsFree
    BY DEF SameHold, Labels, ProducerLabels, InHand, InPlace, HoldsFrame, HasFilled, Draws,
           Fills, WaitsForFrame, HoldsFull, HoldsFree
  <1>4. /\ puts'[p] \in 1 .. MaxPuts /\ puts' \in [Producers -> 0 .. MaxPuts]
        /\ \A u \in Producers : pc[u] # "idle" => puts'[u] = puts[u]
    BY <1>2, FramePoolAssumption DEF TypeOK
  <1>5. FullMutexHeld' /\ FreeMutexHeld'
    BY <1>1, <1>2, <1>3, FullMutexStep, FreeMutexStep
  <1>6. /\ pc' \in [Threads -> Labels]
        /\ FrameMutexesHeld' /\ BuffersHeld' /\ NoFrameLost' /\ NoFrameShared'
        /\ ContentsKnown' /\ PutsCounted'
    BY <1>1, <1>2, <1>3, <1>4, MoveStep
  <1>7. TypeOK'
    BY <1>2, <1>4, <1>6 DEF TypeOK, poolVars, queueVars, frameVars, history
  <1> QED BY <1>5, <1>6, <1>7

LEMMA MWRenderFrameStep ==
    ASSUME IInv, NEW r \in Renderers, MWRenderFrame(r)
    PROVE  IInv'
  <1> USE DEF IInv
  <1>1. /\ pc[r] = "idle" /\ pc' = [pc EXCEPT ![r] = "get_lock_full"]
        /\ UNCHANGED <<poolVars, queueVars, m_lock_free, m_lock_full, m_lock, frameVars,
                       t_p_frame, puts, history>>
        /\ r \in Threads /\ r \notin Producers
    BY FramePoolAssumption DEF MWRenderFrame, Goto, Threads
  <1>2. /\ SameHold("idle", "get_lock_full")
        /\ {"idle", "get_lock_full"} \cap (HoldsFull \cup HoldsFree) = {}
    BY DEF SameHold, Labels, RendererLabels, InHand, InPlace, HoldsFrame, HasFilled, Draws,
           Fills, WaitsForFrame, HoldsFull, HoldsFree
  <1>3. FullMutexHeld' /\ FreeMutexHeld'
    BY <1>1, <1>2, FullMutexStep, FreeMutexStep
  <1>4. /\ pc' \in [Threads -> Labels]
        /\ FrameMutexesHeld' /\ BuffersHeld' /\ NoFrameLost' /\ NoFrameShared'
        /\ ContentsKnown' /\ PutsCounted'
    BY <1>1, <1>2, MoveStep
  <1>5. TypeOK'
    BY <1>1, <1>4 DEF TypeOK, poolVars, queueVars, frameVars, history
  <1> QED BY <1>3, <1>4, <1>5

(***************************************************************************)
(* A pool created or destroyed while no call is in progress: every mutex   *)
(* is free, no buffer is in hand, and the new buffers are all free.        *)
(***************************************************************************)
LEMMA NewPoolStep ==
    ASSUME IInv, ClientQuiet, NEW n \in 0 .. MaxFrames, NEW mode \in Modes,
           NewPool(n, mode), pc_framebuffer' \in BOOLEAN
    PROVE  IInv'
  <1> USE DEF IInv
  <1>1. /\ m_map_mode' = mode /\ m_n_frame_count' = n
        /\ m_queue_free' = [i \in 1 .. n |-> i] /\ m_queue_full' = <<>>
        /\ m_state' = [f \in Frames |-> "FREE"]
        /\ m_extent' = [f \in Frames |-> NoValue]
        /\ m_p_data' = [f \in Frames |-> NoValue]
        /\ newest' = NoValue
        /\ UNCHANGED <<m_lock_free, m_lock_full, m_lock, pc, t_p_frame, puts,
                       published, delivered>>
    BY DEF NewPool
  <1>2. n \in Nat /\ 1 .. n \subseteq Frames
    BY FramePoolAssumption DEF Frames
  <1>3. /\ m_queue_free' \in Seq(Frames) /\ Len(m_queue_free') = n
        /\ \A i \in 1 .. n : m_queue_free'[i] = i
    BY <1>1, <1>2
  <1>4. InQueue(m_queue_free') = 1 .. n /\ Distinct(m_queue_free')
    BY <1>3 DEF InQueue, Distinct
  <1>5. /\ m_queue_full' \in Seq(Frames) /\ Len(m_queue_full') = 0
        /\ 1 .. Len(m_queue_full') = {}
        /\ InQueue(m_queue_full') = {} /\ Distinct(m_queue_full')
    BY <1>1, EmptyQueue
  <1>6. \A t \in Threads : pc'[t] = "idle"
    BY <1>1 DEF ClientQuiet
  <1>7. Owned' = {} /\ OneHandPerFrame'
    BY <1>6, LabelSets DEF Owned, OneHandPerFrame
  <1>8. NoFrameLost' /\ NoFrameShared'
    BY <1>1, <1>4, <1>5, <1>7 DEF NoFrameLost, NoFrameShared, InQueue
  <1>9. FullMutexHeld' /\ FreeMutexHeld' /\ FrameMutexesHeld'
    BY <1>1 DEF FullMutexHeld, FreeMutexHeld, FrameMutexesHeld
  <1>10. BuffersHeld' /\ ContentsKnown' /\ PutsCounted'
    <2>1. \A t \in Threads : pc'[t] \notin InHand \cup InPlace \cup HasFilled \cup Draws \cup Fills
      BY <1>6, LabelSets
    <2>2. \A p \in Producers : pc'[p] = "idle" /\ pc'[p] \notin Fills
      BY <1>6, <2>1 DEF Threads
    <2> QED BY <1>5, <2>1, <2>2 DEF BuffersHeld, ContentsKnown, PutsCounted
  <1>11. TypeOK'
    BY <1>1, <1>3, <1>5 DEF TypeOK
  <1> QED BY <1>8, <1>9, <1>10, <1>11

LEMMA PoolLifeStep ==
    ASSUME IInv, MWCreateFrameBuffer \/ MWDestoryFrameBuffer
    PROVE  IInv'
  <1>1. FrameCounts \subseteq 0 .. MaxFrames /\ QueueModes \subseteq Modes
        /\ 0 \in 0 .. MaxFrames
    BY FramePoolAssumption
  <1>2. m_map_mode \in Modes
    BY DEF IInv, TypeOK
  <1>3. CASE MWCreateFrameBuffer
    BY <1>1, <1>2, <1>3, NewPoolStep DEF MWCreateFrameBuffer
  <1>4. CASE MWDestoryFrameBuffer
    BY <1>1, <1>2, <1>4, NewPoolStep DEF MWDestoryFrameBuffer
  <1> QED BY <1>3, <1>4

(***************************************************************************)
(* The invariant.                                                          *)
(***************************************************************************)
LEMMA InitIInv ==
    Init => IInv
  <1> SUFFICES ASSUME Init PROVE IInv
    OBVIOUS
  <1>1. /\ m_queue_free \in Seq(Frames) /\ m_queue_full \in Seq(Frames)
        /\ 1 .. Len(m_queue_free) = {} /\ 1 .. Len(m_queue_full) = {}
        /\ InQueue(m_queue_free) = {} /\ InQueue(m_queue_full) = {}
        /\ Distinct(m_queue_free) /\ Distinct(m_queue_full)
    BY EmptyQueue DEF Init
  <1>2. \A t \in Threads : pc[t] = "idle"
    BY DEF Init
  <1>3. \A t \in Threads :
          pc[t] \notin HoldsFull \cup HoldsFree \cup HoldsFrame \cup InHand \cup InPlace
                       \cup HasFilled \cup Draws \cup Fills
    BY <1>2, LabelSets
  <1>4. NoFrameLost /\ NoFrameShared
    <2>1. Owned = {} /\ OneHandPerFrame
      BY <1>3 DEF Owned, OneHandPerFrame
    <2>2. m_n_frame_count = 0
      BY DEF Init
    <2> QED BY <1>1, <2>1, <2>2 DEF NoFrameLost, NoFrameShared
  <1>5. FullMutexHeld /\ FreeMutexHeld /\ FrameMutexesHeld
    <2>1. \A t \in Threads : m_lock_full # t /\ m_lock_free # t
      BY FramePoolAssumption DEF Init
    <2>2. \A t \in Threads, f \in Frames : m_lock[f] # t
      BY FramePoolAssumption DEF Init
    <2> QED BY <1>3, <2>1, <2>2 DEF FullMutexHeld, FreeMutexHeld, FrameMutexesHeld
  <1>6. BuffersHeld /\ ContentsKnown /\ PutsCounted
    BY <1>1, <1>2, <1>3 DEF BuffersHeld, ContentsKnown, PutsCounted, Threads
  <1>7. TypeOK
    <2>1. m_map_mode \in Modes /\ 0 \in 0 .. MaxFrames /\ 0 \in 0 .. MaxPuts /\ "idle" \in Labels
      BY FramePoolAssumption DEF Init, Labels
    <2> QED BY <1>1, <2>1 DEF Init, TypeOK
  <1> QED BY <1>4, <1>5, <1>6, <1>7 DEF IInv

\* Each step of a put keeps the invariant.
LEMMA PutIntoFreeStep ==
    ASSUME IInv, NEW p \in Producers, PutIntoFree(p)
    PROVE  IInv'
  <1> p \in Threads BY DEF Threads
  <1> USE DEF SameHold, Labels, ProducerLabels, InHand, InPlace, HoldsFrame, HasFilled, Draws,
              Fills, WaitsForFrame, HoldsFull, HoldsFree
  <1>1. CASE LockFree(p, "lock_free", "take_free")
    BY <1>1, LockFreeStep
  <1>2. CASE TakeFree(p)
    BY <1>2, TakeFreeStep
  <1>3. CASE StartFill(p, "lock_frame", "fill")
    <2>1. /\ "lock_frame" \in WaitsForFrame /\ "fill" \in Fills \cap InHand \cap Labels
          /\ "lock_frame" \in HoldsFull <=> "fill" \in HoldsFull
      OBVIOUS
    <2> HIDE DEF Labels, InHand, Fills, WaitsForFrame, HoldsFull
    <2> QED BY <1>3, <2>1, StartFillStep
  <1>4. CASE EndFill(p, "fill", "lock_full")
    BY <1>4, EndFillStep
  <1>5. CASE LockFull(p, "lock_full", "push")
    BY <1>5, LockFullStep
  <1>6. CASE Push(p, "push")
    BY <1>6, PushStep
  <1> QED BY <1>1, <1>2, <1>3, <1>4, <1>5, <1>6 DEF PutIntoFree

LEMMA PutImmediateStep ==
    ASSUME IInv, NEW p \in Producers, PutImmediate(p)
    PROVE  IInv'
  <1> p \in Threads BY DEF Threads
  <1> USE DEF SameHold, Labels, ProducerLabels, InHand, InPlace, HoldsFrame, HasFilled, Draws,
              Fills, WaitsForFrame, HoldsFull, HoldsFree
  <1>1. CASE LockFull(p, "imm_lock_full", "imm_front")
    BY <1>1, LockFullStep
  <1>2. CASE ImmediateFront(p)
    BY <1>2, ImmediateFrontStep
  <1>3. CASE StartFill(p, "imm_lock_frame", "imm_fill")
    <2>1. /\ "imm_lock_frame" \in WaitsForFrame /\ "imm_fill" \in Fills \cap InHand \cap Labels
          /\ "imm_lock_frame" \in HoldsFull <=> "imm_fill" \in HoldsFull
      OBVIOUS
    <2> HIDE DEF Labels, InHand, Fills, WaitsForFrame, HoldsFull
    <2> QED BY <1>3, <2>1, StartFillStep
  <1>4. CASE EndFill(p, "imm_fill", "imm_lock_free")
    BY <1>4, EndFillStep
  <1>5. CASE LockFree(p, "imm_lock_free", "imm_drain")
    BY <1>5, LockFreeStep
  <1>6. CASE ImmediateDrain(p)
    BY <1>6, ImmediateDrainStep
  <1> QED BY <1>1, <1>2, <1>3, <1>4, <1>5, <1>6 DEF PutImmediate

LEMMA PutMailboxStep ==
    ASSUME IInv, NEW p \in Producers, PutMailbox(p)
    PROVE  IInv'
  <1> p \in Threads BY DEF Threads
  <1> USE DEF SameHold, Labels, ProducerLabels, InHand, InPlace, HoldsFrame, HasFilled, Draws,
              Fills, WaitsForFrame, HoldsFull, HoldsFree
  <1>1. CASE LockFull(p, "mb_lock_full", "mb_pop")
    BY <1>1, LockFullStep
  <1>2. CASE MailboxPop(p)
    BY <1>2, MailboxPopStep
  <1>3. CASE StartFill(p, "mb_lock_frame", "mb_fill")
    <2>1. /\ "mb_lock_frame" \in WaitsForFrame /\ "mb_fill" \in Fills \cap InHand \cap Labels
          /\ "mb_lock_frame" \in HoldsFull <=> "mb_fill" \in HoldsFull
      OBVIOUS
    <2> HIDE DEF Labels, InHand, Fills, WaitsForFrame, HoldsFull
    <2> QED BY <1>3, <2>1, StartFillStep
  <1>4. CASE EndFill(p, "mb_fill", "mb_drain_full")
    BY <1>4, EndFillStep
  <1>5. CASE LockFull(p, "mb_drain_full", "mb_drain_free")
    BY <1>5, LockFullStep
  <1>6. CASE LockFree(p, "mb_drain_free", "mb_drain")
    BY <1>6, LockFreeStep
  <1>7. CASE MailboxDrain(p)
    BY <1>7, MailboxDrainStep
  <1>8. CASE LockFull(p, "mb_lock_push", "mb_push")
    BY <1>8, LockFullStep
  <1>9. CASE Push(p, "mb_push")
    BY <1>9, PushStep
  <1> QED BY <1>1, <1>2, <1>3, <1>4, <1>5, <1>6, <1>7, <1>8, <1>9 DEF PutMailbox

LEMMA PutRelaxedStep ==
    ASSUME IInv, NEW p \in Producers, PutRelaxed(p)
    PROVE  IInv'
  <1> p \in Threads BY DEF Threads
  <1> USE DEF SameHold, Labels, ProducerLabels, InHand, InPlace, HoldsFrame, HasFilled, Draws,
              Fills, WaitsForFrame, HoldsFull, HoldsFree
  <1>1. CASE LockFull(p, "rx_lock_full", "rx_back")
    BY <1>1, LockFullStep
  <1>2. CASE RelaxedBack(p)
    BY <1>2, RelaxedBackStep
  <1>3. CASE StartFill(p, "rx_lock_frame", "rx_fill")
    BY <1>3, StartFillStep
  <1>4. CASE RelaxedFilled(p)
    BY <1>4, RelaxedFilledStep
  <1> QED BY <1>1, <1>2, <1>3, <1>4 DEF PutRelaxed

\* Each step of a draw keeps the invariant.
LEMMA RenderFrameStep ==
    ASSUME IInv, NEW r \in Renderers, RenderFrame(r)
    PROVE  IInv'
  <1> r \in Threads BY DEF Threads
  <1> USE DEF SameHold, Labels, RendererLabels, InHand, InPlace, HoldsFrame, HasFilled, Draws,
              Fills, WaitsForFrame, HoldsFull, HoldsFree
  <1>1. CASE LockFull(r, "get_lock_full", "get")
    BY <1>1, LockFullStep
  <1>2. CASE GetFrameBuffer(r)
    BY <1>2, GetFrameBufferStep
  <1>3. CASE StartRender(r)
    BY <1>3, StartRenderStep
  <1>4. CASE EndRender(r)
    BY <1>4, EndRenderStep
  <1>5. CASE LockFree(r, "put_lock_free", "put")
    BY <1>5, LockFreeStep
  <1>6. CASE PutFrameBuffer(r)
    BY <1>6, PutFrameBufferStep
  <1> QED BY <1>1, <1>2, <1>3, <1>4, <1>5, <1>6 DEF RenderFrame

LEMMA NextIInv ==
    ASSUME IInv, [Next]_vars
    PROVE  IInv'
  <1>1. ASSUME NEW p \in Producers, MWPutFrameBufferQueue(p) \/ PutSteps(p)
        PROVE  IInv'
    BY <1>1, MWPutFrameBufferQueueStep, PutIntoFreeStep, PutImmediateStep, PutMailboxStep,
       PutRelaxedStep DEF PutSteps
  <1>2. ASSUME NEW r \in Renderers, MWRenderFrame(r) \/ RenderFrame(r)
        PROVE  IInv'
    BY <1>2, MWRenderFrameStep, RenderFrameStep
  <1>3. CASE MWCreateFrameBuffer \/ MWDestoryFrameBuffer
    BY <1>3, PoolLifeStep
  <1>4. CASE UNCHANGED vars
    <2> USE <1>4 DEF vars, poolVars, queueVars, frameVars, history
    <2>1. TypeOK' /\ FullMutexHeld' /\ FreeMutexHeld' /\ FrameMutexesHeld' /\ BuffersHeld'
          /\ PutsCounted'
      BY DEF IInv, TypeOK, FullMutexHeld, FreeMutexHeld, FrameMutexesHeld, BuffersHeld,
             PutsCounted
    <2>2. NoFrameLost' /\ NoFrameShared'
      <3>1. Owned' = Owned /\ OneHandPerFrame'
        BY DEF IInv, NoFrameShared, Owned, OneHandPerFrame
      <3> QED BY <3>1, PlacesKept DEF IInv
    <2>3. ContentsKnown'
      BY DEF IInv, ContentsKnown, Whole, Value
    <2> QED BY <2>1, <2>2, <2>3 DEF IInv
  <1> QED BY <1>1, <1>2, <1>3, <1>4 DEF Next

\* The conjunction of everything above holds in every state the pool reaches:
\* mutex owners agree with where the threads are, no buffer is lost or shared,
\* and every waiting or drawn buffer is whole.
THEOREM InvariantIInv == Spec => []IInv
  <1>1. IInv /\ [Next]_vars => IInv'
    BY NextIInv
  <1> QED BY InitIInv, <1>1, PTL DEF Spec

(***************************************************************************)
(* The properties the runs check, for every value of the constants.        *)
(***************************************************************************)
\* Every variable keeps its type: in particular no queue ever holds anything
\* but buffers of the pool, and no call pushes a NULL t_p_frame.
THEOREM TypeCorrect == Spec => []TypeOK
  <1>1. IInv => TypeOK BY DEF IInv
  <1> QED BY InvariantIInv, <1>1, PTL

\* Every buffer create_frame_buffer allocated stays reachable: no order of
\* put_frame_data, get_frame_buffer and put_frame_buffer drops one.
THEOREM NoBufferIsLost == Spec => []NoFrameLost
  <1>1. IInv => NoFrameLost BY DEF IInv
  <1> QED BY InvariantIInv, <1>1, PTL

\* A buffer never has two owners: not twice in the queues, not in a queue and
\* in the hands of a call, not in the hands of two calls.
THEOREM NoBufferIsShared == Spec => []NoFrameShared
  <1>1. IInv => NoFrameShared BY DEF IInv
  <1> QED BY InvariantIInv, <1>1, PTL

\* render draws whole frames: size and pixels of one put, however the buffer
\* was recycled or overwritten in place before.
THEOREM DrawsAreWhole == Spec => []RenderWhole
  <1>1. IInv => RenderWhole BY DEF IInv, ContentsKnown, RenderWhole, Draws, Threads
  <1> QED BY InvariantIInv, <1>1, PTL

\* No thread ever waits for the mutex of a buffer, so those that ask for it
\* with m_lock_full in their hands do not stop the other threads.
THEOREM FrameLockIsFree == Spec => []FrameLockUncontended
  <1>1. IInv => FrameLockUncontended
    <2> SUFFICES ASSUME IInv, NEW t \in Threads,
                        pc[t] \in WaitsForFrame \cup {"rx_lock_frame", "get_lock_frame"},
                        m_lock[t_p_frame[t]] # NoThread
                 PROVE  FALSE
      BY DEF FrameLockUncontended
    <2>1. pc[t] \in (InHand \cup InPlace) \ HoldsFrame
      BY DEF WaitsForFrame, InHand, InPlace, HoldsFrame, Draws, Fills
    <2>2. t_p_frame[t] \in Frames
      BY <2>1 DEF IInv, BuffersHeld
    <2>3. PICK u \in Threads : m_lock[t_p_frame[t]] = u
      BY <2>2 DEF IInv, TypeOK
    <2>4. pc[u] \in HoldsFrame /\ t_p_frame[u] = t_p_frame[t]
      BY <2>2, <2>3 DEF IInv, FrameMutexesHeld
    <2>5. u # t /\ pc[u] \in InHand \cup InPlace
      BY <2>1, <2>4, LabelSets
    <2> QED BY <2>1, <2>4, <2>5, FrameAlone
  <1> QED BY InvariantIInv, <1>1, PTL
=============================================================================
