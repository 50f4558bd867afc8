------------------------- MODULE FramePoolStreamProofs -------------------------
(***************************************************************************)
(* The pool implements FrameStream, and what follows from it, for every     *)
(* number of producers, renderers, buffers and puts; and the backlog of the *)
(* IMMEDIATE mode.                                                          *)
(***************************************************************************)
EXTENDS FramePoolProofs, FiniteSetTheorems

(***************************************************************************)
(* What waits: the contents d of the buffers of queue q.                   *)
(***************************************************************************)
Contained == Values \cup {NoValue}
Contents(q, d) == [i \in 1 .. Len(q) |-> d[q[i]]]

LEMMA ContentsLen ==
    ASSUME NEW S, NEW q \in Seq(S), NEW d
    PROVE  Len(Contents(q, d)) = Len(q) /\ \A i \in 1 .. Len(q) : Contents(q, d)[i] = d[q[i]]
  BY DEF Contents

LEMMA ContentsSeq ==
    ASSUME NEW q \in Seq(Frames), NEW d \in [Frames -> Contained]
    PROVE  /\ Contents(q, d) \in Seq(Contained)
           /\ Len(Contents(q, d)) = Len(q)
           /\ \A i \in 1 .. Len(q) : Contents(q, d)[i] = d[q[i]] /\ q[i] \in Frames
  BY DEF Contents

LEMMA ContentsAppend ==
    ASSUME NEW q \in Seq(Frames), NEW d \in [Frames -> Contained], NEW f \in Frames
    PROVE  Contents(Append(q, f), d) = Append(Contents(q, d), d[f])
  <1> DEFINE c == Contents(q, d)
             e == Contents(Append(q, f), d)
  <1>1. /\ c \in Seq(Contained) /\ Len(c) = Len(q)
        /\ \A i \in 1 .. Len(q) : c[i] = d[q[i]]
    BY ContentsSeq
  <1>2. /\ Append(q, f) \in Seq(Frames) /\ Len(Append(q, f)) = Len(q) + 1 /\ Len(q) \in Nat
        /\ \A i \in 1 .. Len(q) : Append(q, f)[i] = q[i]
        /\ Append(q, f)[Len(q) + 1] = f
    OBVIOUS
  <1>3. /\ e \in Seq(Contained) /\ Len(e) = Len(q) + 1
        /\ \A i \in 1 .. Len(q) + 1 : e[i] = d[Append(q, f)[i]]
    <2>1. /\ e \in Seq(Contained) /\ Len(e) = Len(Append(q, f))
          /\ \A i \in 1 .. Len(Append(q, f)) : e[i] = d[Append(q, f)[i]]
      <3> HIDE DEF c
      <3> SUFFICES ASSUME NEW r \in Seq(Frames)
                   PROVE  /\ Contents(r, d) \in Seq(Contained) /\ Len(Contents(r, d)) = Len(r)
                          /\ \A i \in 1 .. Len(r) : Contents(r, d)[i] = d[r[i]]
        BY <1>2
      <3> QED BY DEF Contents
    <2> QED BY <1>2, <2>1
  <1> HIDE DEF c, e
  <1>4. d[f] \in Contained
    OBVIOUS
  <1>5. /\ Append(c, d[f]) \in Seq(Contained) /\ Len(Append(c, d[f])) = Len(q) + 1
        /\ \A i \in 1 .. Len(q) : Append(c, d[f])[i] = d[q[i]]
        /\ Append(c, d[f])[Len(q) + 1] = d[f]
    BY <1>1, <1>2, <1>4
  <1>6. \A i \in 1 .. Len(e) : e[i] = Append(c, d[f])[i]
    BY <1>2, <1>3, <1>5
  <1>7. e = Append(c, d[f])
    BY <1>3, <1>5, <1>6, SeqEqual
  <1> QED BY <1>7 DEF c, e

LEMMA ContentsTail ==
    ASSUME NEW q \in Seq(Frames), NEW d \in [Frames -> Contained], q # <<>>
    PROVE  /\ Contents(q, d) # <<>>
           /\ Contents(Tail(q), d) = Tail(Contents(q, d))
           /\ Head(Contents(q, d)) = d[Head(q)]
  <1> DEFINE c == Contents(q, d)
             e == Contents(Tail(q), d)
  <1>1. /\ c \in Seq(Contained) /\ Len(c) = Len(q)
        /\ \A i \in 1 .. Len(q) : c[i] = d[q[i]]
    BY ContentsSeq
  <1>2. /\ Tail(q) \in Seq(Frames) /\ Len(Tail(q)) = Len(q) - 1 /\ Len(q) \in Nat \ {0}
        /\ Head(q) = q[1]
        /\ \A i \in 1 .. Len(q) - 1 : Tail(q)[i] = q[i + 1]
    BY HeadTailProperties, EmptySeq
  <1>3. /\ e \in Seq(Contained) /\ Len(e) = Len(q) - 1
        /\ \A i \in 1 .. Len(q) - 1 : e[i] = d[Tail(q)[i]]
    <2>1. /\ e \in Seq(Contained) /\ Len(e) = Len(Tail(q))
          /\ \A i \in 1 .. Len(Tail(q)) : e[i] = d[Tail(q)[i]]
      <3> HIDE DEF c
      <3> SUFFICES ASSUME NEW r \in Seq(Frames)
                   PROVE  /\ Contents(r, d) \in Seq(Contained) /\ Len(Contents(r, d)) = Len(r)
                          /\ \A i \in 1 .. Len(r) : Contents(r, d)[i] = d[r[i]]
        BY <1>2
      <3> QED BY ContentsSeq
    <2> QED BY <1>2, <2>1
  <1> HIDE DEF c, e
  <1>4. c # <<>>
    BY <1>1, <1>2
  <1>5. /\ Tail(c) \in Seq(Contained) /\ Len(Tail(c)) = Len(q) - 1 /\ Head(c) = c[1]
        /\ \A i \in 1 .. Len(q) - 1 : Tail(c)[i] = c[i + 1]
    BY <1>1, <1>2, <1>4, HeadTailProperties
  <1>6. \A i \in 1 .. Len(e) : e[i] = Tail(c)[i]
    BY <1>1, <1>2, <1>3, <1>5
  <1>7. e = Tail(c)
    BY <1>3, <1>5, <1>6, SeqEqual
  <1>8. Head(c) = d[Head(q)]
    BY <1>1, <1>2, <1>5
  <1> QED BY <1>4, <1>7, <1>8 DEF c, e

LEMMA ContentsSmall ==
    ASSUME NEW d
    PROVE  /\ Contents(<<>>, d) = <<>>
           /\ \A f : Contents(<<f>>, d) = <<d[f]>>
  BY DEF Contents

\* A copy into the buffer at the end replaces the newest frame.
LEMMA LastCopied ==
    ASSUME NEW q \in Seq(Frames), NEW d \in [Frames -> Contained], NEW v, NEW e,
           q # <<>>, Distinct(q), e[Last(q)] = v,
           \A f \in Frames \ {Last(q)} : e[f] = d[f]
    PROVE  /\ Len(Contents(q, d)) = Len(q)
           /\ \A i \in 1 .. Len(q) : e[q[i]] = IF i = Len(q) THEN v ELSE d[q[i]]
  <1>1. Len(q) \in Nat \ {0} /\ Len(Contents(q, d)) = Len(q)
    BY EmptySeq, ContentsLen
  <1>2. ASSUME NEW i \in 1 .. Len(q)
        PROVE  e[q[i]] = IF i = Len(q) THEN v ELSE d[q[i]]
    <2>1. q[i] = Last(q) <=> i = Len(q)
      BY <1>1 DEF Last, Distinct
    <2>2. q[i] \in Frames
      BY ElementOfSeq
    <2> QED BY <2>1, <2>2
  <1> QED BY <1>1, <1>2

(***************************************************************************)
(* What the refinement needs besides IInv.                                 *)
(***************************************************************************)
ImmediateLabels == {"imm_lock_full", "imm_front", "imm_lock_frame", "imm_fill",
                    "imm_lock_free", "imm_drain"}
MailboxLabels == {"mb_lock_full", "mb_pop", "mb_lock_frame", "mb_fill", "mb_drain_full",
                  "mb_drain_free", "mb_drain", "mb_lock_push", "mb_push"}
RelaxedLabels == {"rx_lock_full", "rx_back", "rx_lock_frame", "rx_fill"}

\* The branch a put is in belongs to the mode of the pool, and it draws nothing.
InMode(label) ==
    /\ label \notin {"get_lock_frame", "render", "put_lock_free", "put"}
    /\ label \in ImmediateLabels => m_map_mode = "IMMEDIATE"
    /\ label \in MailboxLabels => m_map_mode = "MAILBOX"
    /\ label \in RelaxedLabels => m_map_mode = "RELAXED_FIFO"
LabelsInMode ==
    /\ m_map_mode \in QueueModes
    /\ \A p \in Producers : InMode(pc[p])

\* A put that has copied holds its own frame until it queues it.
OwnFrame == \A p \in Producers : pc[p] \in HasFilled => m_p_data[t_p_frame[p]] = Value(p)

\* The frame of a put in progress is newer than all its producer queued.
PutsAreNewer ==
    \A p \in Producers :
        /\ published[p] <= puts[p]
        /\ pc[p] # "idle" => published[p] < puts[p]

RInv == IInv /\ LabelsInMode /\ OwnFrame /\ PutsAreNewer

\* The labels at which a producer owes a frame.
Owes == {"imm_lock_frame", "imm_fill", "imm_lock_free", "imm_drain"}
        \cup {"mb_lock_frame", "mb_fill", "mb_drain_full", "mb_drain_free",
              "mb_drain", "mb_lock_push", "mb_push"}

LEMMA IndebtedStep ==
    ASSUME TypeOK, NEW t \in Threads, NEW to, pc' = [pc EXCEPT ![t] = to]
    PROVE  /\ t \in Renderers \/ (pc[t] \in Owes <=> to \in Owes) => Indebted' = Indebted
           /\ t \in Producers /\ to \in Owes => Indebted' = Indebted \cup {t}
           /\ t \in Producers /\ to \notin Owes => Indebted' = Indebted \ {t}
  <1>1. pc'[t] = to /\ \A u \in Threads \ {t} : pc'[u] = pc[u] BY Labelled
  <1>2. Indebted = {p \in Producers : pc[p] \in Owes}
        /\ Indebted' = {p \in Producers : pc'[p] \in Owes}
    BY DEF Indebted, Owes
  <1>3. Producers \subseteq Threads /\ (t \in Renderers => t \notin Producers)
    BY FramePoolAssumption DEF Threads
  <1> HIDE DEF Owes
  <1> QED BY <1>1, <1>2, <1>3

\* The step is invisible in FrameStream.
LEMMA StreamSame ==
    ASSUME UNCHANGED <<m_map_mode, history>>, Indebted' = Indebted,
           Contents(m_queue_full', m_p_data') = Contents(m_queue_full, m_p_data)
    PROVE  UNCHANGED Stream!vars
  BY DEF Stream!vars, history, Contents

\* A step of one thread that copies nothing keeps what the refinement needs.
LEMMA MoveKeepsRInv ==
    ASSUME RInv, IInv', NEW t \in Threads, NEW to, pc' = [pc EXCEPT ![t] = to],
           UNCHANGED <<m_map_mode, m_p_data, puts>>,
           NEW f, t_p_frame' = [t_p_frame EXCEPT ![t] = f] \/ t_p_frame' = t_p_frame,
           t \in Producers =>
               /\ InMode(to)
               /\ to \in HasFilled => pc[t] \in HasFilled /\ t_p_frame' = t_p_frame
               /\ to # "idle" => pc[t] # "idle",
           \/ published' = published
           \/ to = "idle" /\ published' = [published EXCEPT ![t] = puts[t]]
    PROVE  RInv'
  <1> USE DEF RInv
  <1>1. pc'[t] = to /\ \A u \in Threads \ {t} : pc'[u] = pc[u]
    BY Labelled DEF IInv
  <1>2. \A u \in Threads \ {t} : t_p_frame'[u] = t_p_frame[u]
    BY DEF IInv, TypeOK
  <1>3. Producers \subseteq Threads
    BY DEF Threads
  <1>4. \A label : InMode(label)' <=> InMode(label)
    BY DEF InMode
  <1>5. LabelsInMode'
    <2>1. \A p \in Producers : InMode(pc'[p])
      BY <1>1, <1>3 DEF LabelsInMode
    <2> QED BY <1>4, <2>1 DEF LabelsInMode
  <1>6. OwnFrame'
    BY <1>1, <1>2, <1>3 DEF OwnFrame, Value
  <1>7. PutsAreNewer'
    <2>1. ASSUME NEW p \in Producers
          PROVE  /\ published'[p] <= puts'[p]
                 /\ pc'[p] # "idle" => published'[p] < puts'[p]
      <3>1. published[p] \in Nat /\ puts[p] \in Nat
        BY FramePoolAssumption DEF IInv, TypeOK
      <3>2. published'[p] = published[p] \/ (p = t /\ published'[p] = puts[p])
        BY DEF IInv, TypeOK
      <3>3. CASE p = t
        BY <1>1, <3>1, <3>2, <3>3 DEF PutsAreNewer, IInv, TypeOK
      <3>4. CASE p # t
        BY <1>1, <1>3, <3>2, <3>4 DEF PutsAreNewer
      <3> QED BY <3>3, <3>4
    <2> QED BY <2>1 DEF PutsAreNewer
  <1> QED BY <1>5, <1>6, <1>7

(***************************************************************************)
(* Steps that FrameStream does not see.                                    *)
(***************************************************************************)
StreamStep == [Stream!Next]_(Stream!vars)

LEMMA QuietMove ==
    ASSUME RInv, IInv', NEW t \in Threads, NEW to, pc' = [pc EXCEPT ![t] = to],
           UNCHANGED <<m_map_mode, m_queue_full, m_p_data, puts, history>>,
           NEW f, t_p_frame' = [t_p_frame EXCEPT ![t] = f] \/ t_p_frame' = t_p_frame,
           t \in Producers =>
               /\ InMode(to)
               /\ to \in HasFilled => pc[t] \in HasFilled /\ t_p_frame' = t_p_frame
               /\ to # "idle" => pc[t] # "idle"
               /\ pc[t] \in Owes <=> to \in Owes
    PROVE  RInv' /\ StreamStep
  <1>1. RInv'
    BY MoveKeepsRInv DEF history
  <1>2. Indebted' = Indebted
    BY IndebtedStep DEF RInv, IInv, Threads
  <1>3. UNCHANGED Stream!vars
    BY <1>2, StreamSame
  <1> QED BY <1>1, <1>3 DEF StreamStep

\* A renderer is no producer: what it does with its own label is invisible.
LEMMA QuietRender ==
    ASSUME RInv, IInv', NEW r \in Renderers,
           \/ MWRenderFrame(r) \/ LockFull(r, "get_lock_full", "get")
           \/ StartRender(r) \/ EndRender(r) \/ LockFree(r, "put_lock_free", "put")
           \/ PutFrameBuffer(r)
    PROVE  RInv' /\ StreamStep
  <1>1. r \in Threads /\ r \notin Producers
    BY FramePoolAssumption DEF Threads
  <1>2. PICK to : /\ pc' = [pc EXCEPT ![r] = to]
                  /\ UNCHANGED <<m_map_mode, m_queue_full, m_p_data, puts, history>>
                  /\ t_p_frame' = [t_p_frame EXCEPT ![r] = NoFrame] \/ t_p_frame' = t_p_frame
    BY DEF MWRenderFrame, LockFull, StartRender, EndRender, LockFree, PutFrameBuffer, Return,
           Goto, poolVars, queueVars, frameVars
  <1> QED BY <1>1, <1>2, QuietMove

\* What the steps of a put that FrameStream does not see have in common.
QuietLabels(from, to) ==
    /\ from # "idle"
    /\ InMode(from) => InMode(to)
    /\ to \in HasFilled => from \in HasFilled
    /\ from \in Owes <=> to \in Owes

LEMMA QuietPut ==
    ASSUME RInv, IInv', NEW p \in Producers, NEW from, NEW to, QuietLabels(from, to),
           \/ LockFull(p, from, to) \/ LockFree(p, from, to) \/ StartFill(p, from, to)
    PROVE  RInv' /\ StreamStep
  <1>1. p \in Threads
    BY DEF Threads
  <1>2. /\ pc[p] = from /\ pc' = [pc EXCEPT ![p] = to]
        /\ UNCHANGED <<m_map_mode, m_queue_full, m_p_data, puts, history>>
        /\ t_p_frame' = t_p_frame
    BY DEF LockFull, LockFree, StartFill, Goto, poolVars, queueVars, frameVars
  <1>3. InMode(from)
    BY <1>2 DEF RInv, LabelsInMode
  <1> QED BY <1>1, <1>2, <1>3, QuietMove DEF QuietLabels

\* The copy: into a buffer that is in nobody else's hands and not waiting.
LEMMA QuietCopy ==
    ASSUME RInv, IInv', NEW p \in Producers, NEW from, NEW to, EndFill(p, from, to),
           from \in Fills \cap InHand, from # "idle", InMode(from) => InMode(to),
           from \in Owes <=> to \in Owes
    PROVE  RInv' /\ StreamStep
  <1> PICK f : f = t_p_frame[p] OBVIOUS
  <1>1. /\ p \in Threads /\ pc[p] = from /\ pc' = [pc EXCEPT ![p] = to]
        /\ m_p_data' = [m_p_data EXCEPT ![f] = Value(p)]
        /\ UNCHANGED <<poolVars, queueVars, t_p_frame, puts, history>>
    BY DEF EndFill, FinishFill, Goto, Threads
  <1>2. f \in Frames /\ f \notin InQueue(m_queue_full)
    BY <1>1, FrameTaken DEF RInv
  <1>3. pc'[p] = to /\ \A u \in Threads \ {p} : pc'[u] = pc[u]
    BY <1>1, Labelled DEF RInv, IInv
  <1>4. \A u \in Threads \ {p} : pc[u] \in HasFilled => t_p_frame[u] \in Frames \ {f}
    BY <1>1, LabelSets, FrameAlone, FrameTaken DEF RInv
  <1>5. m_queue_full \in Seq(Frames) /\ m_p_data \in [Frames -> Values \cup {NoValue}]
    BY DEF RInv, IInv, TypeOK
  <1>6. Contents(m_queue_full, m_p_data') = Contents(m_queue_full, m_p_data)
    BY <1>1, <1>2, <1>5 DEF Contents, InQueue
  <1>7. UNCHANGED Stream!vars
    <2>1. Indebted' = Indebted
      BY <1>1, IndebtedStep DEF RInv, IInv
    <2> QED BY <1>1, <1>6, <2>1, StreamSame DEF poolVars, queueVars
  <1>8. LabelsInMode'
    <2>1. m_map_mode' = m_map_mode /\ \A l : InMode(l)' <=> InMode(l)
      BY <1>1 DEF poolVars, InMode
    <2>2. InMode(to) /\ \A q \in Producers : InMode(pc[q])
      BY <1>1 DEF RInv, LabelsInMode
    <2>3. \A q \in Producers : InMode(pc'[q])
      BY <1>3, <2>2 DEF Threads
    <2> QED BY <2>1, <2>3 DEF RInv, LabelsInMode
  <1>9. OwnFrame'
    <2> SUFFICES ASSUME NEW q \in Producers, pc'[q] \in HasFilled
                 PROVE  m_p_data'[t_p_frame[q]] = Value(q)
      BY <1>1 DEF OwnFrame, Value
    <2>1. CASE q = p BY <1>1, <1>2, <1>5, <2>1
    <2>2. CASE q # p
      <3>1. q \in Threads \ {p} /\ pc[q] \in HasFilled BY <1>3, <2>2 DEF Threads
      <3>2. t_p_frame[q] \in Frames \ {f} BY <1>4, <3>1
      <3>3. m_p_data'[t_p_frame[q]] = m_p_data[t_p_frame[q]] BY <1>1, <1>5, <3>2
      <3> QED BY <3>1, <3>3 DEF RInv, OwnFrame
    <2> QED BY <2>1, <2>2
  <1>10. PutsAreNewer'
    BY <1>1, <1>3 DEF RInv, PutsAreNewer, Threads, history
  <1> QED BY <1>7, <1>8, <1>9, <1>10 DEF RInv, StreamStep

LEMMA QuietTakeFree ==
    ASSUME RInv, IInv', NEW p \in Producers, TakeFree(p)
    PROVE  RInv' /\ StreamStep
  <1>1. /\ p \in Threads /\ pc[p] = "take_free" /\ "take_free" \notin Owes
        /\ UNCHANGED <<m_map_mode, m_queue_full, m_p_data, puts, history>>
    BY DEF TakeFree, Threads, poolVars, frameVars, Owes
  <1>2. PICK to, f : /\ pc' = [pc EXCEPT ![p] = to]
                     /\ t_p_frame' = [t_p_frame EXCEPT ![p] = f] \/ t_p_frame' = t_p_frame
                     /\ \/ to \in {"lock_frame", "idle"}
                        \/ to = "mb_lock_full" /\ m_map_mode = "MAILBOX"
                        \/ to = "rx_lock_full" /\ m_map_mode = "RELAXED_FIFO"
    BY DEF TakeFree, NoFreeFrame, Return, Goto
  <1>3. InMode(to) /\ to \notin HasFilled /\ to \notin Owes
    BY <1>2 DEF InMode, ImmediateLabels, MailboxLabels, RelaxedLabels, HasFilled, Owes
  <1> QED BY <1>1, <1>2, <1>3, QuietMove

\* A put starts: its number is a new one, which nothing bears yet.
LEMMA QuietStart ==
    ASSUME RInv, IInv', NEW p \in Producers, MWPutFrameBufferQueue(p)
    PROVE  RInv' /\ StreamStep
  <1>1. PICK to : /\ pc' = [pc EXCEPT ![p] = to]
                  /\ \/ to = "imm_lock_full" /\ m_map_mode = "IMMEDIATE"
                     \/ to = "lock_free"
    BY DEF MWPutFrameBufferQueue, Goto
  <1>2. /\ p \in Threads /\ pc[p] = "idle" /\ "idle" \notin Owes
        /\ puts' = [puts EXCEPT ![p] = @ + 1]
        /\ UNCHANGED <<m_map_mode, m_queue_full, m_p_data, t_p_frame, history>>
    BY DEF MWPutFrameBufferQueue, Threads, poolVars, queueVars, frameVars, Owes
  <1>3. InMode(to) /\ to \notin HasFilled /\ to \notin Owes
    BY <1>1 DEF InMode, ImmediateLabels, MailboxLabels, RelaxedLabels, HasFilled, Owes
  <1>4. pc'[p] = to /\ \A u \in Threads \ {p} : pc'[u] = pc[u]
    BY <1>1, <1>2, Labelled DEF RInv, IInv
  <1>5. puts \in [Producers -> Nat] /\ published \in [Producers -> Nat]
    BY FramePoolAssumption DEF RInv, IInv, TypeOK
  <1>6. puts'[p] = puts[p] + 1 /\ \A q \in Producers \ {p} : puts'[q] = puts[q]
    BY <1>2, <1>5
  <1>7. UNCHANGED Stream!vars
    <2>1. Indebted' = Indebted
      BY <1>1, <1>2, <1>3, IndebtedStep DEF RInv, IInv
    <2> QED BY <1>2, <2>1, StreamSame
  <1>8. LabelsInMode'
    <2>1. m_map_mode' = m_map_mode /\ \A l : InMode(l)' <=> InMode(l)
      BY <1>2 DEF InMode
    <2>2. \A q \in Producers : InMode(pc'[q])
      BY <1>3, <1>4 DEF RInv, LabelsInMode, Threads
    <2> QED BY <2>1, <2>2 DEF RInv, LabelsInMode
  <1>9. OwnFrame'
    BY <1>2, <1>3, <1>4, <1>6 DEF RInv, OwnFrame, Value, Threads
  <1>10. PutsAreNewer'
    <2> SUFFICES ASSUME NEW q \in Producers
                 PROVE  /\ published[q] <= puts'[q]
                        /\ pc'[q] # "idle" => published[q] < puts'[q]
      BY <1>2 DEF PutsAreNewer, history
    <2>1. CASE q = p
      BY <1>5, <1>6, <2>1 DEF RInv, PutsAreNewer
    <2>2. CASE q # p
      BY <1>4, <1>6, <2>2 DEF RInv, PutsAreNewer, Threads
    <2> QED BY <2>1, <2>2
  <1> QED BY <1>7, <1>8, <1>9, <1>10 DEF RInv, StreamStep

\* A put that finds the full queue empty, or the newest frame to overwrite.
LEMMA QuietFront ==
    ASSUME RInv, IInv', NEW p \in Producers,
           \/ ImmediateFront(p) /\ m_queue_full = <<>>
           \/ MailboxPop(p) /\ m_queue_full = <<>>
           \/ RelaxedBack(p)
    PROVE  RInv' /\ StreamStep
  <1>1. PICK to, f : /\ pc' = [pc EXCEPT ![p] = to]
                     /\ t_p_frame' = [t_p_frame EXCEPT ![p] = f] \/ t_p_frame' = t_p_frame
                     /\ \/ to \in {"lock_free", "idle"}
                        \/ to = "rx_lock_frame" /\ pc[p] = "rx_back"
    BY DEF ImmediateFront, MailboxPop, RelaxedBack, Return, Goto
  <1>2. /\ p \in Threads /\ pc[p] \in {"imm_front", "mb_pop", "rx_back"}
        /\ UNCHANGED <<m_map_mode, m_queue_full, m_p_data, puts, history>>
    BY DEF ImmediateFront, MailboxPop, RelaxedBack, Threads, poolVars, queueVars, frameVars
  <1>3. /\ pc[p] # "idle" /\ pc[p] \notin Owes /\ to \notin Owes /\ to \notin HasFilled
        /\ InMode(pc[p]) => InMode(to)
    BY <1>1, <1>2 DEF InMode, ImmediateLabels, MailboxLabels, RelaxedLabels, HasFilled, Owes
  <1>4. InMode(pc[p])
    BY DEF RInv, LabelsInMode
  <1> QED BY <1>1, <1>2, <1>3, <1>4, QuietMove

(***************************************************************************)
(* Steps that FrameStream sees.                                            *)
(***************************************************************************)
\* What waits, in the words of FrameStream.
LEMMA PendingFrames ==
    ASSUME RInv
    PROVE  /\ m_queue_full \in Seq(Frames) /\ m_p_data \in [Frames -> Contained]
           /\ Distinct(m_queue_full)
  BY DEF RInv, IInv, TypeOK, NoFrameShared, Contained

\* The value of a put in progress.
LEMMA PutValue ==
    ASSUME RInv, NEW p \in Producers, pc[p] # "idle"
    PROVE  /\ puts[p] \in 1 .. MaxPuts /\ puts[p] > published[p]
           /\ Value(p) = <<p, puts[p]>>
  BY FramePoolAssumption DEF RInv, IInv, PutsCounted, PutsAreNewer, Value, TypeOK

LEMMA DiscardOldestStep ==
    ASSUME RInv, IInv', NEW p \in Producers, m_queue_full # <<>>,
           ImmediateFront(p) \/ MailboxPop(p)
    PROVE  RInv' /\ StreamStep
  <1>1. PICK to, f : /\ pc' = [pc EXCEPT ![p] = to]
                     /\ t_p_frame' = [t_p_frame EXCEPT ![p] = f]
                     /\ m_queue_full' = Tail(m_queue_full)
                     /\ \/ to = "imm_lock_frame" /\ pc[p] = "imm_front"
                        \/ to = "mb_lock_frame" /\ pc[p] = "mb_pop"
    BY DEF ImmediateFront, MailboxPop, Goto
  <1>2. /\ p \in Threads
        /\ UNCHANGED <<m_map_mode, m_p_data, puts, history>>
    BY DEF ImmediateFront, MailboxPop, Threads, poolVars, queueVars, frameVars
  <1>3. InMode(pc[p])
    BY DEF RInv, LabelsInMode
  <1>4. /\ pc[p] # "idle" /\ to \in Owes /\ to \notin HasFilled
        /\ InMode(to) /\ m_map_mode \in {"MAILBOX", "IMMEDIATE"}
    BY <1>1, <1>3 DEF InMode, ImmediateLabels, MailboxLabels, RelaxedLabels, HasFilled, Owes
  <1>5. RInv'
    BY <1>1, <1>2, <1>4, MoveKeepsRInv DEF history
  <1>6. Indebted' = Indebted \cup {p}
    BY <1>1, <1>2, <1>4, IndebtedStep DEF RInv, IInv
  <1>7. /\ Contents(m_queue_full, m_p_data) # <<>>
        /\ Contents(m_queue_full', m_p_data') = Tail(Contents(m_queue_full, m_p_data))
    BY <1>1, <1>2, PendingFrames, ContentsTail
  <1>8. Stream!DiscardOldest(p)
    BY <1>2, <1>4, <1>6, <1>7
       DEF Stream!DiscardOldest, Stream!Discarding, Contents, history
  <1> QED BY <1>5, <1>8 DEF StreamStep, Stream!Next

LEMMA DeliverFrame ==
    ASSUME RInv, IInv', NEW r \in Renderers, GetFrameBuffer(r)
    PROVE  RInv' /\ StreamStep
  <1>1. PICK to, f : /\ pc' = [pc EXCEPT ![r] = to]
                     /\ t_p_frame' = [t_p_frame EXCEPT ![r] = f]
    BY DEF GetFrameBuffer, Return, Goto
  <1>2. /\ r \in Threads /\ r \notin Producers
        /\ UNCHANGED <<m_map_mode, m_p_data, puts, published, newest>>
    BY FramePoolAssumption DEF GetFrameBuffer, Threads, poolVars, frameVars
  <1>3. RInv'
    BY <1>1, <1>2, MoveKeepsRInv
  <1>4. Indebted' = Indebted
    BY <1>1, <1>2, IndebtedStep DEF RInv, IInv
  <1>5. CASE m_queue_full = <<>>
    BY <1>1, <1>2, <1>5, QuietMove DEF GetFrameBuffer, history
  <1>6. CASE m_queue_full # <<>>
    <2>1. /\ m_queue_full' = Tail(m_queue_full)
          /\ LET v == m_p_data[Head(m_queue_full)] IN
             delivered' = [delivered EXCEPT ![v[1]] = v[2]]
      BY <1>6 DEF GetFrameBuffer
    <2>2. /\ Contents(m_queue_full, m_p_data) # <<>>
          /\ Contents(m_queue_full', m_p_data') = Tail(Contents(m_queue_full, m_p_data))
          /\ Head(Contents(m_queue_full, m_p_data)) = m_p_data[Head(m_queue_full)]
      BY <1>2, <1>6, <2>1, PendingFrames, ContentsTail
    <2>3. Stream!Deliver
      BY <1>2, <1>4, <2>1, <2>2 DEF Stream!Deliver, Contents
    <2> QED BY <1>3, <2>3 DEF StreamStep, Stream!Next
  <1> QED BY <1>5, <1>6

LEMMA ArriveStep ==
    ASSUME RInv, IInv', NEW p \in Producers, NEW from, from \in {"push", "mb_push"},
           Push(p, from)
    PROVE  RInv' /\ StreamStep
  <1> PICK f : f = t_p_frame[p] OBVIOUS
  <1>1. /\ p \in Threads /\ pc[p] = from /\ pc' = [pc EXCEPT ![p] = "idle"]
        /\ t_p_frame' = [t_p_frame EXCEPT ![p] = NoFrame]
        /\ m_queue_full' = Append(m_queue_full, f)
        /\ published' = [published EXCEPT ![p] = puts[p]] /\ newest' = Value(p)
        /\ UNCHANGED <<m_map_mode, m_p_data, puts, delivered>>
    BY DEF Push, Publish, Return, Goto, Threads, poolVars, frameVars
  <1>2. /\ from # "idle" /\ from \in HasFilled /\ from \in InHand
        /\ "idle" \notin Owes /\ "idle" \notin HasFilled /\ InMode("idle")
        /\ from \in Owes => from = "mb_push"
    BY DEF HasFilled, InHand, Owes, InMode, ImmediateLabels, MailboxLabels, RelaxedLabels
  <1>3. p \in Indebted => m_map_mode = "MAILBOX"
    <2>1. InMode(from) BY <1>1 DEF RInv, LabelsInMode
    <2>2. p \in Indebted => from \in Owes BY <1>1 DEF Indebted, Owes
    <2> QED BY <1>2, <2>1, <2>2 DEF InMode, MailboxLabels
  <1>4. f \in Frames /\ m_p_data[f] = Value(p)
    BY <1>1, <1>2, FrameTaken DEF RInv, OwnFrame
  <1>5. puts[p] \in 1 .. MaxPuts /\ puts[p] > published[p] /\ Value(p) = <<p, puts[p]>>
    BY <1>1, <1>2, PutValue
  <1>6. RInv'
    BY <1>1, <1>2, MoveKeepsRInv
  <1>7. Indebted' = Indebted \ {p}
    BY <1>1, <1>2, IndebtedStep DEF RInv, IInv
  <1>8. Contents(m_queue_full', m_p_data')
          = Append(Contents(m_queue_full, m_p_data), <<p, puts[p]>>)
    BY <1>1, <1>4, <1>5, PendingFrames, ContentsAppend
  <1> PICK n \in 1 .. MaxPuts : n = puts[p]
    BY <1>5
  <1>9. Stream!Arrive(p, n)
    BY <1>1, <1>3, <1>5, <1>7, <1>8 DEF Stream!Arrive, Stream!Enters, Contents
  <1>10. Stream!Next
    BY <1>9 DEF Stream!Next
  <1> QED BY <1>6, <1>10 DEF StreamStep

LEMMA SupersedeStep ==
    ASSUME RInv, IInv', NEW p \in Producers, ImmediateDrain(p)
    PROVE  RInv' /\ StreamStep
  <1> PICK f : f = t_p_frame[p] OBVIOUS
  <1>1. /\ p \in Threads /\ pc[p] = "imm_drain" /\ pc' = [pc EXCEPT ![p] = "idle"]
        /\ t_p_frame' = [t_p_frame EXCEPT ![p] = NoFrame]
        /\ m_queue_full' = <<f>>
        /\ published' = [published EXCEPT ![p] = puts[p]] /\ newest' = Value(p)
        /\ UNCHANGED <<m_map_mode, m_p_data, puts, delivered>>
    BY DEF ImmediateDrain, Publish, Return, Goto, Threads, poolVars, frameVars
  <1>2. /\ "imm_drain" # "idle" /\ "imm_drain" \in HasFilled
        /\ "idle" \notin Owes /\ "idle" \notin HasFilled /\ InMode("idle")
    BY DEF HasFilled, Owes, InMode, ImmediateLabels, MailboxLabels, RelaxedLabels
  <1>3. p \in Indebted /\ m_map_mode = "IMMEDIATE"
    <2>1. InMode("imm_drain") BY <1>1 DEF RInv, LabelsInMode
    <2> QED BY <1>1, <2>1 DEF InMode, ImmediateLabels, Indebted
  <1>4. m_p_data[f] = Value(p)
    BY <1>1, <1>2 DEF RInv, OwnFrame
  <1>5. puts[p] \in 1 .. MaxPuts /\ puts[p] > published[p] /\ Value(p) = <<p, puts[p]>>
    BY <1>1, <1>2, PutValue
  <1>6. RInv'
    BY <1>1, <1>2, MoveKeepsRInv
  <1>7. Indebted' = Indebted \ {p}
    BY <1>1, <1>2, IndebtedStep DEF RInv, IInv
  <1>8. Contents(m_queue_full', m_p_data') = <<<<p, puts[p]>>>>
    BY <1>1, <1>4, <1>5, ContentsSmall
  <1> PICK n \in 1 .. MaxPuts : n = puts[p]
    BY <1>5
  <1>9. Stream!Supersede(p, n)
    BY <1>1, <1>3, <1>5, <1>7, <1>8 DEF Stream!Supersede, Stream!Enters, Contents
  <1>10. Stream!Next
    BY <1>9 DEF Stream!Next
  <1> QED BY <1>6, <1>10 DEF StreamStep

LEMMA DiscardAllStep ==
    ASSUME RInv, IInv', NEW p \in Producers, MailboxDrain(p)
    PROVE  RInv' /\ StreamStep
  <1>1. /\ p \in Threads /\ pc[p] = "mb_drain" /\ pc' = [pc EXCEPT ![p] = "mb_lock_push"]
        /\ m_queue_full' = <<>>
        /\ UNCHANGED <<m_map_mode, m_p_data, t_p_frame, puts, history>>
    BY DEF MailboxDrain, Goto, Threads, poolVars, frameVars
  <1>2. /\ "mb_drain" \in HasFilled /\ "mb_drain" \in Owes /\ "mb_drain" # "idle"
        /\ "mb_lock_push" \in Owes
        /\ InMode("mb_drain") => InMode("mb_lock_push") /\ m_map_mode = "MAILBOX"
    BY DEF HasFilled, Owes, InMode, ImmediateLabels, MailboxLabels, RelaxedLabels
  <1>3. InMode("mb_drain")
    BY <1>1 DEF RInv, LabelsInMode
  <1>4. RInv'
    BY <1>1, <1>2, <1>3, MoveKeepsRInv DEF history
  <1>5. Indebted' = Indebted
    BY <1>1, <1>2, IndebtedStep DEF RInv, IInv
  <1>6. Indebted # {}
    BY <1>1, <1>2 DEF Indebted
  <1>7. Contents(m_queue_full', m_p_data') = <<>>
    BY <1>1, ContentsSmall
  <1>8. Stream!DiscardAll
    BY <1>1, <1>2, <1>3, <1>5, <1>6, <1>7 DEF Stream!DiscardAll, Contents, history
  <1> QED BY <1>4, <1>8 DEF StreamStep, Stream!Next

LEMMA ReplaceStep ==
    ASSUME RInv, IInv', NEW p \in Producers, RelaxedFilled(p)
    PROVE  RInv' /\ StreamStep
  <1> PICK f : f = t_p_frame[p] OBVIOUS
  <1>1. /\ p \in Threads /\ pc[p] = "rx_fill" /\ pc' = [pc EXCEPT ![p] = "idle"]
        /\ t_p_frame' = [t_p_frame EXCEPT ![p] = NoFrame]
        /\ m_p_data' = [m_p_data EXCEPT ![f] = Value(p)]
        /\ published' = [published EXCEPT ![p] = puts[p]] /\ newest' = Value(p)
        /\ UNCHANGED <<m_map_mode, m_queue_full, puts, delivered>>
    BY DEF RelaxedFilled, FinishFill, Publish, Return, Goto, Threads, poolVars, queueVars
  <1>2. /\ "rx_fill" # "idle" /\ "rx_fill" \in InPlace
        /\ "idle" \notin Owes /\ "idle" \notin HasFilled /\ InMode("idle")
    BY DEF InPlace, HasFilled, Owes, InMode, ImmediateLabels, MailboxLabels, RelaxedLabels
  <1>3. m_map_mode = "RELAXED_FIFO"
    <2>1. InMode("rx_fill") BY <1>1 DEF RInv, LabelsInMode
    <2> QED BY <2>1 DEF InMode, RelaxedLabels
  <1>4. m_queue_full # <<>> /\ f = Last(m_queue_full) /\ f \in Frames
    BY <1>1, <1>2 DEF RInv, IInv, BuffersHeld
  <1>5. puts[p] \in 1 .. MaxPuts /\ puts[p] > published[p] /\ Value(p) = <<p, puts[p]>>
    BY <1>1, <1>2, PutValue
  <1>6. pc'[p] = "idle" /\ \A u \in Threads \ {p} : pc'[u] = pc[u]
    BY <1>1, Labelled DEF RInv, IInv
  <1>7. \A u \in Threads \ {p} : t_p_frame'[u] = t_p_frame[u]
    BY <1>1 DEF RInv, IInv, TypeOK
  <1>8. \A u \in Threads \ {p} : pc[u] \in HasFilled => t_p_frame[u] \in Frames \ {f}
    BY <1>1, <1>2, LabelSets, FrameAlone, FrameTaken DEF RInv
  <1>9. LabelsInMode'
    <2>1. m_map_mode' = m_map_mode /\ \A l : InMode(l)' <=> InMode(l)
      BY <1>1 DEF InMode
    <2>2. \A q \in Producers : InMode(pc'[q])
      BY <1>2, <1>6 DEF RInv, LabelsInMode, Threads
    <2> QED BY <2>1, <2>2 DEF RInv, LabelsInMode
  <1>10. OwnFrame'
    <2> SUFFICES ASSUME NEW q \in Producers, pc'[q] \in HasFilled
                 PROVE  m_p_data'[t_p_frame'[q]] = Value(q)
      BY <1>1 DEF OwnFrame, Value
    <2>1. q \in Threads \ {p} /\ pc[q] \in HasFilled /\ t_p_frame'[q] = t_p_frame[q]
      BY <1>2, <1>6, <1>7 DEF Threads
    <2>2. t_p_frame[q] \in Frames \ {f}
      BY <1>8, <2>1
    <2> QED BY <1>1, <2>1, <2>2, PendingFrames DEF RInv, OwnFrame
  <1>11. PutsAreNewer'
    <2> SUFFICES ASSUME NEW q \in Producers
                 PROVE  /\ published'[q] <= puts[q]
                        /\ pc'[q] # "idle" => published'[q] < puts[q]
      BY <1>1 DEF PutsAreNewer
    <2>1. published \in [Producers -> 0 .. MaxPuts] /\ puts[q] \in 0 .. MaxPuts
      BY DEF RInv, IInv, TypeOK
    <2>2. CASE q = p
      BY <1>1, <1>6, <2>1, <2>2, FramePoolAssumption
    <2>3. CASE q # p
      BY <1>1, <1>6, <2>1, <2>3 DEF RInv, PutsAreNewer, Threads
    <2> QED BY <2>2, <2>3
  <1>12. Indebted' = Indebted \ {p}
    BY <1>1, <1>2, IndebtedStep DEF RInv, IInv
  <1>13. /\ Contents(m_queue_full, m_p_data) # <<>>
         /\ Contents(m_queue_full', m_p_data')
              = [Contents(m_queue_full, m_p_data)
                   EXCEPT ![Len(Contents(m_queue_full, m_p_data))] = <<p, puts[p]>>]
    <2>1. Contents(m_queue_full, m_p_data) # <<>>
      BY <1>4, PendingFrames, ContentsTail
    <2>2. /\ Len(Contents(m_queue_full, m_p_data)) = Len(m_queue_full)
          /\ \A i \in 1 .. Len(m_queue_full) :
                m_p_data'[m_queue_full[i]]
                  = IF i = Len(m_queue_full) THEN Value(p) ELSE m_p_data[m_queue_full[i]]
      <3>1. /\ m_p_data'[Last(m_queue_full)] = Value(p)
            /\ \A g \in Frames \ {Last(m_queue_full)} : m_p_data'[g] = m_p_data[g]
        BY <1>1, <1>4, PendingFrames
      <3> QED BY <1>4, <3>1, PendingFrames, LastCopied
    <2> QED BY <1>1, <1>5, <2>1, <2>2 DEF Contents
  <1> PICK n \in 1 .. MaxPuts : n = puts[p]
    BY <1>5
  <1>14. Stream!Replace(p, n)
    BY <1>1, <1>3, <1>5, <1>12, <1>13 DEF Stream!Replace, Stream!Enters, Contents
  <1>15. Stream!Next
    BY <1>14 DEF Stream!Next
  <1> QED BY <1>9, <1>10, <1>11, <1>15 DEF RInv, StreamStep

LEMMA ResetPool ==
    ASSUME RInv, IInv', MWCreateFrameBuffer \/ MWDestoryFrameBuffer
    PROVE  RInv' /\ StreamStep
  <1>1. PICK n \in Nat, mode \in QueueModes : ClientQuiet /\ NewPool(n, mode)
    BY FramePoolAssumption DEF MWCreateFrameBuffer, MWDestoryFrameBuffer, RInv, LabelsInMode
  <1>2. /\ m_map_mode' = mode /\ m_queue_full' = <<>> /\ newest' = NoValue
        /\ UNCHANGED <<pc, t_p_frame, puts, published, delivered>>
    BY <1>1 DEF NewPool
  <1>3. \A p \in Producers : pc[p] = "idle"
    BY <1>1 DEF ClientQuiet, Threads
  <1>4. "idle" \notin Owes /\ "idle" \notin HasFilled
    BY DEF Owes, HasFilled
  <1>5. Indebted = {} /\ Indebted' = {}
    BY <1>2, <1>3, <1>4 DEF Indebted, Owes
  <1>6. RInv'
    <2>1. LabelsInMode'
      BY <1>2, <1>3 DEF LabelsInMode, InMode, ImmediateLabels, MailboxLabels, RelaxedLabels
    <2>2. OwnFrame' /\ PutsAreNewer'
      BY <1>2, <1>3, <1>4 DEF RInv, OwnFrame, PutsAreNewer
    <2> QED BY <2>1, <2>2 DEF RInv
  <1>7. Contents(m_queue_full', m_p_data') = <<>>
    BY <1>2, ContentsSmall
  <1>8. Stream!Reset
    BY <1>2, <1>5, <1>7 DEF Stream!Reset, Contents
  <1> QED BY <1>6, <1>8 DEF StreamStep, Stream!Next

(***************************************************************************)
(* Every step of the pool is a step of FrameStream, or invisible in it.    *)
(***************************************************************************)
LEMMA PutRefines ==
    ASSUME RInv, IInv', NEW p \in Producers, PutSteps(p)
    PROVE  RInv' /\ StreamStep
  <1> USE DEF QuietLabels, InMode, ImmediateLabels, MailboxLabels, RelaxedLabels, HasFilled,
              Owes, Fills, InHand, WaitsForFrame
  <1>1. CASE PutIntoFree(p)
    <2>1. CASE LockFree(p, "lock_free", "take_free") BY <2>1, QuietPut
    <2>2. CASE TakeFree(p) BY <2>2, QuietTakeFree
    <2>3. CASE StartFill(p, "lock_frame", "fill") BY <2>3, QuietPut
    <2>4. CASE EndFill(p, "fill", "lock_full") BY <2>4, QuietCopy
    <2>5. CASE LockFull(p, "lock_full", "push") BY <2>5, QuietPut
    <2>6. CASE Push(p, "push") BY <2>6, ArriveStep
    <2> QED BY <1>1, <2>1, <2>2, <2>3, <2>4, <2>5, <2>6 DEF PutIntoFree
  <1>2. CASE PutImmediate(p)
    <2>1. CASE LockFull(p, "imm_lock_full", "imm_front") BY <2>1, QuietPut
    <2>2. CASE ImmediateFront(p) BY <2>2, QuietFront, DiscardOldestStep
    <2>3. CASE StartFill(p, "imm_lock_frame", "imm_fill") BY <2>3, QuietPut
    <2>4. CASE EndFill(p, "imm_fill", "imm_lock_free") BY <2>4, QuietCopy
    <2>5. CASE LockFree(p, "imm_lock_free", "imm_drain") BY <2>5, QuietPut
    <2>6. CASE ImmediateDrain(p) BY <2>6, SupersedeStep
    <2> QED BY <1>2, <2>1, <2>2, <2>3, <2>4, <2>5, <2>6 DEF PutImmediate
  <1>3. CASE PutMailbox(p)
    <2>1. CASE LockFull(p, "mb_lock_full", "mb_pop") BY <2>1, QuietPut
    <2>2. CASE MailboxPop(p) BY <2>2, QuietFront, DiscardOldestStep
    <2>3. CASE StartFill(p, "mb_lock_frame", "mb_fill") BY <2>3, QuietPut
    <2>4. CASE EndFill(p, "mb_fill", "mb_drain_full") BY <2>4, QuietCopy
    <2>5. CASE LockFull(p, "mb_drain_full", "mb_drain_free") BY <2>5, QuietPut
    <2>6. CASE LockFree(p, "mb_drain_free", "mb_drain") BY <2>6, QuietPut
    <2>7. CASE MailboxDrain(p) BY <2>7, DiscardAllStep
    <2>8. CASE LockFull(p, "mb_lock_push", "mb_push") BY <2>8, QuietPut
    <2>9. CASE Push(p, "mb_push") BY <2>9, ArriveStep
    <2> QED BY <1>3, <2>1, <2>2, <2>3, <2>4, <2>5, <2>6, <2>7, <2>8, <2>9 DEF PutMailbox
  <1>4. CASE PutRelaxed(p)
    <2>1. CASE LockFull(p, "rx_lock_full", "rx_back") BY <2>1, QuietPut
    <2>2. CASE RelaxedBack(p) BY <2>2, QuietFront
    <2>3. CASE StartFill(p, "rx_lock_frame", "rx_fill") BY <2>3, QuietPut
    <2>4. CASE RelaxedFilled(p) BY <2>4, ReplaceStep
    <2> QED BY <1>4, <2>1, <2>2, <2>3, <2>4 DEF PutRelaxed
  <1> QED BY <1>1, <1>2, <1>3, <1>4 DEF PutSteps

LEMMA NextRefines ==
    ASSUME RInv, [Next]_vars
    PROVE  RInv' /\ StreamStep
  <1>1. IInv'
    BY NextIInv DEF RInv
  <1>2. ASSUME NEW p \in Producers, MWPutFrameBufferQueue(p) \/ PutSteps(p)
        PROVE  RInv' /\ StreamStep
    BY <1>1, <1>2, QuietStart, PutRefines
  <1>3. ASSUME NEW r \in Renderers, MWRenderFrame(r) \/ RenderFrame(r)
        PROVE  RInv' /\ StreamStep
    BY <1>1, <1>3, QuietRender, DeliverFrame DEF RenderFrame
  <1>4. CASE MWCreateFrameBuffer \/ MWDestoryFrameBuffer
    BY <1>1, <1>4, ResetPool
  <1>5. CASE UNCHANGED vars
    <2>1. UNCHANGED <<m_map_mode, m_queue_full, m_p_data, pc, t_p_frame, puts, history>>
      BY <1>5 DEF vars, poolVars, queueVars, frameVars
    <2>2. LabelsInMode' /\ OwnFrame' /\ PutsAreNewer'
      BY <2>1 DEF RInv, LabelsInMode, InMode, OwnFrame, PutsAreNewer, Value, history
    <2>3. UNCHANGED Stream!vars
      BY <2>1, StreamSame DEF Indebted
    <2> QED BY <1>1, <2>2, <2>3 DEF RInv, StreamStep
  <1> QED BY <1>2, <1>3, <1>4, <1>5 DEF Next

LEMMA InitRefines ==
    Init => RInv /\ Stream!Init
  <1> SUFFICES ASSUME Init PROVE RInv /\ Stream!Init
    OBVIOUS
  <1>1. \A p \in Producers : pc[p] = "idle" /\ puts[p] = 0 /\ published[p] = 0
    BY DEF Init, Threads
  <1>2. LabelsInMode /\ OwnFrame /\ PutsAreNewer /\ Indebted = {}
    BY <1>1 DEF Init, LabelsInMode, InMode, ImmediateLabels, MailboxLabels, RelaxedLabels,
                OwnFrame, HasFilled, PutsAreNewer, Indebted
  <1>3. Contents(m_queue_full, m_p_data) = <<>>
    BY ContentsSmall DEF Init
  <1>4. Stream!Init
    BY <1>2, <1>3 DEF Init, Stream!Init, Contents
  <1> QED BY InitIInv, <1>2, <1>4 DEF RInv

\* The pool keeps the promise of its queue mode, FrameStream, however the calls
\* of put_frame_data and render_frame interleave.
THEOREM RefinesStream == Spec => ImplementsStream
  <1>1. RInv /\ [Next]_vars => RInv' /\ [Stream!Next]_(Stream!vars)
    BY NextRefines DEF StreamStep
  <1> QED BY InitRefines, <1>1, PTL DEF Spec, ImplementsStream, Stream!Spec

(***************************************************************************)
(* What FrameStream promises, the pool promises.                           *)
(***************************************************************************)
Promise == INSTANCE FrameStreamProofs WITH
    mode <- m_map_mode,
    pending <- [i \in 1 .. Len(m_queue_full) |-> m_p_data[m_queue_full[i]]],
    indebted <- Indebted,
    Modes <- QueueModes

LEMMA PromiseKept ==
    Spec => Promise!Spec
  <1>1. Stream!Init => Promise!Init
    BY DEF Stream!Init, Promise!Init
  <1>2. [Stream!Next]_(Stream!vars) => [Promise!Next]_(Promise!vars)
    BY Zenon DEF Stream!vars, Promise!vars, Stream!Next, Promise!Next,
       Stream!Reset, Promise!Reset, Stream!Deliver, Promise!Deliver,
       Stream!DiscardAll, Promise!DiscardAll, Stream!DiscardOldest, Promise!DiscardOldest,
       Stream!Arrive, Promise!Arrive, Stream!Replace, Promise!Replace,
       Stream!Supersede, Promise!Supersede, Stream!Enters, Promise!Enters,
       Stream!Discarding, Promise!Discarding
  <1>3. RInv /\ [Next]_vars => RInv' /\ [Stream!Next]_(Stream!vars)
    BY NextRefines DEF StreamStep
  <1> QED BY InitRefines, <1>1, <1>2, <1>3, PTL DEF Spec, Promise!Spec

\* No recycling of the full queue loses the newest frame: while no producer is
\* between taking a waiting frame out and queueing its own, the frame queued
\* last was drawn or is the last one waiting.
THEOREM NewestIsNeverLost == Spec => []NewestSurvives
  <1>1. Promise!NewestKept => NewestSurvives
    BY DEF Promise!NewestKept, NewestSurvives, Stream!NewestKept, Stream!Back, Promise!Back
  <1> QED BY PromiseKept, Promise!NewestIsKept, <1>1, PTL

\* Each producer's frames leave the full queue for a renderer in the order it
\* put them, however the buffers were recycled in between.
THEOREM DrawnInOrder == Spec => DeliveryInOrder
  <1>1. [Promise!DeliversInOrder]_(Promise!vars) =>
          [\A p \in Producers : delivered'[p] # delivered[p] =>
              delivered[p] < delivered'[p] /\ delivered'[p] <= published[p]]_vars
    BY DEF Promise!DeliversInOrder, Promise!vars
  <1> QED BY PromiseKept, Promise!DeliveryIsInOrder, <1>1, PTL DEF DeliveryInOrder

(***************************************************************************)
(* The backlog of IMMEDIATE.  A producer is engaged from the moment it has *)
(* seen the full queue empty, or taken a frame out of it, until it queues  *)
(* its own: no more frames wait, or are about to, than there are producers.*)
(***************************************************************************)
Engaged == {"lock_free", "take_free", "lock_frame", "fill", "lock_full", "push",
            "imm_lock_frame", "imm_fill", "imm_lock_free", "imm_drain"}
EngagedProducers == {p \in Producers : pc[p] \in Engaged}

BacklogBound ==
    m_map_mode = "IMMEDIATE" =>
        Len(m_queue_full) + Cardinality(EngagedProducers) <= Cardinality(Producers)

LEMMA CountProducers ==
    /\ IsFiniteSet(Producers) /\ Cardinality(Producers) \in Nat
    /\ \A P : P \subseteq Producers =>
          /\ IsFiniteSet(P) /\ Cardinality(P) \in Nat
          /\ Cardinality(P) <= Cardinality(Producers)
  <1>1. IsFiniteSet(Producers) BY FramePoolAssumption
  <1> QED BY <1>1, FS_CardinalityType, FS_Subset

\* What a step of one thread does to the number of engaged producers.
LEMMA EngagedStep ==
    ASSUME TypeOK, NEW t \in Threads, NEW to, pc' = [pc EXCEPT ![t] = to]
    PROVE  LET n == Cardinality(EngagedProducers)
               k == Cardinality(EngagedProducers')
           IN  /\ n \in Nat /\ k \in Nat /\ k <= Cardinality(Producers)
               /\ t \in Renderers \/ (pc[t] \in Engaged <=> to \in Engaged) => k = n
               /\ t \in Producers /\ pc[t] \notin Engaged /\ to \in Engaged => k = n + 1
               /\ t \in Producers /\ pc[t] \in Engaged /\ to \notin Engaged => k = n - 1
  <1>1. pc'[t] = to /\ \A u \in Threads \ {t} : pc'[u] = pc[u] BY Labelled
  <1>2. Producers \subseteq Threads /\ (t \in Renderers => t \notin Producers)
    BY FramePoolAssumption DEF Threads
  <1>3. /\ IsFiniteSet(EngagedProducers) /\ Cardinality(EngagedProducers) \in Nat
        /\ Cardinality(EngagedProducers') \in Nat
        /\ Cardinality(EngagedProducers') <= Cardinality(Producers)
    BY CountProducers DEF EngagedProducers
  <1>4. ASSUME t \in Renderers \/ (pc[t] \in Engaged <=> to \in Engaged)
        PROVE  Cardinality(EngagedProducers') = Cardinality(EngagedProducers)
    <2>1. EngagedProducers' = EngagedProducers
      BY <1>1, <1>2, <1>4 DEF EngagedProducers
    <2> QED BY <2>1
  <1>5. ASSUME t \in Producers, pc[t] \notin Engaged, to \in Engaged
        PROVE  Cardinality(EngagedProducers') = Cardinality(EngagedProducers) + 1
    <2>1. EngagedProducers' = EngagedProducers \cup {t} /\ t \notin EngagedProducers
      BY <1>1, <1>2, <1>5 DEF EngagedProducers
    <2> QED BY <1>3, <2>1, FS_AddElement
  <1>6. ASSUME t \in Producers, pc[t] \in Engaged, to \notin Engaged
        PROVE  Cardinality(EngagedProducers') = Cardinality(EngagedProducers) - 1
    <2>1. EngagedProducers' = EngagedProducers \ {t} /\ t \in EngagedProducers
      BY <1>1, <1>2, <1>6 DEF EngagedProducers
    <2> QED BY <1>3, <2>1, FS_RemoveElement
  <1> QED BY <1>3, <1>4, <1>5, <1>6

\* The bound follows from what the step does to the queue and to the label.
LEMMA BacklogStep ==
    ASSUME RInv, BacklogBound, NEW t \in Threads, NEW to, pc' = [pc EXCEPT ![t] = to],
           m_map_mode' = m_map_mode, Len(m_queue_full') \in Nat,
           m_map_mode = "IMMEDIATE" =>
             \/ /\ Len(m_queue_full') <= Len(m_queue_full)
                /\ t \in Renderers \/ (to \in Engaged => pc[t] \in Engaged)
             \/ Len(m_queue_full') = 0
             \/ /\ Len(m_queue_full') = Len(m_queue_full) - 1
                /\ t \in Producers /\ pc[t] \notin Engaged /\ to \in Engaged
             \/ /\ Len(m_queue_full') = Len(m_queue_full) + 1 \/ Len(m_queue_full') = 1
                /\ t \in Producers /\ pc[t] \in Engaged /\ to \notin Engaged
    PROVE  BacklogBound'
  <1> DEFINE n == Cardinality(EngagedProducers)
             k == Cardinality(EngagedProducers')
             all == Cardinality(Producers)
  <1>1. /\ n \in Nat /\ k \in Nat /\ k <= all
        /\ t \in Renderers \/ (pc[t] \in Engaged <=> to \in Engaged) => k = n
        /\ t \in Producers /\ pc[t] \notin Engaged /\ to \in Engaged => k = n + 1
        /\ t \in Producers /\ pc[t] \in Engaged /\ to \notin Engaged => k = n - 1
    BY EngagedStep DEF RInv, IInv
  <1>2. all \in Nat /\ n <= all /\ Len(m_queue_full) \in Nat
    BY CountProducers DEF EngagedProducers, RInv, IInv, TypeOK
  <1>3. t \in Producers \/ t \in Renderers
    BY DEF Threads
  <1> HIDE DEF n, k, all
  <1>4. m_map_mode = "IMMEDIATE" => Len(m_queue_full) + n <= all
    BY DEF BacklogBound, n, all
  <1>5. ASSUME m_map_mode = "IMMEDIATE"
        PROVE  Len(m_queue_full') + k <= all
    <2>1. CASE /\ Len(m_queue_full') <= Len(m_queue_full)
               /\ t \in Renderers \/ (to \in Engaged => pc[t] \in Engaged)
      <3>1. k <= n BY <1>1, <1>2, <1>3, <2>1
      <3> QED BY <1>1, <1>2, <1>4, <1>5, <2>1, <3>1
    <2>2. CASE Len(m_queue_full') = 0
      BY <1>1, <1>2, <2>2
    <2>3. CASE /\ Len(m_queue_full') = Len(m_queue_full) - 1
               /\ t \in Producers /\ pc[t] \notin Engaged /\ to \in Engaged
      BY <1>1, <1>2, <1>4, <1>5, <2>3
    <2>4. CASE /\ Len(m_queue_full') = Len(m_queue_full) + 1 \/ Len(m_queue_full') = 1
               /\ t \in Producers /\ pc[t] \in Engaged /\ to \notin Engaged
      <3>1. k = n - 1 BY <1>1, <2>4
      <3>2. Len(m_queue_full) + n <= all BY <1>4, <1>5
      <3>3. CASE Len(m_queue_full') = Len(m_queue_full) + 1
        BY <1>1, <1>2, <3>1, <3>2, <3>3
      <3>4. CASE Len(m_queue_full') = 1
        BY <1>1, <1>2, <3>1, <3>4
      <3> QED BY <2>4, <3>3, <3>4
    <2> QED BY <1>5, <2>1, <2>2, <2>3, <2>4
  <1>6. m_map_mode' = "IMMEDIATE" => Len(m_queue_full') + k <= all
    BY <1>5
  <1> QED BY <1>6 DEF BacklogBound, k, all

\* The lengths a step may give the full queue.
LEMMA FullLengths ==
    ASSUME RInv
    PROVE  /\ Len(m_queue_full) \in Nat /\ Len(<<>>) = 0
           /\ m_queue_full # <<>> => Len(Tail(m_queue_full)) = Len(m_queue_full) - 1
                                     /\ Len(m_queue_full) - 1 \in Nat
           /\ \A f : Len(<<f>>) = 1
           /\ \A f \in Frames : Len(Append(m_queue_full, f)) = Len(m_queue_full) + 1
  <1>1. m_queue_full \in Seq(Frames)
    BY PendingFrames
  <1> QED BY <1>1, HeadTailProperties, EmptySeq

\* The full queue stays, and the producer does not become engaged.
LEMMA BacklogSame ==
    ASSUME RInv, BacklogBound, NEW p \in Producers, NEW from, NEW to,
           to \in Engaged => from \in Engaged,
           \/ LockFull(p, from, to) \/ LockFree(p, from, to)
           \/ StartFill(p, from, to) \/ EndFill(p, from, to)
    PROVE  BacklogBound'
  <1>1. /\ p \in Threads /\ pc[p] = from /\ pc' = [pc EXCEPT ![p] = to]
        /\ UNCHANGED <<m_map_mode, m_queue_full>>
    BY DEF LockFull, LockFree, StartFill, EndFill, Goto, Threads, poolVars, queueVars
  <1>2. Len(m_queue_full') <= Len(m_queue_full) /\ Len(m_queue_full') \in Nat
    BY <1>1, FullLengths
  <1> QED BY <1>1, <1>2, BacklogStep

LEMMA BacklogRender ==
    ASSUME RInv, BacklogBound, NEW r \in Renderers, MWRenderFrame(r) \/ RenderFrame(r)
    PROVE  BacklogBound'
  <1>1. r \in Threads
    BY DEF Threads
  <1>2. PICK to : pc' = [pc EXCEPT ![r] = to] /\ m_map_mode' = m_map_mode
                  /\ \/ m_queue_full' = m_queue_full
                     \/ m_queue_full # <<>> /\ m_queue_full' = Tail(m_queue_full)
    BY DEF MWRenderFrame, RenderFrame, LockFull, GetFrameBuffer, StartRender, EndRender,
           LockFree, PutFrameBuffer, Return, Goto, poolVars, queueVars
  <1>3. Len(m_queue_full') \in Nat /\ Len(m_queue_full') <= Len(m_queue_full)
    BY <1>2, FullLengths
  <1> QED BY <1>1, <1>2, <1>3, BacklogStep

LEMMA BacklogPut ==
    ASSUME RInv, BacklogBound, NEW p \in Producers,
           \/ MWPutFrameBufferQueue(p) \/ TakeFree(p) \/ Push(p, "push") \/ Push(p, "mb_push")
           \/ ImmediateFront(p) \/ ImmediateDrain(p)
           \/ MailboxPop(p) \/ MailboxDrain(p) \/ RelaxedBack(p) \/ RelaxedFilled(p)
    PROVE  BacklogBound'
  <1>1. p \in Threads /\ InMode(pc[p])
    BY DEF Threads, RInv, LabelsInMode
  <1> USE DEF Engaged
  <1>2. CASE MWPutFrameBufferQueue(p)
    <2>1. PICK to : /\ pc' = [pc EXCEPT ![p] = to] /\ m_map_mode' = m_map_mode
                    /\ m_queue_full' = m_queue_full
                    /\ m_map_mode = "IMMEDIATE" => to = "imm_lock_full"
      BY <1>2 DEF MWPutFrameBufferQueue, Goto, poolVars, queueVars
    <2>2. /\ Len(m_queue_full') <= Len(m_queue_full) /\ Len(m_queue_full') \in Nat
          /\ "imm_lock_full" \notin Engaged
      BY <2>1, FullLengths
    <2> HIDE DEF Engaged
    <2> QED BY <1>1, <2>1, <2>2, BacklogStep
  <1>3. CASE TakeFree(p)
    <2>1. PICK to : /\ pc' = [pc EXCEPT ![p] = to] /\ m_map_mode' = m_map_mode
                    /\ m_queue_full' = m_queue_full /\ pc[p] = "take_free"
      BY <1>3 DEF TakeFree, NoFreeFrame, Return, Goto, poolVars
    <2>2. Len(m_queue_full') <= Len(m_queue_full) /\ Len(m_queue_full') \in Nat
          /\ pc[p] \in Engaged
      BY <2>1, FullLengths
    <2> HIDE DEF Engaged
    <2> QED BY <1>1, <2>1, <2>2, BacklogStep
  <1>4. CASE Push(p, "push")
    <2>1. /\ pc' = [pc EXCEPT ![p] = "idle"] /\ m_map_mode' = m_map_mode
          /\ m_queue_full' = Append(m_queue_full, t_p_frame[p]) /\ pc[p] = "push"
      BY <1>4 DEF Push, Return, Goto, poolVars
    <2>2. t_p_frame[p] \in Frames
      BY <1>1, <2>1, FrameTaken DEF RInv, InHand, HasFilled
    <2>3. /\ Len(m_queue_full') = Len(m_queue_full) + 1 /\ Len(m_queue_full') \in Nat
          /\ pc[p] \in Engaged /\ "idle" \notin Engaged
      BY <2>1, <2>2, FullLengths
    <2> QED BY <1>1, <2>1, <2>3, BacklogStep
  <1>5. CASE Push(p, "mb_push")
    <2>1. m_map_mode' = m_map_mode /\ pc[p] = "mb_push"
      BY <1>5 DEF Push, poolVars
    <2> QED BY <1>1, <2>1 DEF InMode, MailboxLabels, BacklogBound
  <1>6. CASE ImmediateFront(p)
    <2>1. /\ m_map_mode' = m_map_mode /\ pc[p] = "imm_front"
      BY <1>6 DEF ImmediateFront, poolVars
    <2>2. CASE m_queue_full # <<>>
      <3>1. pc' = [pc EXCEPT ![p] = "imm_lock_frame"] /\ m_queue_full' = Tail(m_queue_full)
        BY <1>6, <2>2 DEF ImmediateFront, Goto
      <3> QED BY <1>1, <2>1, <2>2, <3>1, FullLengths, BacklogStep
    <2>3. CASE m_queue_full = <<>>
      <3>1. pc' = [pc EXCEPT ![p] = "lock_free"] /\ m_queue_full' = <<>>
        BY <1>6, <2>3 DEF ImmediateFront, Goto
      <3> QED BY <1>1, <2>1, <3>1, FullLengths, BacklogStep
    <2> QED BY <2>2, <2>3
  <1>7. CASE ImmediateDrain(p)
    <2>1. /\ pc' = [pc EXCEPT ![p] = "idle"] /\ m_map_mode' = m_map_mode
          /\ m_queue_full' = <<t_p_frame[p]>> /\ pc[p] = "imm_drain"
      BY <1>7 DEF ImmediateDrain, Return, Goto, poolVars
    <2> QED BY <1>1, <2>1, FullLengths, BacklogStep
  <1>8. CASE MailboxPop(p) \/ MailboxDrain(p)
    <2>1. m_map_mode' = m_map_mode /\ pc[p] \in {"mb_pop", "mb_drain"}
      BY <1>8 DEF MailboxPop, MailboxDrain, poolVars
    <2> QED BY <1>1, <2>1 DEF InMode, MailboxLabels, BacklogBound
  <1>9. CASE RelaxedBack(p) \/ RelaxedFilled(p)
    <2>1. m_map_mode' = m_map_mode /\ pc[p] \in {"rx_back", "rx_fill"}
      BY <1>9 DEF RelaxedBack, RelaxedFilled, poolVars
    <2> QED BY <1>1, <2>1 DEF InMode, RelaxedLabels, BacklogBound
  <1> QED BY <1>2, <1>3, <1>4, <1>5, <1>6, <1>7, <1>8, <1>9

LEMMA NextBacklog ==
    ASSUME RInv, BacklogBound, [Next]_vars
    PROVE  BacklogBound'
  <1>1. ASSUME NEW p \in Producers, PutSteps(p)
        PROVE  BacklogBound'
    <2> USE DEF Engaged
    <2>1. CASE PutIntoFree(p)
      BY <2>1, BacklogSame, BacklogPut DEF PutIntoFree
    <2>2. CASE PutImmediate(p)
      BY <2>2, BacklogSame, BacklogPut DEF PutImmediate
    <2>3. CASE PutMailbox(p)
      BY <2>3, BacklogSame, BacklogPut DEF PutMailbox
    <2>4. CASE PutRelaxed(p)
      BY <2>4, BacklogSame, BacklogPut DEF PutRelaxed
    <2> QED BY <1>1, <2>1, <2>2, <2>3, <2>4 DEF PutSteps
  <1>2. CASE MWCreateFrameBuffer \/ MWDestoryFrameBuffer
    <2>1. m_queue_full' = <<>>
      BY <1>2 DEF MWCreateFrameBuffer, MWDestoryFrameBuffer, NewPool
    <2>2. Cardinality(EngagedProducers') \in Nat
          /\ Cardinality(EngagedProducers') <= Cardinality(Producers)
      BY CountProducers DEF EngagedProducers
    <2> QED BY <2>1, <2>2, CountProducers DEF BacklogBound
  <1>3. CASE UNCHANGED vars
    BY <1>3 DEF vars, poolVars, queueVars, BacklogBound, EngagedProducers
  <1> QED BY <1>1, <1>2, <1>3, BacklogPut, BacklogRender DEF Next

LEMMA InitBacklog ==
    Init => BacklogBound
  <1> SUFFICES ASSUME Init PROVE BacklogBound
    OBVIOUS
  <1>1. m_queue_full = <<>>
    BY DEF Init
  <1>2. Cardinality(EngagedProducers) \in Nat
        /\ Cardinality(EngagedProducers) <= Cardinality(Producers)
    BY CountProducers DEF EngagedProducers
  <1> QED BY <1>1, <1>2, CountProducers DEF BacklogBound

LEMMA BacklogInvariant ==
    Spec => [](RInv /\ BacklogBound)
  <1>1. RInv /\ BacklogBound /\ [Next]_vars => RInv' /\ BacklogBound'
    BY NextRefines, NextBacklog
  <1> QED BY InitRefines, InitBacklog, <1>1, PTL DEF Spec

\* IMMEDIATE keeps no backlog: at most one frame per producer thread waits.
THEOREM NoBacklog == Spec => []ImmediateBacklog
  <1>1. RInv /\ BacklogBound => ImmediateBacklog
    <2> SUFFICES ASSUME RInv, BacklogBound, m_map_mode = "IMMEDIATE"
                 PROVE  Len(m_queue_full) <= Cardinality(Producers)
      BY DEF ImmediateBacklog
    <2>1. Cardinality(EngagedProducers) \in Nat /\ Cardinality(Producers) \in Nat
      BY CountProducers DEF EngagedProducers
    <2> QED BY <2>1, FullLengths DEF BacklogBound
  <1> QED BY BacklogInvariant, <1>1, PTL

\* Sets without common elements.
LEMMA DisjointCount ==
    ASSUME NEW S, NEW T, IsFiniteSet(S), IsFiniteSet(T), S \cap T = {}
    PROVE  /\ IsFiniteSet(S \cup T)
           /\ Cardinality(S) \in Nat /\ Cardinality(T) \in Nat
           /\ Cardinality(S \cup T) = Cardinality(S) + Cardinality(T)
  <1>1. Cardinality(S) \in Nat /\ Cardinality(T) \in Nat
    BY FS_CardinalityType
  <1>2. /\ IsFiniteSet(S \cup T)
        /\ Cardinality(S \cup T) = Cardinality(S) + Cardinality(T) - Cardinality(S \cap T)
    BY FS_Union
  <1>3. Cardinality(S \cap T) = 0
    BY FS_EmptySet
  <1> QED BY <1>1, <1>2, <1>3

(***************************************************************************)
(* Counting buffers: in IMMEDIATE a pool of one buffer per thread always   *)
(* has a free one for the put that looks for it.                           *)
(***************************************************************************)
\* A queue has no more buffers than entries.
LEMMA QueueCount ==
    ASSUME NEW q \in Seq(Frames)
    PROVE  /\ IsFiniteSet(InQueue(q))
           /\ Cardinality(InQueue(q)) \in Nat
           /\ Cardinality(InQueue(q)) <= Len(q)
  <1>1. Len(q) \in Nat /\ q \in [1 .. Len(q) -> Frames]
    OBVIOUS
  <1>2. q \in Surjection(1 .. Len(q), InQueue(q))
    BY <1>1 DEF Surjection, InQueue
  <1>3. IsFiniteSet(1 .. Len(q)) /\ Cardinality(1 .. Len(q)) = Len(q)
    BY <1>1, FS_Interval
  <1>4. IsFiniteSet(InQueue(q)) /\ Cardinality(InQueue(q)) <= Len(q)
    BY <1>2, <1>3, FS_Surjection
  <1> QED BY <1>4, FS_CardinalityType

\* The calls have no more buffers than there are calls that hold one.
LEMMA OwnedCount ==
    ASSUME TypeOK, NEW H, IsFiniteSet(H), {u \in Threads : pc[u] \in InHand} \subseteq H,
           H \subseteq Threads
    PROVE  /\ IsFiniteSet(Owned)
           /\ Cardinality(Owned) \in Nat
           /\ Cardinality(Owned) <= Cardinality(H)
  <1> DEFINE hands == {u \in Threads : pc[u] \in InHand}
             holds == [u \in hands |-> t_p_frame[u]]
  <1>1. IsFiniteSet(hands) /\ Cardinality(hands) <= Cardinality(H)
        /\ Cardinality(hands) \in Nat /\ Cardinality(H) \in Nat
    BY FS_Subset, FS_CardinalityType
  <1>2. holds \in Surjection(hands, Owned)
    BY DEF Surjection, Owned
  <1> HIDE DEF hands, holds
  <1>3. IsFiniteSet(Owned) /\ Cardinality(Owned) <= Cardinality(hands)
    BY <1>1, <1>2, FS_Surjection
  <1>4. Cardinality(Owned) \in Nat
    BY <1>3, FS_CardinalityType
  <1> QED BY <1>1, <1>3, <1>4

\* In IMMEDIATE every producer that holds a buffer is engaged.
LEMMA HandsEngaged ==
    ASSUME RInv, m_map_mode = "IMMEDIATE", NEW p \in Producers, pc[p] = "take_free"
    PROVE  /\ {u \in Threads : pc[u] \in InHand} \subseteq (EngagedProducers \ {p}) \cup Renderers
           /\ p \in EngagedProducers
  <1>1. "take_free" \notin InHand /\ "take_free" \in Engaged
    BY DEF InHand, WaitsForFrame, HasFilled, Draws, Engaged
  <1>2. ASSUME NEW u \in Producers, pc[u] \in InHand
        PROVE  pc[u] \in Engaged
    <2>1. InMode(pc[u]) BY DEF RInv, LabelsInMode
    <2> QED BY <1>2, <2>1
            DEF InMode, MailboxLabels, InHand, WaitsForFrame, HasFilled, Draws, Engaged
  <1> QED BY <1>1, <1>2 DEF EngagedProducers, Threads

\* In IMMEDIATE a pool of one buffer per thread never refuses a frame.
THEOREM NeverRefused == Spec => []ImmediateNeverRefuses
  <1>1. RInv /\ BacklogBound => ImmediateNeverRefuses
    <2> SUFFICES ASSUME RInv, BacklogBound, m_map_mode = "IMMEDIATE",
                        m_n_frame_count >= Cardinality(Threads),
                        NEW p \in Producers, pc[p] = "take_free", m_queue_free = <<>>
                 PROVE  FALSE
      BY DEF ImmediateNeverRefuses
    <2> DEFINE full == InQueue(m_queue_full)
               others == EngagedProducers \ {p}
    <2>1. /\ IsFiniteSet(Producers) /\ IsFiniteSet(Renderers)
          /\ Cardinality(Producers) \in Nat /\ Cardinality(Renderers) \in Nat
          /\ Cardinality(Threads) = Cardinality(Producers) + Cardinality(Renderers)
      <3>1. IsFiniteSet(Producers) /\ IsFiniteSet(Renderers)
            /\ Producers \cap Renderers = {}
        BY FramePoolAssumption
      <3> QED BY <3>1, DisjointCount DEF Threads
    <2>2. /\ IsFiniteSet(EngagedProducers) /\ p \in EngagedProducers
          /\ Cardinality(EngagedProducers) \in Nat
      BY HandsEngaged, CountProducers DEF EngagedProducers
    <2>3. IsFiniteSet(others) /\ Cardinality(others) = Cardinality(EngagedProducers) - 1
      BY <2>2, FS_RemoveElement
    <2>4. /\ IsFiniteSet(others \cup Renderers)
          /\ Cardinality(others \cup Renderers)
               = Cardinality(EngagedProducers) - 1 + Cardinality(Renderers)
      <3>1. others \cap Renderers = {}
        BY FramePoolAssumption DEF EngagedProducers
      <3> HIDE DEF others
      <3>2. /\ IsFiniteSet(others \cup Renderers)
            /\ Cardinality(others \cup Renderers) = Cardinality(others) + Cardinality(Renderers)
        BY <2>1, <2>3, <3>1, DisjointCount
      <3> QED BY <2>3, <3>2
    <2>5. /\ IsFiniteSet(Owned) /\ Cardinality(Owned) \in Nat
          /\ Cardinality(Owned) <= Cardinality(EngagedProducers) - 1 + Cardinality(Renderers)
      <3>1. {u \in Threads : pc[u] \in InHand} \subseteq others \cup Renderers
        BY HandsEngaged
      <3>2. others \cup Renderers \subseteq Threads
        BY DEF EngagedProducers, Threads
      <3> HIDE DEF others
      <3> QED BY <2>4, <3>1, <3>2, OwnedCount DEF RInv, IInv
    <2>6. /\ IsFiniteSet(full) /\ Cardinality(full) \in Nat
          /\ Cardinality(full) <= Len(m_queue_full) /\ Len(m_queue_full) \in Nat
      BY PendingFrames, QueueCount
    <2>7. 1 .. m_n_frame_count = full \cup Owned
      BY EmptyQueue DEF RInv, IInv, NoFrameLost
    <2>8. m_n_frame_count \in Nat /\ Cardinality(1 .. m_n_frame_count) = m_n_frame_count
      <3>1. m_n_frame_count \in Nat
        BY FramePoolAssumption DEF RInv, IInv, TypeOK
      <3> QED BY <3>1, FS_Interval
    <2> HIDE DEF full, others
    <2>9. m_n_frame_count <= Cardinality(full) + Cardinality(Owned)
      <3>1. Cardinality(full \cup Owned)
              = Cardinality(full) + Cardinality(Owned) - Cardinality(full \cap Owned)
        BY <2>5, <2>6, FS_Union
      <3>2. Cardinality(full \cap Owned) \in Nat
        BY <2>6, FS_Intersection, FS_CardinalityType
      <3>3. Cardinality(full \cup Owned) = m_n_frame_count
        BY <2>7, <2>8
      <3> QED BY <2>5, <2>6, <2>8, <3>1, <3>2, <3>3
    <2>10. Len(m_queue_full) + Cardinality(EngagedProducers) <= Cardinality(Producers)
      BY DEF BacklogBound
    <2> QED BY <2>1, <2>2, <2>5, <2>6, <2>8, <2>9, <2>10
  <1> QED BY BacklogInvariant, <1>1, PTL
=============================================================================
