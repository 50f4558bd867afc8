----------------------------- MODULE FrameStream -----------------------------
(***************************************************************************)
(* What the frame buffer pool promises its application, without buffers,   *)
(* mutexes or calls in progress: a queue of frames that each queue mode    *)
(* shortens in its own way, and that never loses the newest frame.         *)
(*                                                                         *)
(*   FIFO           frames arrive at the end and are drawn from the front; *)
(*                  nothing is ever discarded.                             *)
(*   RELAXED_FIFO   the newest waiting frame may be replaced where it is.  *)
(*   MAILBOX        a producer may discard the oldest waiting frame, and   *)
(*                  then any number of the others, if it adds a frame of   *)
(*                  its own afterwards.                                    *)
(*   IMMEDIATE      a producer may take the oldest waiting frame away, and *)
(*                  then replaces all that is waiting by its own frame.    *)
(***************************************************************************)
EXTENDS Naturals, Sequences

CONSTANTS Producers, Modes, MaxPuts, NoValue

VARIABLES
    mode,       \* the queue mode in force
    pending,    \* the frames waiting to be drawn, oldest first
    indebted,   \* the producers that discarded a frame and owe a newer one
    published,  \* per producer, its last frame that entered the queue
    delivered,  \* per producer, its last frame that was drawn
    newest      \* the frame that entered the queue last

vars == <<mode, pending, indebted, published, delivered, newest>>

Discarding == {"MAILBOX", "IMMEDIATE"}
Back(s) == s[Len(s)]

Init ==
    /\ mode \in Modes
    /\ pending = <<>>
    /\ indebted = {}
    /\ published = [p \in Producers |-> 0]
    /\ delivered = [p \in Producers |-> 0]
    /\ newest = NoValue

\* The pool is created anew or destroyed: frames that wait are dropped.
Reset ==
    /\ indebted = {}
    /\ mode' \in Modes
    /\ pending' = <<>>
    /\ newest' = NoValue
    /\ UNCHANGED <<indebted, published, delivered>>

\* Producer p queues its frame n, which is newer than all it queued before.
\* Whatever it owed is paid.
Enters(p, n) ==
    /\ n > published[p]
    /\ published' = [published EXCEPT ![p] = n]
    /\ newest' = <<p, n>>
    /\ indebted' = indebted \ {p}
    /\ UNCHANGED <<mode, delivered>>

Arrive(p, n) ==
    /\ Enters(p, n)
    /\ p \in indebted => mode = "MAILBOX"
    /\ pending' = Append(pending, <<p, n>>)

Replace(p, n) ==
    /\ mode = "RELAXED_FIFO"
    /\ pending # <<>>
    /\ Enters(p, n)
    /\ pending' = [pending EXCEPT ![Len(pending)] = <<p, n>>]

Supersede(p, n) ==
    /\ mode = "IMMEDIATE"
    /\ p \in indebted
    /\ Enters(p, n)
    /\ pending' = <<<<p, n>>>>

\* Producer p makes room at the expense of the oldest frame that waits.
DiscardOldest(p) ==
    /\ mode \in Discarding
    /\ pending # <<>>
    /\ pending' = Tail(pending)
    /\ indebted' = indebted \cup {p}
    /\ UNCHANGED <<mode, published, delivered, newest>>

\* A producer that owes a frame clears the queue before it adds it.
DiscardAll ==
    /\ mode = "MAILBOX"
    /\ indebted # {}
    /\ pending' = <<>>
    /\ UNCHANGED <<mode, indebted, published, delivered, newest>>

Deliver ==
    /\ pending # <<>>
    /\ LET v == Head(pending) IN delivered' = [delivered EXCEPT ![v[1]] = v[2]]
    /\ pending' = Tail(pending)
    /\ UNCHANGED <<mode, indebted, published, newest>>

Next ==
    \/ Reset
    \/ Deliver
    \/ DiscardAll
    \/ \E p \in Producers :
          \/ DiscardOldest(p)
          \/ \E n \in 1 .. MaxPuts : Arrive(p, n) \/ Replace(p, n) \/ Supersede(p, n)

Spec == Init /\ [][Next]_vars

-----------------------------------------------------------------------------
\* While nobody owes a frame, the newest one is drawn or still waiting: the
\* frame a viewer sees last is never older than the last one put.
NewestKept ==
    newest # NoValue /\ indebted = {} =>
        \/ delivered[newest[1]] >= newest[2]
        \/ pending # <<>> /\ Back(pending) = newest
=============================================================================
