---------------------------- MODULE PoolLifeProofs ----------------------------
(***************************************************************************)
(* For any number of producers and pool objects: when the application lets  *)
(* no create, destory or close overlap a put, every put and every draw      *)
(* works on a complete pool, and the application is told the truth.         *)
(***************************************************************************)
EXTENDS PoolLife, TLAPS

\* Where the GL thread is decides what pc_framebuffer is.
Placed ==
    /\ pc = "draw" <=> call = "draw"
    /\ call \in {"none", "draw"} =>
          IF has_pool THEN Ready(pc_framebuffer) ELSE pc_framebuffer = NULL
    /\ pc = "draw" => has_pool
    /\ pc \in {"drop", "replace", "empty", "delete", "forget", "fill"} => pc_framebuffer \in Pools
    /\ pc \in {"new", "return"} => pc_framebuffer = NULL
    /\ pc = "forget" => heap[pc_framebuffer] = "free"
    /\ call \in Calls => ~has_pool

\* A put in progress is on the pool the application has, and excludes the calls
\* that would take it away.
PutsPlaced ==
    \A p \in Producers : put[p] # "idle" =>
        call \notin Calls /\ has_pool /\ this[p] = pc_framebuffer

\* What holds whatever overlaps.
GLInv == TypeOK /\ Placed /\ NoPoolLost

\* All of it holds initially.
LEMMA InitInv == Init => GLInv /\ PutsPlaced
BY PoolLifeAssumption
   DEF Init, GLInv, TypeOK, Placed, PutsPlaced, NoPoolLost, Ready, Calls

\* Every step keeps the types.
LEMMA TypeStep == GLInv /\ Next => TypeOK'
<1> SUFFICES ASSUME GLInv, Next PROVE TypeOK'
    OBVIOUS
<1> USE DEF GLInv, TypeOK, Calls
<1>1. CASE MWInitRender
    BY <1>1 DEF MWInitRender, producers
<1>2. CASE MWCreateFrameBuffer
    BY <1>2 DEF MWCreateFrameBuffer, Start, producers
<1>3. CASE MWDestoryFrameBuffer
    BY <1>3 DEF MWDestoryFrameBuffer, Start, producers
<1>4. CASE MWDeInitRender
    BY <1>4 DEF MWDeInitRender, Start, producers
<1>5. CASE MWRenderFrame
    BY <1>5 DEF MWRenderFrame, Start, producers
<1>6. CASE DropPool
    BY <1>6 DEF DropPool, Placed, Set, Goto, producers
<1>7. CASE ReplacePool
    BY <1>7 DEF ReplacePool, Placed, Goto, producers
<1>8. CASE NewPool
    BY <1>8 DEF NewPool, Set, Goto, producers
<1>9. CASE FillPool
    BY <1>9 DEF FillPool, Set, Goto, Return, producers
<1>10. CASE EmptyPool
    BY <1>10 DEF EmptyPool, Set, Goto, producers
<1>11. CASE DeletePool
    BY <1>11 DEF DeletePool, Set, Goto, producers
<1>12. CASE ForgetPool
    BY <1>12 DEF ForgetPool, Return, producers
<1>13. CASE Returned \/ FrameDrawn
    BY <1>13 DEF Returned, FrameDrawn, Return, producers
<1>14. ASSUME NEW p \in Producers,
              MWPutFrameBufferQueue(p) \/ EnterPool(p) \/ LeavePool(p)
       PROVE  TypeOK'
    BY <1>14 DEF MWPutFrameBufferQueue, EnterPool, LeavePool, glThread
<1>15. QED
    BY <1>1, <1>2, <1>3, <1>4, <1>5, <1>6, <1>7, <1>8, <1>9, <1>10, <1>11, <1>12,
       <1>13, <1>14 DEF Next

\* The GL thread's steps and the pool they leave.
LEMMA PlacedStep == GLInv /\ Next => Placed'
<1> SUFFICES ASSUME GLInv, Next PROVE Placed'
    OBVIOUS
<1> USE PoolLifeAssumption DEF GLInv, TypeOK, Placed, Ready, Calls
<1>1. CASE MWInitRender
    BY <1>1 DEF MWInitRender, producers
<1>2. CASE MWCreateFrameBuffer
    BY <1>2 DEF MWCreateFrameBuffer, Start, producers
<1>3. CASE MWDestoryFrameBuffer
    BY <1>3 DEF MWDestoryFrameBuffer, Start, producers
<1>4. CASE MWDeInitRender
    BY <1>4 DEF MWDeInitRender, Start, producers
<1>5. CASE MWRenderFrame
    BY <1>5 DEF MWRenderFrame, Start, producers
<1>6. CASE DropPool
    BY <1>6 DEF DropPool, Set, Goto, producers
<1>7. CASE ReplacePool
    BY <1>7 DEF ReplacePool, Goto, producers
<1>8. CASE NewPool
    BY <1>8 DEF NewPool, Set, Goto, producers
<1>9. CASE FillPool
    BY <1>9 DEF FillPool, Set, Goto, Return, producers
<1>10. CASE EmptyPool
    BY <1>10 DEF EmptyPool, Set, Goto, producers
<1>11. CASE DeletePool
    BY <1>11 DEF DeletePool, Set, Goto, producers
<1>12. CASE ForgetPool
    BY <1>12 DEF ForgetPool, Return, producers
<1>13. CASE Returned \/ FrameDrawn
    BY <1>13 DEF Returned, FrameDrawn, Return, producers
<1>14. ASSUME NEW p \in Producers,
              MWPutFrameBufferQueue(p) \/ EnterPool(p) \/ LeavePool(p)
       PROVE  Placed'
    BY <1>14 DEF MWPutFrameBufferQueue, EnterPool, LeavePool, glThread
<1>15. QED
    BY <1>1, <1>2, <1>3, <1>4, <1>5, <1>6, <1>7, <1>8, <1>9, <1>10, <1>11, <1>12,
       <1>13, <1>14 DEF Next

\* Without an overlap no put is in progress while the pool changes.
LEMMA PutsStep == Overlap = {} /\ GLInv /\ PutsPlaced /\ Next => PutsPlaced'
<1> SUFFICES ASSUME Overlap = {}, GLInv, PutsPlaced, Next PROVE PutsPlaced'
    OBVIOUS
<1> USE DEF GLInv, TypeOK, Placed, PutsPlaced, Calls
<1>1. CASE MWInitRender
    BY <1>1 DEF MWInitRender, producers
<1>2. CASE MWCreateFrameBuffer \/ MWDestoryFrameBuffer \/ MWDeInitRender
    BY <1>2 DEF MWCreateFrameBuffer, MWDestoryFrameBuffer, MWDeInitRender, Start,
                producers
<1>3. CASE MWRenderFrame
    BY <1>3 DEF MWRenderFrame, Start, producers
<1>4. CASE DropPool \/ ReplacePool \/ NewPool \/ EmptyPool \/ DeletePool
    BY <1>4 DEF DropPool, ReplacePool, NewPool, EmptyPool, DeletePool, Goto, producers
<1>5. CASE FillPool \/ ForgetPool \/ Returned
    BY <1>5 DEF FillPool, ForgetPool, Returned, Goto, Return, producers
<1>6. CASE FrameDrawn
    BY <1>6 DEF FrameDrawn, Return, producers
<1>7. ASSUME NEW p \in Producers, MWPutFrameBufferQueue(p) PROVE PutsPlaced'
    BY <1>7 DEF MWPutFrameBufferQueue, Allowed, glThread, Ready
<1>8. ASSUME NEW p \in Producers, EnterPool(p) PROVE PutsPlaced'
    BY <1>8 DEF EnterPool, glThread
<1>9. ASSUME NEW p \in Producers, LeavePool(p) PROVE PutsPlaced'
    BY <1>9 DEF LeavePool, glThread
<1>10. QED
    BY <1>1, <1>2, <1>3, <1>4, <1>5, <1>6, <1>7, <1>8, <1>9 DEF Next

\* The objects that are neither held nor replaced are free.
LEMMA LostStep == GLInv /\ Next => NoPoolLost'
<1> SUFFICES ASSUME GLInv, Next PROVE NoPoolLost'
    OBVIOUS
<1> USE DEF GLInv, TypeOK, Placed, NoPoolLost
<1>1. CASE MWInitRender \/ MWCreateFrameBuffer \/ MWDestoryFrameBuffer
           \/ MWDeInitRender \/ MWRenderFrame \/ Returned \/ FrameDrawn
    BY <1>1 DEF MWInitRender, MWCreateFrameBuffer, MWDestoryFrameBuffer,
                MWDeInitRender, MWRenderFrame, Returned, FrameDrawn
<1>2. CASE DropPool
    BY <1>2 DEF DropPool, Set
<1>3. CASE ReplacePool
    BY <1>3 DEF ReplacePool
<1>4. CASE NewPool
    BY <1>4, PoolLifeAssumption DEF NewPool, Set
<1>5. CASE FillPool
    BY <1>5 DEF FillPool, Set
<1>6. CASE EmptyPool \/ DeletePool
    BY <1>6 DEF EmptyPool, DeletePool, Set
<1>7. CASE ForgetPool
    BY <1>7 DEF ForgetPool
<1>8. ASSUME NEW p \in Producers,
             MWPutFrameBufferQueue(p) \/ EnterPool(p) \/ LeavePool(p)
      PROVE  NoPoolLost'
    BY <1>8 DEF MWPutFrameBufferQueue, EnterPool, LeavePool, glThread
<1>9. QED
    BY <1>1, <1>2, <1>3, <1>4, <1>5, <1>6, <1>7, <1>8 DEF Next

LEMMA GLInvStep == GLInv /\ [Next]_vars => GLInv'
<1>1. CASE Next
    BY <1>1, TypeStep, PlacedStep, LostStep DEF GLInv
<1>2. CASE UNCHANGED vars
    BY <1>2 DEF GLInv, TypeOK, Placed, NoPoolLost, Ready, vars, glThread, producers
<1>3. QED
    BY <1>1, <1>2

\* The variables keep their types, and the GL thread is between calls when no
\* step of one is next.
THEOREM TypeCorrect == Spec => []TypeOK
<1>1. Init => GLInv
    BY InitInv
<1>2. GLInv => TypeOK
    BY DEF GLInv
<1>3. QED
    BY <1>1, <1>2, GLInvStep, PTL DEF Spec

\* Whatever overlaps, only a replaced pool object is never deleted.
THEOREM OnlyReplacedPoolsAreLost == Spec => []NoPoolLost
<1>1. Init => GLInv
    BY InitInv
<1>2. GLInv => NoPoolLost
    BY DEF GLInv
<1>3. QED
    BY <1>1, <1>2, GLInvStep, PTL DEF Spec

\* Whatever overlaps, the application is told the truth about its pool.
THEOREM PoolsAreAsTold == Spec => []PoolAsTold
<1>1. Init => GLInv
    BY InitInv
<1>2. GLInv => PoolAsTold
    BY DEF GLInv, Placed, PoolAsTold
<1>3. QED
    BY <1>1, <1>2, GLInvStep, PTL DEF Spec

\* When no create, destory or close overlaps a put, every put and every draw
\* works on a complete pool from the test of pc_framebuffer to its return.
THEOREM UsedPoolsAreReady ==
    ASSUME Overlap = {} PROVE Spec => []UsedPoolIsReady
<1>1. Init => GLInv /\ PutsPlaced
    BY InitInv
<1>2. GLInv /\ PutsPlaced /\ [Next]_vars => (GLInv /\ PutsPlaced)'
    <2>1. CASE Next
        BY <2>1, GLInvStep, PutsStep
    <2>2. CASE UNCHANGED vars
        BY <2>2, GLInvStep DEF PutsPlaced, vars, glThread, producers
    <2>3. QED
        BY <2>1, <2>2
<1>3. GLInv /\ PutsPlaced => UsedPoolIsReady
    BY DEF GLInv, TypeOK, Placed, PutsPlaced, UsedPoolIsReady, Calls
<1>4. QED
    BY <1>1, <1>2, <1>3, PTL DEF Spec
=============================================================================
