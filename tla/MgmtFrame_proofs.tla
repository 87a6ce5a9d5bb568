-------------------------- MODULE MgmtFrame_proofs --------------------------
(***************************************************************************)
(* Proofs about MgmtFrame: for any set of frames, any framework and any    *)
(* length of the event queue, a callback is called at most once and hears  *)
(* of its own frame.                                                       *)
(***************************************************************************)
EXTENDS MgmtFrame, TLAPS

\* What the object's three members say together: while a transmission is in
\* progress the cookie is that of the frame whose callback the handler holds,
\* and that callback has not been called.
SlotSound ==
    frame_tx_in_progress =>
        /\ handler \in Frames
        /\ frame_tx_status_cookie = handler
        /\ outcome[handler] = "waiting"

IInv == TypeOK /\ SlotSound /\ AckIsOwn

\* The constructor's state satisfies the inductive invariant.
LEMMA InitIInv == Init => IInv
<1> SUFFICES ASSUME Init PROVE IInv
    OBVIOUS
<1> USE DEF Init
<1>1. TypeOK
    <2>1. /\ alive \in BOOLEAN
          /\ frame_tx_in_progress \in BOOLEAN
        OBVIOUS
    <2>2. /\ frame_tx_status_cookie \in Frames \cup {NoFrame}
          /\ handler \in Frames \cup {NoFrame}
        OBVIOUS
    <2>3. outcome \in [Frames -> {"unsent", "waiting"} \cup Told]
        OBVIOUS
    <2>4. /\ pending \subseteq Frames \cup {Other}
          /\ acked \subseteq Frames
          /\ events \in Seq(Frames \cup {Other})
        OBVIOUS
    <2> QED
        BY <2>1, <2>2, <2>3, <2>4 DEF TypeOK
<1>2. SlotSound /\ AckIsOwn
    BY DEF SlotSound, AckIsOwn
<1> QED
    BY <1>1, <1>2 DEF IInv

\* Each action, and a stuttering step, preserves the inductive invariant.
LEMMA NextIInv == IInv /\ [Next]_vars => IInv'
<1> SUFFICES ASSUME IInv, [Next]_vars PROVE IInv'
    OBVIOUS
<1> USE FrameAssumption DEF IInv, TypeOK, SlotSound, AckIsOwn, Told
<1>1. CASE UNCHANGED vars
    BY <1>1 DEF vars, client
<1>2. ASSUME NEW f \in Frames, SendMgmtFrame(f) PROVE IInv'
    BY <1>2 DEF SendMgmtFrame, Sends
<1>3. ASSUME NEW f \in Frames, SendMgmtFrameFails(f) PROVE IInv'
    BY <1>3 DEF SendMgmtFrameFails, Sends, client
<1>4. ASSUME NEW f \in Frames, SendMgmtFrameAtMcs(f) PROVE IInv'
    BY <1>4 DEF SendMgmtFrameAtMcs, Sends, client
<1>5. CASE ReadEvent
    <2>1. Head(events) \in Frames \cup {Other}
        BY <1>5 DEF ReadEvent
    <2>2. Tail(events) \in Seq(Frames \cup {Other})
        BY <1>5 DEF ReadEvent
    <2>3. CASE UNCHANGED <<client, outcome>>
        BY <1>5, <2>2, <2>3 DEF ReadEvent, client
    <2>4. CASE OnFrameTxStatusEvent(Head(events), Head(events) \in acked)
        BY <1>5, <2>1, <2>2, <2>4 DEF ReadEvent, OnFrameTxStatusEvent
    <2> QED
        BY <1>5, <2>3, <2>4 DEF ReadEvent
<1>6. CASE CreateClientInterface
    BY <1>6 DEF CreateClientInterface
<1>7. CASE DestroyClientInterface
    BY <1>7 DEF DestroyClientInterface, client
<1>8. CASE OtherFrame
    BY <1>8 DEF OtherFrame, client
<1>9. ASSUME NEW f \in Frames \cup {Other}, TxStatus(f) PROVE IInv'
    BY <1>9 DEF TxStatus, client
<1> QED
    BY <1>1, <1>2, <1>3, <1>4, <1>5, <1>6, <1>7, <1>8, <1>9 DEF Next

\* The inductive invariant holds in every state.
THEOREM Invariance == Spec => []IInv
BY InitIInv, NextIInv, PTL DEF Spec

\* The variables have their types.
THEOREM TypeCorrect == Spec => []TypeOK
<1>1. IInv => TypeOK
    BY DEF IInv
<1> QED
    BY Invariance, <1>1, PTL

\* OnAck is called for a frame only if that frame was acknowledged.
THEOREM AckTrue == Spec => []AckIsOwn
<1>1. IInv => AckIsOwn
    BY DEF IInv
<1> QED
    BY Invariance, <1>1, PTL

\* A step changes nothing a sender has already been told.
LEMMA StepToldOnce ==
    IInv /\ [Next]_vars =>
        [\A f \in Frames : outcome[f] \in Told => outcome'[f] = outcome[f]]_vars
<1> SUFFICES ASSUME IInv, [Next]_vars, NEW g \in Frames, outcome[g] \in Told
             PROVE  outcome'[g] = outcome[g]
    OBVIOUS
<1> USE FrameAssumption DEF IInv, TypeOK, SlotSound, Told
<1>1. CASE UNCHANGED vars
    BY <1>1 DEF vars
<1>2. ASSUME NEW f \in Frames,
             \/ SendMgmtFrame(f) \/ SendMgmtFrameFails(f)
             \/ SendMgmtFrameAtMcs(f)
      PROVE  outcome'[g] = outcome[g]
    BY <1>2 DEF SendMgmtFrame, SendMgmtFrameFails, SendMgmtFrameAtMcs, Sends
<1>3. CASE ReadEvent
    BY <1>3 DEF ReadEvent, OnFrameTxStatusEvent
<1>4. CASE CreateClientInterface \/ DestroyClientInterface \/ OtherFrame
    BY <1>4 DEF CreateClientInterface, DestroyClientInterface, OtherFrame
<1>5. ASSUME NEW f \in Frames \cup {Other}, TxStatus(f)
      PROVE  outcome'[g] = outcome[g]
    BY <1>5 DEF TxStatus
<1> QED
    BY <1>1, <1>2, <1>3, <1>4, <1>5 DEF Next

\* No callback is called a second time.
THEOREM CalledOnce == Spec => ToldOnce
<1>1. Spec => [][Next]_vars
    BY PTL DEF Spec
<1> QED
    BY Invariance, <1>1, StepToldOnce, PTL DEF ToldOnce

=============================================================================
