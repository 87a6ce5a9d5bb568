----------------------------- MODULE MgmtFrame -----------------------------
(***************************************************************************)
(* ClientInterfaceImpl::SendMgmtFrame and the handler of frame TX status   *)
(* events (client_interface_impl.cpp).                                     *)
(*                                                                         *)
(* The kernel answers NL80211_CMD_FRAME with a cookie and later sends an   *)
(* event with the cookie and the outcome, for every frame of the interface *)
(* whoever sent it.  The object has room for one cookie and one callback.  *)
(***************************************************************************)
EXTENDS Naturals, Sequences

CONSTANTS
    Frames,       \* frames the framework sends
    SupportsMcs,  \* wiphy_features_.supports_tx_mgmt_frame_mcs
    Hurry,        \* what the framework does before the callback has come:
                  \* "send" the next frame, "destroy" the interface
    MaxEvents     \* bound on the events in the socket

\* A frame's cookie is named after the frame; Other stands for the frames that
\* other processes send on the interface.
Other == "other"
NoFrame == "none"

ASSUME FrameAssumption ==
    /\ Frames \cap {Other, NoFrame} = {}
    /\ SupportsMcs \in BOOLEAN
    /\ Hurry \subseteq {"send", "destroy"}
    /\ MaxEvents \in Nat

VARIABLES
    alive,                   \* the ClientInterfaceImpl exists
    frame_tx_in_progress,    \* frame_tx_in_progress_
    frame_tx_status_cookie,  \* frame_tx_status_cookie_, NoFrame for 0
    handler,                 \* whose callback on_frame_tx_status_event_handler_
                             \* calls, or NoFrame
    outcome,                 \* what the frame's sender has been told
    pending,                 \* frames the kernel is transmitting
    acked,                   \* frames that were acknowledged
    events                   \* status events in the asynchronous socket

client == <<frame_tx_in_progress, frame_tx_status_cookie, handler>>
vars == <<alive, client, outcome, pending, acked, events>>

Told == {"ack", "no_ack", "unknown", "mcs_unsupported"}

TypeOK ==
    /\ alive \in BOOLEAN
    /\ frame_tx_in_progress \in BOOLEAN
    /\ frame_tx_status_cookie \in Frames \cup {NoFrame}
    /\ handler \in Frames \cup {NoFrame}
    /\ outcome \in [Frames -> {"unsent", "waiting"} \cup Told]
    /\ pending \subseteq Frames \cup {Other}
    /\ acked \subseteq Frames
    /\ events \in Seq(Frames \cup {Other})

Init ==
    /\ alive = TRUE
    /\ frame_tx_in_progress = FALSE
    /\ frame_tx_status_cookie = NoFrame
    /\ handler = NoFrame
    /\ outcome = [f \in Frames |-> "unsent"]
    /\ pending = {}
    /\ acked = {}
    /\ events = <<>>

Waiting == {f \in Frames : outcome[f] = "waiting"}

-----------------------------------------------------------------------------
(***************************************************************************)
(* SendMgmtFrame                                                           *)
(***************************************************************************)

Sends(f) ==
    /\ outcome[f] = "unsent"
    /\ Waiting = {} \/ "send" \in Hurry
    /\ UNCHANGED <<alive, acked, events>>

\* Mutant: forgets to note that a frame is in progress.
SendMgmtFrameSilent(f) ==
    /\ alive
    /\ Sends(f)
    /\ pending' = pending \cup {f}
    /\ frame_tx_in_progress' = FALSE
    /\ frame_tx_status_cookie' = f
    /\ handler' = f
    /\ outcome' = [outcome EXCEPT ![f] = "waiting"]

\* The kernel takes the frame; the handler for an earlier one is replaced.
SendMgmtFrame(f) ==
    /\ alive
    /\ Sends(f)
    /\ pending' = pending \cup {f}
    /\ frame_tx_in_progress' = TRUE
    /\ frame_tx_status_cookie' = f
    /\ handler' = f
    /\ outcome' = [outcome EXCEPT ![f] = "waiting"]

\* The object is gone, or the kernel refuses, or it takes the frame and its
\* answer is late.
SendMgmtFrameFails(f) ==
    /\ Sends(f)
    /\ outcome' = [outcome EXCEPT ![f] = "unknown"]
    /\ \/ UNCHANGED pending
       \/ alive /\ pending' = pending \cup {f}
    /\ UNCHANGED client

SendMgmtFrameAtMcs(f) ==
    /\ alive
    /\ ~SupportsMcs
    /\ Sends(f)
    /\ outcome' = [outcome EXCEPT ![f] = "mcs_unsupported"]
    /\ UNCHANGED <<client, pending>>

-----------------------------------------------------------------------------
(***************************************************************************)
(* Status events                                                           *)
(***************************************************************************)

\* Mutants: any cookie will do; nothing is reset and any event is taken.
OnFrameTxStatusEventAnyCookie(cookie, was_acked) ==
    /\ frame_tx_in_progress
    /\ frame_tx_in_progress' = FALSE
    /\ frame_tx_status_cookie' = NoFrame
    /\ handler' = NoFrame
    /\ outcome' = IF handler = NoFrame THEN outcome
                  ELSE [outcome EXCEPT
                            ![handler] = IF was_acked THEN "ack" ELSE "no_ack"]
OnFrameTxStatusEventKeeps(cookie, was_acked) ==
    /\ UNCHANGED client
    /\ outcome' = IF handler = NoFrame THEN outcome
                  ELSE [outcome EXCEPT
                            ![handler] = IF was_acked THEN "ack" ELSE "no_ack"]

\* The lambda that the constructor subscribes.
OnFrameTxStatusEvent(cookie, was_acked) ==
    /\ frame_tx_in_progress /\ frame_tx_status_cookie = cookie
    /\ frame_tx_in_progress' = FALSE
    /\ frame_tx_status_cookie' = NoFrame
    /\ handler' = NoFrame
    /\ outcome' = [outcome EXCEPT
                       ![handler] = IF was_acked THEN "ack" ELSE "no_ack"]

\* An event for another frame, or for none, or without a subscriber is dropped.
ReadEvent ==
    /\ events # <<>>
    /\ LET cookie == Head(events) IN
       \/ /\ alive
          /\ OnFrameTxStatusEvent(cookie, cookie \in acked)
       \/ /\ ~alive \/ ~frame_tx_in_progress \/ frame_tx_status_cookie # cookie
          /\ UNCHANGED <<client, outcome>>
    /\ events' = Tail(events)
    /\ UNCHANGED <<alive, pending, acked>>

-----------------------------------------------------------------------------
(***************************************************************************)
(* The life of the object                                                  *)
(***************************************************************************)

CreateClientInterface ==
    /\ ~alive
    /\ alive' = TRUE
    /\ frame_tx_in_progress' = FALSE
    /\ frame_tx_status_cookie' = NoFrame
    /\ handler' = NoFrame
    /\ UNCHANGED <<outcome, pending, acked, events>>

DestroyClientInterface ==
    /\ alive
    /\ Waiting = {} \/ "destroy" \in Hurry
    /\ alive' = FALSE
    /\ UNCHANGED <<client, outcome, pending, acked, events>>

-----------------------------------------------------------------------------
(***************************************************************************)
(* The kernel                                                              *)
(***************************************************************************)

OtherFrame ==
    /\ pending' = pending \cup {Other}
    /\ UNCHANGED <<alive, client, outcome, acked, events>>

\* The transmission of f is over.
TxStatus(f) ==
    /\ f \in pending
    /\ Len(events) < MaxEvents
    /\ pending' = pending \ {f}
    /\ acked' \in {acked, acked \cup ({f} \ {Other})}
    /\ events' = Append(events, f)
    /\ UNCHANGED <<alive, client, outcome>>

Next ==
    \/ \E f \in Frames : \/ SendMgmtFrame(f)
                         \/ SendMgmtFrameFails(f)
                         \/ SendMgmtFrameAtMcs(f)
    \/ ReadEvent
    \/ CreateClientInterface
    \/ DestroyClientInterface
    \/ OtherFrame
    \/ \E f \in Frames \cup {Other} : TxStatus(f)

Spec == Init /\ [][Next]_vars

\* The event loop reads what is in the socket; the kernel ends every
\* transmission, also when the socket is full now and then.
LiveSpec ==
    /\ Spec
    /\ WF_vars(ReadEvent)
    /\ \A f \in Frames : SF_vars(TxStatus(f))

-----------------------------------------------------------------------------
(***************************************************************************)
(* Properties                                                              *)
(***************************************************************************)

\* A sender is told about an ACK only if the very frame was acknowledged: a
\* status event of another process's frame, of a frame that was given up or of
\* a frame sent by a former object is not taken for it.
AckIsOwn ==
    \A f \in Frames : outcome[f] = "ack" => f \in acked

\* A callback is called once: the status of a frame whose sender has been told
\* its outcome is not reported again.
ToldOnce ==
    [][\A f \in Frames : outcome[f] \in Told => outcome'[f] = outcome[f]]_vars

\* A sender whose frame the kernel has taken is told its outcome, unless the
\* framework itself sends another frame or destroys the interface first: the
\* status of other frames never uses the slot up.
AnsweredUnlessDisplaced ==
    \A f \in Frames : (outcome[f] = "waiting") ~>
                          (outcome[f] \in Told \/ handler # f \/ ~alive)

=============================================================================
