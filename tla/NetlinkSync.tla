----------------------------- MODULE NetlinkSync -----------------------------
(***************************************************************************)
(* Synchronous requests of NetlinkManager (net/netlink_manager.cpp), and   *)
(* the retry of GetWiphyIndex and GetWiphyInfo (net/netlink_utils.cpp).    *)
(*                                                                         *)
(* wificond's only thread sends a request on the synchronous socket and    *)
(* polls until the reply is complete or four seconds are over.  The        *)
(* handler in message_handlers_ holds a pointer to a vector in the frame   *)
(* of the waiting caller.  A reply that comes too late stays in the socket *)
(* and is read while the thread waits for the answer to a later request.   *)
(***************************************************************************)
EXTENDS Naturals, Sequences, SequencesExt

CONSTANTS
    NumberMod,    \* sequence numbers are kept modulo this, 2^32 in the code
    DumpParts,    \* data messages of the reply to a dump request
    RetryCount,   \* kNl80211CmdRetryCount
    MaxDrawn      \* bound on the sequence numbers a process draws

ASSUME NetlinkAssumption ==
    /\ NumberMod \in Nat /\ NumberMod > 2
    /\ DumpParts \in Nat \ {0}
    /\ RetryCount \in Nat
    /\ MaxDrawn \in Nat

VARIABLES
    seq,       \* sequence_number_
    drawn,     \* calls of GetSequenceNumber so far; names the requests
    call,      \* the call the thread is in, or NoCall
    handlers,  \* message_handlers_: sequence numbers, each with the request
               \* into whose vector the handler appends
    response,  \* that vector: the messages it holds
    jobs,      \* what the kernel has still to send, one entry for a request
    socket,    \* datagrams in the synchronous socket
    result     \* how the last call ended

vars == <<seq, drawn, call, handlers, response, jobs, socket, result>>

kBroadcastSequenceNumber == 0

Numbers == 0..(NumberMod - 1)

\* A dump is answered in several messages, the others in one: "info" is
\* GetWiphyInfo's request to a kernel that does not split the dump, "single"
\* stands for the wrappers that expect one message, be it data or an ACK.
Kinds == {"dump", "info", "single"}

\* error: the kernel refuses the request.  left: the retries left.
NoCall == [id |-> 0, seq |-> 0, kind |-> "single", error |-> FALSE,
           left |-> 0, attempt |-> 0]

\* Part 0 is NLMSG_DONE; multi is NLM_F_MULTI; error is an NLMSG_ERROR whose
\* code is not 0.
Message == [id: 1..MaxDrawn, seq: Numbers, part: 0..DumpParts,
            multi: BOOLEAN, error: BOOLEAN]

TypeOK ==
    /\ seq \in Numbers
    /\ drawn \in 0..MaxDrawn
    /\ call \in [id: 0..MaxDrawn, seq: Numbers, kind: Kinds, error: BOOLEAN,
                 left: 0..RetryCount, attempt: 0..(RetryCount + 1)]
    /\ handlers \subseteq [seq: Numbers, id: 1..MaxDrawn]
    /\ response \in Seq(Message)
    /\ jobs \in Seq(Seq(Message))
    /\ socket \in Seq(Seq(Message))
    /\ result.ok \in BOOLEAN

NoResult == [ok |-> FALSE, call |-> NoCall, response |-> <<>>]

Init ==
    /\ seq = 0
    /\ drawn = 0
    /\ call = NoCall
    /\ handlers = {}
    /\ response = <<>>
    /\ jobs = <<>>
    /\ socket = <<>>
    /\ result = NoResult

-----------------------------------------------------------------------------
(***************************************************************************)
(* Sending                                                                 *)
(***************************************************************************)

\* Mutant: the number does not advance.
GetSequenceNumberStuck ==
    IF seq = kBroadcastSequenceNumber THEN seq + 1 ELSE seq

\* The number GetSequenceNumber returns and keeps.
GetSequenceNumber ==
    LET next == (seq + 1) % NumberMod
    IN  IF next = kBroadcastSequenceNumber THEN next + 1 ELSE next

\* A process draws a bounded number of sequence numbers, and no reply is so
\* late that the numbers have come round meanwhile.
CanDraw ==
    /\ drawn < MaxDrawn
    /\ \A d \in Range(jobs) \cup Range(socket) :
           \A m \in Range(d) : drawn + 1 - m.id < NumberMod - 1

\* The messages the kernel answers a request with.
Reply(c) ==
    LET message(p) == [id |-> c.id, seq |-> c.seq, part |-> p,
                       multi |-> c.kind = "dump" /\ ~c.error,
                       error |-> c.error]
    IN  IF c.kind = "dump" /\ ~c.error
        THEN [p \in 1..(DumpParts + 1) |-> message(p % (DumpParts + 1))]
        ELSE <<message(1)>>

\* netlink_manager.h: "Kernel will reply error message when we start a new
\* request in the middle of a dump request."  Otherwise it may accept or refuse.
Verdicts(kind) ==
    IF kind = "dump" /\ \E j \in DOMAIN jobs : Head(jobs[j]).multi
    THEN {TRUE} ELSE BOOLEAN

\* A request goes out, after failed attempts of sendto in a caller that
\* retries.
SendMessageAndGetResponses(kind, retries) ==
    /\ call = NoCall
    /\ CanDraw
    /\ seq' = GetSequenceNumber
    /\ drawn' = drawn + 1
    /\ \E failed \in 0..retries, error \in Verdicts(kind) :
          call' = [id |-> drawn', seq |-> seq', kind |-> kind, error |-> error,
                   left |-> retries - failed, attempt |-> failed + 1]
    /\ handlers' = {h \in handlers : h.seq # seq'} \cup
                       {[seq |-> seq', id |-> drawn']}
    /\ response' = <<>>
    /\ jobs' = Append(jobs, Reply(call'))
    /\ UNCHANGED <<socket, result>>

\* No sendto succeeds, or the interface has no index: nothing is registered.
SendFails ==
    /\ call = NoCall
    /\ CanDraw
    /\ seq' = GetSequenceNumber
    /\ drawn' = drawn + 1
    /\ result' = NoResult
    /\ UNCHANGED <<call, handlers, response, jobs, socket>>

-----------------------------------------------------------------------------
(***************************************************************************)
(* Receiving                                                               *)
(***************************************************************************)

\* The wrappers for one message insist on exactly one, and no caller takes an
\* error for an answer.
Accepts(c, r) ==
    /\ c.kind = "single" => Len(r) = 1
    /\ \A m \in Range(r) : ~m.error

Returns(ok, r) ==
    /\ call' = NoCall
    /\ result' = [ok |-> ok /\ Accepts(call, r), call |-> call, response |-> r]
    /\ response' = <<>>

\* Mutant: the handler stays registered.
EraseNothing(hs) == hs

Erase(hs) == {h \in hs : h.seq # call.seq}

\* The caller gives up, having no retry left or no sendto that succeeds.
GiveUp(r) ==
    /\ Returns(FALSE, r)
    /\ handlers' = Erase(handlers)
    /\ UNCHANGED jobs

\* The same packet goes out again, with the same number, and its reply into the
\* same vector, which keeps the messages r it has.
Resend(r) ==
    /\ \E k \in 1..call.left, error \in Verdicts(call.kind) :
          call' = [call EXCEPT !.left = @ - k, !.attempt = @ + k,
                               !.error = error]
    /\ handlers' = Erase(handlers) \cup {[seq |-> call.seq, id |-> call.id]}
    /\ response' = r
    /\ jobs' = Append(jobs, Reply(call'))
    /\ UNCHANGED result

\* poll times out, or fails.
Timeout ==
    /\ call # NoCall
    /\ GiveUp(response) \/ Resend(response)
    /\ UNCHANGED <<seq, drawn, socket>>

\* Mutant: only the first message of a datagram is handled.
AppendedFirst(datagram) ==
    IF Head(datagram).part = 0 THEN <<>> ELSE <<Head(datagram)>>

\* What AppendPacket adds to the vector: NLMSG_DONE, the last message of a
\* reply, is not handed to it.
Appended(datagram) == IF Last(datagram).part = 0 THEN Front(datagram) ELSE datagram

\* NLMSG_DONE, and a message that is not part of a multipart one, remove the
\* handler.
Completes(datagram) == \E m \in Range(datagram) : m.part = 0 \/ ~m.multi

\* The messages of a datagram are of one reply.  Without a handler for their
\* number they are dropped.
ReceivePacketAndRunHandler ==
    /\ call # NoCall
    /\ socket # <<>>
    /\ socket' = Tail(socket)
    /\ LET d == Head(socket)
           r == response \o Appended(d)
           handled == \E h \in handlers : h.seq = Head(d).seq
       IN  \/ /\ ~handled
              /\ UNCHANGED <<call, handlers, response, jobs, result>>
           \/ /\ handled /\ ~Completes(d)
              /\ response' = r
              /\ UNCHANGED <<call, handlers, jobs, result>>
           \/ /\ handled /\ Completes(d)
              /\ Returns(TRUE, r)
              /\ handlers' = Erase(handlers)
              /\ UNCHANGED jobs
           \/ /\ handled /\ Completes(d)   \* but the time is up
              /\ GiveUp(r) \/ Resend(r)
    /\ UNCHANGED <<seq, drawn>>

-----------------------------------------------------------------------------
(***************************************************************************)
(* The kernel answers the requests in order, but for a dump, which goes on *)
(* while others are answered.  A datagram holds some messages of a reply.  *)
(***************************************************************************)

KernelReplies ==
    /\ \E j \in DOMAIN jobs :
          /\ \A i \in 1..(j - 1) : Head(jobs[i]).multi
          /\ \E n \in 1..Len(jobs[j]) :
                /\ socket' = Append(socket, SubSeq(jobs[j], 1, n))
                /\ jobs' = IF n = Len(jobs[j]) THEN RemoveAt(jobs, j)
                           ELSE [jobs EXCEPT ![j] = SubSeq(@, n + 1, Len(@))]
    /\ UNCHANGED <<seq, drawn, call, handlers, response, result>>

\* init starts the process anew, with new sockets.
Restart ==
    /\ seq' = 0
    /\ drawn' = 0
    /\ call' = NoCall
    /\ handlers' = {}
    /\ response' = <<>>
    /\ jobs' = <<>>
    /\ socket' = <<>>
    /\ result' = NoResult

Next ==
    \/ \E kind \in {"dump", "info"} : SendMessageAndGetResponses(kind, RetryCount)
    \/ \E kind \in {"dump", "single"} : SendMessageAndGetResponses(kind, 0)
    \/ SendFails
    \/ Timeout
    \/ ReceivePacketAndRunHandler
    \/ KernelReplies
    \/ Restart

Spec == Init /\ [][Next]_vars

-----------------------------------------------------------------------------
(***************************************************************************)
(* Properties                                                              *)
(***************************************************************************)

\* A handler in message_handlers_ belongs to the call the thread is in: once a
\* call has returned, no late reply writes into its vector.
HandlersOnStack ==
    \A h \in handlers : call # NoCall /\ h.id = call.id /\ h.seq = call.seq

\* What a call collects answers its own request, whatever replies to requests
\* that were given up are still in the socket.
NoCrossTalk ==
    \A m \in Range(response) : m.id = call.id

\* netlink_manager.h: GetSequenceNumber returns "a sequence number available
\* for use": no request goes out with the number of multicast messages, whose
\* replies would be taken for events.
NotBroadcast == call # NoCall => call.seq # kBroadcastSequenceNumber

\* A call that succeeds in its first attempt returns the messages of its reply,
\* all of them but NLMSG_DONE and in their order, however they were cut into
\* datagrams, and the kernel has not refused the request.
RepliesComplete ==
    result.ok /\ result.call.attempt = 1 =>
        /\ result.response = SubSeq(Reply(result.call), 1,
               IF result.call.kind = "dump" THEN DumpParts ELSE 1)
        /\ ~result.call.error

\* netlink_manager.h: "Returns true on successfully receiving an valid reply.
\* Reply packets will be stored in |*response|."  A call that succeeds returns
\* one reply, also after a retry.
OneReply ==
    result.ok => Len(result.response) =
                     IF result.call.kind = "dump" THEN DumpParts ELSE 1

=============================================================================
