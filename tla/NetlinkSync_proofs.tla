------------------------- MODULE NetlinkSync_proofs -------------------------
(***************************************************************************)
(* Proofs about NetlinkSync: for any modulus of the sequence numbers, any  *)
(* length of a dump and any number of retries, no handler outlives the     *)
(* call whose vector it points into, no request has the number of          *)
(* multicast messages, what a call collects answers its request, and a     *)
(* first attempt that succeeds has the whole reply in order.               *)
(***************************************************************************)
EXTENDS NetlinkSync, SequenceTheorems, TLAPS

CallRecord == [id: Nat, seq: Nat, kind: Kinds, error: BOOLEAN,
               left: Nat, attempt: Nat]

\* The types of the variables that name a request, and that a request in
\* progress has a name: it tells a call from NoCall.
NamesOK ==
    /\ seq \in Nat
    /\ drawn \in Nat
    /\ call \in CallRecord
    /\ call # NoCall => call.id # 0

IInv == NamesOK /\ HandlersOnStack /\ NotBroadcast

\* GetSequenceNumber returns a number other than the broadcast one.
LEMMA NumberUsable ==
    ASSUME seq \in Nat
    PROVE  GetSequenceNumber \in Nat /\ GetSequenceNumber # kBroadcastSequenceNumber
<1>1. NumberMod \in Nat /\ NumberMod > 2
    BY NetlinkAssumption
<1>2. (seq + 1) % NumberMod \in Nat
    BY <1>1
<1> QED
    BY <1>2 DEF GetSequenceNumber, kBroadcastSequenceNumber

\* The state before the first request.
LEMMA InitIInv == Init => IInv
BY DEF Init, IInv, NamesOK, CallRecord, NoCall, Kinds, HandlersOnStack, NotBroadcast

\* A call that returns takes its handler with it.
LEMMA ReturnIInv ==
    ASSUME IInv, NEW ok \in BOOLEAN, NEW r, Returns(ok, r),
           handlers' = Erase(handlers), UNCHANGED <<seq, drawn>>
    PROVE  IInv'
<1>1. handlers' = {}
    BY DEF IInv, HandlersOnStack, Erase
<1>2. NamesOK'
    BY DEF IInv, NamesOK, Returns, NoCall, CallRecord, Kinds
<1> QED
    BY <1>1, <1>2 DEF IInv, HandlersOnStack, NotBroadcast, Returns

\* A request that is sent again keeps its number and its handler.
LEMMA ResendIInv ==
    ASSUME IInv, call # NoCall, NEW r, Resend(r), UNCHANGED <<seq, drawn>>
    PROVE  IInv'
<1>1. PICK k \in 1..call.left, error \in BOOLEAN :
          call' = [call EXCEPT !.left = @ - k, !.attempt = @ + k, !.error = error]
    BY DEF Resend, Verdicts
<1>2. call \in CallRecord
    BY DEF IInv, NamesOK
<1>3. /\ call' \in CallRecord
      /\ call'.id = call.id
      /\ call'.seq = call.seq
    <2>1. /\ call.left \in Nat /\ call.attempt \in Nat
          /\ call.id \in Nat /\ call.seq \in Nat /\ call.kind \in Kinds
        BY <1>2 DEF CallRecord
    <2>2. call.left - k \in Nat /\ call.attempt + k \in Nat
        BY <2>1
    <2>3. call' = [id |-> call.id, seq |-> call.seq, kind |-> call.kind,
                   error |-> error, left |-> call.left - k,
                   attempt |-> call.attempt + k]
        BY <1>1, <1>2 DEF CallRecord
    <2> QED
        BY <2>1, <2>2, <2>3 DEF CallRecord
<1>4. call' # NoCall
    BY <1>3 DEF IInv, NamesOK, NoCall
<1>5. \A h \in handlers' : h.id = call.id /\ h.seq = call.seq
    BY DEF Resend, Erase, IInv, HandlersOnStack
<1> QED
    BY <1>3, <1>4, <1>5 DEF IInv, NamesOK, HandlersOnStack, NotBroadcast

\* A step that leaves the call and the handlers alone.
LEMMA FrameIInv ==
    ASSUME IInv, UNCHANGED <<seq, drawn, call, handlers>>
    PROVE  IInv'
BY DEF IInv, NamesOK, HandlersOnStack, NotBroadcast

\* Each action, and a stuttering step, preserves the inductive invariant.
LEMMA NextIInv == IInv /\ [Next]_vars => IInv'
<1> SUFFICES ASSUME IInv, [Next]_vars PROVE IInv'
    OBVIOUS
<1>1. CASE UNCHANGED vars
    BY <1>1, FrameIInv DEF vars
<1>2. ASSUME NEW kind \in Kinds, NEW retries \in Nat,
             SendMessageAndGetResponses(kind, retries)
      PROVE  IInv'
    <2>1. /\ seq' \in Nat
          /\ seq' # kBroadcastSequenceNumber
          /\ drawn' \in Nat
          /\ drawn' # 0
        BY <1>2, NumberUsable DEF SendMessageAndGetResponses, IInv, NamesOK
    <2>2. PICK failed \in 0..retries, error \in BOOLEAN :
              call' = [id |-> drawn', seq |-> seq', kind |-> kind,
                       error |-> error, left |-> retries - failed,
                       attempt |-> failed + 1]
        BY <1>2 DEF SendMessageAndGetResponses, Verdicts
    <2>3. /\ call' \in CallRecord
          /\ call'.id = drawn'
          /\ call'.seq = seq'
        BY <2>1, <2>2 DEF CallRecord
    <2>4. call' # NoCall
        BY <2>1, <2>3 DEF NoCall
    <2>5. handlers = {}
        BY <1>2 DEF SendMessageAndGetResponses, IInv, HandlersOnStack
    <2>6. handlers' = {[seq |-> seq', id |-> drawn']}
        BY <1>2, <2>5 DEF SendMessageAndGetResponses
    <2> QED
        BY <2>1, <2>3, <2>4, <2>6
        DEF IInv, NamesOK, HandlersOnStack, NotBroadcast
<1>3. CASE SendFails
    <2>1. seq' \in Nat /\ drawn' \in Nat
        BY <1>3, NumberUsable DEF SendFails, IInv, NamesOK
    <2> QED
        BY <1>3, <2>1
        DEF SendFails, IInv, NamesOK, HandlersOnStack, NotBroadcast
<1>4. CASE Timeout
    BY <1>4, ReturnIInv, ResendIInv DEF Timeout, GiveUp
<1>5. CASE ReceivePacketAndRunHandler
    BY <1>5, FrameIInv, ReturnIInv, ResendIInv
    DEF ReceivePacketAndRunHandler, GiveUp
<1>6. CASE KernelReplies
    BY <1>6, FrameIInv DEF KernelReplies
<1>7. CASE Restart
    BY <1>7 DEF Restart, IInv, NamesOK, CallRecord, NoCall, Kinds,
                HandlersOnStack, NotBroadcast
<1>8. RetryCount \in Nat /\ 0 \in Nat
    BY NetlinkAssumption
<1>9. {"dump", "info"} \subseteq Kinds /\ {"dump", "single"} \subseteq Kinds
    BY DEF Kinds
<1> QED
    BY <1>1, <1>2, <1>3, <1>4, <1>5, <1>6, <1>7, <1>8, <1>9 DEF Next

\* The inductive invariant holds in every state.
THEOREM Invariance == Spec => []IInv
BY InitIInv, NextIInv, PTL DEF Spec

\* No handler in message_handlers_ outlives the frame its vector is in.
THEOREM HandlersSafe == Spec => []HandlersOnStack
<1>1. IInv => HandlersOnStack
    BY DEF IInv
<1> QED
    BY Invariance, <1>1, PTL

\* No request carries the number of multicast messages, also after the
\* numbers have come round.
THEOREM NumbersSafe == Spec => []NotBroadcast
<1>1. IInv => NotBroadcast
    BY DEF IInv
<1> QED
    BY Invariance, <1>1, PTL

-----------------------------------------------------------------------------
(***************************************************************************)
(* Replies.  The numbers come round, so that a reply has the number of the *)
(* present call says little by itself: it is of this call because fewer    *)
(* numbers were drawn since its request than there are.                    *)
(***************************************************************************)

Messages == [id: Nat, seq: Nat, part: Nat, multi: BOOLEAN, error: BOOLEAN]

\* The number the request had that was the k-th before the last, if less than
\* a round ago.
Earlier(k) == IF k < seq THEN seq - k ELSE seq - k + (NumberMod - 1)

InTime(m) ==
    /\ m.id \in 1..drawn
    /\ drawn - m.id < NumberMod - 1
    /\ m.seq = Earlier(drawn - m.id)

\* Some messages of one reply.
Datagrams ==
    {d \in Seq(Messages) :
        Len(d) > 0 /\ \A i \in 1..Len(d) : InTime(d[i]) /\ d[i].id = d[1].id}

TalkInv ==
    /\ seq \in Numbers
    /\ drawn > 0 => seq # 0
    /\ call # NoCall => call.id = drawn /\ call.seq = seq
    /\ call = NoCall => response = <<>>
    /\ response \in Seq(Messages)
    /\ jobs \in Seq(Datagrams)
    /\ socket \in Seq(Datagrams)
    /\ NoCrossTalk

\* The next number, after the highest one 1.
LEMMA NextNumber ==
    ASSUME seq \in Numbers
    PROVE  /\ GetSequenceNumber = IF seq = NumberMod - 1 THEN 1 ELSE seq + 1
           /\ GetSequenceNumber \in Numbers /\ GetSequenceNumber # 0
  <1>1. NumberMod \in Nat /\ NumberMod > 2
    BY NetlinkAssumption
  <1>2. CASE seq = NumberMod - 1
    <2>1. seq + 1 = NumberMod /\ NumberMod % NumberMod = 0
      BY <1>1, <1>2
    <2> QED BY <1>1, <1>2, <2>1 DEF GetSequenceNumber, kBroadcastSequenceNumber, Numbers
  <1>3. CASE seq # NumberMod - 1
    <2>1. seq + 1 \in 1..(NumberMod - 1)
      BY <1>1, <1>3 DEF Numbers
    <2>2. (seq + 1) % NumberMod = seq + 1
      BY <1>1, <2>1
    <2> QED BY <1>1, <1>3, <2>1, <2>2
            DEF GetSequenceNumber, kBroadcastSequenceNumber, Numbers
  <1> QED BY <1>2, <1>3

\* A message that is in time, and will be after another number is drawn, still
\* has the number of its request.
LEMMA DrawnInTime ==
    ASSUME seq \in Numbers, drawn \in Nat, drawn > 0 => seq # 0,
           seq' = GetSequenceNumber, drawn' = drawn + 1,
           NEW m \in Messages, InTime(m), drawn + 1 - m.id < NumberMod - 1
    PROVE  InTime(m)'
  <1>1. NumberMod \in Nat /\ NumberMod > 2
    BY NetlinkAssumption
  <1>2. seq' = IF seq = NumberMod - 1 THEN 1 ELSE seq + 1
    BY NextNumber
  <1>3. PICK k \in Nat : k = drawn - m.id
    BY DEF InTime, Messages
  <1>4. drawn' - m.id = k + 1 /\ k + 1 < NumberMod - 1 /\ m.id \in 1..drawn'
    BY <1>3 DEF InTime, Messages
  <1>5. seq \in 1..(NumberMod - 1)
    BY <1>1 DEF InTime, Numbers
  <1>6. m.seq = IF k < seq THEN seq - k ELSE seq - k + (NumberMod - 1)
    BY <1>3 DEF InTime, Earlier
  <1>7. m.seq = IF k + 1 < seq' THEN seq' - (k + 1)
                ELSE seq' - (k + 1) + (NumberMod - 1)
    <2>1. CASE seq = NumberMod - 1
      BY <1>1, <1>2, <1>3, <1>4, <1>6, <2>1
    <2>2. CASE seq # NumberMod - 1
      BY <1>1, <1>2, <1>3, <1>4, <1>5, <1>6, <2>2
    <2> QED BY <2>1, <2>2
  <1>8. NumberMod' = NumberMod
    OBVIOUS
  <1> QED BY <1>4, <1>7 DEF InTime, Earlier

LEMMA DrawKeeps ==
    ASSUME IInv, TalkInv, CanDraw, seq' = GetSequenceNumber, drawn' = drawn + 1
    PROVE  /\ jobs \in Seq(Datagrams') /\ socket \in Seq(Datagrams')
           /\ seq' \in Numbers /\ seq' # 0
  <1>0. drawn \in Nat /\ seq \in Numbers
    BY DEF IInv, NamesOK, TalkInv
  <1>1. ASSUME NEW d \in Datagrams, \A m \in Range(d) : drawn + 1 - m.id < NumberMod - 1
        PROVE  d \in Datagrams'
    <2>1. /\ d \in Seq(Messages) /\ Len(d) > 0
          /\ \A i \in 1..Len(d) : InTime(d[i]) /\ d[i].id = d[1].id
      BY DEF Datagrams
    <2>2. ASSUME NEW i \in 1..Len(d)
          PROVE  InTime(d[i])'
      <3>1. PICK m \in Messages : m = d[i]
        BY <2>1
      <3>2. m \in Range(d)
        BY <2>1, <3>1 DEF Range
      <3>3. InTime(m)'
        BY <1>0, <1>1, <2>1, <3>1, <3>2, DrawnInTime DEF TalkInv
      <3> QED BY <3>1, <3>3
    <2> QED BY <2>1, <2>2 DEF Datagrams
  <1>2. \A i \in 1..Len(jobs) : jobs[i] \in Datagrams'
    <2>1. ASSUME NEW i \in 1..Len(jobs)
          PROVE  jobs[i] \in Datagrams'
      <3>1. jobs[i] \in Datagrams /\ jobs[i] \in Range(jobs)
        BY DEF TalkInv, Range
      <3> QED BY <1>1, <3>1 DEF CanDraw
    <2> QED BY <2>1
  <1>3. \A i \in 1..Len(socket) : socket[i] \in Datagrams'
    <2>1. ASSUME NEW i \in 1..Len(socket)
          PROVE  socket[i] \in Datagrams'
      <3>1. socket[i] \in Datagrams /\ socket[i] \in Range(socket)
        BY DEF TalkInv, Range
      <3> QED BY <1>1, <3>1 DEF CanDraw
    <2> QED BY <2>1
  <1>4. jobs \in Seq(Datagrams') /\ socket \in Seq(Datagrams')
    <2>1. jobs \in Seq(Datagrams) /\ socket \in Seq(Datagrams)
      BY DEF TalkInv
    <2> HIDE DEF Datagrams
    <2> QED BY <1>2, <1>3, <2>1
  <1> QED BY <1>0, <1>4, NextNumber

\* A message with the name and the number that were drawn last is in time.
LEMMA LastInTime ==
    ASSUME NEW m, drawn' \in Nat, drawn' # 0, seq' \in Nat, seq' # 0,
           m.id = drawn', m.seq = seq'
    PROVE  InTime(m)'
  <1>1. ASSUME NEW x \in Nat, x # 0
        PROVE  x - x = 0 /\ x \in 1..x /\ 0 < x /\ x - 0 = x
    BY <1>1
  <1>2. 0 < NumberMod - 1
    BY NetlinkAssumption
  <1> QED BY <1>1, <1>2, Zenon DEF InTime, Earlier

\* The reply to the request that was sent last is in time.
LEMMA ReplyInTime ==
    ASSUME NEW c \in CallRecord, drawn' \in Nat, drawn' # 0, seq' \in Numbers, seq' # 0,
           c.id = drawn', c.seq = seq'
    PROVE  Reply(c) \in Datagrams'
  <1>1. NumberMod \in Nat /\ NumberMod > 2 /\ DumpParts \in Nat
    BY NetlinkAssumption
  <1>2. /\ c.id \in Nat /\ c.seq \in Nat /\ c.kind \in Kinds /\ c.error \in BOOLEAN
    BY DEF CallRecord
  <1>3. ASSUME NEW m \in Messages, m.id = c.id, m.seq = c.seq
        PROVE  InTime(m)'
    <2>1. seq' \in Nat
      BY <1>1 DEF Numbers
    <2> QED BY <1>3, <2>1, LastInTime
  <1> DEFINE message(p) == [id |-> c.id, seq |-> c.seq, part |-> p,
                            multi |-> c.kind = "dump" /\ ~c.error, error |-> c.error]
  <1>4. \A p \in Nat : /\ message(p) \in Messages
                       /\ message(p).id = c.id /\ message(p).seq = c.seq
    BY <1>2 DEF Messages
  <1>5. Reply(c) = IF c.kind = "dump" /\ ~c.error
                   THEN [p \in 1..(DumpParts + 1) |-> message(p % (DumpParts + 1))]
                   ELSE <<message(1)>>
    BY DEF Reply
  <1> HIDE DEF message
  <1>6. /\ Reply(c) \in Seq(Messages) /\ Len(Reply(c)) > 0
        /\ \A i \in 1..Len(Reply(c)) : Reply(c)[i].id = c.id /\ Reply(c)[i].seq = c.seq
    <2>1. CASE c.kind = "dump" /\ ~c.error
      <3>1. \A p \in 1..(DumpParts + 1) : p % (DumpParts + 1) \in Nat
        BY <1>1
      <3>2. Reply(c) = [p \in 1..(DumpParts + 1) |-> message(p % (DumpParts + 1))]
        BY <1>5, <2>1
      <3>3. /\ \A p \in 1..(DumpParts + 1) : Reply(c)[p] \in Messages
                 /\ Reply(c)[p].id = c.id /\ Reply(c)[p].seq = c.seq
        BY <1>4, <3>1, <3>2
      <3>4. Reply(c) \in [1..(DumpParts + 1) -> Messages]
        BY <3>2, <3>3
      <3>5. Len(Reply(c)) = DumpParts + 1 /\ Reply(c) \in Seq(Messages)
        BY <1>1, <3>4
      <3> QED BY <1>1, <3>3, <3>5
    <2>2. CASE ~(c.kind = "dump" /\ ~c.error)
      BY <1>4, <1>5, <2>2
    <2> QED BY <2>1, <2>2
  <1>7. PICK r \in Seq(Messages) : r = Reply(c)
    BY <1>6
  <1>8. \A i \in 1..Len(r) : InTime(r[i])' /\ r[i].id = r[1].id
    BY <1>3, <1>6, <1>7
  <1> QED BY <1>6, <1>7, <1>8 DEF Datagrams

\* A part of a datagram is one.
LEMMA PartOfDatagram ==
    ASSUME NEW d \in Datagrams, NEW a \in Nat, NEW b \in Nat, 1 <= a, a <= b, b <= Len(d)
    PROVE  SubSeq(d, a, b) \in Datagrams
  <1>1. /\ d \in Seq(Messages) /\ Len(d) \in Nat
        /\ \A i \in 1..Len(d) : InTime(d[i]) /\ d[i].id = d[1].id
    BY DEF Datagrams
  <1>2. PICK s : s = SubSeq(d, a, b)
    OBVIOUS
  <1>3. /\ s \in Seq(Messages) /\ Len(s) = b - a + 1
        /\ \A i \in 1..(b - a + 1) : s[i] = d[a + i - 1]
    <2>1. a \in Int /\ b \in Int /\ \A i \in a..b : d[i] \in Messages
      BY <1>1
    <2>2. /\ SubSeq(d, a, b) \in Seq(Messages)
          /\ Len(SubSeq(d, a, b)) = IF a <= b THEN b - a + 1 ELSE 0
          /\ \A i \in 1..(b - a + 1) : SubSeq(d, a, b)[i] = d[a + i - 1]
      BY <2>1, SubSeqProperties
    <2> QED BY <1>2, <2>2
  <1>4. \A i \in 1..(b - a + 1) : a + i - 1 \in 1..Len(d)
    BY <1>1
  <1>5. Len(s) > 0 /\ 1 \in 1..(b - a + 1)
    BY <1>3
  <1>6. \A i \in 1..Len(s) : InTime(s[i]) /\ s[i].id = s[1].id
    BY <1>1, <1>3, <1>4, <1>5
  <1> QED BY <1>2, <1>3, <1>5, <1>6 DEF Datagrams

\* Taking an entry out of a sequence: where the others are then.
LEMMA RemoveAtValue ==
    ASSUME NEW S, NEW s \in Seq(S), NEW j \in 1..Len(s)
    PROVE  /\ RemoveAt(s, j) \in Seq(S) /\ Len(RemoveAt(s, j)) = Len(s) - 1
           /\ \A k \in 1..(Len(s) - 1) :
                 RemoveAt(s, j)[k] = IF k < j THEN s[k] ELSE s[k + 1]
  <1>1. \A i \in 1..Len(s) : s[i] \in S
    OBVIOUS
  <1>2. Len(s) \in Nat /\ j \in Nat /\ 1 <= j /\ j <= Len(s)
    OBVIOUS
  <1>3. PICK a : a = SubSeq(s, 1, j - 1)
    OBVIOUS
  <1>4. a \in Seq(S) /\ Len(a) = j - 1 /\ \A i \in 1..(j - 1) : a[i] = s[i]
    <2>1. 1 \in Int /\ j - 1 \in Int /\ \A i \in 1..(j - 1) : s[i] \in S
      BY <1>1, <1>2
    <2>2. /\ SubSeq(s, 1, j - 1) \in Seq(S)
          /\ Len(SubSeq(s, 1, j - 1)) = IF 1 <= j - 1 THEN j - 1 - 1 + 1 ELSE 0
          /\ \A i \in 1..(j - 1 - 1 + 1) : SubSeq(s, 1, j - 1)[i] = s[1 + i - 1]
      BY <2>1, SubSeqProperties
    <2>3. \A i \in 1..(j - 1) : i \in 1..(j - 1 - 1 + 1) /\ 1 + i - 1 = i
      BY <1>2
    <2> QED BY <1>2, <1>3, <2>2, <2>3
  <1>5. PICK b : b = SubSeq(s, j + 1, Len(s))
    OBVIOUS
  <1>6. b \in Seq(S) /\ Len(b) = Len(s) - j /\ \A i \in 1..(Len(s) - j) : b[i] = s[j + i]
    <2>1. j + 1 \in Int /\ Len(s) \in Int /\ \A i \in (j + 1)..Len(s) : s[i] \in S
      BY <1>1, <1>2
    <2>2. /\ SubSeq(s, j + 1, Len(s)) \in Seq(S)
          /\ Len(SubSeq(s, j + 1, Len(s))) =
                IF j + 1 <= Len(s) THEN Len(s) - (j + 1) + 1 ELSE 0
          /\ \A i \in 1..(Len(s) - (j + 1) + 1) :
                SubSeq(s, j + 1, Len(s))[i] = s[(j + 1) + i - 1]
      BY <2>1, SubSeqProperties
    <2>3. /\ Len(s) - (j + 1) + 1 = Len(s) - j
          /\ \A i \in 1..(Len(s) - j) : (j + 1) + i - 1 = j + i
      BY <1>2
    <2>4. Len(b) = Len(s) - j
      BY <1>2, <1>5, <2>2
    <2>5. \A i \in 1..(Len(s) - j) : b[i] = s[(j + 1) + i - 1]
      BY <1>5, <2>2, <2>3
    <2> QED BY <1>5, <2>2, <2>3, <2>4, <2>5
  <1>7. PICK c : c = a \o b
    OBVIOUS
  <1>8. /\ c \in Seq(S) /\ Len(c) = Len(a) + Len(b)
        /\ \A i \in 1..(Len(a) + Len(b)) :
              c[i] = IF i <= Len(a) THEN a[i] ELSE b[i - Len(a)]
    BY <1>4, <1>6, <1>7, ConcatProperties
  <1>9. Len(c) = Len(s) - 1
    BY <1>2, <1>4, <1>6, <1>8
  <1>10. ASSUME NEW k \in 1..(Len(s) - 1)
         PROVE  c[k] = IF k < j THEN s[k] ELSE s[k + 1]
    <2>1. c[k] = IF k <= j - 1 THEN a[k] ELSE b[k - (j - 1)]
      <3>1. k \in 1..(Len(a) + Len(b)) /\ Len(a) = j - 1
        BY <1>2, <1>4, <1>6
      <3> QED BY <1>8, <3>1
    <2>2. CASE k < j
      BY <1>2, <1>4, <2>1, <2>2
    <2>3. CASE ~(k < j)
      <3>1. k - (j - 1) \in 1..(Len(s) - j) /\ j + (k - (j - 1)) = k + 1 /\ ~(k <= j - 1)
        BY <1>2, <2>3
      <3> QED BY <1>6, <2>1, <2>3, <3>1
    <2> QED BY <2>2, <2>3
  <1>11. c = RemoveAt(s, j)
    BY <1>3, <1>5, <1>7 DEF RemoveAt
  <1> QED BY <1>8, <1>9, <1>10, <1>11

\* The kernel moves messages from a reply to the socket.
LEMMA KernelTalk ==
    ASSUME TalkInv, KernelReplies
    PROVE  TalkInv'
  <1>0. PICK j \in DOMAIN jobs :
            \E n \in 1..Len(jobs[j]) :
                /\ socket' = Append(socket, SubSeq(jobs[j], 1, n))
                /\ jobs' = IF n = Len(jobs[j]) THEN RemoveAt(jobs, j)
                           ELSE [jobs EXCEPT ![j] = SubSeq(@, n + 1, Len(@))]
    BY DEF KernelReplies
  <1>1. PICK n \in 1..Len(jobs[j]) :
            /\ socket' = Append(socket, SubSeq(jobs[j], 1, n))
            /\ jobs' = IF n = Len(jobs[j]) THEN RemoveAt(jobs, j)
                       ELSE [jobs EXCEPT ![j] = SubSeq(@, n + 1, Len(@))]
    BY <1>0
  <1>2. PICK D : D = Datagrams
    OBVIOUS
  <1>3. jobs \in Seq(D) /\ socket \in Seq(D) /\ j \in 1..Len(jobs) /\ jobs[j] \in D
    BY <1>2 DEF TalkInv
  <1>4. Len(jobs[j]) \in Nat /\ n \in Nat /\ 1 <= n /\ n <= Len(jobs[j])
    BY <1>2, <1>3 DEF Datagrams
  <1>5. SubSeq(jobs[j], 1, n) \in D
    <2>1. 1 \in Nat /\ 1 <= 1
      OBVIOUS
    <2> QED BY <1>2, <1>3, <1>4, <2>1, PartOfDatagram
  <1>6. n # Len(jobs[j]) => SubSeq(jobs[j], n + 1, Len(jobs[j])) \in D
    <2>1. ASSUME n # Len(jobs[j])
          PROVE  n + 1 \in Nat /\ 1 <= n + 1 /\ n + 1 <= Len(jobs[j])
                 /\ Len(jobs[j]) <= Len(jobs[j])
      BY <1>4, <2>1
    <2> QED BY <1>2, <1>3, <1>4, <2>1, PartOfDatagram
  <1>7. socket' \in Seq(D)
    BY <1>1, <1>3, <1>5
  <1>8. jobs' \in Seq(D)
    <2>1. CASE n = Len(jobs[j])
      BY <1>1, <1>3, <2>1, RemoveAtValue
    <2>2. CASE n # Len(jobs[j])
      <3>1. jobs' = [jobs EXCEPT ![j] = SubSeq(jobs[j], n + 1, Len(jobs[j]))]
        BY <1>1, <2>2
      <3> QED BY <1>3, <1>6, <2>2, <3>1
    <2> QED BY <2>1, <2>2
  <1>9. UNCHANGED <<seq, drawn, call, response>>
    BY DEF KernelReplies
  <1>10. Datagrams' = D
    BY <1>2, <1>9 DEF Datagrams, InTime, Earlier
  <1> QED BY <1>7, <1>8, <1>9, <1>10 DEF TalkInv, NoCrossTalk

\* A datagram in the socket for whose number there is a handler is of the call's
\* own reply: since the last request that had this number all others were drawn.
LEMMA OwnReply ==
    ASSUME IInv, TalkInv, call # NoCall, NEW d \in Datagrams,
           NEW h \in handlers, h.seq = Head(d).seq
    PROVE  \A i \in 1..Len(d) : d[i].id = call.id
  <1>1. NumberMod \in Nat /\ NumberMod > 2
    BY NetlinkAssumption
  <1>2. /\ d \in Seq(Messages) /\ Len(d) > 0
        /\ \A i \in 1..Len(d) : InTime(d[i]) /\ d[i].id = d[1].id
    BY DEF Datagrams
  <1>3. PICK m \in Messages : m = d[1] /\ m = Head(d)
    BY <1>2
  <1>4. InTime(m) /\ m.seq = seq
    BY <1>2, <1>3 DEF IInv, HandlersOnStack, TalkInv
  <1>5. drawn \in Nat /\ seq \in Nat /\ m.id \in Nat /\ call.id = drawn
    BY <1>1 DEF TalkInv, Numbers, IInv, NamesOK, Messages
  <1>6. PICK k \in Nat : k = drawn - m.id /\ k < NumberMod - 1
    BY <1>4, <1>5 DEF InTime
  <1>7. seq = IF k < seq THEN seq - k ELSE seq - k + (NumberMod - 1)
    BY <1>4, <1>6 DEF InTime, Earlier
  <1>8. k = 0
    BY <1>1, <1>5, <1>6, <1>7
  <1>9. m.id = call.id
    BY <1>5, <1>6, <1>8
  <1> QED BY <1>2, <1>3, <1>9

\* What a call has collected after such a datagram is of its own request.
LEMMA Collected ==
    ASSUME TalkInv, NEW d \in Datagrams, \A i \in 1..Len(d) : d[i].id = call.id
    PROVE  /\ response \o Appended(d) \in Seq(Messages)
           /\ \A m \in Range(response \o Appended(d)) : m.id = call.id
  <1>1. d \in Seq(Messages) /\ Len(d) > 0 /\ Len(d) \in Nat
    BY DEF Datagrams
  <1>2. PICK a : a = Appended(d)
    OBVIOUS
  <1>3. a \in Seq(Messages) /\ \A i \in 1..Len(a) : a[i].id = call.id
    <2>1. CASE a = d
      BY <1>1, <2>1
    <2>2. CASE a = SubSeq(d, 1, Len(d) - 1)
      <3>1. 1 \in Int /\ Len(d) - 1 \in Int /\ \A i \in 1..(Len(d) - 1) : d[i] \in Messages
        BY <1>1
      <3>2. /\ a \in Seq(Messages)
            /\ Len(a) = IF 1 <= Len(d) - 1 THEN Len(d) - 1 - 1 + 1 ELSE 0
            /\ \A i \in 1..(Len(d) - 1 - 1 + 1) : a[i] = d[1 + i - 1]
        BY <2>2, <3>1, SubSeqProperties
      <3>3. \A i \in 1..Len(a) : i \in 1..(Len(d) - 1 - 1 + 1) /\ 1 + i - 1 = i
                                   /\ i \in 1..Len(d)
        BY <1>1, <3>2
      <3> QED BY <3>2, <3>3
    <2> QED BY <1>2, <2>1, <2>2 DEF Appended, Front
  <1>4. response \in Seq(Messages) /\ \A i \in 1..Len(response) : response[i].id = call.id
    BY DEF TalkInv, NoCrossTalk, Range
  <1>5. PICK r \in Seq(Messages) : r = response \o a
    BY <1>3, <1>4, ConcatProperties
  <1>6. \A i \in 1..Len(r) : r[i].id = call.id
    <2>1. /\ Len(r) = Len(response) + Len(a)
          /\ \A i \in 1..(Len(response) + Len(a)) :
                r[i] = IF i <= Len(response) THEN response[i] ELSE a[i - Len(response)]
      BY <1>3, <1>4, <1>5, ConcatProperties
    <2>2. Len(response) \in Nat /\ Len(a) \in Nat
      BY <1>3, <1>4
    <2>3. ASSUME NEW i \in 1..Len(r)
          PROVE  r[i].id = call.id
      <3>1. CASE i <= Len(response)
        BY <1>4, <2>1, <2>2, <3>1
      <3>2. CASE i > Len(response)
        <4>1. i - Len(response) \in 1..Len(a) /\ r[i] = a[i - Len(response)]
          BY <2>1, <2>2, <3>2
        <4> QED BY <1>3, <4>1
      <3> QED BY <2>2, <3>1, <3>2
    <2> QED BY <2>3
  <1> QED BY <1>2, <1>5, <1>6 DEF Range

\* The state before the first request.
LEMMA InitTalk == Init => TalkInv
  <1> SUFFICES ASSUME Init PROVE TalkInv
    OBVIOUS
  <1>1. 0 \in Numbers
    BY NetlinkAssumption DEF Numbers
  <1>2. \A S : <<>> \in Seq(S)
    OBVIOUS
  <1>3. Range(<<>>) = {}
    BY DEF Range
  <1> QED BY <1>1, <1>2, <1>3 DEF Init, TalkInv, NoCrossTalk

\* A call returns, and drops what it has collected.
LEMMA ReturnTalk ==
    ASSUME TalkInv, NEW ok, NEW r, Returns(ok, r), UNCHANGED <<seq, drawn, jobs>>,
           socket' \in Seq(Datagrams)
    PROVE  TalkInv'
  <1>1. call' = NoCall /\ response' = <<>>
    BY DEF Returns
  <1>2. PICK D : D = Datagrams
    OBVIOUS
  <1>3. Datagrams' = D
    BY <1>2 DEF Datagrams, InTime, Earlier
  <1>4. jobs' \in Seq(D) /\ socket' \in Seq(D)
    BY <1>2 DEF TalkInv
  <1>5. Range(<<>>) = {} /\ <<>> \in Seq(Messages)
    BY DEF Range
  <1>6. seq' \in Numbers /\ (drawn' > 0 => seq' # 0)
    BY DEF TalkInv
  <1> QED BY <1>1, <1>3, <1>4, <1>5, <1>6 DEF TalkInv, NoCrossTalk

\* A step that leaves the call and the requests alone.
LEMMA FrameTalk ==
    ASSUME TalkInv, UNCHANGED <<seq, drawn, call, jobs>>,
           socket' \in Seq(Datagrams), response' \in Seq(Messages),
           call = NoCall => response' = <<>>,
           \A m \in Range(response') : m.id = call.id
    PROVE  TalkInv'
  <1>1. PICK D : D = Datagrams
    OBVIOUS
  <1>2. Datagrams' = D
    BY <1>1 DEF Datagrams, InTime, Earlier
  <1>3. jobs' \in Seq(D) /\ socket' \in Seq(D)
    BY <1>1 DEF TalkInv
  <1>4. /\ seq' \in Numbers /\ (drawn' > 0 => seq' # 0)
        /\ call' # NoCall => call'.id = drawn' /\ call'.seq = seq'
    BY DEF TalkInv
  <1> QED BY <1>2, <1>3, <1>4 DEF TalkInv, NoCrossTalk

\* A request that is sent again has the name and the number that were drawn
\* last, for the thread has sent no other since.
LEMMA ResendTalk ==
    ASSUME IInv, TalkInv, call # NoCall, NEW r, Resend(r), UNCHANGED <<seq, drawn>>,
           r \in Seq(Messages), \A m \in Range(r) : m.id = call.id,
           socket' \in Seq(Datagrams)
    PROVE  TalkInv'
  <1>1. IInv' /\ call \in CallRecord
    BY ResendIInv DEF IInv, NamesOK
  <1>2. PICK k \in 1..call.left, error \in BOOLEAN :
            call' = [call EXCEPT !.left = @ - k, !.attempt = @ + k, !.error = error]
    BY DEF Resend, Verdicts
  <1>3. call'.id = call.id /\ call'.seq = call.seq
    BY <1>1, <1>2 DEF CallRecord
  <1>4. /\ call.id = drawn /\ call.seq = seq /\ seq \in Numbers /\ call.id # 0
        /\ drawn \in Nat /\ call.seq # 0
    BY DEF TalkInv, IInv, NamesOK, NotBroadcast, kBroadcastSequenceNumber
  <1>5. PICK c \in CallRecord : c = call'
    BY <1>1 DEF IInv, NamesOK
  <1>6. Reply(c) \in Datagrams'
    BY <1>3, <1>4, <1>5, ReplyInTime
  <1>7. PICK D : D = Datagrams
    OBVIOUS
  <1>8. Datagrams' = D
    BY <1>7 DEF Datagrams, InTime, Earlier
  <1>9. jobs' \in Seq(D) /\ socket' \in Seq(D)
    <2>1. jobs \in Seq(D) /\ socket' \in Seq(D) /\ Reply(c) \in D
      BY <1>6, <1>7, <1>8 DEF TalkInv
    <2>2. jobs' = Append(jobs, Reply(c))
      BY <1>5 DEF Resend
    <2> QED BY <2>1, <2>2
  <1>10. call' # NoCall
    BY <1>3, <1>4 DEF NoCall
  <1>11. response' = r
    BY DEF Resend
  <1>12. seq' \in Numbers /\ (drawn' > 0 => seq' # 0)
    BY DEF TalkInv
  <1> QED BY <1>3, <1>4, <1>8, <1>9, <1>10, <1>11, <1>12 DEF TalkInv, NoCrossTalk

\* A request goes out with a number that no reply still to come has.
LEMMA SendTalk ==
    ASSUME IInv, TalkInv, NEW kind \in Kinds, NEW retries \in Nat,
           SendMessageAndGetResponses(kind, retries), IInv'
    PROVE  TalkInv'
  <1>1. /\ jobs \in Seq(Datagrams') /\ socket \in Seq(Datagrams')
        /\ seq' \in Numbers /\ seq' # 0
    BY DrawKeeps DEF SendMessageAndGetResponses
  <1>2. PICK failed \in 0..retries, error \in BOOLEAN :
            call' = [id |-> drawn', seq |-> seq', kind |-> kind, error |-> error,
                     left |-> retries - failed, attempt |-> failed + 1]
    BY DEF SendMessageAndGetResponses, Verdicts
  <1>3. call'.id = drawn' /\ call'.seq = seq'
    BY <1>2
  <1>4. drawn' \in Nat /\ drawn' # 0
    BY DEF SendMessageAndGetResponses, IInv, NamesOK
  <1>5. PICK c \in CallRecord : c = call'
    BY DEF IInv, NamesOK
  <1>6. Reply(c) \in Datagrams'
    BY <1>1, <1>3, <1>4, <1>5, ReplyInTime
  <1>7. PICK D : D = Datagrams'
    OBVIOUS
  <1>8. jobs' \in Seq(D) /\ socket' \in Seq(D)
    <2>1. jobs \in Seq(D) /\ socket \in Seq(D) /\ Reply(c) \in D
      BY <1>1, <1>6, <1>7
    <2>2. jobs' = Append(jobs, Reply(c)) /\ socket' = socket
      BY <1>5 DEF SendMessageAndGetResponses
    <2> QED BY <2>1, <2>2
  <1>9. call' # NoCall
    BY <1>3, <1>4 DEF NoCall
  <1>10. response' = <<>> /\ Range(<<>>) = {} /\ <<>> \in Seq(Messages)
    BY DEF SendMessageAndGetResponses, Range
  <1> QED BY <1>1, <1>3, <1>7, <1>8, <1>9, <1>10 DEF TalkInv, NoCrossTalk

\* Every action, and a stuttering step, preserves the invariant.
LEMMA NextTalk == IInv /\ TalkInv /\ [Next]_vars => TalkInv'
  <1> SUFFICES ASSUME IInv, TalkInv, [Next]_vars PROVE TalkInv'
    OBVIOUS
  <1>1. IInv'
    BY NextIInv
  <1>2. /\ socket \in Seq(Datagrams) /\ response \in Seq(Messages)
        /\ call = NoCall => response = <<>>
        /\ \A m \in Range(response) : m.id = call.id
    BY DEF TalkInv, NoCrossTalk
  <1>3. CASE UNCHANGED vars
    BY <1>2, <1>3, FrameTalk DEF vars
  <1>4. ASSUME NEW kind \in Kinds, NEW retries \in Nat,
               SendMessageAndGetResponses(kind, retries)
        PROVE  TalkInv'
    BY <1>1, <1>4, SendTalk
  <1>5. CASE SendFails
    <2>1. /\ jobs \in Seq(Datagrams') /\ socket \in Seq(Datagrams')
          /\ seq' \in Numbers /\ seq' # 0
      BY <1>5, DrawKeeps DEF SendFails
    <2>2. PICK D : D = Datagrams'
      OBVIOUS
    <2>3. jobs' \in Seq(D) /\ socket' \in Seq(D)
      BY <1>5, <2>1, <2>2 DEF SendFails
    <2>4. call' = NoCall /\ call = NoCall /\ response' = response
      BY <1>5 DEF SendFails
    <2>5. \A m \in Range(response') : m.id = call'.id
      BY <1>2, <2>4
    <2> QED BY <1>2, <2>1, <2>2, <2>3, <2>4, <2>5 DEF TalkInv, NoCrossTalk
  <1>6. CASE Timeout
    <2>1. /\ call # NoCall /\ UNCHANGED <<seq, drawn>>
          /\ socket' \in Seq(Datagrams)
      BY <1>2, <1>6 DEF Timeout
    <2>2. CASE GiveUp(response)
      BY <2>1, <2>2, ReturnTalk DEF GiveUp
    <2>3. CASE Resend(response)
      BY <1>2, <2>1, <2>3, ResendTalk
    <2> QED BY <1>6, <2>2, <2>3 DEF Timeout
  <1>7. CASE ReceivePacketAndRunHandler
    <2>1. /\ call # NoCall /\ UNCHANGED <<seq, drawn>>
          /\ socket # <<>> /\ socket' = Tail(socket)
      BY <1>7 DEF ReceivePacketAndRunHandler
    <2>2. PICK d : d = Head(socket)
      OBVIOUS
    <2>3. d \in Datagrams /\ socket' \in Seq(Datagrams)
      <3>1. PICK D : D = Datagrams
        OBVIOUS
      <3>2. socket \in Seq(D)
        BY <1>2, <3>1
      <3>3. d \in D /\ socket' \in Seq(D)
        BY <2>1, <2>2, <3>2
      <3> QED BY <3>1, <3>3
    <2>4. CASE UNCHANGED <<call, jobs, response>>
      BY <1>2, <2>1, <2>3, <2>4, FrameTalk
    <2>5. ASSUME NEW h \in handlers, h.seq = Head(d).seq
          PROVE  TalkInv'
      <3>1. PICK r : r = response \o Appended(d)
        OBVIOUS
      <3>2. r \in Seq(Messages) /\ \A m \in Range(r) : m.id = call.id
        <4>1. \A i \in 1..Len(d) : d[i].id = call.id
          BY <2>1, <2>3, <2>5, OwnReply
        <4> QED BY <2>3, <3>1, <4>1, Collected
      <3>3. \/ UNCHANGED <<call, jobs, response>>
            \/ response' = r /\ UNCHANGED <<call, jobs>>
            \/ Returns(TRUE, r) /\ UNCHANGED jobs
            \/ GiveUp(r)
            \/ Resend(r)
        BY <1>7, <2>2, <3>1 DEF ReceivePacketAndRunHandler
      <3>4. CASE response' = r /\ UNCHANGED <<call, jobs>>
        BY <2>1, <2>3, <3>2, <3>4, FrameTalk
      <3>5. CASE Returns(TRUE, r) /\ UNCHANGED jobs
        BY <2>1, <2>3, <3>5, ReturnTalk
      <3>6. CASE GiveUp(r)
        BY <2>1, <2>3, <3>6, ReturnTalk DEF GiveUp
      <3>7. CASE Resend(r)
        BY <2>1, <2>3, <3>2, <3>7, ResendTalk
      <3> QED BY <2>4, <3>3, <3>4, <3>5, <3>6, <3>7
    <2>6. UNCHANGED <<call, jobs, response>> \/ \E h \in handlers : h.seq = Head(d).seq
      BY <1>7, <2>2 DEF ReceivePacketAndRunHandler
    <2> QED BY <2>4, <2>5, <2>6
  <1>8. CASE KernelReplies
    BY <1>8, KernelTalk
  <1>9. CASE Restart
    <2>1. 0 \in Numbers
      BY NetlinkAssumption DEF Numbers
    <2>2. PICK D : D = Datagrams'
      OBVIOUS
    <2>3. jobs' \in Seq(D) /\ socket' \in Seq(D)
      BY <1>9 DEF Restart
    <2>4. response' = <<>> /\ Range(<<>>) = {} /\ <<>> \in Seq(Messages)
      BY <1>9 DEF Restart, Range
    <2> QED BY <1>9, <2>1, <2>2, <2>3, <2>4 DEF Restart, TalkInv, NoCrossTalk
  <1>10. RetryCount \in Nat /\ 0 \in Nat
    BY NetlinkAssumption
  <1>11. {"dump", "info"} \subseteq Kinds /\ {"dump", "single"} \subseteq Kinds
    BY DEF Kinds
  <1> QED BY <1>3, <1>4, <1>5, <1>6, <1>7, <1>8, <1>9, <1>10, <1>11 DEF Next

\* Every reply on its way has the number of its request, which was drawn less
\* than a round of the numbers ago.
THEOREM TalkInvariance == Spec => []TalkInv
BY Invariance, InitTalk, NextTalk, PTL DEF Spec

\* What a call collects answers its own request: a reply to a request that was
\* given up never gets into the vector of a later one.
THEOREM RepliesAreOwn == Spec => []NoCrossTalk
  <1>1. TalkInv => NoCrossTalk
    BY DEF TalkInv
  <1> QED BY TalkInvariance, <1>1, PTL

-----------------------------------------------------------------------------
(***************************************************************************)
(* Complete replies.  Until a request is sent again one reply to it is on  *)
(* its way: what the vector holds, the reply's datagrams in the socket, in *)
(* the order they are there, and what the kernel has still to send follow  *)
(* one another without a gap, whatever other replies lie between them.     *)
(***************************************************************************)

Packets == {d \in Seq(Messages) : Len(d) > 0}

\* The place of a message in its reply, and of the messages of a datagram.
Place(m) == IF m.part = 0 THEN DumpParts + 1 ELSE m.part
Starts(d) == Place(d[1])
Ends(d) == Place(d[1]) + Len(d) - 1

\* Every message of the reply R is at its place.
Placed(R) == R \in Packets /\ \A p \in 1..Len(R) : Place(R[p]) = p

\* The datagram d is cut from the reply R.
Piece(d, R) == Ends(d) <= Len(R) /\ \A i \in 1..Len(d) : d[i] = R[Starts(d) + i - 1]

\* In the reply to the request id, of which n messages were taken, d comes right
\* after its datagrams among the first i of s, or after the n messages.
Follows(d, id, n, s, i) ==
    /\ n < Starts(d)
    /\ \A k \in 1..i : s[k][1].id = id => Ends(s[k]) < Starts(d)
    /\ \/ Starts(d) = n + 1
       \/ \E k \in 1..i : s[k][1].id = id /\ Ends(s[k]) + 1 = Starts(d)

\* The rest of the reply R to the request id, after n messages, is in the socket
\* s and in the kernel's entry js for it.
Stream(id, R, n, s, js) ==
    /\ \A i \in 1..Len(s) :
          s[i][1].id = id => Piece(s[i], R) /\ Follows(s[i], id, n, s, i - 1)
    /\ \A j \in 1..Len(js) : js[j][1].id = id =>
          /\ Piece(js[j], R) /\ Ends(js[j]) = Len(R)
          /\ Follows(js[j], id, n, s, Len(s))
          /\ \A k \in 1..Len(js) : js[k][1].id = id => k = j

\* Places are numbers.
LEMMA PlaceType ==
    ASSUME NEW d \in Packets
    PROVE  /\ Len(d) \in Nat /\ Len(d) > 0 /\ d \in Seq(Messages)
           /\ \A i \in 1..Len(d) : Place(d[i]) \in Nat
           /\ Starts(d) \in Nat /\ Ends(d) \in Nat
           /\ Ends(d) = Starts(d) + Len(d) - 1 /\ Starts(d) <= Ends(d)
  <1>1. DumpParts \in Nat
    BY NetlinkAssumption
  <1>2. d \in Seq(Messages) /\ Len(d) \in Nat /\ Len(d) > 0
    BY DEF Packets
  <1>3. \A i \in 1..Len(d) : d[i].part \in Nat
    <2>1. \A i \in 1..Len(d) : d[i] \in Messages
      BY <1>2
    <2>2. \A m \in Messages : m.part \in Nat
      BY DEF Messages
    <2> QED BY <2>1, <2>2
  <1>4. \A i \in 1..Len(d) : Place(d[i]) \in Nat
    BY <1>1, <1>3 DEF Place
  <1>5. Starts(d) \in Nat
    BY <1>2, <1>4 DEF Starts
  <1>6. Ends(d) = Starts(d) + Len(d) - 1
    BY DEF Starts, Ends
  <1> QED BY <1>2, <1>4, <1>5, <1>6

\* Taking the first datagram off, if it is of another request.
LEMMA FollowsDrop ==
    ASSUME NEW id, NEW n, NEW s \in Seq(Packets), s # <<>>, NEW d,
           NEW i \in 0..(Len(s) - 1), s[1][1].id # id, Follows(d, id, n, s, i + 1)
    PROVE  Follows(d, id, n, Tail(s), i)
  <1>1. PICK t : t = Tail(s)
    OBVIOUS
  <1>2. \A k \in 1..(Len(s) - 1) : t[k] = s[k + 1]
    BY <1>1
  <1>3. Len(s) \in Nat
    OBVIOUS
  <1>4. \A k \in 1..i : t[k] = s[k + 1] /\ k + 1 \in 1..(i + 1)
    BY <1>2, <1>3
  <1>5. \A k \in 1..i : t[k][1].id = id => Ends(t[k]) < Starts(d)
    BY <1>4 DEF Follows
  <1>6. CASE Starts(d) = n + 1
    BY <1>1, <1>5, <1>6 DEF Follows
  <1>7. ASSUME NEW k \in 1..(i + 1), s[k][1].id = id, Ends(s[k]) + 1 = Starts(d)
        PROVE  Follows(d, id, n, Tail(s), i)
    <2>1. k - 1 \in 1..i /\ t[k - 1] = s[k]
      <3>1. k # 1
        BY <1>7
      <3>2. k - 1 \in 1..i /\ (k - 1) + 1 = k
        BY <1>3, <3>1
      <3> QED BY <1>4, <3>2
    <2> QED BY <1>1, <1>5, <1>7, <2>1 DEF Follows
  <1> QED BY <1>6, <1>7 DEF Follows

\* ... and if it is the next part of the reply.
LEMMA FollowsTake ==
    ASSUME NEW id, NEW n \in Nat, NEW s \in Seq(Packets), s # <<>>, NEW d \in Packets,
           NEW i \in 0..(Len(s) - 1), s[1][1].id = id, Starts(s[1]) = n + 1,
           Follows(d, id, n, s, i + 1)
    PROVE  Follows(d, id, Ends(s[1]), Tail(s), i)
  <1>1. PICK t : t = Tail(s)
    OBVIOUS
  <1>2. \A k \in 1..(Len(s) - 1) : t[k] = s[k + 1]
    BY <1>1
  <1>3. Len(s) \in Nat /\ 1 \in 1..(i + 1) /\ s[1] \in Packets
    OBVIOUS
  <1>4. \A k \in 1..i : t[k] = s[k + 1] /\ k + 1 \in 1..(i + 1)
    BY <1>2, <1>3
  <1>5. \A k \in 1..i : t[k][1].id = id => Ends(t[k]) < Starts(d)
    BY <1>4 DEF Follows
  <1>6. Ends(s[1]) < Starts(d)
    BY <1>3 DEF Follows
  <1>7. /\ Starts(d) \in Nat /\ Ends(s[1]) \in Nat /\ n + 1 <= Ends(s[1])
    BY <1>3, PlaceType
  <1>8. PICK k \in 1..(i + 1) : s[k][1].id = id /\ Ends(s[k]) + 1 = Starts(d)
    <2>1. Starts(d) # n + 1
      BY <1>6, <1>7
    <2> QED BY <2>1 DEF Follows
  <1>9. CASE k = 1
    <2>1. Starts(d) = Ends(s[1]) + 1
      BY <1>8, <1>9
    <2> QED BY <1>1, <1>5, <1>6, <2>1 DEF Follows
  <1>10. CASE k # 1
    <2>1. k - 1 \in 1..i /\ (k - 1) + 1 = k
      BY <1>3, <1>10
    <2>2. t[k - 1] = s[k]
      BY <1>4, <2>1
    <2> QED BY <1>1, <1>5, <1>6, <1>8, <2>1, <2>2 DEF Follows
  <1> QED BY <1>9, <1>10

\* A datagram of another request is dropped.
LEMMA StreamDrop ==
    ASSUME NEW id, NEW R, NEW n, NEW s \in Seq(Packets), NEW js, s # <<>>,
           s[1][1].id # id, Stream(id, R, n, s, js)
    PROVE  Stream(id, R, n, Tail(s), js)
  <1>1. PICK t : t = Tail(s)
    OBVIOUS
  <1>2. /\ Len(t) = Len(s) - 1 /\ Len(s) \in Nat /\ Len(s) > 0
        /\ \A k \in 1..(Len(s) - 1) : t[k] = s[k + 1]
    BY <1>1
  <1>3. ASSUME NEW i \in 1..Len(t), t[i][1].id = id
        PROVE  Piece(t[i], R) /\ Follows(t[i], id, n, t, i - 1)
    <2>1. i + 1 \in 1..Len(s) /\ t[i] = s[i + 1] /\ (i + 1) - 1 = i
      BY <1>2
    <2>2. Piece(t[i], R) /\ Follows(t[i], id, n, s, i)
      BY <1>3, <2>1 DEF Stream
    <2>3. i - 1 \in 0..(Len(s) - 1) /\ (i - 1) + 1 = i
      BY <1>2
    <2>4. Follows(t[i], id, n, Tail(s), i - 1)
      BY <2>2, <2>3, FollowsDrop
    <2> QED BY <1>1, <2>2, <2>4
  <1>4. ASSUME NEW j \in 1..Len(js), js[j][1].id = id
        PROVE  /\ Piece(js[j], R) /\ Ends(js[j]) = Len(R)
               /\ Follows(js[j], id, n, t, Len(t))
               /\ \A k \in 1..Len(js) : js[k][1].id = id => k = j
    <2>1. /\ Piece(js[j], R) /\ Ends(js[j]) = Len(R)
          /\ Follows(js[j], id, n, s, Len(s))
          /\ \A k \in 1..Len(js) : js[k][1].id = id => k = j
      BY <1>4 DEF Stream
    <2>2. Len(t) \in 0..(Len(s) - 1) /\ Len(t) + 1 = Len(s)
      BY <1>2
    <2>3. Follows(js[j], id, n, Tail(s), Len(t))
      BY <2>1, <2>2, FollowsDrop
    <2> QED BY <1>1, <2>1, <2>3
  <1>5. Stream(id, R, n, t, js)
    BY <1>3, <1>4 DEF Stream
  <1> QED BY <1>1, <1>5

\* The call takes the next datagram of its reply.
LEMMA StreamTake ==
    ASSUME NEW id, NEW R, NEW n \in Nat, NEW s \in Seq(Packets), NEW js \in Seq(Packets),
           s # <<>>, s[1][1].id = id, Stream(id, R, n, s, js)
    PROVE  /\ Piece(s[1], R) /\ Starts(s[1]) = n + 1
           /\ Stream(id, R, Ends(s[1]), Tail(s), js)
  <1>1. PICK t : t = Tail(s)
    OBVIOUS
  <1>2. /\ Len(t) = Len(s) - 1 /\ Len(s) \in Nat /\ Len(s) > 0
        /\ \A k \in 1..(Len(s) - 1) : t[k] = s[k + 1]
        /\ \A k \in 1..Len(s) : s[k] \in Packets
    BY <1>1
  <1>3. Piece(s[1], R) /\ Starts(s[1]) = n + 1
    <2>1. 1 \in 1..Len(s) /\ 1 - 1 = 0 /\ 1..0 = {}
      BY <1>2
    <2>2. Piece(s[1], R) /\ Follows(s[1], id, n, s, 0)
      BY <2>1 DEF Stream
    <2> QED BY <2>1, <2>2 DEF Follows
  <1>4. ASSUME NEW i \in 1..Len(t), t[i][1].id = id
        PROVE  Piece(t[i], R) /\ Follows(t[i], id, Ends(s[1]), t, i - 1)
    <2>1. i + 1 \in 1..Len(s) /\ t[i] = s[i + 1] /\ (i + 1) - 1 = i /\ t[i] \in Packets
      BY <1>2
    <2>2. Piece(t[i], R) /\ Follows(t[i], id, n, s, i)
      BY <1>4, <2>1 DEF Stream
    <2>3. i - 1 \in 0..(Len(s) - 1) /\ (i - 1) + 1 = i
      BY <1>2
    <2>4. Follows(t[i], id, Ends(s[1]), Tail(s), i - 1)
      BY <1>3, <2>1, <2>2, <2>3, FollowsTake
    <2> QED BY <1>1, <2>2, <2>4
  <1>5. ASSUME NEW j \in 1..Len(js), js[j][1].id = id
        PROVE  /\ Piece(js[j], R) /\ Ends(js[j]) = Len(R)
               /\ Follows(js[j], id, Ends(s[1]), t, Len(t))
               /\ \A k \in 1..Len(js) : js[k][1].id = id => k = j
    <2>1. /\ Piece(js[j], R) /\ Ends(js[j]) = Len(R)
          /\ Follows(js[j], id, n, s, Len(s))
          /\ \A k \in 1..Len(js) : js[k][1].id = id => k = j
      BY <1>5 DEF Stream
    <2>2. Len(t) \in 0..(Len(s) - 1) /\ Len(t) + 1 = Len(s) /\ js[j] \in Packets
      BY <1>2
    <2>3. Follows(js[j], id, Ends(s[1]), Tail(s), Len(t))
      BY <1>3, <2>1, <2>2, FollowsTake
    <2> QED BY <1>1, <2>1, <2>3
  <1>6. Stream(id, R, Ends(s[1]), t, js)
    BY <1>4, <1>5 DEF Stream
  <1> QED BY <1>1, <1>3, <1>6

\* A datagram is cut in two.
LEMMA PacketCut ==
    ASSUME NEW d \in Packets, NEW m \in 1..Len(d)
    PROVE  /\ SubSeq(d, 1, m) \in Packets /\ Len(SubSeq(d, 1, m)) = m
           /\ \A i \in 1..m : SubSeq(d, 1, m)[i] = d[i]
           /\ m # Len(d) =>
                 /\ SubSeq(d, m + 1, Len(d)) \in Packets
                 /\ Len(SubSeq(d, m + 1, Len(d))) = Len(d) - m
                 /\ \A i \in 1..(Len(d) - m) : SubSeq(d, m + 1, Len(d))[i] = d[m + i]
  <1>1. Len(d) \in Nat /\ d \in Seq(Messages)
    BY PlaceType
  <1>3. m \in Nat /\ 1 <= m /\ m <= Len(d)
    BY <1>1
  <1>4. \A i \in 1..Len(d) : d[i] \in Messages
    BY <1>1
  <1>5. PICK x : x = SubSeq(d, 1, m)
    OBVIOUS
  <1>6. x \in Seq(Messages) /\ Len(x) = m /\ \A i \in 1..m : x[i] = d[i]
    <2>1. 1 \in Int /\ m \in Int /\ \A i \in 1..m : d[i] \in Messages
      BY <1>3, <1>4
    <2>2. /\ SubSeq(d, 1, m) \in Seq(Messages)
          /\ Len(SubSeq(d, 1, m)) = IF 1 <= m THEN m - 1 + 1 ELSE 0
          /\ \A i \in 1..(m - 1 + 1) : SubSeq(d, 1, m)[i] = d[1 + i - 1]
      BY <2>1, SubSeqProperties
    <2>3. \A i \in 1..m : i \in 1..(m - 1 + 1) /\ 1 + i - 1 = i
      BY <1>3
    <2> QED BY <1>3, <1>5, <2>2, <2>3
  <1>7. x \in Packets
    BY <1>3, <1>6 DEF Packets
  <1>8. ASSUME m # Len(d)
        PROVE  /\ SubSeq(d, m + 1, Len(d)) \in Packets
               /\ Len(SubSeq(d, m + 1, Len(d))) = Len(d) - m
               /\ \A i \in 1..(Len(d) - m) : SubSeq(d, m + 1, Len(d))[i] = d[m + i]
    <2>1. PICK y : y = SubSeq(d, m + 1, Len(d))
      OBVIOUS
    <2>2. /\ y \in Seq(Messages) /\ Len(y) = Len(d) - m
          /\ \A i \in 1..(Len(d) - m) : y[i] = d[m + i]
      <3>1. m + 1 \in Int /\ Len(d) \in Int /\ \A i \in (m + 1)..Len(d) : d[i] \in Messages
        BY <1>1, <1>3, <1>4
      <3>2. /\ SubSeq(d, m + 1, Len(d)) \in Seq(Messages)
            /\ Len(SubSeq(d, m + 1, Len(d))) =
                  IF m + 1 <= Len(d) THEN Len(d) - (m + 1) + 1 ELSE 0
            /\ \A i \in 1..(Len(d) - (m + 1) + 1) :
                  SubSeq(d, m + 1, Len(d))[i] = d[(m + 1) + i - 1]
        BY <3>1, SubSeqProperties
      <3>3. /\ m + 1 <= Len(d) /\ Len(d) - (m + 1) + 1 = Len(d) - m
            /\ \A i \in 1..(Len(d) - m) : (m + 1) + i - 1 = m + i
        BY <1>1, <1>3, <1>8
      <3> QED BY <2>1, <3>2, <3>3
    <2>3. Len(y) > 0
      BY <1>1, <1>3, <1>8, <2>2
    <2> QED BY <2>1, <2>2, <2>3 DEF Packets
  <1> QED BY <1>5, <1>6, <1>7, <1>8

\* ... and so is a piece of a reply.
LEMMA PieceCut ==
    ASSUME NEW R, Placed(R), NEW d \in Packets, Piece(d, R), Starts(d) > 0,
           NEW m \in 1..Len(d)
    PROVE  /\ Piece(SubSeq(d, 1, m), R)
           /\ Starts(SubSeq(d, 1, m)) = Starts(d)
           /\ Ends(SubSeq(d, 1, m)) = Starts(d) + m - 1
           /\ m # Len(d) =>
                 /\ Piece(SubSeq(d, m + 1, Len(d)), R)
                 /\ Starts(SubSeq(d, m + 1, Len(d))) = Starts(d) + m
                 /\ Ends(SubSeq(d, m + 1, Len(d))) = Ends(d)
  <1>1. /\ Len(d) \in Nat /\ Len(d) > 0
        /\ Starts(d) \in Nat /\ Ends(d) = Starts(d) + Len(d) - 1
    BY PlaceType
  <1>2. /\ Ends(d) <= Len(R) /\ \A i \in 1..Len(d) : d[i] = R[Starts(d) + i - 1]
        /\ Len(R) \in Nat /\ \A p \in 1..Len(R) : Place(R[p]) = p
    BY DEF Piece, Placed, Packets
  <1>3. m \in Nat /\ 1 <= m /\ m <= Len(d)
    BY <1>1
  <1>5. PICK x : x = SubSeq(d, 1, m)
    OBVIOUS
  <1>6. Len(x) = m /\ \A i \in 1..m : x[i] = d[i]
    BY <1>5, PacketCut
  <1>8. Starts(x) = Starts(d) /\ Ends(x) = Starts(d) + m - 1
    <2>1. x[1] = d[1]
      BY <1>3, <1>6
    <2> QED BY <1>6, <2>1 DEF Starts, Ends
  <1>9. Piece(x, R)
    <2>1. Ends(x) <= Len(R)
      BY <1>1, <1>2, <1>3, <1>8
    <2>2. \A i \in 1..m : i \in 1..Len(d)
      BY <1>1, <1>3
    <2> QED BY <1>2, <1>6, <1>8, <2>1, <2>2 DEF Piece
  <1>10. ASSUME m # Len(d)
         PROVE  /\ Piece(SubSeq(d, m + 1, Len(d)), R)
                /\ Starts(SubSeq(d, m + 1, Len(d))) = Starts(d) + m
                /\ Ends(SubSeq(d, m + 1, Len(d))) = Ends(d)
    <2>1. PICK y : y = SubSeq(d, m + 1, Len(d))
      OBVIOUS
    <2>2. Len(y) = Len(d) - m /\ \A i \in 1..(Len(d) - m) : y[i] = d[m + i]
      BY <1>10, <2>1, PacketCut
    <2>3. Len(y) \in Nat /\ Len(y) > 0
      <3>1. Len(d) - m \in Nat /\ Len(d) - m > 0
        BY <1>1, <1>3, <1>10
      <3> QED BY <2>2, <3>1
    <2>5. \A i \in 1..Len(y) : y[i] = R[Starts(d) + m + i - 1]
      <3>1. \A i \in 1..Len(y) : /\ m + i \in 1..Len(d)
                                 /\ Starts(d) + (m + i) - 1 = Starts(d) + m + i - 1
        BY <1>1, <1>3, <2>2
      <3> QED BY <1>2, <2>2, <3>1
    <2>6. Starts(y) = Starts(d) + m
      <3>1. 1 \in 1..Len(y) /\ Starts(d) + m + 1 - 1 = Starts(d) + m
        BY <1>1, <1>3, <2>3
      <3>2. y[1] = R[Starts(d) + m]
        BY <2>5, <3>1
      <3>3. Starts(d) + m \in 1..Len(R)
        BY <1>1, <1>2, <1>3, <1>10
      <3> QED BY <1>2, <3>2, <3>3 DEF Starts
    <2>7. Ends(y) = Ends(d)
      <3>1. Ends(y) = Starts(y) + Len(y) - 1
        BY DEF Starts, Ends
      <3> QED BY <1>1, <1>3, <2>2, <2>6, <3>1
    <2>8. Piece(y, R)
      BY <1>2, <2>5, <2>6, <2>7 DEF Piece
    <2> QED BY <2>1, <2>6, <2>7, <2>8
  <1> QED BY <1>5, <1>8, <1>9, <1>10

\* A datagram added to the socket after those d comes after.
LEMMA FollowsEarlier ==
    ASSUME NEW id, NEW n, NEW s \in Seq(Packets), NEW x \in Packets, NEW d,
           NEW i \in 0..Len(s), Follows(d, id, n, s, i)
    PROVE  Follows(d, id, n, Append(s, x), i)
  <1>1. PICK t : t = Append(s, x)
    OBVIOUS
  <1>2. \A k \in 1..i : t[k] = s[k]
    <2>1. \A k \in 1..Len(s) : t[k] = s[k]
      BY <1>1
    <2>2. Len(s) \in Nat
      OBVIOUS
    <2> QED BY <2>1, <2>2
  <1>3. Follows(d, id, n, t, i)
    BY <1>2 DEF Follows
  <1> QED BY <1>1, <1>3

\* A datagram of another request added before d.
LEMMA FollowsOther ==
    ASSUME NEW id, NEW n, NEW s \in Seq(Packets), NEW x \in Packets, NEW d,
           x[1].id # id, Follows(d, id, n, s, Len(s))
    PROVE  Follows(d, id, n, Append(s, x), Len(s) + 1)
  <1>1. PICK t : t = Append(s, x)
    OBVIOUS
  <1>2. Len(s) \in Nat /\ t[Len(s) + 1] = x /\ \A k \in 1..Len(s) : t[k] = s[k]
    BY <1>1
  <1>3. \A k \in 1..(Len(s) + 1) : k \in 1..Len(s) \/ k = Len(s) + 1
    BY <1>2
  <1>4. \A k \in 1..Len(s) : k \in 1..(Len(s) + 1)
    BY <1>2
  <1>5. \A k \in 1..(Len(s) + 1) : t[k][1].id = id => Ends(t[k]) < Starts(d)
    BY <1>2, <1>3 DEF Follows
  <1>6. \/ Starts(d) = n + 1
        \/ \E k \in 1..(Len(s) + 1) : t[k][1].id = id /\ Ends(t[k]) + 1 = Starts(d)
    BY <1>2, <1>4 DEF Follows
  <1> QED BY <1>1, <1>5, <1>6 DEF Follows

\* A datagram of the reply added right before d.
LEMMA FollowsOwn ==
    ASSUME NEW id, NEW n \in Nat, NEW s \in Seq(Packets), NEW x \in Packets,
           NEW d \in Packets, x[1].id = id, Follows(x, id, n, s, Len(s)),
           Starts(d) = Ends(x) + 1
    PROVE  Follows(d, id, n, Append(s, x), Len(s) + 1)
  <1>1. PICK t : t = Append(s, x)
    OBVIOUS
  <1>2. Len(s) \in Nat /\ t[Len(s) + 1] = x /\ \A k \in 1..Len(s) : t[k] = s[k]
    BY <1>1
  <1>3. /\ Starts(x) \in Nat /\ Ends(x) \in Nat /\ Starts(d) \in Nat
        /\ Starts(x) <= Ends(x) /\ \A k \in 1..Len(s) : Ends(s[k]) \in Nat
    <2>1. \A k \in 1..Len(s) : s[k] \in Packets
      OBVIOUS
    <2>2. \A k \in 1..Len(s) : Ends(s[k]) \in Nat
      BY <2>1, PlaceType
    <2> QED BY <2>2, PlaceType
  <1>4. n < Starts(d)
    BY <1>3 DEF Follows
  <1>5. ASSUME NEW k \in 1..(Len(s) + 1), t[k][1].id = id
        PROVE  Ends(t[k]) < Starts(d)
    <2>1. CASE k = Len(s) + 1
      BY <1>2, <1>3, <2>1
    <2>2. CASE k # Len(s) + 1
      <3>1. k \in 1..Len(s) /\ t[k] = s[k]
        BY <1>2, <2>2
      <3>2. Ends(s[k]) < Starts(x)
        BY <1>5, <3>1 DEF Follows
      <3> QED BY <1>3, <3>1, <3>2
    <2> QED BY <2>1, <2>2
  <1>6. Len(s) + 1 \in 1..(Len(s) + 1) /\ Ends(t[Len(s) + 1]) + 1 = Starts(d)
        /\ t[Len(s) + 1][1].id = id
    BY <1>2
  <1> QED BY <1>1, <1>4, <1>5, <1>6 DEF Follows

\* A datagram joins the socket: those that were there follow one another as
\* before, and it does so too.
LEMMA SocketGrows ==
    ASSUME NEW id, NEW R, NEW n, NEW s \in Seq(Packets), NEW x \in Packets,
           \A i \in 1..Len(s) :
              s[i][1].id = id => Piece(s[i], R) /\ Follows(s[i], id, n, s, i - 1),
           x[1].id = id => Piece(x, R) /\ Follows(x, id, n, s, Len(s)),
           NEW t, t = Append(s, x)
    PROVE  \A i \in 1..Len(t) :
              t[i][1].id = id => Piece(t[i], R) /\ Follows(t[i], id, n, t, i - 1)
  <1>1. /\ Len(s) \in Nat /\ Len(t) = Len(s) + 1
        /\ t[Len(s) + 1] = x /\ \A k \in 1..Len(s) : t[k] = s[k]
    OBVIOUS
  <1>2. ASSUME NEW i \in 1..Len(t), t[i][1].id = id
        PROVE  Piece(t[i], R) /\ Follows(t[i], id, n, t, i - 1)
    <2>1. CASE i = Len(s) + 1
      <3>1. t[i] = x /\ i - 1 = Len(s) /\ Len(s) \in 0..Len(s)
        BY <1>1, <2>1
      <3>2. Piece(x, R) /\ Follows(x, id, n, s, Len(s))
        BY <1>2, <3>1
      <3>3. Follows(x, id, n, Append(s, x), Len(s))
        BY <3>1, <3>2, FollowsEarlier
      <3> QED BY <3>1, <3>2, <3>3
    <2>2. CASE i # Len(s) + 1
      <3>1. i \in 1..Len(s) /\ t[i] = s[i] /\ i - 1 \in 0..Len(s)
        BY <1>1, <2>2
      <3>2. Piece(s[i], R) /\ Follows(s[i], id, n, s, i - 1)
        BY <1>2, <3>1
      <3>3. Follows(s[i], id, n, Append(s, x), i - 1)
        BY <3>1, <3>2, FollowsEarlier
      <3> QED BY <3>1, <3>2, <3>3
    <2> QED BY <2>1, <2>2
  <1> QED BY <1>2

\* What the kernel has still to send follows a datagram of another request too.
LEMMA JobsKept ==
    ASSUME NEW id, NEW R, NEW n, NEW s \in Seq(Packets), NEW x \in Packets,
           NEW js \in Seq(Packets), NEW ks \in Seq(Packets), x[1].id # id,
           Stream(id, R, n, s, js),
           \A k \in 1..Len(ks) :
              ks[k][1].id = id => \E f \in 1..Len(js) : ks[k] = js[f],
           \A k, l \in 1..Len(ks) : ks[k][1].id = id /\ ks[l][1].id = id => k = l
    PROVE  Stream(id, R, n, Append(s, x), ks)
  <1>1. PICK t : t = Append(s, x)
    OBVIOUS
  <1>2. \A i \in 1..Len(t) : t[i][1].id = id => Piece(t[i], R) /\ Follows(t[i], id, n, t, i - 1)
    <2>1. /\ \A i \in 1..Len(s) :
                s[i][1].id = id => Piece(s[i], R) /\ Follows(s[i], id, n, s, i - 1)
          /\ x[1].id = id => Piece(x, R) /\ Follows(x, id, n, s, Len(s))
      BY DEF Stream
    <2> QED BY <1>1, <2>1, SocketGrows
  <1>3. Len(t) = Len(s) + 1
    BY <1>1
  <1>4. ASSUME NEW k \in 1..Len(ks), ks[k][1].id = id
        PROVE  /\ Piece(ks[k], R) /\ Ends(ks[k]) = Len(R)
               /\ Follows(ks[k], id, n, t, Len(t))
               /\ \A l \in 1..Len(ks) : ks[l][1].id = id => l = k
    <2>1. PICK f \in 1..Len(js) : ks[k] = js[f]
      BY <1>4
    <2>2. /\ Piece(ks[k], R) /\ Ends(ks[k]) = Len(R)
          /\ Follows(ks[k], id, n, s, Len(s))
      BY <1>4, <2>1 DEF Stream
    <2>3. Follows(ks[k], id, n, t, Len(t))
      BY <1>1, <1>3, <2>2, FollowsOther
    <2> QED BY <1>4, <2>2, <2>3
  <1>5. Stream(id, R, n, t, ks)
    BY <1>2, <1>4 DEF Stream
  <1> QED BY <1>1, <1>5

\* The kernel sends some messages of another request's reply.
LEMMA StreamOther ==
    ASSUME NEW id, NEW R, NEW n, NEW s \in Seq(Packets), NEW js \in Seq(Packets),
           NEW j \in 1..Len(js), NEW m \in 1..Len(js[j]),
           \A i \in 1..Len(js[j]) : js[j][i].id # id,
           Stream(id, R, n, s, js),
           NEW ks, ks = IF m = Len(js[j]) THEN RemoveAt(js, j)
                        ELSE [js EXCEPT ![j] = SubSeq(js[j], m + 1, Len(js[j]))]
    PROVE  Stream(id, R, n, Append(s, SubSeq(js[j], 1, m)), ks)
  <1>1. PICK d : d = js[j]
    OBVIOUS
  <1>2. d \in Packets /\ Len(d) \in Nat /\ Len(d) > 0 /\ m \in Nat /\ 1 <= m /\ m <= Len(d)
    <2>1. d \in Packets
      BY <1>1
    <2>2. Len(d) \in Nat /\ Len(d) > 0
      BY <2>1, PlaceType
    <2> QED BY <1>1, <2>1, <2>2
  <1>3. PICK x : x = SubSeq(d, 1, m)
    OBVIOUS
  <1>4. x \in Packets /\ x[1].id # id
    <2>1. x \in Packets /\ \A i \in 1..m : x[i] = d[i]
      BY <1>1, <1>2, <1>3, PacketCut
    <2>2. 1 \in 1..m /\ 1 \in 1..Len(d)
      BY <1>2
    <2> QED BY <1>1, <2>1, <2>2
  <1>5. CASE m = Len(d)
    <2>1. ks = RemoveAt(js, j)
      BY <1>1, <1>5
    <2>2. /\ ks \in Seq(Packets) /\ Len(ks) = Len(js) - 1
          /\ \A k \in 1..(Len(js) - 1) : ks[k] = IF k < j THEN js[k] ELSE js[k + 1]
      BY <2>1, RemoveAtValue
    <2>3. Len(js) \in Nat
      OBVIOUS
    <2>4. \A k \in 1..Len(ks) :
             (IF k < j THEN k ELSE k + 1) \in 1..Len(js) /\ k \in 1..(Len(js) - 1)
      BY <2>2, <2>3
    <2>5. \A k \in 1..Len(ks) : ks[k] = js[IF k < j THEN k ELSE k + 1]
      BY <2>2, <2>4
    <2>6. \A k \in 1..Len(ks) : ks[k][1].id = id => \E f \in 1..Len(js) : ks[k] = js[f]
      BY <2>4, <2>5
    <2>7. ASSUME NEW k \in 1..Len(ks), NEW l \in 1..Len(ks),
                 ks[k][1].id = id, ks[l][1].id = id
          PROVE  k = l
      <3>1. (IF k < j THEN k ELSE k + 1) = (IF l < j THEN l ELSE l + 1)
        BY <2>4, <2>5, <2>7, ZenonT(30) DEF Stream
      <3> QED BY <2>2, <2>3, <3>1
    <2>8. \A k, l \in 1..Len(ks) : ks[k][1].id = id /\ ks[l][1].id = id => k = l
      BY <2>7
    <2>9. Stream(id, R, n, Append(s, x), ks)
      BY <1>4, <2>2, <2>6, <2>8, JobsKept
    <2> QED BY <1>1, <1>3, <2>9
  <1>6. CASE m # Len(d)
    <2>1. PICK y : y = SubSeq(d, m + 1, Len(d))
      OBVIOUS
    <2>2. y \in Packets /\ \A i \in 1..(Len(d) - m) : y[i] = d[m + i]
      BY <1>1, <1>2, <1>6, <2>1, PacketCut
    <2>3. y[1].id # id
      <3>1. 1 \in 1..(Len(d) - m) /\ m + 1 \in 1..Len(d)
        BY <1>2, <1>6
      <3> QED BY <1>1, <2>2, <3>1
    <2>4. ks = [js EXCEPT ![j] = y]
      BY <1>1, <1>6, <2>1
    <2>5. /\ ks \in Seq(Packets) /\ Len(ks) = Len(js)
          /\ \A k \in 1..Len(js) : ks[k] = IF k = j THEN y ELSE js[k]
      <3>1. /\ [js EXCEPT ![j] = y] \in Seq(Packets)
            /\ Len([js EXCEPT ![j] = y]) = Len(js)
            /\ \A k \in 1..Len(js) : [js EXCEPT ![j] = y][k] = IF k = j THEN y ELSE js[k]
        BY <2>2, ExceptSeq
      <3> QED BY <2>4, <3>1
    <2>6. \A k \in 1..Len(ks) : ks[k][1].id = id => k # j /\ ks[k] = js[k]
      BY <2>3, <2>5
    <2>7. \A k \in 1..Len(ks) : ks[k][1].id = id => \E f \in 1..Len(js) : ks[k] = js[f]
      BY <2>5, <2>6
    <2>8. \A k, l \in 1..Len(ks) : ks[k][1].id = id /\ ks[l][1].id = id => k = l
      BY <2>5, <2>6 DEF Stream
    <2>9. Stream(id, R, n, Append(s, x), ks)
      BY <1>4, <2>5, <2>7, <2>8, JobsKept, ZenonT(30)
    <2> QED BY <1>1, <1>3, <2>9
  <1> QED BY <1>5, <1>6

\* The kernel sends the next messages of the reply.
LEMMA StreamOwn ==
    ASSUME NEW id, NEW R, Placed(R), NEW n \in Nat, NEW s \in Seq(Packets),
           NEW js \in Seq(Packets), NEW j \in 1..Len(js), NEW m \in 1..Len(js[j]),
           js[j][1].id = id, Stream(id, R, n, s, js),
           NEW ks, ks = IF m = Len(js[j]) THEN RemoveAt(js, j)
                        ELSE [js EXCEPT ![j] = SubSeq(js[j], m + 1, Len(js[j]))]
    PROVE  Stream(id, R, n, Append(s, SubSeq(js[j], 1, m)), ks)
  <1>1. PICK d : d = js[j]
    OBVIOUS
  <1>2. d \in Packets /\ Len(d) \in Nat /\ Len(d) > 0 /\ m \in Nat /\ 1 <= m /\ m <= Len(d)
        /\ Starts(d) \in Nat
    <2>1. d \in Packets
      BY <1>1
    <2>2. Len(d) \in Nat /\ Len(d) > 0 /\ Starts(d) \in Nat
      BY <2>1, PlaceType
    <2> QED BY <1>1, <2>1, <2>2
  <1>3. /\ Piece(d, R) /\ Ends(d) = Len(R) /\ Follows(d, id, n, s, Len(s))
        /\ \A k \in 1..Len(js) : js[k][1].id = id => k = j
    BY <1>1 DEF Stream
  <1>4. Starts(d) > 0
    <2>1. n < Starts(d)
      BY <1>3 DEF Follows
    <2> QED BY <1>2, <2>1
  <1>5. PICK x : x = SubSeq(d, 1, m)
    OBVIOUS
  <1>6. x \in Packets /\ x[1].id = id
    <2>1. x \in Packets /\ \A i \in 1..m : x[i] = d[i]
      BY <1>1, <1>2, <1>5, PacketCut
    <2>2. 1 \in 1..m
      BY <1>2
    <2> QED BY <1>1, <2>1, <2>2
  <1>7. Piece(x, R) /\ Starts(x) = Starts(d) /\ Ends(x) = Starts(d) + m - 1
    BY <1>1, <1>2, <1>3, <1>4, <1>5, PieceCut
  <1>8. Follows(x, id, n, s, Len(s))
    BY <1>3, <1>7 DEF Follows
  <1>9. PICK t : t = Append(s, x)
    OBVIOUS
  <1>10. \A i \in 1..Len(t) : t[i][1].id = id => Piece(t[i], R) /\ Follows(t[i], id, n, t, i - 1)
    <2>1. /\ \A i \in 1..Len(s) :
                s[i][1].id = id => Piece(s[i], R) /\ Follows(s[i], id, n, s, i - 1)
          /\ x[1].id = id => Piece(x, R) /\ Follows(x, id, n, s, Len(s))
      BY <1>7, <1>8 DEF Stream
    <2> QED BY <1>6, <1>9, <2>1, SocketGrows
  <1>11. Len(t) = Len(s) + 1 /\ Len(js) \in Nat
    BY <1>9
  <1>12. CASE m = Len(d)
    <2>1. ks = RemoveAt(js, j)
      BY <1>1, <1>12
    <2>2. /\ Len(ks) = Len(js) - 1
          /\ \A k \in 1..(Len(js) - 1) : ks[k] = IF k < j THEN js[k] ELSE js[k + 1]
      BY <2>1, RemoveAtValue
    <2>3. ASSUME NEW k \in 1..Len(ks), ks[k][1].id = id
          PROVE  FALSE
      <3>1. PICK f \in 1..Len(js) : ks[k] = js[f] /\ f # j
        <4>1. CASE k < j
          <5>1. k \in 1..Len(js) /\ k # j /\ ks[k] = js[k]
            BY <1>11, <2>2, <4>1
          <5> QED BY <5>1
        <4>2. CASE ~(k < j)
          <5>1. k + 1 \in 1..Len(js) /\ k + 1 # j /\ ks[k] = js[k + 1]
            BY <1>11, <2>2, <4>2
          <5> QED BY <5>1
        <4> QED BY <4>1, <4>2
      <3> QED BY <1>3, <2>3, <3>1
    <2>4. Stream(id, R, n, t, ks)
      BY <1>10, <2>3 DEF Stream
    <2> QED BY <1>1, <1>5, <1>9, <2>4
  <1>13. CASE m # Len(d)
    <2>1. PICK y : y = SubSeq(d, m + 1, Len(d))
      OBVIOUS
    <2>2. y \in Packets
      BY <1>1, <1>2, <1>13, <2>1, PacketCut
    <2>3. Piece(y, R) /\ Starts(y) = Starts(d) + m /\ Ends(y) = Ends(d)
      BY <1>1, <1>2, <1>3, <1>4, <1>13, <2>1, PieceCut
    <2>4. Starts(y) = Ends(x) + 1
      BY <1>2, <1>7, <2>3
    <2>5. Follows(y, id, n, t, Len(t))
      BY <1>6, <1>8, <1>9, <1>11, <2>2, <2>4, FollowsOwn
    <2>6. ks = [js EXCEPT ![j] = y]
      BY <1>1, <1>13, <2>1
    <2>7. Len(ks) = Len(js) /\ \A k \in 1..Len(js) : ks[k] = IF k = j THEN y ELSE js[k]
      <3>1. /\ [js EXCEPT ![j] = y] \in Seq(Packets)
            /\ Len([js EXCEPT ![j] = y]) = Len(js)
            /\ \A k \in 1..Len(js) : [js EXCEPT ![j] = y][k] = IF k = j THEN y ELSE js[k]
        BY <2>2, ExceptSeq
      <3> QED BY <2>6, <3>1
    <2>8. \A k \in 1..Len(ks) : ks[k][1].id = id => k = j
      BY <1>3, <2>7
    <2>9. ks[j] = y
      BY <2>7
    <2>10. ASSUME NEW k \in 1..Len(ks), ks[k][1].id = id
           PROVE  /\ Piece(ks[k], R) /\ Ends(ks[k]) = Len(R)
                  /\ Follows(ks[k], id, n, t, Len(t))
                  /\ \A l \in 1..Len(ks) : ks[l][1].id = id => l = k
      <3>1. k = j
        BY <2>8, <2>10
      <3> QED BY <1>3, <2>3, <2>5, <2>8, <2>9, <3>1
    <2>11. Stream(id, R, n, t, ks)
      BY <1>10, <2>10 DEF Stream
    <2> QED BY <1>1, <1>5, <1>9, <2>11
  <1> QED BY <1>12, <1>13

\* A request nothing was sent for yet, and its reply.
LEMMA StreamNew ==
    ASSUME NEW id, NEW R, Placed(R), NEW s \in Seq(Packets), NEW js \in Seq(Packets),
           \A i \in 1..Len(s) : s[i][1].id # id,
           \A j \in 1..Len(js) : js[j][1].id # id
    PROVE  Stream(id, R, 0, s, Append(js, R))
  <1>1. PICK ks : ks = Append(js, R)
    OBVIOUS
  <1>2. R \in Packets /\ Len(R) \in Nat /\ Len(R) > 0 /\ Starts(R) = 1 /\ Ends(R) = Len(R)
    <2>1. R \in Packets /\ \A p \in 1..Len(R) : Place(R[p]) = p
      BY DEF Placed
    <2>2. Len(R) \in Nat /\ Len(R) > 0 /\ Ends(R) = Starts(R) + Len(R) - 1
      BY <2>1, PlaceType
    <2>3. Starts(R) = 1
      BY <2>1, <2>2 DEF Starts
    <2> QED BY <2>1, <2>2, <2>3
  <1>3. /\ Len(js) \in Nat /\ Len(ks) = Len(js) + 1 /\ ks[Len(js) + 1] = R
        /\ \A k \in 1..Len(js) : ks[k] = js[k]
    BY <1>1, <1>2
  <1>4. Piece(R, R)
    <2>1. \A i \in 1..Len(R) : 1 + i - 1 = i
      BY <1>2
    <2> QED BY <1>2, <2>1 DEF Piece
  <1>5. Follows(R, id, 0, s, Len(s))
    BY <1>2 DEF Follows
  <1>6. \A k \in 1..Len(ks) : ks[k][1].id = id => k = Len(js) + 1
    BY <1>3
  <1>7. ASSUME NEW k \in 1..Len(ks), ks[k][1].id = id
        PROVE  /\ Piece(ks[k], R) /\ Ends(ks[k]) = Len(R)
               /\ Follows(ks[k], id, 0, s, Len(s))
               /\ \A l \in 1..Len(ks) : ks[l][1].id = id => l = k
    <2>1. k = Len(js) + 1
      BY <1>6, <1>7
    <2> QED BY <1>2, <1>3, <1>4, <1>5, <1>6, <2>1
  <1>8. Stream(id, R, 0, s, ks)
    BY <1>7 DEF Stream
  <1> QED BY <1>1, <1>8

\* The messages of a reply.
LEMMA ReplyShape ==
    ASSUME NEW c \in CallRecord
    PROVE  /\ Reply(c) \in Packets
           /\ c.kind = "dump" /\ ~c.error =>
                 /\ Len(Reply(c)) = DumpParts + 1
                 /\ \A p \in 1..DumpParts : Reply(c)[p].part = p
                 /\ Reply(c)[DumpParts + 1].part = 0
                 /\ \A p \in 1..(DumpParts + 1) : Reply(c)[p].multi
           /\ ~(c.kind = "dump" /\ ~c.error) =>
                 /\ Len(Reply(c)) = 1 /\ Reply(c)[1].part = 1
                 /\ ~Reply(c)[1].multi /\ Reply(c)[1].error = c.error
  <1>1. DumpParts \in Nat /\ DumpParts > 0
    BY NetlinkAssumption
  <1>2. /\ c.id \in Nat /\ c.seq \in Nat /\ c.kind \in Kinds /\ c.error \in BOOLEAN
    BY DEF CallRecord
  <1> DEFINE message(p) == [id |-> c.id, seq |-> c.seq, part |-> p,
                            multi |-> c.kind = "dump" /\ ~c.error, error |-> c.error]
  <1>3. \A p \in Nat : /\ message(p) \in Messages /\ message(p).part = p
                       /\ message(p).multi = (c.kind = "dump" /\ ~c.error)
                       /\ message(p).error = c.error
    BY <1>2 DEF Messages
  <1>4. Reply(c) = IF c.kind = "dump" /\ ~c.error
                   THEN [p \in 1..(DumpParts + 1) |-> message(p % (DumpParts + 1))]
                   ELSE <<message(1)>>
    BY DEF Reply
  <1> HIDE DEF message
  <1>5. CASE c.kind = "dump" /\ ~c.error
    <2>1. \A p \in 1..(DumpParts + 1) : p % (DumpParts + 1) \in Nat
      BY <1>1
    <2>2. PICK R : R = Reply(c)
      OBVIOUS
    <2>3. R = [p \in 1..(DumpParts + 1) |-> message(p % (DumpParts + 1))]
      BY <1>4, <1>5, <2>2
    <2>4. \A p \in 1..(DumpParts + 1) :
              R[p] \in Messages /\ R[p].part = p % (DumpParts + 1) /\ R[p].multi
      BY <1>3, <1>5, <2>1, <2>3
    <2>5. R \in [1..(DumpParts + 1) -> Messages]
      BY <2>3, <2>4
    <2>6. R \in Seq(Messages) /\ Len(R) = DumpParts + 1
      BY <1>1, <2>5
    <2>7. R \in Packets
      BY <1>1, <2>6 DEF Packets
    <2>8. ASSUME NEW p \in 1..DumpParts
          PROVE  R[p].part = p
      <3>1. p \in 1..(DumpParts + 1)
        BY <1>1
      <3>2. p % (DumpParts + 1) = p
        BY <1>1
      <3> QED BY <2>4, <3>1, <3>2
    <2>9. R[DumpParts + 1].part = 0
      <3>1. (DumpParts + 1) % (DumpParts + 1) = 0
        BY <1>1
      <3>2. DumpParts + 1 \in 1..(DumpParts + 1)
        BY <1>1
      <3> QED BY <2>4, <3>1, <3>2
    <2> QED BY <1>5, <2>2, <2>4, <2>6, <2>7, <2>8, <2>9
  <1>6. CASE ~(c.kind = "dump" /\ ~c.error)
    <2>1. Reply(c) = <<message(1)>>
      BY <1>4, <1>6
    <2>2. message(1) \in Messages /\ message(1).part = 1 /\ message(1).error = c.error
      BY <1>3
    <2>3. ~message(1).multi
      BY <1>3, <1>6
    <2>4. Reply(c) \in Packets /\ Len(Reply(c)) = 1 /\ Reply(c)[1] = message(1)
      BY <2>1, <2>2 DEF Packets
    <2> QED BY <1>6, <2>2, <2>3, <2>4
  <1> QED BY <1>5, <1>6

\* Every message of a reply is at its place.
LEMMA ReplyPlaced ==
    ASSUME NEW c \in CallRecord
    PROVE  Placed(Reply(c))
  <1>1. DumpParts \in Nat /\ DumpParts > 0
    BY NetlinkAssumption
  <1>2. PICK R : R = Reply(c)
    OBVIOUS
  <1>3. R \in Packets
    BY <1>2, ReplyShape
  <1>4. CASE c.kind = "dump" /\ ~c.error
    <2>1. /\ Len(R) = DumpParts + 1 /\ \A p \in 1..DumpParts : R[p].part = p
          /\ R[DumpParts + 1].part = 0
      BY <1>2, <1>4, ReplyShape
    <2>2. ASSUME NEW p \in 1..(DumpParts + 1)
          PROVE  Place(R[p]) = p
      <3>1. CASE p = DumpParts + 1
        BY <2>1, <3>1 DEF Place
      <3>2. CASE p # DumpParts + 1
        <4>1. p \in 1..DumpParts /\ p # 0
          BY <1>1, <3>2
        <4> QED BY <2>1, <4>1 DEF Place
      <3> QED BY <3>1, <3>2
    <2> QED BY <1>2, <1>3, <2>1, <2>2 DEF Placed
  <1>5. CASE ~(c.kind = "dump" /\ ~c.error)
    <2>1. Len(R) = 1 /\ R[1].part = 1
      BY <1>2, <1>5, ReplyShape
    <2>2. \A p \in 1..1 : p = 1
      OBVIOUS
    <2> QED BY <1>2, <1>3, <2>1, <2>2 DEF Place, Placed
  <1> QED BY <1>4, <1>5

\* What was collected, and the messages of the next datagram or its first ones.
LEMMA Joined ==
    ASSUME NEW R, NEW r \in Seq(Messages), NEW d \in Packets, NEW a \in Seq(Messages),
           Piece(d, R), Starts(d) = Len(r) + 1,
           \A i \in 1..Len(r) : r[i] = R[i],
           Len(a) <= Len(d), \A i \in 1..Len(a) : a[i] = d[i]
    PROVE  /\ r \o a \in Seq(Messages) /\ Len(r \o a) = Len(r) + Len(a)
           /\ \A i \in 1..(Len(r) + Len(a)) : (r \o a)[i] = R[i]
  <1>1. Len(r) \in Nat /\ Len(a) \in Nat /\ Len(d) \in Nat
    BY PlaceType
  <1>2. PICK q : q = r \o a
    OBVIOUS
  <1>3. /\ q \in Seq(Messages) /\ Len(q) = Len(r) + Len(a)
        /\ \A i \in 1..(Len(r) + Len(a)) :
              q[i] = IF i <= Len(r) THEN r[i] ELSE a[i - Len(r)]
    BY <1>2, ConcatProperties
  <1>4. ASSUME NEW i \in 1..(Len(r) + Len(a))
        PROVE  q[i] = R[i]
    <2>1. CASE i <= Len(r)
      BY <1>1, <1>3, <2>1
    <2>2. CASE ~(i <= Len(r))
      <3>1. /\ i - Len(r) \in 1..Len(a) /\ i - Len(r) \in 1..Len(d)
            /\ (Len(r) + 1) + (i - Len(r)) - 1 = i
        BY <1>1, <2>2
      <3>2. q[i] = d[i - Len(r)]
        BY <1>3, <2>2, <3>1
      <3>3. d[i - Len(r)] = R[i]
        BY <3>1 DEF Piece
      <3> QED BY <3>2, <3>3
    <2> QED BY <2>1, <2>2
  <1> QED BY <1>2, <1>3, <1>4

\* A datagram that does not complete the reply leaves some of it.
LEMMA MoreToCome ==
    ASSUME NEW c \in CallRecord, NEW r \in Seq(Messages), NEW d \in Packets,
           Piece(d, Reply(c)), Starts(d) = Len(r) + 1,
           \A i \in 1..Len(r) : r[i] = Reply(c)[i], ~Completes(d)
    PROVE  /\ Len(r \o Appended(d)) = Ends(d) /\ Ends(d) < Len(Reply(c))
           /\ \A i \in 1..Ends(d) : (r \o Appended(d))[i] = Reply(c)[i]
  <1>1. DumpParts \in Nat /\ DumpParts > 0
    BY NetlinkAssumption
  <1>2. PICK R : R = Reply(c)
    OBVIOUS
  <1>3. /\ Len(d) \in Nat /\ Len(d) > 0 /\ d \in Seq(Messages)
        /\ Starts(d) \in Nat /\ Ends(d) \in Nat /\ Ends(d) = Starts(d) + Len(d) - 1
    BY PlaceType
  <1>4. Ends(d) <= Len(R) /\ \A i \in 1..Len(d) : d[i] = R[Starts(d) + i - 1]
    BY <1>2 DEF Piece
  <1>5. Len(r) \in Nat /\ R \in Packets /\ Len(R) \in Nat
    BY <1>2, ReplyShape DEF Packets
  <1>6. \A i \in 1..Len(d) : d[i].part # 0 /\ d[i].multi
    BY <1>3 DEF Completes, Range
  <1>7. d[Len(d)] = R[Ends(d)] /\ d[1] = R[Starts(d)]
    <2>1. /\ Len(d) \in 1..Len(d) /\ 1 \in 1..Len(d) /\ Starts(d) + 1 - 1 = Starts(d)
      BY <1>3
    <2> QED BY <1>3, <1>4, <2>1
  <1>8. c.kind = "dump" /\ ~c.error
    <2>1. SUFFICES ASSUME ~(c.kind = "dump" /\ ~c.error) PROVE FALSE
      OBVIOUS
    <2>2. Len(R) = 1 /\ ~R[1].multi
      BY <1>2, <2>1, ReplyShape
    <2>3. Starts(d) = 1
      BY <1>3, <1>4, <1>5, <2>2
    <2>4. 1 \in 1..Len(d)
      BY <1>3
    <2> QED BY <1>6, <1>7, <2>2, <2>3, <2>4
  <1>9. Len(R) = DumpParts + 1 /\ R[DumpParts + 1].part = 0
    BY <1>2, <1>8, ReplyShape
  <1>10. Ends(d) # Len(R)
    <2>1. Len(d) \in 1..Len(d)
      BY <1>3
    <2> QED BY <1>6, <1>7, <1>9, <2>1
  <1>11. Appended(d) = d
    <2>1. Last(d) = d[Len(d)] /\ Len(d) \in 1..Len(d)
      BY <1>3 DEF Last
    <2> QED BY <1>6, <2>1 DEF Appended
  <1>12. /\ Len(r \o d) = Len(r) + Len(d)
         /\ \A i \in 1..(Len(r) + Len(d)) : (r \o d)[i] = R[i]
    <2>1. Len(d) <= Len(d) /\ \A i \in 1..Len(d) : d[i] = d[i]
      BY <1>3
    <2> QED BY <1>2, <1>3, <2>1, Joined
  <1>13. Len(r) + Len(d) = Ends(d)
    BY <1>3, <1>5
  <1>14. Ends(d) < Len(R)
    <2>1. Ends(d) <= Len(R) /\ Ends(d) \in Nat /\ Len(R) \in Nat
      BY <1>3, <1>4, <1>5
    <2> QED BY <1>10, <2>1
  <1> QED BY <1>2, <1>11, <1>12, <1>13, <1>14

\* A datagram that completes the reply gives a caller that accepts it all data.
LEMMA AllThere ==
    ASSUME NEW c \in CallRecord, NEW r \in Seq(Messages), NEW d \in Packets,
           Piece(d, Reply(c)), Starts(d) = Len(r) + 1,
           \A i \in 1..Len(r) : r[i] = Reply(c)[i], Completes(d),
           Accepts(c, r \o Appended(d))
    PROVE  /\ r \o Appended(d) = SubSeq(Reply(c), 1, IF c.kind = "dump" THEN DumpParts ELSE 1)
           /\ ~c.error
  <1>1. DumpParts \in Nat /\ DumpParts > 0
    BY NetlinkAssumption
  <1>2. PICK R : R = Reply(c)
    OBVIOUS
  <1>3. /\ Len(d) \in Nat /\ Len(d) > 0 /\ d \in Seq(Messages)
        /\ Starts(d) \in Nat /\ Ends(d) \in Nat /\ Ends(d) = Starts(d) + Len(d) - 1
    BY PlaceType
  <1>4. Ends(d) <= Len(R) /\ \A i \in 1..Len(d) : d[i] = R[Starts(d) + i - 1]
    BY <1>2 DEF Piece
  <1>5. Len(r) \in Nat /\ R \in Seq(Messages) /\ Len(R) \in Nat
    BY <1>2, ReplyShape DEF Packets
  <1>6. PICK i \in 1..Len(d) : d[i].part = 0 \/ ~d[i].multi
    BY <1>3 DEF Completes, Range
  <1>7. PICK a : a = Appended(d)
    OBVIOUS
  <1>8. PICK q : q = r \o a
    OBVIOUS
  <1>9. ASSUME NEW n \in Nat, n <= Len(R), q \in Seq(Messages), Len(q) = n,
               \A k \in 1..n : q[k] = R[k]
        PROVE  q = SubSeq(R, 1, n)
    <2>1. PICK z : z = SubSeq(R, 1, n)
      OBVIOUS
    <2>2. /\ z \in Seq(Messages) /\ Len(z) = n /\ \A k \in 1..n : z[k] = R[k]
      <3>1. 1 \in Int /\ n \in Int /\ \A k \in 1..n : R[k] \in Messages
        BY <1>5, <1>9
      <3>2. /\ SubSeq(R, 1, n) \in Seq(Messages)
            /\ Len(SubSeq(R, 1, n)) = IF 1 <= n THEN n - 1 + 1 ELSE 0
            /\ \A k \in 1..(n - 1 + 1) : SubSeq(R, 1, n)[k] = R[1 + k - 1]
        BY <3>1, SubSeqProperties
      <3>3. (IF 1 <= n THEN n - 1 + 1 ELSE 0) = n /\ n - 1 + 1 = n
        BY <1>9
      <3>4. \A k \in 1..n : 1 + k - 1 = k
        OBVIOUS
      <3> QED BY <2>1, <3>2, <3>3, <3>4
    <2>3. q = z
      BY <1>9, <2>2, SeqEqual
    <2> QED BY <2>1, <2>3
  <1>10. CASE c.kind = "dump" /\ ~c.error
    <2>1. /\ Len(R) = DumpParts + 1 /\ \A p \in 1..DumpParts : R[p].part = p
          /\ \A p \in 1..(DumpParts + 1) : R[p].multi
      BY <1>2, <1>10, ReplyShape
    <2>2. PICK p \in 1..(DumpParts + 1) : p = Starts(d) + i - 1
      <3>1. Ends(d) <= DumpParts + 1
        BY <1>4, <2>1
      <3>2. Starts(d) + i - 1 \in 1..(DumpParts + 1)
        BY <1>1, <1>3, <1>5, <3>1
      <3> QED BY <3>2
    <2>3. d[i] = R[p] /\ R[p].multi
      BY <1>4, <2>1, <2>2
    <2>4. R[p].part = 0
      BY <1>6, <2>3
    <2>5. p = DumpParts + 1
      <3>1. ASSUME p # DumpParts + 1 PROVE FALSE
        <4>1. p \in 1..DumpParts /\ p # 0
          BY <1>1, <3>1
        <4> QED BY <2>1, <2>4, <4>1
      <3> QED BY <3>1
    <2>6. i = Len(d) /\ Ends(d) = DumpParts + 1
      BY <1>1, <1>3, <1>4, <2>1, <2>2, <2>5
    <2>7. a = SubSeq(d, 1, Len(d) - 1)
      <3>1. Last(d) = d[Len(d)]
        BY DEF Last
      <3> QED BY <1>7, <2>3, <2>4, <2>6, <3>1 DEF Appended, Front
    <2>8. /\ a \in Seq(Messages) /\ Len(a) = Len(d) - 1
          /\ \A k \in 1..(Len(d) - 1) : a[k] = d[k]
      <3>1. 1 \in Int /\ Len(d) - 1 \in Int /\ \A k \in 1..(Len(d) - 1) : d[k] \in Messages
        BY <1>3
      <3>2. /\ SubSeq(d, 1, Len(d) - 1) \in Seq(Messages)
            /\ Len(SubSeq(d, 1, Len(d) - 1)) =
                  IF 1 <= Len(d) - 1 THEN Len(d) - 1 - 1 + 1 ELSE 0
            /\ \A k \in 1..(Len(d) - 1 - 1 + 1) : SubSeq(d, 1, Len(d) - 1)[k] = d[1 + k - 1]
        BY <3>1, SubSeqProperties
      <3>3. /\ (IF 1 <= Len(d) - 1 THEN Len(d) - 1 - 1 + 1 ELSE 0) = Len(d) - 1
            /\ Len(d) - 1 - 1 + 1 = Len(d) - 1
        <4>1. \A n \in Nat : n > 0 =>
                 (IF 1 <= n - 1 THEN n - 1 - 1 + 1 ELSE 0) = n - 1 /\ n - 1 - 1 + 1 = n - 1
          OBVIOUS
        <4> QED BY <1>3, <4>1
      <3>4. \A k \in 1..(Len(d) - 1) : 1 + k - 1 = k
        OBVIOUS
      <3> QED BY <2>7, <3>2, <3>3, <3>4
    <2>9. /\ q \in Seq(Messages) /\ Len(q) = Len(r) + Len(a)
          /\ \A k \in 1..(Len(r) + Len(a)) : q[k] = R[k]
      <3>1. Len(a) <= Len(d) /\ \A k \in 1..Len(a) : a[k] = d[k]
        BY <1>3, <2>8
      <3>2. /\ r \o a \in Seq(Messages) /\ Len(r \o a) = Len(r) + Len(a)
            /\ \A k \in 1..(Len(r) + Len(a)) : (r \o a)[k] = R[k]
        <4>1. Piece(d, R) /\ \A k \in 1..Len(r) : r[k] = R[k]
          BY <1>2
        <4> QED BY <2>8, <3>1, <4>1, Joined
      <3> QED BY <1>8, <3>2
    <2>10. Len(r) + Len(a) = DumpParts
      BY <1>1, <1>3, <1>5, <2>6, <2>8
    <2>11. q = SubSeq(R, 1, DumpParts)
      <3>1. DumpParts <= Len(R)
        BY <1>1, <2>1
      <3> QED BY <1>1, <1>9, <2>9, <2>10, <3>1
    <2> QED BY <1>2, <1>7, <1>8, <1>10, <2>11
  <1>11. CASE ~(c.kind = "dump" /\ ~c.error)
    <2>1. Len(R) = 1 /\ R[1].part = 1 /\ R[1].error = c.error
      BY <1>2, <1>11, ReplyShape
    <2>2. Starts(d) = 1 /\ Len(d) = 1 /\ Len(r) = 0
      BY <1>3, <1>4, <1>5, <2>1
    <2>3. d[1] = R[1]
      <3>1. 1 \in 1..Len(d) /\ 1 + 1 - 1 = 1
        BY <1>3
      <3> QED BY <1>4, <2>2, <3>1
    <2>4. a = d
      BY <1>7, <2>1, <2>2, <2>3 DEF Appended, Last
    <2>5. /\ q \in Seq(Messages) /\ Len(q) = Len(r) + Len(a)
          /\ \A k \in 1..(Len(r) + Len(a)) : q[k] = R[k]
      <3>1. a \in Seq(Messages) /\ Len(a) <= Len(d) /\ \A k \in 1..Len(a) : a[k] = d[k]
        BY <1>3, <2>4
      <3>2. /\ r \o a \in Seq(Messages) /\ Len(r \o a) = Len(r) + Len(a)
            /\ \A k \in 1..(Len(r) + Len(a)) : (r \o a)[k] = R[k]
        BY <1>2, <3>1, Joined
      <3> QED BY <1>8, <3>2
    <2>6. Len(r) + Len(a) = 1
      BY <2>2, <2>4
    <2>7. q = SubSeq(R, 1, 1)
      BY <1>9, <2>1, <2>5, <2>6
    <2>8. ~c.error
      <3>1. q[1] = R[1] /\ 1 \in DOMAIN q
        BY <2>5, <2>6
      <3>2. ~q[1].error
        BY <1>7, <1>8, <3>1 DEF Accepts, Range
      <3> QED BY <2>1, <3>1, <3>2
    <2>9. c.kind # "dump"
      BY <1>11, <2>8
    <2> QED BY <1>2, <1>7, <1>8, <2>7, <2>8, <2>9
  <1> QED BY <1>10, <1>11

\* While no request was sent a second time.
WholeInv ==
    /\ call # NoCall => call.attempt >= 1 /\ \E h \in handlers : h.seq = call.seq
    /\ call # NoCall /\ call.attempt = 1 =>
          /\ \A i \in 1..Len(response) : response[i] = Reply(call)[i]
          /\ Stream(call.id, Reply(call), Len(response), socket, jobs)
    /\ RepliesComplete

\* Datagrams are packets, all of one request.
LEMMA DatagramsArePackets ==
    /\ Datagrams \subseteq Packets
    /\ \A d \in Datagrams : \A i \in 1..Len(d) : d[i].id = d[1].id
    /\ \A s \in Seq(Datagrams) : s \in Seq(Packets)
  <1>1. PICK D : D = Datagrams
    OBVIOUS
  <1>2. D \subseteq Packets
    BY <1>1 DEF Datagrams, Packets
  <1>3. \A s \in Seq(D) : s \in Seq(Packets)
    BY <1>2
  <1>4. \A d \in D : \A i \in 1..Len(d) : d[i].id = d[1].id
    BY <1>1 DEF Datagrams
  <1> QED BY <1>1, <1>2, <1>3, <1>4

\* A call returns: it succeeds with all of its reply or not at all.
LEMMA ReturnWhole ==
    ASSUME NEW ok, NEW r, Returns(ok, r),
           ok /\ Accepts(call, r) /\ call.attempt = 1 =>
              /\ r = SubSeq(Reply(call), 1, IF call.kind = "dump" THEN DumpParts ELSE 1)
              /\ ~call.error
    PROVE  WholeInv'
  <1>1. /\ call' = NoCall
        /\ result' = [ok |-> ok /\ Accepts(call, r), call |-> call, response |-> r]
    BY DEF Returns
  <1>2. /\ result'.ok = (ok /\ Accepts(call, r)) /\ result'.call = call
        /\ result'.response = r
    BY <1>1
  <1>3. RepliesComplete'
    BY <1>2 DEF RepliesComplete
  <1> QED BY <1>1, <1>3 DEF WholeInv

\* After another attempt nothing is said of the reply.
LEMMA ResendWhole ==
    ASSUME IInv, WholeInv, call # NoCall, NEW r, Resend(r)
    PROVE  WholeInv'
  <1>1. PICK k \in 1..call.left, error \in BOOLEAN :
            call' = [call EXCEPT !.left = @ - k, !.attempt = @ + k, !.error = error]
    BY DEF Resend, Verdicts
  <1>2. call \in CallRecord /\ call.attempt \in Nat /\ call.left \in Nat /\ call.attempt >= 1
    BY DEF IInv, NamesOK, CallRecord, WholeInv
  <1>3. call'.attempt = call.attempt + k /\ call'.seq = call.seq
    BY <1>1, <1>2 DEF CallRecord
  <1>4. call'.attempt >= 1 /\ call'.attempt # 1
    BY <1>2, <1>3
  <1>5. \E h \in handlers' : h.seq = call'.seq
    BY <1>3, ZenonT(30) DEF Resend
  <1>6. RepliesComplete'
    BY DEF Resend, RepliesComplete, WholeInv
  <1> QED BY <1>4, <1>5, <1>6 DEF WholeInv

\* A request goes out: no reply to it is on its way but the one to come.
LEMMA SendWhole ==
    ASSUME IInv, TalkInv, WholeInv, IInv', NEW kind \in Kinds, NEW retries \in Nat,
           SendMessageAndGetResponses(kind, retries)
    PROVE  WholeInv'
  <1>1. PICK failed \in 0..retries, error \in BOOLEAN :
            call' = [id |-> drawn', seq |-> seq', kind |-> kind, error |-> error,
                     left |-> retries - failed, attempt |-> failed + 1]
    BY DEF SendMessageAndGetResponses, Verdicts
  <1>2. call'.id = drawn' /\ call'.seq = seq' /\ call'.attempt >= 1
    BY <1>1
  <1>3. \E h \in handlers' : h.seq = call'.seq
    <2>1. [seq |-> seq', id |-> drawn'] \in handlers'
      BY DEF SendMessageAndGetResponses
    <2>2. [seq |-> seq', id |-> drawn'].seq = call'.seq
      BY <1>2
    <2> QED BY <2>1, <2>2
  <1>4. PICK c \in CallRecord : c = call'
    BY DEF IInv, NamesOK
  <1>5. socket \in Seq(Packets) /\ jobs \in Seq(Packets)
    BY DatagramsArePackets DEF TalkInv
  <1>6. drawn \in Nat /\ drawn' = drawn + 1
    BY DEF IInv, NamesOK, SendMessageAndGetResponses
  <1>7. \A d \in Datagrams : d[1].id # c.id
    <2>1. \A d \in Datagrams : d[1].id \in 1..drawn
      <3>1. ASSUME NEW d \in Datagrams
            PROVE  d[1].id \in 1..drawn
        <4>1. 1 \in 1..Len(d)
          BY DEF Datagrams
        <4> QED BY <4>1 DEF Datagrams, InTime
      <3> QED BY <3>1
    <2>2. drawn + 1 \notin 1..drawn
      BY <1>6
    <2> QED BY <1>2, <1>4, <1>6, <2>1, <2>2
  <1>8. /\ \A i \in 1..Len(socket) : socket[i][1].id # c.id
        /\ \A j \in 1..Len(jobs) : jobs[j][1].id # c.id
    <2>1. PICK D : D = Datagrams
      OBVIOUS
    <2>2. socket \in Seq(D) /\ jobs \in Seq(D)
      BY <2>1 DEF TalkInv
    <2>3. \A i \in 1..Len(socket) : socket[i] \in D
      BY <2>2
    <2>4. \A j \in 1..Len(jobs) : jobs[j] \in D
      BY <2>2
    <2> QED BY <1>7, <2>1, <2>3, <2>4
  <1>9. Stream(c.id, Reply(c), 0, socket, Append(jobs, Reply(c)))
    <2>1. Placed(Reply(c))
      BY ReplyPlaced
    <2> QED BY <1>5, <1>8, <2>1, StreamNew
  <1>10. /\ response' = <<>> /\ socket' = socket /\ jobs' = Append(jobs, Reply(c))
    BY <1>4 DEF SendMessageAndGetResponses
  <1>11. Len(response') = 0
    BY <1>10
  <1>12. Stream(call'.id, Reply(call'), Len(response'), socket', jobs')
    BY <1>4, <1>9, <1>10, <1>11
  <1>13. \A i \in 1..Len(response') : response'[i] = Reply(call')[i]
    BY <1>11
  <1>14. RepliesComplete'
    BY DEF SendMessageAndGetResponses, RepliesComplete, WholeInv
  <1> QED BY <1>2, <1>3, <1>12, <1>13, <1>14 DEF WholeInv

\* The kernel sends.
LEMMA KernelWhole ==
    ASSUME IInv, TalkInv, WholeInv, KernelReplies
    PROVE  WholeInv'
  <1>0. PICK j \in DOMAIN jobs :
            \E n \in 1..Len(jobs[j]) :
                /\ socket' = Append(socket, SubSeq(jobs[j], 1, n))
                /\ jobs' = IF n = Len(jobs[j]) THEN RemoveAt(jobs, j)
                           ELSE [jobs EXCEPT ![j] = SubSeq(@, n + 1, Len(@))]
    BY DEF KernelReplies
  <1>1. PICK n \in 1..Len(jobs[j]) :
            /\ socket' = Append(socket, SubSeq(jobs[j], 1, n))
            /\ jobs' = IF n = Len(jobs[j]) THEN RemoveAt(jobs, j)
                       ELSE [jobs EXCEPT ![j] = SubSeq(@, n + 1, Len(@))]
    BY <1>0
  <1>2. UNCHANGED <<call, handlers, response, result>>
    BY DEF KernelReplies
  <1>3. RepliesComplete'
    BY <1>2 DEF RepliesComplete, WholeInv
  <1>4. socket \in Seq(Packets) /\ jobs \in Seq(Packets) /\ j \in 1..Len(jobs)
        /\ response \in Seq(Messages) /\ Len(response) \in Nat
    BY DatagramsArePackets DEF TalkInv
  <1>5. \A i \in 1..Len(jobs[j]) : jobs[j][i].id = jobs[j][1].id
    <2>1. jobs[j] \in Datagrams
      <3>1. PICK D : D = Datagrams
        OBVIOUS
      <3>2. jobs \in Seq(D)
        BY <3>1 DEF TalkInv
      <3> QED BY <1>4, <3>1, <3>2
    <2> QED BY <2>1, DatagramsArePackets
  <1>6. ASSUME call # NoCall, call.attempt = 1
        PROVE  Stream(call.id, Reply(call), Len(response), socket', jobs')
    <2>1. PICK R : R = Reply(call)
      OBVIOUS
    <2>2. Placed(R)
      BY <2>1, ReplyPlaced DEF IInv, NamesOK
    <2>3. PICK id : id = call.id
      OBVIOUS
    <2>4. Stream(id, R, Len(response), socket, jobs)
      BY <1>6, <2>1, <2>3 DEF WholeInv
    <2>5. PICK ks : ks = jobs'
      OBVIOUS
    <2>6. ks = IF n = Len(jobs[j]) THEN RemoveAt(jobs, j)
               ELSE [jobs EXCEPT ![j] = SubSeq(jobs[j], n + 1, Len(jobs[j]))]
      BY <1>1, <2>5
    <2>7. CASE jobs[j][1].id = id
      <3>1. Stream(id, R, Len(response), Append(socket, SubSeq(jobs[j], 1, n)), ks)
        BY <1>4, <2>2, <2>4, <2>6, <2>7, StreamOwn
      <3> QED BY <1>1, <2>1, <2>3, <2>5, <3>1
    <2>8. CASE jobs[j][1].id # id
      <3>1. \A i \in 1..Len(jobs[j]) : jobs[j][i].id # id
        BY <1>5, <2>8
      <3>2. Stream(id, R, Len(response), Append(socket, SubSeq(jobs[j], 1, n)), ks)
        BY <1>4, <2>4, <2>6, <3>1, StreamOther
      <3> QED BY <1>1, <2>1, <2>3, <2>5, <3>2
    <2> QED BY <2>7, <2>8
  <1> QED BY <1>2, <1>3, <1>6 DEF WholeInv

\* The call reads a datagram: a part of its own reply is the next one, and is
\* not dropped, for its handler is there.
LEMMA ReceiveWhole ==
    ASSUME IInv, TalkInv, WholeInv, ReceivePacketAndRunHandler
    PROVE  WholeInv'
  <1>1. /\ call # NoCall /\ socket # <<>> /\ socket' = Tail(socket)
    BY DEF ReceivePacketAndRunHandler
  <1>2. call \in CallRecord
    BY DEF IInv, NamesOK
  <1>3. /\ socket \in Seq(Packets) /\ jobs \in Seq(Packets) /\ response \in Seq(Messages)
        /\ Len(response) \in Nat
    BY DatagramsArePackets DEF TalkInv
  <1>4. PICK d : d = Head(socket)
    OBVIOUS
  <1>5. d \in Datagrams /\ d \in Packets /\ d = socket[1]
    <2>1. PICK D : D = Datagrams
      OBVIOUS
    <2>2. socket \in Seq(D)
      BY <2>1 DEF TalkInv
    <2>3. d \in D /\ d = socket[1]
      BY <1>1, <1>4, <2>2
    <2> QED BY <2>1, <2>3, DatagramsArePackets
  <1>6. (\E h \in handlers : h.seq = Head(d).seq) <=> d[1].id = call.id
    <2>1. 1 \in 1..Len(d) /\ Head(d) = d[1]
      BY <1>5, PlaceType
    <2>2. ASSUME NEW h \in handlers, h.seq = Head(d).seq
          PROVE  d[1].id = call.id
      <3>1. \A i \in 1..Len(d) : d[i].id = call.id
        BY <1>1, <1>5, <2>2, OwnReply
      <3> QED BY <2>1, <3>1
    <2>3. ASSUME d[1].id = call.id
          PROVE  \E h \in handlers : h.seq = Head(d).seq
      <3>1. d[1].id = drawn /\ call.seq = seq /\ call.seq # 0 /\ seq \in Nat /\ drawn \in Nat
        BY <1>1, <2>3 DEF TalkInv, IInv, NamesOK, NotBroadcast, kBroadcastSequenceNumber
      <3>2. d[1].seq = Earlier(drawn - drawn)
        BY <1>5, <2>1, <3>1 DEF Datagrams, InTime
      <3>3. drawn - drawn = 0 /\ 0 < seq /\ seq - 0 = seq
        BY <3>1
      <3>4. d[1].seq = call.seq
        BY <3>1, <3>2, <3>3 DEF Earlier
      <3> QED BY <1>1, <2>1, <3>4 DEF WholeInv
    <2> QED BY <2>2, <2>3
  <1>7. PICK r : r = response \o Appended(d)
    OBVIOUS
  <1>8. PICK R : R = Reply(call)
    OBVIOUS
  <1>9. /\ call.attempt >= 1
        /\ \E h \in handlers : h.seq = call.seq
        /\ call.attempt = 1 => /\ \A i \in 1..Len(response) : response[i] = R[i]
                               /\ Stream(call.id, R, Len(response), socket, jobs)
        /\ RepliesComplete
    BY <1>1, <1>8 DEF WholeInv
  <1>10. CASE d[1].id # call.id
    <2>1. UNCHANGED <<call, handlers, response, jobs, result>>
      BY <1>4, <1>6, <1>10 DEF ReceivePacketAndRunHandler
    <2>2. call.attempt = 1 => Stream(call.id, R, Len(response), Tail(socket), jobs)
      BY <1>1, <1>3, <1>5, <1>9, <1>10, StreamDrop
    <2>3. RepliesComplete'
      BY <1>9, <2>1 DEF RepliesComplete
    <2> QED BY <1>1, <1>8, <1>9, <2>1, <2>2, <2>3 DEF WholeInv
  <1>11. CASE d[1].id = call.id
    <2>1. call.attempt = 1 =>
             /\ Piece(d, R) /\ Starts(d) = Len(response) + 1
             /\ Stream(call.id, R, Ends(d), Tail(socket), jobs)
      BY <1>1, <1>3, <1>5, <1>9, <1>11, StreamTake
    <2>2. \/ ~Completes(d) /\ response' = r /\ UNCHANGED <<call, handlers, jobs, result>>
          \/ Completes(d) /\ Returns(TRUE, r)
          \/ GiveUp(r)
          \/ Resend(r)
      BY <1>4, <1>6, <1>7, <1>11 DEF ReceivePacketAndRunHandler
    <2>3. CASE ~Completes(d) /\ response' = r /\ UNCHANGED <<call, handlers, jobs, result>>
      <3>1. RepliesComplete'
        BY <1>9, <2>3 DEF RepliesComplete
      <3>2. ASSUME call.attempt = 1
            PROVE  /\ Len(r) = Ends(d)
                   /\ \A i \in 1..Len(r) : r[i] = R[i]
        <4>1. /\ Piece(d, Reply(call)) /\ Starts(d) = Len(response) + 1
              /\ \A i \in 1..Len(response) : response[i] = Reply(call)[i]
          BY <1>8, <1>9, <2>1, <3>2
        <4>2. /\ Len(response \o Appended(d)) = Ends(d)
              /\ \A i \in 1..Ends(d) : (response \o Appended(d))[i] = Reply(call)[i]
          BY <1>2, <1>3, <1>5, <2>3, <4>1, MoreToCome
        <4> QED BY <1>7, <1>8, <4>2
      <3> QED BY <1>1, <1>8, <1>9, <2>1, <2>3, <3>1, <3>2 DEF WholeInv
    <2>4. CASE Completes(d) /\ Returns(TRUE, r)
      <3>1. ASSUME Accepts(call, r), call.attempt = 1
            PROVE  /\ r = SubSeq(Reply(call), 1, IF call.kind = "dump" THEN DumpParts ELSE 1)
                   /\ ~call.error
        <4>1. /\ Piece(d, Reply(call)) /\ Starts(d) = Len(response) + 1
              /\ \A i \in 1..Len(response) : response[i] = Reply(call)[i]
          BY <1>8, <1>9, <2>1, <3>1
        <4>2. Accepts(call, response \o Appended(d))
          BY <1>7, <3>1
        <4> QED BY <1>2, <1>3, <1>5, <1>7, <2>4, <4>1, <4>2, AllThere
      <3> QED BY <2>4, <3>1, ReturnWhole
    <2>5. CASE GiveUp(r)
      <3>1. Returns(FALSE, r)
        BY <2>5 DEF GiveUp
      <3> QED BY <3>1, ReturnWhole
    <2>6. CASE Resend(r)
      BY <1>1, <2>6, ResendWhole
    <2> QED BY <2>2, <2>3, <2>4, <2>5, <2>6
  <1> QED BY <1>10, <1>11

\* Every action, and a stuttering step, preserves the invariant.
LEMMA NextWhole == IInv /\ TalkInv /\ WholeInv /\ [Next]_vars => WholeInv'
  <1> SUFFICES ASSUME IInv, TalkInv, WholeInv, [Next]_vars PROVE WholeInv'
    OBVIOUS
  <1>1. IInv'
    BY NextIInv
  <1>2. CASE UNCHANGED vars
    BY <1>2 DEF vars, WholeInv, RepliesComplete
  <1>3. ASSUME NEW kind \in Kinds, NEW retries \in Nat,
               SendMessageAndGetResponses(kind, retries)
        PROVE  WholeInv'
    BY <1>1, <1>3, SendWhole
  <1>4. CASE SendFails
    <2>1. call' = NoCall /\ result' = NoResult
      BY <1>4 DEF SendFails
    <2>2. RepliesComplete'
      BY <2>1 DEF RepliesComplete, NoResult
    <2> QED BY <2>1, <2>2 DEF WholeInv
  <1>5. CASE Timeout
    <2>1. CASE GiveUp(response)
      <3>1. Returns(FALSE, response)
        BY <2>1 DEF GiveUp
      <3> QED BY <3>1, ReturnWhole
    <2>2. CASE Resend(response)
      BY <1>5, <2>2, ResendWhole DEF Timeout
    <2> QED BY <1>5, <2>1, <2>2 DEF Timeout
  <1>6. CASE ReceivePacketAndRunHandler
    BY <1>6, ReceiveWhole
  <1>7. CASE KernelReplies
    BY <1>7, KernelWhole
  <1>8. CASE Restart
    <2>1. call' = NoCall /\ result' = NoResult
      BY <1>8 DEF Restart
    <2>2. RepliesComplete'
      BY <2>1 DEF RepliesComplete, NoResult
    <2> QED BY <2>1, <2>2 DEF WholeInv
  <1>9. RetryCount \in Nat /\ 0 \in Nat
    BY NetlinkAssumption
  <1>10. {"dump", "info"} \subseteq Kinds /\ {"dump", "single"} \subseteq Kinds
    BY DEF Kinds
  <1> QED BY <1>2, <1>3, <1>4, <1>5, <1>6, <1>7, <1>8, <1>9, <1>10 DEF Next

\* A call that succeeds in its first attempt returns its reply, all of it and in
\* order, however the kernel cut it into datagrams and whatever late replies lay
\* between them in the socket.
THEOREM RepliesAreComplete == Spec => []RepliesComplete
  <1>1. Init => WholeInv
    BY DEF Init, WholeInv, RepliesComplete, NoResult
  <1>2. WholeInv => RepliesComplete
    BY DEF WholeInv
  <1> QED BY Invariance, TalkInvariance, <1>1, <1>2, NextWhole, PTL DEF Spec

=============================================================================
