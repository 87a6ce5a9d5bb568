-------------------------- MODULE ClientLink_proofs --------------------------
(***************************************************************************)
(* Proofs about ClientLink.  What ClientInterfaceImpl knows is compared    *)
(* with the kernel's link through the events that are still unread: of     *)
(* those only the last one that says whether there is a link, and the last *)
(* one that says where, have to agree with the link as it is.              *)
(***************************************************************************)
EXTENDS ClientLink, TLAPS

EventType == [cmd: Commands, bssid: AccessPoints \cup {0}, freq: Freqs \cup {0}]

UpCommands == {"connect", "associate", "roam"}

\* An event that sets is_associated_ and bssid_, and one that sets
\* associate_freq_.
SetsLink(e) == e.cmd # "ch_switch"

SetsFreq(e) == e.cmd \in UpCommands \/ (e.cmd = "ch_switch" /\ e.freq # 0)

\* Nothing after the i-th event sets what it sets.
NoLinkEventAfter(i) == \A j \in (i + 1)..Len(events) : ~SetsLink(events[j])

NoFreqEventAfter(i) == \A j \in (i + 1)..Len(events) : ~SetsFreq(events[j])

\* An unread event about the link is one the object will be told of.
UnreadIsTold == alive /\ ~NoLinkEventAfter(0) => told

\* The last unread event about the link describes it.
LastLinkEventTrue ==
    \A i \in 1..Len(events) :
        SetsLink(events[i]) /\ NoLinkEventAfter(i) =>
            /\ link.up <=> events[i].cmd \in UpCommands
            /\ link.up => events[i].bssid \in {link.bssid, 0}

\* If no unread event is about the link, the object knows it.
LinkKnown ==
    alive /\ NoLinkEventAfter(0) =>
        /\ is_associated <=> link.up /\ told
        /\ is_associated /\ ~nameless => bssid = link.bssid

\* The last unread channel switch, if no new link follows it, is to the
\* channel of the link.
LastFreqEventTrue ==
    \A i \in 1..Len(events) :
        /\ link.up
        /\ events[i].cmd = "ch_switch" /\ events[i].freq # 0
        /\ NoFreqEventAfter(i)
        => events[i].freq = link.freq

\* If no unread event is about the channel, the object knows it, unless it
\* failed to read it.
FreqKnown ==
    alive /\ link.up /\ is_associated /\ ~unsure /\ NoFreqEventAfter(0) =>
        associate_freq = link.freq

LinkInv ==
    /\ TypeOK
    /\ UnreadIsTold
    /\ LastLinkEventTrue
    /\ LinkKnown
    /\ LastFreqEventTrue
    /\ FreqKnown

IInv == LinkInv /\ PollDescribesLink

-----------------------------------------------------------------------------
(***************************************************************************)
(* The queue                                                               *)
(***************************************************************************)

\* No answer is an answer.
LEMMA NoAnswer == <<>> \in Seq(Int)
  OBVIOUS

\* What Append leaves of the queue and puts at its end.
LEMMA AppendEvent ==
    ASSUME NEW S, NEW s \in Seq(S), NEW e \in S
    PROVE  /\ Append(s, e) \in Seq(S)
           /\ Len(Append(s, e)) = Len(s) + 1
           /\ Append(s, e)[Len(s) + 1] = e
           /\ \A i \in 1..Len(s) : Append(s, e)[i] = s[i]
  OBVIOUS

\* The queue that the event loop leaves is the old one moved up by one place.
LEMMA TailEvent ==
    ASSUME NEW S, NEW s \in Seq(S), s # <<>>
    PROVE  /\ Tail(s) \in Seq(S)
           /\ Head(s) = s[1]
           /\ Head(s) \in S
           /\ Len(s) >= 1
           /\ Len(Tail(s)) = Len(s) - 1
           /\ \A i \in 1..Len(Tail(s)) : Tail(s)[i] = s[i + 1]
  OBVIOUS

\* However many events the kernel reports of a step, the last is the outcome.
LEMMA ReportLast ==
    ASSUME events \in Seq(EventType),
           NEW first \in EventType, NEW second \in EventType,
           Report(first, second)
    PROVE  /\ events' \in Seq(EventType)
           /\ Len(events') >= 1
           /\ events'[Len(events')] = second
           /\ told' = alive'
  <1>0. told' = alive'
    BY DEF Report
  <1>1. CASE events' = Append(events, second)
    BY <1>0, <1>1, AppendEvent
  <1>2. CASE events' = events \o <<first, second>>
    <2>1. <<first, second>> \in Seq(EventType) /\ Len(<<first, second>>) = 2
      OBVIOUS
    <2>2. /\ events' \in Seq(EventType)
          /\ Len(events') = Len(events) + 2
      BY <1>2, <2>1
    <2>3. events'[Len(events) + 2] = <<first, second>>[2]
      BY <1>2, <2>1
    <2> QED BY <1>0, <2>2, <2>3
  <1> QED BY <1>1, <1>2 DEF Report

\* A step that reports the outcome of a new, a refused or a lost link leaves
\* nothing in the queue that counts but its report.
LEMMA NewLink ==
    ASSUME events' \in Seq(EventType),
           Len(events') >= 1,
           NEW e \in EventType,
           events'[Len(events')] = e,
           e.cmd # "ch_switch",
           link'.up <=> e.cmd \in UpCommands,
           link'.up => e.bssid \in {link'.bssid, 0},
           told' = alive'
    PROVE  UnreadIsTold' /\ LastLinkEventTrue' /\ LinkKnown' /\ LastFreqEventTrue' /\ FreqKnown'
  <1>1. SetsLink(events'[Len(events')])
    BY DEF SetsLink
  <1>2. \A i \in 0..(Len(events') - 1) : ~NoLinkEventAfter(i)'
    BY <1>1 DEF NoLinkEventAfter
  <1>3. LastLinkEventTrue'
    BY <1>2 DEF LastLinkEventTrue
  <1>4. LinkKnown'
    BY <1>2 DEF LinkKnown
  <1>5. link'.up => \A i \in 0..(Len(events') - 1) : ~NoFreqEventAfter(i)'
    BY DEF NoFreqEventAfter, SetsFreq
  <1>6. link'.up => e.cmd # "ch_switch"
    BY DEF UpCommands
  <1>7. LastFreqEventTrue'
    BY <1>5, <1>6 DEF LastFreqEventTrue
  <1>8. FreqKnown'
    BY <1>5 DEF FreqKnown
  <1>9. UnreadIsTold'
    BY DEF UnreadIsTold
  <1> QED BY <1>3, <1>4, <1>7, <1>8, <1>9

-----------------------------------------------------------------------------
(***************************************************************************)
(* The kernel's steps                                                      *)
(***************************************************************************)

\* The events of the model are events.
LEMMA EventTypes ==
    /\ \A b \in AccessPoints \cup {0}, f \in Freqs \cup {0}, c \in Commands :
            Event(c, b, f) \in EventType
    /\ \A b \in AccessPoints : b \in AccessPoints \cup {0}
    /\ \A f \in Freqs : f \in Freqs \cup {0}
    /\ 0 \in AccessPoints \cup {0} /\ 0 \in Freqs \cup {0}
    /\ {"connect", "connect_fail", "associate", "associate_timeout", "roam",
        "disconnect", "disassociate", "ch_switch"} \subseteq Commands
  BY DEF Event, EventType, Commands

\* A link of the model is a link.
LEMMA LinkType ==
    ASSUME NEW b \in AccessPoints, NEW f \in Freqs
    PROVE  LinkTo(b, f) \in [up: BOOLEAN, bssid: AccessPoints \cup {0},
                              freq: Freqs \cup {0}]
  BY DEF LinkTo

\* The start of an association leaves a queue that ends with it.
LEMMA AssociateInv ==
    ASSUME LinkInv, NEW b \in AccessPoints, NEW f \in Freqs, Associate(b, f),
           answer' = <<>>
    PROVE  LinkInv'
  <1>1. PICK x \in Named(b), y \in Named(b) :
            Report(Event("associate", x, 0), Event("connect", y, 0))
    BY DEF Associate
  <1>2. x \in AccessPoints \cup {0} /\ y \in AccessPoints \cup {0}
    BY DEF Named
  <1> DEFINE e == Event("connect", y, 0)
             a == Event("associate", x, 0)
  <1>3. e \in EventType /\ a \in EventType /\ Report(a, e)
    BY <1>1, <1>2, EventTypes
  <1>4. e.cmd = "connect" /\ e.bssid = y
    BY DEF Event
  <1> HIDE DEF e, a
  <1>5. events \in Seq(EventType)
    BY DEF LinkInv, TypeOK, EventType
  <1>6. /\ events' \in Seq(EventType)
        /\ Len(events') >= 1
        /\ events'[Len(events')] = e
        /\ told' = alive'
    BY <1>3, <1>5, ReportLast
  <1>7. /\ link' = LinkTo(b, f) /\ link'.up = TRUE /\ link'.bssid = b
        /\ UNCHANGED <<alive, client>>
    BY DEF Associate, LinkTo
  <1>8. /\ UnreadIsTold' /\ LastLinkEventTrue' /\ LinkKnown'
        /\ LastFreqEventTrue' /\ FreqKnown'
    <2>1. e.bssid \in {link'.bssid, 0}
      BY <1>4, <1>7 DEF Named
    <2> QED BY <1>3, <1>4, <1>6, <1>7, <2>1, NewLink DEF UpCommands
  <1>9. TypeOK'
    BY <1>6, <1>7, LinkType DEF LinkInv, TypeOK, EventType, client
  <1> QED BY <1>8, <1>9 DEF LinkInv

\* A link that was lost, or never came about, is reported last.
LEMMA LinkLost ==
    ASSUME LinkInv, NEW first \in EventType, NEW second \in EventType,
           second.cmd \in {"connect_fail", "disconnect"},
           Report(first, second), link' = NoLink, UNCHANGED client,
           alive' \in BOOLEAN, answer' = <<>>
    PROVE  LinkInv'
  <1>1. events \in Seq(EventType)
    BY DEF LinkInv, TypeOK, EventType
  <1>2. /\ events' \in Seq(EventType)
        /\ Len(events') >= 1
        /\ events'[Len(events')] = second
        /\ told' = alive'
    BY <1>1, ReportLast
  <1>3. link'.up = FALSE
    BY DEF NoLink
  <1>4. UnreadIsTold' /\ LastLinkEventTrue' /\ LinkKnown' /\ LastFreqEventTrue' /\ FreqKnown'
    BY <1>2, <1>3, NewLink DEF UpCommands
  <1>6. TypeOK'
    BY <1>2 DEF LinkInv, TypeOK, EventType, client, NoLink
  <1> QED BY <1>4, <1>6 DEF LinkInv

\* A refused association ends the link it was to replace.
LEMMA RefusedInv ==
    ASSUME LinkInv, NEW b \in AccessPoints, Refused(b), answer' = <<>>
    PROVE  LinkInv'
  <1> DEFINE e == Event("connect_fail", 0, 0)
  <1>1. e \in EventType /\ e.cmd = "connect_fail"
    BY EventTypes DEF Event
  <1>2. /\ \A x \in Named(b) : Event("associate", x, 0) \in EventType
        /\ Event("associate_timeout", 0, 0) \in EventType
    BY EventTypes DEF Named
  <1>3. PICK first \in EventType : Report(first, e)
    BY <1>2 DEF Refused
  <1>4. link' = NoLink /\ UNCHANGED client /\ alive' \in BOOLEAN
    BY DEF Refused, LinkInv, TypeOK
  <1> HIDE DEF e
  <1> QED BY <1>1, <1>3, <1>4, LinkLost

\* Ending the link of a living or of a destroyed object.
LEMMA DisconnectsInv ==
    ASSUME LinkInv, Disconnects, UNCHANGED client, alive' \in BOOLEAN,
           answer' = <<>>
    PROVE  LinkInv'
  <1> DEFINE e == Event("disconnect", 0, 0)
             d == Event("disassociate", 0, 0)
  <1>1. e \in EventType /\ d \in EventType /\ e.cmd = "disconnect"
    BY EventTypes DEF Event
  <1>2. Report(d, e) /\ link' = NoLink
    BY DEF Disconnects
  <1> HIDE DEF e, d
  <1> QED BY <1>1, <1>2, LinkLost

\* A roam ends the queue with the new access point.
LEMMA RoamInv ==
    ASSUME LinkInv, NEW b \in AccessPoints, NEW f \in Freqs, Roam(b, f),
           answer' = <<>>
    PROVE  LinkInv'
  <1>1. PICK x \in Named(b) : events' = Append(events, Event("roam", x, 0))
    BY DEF Roam
  <1> DEFINE e == Event("roam", x, 0)
  <1>2. e \in EventType /\ e.cmd = "roam" /\ e.bssid = x
    BY EventTypes DEF Event, Named
  <1>3. events' = Append(events, e)
    BY <1>1
  <1> HIDE DEF e
  <1>4. events \in Seq(EventType)
    BY DEF LinkInv, TypeOK, EventType
  <1>5. /\ events' \in Seq(EventType)
        /\ Len(events') >= 1
        /\ events'[Len(events')] = e
    BY <1>2, <1>3, <1>4, AppendEvent
  <1>6. /\ link' = LinkTo(b, f) /\ link'.up = TRUE /\ link'.bssid = b
        /\ told' = alive /\ alive' = alive /\ UNCHANGED client
    BY DEF Roam, LinkTo
  <1>7. /\ UnreadIsTold' /\ LastLinkEventTrue' /\ LinkKnown'
        /\ LastFreqEventTrue' /\ FreqKnown'
    <2>1. e.bssid \in {link'.bssid, 0}
      BY <1>2, <1>6 DEF Named
    <2> QED BY <1>2, <1>5, <1>6, <2>1, NewLink DEF UpCommands
  <1>8. TypeOK'
    BY <1>5, <1>6, LinkType DEF LinkInv, TypeOK, EventType, client
  <1> QED BY <1>7, <1>8 DEF LinkInv

\* A channel switch says nothing about the link; it has the frequency of the
\* link unless it has none, in which case the link did not change.
LEMMA ChannelEvent ==
    ASSUME LinkInv, NEW e \in EventType, e.cmd = "ch_switch",
           events' = Append(events, e),
           link'.up = link.up, link'.bssid = link.bssid,
           e.freq # 0 => link'.freq = e.freq,
           e.freq = 0 => link'.freq = link.freq,
           UNCHANGED <<alive, client, told>>
    PROVE  /\ events' \in Seq(EventType)
           /\ UnreadIsTold' /\ LastLinkEventTrue' /\ LinkKnown'
           /\ LastFreqEventTrue' /\ FreqKnown'
  <1>1. events \in Seq(EventType)
    BY DEF LinkInv, TypeOK, EventType
  <1>2. /\ events' \in Seq(EventType)
        /\ Len(events') = Len(events) + 1
        /\ events'[Len(events) + 1] = e
        /\ \A i \in 1..Len(events) : events'[i] = events[i]
        /\ Len(events) \in Nat
    BY <1>1, AppendEvent
  <1>3. ~SetsLink(e) /\ (SetsFreq(e) <=> e.freq # 0)
    BY DEF SetsLink, SetsFreq, UpCommands
  <1>4. \A i \in 0..Len(events) : NoLinkEventAfter(i)' => NoLinkEventAfter(i)
    BY <1>2 DEF NoLinkEventAfter
  <1>5. \A i \in 0..Len(events) : NoFreqEventAfter(i)' =>
            NoFreqEventAfter(i) /\ e.freq = 0
    BY <1>2, <1>3 DEF NoFreqEventAfter
  <1>6. UnreadIsTold'
    <2>1. NoLinkEventAfter(0) => NoLinkEventAfter(0)'
      BY <1>2, <1>3 DEF NoLinkEventAfter
    <2> QED BY <2>1 DEF UnreadIsTold, LinkInv
  <1>7. LastLinkEventTrue'
    <2>1. SUFFICES ASSUME NEW i \in 1..Len(events'),
                          SetsLink(events'[i]), NoLinkEventAfter(i)'
                   PROVE  /\ link.up <=> events'[i].cmd \in UpCommands
                          /\ link.up => events'[i].bssid \in {link.bssid, 0}
      BY DEF LastLinkEventTrue
    <2>2. i \in 1..Len(events) /\ events'[i] = events[i]
      BY <1>2, <1>3, <2>1
    <2>3. NoLinkEventAfter(i)
      BY <1>2, <1>4, <2>1, <2>2
    <2> QED BY <2>1, <2>2, <2>3 DEF LinkInv, LastLinkEventTrue
  <1>8. LinkKnown'
    BY <1>2, <1>4 DEF LinkInv, LinkKnown, client
  <1>9. LastFreqEventTrue'
    <2>1. SUFFICES ASSUME NEW i \in 1..Len(events'), link.up,
                          events'[i].cmd = "ch_switch", events'[i].freq # 0,
                          NoFreqEventAfter(i)'
                   PROVE  events'[i].freq = link'.freq
      BY DEF LastFreqEventTrue
    <2>2. CASE i = Len(events) + 1
      BY <1>2, <2>1, <2>2
    <2>3. CASE i \in 1..Len(events)
      BY <1>2, <1>5, <2>1, <2>3 DEF LinkInv, LastFreqEventTrue
    <2> QED BY <1>2, <2>2, <2>3
  <1>10. FreqKnown'
    BY <1>2, <1>5 DEF LinkInv, FreqKnown, client
  <1> QED BY <1>2, <1>6, <1>7, <1>8, <1>9, <1>10

\* The link moves to another channel.
LEMMA SwitchChannelInv ==
    ASSUME LinkInv, NEW f \in Freqs, SwitchChannel(f), answer' = <<>>
    PROVE  LinkInv'
  <1> DEFINE e == Event("ch_switch", 0, f)
  <1>1. e \in EventType /\ e.cmd = "ch_switch" /\ e.freq = f /\ f # 0
    BY EventTypes, LinkAssumption DEF Event
  <1>2. /\ events' = Append(events, e)
        /\ UNCHANGED <<alive, client, told>>
    BY DEF SwitchChannel
  <1>3. link'.up = link.up /\ link'.bssid = link.bssid /\ link'.freq = f
    BY DEF SwitchChannel, LinkInv, TypeOK
  <1>4. /\ events' \in Seq(EventType)
        /\ UnreadIsTold' /\ LastLinkEventTrue' /\ LinkKnown'
        /\ LastFreqEventTrue' /\ FreqKnown'
    <2> HIDE DEF e
    <2> QED BY <1>1, <1>2, <1>3, ChannelEvent
  <1>5. link' \in [up: BOOLEAN, bssid: AccessPoints \cup {0},
                  freq: Freqs \cup {0}]
    BY DEF SwitchChannel, LinkInv, TypeOK
  <1>6. TypeOK'
    BY <1>2, <1>4, <1>5 DEF LinkInv, TypeOK, EventType, client
  <1> QED BY <1>4, <1>6 DEF LinkInv

\* An event without a frequency changes nothing.
LEMMA OddEventInv ==
    ASSUME LinkInv, OddEvent, answer' = <<>>
    PROVE  LinkInv'
  <1> DEFINE e == Event("ch_switch", 0, 0)
  <1>1. e \in EventType /\ e.cmd = "ch_switch" /\ e.freq = 0
    BY EventTypes DEF Event
  <1>2. /\ events' = Append(events, e)
        /\ UNCHANGED <<alive, client, link, told>>
    BY DEF OddEvent
  <1>3. /\ events' \in Seq(EventType)
        /\ UnreadIsTold' /\ LastLinkEventTrue' /\ LinkKnown'
        /\ LastFreqEventTrue' /\ FreqKnown'
    <2> HIDE DEF e
    <2> QED BY <1>1, <1>2, ChannelEvent
  <1>4. TypeOK'
    BY <1>2, <1>3 DEF LinkInv, TypeOK, EventType, client
  <1> QED BY <1>3, <1>4 DEF LinkInv

-----------------------------------------------------------------------------
(***************************************************************************)
(* wificond's steps                                                        *)
(***************************************************************************)

\* A step of the object that leaves the link and the queue alone.
LEMMA SameLinkType ==
    ASSUME TypeOK, UNCHANGED <<link, events>>, alive' \in BOOLEAN,
           is_associated' \in BOOLEAN, bssid' \in AccessPoints \cup {0},
           associate_freq' \in Freqs \cup {0}, unsure' \in BOOLEAN,
           nameless' \in BOOLEAN, told' \in BOOLEAN, answer' \in Seq(Int)
    PROVE  TypeOK'
  BY Zenon DEF TypeOK

\* A new object is told of the links the unread events are about.
LEMMA CreateInv ==
    ASSUME LinkInv, CreateClientInterface, answer' = <<>>
    PROVE  LinkInv'
  <1>1. /\ ~alive /\ alive' = TRUE /\ is_associated' = FALSE
        /\ UNCHANGED <<link, events>> /\ unsure' = FALSE /\ nameless' = FALSE
        /\ bssid' \in AccessPoints \cup {0}
        /\ associate_freq' \in Freqs \cup {0}
        /\ told' = \E i \in 1..Len(events) : events[i].cmd # "ch_switch"
    BY DEF CreateClientInterface, Construct
  <1>2. told' \in BOOLEAN /\ (told' <=> ~NoLinkEventAfter(0)')
    BY <1>1 DEF NoLinkEventAfter, SetsLink
  <1>3. TypeOK'
    BY <1>1, <1>2, SameLinkType, NoAnswer DEF LinkInv, TypeOK
  <1>4. UnreadIsTold' /\ LinkKnown' /\ FreqKnown'
    BY <1>1, <1>2 DEF UnreadIsTold, LinkKnown, FreqKnown
  <1>5. LastLinkEventTrue' /\ LastFreqEventTrue'
    BY <1>1 DEF LinkInv, LastLinkEventTrue, LastFreqEventTrue, NoLinkEventAfter,
        NoFreqEventAfter
  <1> QED BY <1>3, <1>4, <1>5 DEF LinkInv

\* A destroyed object knows nothing, whether its link ends or not.
LEMMA DestroyInv ==
    ASSUME LinkInv, DestroyClientInterface, answer' = <<>>
    PROVE  LinkInv'
  <1>1. alive' = FALSE /\ UNCHANGED client
    BY DEF DestroyClientInterface
  <1>2. CASE link.up /\ Disconnects
    BY <1>1, <1>2, DisconnectsInv
  <1>3. CASE told' = FALSE /\ UNCHANGED <<link, events>>
    <2>2. TypeOK'
      BY <1>1, <1>3, SameLinkType, NoAnswer DEF LinkInv, TypeOK, client
    <2>3. UnreadIsTold' /\ LinkKnown' /\ FreqKnown'
      BY <1>1 DEF UnreadIsTold, LinkKnown, FreqKnown
    <2>4. LastLinkEventTrue' /\ LastFreqEventTrue'
      BY <1>3 DEF LinkInv, LastLinkEventTrue, LastFreqEventTrue, NoLinkEventAfter,
          NoFreqEventAfter
    <2> QED BY <2>2, <2>3, <2>4 DEF LinkInv
  <1> QED BY <1>2, <1>3 DEF DestroyClientInterface

\* A restart leaves nothing unread and no object.
LEMMA RestartInv ==
    ASSUME LinkInv, Restart, answer' = <<>>
    PROVE  LinkInv'
  <1>1. /\ alive' = FALSE /\ events' = <<>> /\ told' = FALSE
        /\ UNCHANGED <<client, link>>
    BY DEF Restart
  <1>2. TypeOK'
    <2>1. events' \in Seq([cmd: Commands, bssid: AccessPoints \cup {0},
                           freq: Freqs \cup {0}])
      BY <1>1
    <2>2. /\ is_associated' \in BOOLEAN /\ bssid' \in AccessPoints \cup {0}
          /\ associate_freq' \in Freqs \cup {0} /\ unsure' \in BOOLEAN
          /\ nameless' \in BOOLEAN
      BY <1>1 DEF LinkInv, TypeOK, client
    <2>3. link' \in [up: BOOLEAN, bssid: AccessPoints \cup {0}, freq: Freqs \cup {0}]
      BY <1>1 DEF LinkInv, TypeOK
    <2> QED BY <1>1, <2>1, <2>2, <2>3, NoAnswer, Zenon DEF TypeOK
  <1>3. UnreadIsTold' /\ LinkKnown' /\ FreqKnown'
    BY <1>1 DEF UnreadIsTold, LinkKnown, FreqKnown
  <1>4. LastLinkEventTrue' /\ LastFreqEventTrue'
    BY <1>1 DEF LastLinkEventTrue, LastFreqEventTrue
  <1> QED BY <1>2, <1>3, <1>4 DEF LinkInv

\* Reading an event without setting what it sets: what follows it in the
\* queue is what followed it before.
LEMMA QueueMovesUp ==
    ASSUME LinkInv, events # <<>>, events' = Tail(events), link' = link
    PROVE  /\ events' \in Seq(EventType)
           /\ events[1] \in EventType
           /\ Len(events) >= 1
           /\ \A i \in 0..Len(events') :
                  /\ NoLinkEventAfter(i)' <=> NoLinkEventAfter(i + 1)
                  /\ NoFreqEventAfter(i)' <=> NoFreqEventAfter(i + 1)
           /\ LastLinkEventTrue' /\ LastFreqEventTrue'
  <1>1. events \in Seq(EventType)
    BY DEF LinkInv, TypeOK, EventType
  <1>2. /\ events' \in Seq(EventType)
        /\ events[1] \in EventType
        /\ Len(events) >= 1 /\ Len(events) \in Nat
        /\ Len(events') = Len(events) - 1
        /\ \A i \in 1..Len(events') : events'[i] = events[i + 1]
    BY <1>1, TailEvent
  <1>3. ASSUME NEW i \in 0..Len(events')
        PROVE  /\ NoLinkEventAfter(i)' <=> NoLinkEventAfter(i + 1)
               /\ NoFreqEventAfter(i)' <=> NoFreqEventAfter(i + 1)
    <2>1. \A j \in (i + 1)..Len(events') :
              j + 1 \in (i + 2)..Len(events) /\ events'[j] = events[j + 1]
      BY <1>2
    <2>2. \A k \in (i + 2)..Len(events) :
              k - 1 \in (i + 1)..Len(events') /\ events'[k - 1] = events[k]
      <3> TAKE k \in (i + 2)..Len(events)
      <3>1. k - 1 \in (i + 1)..Len(events') /\ k - 1 \in 1..Len(events')
        BY <1>2
      <3>2. events'[k - 1] = events[(k - 1) + 1]
        BY <1>2, <3>1
      <3> QED BY <3>1, <3>2
    <2>3. (i + 1) + 1 = i + 2
      OBVIOUS
    <2>4. NoLinkEventAfter(i)' <=> NoLinkEventAfter(i + 1)
      BY <2>1, <2>2, <2>3 DEF NoLinkEventAfter
    <2>5. NoFreqEventAfter(i)' <=> NoFreqEventAfter(i + 1)
      BY <2>1, <2>2, <2>3 DEF NoFreqEventAfter
    <2> QED BY <2>4, <2>5
  <1>4. \A i \in 1..Len(events') : i \in 0..Len(events')
                                     /\ i + 1 \in 1..Len(events)
    BY <1>2
  <1>5. LastLinkEventTrue'
    BY <1>2, <1>3, <1>4 DEF LinkInv, LastLinkEventTrue
  <1>6. LastFreqEventTrue'
    BY <1>2, <1>3, <1>4 DEF LinkInv, LastFreqEventTrue
  <1> QED BY <1>2, <1>3, <1>5, <1>6

\* An event about the link is read.  If none follows it is the last one, and
\* what it says is so; a frequency is read from the link itself.
LEMMA ReadLinkEvent ==
    ASSUME LinkInv, events # <<>>, events' = Tail(events),
           UNCHANGED <<alive, link, told>>,
           alive, SetsLink(events[1]),
           \/ events[1].cmd \in UpCommands /\ LinkUp(events[1].bssid)
           \/ events[1].cmd \notin UpCommands /\ LinkDown
    PROVE  /\ LinkKnown' /\ FreqKnown'
           /\ is_associated' \in BOOLEAN /\ bssid' \in AccessPoints \cup {0}
           /\ associate_freq' \in Freqs \cup {0} /\ unsure' \in BOOLEAN
           /\ nameless' \in BOOLEAN
  <1>1. /\ 1 \in 1..Len(events) /\ 0 \in 0..Len(events')
        /\ events[1] \in EventType
        /\ NoLinkEventAfter(0)' <=> NoLinkEventAfter(0 + 1)
    BY QueueMovesUp
  <1>2. events[1].bssid \in AccessPoints \cup {0}
    BY <1>1 DEF EventType
  <1>3. NoLinkEventAfter(0)' =>
            /\ link.up <=> events[1].cmd \in UpCommands
            /\ link.up => events[1].bssid \in {link.bssid, 0}
    BY <1>1 DEF LinkInv, LastLinkEventTrue
  <1>7. told
    <2>1. ~NoLinkEventAfter(0)
      BY <1>1 DEF NoLinkEventAfter
    <2> QED BY <2>1 DEF LinkInv, UnreadIsTold
  <1>4. /\ is_associated \in BOOLEAN /\ bssid \in AccessPoints \cup {0}
        /\ associate_freq \in Freqs \cup {0} /\ unsure \in BOOLEAN
        /\ link.freq \in Freqs \cup {0}
    BY DEF LinkInv, TypeOK
  <1>5. CASE events[1].cmd \in UpCommands /\ LinkUp(events[1].bssid)
    <2>1. /\ is_associated' = TRUE /\ RefreshAssociateFreq
          /\ nameless' = (events[1].bssid = 0)
          /\ bssid' \in AccessPoints \cup {0}
          /\ ~nameless' => bssid' = events[1].bssid
      BY <1>2, <1>5 DEF LinkUp
    <2>2. /\ associate_freq' \in Freqs \cup {0} /\ unsure' \in BOOLEAN
          /\ unsure' \/ associate_freq' = link.freq
      BY <1>4, <2>1 DEF RefreshAssociateFreq
    <2>3. LinkKnown'
      BY <1>3, <1>7, <1>5, <2>1 DEF LinkKnown
    <2>4. FreqKnown'
      BY <2>2 DEF FreqKnown
    <2> QED BY <2>1, <2>2, <2>3, <2>4
  <1>6. CASE events[1].cmd \notin UpCommands /\ LinkDown
    <2>1. /\ is_associated' = FALSE /\ bssid' = 0 /\ nameless' = FALSE
          /\ UNCHANGED <<associate_freq, unsure>>
      BY <1>6 DEF LinkDown
    <2>2. LinkKnown'
      BY <1>3, <1>6, <2>1 DEF LinkKnown
    <2>3. FreqKnown'
      BY <2>1 DEF FreqKnown
    <2> QED BY <1>4, <2>1, <2>2, <2>3
  <1> QED BY <1>5, <1>6

\* A channel switch is read.  If it is the last word about the channel, it is
\* the channel of the link.
LEMMA ReadChannelEvent ==
    ASSUME LinkInv, events # <<>>, events' = Tail(events),
           UNCHANGED <<alive, link, told>>,
           OnChannelSwitchEvent(events[1])
    PROVE  /\ LinkKnown' /\ FreqKnown'
           /\ is_associated' \in BOOLEAN /\ bssid' \in AccessPoints \cup {0}
           /\ associate_freq' \in Freqs \cup {0} /\ unsure' \in BOOLEAN
           /\ nameless' \in BOOLEAN
  <1>1. /\ 1 \in 1..Len(events) /\ 0 \in 0..Len(events')
        /\ events[1] \in EventType
        /\ NoLinkEventAfter(0)' <=> NoLinkEventAfter(0 + 1)
        /\ NoFreqEventAfter(0)' <=> NoFreqEventAfter(0 + 1)
        /\ Len(events) \in Nat
    BY QueueMovesUp DEF LinkInv, TypeOK
  <1>2. events[1].cmd = "ch_switch" /\ UNCHANGED <<is_associated, bssid, nameless>>
    BY DEF OnChannelSwitchEvent
  <1>3. NoLinkEventAfter(0)' => NoLinkEventAfter(0)
    BY <1>1, <1>2 DEF NoLinkEventAfter, SetsLink
  <1>4. LinkKnown'
    BY <1>2, <1>3 DEF LinkInv, LinkKnown
  <1>5. /\ is_associated \in BOOLEAN /\ bssid \in AccessPoints \cup {0}
        /\ associate_freq \in Freqs \cup {0} /\ unsure \in BOOLEAN
        /\ nameless \in BOOLEAN
    BY DEF LinkInv, TypeOK
  <1>6. CASE events[1].freq = 0
    <2>1. UNCHANGED <<associate_freq, unsure>>
      BY <1>6 DEF OnChannelSwitchEvent
    <2>2. ~SetsFreq(events[1])
      BY <1>2, <1>6 DEF SetsFreq, UpCommands
    <2>3. NoFreqEventAfter(0)' => NoFreqEventAfter(0)
      BY <1>1, <2>2 DEF NoFreqEventAfter
    <2>4. FreqKnown'
      BY <1>2, <2>1, <2>3 DEF LinkInv, FreqKnown
    <2> QED BY <1>2, <1>4, <1>5, <2>1, <2>4
  <1>7. CASE events[1].freq # 0
    <2>1. associate_freq' = events[1].freq /\ unsure' = FALSE
      BY <1>7 DEF OnChannelSwitchEvent
    <2>2. link.up /\ NoFreqEventAfter(0)' => events[1].freq = link.freq
      BY <1>1, <1>2, <1>7 DEF LinkInv, LastFreqEventTrue
    <2>3. FreqKnown'
      BY <2>1, <2>2 DEF FreqKnown
    <2>4. associate_freq' \in Freqs \cup {0}
      BY <1>1, <2>1 DEF EventType
    <2> QED BY <1>2, <1>4, <1>5, <2>1, <2>3, <2>4
  <1> QED BY <1>6, <1>7

\* The event loop reads an event.
LEMMA ReadEventInv ==
    ASSUME LinkInv, ReadEvent, answer' = <<>>
    PROVE  LinkInv'
  <1>1. /\ events # <<>> /\ events' = Tail(events)
        /\ UNCHANGED <<alive, link, told>>
    BY DEF ReadEvent
  <1>2. /\ events' \in Seq(EventType) /\ LastLinkEventTrue' /\ LastFreqEventTrue'
        /\ events[1] \in EventType
    BY <1>1, QueueMovesUp
  <1>3. UnreadIsTold'
    <2>1. NoLinkEventAfter(0) => NoLinkEventAfter(0)'
      <3>1. 0 \in 0..Len(events') /\ (NoLinkEventAfter(0)' <=> NoLinkEventAfter(0 + 1))
        BY <1>1, <1>2, QueueMovesUp
      <3>2. NoLinkEventAfter(0) => NoLinkEventAfter(0 + 1)
        BY DEF NoLinkEventAfter
      <3> QED BY <3>1, <3>2
    <2> QED BY <1>1, <2>1 DEF LinkInv, UnreadIsTold
  <1>4. /\ LinkKnown' /\ FreqKnown'
        /\ is_associated' \in BOOLEAN /\ bssid' \in AccessPoints \cup {0}
        /\ associate_freq' \in Freqs \cup {0} /\ unsure' \in BOOLEAN
        /\ nameless' \in BOOLEAN
    <2>1. CASE alive
      <3>1. Head(events) = events[1]
        BY <1>1, TailEvent DEF LinkInv, TypeOK
      <3>2. \/ OnChannelSwitchEvent(events[1])
            \/ /\ SetsLink(events[1])
               /\ \/ events[1].cmd \in UpCommands /\ LinkUp(events[1].bssid)
                  \/ events[1].cmd \notin UpCommands /\ LinkDown
        BY <2>1, <3>1 DEF ReadEvent, OnConnect, OnAssociate, OnRoam,
                OnDisconnect, OnDisassociate, UpCommands, SetsLink
      <3> QED BY <1>1, <2>1, <3>2, ReadLinkEvent, ReadChannelEvent
    <2>2. CASE ~alive
      <3>1. UNCHANGED client
        BY <2>2 DEF ReadEvent
      <3>2. LinkKnown' /\ FreqKnown'
        BY <1>1, <2>2, <3>1 DEF LinkKnown, FreqKnown
      <3> QED BY <3>1, <3>2 DEF LinkInv, TypeOK, client
    <2> QED BY <2>1, <2>2
  <1>5. TypeOK'
    BY <1>1, <1>2, <1>4, NoAnswer DEF LinkInv, TypeOK, EventType
  <1> QED BY <1>2, <1>3, <1>4, <1>5 DEF LinkInv

-----------------------------------------------------------------------------
(***************************************************************************)
(* The framework's calls                                                   *)
(***************************************************************************)

\* What GetStationInfo gives is about the station of the link.
LEMMA StationOfLink ==
    ASSUME TypeOK, NEW has, GetStationInfo(bssid, has) # <<>>
    PROVE  LET st == Station(link.bssid)
               info == GetStationInfo(bssid, has)[1] IN
           /\ link.up /\ link.bssid = bssid
           /\ info.tx_packets = st.tx_packets
           /\ info.tx_failed = st.tx_failed
           /\ info.signal = st.signal
           /\ info.tx_bitrate \in {0, st.tx_bitrate}
           /\ info.rx_bitrate \in {0, st.rx_bitrate}
           /\ {st.tx_packets, st.tx_failed, st.signal, st.tx_bitrate,
               st.rx_bitrate} \subseteq Int
  <1> DEFINE D == {"tx_packets", "tx_failed", "signal", "tx_bitrate", "rx_bitrate"}
  <1>1. DOMAIN Station(bssid) = D
    BY DEF Station
  <1>2. /\ link.up /\ link.bssid = bssid
        /\ D \ BITRATES \subseteq has
    BY <1>1 DEF GetStationInfo
  <1>3. GetStationInfo(bssid, has)[1] =
            [a \in D |-> IF a \in has THEN Station(bssid)[a] ELSE 0]
    BY <1>1, <1>2 DEF GetStationInfo
  <1>4. {"tx_packets", "tx_failed", "signal"} \subseteq has
    BY <1>2 DEF BITRATES
  <1>5. bssid \in Int
    BY LinkAssumption DEF TypeOK
  <1>6. LET st == Station(bssid) IN
        {st.tx_packets, st.tx_failed, st.signal, st.tx_bitrate,
               st.rx_bitrate} \subseteq Int
    BY <1>5 DEF Station
  <1> QED BY <1>2, <1>3, <1>4, <1>6

\* A call changes nothing but the answer, which is about the link.
LEMMA CallInv ==
    ASSUME LinkInv, Call
    PROVE  LinkInv' /\ PollDescribesLink'
  <1>1. UNCHANGED <<alive, is_associated, bssid, associate_freq, unsure, nameless,
                    link, events, told>>
    BY DEF Call, client
  <1>2. TypeOK
    BY DEF LinkInv
  <1>3. answer' \in Seq(Int) /\ PollDescribesLink'
    <2>1. CASE answer' = <<>>
      BY <2>1, NoAnswer DEF PollDescribesLink
    <2>2. CASE answer' # <<>> /\ GetPacketCounters
      <3>1. PICK has : /\ alive /\ GetStationInfo(bssid, has) # <<>>
                       /\ answer' = <<GetStationInfo(bssid, has)[1].tx_packets,
                                      GetStationInfo(bssid, has)[1].tx_failed>>
        BY <2>2 DEF GetPacketCounters
      <3>2. /\ link.up /\ link.bssid = bssid
            /\ answer' = <<Station(link.bssid).tx_packets,
                           Station(link.bssid).tx_failed>>
            /\ Station(link.bssid).tx_packets \in Int
            /\ Station(link.bssid).tx_failed \in Int
        BY <1>2, <3>1, StationOfLink
      <3>3. Len(answer') = 2 /\ answer' \in Seq(Int)
        BY <3>2
      <3> QED BY <1>1, <3>1, <3>2, <3>3 DEF PollDescribesLink
    <2>3. CASE answer' # <<>> /\ SignalPoll
      <3> DEFINE info(has) == GetStationInfo(bssid, has)[1]
                 st == Station(link.bssid)
      <3>1. PICK has : /\ alive /\ is_associated
                       /\ GetStationInfo(bssid, has) # <<>>
                       /\ answer' = <<info(has).signal,
                                      info(has).tx_bitrate \div 10,
                                      associate_freq,
                                      info(has).rx_bitrate \div 10>>
        BY <2>3 DEF SignalPoll
      <3>2. /\ link.up /\ link.bssid = bssid
            /\ info(has).signal = st.signal
            /\ info(has).tx_bitrate \in {0, st.tx_bitrate}
            /\ info(has).rx_bitrate \in {0, st.rx_bitrate}
            /\ st.signal \in Int /\ st.tx_bitrate \in Int /\ st.rx_bitrate \in Int
        BY <1>2, <3>1, StationOfLink
      <3>3. associate_freq \in Int
        BY LinkAssumption, <1>2 DEF TypeOK
      <3> HIDE DEF info, st
      <3>4. 0 \div 10 = 0
        OBVIOUS
      <3>5. /\ info(has).tx_bitrate \div 10 \in {0, st.tx_bitrate \div 10}
            /\ info(has).rx_bitrate \div 10 \in {0, st.rx_bitrate \div 10}
            /\ info(has).tx_bitrate \div 10 \in Int
            /\ info(has).rx_bitrate \div 10 \in Int
        BY <3>2, <3>4
      <3>6. events = <<>> /\ ~unsure => associate_freq = link.freq
        <4>1. events = <<>> => NoFreqEventAfter(0)
          BY DEF NoFreqEventAfter
        <4> QED BY <3>1, <3>2, <4>1 DEF LinkInv, FreqKnown
      <3>7. /\ Len(answer') = 4 /\ answer' \in Seq(Int)
            /\ answer'[1] = st.signal
            /\ answer'[2] = info(has).tx_bitrate \div 10
            /\ answer'[3] = associate_freq
            /\ answer'[4] = info(has).rx_bitrate \div 10
        BY <3>1, <3>2, <3>3, <3>5
      <3> QED
        BY <1>1, <3>1, <3>2, <3>5, <3>6, <3>7 DEF PollDescribesLink, st
    <2> QED BY <2>1, <2>2, <2>3 DEF Call
  <1>4. TypeOK'
    BY <1>1, <1>2, <1>3, SameLinkType DEF TypeOK
  <1>5. UnreadIsTold' /\ LastLinkEventTrue' /\ LinkKnown'
          /\ LastFreqEventTrue' /\ FreqKnown'
    BY <1>1 DEF LinkInv, UnreadIsTold, LastLinkEventTrue, LinkKnown,
        LastFreqEventTrue, FreqKnown, NoLinkEventAfter, NoFreqEventAfter
  <1> QED BY <1>3, <1>4, <1>5 DEF LinkInv

-----------------------------------------------------------------------------
(***************************************************************************)
(* The invariant                                                           *)
(***************************************************************************)

\* Nothing has been reported and nothing is known.
LEMMA InitIInv == Init => IInv
  <1> SUFFICES ASSUME Init PROVE IInv
    OBVIOUS
  <1>1. TypeOK
    <2>1. events \in Seq([cmd: Commands, bssid: AccessPoints \cup {0},
                          freq: Freqs \cup {0}])
      BY DEF Init
    <2>2. link \in [up: BOOLEAN, bssid: AccessPoints \cup {0},
                    freq: Freqs \cup {0}]
      BY DEF Init, NoLink
    <2> QED BY <2>1, <2>2, NoAnswer, Zenon DEF Init, TypeOK
  <1>2. UnreadIsTold /\ LinkKnown /\ FreqKnown
    BY DEF Init, UnreadIsTold, LinkKnown, FreqKnown
  <1>3. LastLinkEventTrue /\ LastFreqEventTrue
    BY DEF Init, LastLinkEventTrue, LastFreqEventTrue
  <1>4. PollDescribesLink
    BY DEF Init, PollDescribesLink
  <1> QED BY <1>1, <1>2, <1>3, <1>4 DEF IInv, LinkInv

\* Every step of the kernel, of wificond and of the framework keeps IInv.
LEMMA NextIInv == IInv /\ [Next]_vars => IInv'
  <1> SUFFICES ASSUME IInv, [Next]_vars PROVE IInv'
    OBVIOUS
  <1>0. LinkInv
    BY DEF IInv
  <1>1. CASE Step /\ answer' = <<>>
    <2>0. PollDescribesLink'
      BY <1>1 DEF PollDescribesLink
    <2> SUFFICES LinkInv'
      BY <2>0 DEF IInv
    <2>1. ASSUME NEW b \in AccessPoints, NEW f \in Freqs, Associate(b, f)
          PROVE  LinkInv'
      BY <1>0, <1>1, <2>1, AssociateInv
    <2>2. ASSUME NEW b \in AccessPoints, NEW f \in Freqs, Roam(b, f)
          PROVE  LinkInv'
      BY <1>0, <1>1, <2>2, RoamInv
    <2>3. ASSUME NEW b \in AccessPoints, Refused(b)
          PROVE  LinkInv'
      BY <1>0, <1>1, <2>3, RefusedInv
    <2>4. ASSUME NEW f \in Freqs, SwitchChannel(f)
          PROVE  LinkInv'
      BY <1>0, <1>1, <2>4, SwitchChannelInv
    <2>5. CASE OddEvent
      BY <1>0, <1>1, <2>5, OddEventInv
    <2>6. CASE Disconnect
      <3>1. Disconnects /\ UNCHANGED client /\ alive' \in BOOLEAN
        BY <1>0, <2>6 DEF Disconnect, LinkInv, TypeOK
      <3> QED BY <1>0, <1>1, <3>1, DisconnectsInv
    <2>7. CASE CreateClientInterface
      BY <1>0, <1>1, <2>7, CreateInv
    <2>8. CASE DestroyClientInterface
      BY <1>0, <1>1, <2>8, DestroyInv
    <2>9. CASE ReadEvent
      BY <1>0, <1>1, <2>9, ReadEventInv
    <2>10. CASE Restart
      BY <1>0, <1>1, <2>10, RestartInv
    <2> QED
      BY <1>1, <2>1, <2>2, <2>3, <2>4, <2>5, <2>6, <2>7, <2>8, <2>9,
         <2>10 DEF Step
  <1>2. CASE Call
    BY <1>0, <1>2, CallInv DEF IInv
  <1>3. CASE UNCHANGED vars
    <2>1. UNCHANGED <<alive, is_associated, bssid, associate_freq, unsure,
                      nameless, link, events, told, answer>>
      BY <1>3 DEF vars, client
    <2>2. TypeOK'
      BY <1>0, <2>1, SameLinkType DEF LinkInv, TypeOK
    <2>3. UnreadIsTold' /\ LastLinkEventTrue' /\ LinkKnown'
            /\ LastFreqEventTrue' /\ FreqKnown'
      BY <1>0, <2>1 DEF LinkInv, UnreadIsTold, LastLinkEventTrue, LinkKnown,
          LastFreqEventTrue, FreqKnown, NoLinkEventAfter, NoFreqEventAfter
    <2>4. PollDescribesLink'
      BY <2>1 DEF IInv, PollDescribesLink
    <2> QED BY <2>2, <2>3, <2>4 DEF IInv, LinkInv
  <1> QED BY <1>1, <1>2, <1>3 DEF Next

\* What the object knows, corrected by the unread events, is the kernel's link
\* in every reachable state.
THEOREM Invariance == Spec => []IInv
  BY InitIInv, NextIInv, PTL DEF Spec

\* The variables of the client interface and of the kernel keep their types.
THEOREM TypeCorrect == Spec => []TypeOK
  <1>1. IInv => TypeOK
    BY DEF IInv, LinkInv
  <1> QED BY Invariance, <1>1, PTL

\* Once the events are read, is_associated_ says whether there is a link that the
\* object was told of, and bssid_ is the link's if its event had one, for any
\* number of access points, channels and unread events, across refused
\* associations, links that outlive an object or precede it, and restarts.
THEOREM LinkIsFresh == Spec => []LinkFresh
  <1>1. IInv => LinkFresh
    <2> SUFFICES ASSUME IInv, alive, events = <<>>
                 PROVE  /\ is_associated = (link.up /\ told)
                        /\ is_associated /\ ~nameless => bssid = link.bssid
      BY DEF LinkFresh
    <2>1. NoLinkEventAfter(0)
      BY DEF NoLinkEventAfter
    <2>2. /\ is_associated <=> link.up /\ told
          /\ is_associated /\ ~nameless => bssid = link.bssid
      BY <2>1 DEF IInv, LinkInv, LinkKnown
    <2>3. is_associated \in BOOLEAN /\ link.up \in BOOLEAN /\ told \in BOOLEAN
      BY DEF IInv, LinkInv, TypeOK
    <2> QED BY <2>2, <2>3
  <1> QED BY Invariance, <1>1, PTL

\* signalPoll and getPacketCounters answer for the station of the link, and
\* signalPoll with the link's own channel once the events are read, unless the
\* frequency could not be read.
THEOREM PollIsOfLink == Spec => []PollDescribesLink
  <1>1. IInv => PollDescribesLink
    BY DEF IInv
  <1> QED BY Invariance, <1>1, PTL

=============================================================================
