----------------------------- MODULE ClientLink -----------------------------
(***************************************************************************)
(* What ClientInterfaceImpl knows of its association                       *)
(* (client_interface_impl.cpp, net/mlme_event.cpp).                        *)
(*                                                                         *)
(* The kernel reports the link in multicast events; wificond reads them    *)
(* some time later, and then asks for the frequency of the link as it is   *)
(* at that time.  Between two events the kernel may take several steps,    *)
(* and the framework may tear the interface down and create it again while *)
(* events of the former link are still in the socket.  The link is not     *)
(* wificond's: the supplicant makes it, whether there is a ClientInterface *)
(* or not, and it outlives an object that fails to set the interface down, *)
(* and a process that dies.                                                *)
(***************************************************************************)
EXTENDS Integers, Sequences

CONSTANTS
    AccessPoints,    \* BSSIDs
    Freqs,           \* frequencies of channels
    MaxEvents        \* bound on the events in the socket

ASSUME LinkAssumption ==
    /\ AccessPoints \subseteq Nat \ {0}
    /\ Freqs \subseteq Nat \ {0}
    /\ MaxEvents \in Nat

VARIABLES
    alive,          \* there is a ClientInterfaceImpl for the interface
    is_associated,  \* is_associated_
    bssid,          \* bssid_, 0 for the address of zeros
    associate_freq, \* associate_freq_
    link,           \* the kernel's link
    events,         \* events of the interface in the asynchronous socket
    unsure,         \* history: the last reading of the frequency failed
    nameless,       \* history: the event of the last link had no BSSID
    told,           \* history: an event about the link was in the socket when
                    \* the object was made, or sent since
    answer          \* what the framework's last call, if the last step was one,
                    \* was answered

client == <<is_associated, bssid, associate_freq, unsure, nameless>>
vars == <<alive, client, link, events, told, answer>>

NoLink == [up |-> FALSE, bssid |-> 0, freq |-> 0]

LinkTo(b, f) == [up |-> TRUE, bssid |-> b, freq |-> f]

\* An event has the BSSID or the frequency its command is about, or 0 where it
\* has none.  "fail" is an outcome other than success, by a status code or a
\* timeout.
Event(cmd, b, f) == [cmd |-> cmd, bssid |-> b, freq |-> f]

Commands == {"connect", "connect_fail", "associate", "associate_timeout",
             "roam", "disconnect", "disassociate", "ch_switch"}

TypeOK ==
    /\ alive \in BOOLEAN
    /\ is_associated \in BOOLEAN
    /\ bssid \in AccessPoints \cup {0}
    /\ associate_freq \in Freqs \cup {0}
    /\ link \in [up: BOOLEAN, bssid: AccessPoints \cup {0}, freq: Freqs \cup {0}]
    /\ events \in Seq([cmd: Commands, bssid: AccessPoints \cup {0},
                       freq: Freqs \cup {0}])
    /\ unsure \in BOOLEAN
    /\ nameless \in BOOLEAN
    /\ told \in BOOLEAN
    /\ answer \in Seq(Int)

\* The constructor sets is_associated_ alone: the other members hold whatever
\* was in their memory.
Construct ==
    /\ is_associated' = FALSE
    /\ bssid' \in AccessPoints \cup {0}
    /\ associate_freq' \in Freqs \cup {0}
    /\ unsure' = FALSE
    /\ nameless' = FALSE

Init ==
    /\ alive = FALSE
    /\ is_associated = FALSE
    /\ bssid = 0
    /\ associate_freq = 0
    /\ link = NoLink
    /\ events = <<>>
    /\ unsure = FALSE
    /\ nameless = FALSE
    /\ told = FALSE
    /\ answer = <<>>

-----------------------------------------------------------------------------
(***************************************************************************)
(* The kernel.  A driver with an SME of its own reports CONNECT only; else *)
(* ASSOCIATE or DISASSOCIATE comes first.                                  *)
(***************************************************************************)

Report(first, second) ==
    /\ Len(events) + 2 <= MaxEvents
    /\ \/ events' = Append(events, second)
       \/ events' = events \o <<first, second>>
    /\ told' = alive'

\* "Some MLME events do not contain MAC address" (mlme_event.cpp).
Named(b) == {b, 0}

Associate(b, f) ==
    /\ link' = LinkTo(b, f)
    /\ UNCHANGED <<alive, client>>
    /\ \E x, y \in Named(b) : Report(Event("associate", x, 0), Event("connect", y, 0))

\* The access point refuses, with a status code that the ASSOCIATE event has
\* only in its frame, or does not answer.  A former link is lost.
Refused(b) ==
    /\ link' = NoLink
    /\ UNCHANGED <<alive, client>>
    /\ \/ \E x \in Named(b) :
             Report(Event("associate", x, 0), Event("connect_fail", 0, 0))
       \/ Report(Event("associate_timeout", 0, 0), Event("connect_fail", 0, 0))

Roam(b, f) ==
    /\ link.up /\ b # link.bssid
    /\ Len(events) < MaxEvents
    /\ link' = LinkTo(b, f)
    /\ \E x \in Named(b) : events' = Append(events, Event("roam", x, 0))
    /\ told' = alive
    /\ UNCHANGED <<alive, client>>

SwitchChannel(f) ==
    /\ link.up /\ f # link.freq
    /\ Len(events) < MaxEvents
    /\ link' = [link EXCEPT !.freq = f]
    /\ events' = Append(events, Event("ch_switch", 0, f))
    /\ UNCHANGED <<alive, client, told>>

\* A channel switch event without a frequency.
OddEvent ==
    /\ Len(events) < MaxEvents
    /\ events' = Append(events, Event("ch_switch", 0, 0))
    /\ UNCHANGED <<alive, client, link, told>>

Disconnects ==
    /\ link' = NoLink
    /\ Report(Event("disassociate", 0, 0), Event("disconnect", 0, 0))

Disconnect ==
    /\ link.up
    /\ UNCHANGED <<alive, client>>
    /\ Disconnects

-----------------------------------------------------------------------------
(***************************************************************************)
(* wificond                                                                *)
(***************************************************************************)

\* There may be a link already, and events about it or about a former one may
\* still be unread.
CreateClientInterface ==
    /\ ~alive
    /\ alive' = TRUE
    /\ Construct
    /\ told' = \E i \in 1..Len(events) : events[i].cmd # "ch_switch"
    /\ UNCHANGED <<link, events>>

\* The destructor unsubscribes and sets the interface down, which ends a link,
\* unless it fails: SetUpState's result is not looked at.
DestroyClientInterface ==
    /\ alive
    /\ alive' = FALSE
    /\ UNCHANGED client
    /\ \/ link.up /\ Disconnects
       \/ told' = FALSE /\ UNCHANGED <<link, events>>

\* The process dies and is started again, with a socket that is empty.
Restart ==
    /\ alive' = FALSE
    /\ events' = <<>>
    /\ told' = FALSE
    /\ UNCHANGED <<client, link>>

\* The scan result marked as associated is the one of the link as it is now.
\* GetScanResult may fail, or have no such result; the caller does not ask.
RefreshAssociateFreq ==
    \/ /\ link.up
       /\ associate_freq' = link.freq
       /\ unsure' = FALSE
    \/ /\ UNCHANGED associate_freq
       /\ unsure' = TRUE

\* Mutant: keeps the address of the access point it had before.
LinkUpKeepsBssid(b) ==
    /\ is_associated' = TRUE
    /\ RefreshAssociateFreq
    /\ bssid' = IF bssid = 0 THEN b ELSE bssid
    /\ nameless' = (b = 0)

\* GetBSSID of an event without a BSSID is what was in the event's memory.
LinkUp(b) ==
    /\ is_associated' = TRUE
    /\ RefreshAssociateFreq
    /\ bssid' \in IF b = 0 THEN AccessPoints \cup {0} ELSE {b}
    /\ nameless' = (b = 0)

LinkDown ==
    /\ is_associated' = FALSE
    /\ bssid' = 0
    /\ nameless' = FALSE
    /\ UNCHANGED <<associate_freq, unsure>>

OnConnect(e) ==
    \/ e.cmd = "connect" /\ LinkUp(e.bssid)
    \/ e.cmd = "connect_fail" /\ LinkDown

OnAssociate(e) ==
    \/ e.cmd = "associate" /\ LinkUp(e.bssid)   \* status_code_ is always 0
    \/ e.cmd = "associate_timeout" /\ LinkDown

\* Mutant: takes the new access point to be on the channel of the old one.
OnRoamSameChannel(e) ==
    /\ e.cmd = "roam"
    /\ is_associated' = TRUE
    /\ bssid' = e.bssid
    /\ nameless' = (e.bssid = 0)
    /\ UNCHANGED <<associate_freq, unsure>>

OnRoam(e) == e.cmd = "roam" /\ LinkUp(e.bssid)

OnDisconnect(e) == e.cmd = "disconnect" /\ LinkDown

OnDisassociate(e) == e.cmd = "disassociate" /\ LinkDown

OnChannelSwitchEvent(e) ==
    /\ e.cmd = "ch_switch"
    /\ IF e.freq = 0
       THEN UNCHANGED <<associate_freq, unsure>>
       ELSE associate_freq' = e.freq /\ unsure' = FALSE
    /\ UNCHANGED <<is_associated, bssid, nameless>>

\* The event loop reads an event; without a handler it is dropped.
ReadEvent ==
    /\ events # <<>>
    /\ LET e == Head(events) IN
       IF alive
       THEN \/ OnConnect(e)
            \/ OnAssociate(e)
            \/ OnRoam(e)
            \/ OnDisconnect(e)
            \/ OnDisassociate(e)
            \/ OnChannelSwitchEvent(e)
       ELSE UNCHANGED client
    /\ events' = Tail(events)
    /\ UNCHANGED <<alive, link, told>>

-----------------------------------------------------------------------------
(***************************************************************************)
(* The framework's calls (client_interface_binder.cpp).  The binder of a   *)
(* destroyed object answers with nothing, and so does a call that fails.   *)
(***************************************************************************)

\* The attributes the kernel has of a station; each access point has values
\* of its own.  Bit rates are in units of 100 kbit/s.
Station(b) ==
    [tx_packets |-> b, tx_failed |-> b + 1, signal |-> 0 - b,
     tx_bitrate |-> 10 * b + 5, rx_bitrate |-> 10 * b + 7]

BITRATES == {"tx_bitrate", "rx_bitrate"}

\* GetStationInfo: the kernel knows the station of the link alone.  A reply
\* that lacks a counter or the signal is a failure; a bit rate that is not
\* there is 0.  The StationInfo of success, or <<>>.
GetStationInfo(b, has) ==
    IF link.up /\ link.bssid = b /\ DOMAIN Station(b) \ BITRATES \subseteq has
    THEN <<[a \in DOMAIN Station(b) |-> IF a \in has THEN Station(b)[a] ELSE 0]>>
    ELSE <<>>

\* What a reply about the station may have.  The kernel has none of a station
\* that is not the link's.
Replies(b) ==
    IF link.up /\ link.bssid = b THEN SUBSET DOMAIN Station(b) ELSE {{}}

GetPacketCounters ==
    \E has \in Replies(bssid) :
        LET info == IF alive THEN GetStationInfo(bssid, has) ELSE <<>> IN
        answer' = IF info = <<>> THEN <<>>
                  ELSE <<info[1].tx_packets, info[1].tx_failed>>

SignalPoll ==
    \E has \in Replies(bssid) :
        LET info == IF alive /\ is_associated
                    THEN GetStationInfo(bssid, has) ELSE <<>>
        IN answer' = IF info = <<>> THEN <<>>
                     ELSE <<info[1].signal, info[1].tx_bitrate \div 10,
                            associate_freq, info[1].rx_bitrate \div 10>>

Call ==
    /\ SignalPoll \/ GetPacketCounters
    /\ UNCHANGED <<alive, client, link, events, told>>

Step ==
    \/ \E b \in AccessPoints, f \in Freqs : Associate(b, f) \/ Roam(b, f)
    \/ \E b \in AccessPoints : Refused(b)
    \/ \E f \in Freqs : SwitchChannel(f)
    \/ OddEvent
    \/ Disconnect
    \/ CreateClientInterface
    \/ DestroyClientInterface
    \/ Restart
    \/ ReadEvent

Next ==
    \/ Step /\ answer' = <<>>
    \/ Call

Spec == Init /\ [][Next]_vars

-----------------------------------------------------------------------------
(***************************************************************************)
(* Properties                                                              *)
(***************************************************************************)

\* Once all events are read, is_associated_ says whether there is a link that
\* the object was told of, and bssid_ is the link's, if its event had one:
\* whatever the order in which the kernel's steps, the reads, the life of the
\* object and restarts came, an access point that refused leaves no association
\* behind, nor do events of a link that a former object had.  A link that was up
\* before the object, with no event about it left to read, stays unknown to it
\* until it roams or ends: the constructor sets is_associated_ to false and
\* does not ask the kernel.
LinkFresh ==
    alive /\ events = <<>> =>
        /\ is_associated = (link.up /\ told)
        /\ is_associated /\ ~nameless => bssid = link.bssid

\* IClientInterface.aidl, signalPoll: RSSI in dBm, transmit rate in Mbps,
\* "association frequency in MHz", receive rate in Mbps.  An answer given when
\* all events are read is about the link as it is: never the signal of one
\* access point with the channel of another, after a roam, a channel switch, a
\* refused association or a new object.  The exception is a link event during
\* which the frequency could not be read: nothing reports that, and it stays what
\* it was, of another access point or, in a new object, of nothing at all.  A rate
\* the kernel leaves out is 0.
\* While events are unread, an answer is still about the station of the link,
\* never about one it has left, and a call that finds none has no answer.
PollDescribesLink ==
    answer # <<>> =>
        LET st == Station(link.bssid) IN
        /\ alive /\ link.up
        /\ Len(answer) = 2 => answer = <<st.tx_packets, st.tx_failed>>
        /\ Len(answer) = 4 =>
            /\ answer[1] = st.signal
            /\ answer[2] \in {0, st.tx_bitrate \div 10}
            /\ answer[4] \in {0, st.rx_bitrate \div 10}
            /\ events = <<>> /\ ~unsure => answer[3] = link.freq

=============================================================================
