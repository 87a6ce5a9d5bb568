--------------------------- MODULE NetlinkEvents ---------------------------
(***************************************************************************)
(* How wificond comes to hear the kernel's events and what becomes of      *)
(* them: NetlinkManager::Start and its retries (net/netlink_manager.cpp),  *)
(* the event loop (looper_backed_event_loop.cpp, main.cpp), the reading    *)
(* and dispatch of the asynchronous socket's datagrams, and the events     *)
(* that go on to the framework, those of an access point                   *)
(* (ap_interface_impl.cpp, ap_interface_binder.cpp) and of the regulatory  *)
(* domain (server.cpp).                                                    *)
(*                                                                         *)
(* wificond has one thread; between its steps the kernel adds events to    *)
(* the asynchronous socket, drops them when its buffer is full, and a      *)
(* signal may arrive.  A handler that sends synchronous requests reads the *)
(* replies into the same ReceiveBuffer that holds the rest of the          *)
(* datagram.                                                               *)
(***************************************************************************)
EXTENDS Integers, Sequences, SequencesExt, FiniteSets, FiniteSetsExt

CONSTANTS
    Stations,     \* MAC addresses of stations
    Channels,     \* pairs of a frequency and an nl80211_chan_width
    World,        \* the code of the world's regulatory domain
    RegMessages,  \* pairs of a country code, and whether the message has a type
    Intercepted,  \* whether nlinterceptor is enabled
    QueueLimit,   \* messages the socket's buffer holds
    MaxEvents,    \* bound on the kernel's events
    MaxRetried,   \* bound on them unless the first call of Start succeeds
    MaxReply      \* a reply overwrites at most so many messages of the buffer

ASSUME EventsAssumption ==
    /\ \A m \in RegMessages : m[2] \in BOOLEAN
    /\ Intercepted \in BOOLEAN
    /\ QueueLimit \in Nat \ {0}
    /\ MaxEvents \in Nat
    /\ MaxRetried \in Nat
    /\ MaxReply \in Nat

Groups == {"reg", "scan", "mlme"}

NoFd == -1
Fds == 3..9

VARIABLES
    pc,        \* where the thread is: a step of start-up, "loop" or an end
    caller,    \* who calls Start: main, or the constructor of a utility
    started,   \* started_
    family,    \* message_types_ has nl80211
    open,      \* open descriptors
    syncFd,    \* sync_netlink_fd_
    asyncFd,   \* async_netlink_fd_
    requests,  \* descriptors the Looper keeps a callback for
    polled,    \* open descriptors that are in its epoll set
    member,    \* groups the asynchronous socket is a member of
    queue,     \* its datagrams, each a sequence of messages
    enobufs,   \* its next read fails
    congested, \* the kernel drops events until its queue is empty
    buffer,    \* ReceiveBuffer while a datagram is handled
    at,        \* the next message in it
    tasks,     \* an exit task is posted
    continue,  \* should_continue_
    kernel,    \* the kernel's stations, channel and country
    ap,        \* "none", or whether the access point has a callback
    regCb,     \* a callback for the regulatory domain is registered
    view,      \* what the framework was told of these
    missed,    \* parts of the view an event was missed of; "any": of some event
    sent,      \* how many events the kernel had
    handled    \* numbers of the events that were handled

startVars == <<pc, caller, started, family, open, syncFd, asyncFd, requests, polled,
               member>>
loopVars == <<tasks, continue>>
queueVars == <<queue, enobufs, congested>>
bufferVars == <<buffer, at, handled>>
frameworkVars == <<ap, regCb, view, missed>>
kernelVars == <<kernel, sent>>
vars == <<startVars, loopVars, queueVars, bufferVars, frameworkVars, kernelVars>>

StartSteps == {"sync", "async", "discover", "watch", "reg", "scan", "mlme"}
Garbage == [cmd |-> "garbage", arg |-> 0, n |-> 0]
Parts == {"ap", "reg", "any"}

TypeOK ==
    /\ pc \in StartSteps \cup {"ctor", "loop", "exited", "crashed"}
    /\ caller \in {"main", "utils", "scan_utils"}
    /\ started \in BOOLEAN /\ family \in BOOLEAN
    /\ member \subseteq Groups
    /\ {syncFd, asyncFd} \subseteq Fds \cup {NoFd}
    /\ open = {syncFd, asyncFd} \ {NoFd}
    /\ syncFd = asyncFd => syncFd = NoFd
    /\ requests \subseteq Fds
    /\ polled \subseteq requests \cap open
    /\ Len(FlattenSeq(queue)) <= QueueLimit
    /\ at \in 1 .. Len(buffer) + 1
    /\ ap \in {"none", "silent", "heard"}
    /\ missed \subseteq Parts

Init ==
    /\ pc = "sync" /\ caller = "main" /\ started = FALSE
    /\ family = FALSE
    /\ open = {} /\ syncFd = NoFd /\ asyncFd = NoFd
    /\ requests = {} /\ polled = {} /\ member = {}
    /\ queue = <<>> /\ enobufs = FALSE /\ congested = FALSE
    /\ buffer = <<>> /\ at = 1 /\ handled = <<>>
    /\ tasks = FALSE /\ continue = TRUE
    /\ kernel = [stations |-> {}, channel |-> <<>>, country |-> World] /\ sent = 0
    /\ ap = "none" /\ regCb = FALSE
    /\ view = [stations |-> {}, channel |-> <<>>, country |-> World]
    /\ missed = {}

-----------------------------------------------------------------------------
(***************************************************************************)
(* Start.  main calls it, and goes on if it fails; the constructors of     *)
(* NetlinkUtils and ScanUtils call it again if it did not succeed.         *)
(***************************************************************************)

\* What the caller does next.
Returns(c) ==
    CASE c = "main" -> caller' = "utils" /\ pc' = "ctor"
      [] c = "utils" -> caller' = "scan_utils" /\ pc' = "ctor"
      [] c = "scan_utils" -> caller' = c /\ pc' = "loop"

\* Start returns false: what the earlier steps did stays.
Fails == started' = started /\ Returns(caller)

Passes(next) == pc' = next /\ UNCHANGED <<caller, started>>

\* The constructors of NetlinkUtils and ScanUtils.
Constructor ==
    /\ pc = "ctor"
    /\ IF started THEN Returns(caller) ELSE pc' = "sync" /\ caller' = caller
    /\ UNCHANGED <<started, family, open, syncFd, asyncFd, requests, polled,
                   member, loopVars, queueVars, bufferVars, frameworkVars,
                   kernelVars>>

\* unique_fd::reset(socket(...)): the new descriptor is the lowest that is free
\* while the old one is still open; a closed socket leaves the epoll set, but
\* not the Looper's table.
Reset(old, new) ==
    /\ open' = (open \ {old}) \cup ({new} \ {NoFd})
    /\ polled' = polled \ {old}

LowestFree == Min(Fds \ open)

\* SetupSocket: no socket, a socket without options or address, or all is well.
SetupSync ==
    /\ pc = "sync"
    /\ \E fd \in {NoFd, LowestFree} :
          /\ Reset(syncFd, fd)
          /\ syncFd' = fd
          /\ Fails \/ (fd # NoFd /\ Passes("async"))
    /\ UNCHANGED <<family, asyncFd, requests, member, loopVars, queueVars,
                   bufferVars, frameworkVars, kernelVars>>

\* The events that wait in the old socket go with it.
SetupAsync ==
    /\ pc = "async"
    /\ \E fd \in {NoFd, LowestFree} :
          /\ Reset(asyncFd, fd)
          /\ asyncFd' = fd
          /\ Fails \/ (fd # NoFd /\ Passes("discover"))
    /\ member' = {}
    /\ queue' = <<>> /\ enobufs' = FALSE /\ congested' = FALSE
    /\ missed' = IF queue # <<>> THEN missed \cup {"any"} ELSE missed
    /\ UNCHANGED <<family, syncFd, requests, loopVars, bufferVars, ap, regCb,
                   view, kernelVars>>

\* CHECK in SetupSocket and SendMessageInternal: the interceptor died.
InterceptorDied ==
    /\ Intercepted
    /\ pc \in {"sync", "async", "discover"}
    /\ pc' = "crashed"
    /\ UNCHANGED <<caller, started, family, open, syncFd, asyncFd, requests,
                   polled, member, loopVars, queueVars, bufferVars,
                   frameworkVars, kernelVars>>

\* The id of the family and of its groups is taken from the answer, unless the
\* answer is not understood.
OnNewFamily == family' \in {family, TRUE}

\* Without an answer Start fails; after one that is not understood what an
\* earlier call found is still good.
DiscoverFamilyId ==
    /\ pc = "discover"
    /\ \/ family' = family /\ Fails
       \/ OnNewFamily /\ IF family' THEN Passes("watch") ELSE Fails
    /\ UNCHANGED <<open, syncFd, asyncFd, requests, polled, member,
                   loopVars, queueVars, bufferVars, frameworkVars, kernelVars>>

\* Looper::addFd: a descriptor it has a callback for is expected in the epoll
\* set; if it is not there, it is added and the set made anew of all callbacks.
addFd(fd) ==
    /\ requests' = requests \cup {fd}
    /\ polled' = IF fd \in requests \ polled THEN requests \cap open
                 ELSE polled \cup {fd}

\* Mutant: the socket that is watched is the synchronous one.
WatchSyncSocket ==
    /\ pc = "watch"
    /\ addFd(syncFd) /\ Passes("reg")
    /\ UNCHANGED <<family, open, syncFd, asyncFd, member,
                   loopVars, queueVars, bufferVars, frameworkVars, kernelVars>>

WatchSocket ==
    /\ pc = "watch"
    /\ \/ addFd(asyncFd) /\ Passes("reg")
       \/ UNCHANGED <<requests, polled>> /\ Fails
    /\ UNCHANGED <<family, open, syncFd, asyncFd, member,
                   loopVars, queueVars, bufferVars, frameworkVars, kernelVars>>

\* Mutant: a subscription that fails is no reason to stop.
SubscribeToEventsLenient ==
    /\ pc \in Groups
    /\ member' \in {member, member \cup {pc}}
    /\ CASE pc = "reg" -> Passes("scan")
         [] pc = "scan" -> Passes("mlme")
         [] pc = "mlme" -> started' = TRUE /\ Returns(caller)
    /\ UNCHANGED <<family, open, syncFd, asyncFd, requests, polled,
                   loopVars, queueVars, bufferVars, frameworkVars, kernelVars>>

\* SubscribeToEvents, three times; it fails if the group does not exist too.
SubscribeToEvents ==
    /\ pc \in Groups
    /\ \/ /\ member' = member \cup {pc}
          /\ CASE pc = "reg" -> Passes("scan")
               [] pc = "scan" -> Passes("mlme")
               [] pc = "mlme" -> started' = TRUE /\ Returns(caller)
       \/ member' = member /\ Fails
    /\ UNCHANGED <<family, open, syncFd, asyncFd, requests, polled,
                   loopVars, queueVars, bufferVars, frameworkVars, kernelVars>>

Start ==
    \/ SetupSync \/ SetupAsync \/ InterceptorDied
    \/ DiscoverFamilyId \/ WatchSocket \/ SubscribeToEvents

-----------------------------------------------------------------------------
(***************************************************************************)
(* The kernel                                                              *)
(***************************************************************************)

GroupOf(cmd) == IF cmd = "reg" THEN "reg" ELSE "mlme"

Misses(parts) == missed' = missed \cup parts

PartOf(cmd) == IF cmd = "reg" THEN {"reg", "any"} ELSE {"ap", "any"}

\* The sockets are those of a first call of Start that succeeded.
FirstTry == started /\ syncFd = 3 /\ asyncFd = 4

\* A message for the members of its group (the others go unnoticed): alone in a
\* datagram, or added to the last one that was not read yet.
Multicast(cmd, arg) ==
    LET m == [cmd |-> cmd, arg |-> arg, n |-> sent + 1]
    IN  /\ sent < IF FirstTry THEN MaxEvents ELSE MaxRetried
        /\ GroupOf(cmd) \in member /\ pc \notin {"exited", "crashed"}
        /\ sent' = sent + 1
        /\ IF Len(FlattenSeq(queue)) = QueueLimit \/ congested
           THEN /\ queue' = queue
                /\ Misses(PartOf(cmd))
                /\ enobufs' = TRUE
                /\ congested' = TRUE
           ELSE /\ \/ queue' = Append(queue, <<m>>)
                   \/ queue # <<>> /\ queue' = [queue EXCEPT ![Len(queue)] = Append(@, m)]
                /\ UNCHANGED <<missed, enobufs, congested>>
        /\ UNCHANGED <<startVars, loopVars, bufferVars, ap, regCb, view>>

KernelStation ==
    \E s \in Stations :
        IF s \in kernel.stations
        THEN /\ kernel' = [kernel EXCEPT !.stations = @ \ {s}]
             /\ Multicast("del_station", s)
        ELSE /\ kernel' = [kernel EXCEPT !.stations = @ \cup {s}]
             /\ Multicast("new_station", s)

KernelChannel ==
    \E c \in Channels :
        /\ kernel' = [kernel EXCEPT !.channel = c]
        /\ Multicast("ch_switch", c)

\* The type of the domain is in the message, but need not be.
KernelRegulatory ==
    \E m \in RegMessages :
        /\ kernel' = [kernel EXCEPT !.country = m[1]]
        /\ Multicast("reg", m)

-----------------------------------------------------------------------------
(***************************************************************************)
(* Handlers                                                                *)
(***************************************************************************)

\* enum nl80211_chan_width, the values there is a name for; the others are
\* BW_INVALID.
getBandwidthType(width) ==
    CASE width = 0 -> "20_NOHT" [] width = 1 -> "20" [] width = 2 -> "40"
      [] width = 3 -> "80" [] width = 4 -> "80P80" [] width = 5 -> "160"
      [] width = 13 -> "320" [] OTHER -> "INVALID"

\* NotifyConnectedClientsChanged and NotifySoftApChannelSwitched.
Notify(field, value) ==
    /\ view' = IF ap = "heard" THEN [view EXCEPT ![field] = value] ELSE view
    /\ missed' = missed

\* Mutant: the event that was handled is always that of a new station.
OnStationEventAdds(m) == Notify("stations", view.stations \cup {m.arg})

\* ApInterfaceImpl::OnStationEvent.
OnStationEvent(m) ==
    Notify("stations", IF m.cmd = "new_station" THEN view.stations \cup {m.arg}
                       ELSE view.stations \ {m.arg})

OnChannelSwitchEvent(m) ==
    Notify("channel", <<m.arg[1], getBandwidthType(m.arg[2])>>)

\* BroadcastRegDomainChanged.
Announce(country) ==
    /\ view' = IF regCb THEN [view EXCEPT !.country = country] ELSE view
    /\ missed' = missed

Silence == view' = view /\ Misses({"reg"})

\* OnRegDomainChanged without a country asks the kernel for the one it has by
\* now; if there is no answer nothing is announced.
AskAndAnnounce == Announce(kernel.country) \/ Silence

\* OnRegChangeEvent, with the handler Server registers for the wiphy: a message
\* without a type leaves reg_type uninitialized, so it may be taken for any,
\* also for one that is unknown.
OnRegChangeEvent(m) ==
    LET country == m.arg[1]
        typed == m.arg[2]
    IN  IF ap = "none" THEN Silence
        ELSE \/ (country # World \/ ~typed) /\ Announce(country)
             \/ (country = World \/ ~typed) /\ AskAndAnnounce
             \/ ~typed /\ Silence

BroadcastHandler(m) ==
    CASE m.cmd \in {"new_station", "del_station"} -> OnStationEvent(m)
      [] m.cmd = "ch_switch" -> OnChannelSwitchEvent(m)
      [] m.cmd = "reg" -> OnRegChangeEvent(m)

\* Server::OnRegDomainChanged asks for the country and for the wiphys, as the
\* handler of an MLME event asks for scan results.
SendsRequests(m) == m.cmd = "reg" /\ ap # "none"

-----------------------------------------------------------------------------
(***************************************************************************)
(* The event loop                                                          *)
(***************************************************************************)

Ready == pc = "loop" /\ buffer = <<>>

Watched == asyncFd \in polled

\* Mutant: the read only peeks, and leaves the error on the socket.
ReadErrorStays ==
    /\ Ready /\ Watched /\ enobufs
    /\ UNCHANGED vars

\* ReceivePacketAndRunHandler when the kernel reports dropped events: the error
\* is logged, and WatchFdCallback keeps watching.
ReadError ==
    /\ Ready /\ Watched /\ enobufs
    /\ enobufs' = FALSE
    /\ UNCHANGED <<startVars, loopVars, queue, congested, bufferVars, frameworkVars,
                   kernelVars>>

\* ReceivePacketAndRunHandler: read.
ReceivePacket ==
    /\ Ready /\ Watched /\ ~enobufs
    /\ queue # <<>>
    /\ buffer' = Head(queue) /\ at' = 1 /\ handled' = handled
    /\ queue' = Tail(queue)
    /\ congested' = (congested /\ Tail(queue) # <<>>)
    /\ UNCHANGED <<startVars, loopVars, enobufs, frameworkVars, kernelVars>>

\* The datagram, of which replies overwrote the first k messages; those that
\* were handled are not read again.
Overwritten(k) ==
    [i \in DOMAIN buffer |-> IF i <= Max({k, at}) THEN Garbage ELSE buffer[i]]

GoOn(rest) ==
    IF at = Len(buffer) THEN buffer' = <<>> /\ at' = 1
    ELSE buffer' = rest /\ at' = at + 1

\* Mutant: the datagram is taken to hold one message.
RunHandlerOnce ==
    /\ pc = "loop" /\ buffer # <<>> /\ buffer[at] # Garbage
    /\ BroadcastHandler(buffer[at])
    /\ handled' = Append(handled, buffer[at].n)
    /\ buffer' = <<>> /\ at' = 1
    /\ UNCHANGED <<startVars, loopVars, queueVars, ap, regCb, kernelVars>>

\* One turn of the loop over the messages of the datagram.
RunHandler ==
    /\ pc = "loop" /\ buffer # <<>> /\ buffer[at] # Garbage
    /\ BroadcastHandler(buffer[at])
    /\ handled' = Append(handled, buffer[at].n)
    /\ \E k \in 0..MaxReply :
          /\ k > 0 => SendsRequests(buffer[at])
          /\ GoOn(Overwritten(k))
    /\ UNCHANGED <<startVars, loopVars, queueVars, ap, regCb, kernelVars>>

\* Where a message was there are bytes of a reply: mostly no valid message, or
\* one with a sequence number nobody waits for, and the rest is dropped; but they
\* may also pass for a broadcast, of which the model keeps only the damage.
MeetGarbage ==
    /\ pc = "loop" /\ buffer # <<>> /\ buffer[at] = Garbage
    /\ Misses(Parts)
    /\ (buffer' = <<>> /\ at' = 1) \/ GoOn(buffer)
    /\ UNCHANGED <<startVars, loopVars, queueVars, handled, ap, regCb, view, kernelVars>>

\* ScopedSignalHandler::LeaveLoop and TriggerExit.
Signal ==
    /\ pc \notin {"exited", "crashed"} /\ ~tasks /\ continue
    /\ tasks' = TRUE
    /\ UNCHANGED <<startVars, continue, queueVars, bufferVars, frameworkVars, kernelVars>>

\* Mutant: the task does not reach the loop's variable.
RunTaskLost ==
    /\ Ready /\ tasks
    /\ tasks' = FALSE /\ continue' = TRUE
    /\ UNCHANGED <<startVars, queueVars, bufferVars, frameworkVars, kernelVars>>

\* The task TriggerExit posts.
RunTask ==
    /\ Ready /\ tasks
    /\ tasks' = FALSE /\ continue' = FALSE
    /\ UNCHANGED <<startVars, queueVars, bufferVars, frameworkVars, kernelVars>>

\* Poll returns; what the same pollOnce still had to do may come before.
Poll ==
    /\ Ready /\ ~continue
    /\ pc' = "exited"
    /\ UNCHANGED <<caller, started, family, open, syncFd, asyncFd, requests,
                   polled, member, loopVars, queueVars, bufferVars,
                   frameworkVars, kernelVars>>

-----------------------------------------------------------------------------
(***************************************************************************)
(* Calls of the framework, each answered by the loop's thread.  Whoever    *)
(* registers is taken to know the state of the kernel at that moment.      *)
(***************************************************************************)

\* An event that still waits may be older than one that was missed.
Recovers(part) == IF queue = <<>> THEN missed \ {part} ELSE missed

Call == Ready /\ UNCHANGED <<startVars, loopVars, queueVars, bufferVars, kernelVars>>

\* The constructor of ApInterfaceImpl; Server subscribes to the wiphy.
createApInterface == Call /\ ap = "none" /\ ap' = "silent" /\ UNCHANGED <<regCb, view, missed>>

\* The destructor of ApInterfaceImpl.
tearDownApInterface ==
    /\ Call /\ ap # "none"
    /\ ap' = "none" /\ regCb' = regCb
    /\ view' = [view EXCEPT !.stations = {}, !.channel = <<>>]
    /\ missed' = missed

\* ApInterfaceBinder::registerCallback.
registerCallback ==
    /\ Call /\ ap # "none"
    /\ ap' = "heard" /\ regCb' = regCb
    /\ view' = [view EXCEPT !.stations = kernel.stations,
                            !.channel = IF kernel.channel = <<>> THEN <<>>
                                        ELSE <<kernel.channel[1],
                                               getBandwidthType(kernel.channel[2])>>]
    /\ missed' = Recovers("ap")

registerWificondEventCallback ==
    /\ Call
    /\ regCb' = TRUE /\ ap' = ap
    /\ view' = [view EXCEPT !.country = kernel.country]
    /\ missed' = Recovers("reg")

unregisterWificondEventCallback ==
    /\ Call /\ regCb
    /\ regCb' = FALSE /\ ap' = ap
    /\ view' = [view EXCEPT !.country = World]
    /\ missed' = missed

Framework ==
    \/ createApInterface \/ tearDownApInterface \/ registerCallback
    \/ registerWificondEventCallback \/ unregisterWificondEventCallback

Loop == ReadError \/ ReceivePacket \/ RunHandler \/ MeetGarbage \/ RunTask \/ Poll

Kernel == KernelStation \/ KernelChannel \/ KernelRegulatory

Next == Constructor \/ Start \/ Loop \/ Signal \/ Framework \/ Kernel

\* The thread goes on as long as it has something to do; the loop runs posted
\* tasks before it looks at descriptors, and looks at all that are ready.
Fairness ==
    /\ WF_vars(Constructor \/ Start)
    /\ WF_vars(ReadError) /\ WF_vars(ReceivePacket)
    /\ WF_vars(RunHandler \/ MeetGarbage)
    /\ WF_vars(RunTask) /\ WF_vars(Poll)

Spec == Init /\ [][Next]_vars /\ Fairness

-----------------------------------------------------------------------------
(***************************************************************************)
(* Properties                                                              *)
(***************************************************************************)

\* NetlinkManager says it is started only if its present asynchronous socket, of
\* whichever call of Start, is open, watched, and a member of all three groups.
StartedListens ==
    started => /\ Watched
               /\ member = Groups
               /\ syncFd # NoFd

\* The loop never watches the synchronous socket, also when Start is repeated
\* and descriptors are used again that the Looper has a callback for: it would
\* read the answers SendMessageAndGetResponses waits for.
SyncSocketUnwatched ==
    syncFd \notin polled

\* The messages still to be handled: the k-th of the d-th datagram, where the
\* buffer is number 0 and is read from `at' on.
Datagram(d) == IF d = 0 THEN buffer ELSE queue[d]
Waiting ==
    UNION {{<<d, k>> : k \in (IF d = 0 THEN at ELSE 1)..Len(Datagram(d))} : d \in 0..Len(queue)}
Number(w) == Datagram(w[1])[w[2]].n
Precedes(v, w) == v[1] < w[1] \/ (v[1] = w[1] /\ v[2] < w[2])

\* Every event is handled exactly once and in the kernel's order, however many
\* there are in a datagram, as long as none was dropped or overwritten; after
\* that the others still are, in order.
HandledOnceInOrder ==
    LET intact == {w \in Waiting : Number(w) # 0}
    IN  /\ "any" \notin missed /\ intact = Waiting =>
              1..sent = Range(handled) \cup {Number(w) : w \in Waiting}
        /\ \A i, j \in DOMAIN handled : i < j => handled[i] < handled[j]
        /\ \A i \in DOMAIN handled, w \in intact : handled[i] < Number(w)
        /\ \A v, w \in intact : Precedes(v, w) => Number(v) < Number(w)

\* When all events are handled, the framework knows the stations, the channel
\* and the country as the kernel has them, provided that no event was missed
\* since it registered with none on its way.
FrameworkUpToDate ==
    pc = "loop" /\ queue = <<>> /\ buffer = <<>> =>
        /\ ap = "heard" /\ "ap" \notin missed =>
              /\ view.stations = kernel.stations
              /\ kernel.channel # <<>> =>
                    view.channel = <<kernel.channel[1], getBandwidthType(kernel.channel[2])>>
        /\ regCb /\ "reg" \notin missed => view.country = kernel.country

\* Events are read as long as wificond runs, also those that arrive after others
\* were dropped and a read failed.
EventsAreRead ==
    (pc = "loop" /\ queue # <<>>) ~> (queue = <<>> \/ pc = "exited")

\* A signal ends the process, whatever else there is to do.
SignalEndsProcess == tasks ~> (pc \in {"exited", "crashed"})

=============================================================================
