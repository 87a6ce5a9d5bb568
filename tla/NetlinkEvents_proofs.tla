------------------------ MODULE NetlinkEvents_proofs ------------------------
(***************************************************************************)
(* Proofs about NetlinkEvents: that a repeated Start never makes the event *)
(* loop watch the synchronous socket and only reports success for a socket *)
(* that listens; that what the framework was told, corrected by the events *)
(* that are still to be handled, is the state of the kernel; and that      *)
(* events are handled once and in order.                                   *)
(***************************************************************************)
EXTENDS NetlinkEvents, TLAPS

-----------------------------------------------------------------------------
(***************************************************************************)
(* Descriptors.  The Looper keeps the callback of a closed socket, so what *)
(* it makes the epoll set anew of may have become the synchronous socket.  *)
(* Start is called at most three times, which is why it never has: only    *)
(* the third call finds two callbacks, and then of descriptors of which    *)
(* the new asynchronous socket has neither.                                *)
(***************************************************************************)

Running == {"loop", "exited", "crashed"}

FdType ==
    /\ {syncFd, asyncFd} \subseteq Fds \cup {NoFd}
    /\ open = {syncFd, asyncFd} \ {NoFd}
    /\ syncFd = asyncFd => syncFd = NoFd
    /\ requests \subseteq Fds
    /\ polled \subseteq requests \cap open

PcType ==
    /\ pc \in StartSteps \cup {"ctor"} \cup Running
    /\ caller \in {"main", "utils", "scan_utils"}
    /\ started \in BOOLEAN /\ family \in BOOLEAN
    /\ member \subseteq Groups

\* Between two calls of Start: the descriptors and the callbacks that the first
\* call, and the first two calls, may leave.
AfterFirst ==
    \/ requests = {}
    \/ requests = {4} /\ syncFd = 3 /\ asyncFd = 4

AfterSecond ==
    \/ \A a, b \in requests : a = b
    \/ requests = {3, 4} /\ syncFd = 5 /\ asyncFd = 3

\* What the calls find at each of their steps.
FirstCall ==
    caller = "main" =>
        /\ pc # "ctor"
        /\ pc \in {"sync", "async", "discover", "watch"} => requests = {}
        /\ pc \in {"sync", "async"} => asyncFd = NoFd
        /\ pc = "sync" => syncFd = NoFd
        /\ pc # "sync" => syncFd \in {3, NoFd}
        /\ pc \notin {"sync", "async"} => asyncFd \in {4, NoFd}
        /\ pc \in Groups => AfterFirst

SecondCall ==
    caller = "utils" =>
        /\ pc \in {"ctor", "sync"} => AfterFirst
        /\ pc = "async" => requests = {} \/ (requests = {4} /\ syncFd = 5 /\ asyncFd = 4)
        /\ pc \in {"discover", "watch"} =>
              requests = {} \/ (requests = {4} /\ syncFd = 5 /\ asyncFd = 3)
        /\ pc \in Groups => AfterSecond

ThirdCall ==
    caller = "scan_utils" =>
        /\ pc \in {"ctor", "sync"} => AfterSecond
        /\ pc = "async" =>
              \/ \A a, b \in requests : a = b
              \/ requests = {3, 4} /\ syncFd = 4 /\ asyncFd = 3
        /\ pc \in {"discover", "watch"} =>
              \/ \A a, b \in requests : a = b
              \/ requests = {3, 4} /\ syncFd = 4 /\ asyncFd = 5

\* How far the present call got.
Progress ==
    /\ pc \in {"async", "discover", "watch"} \cup Groups => syncFd # NoFd
    /\ pc \in {"discover", "watch"} \cup Groups => asyncFd # NoFd
    /\ pc \in Groups => Watched
    /\ pc \in {"scan", "mlme"} => "reg" \in member
    /\ pc = "mlme" => "scan" \in member
    /\ started => pc \notin StartSteps

StartInv ==
    /\ PcType
    /\ FdType
    /\ FirstCall /\ SecondCall /\ ThirdCall
    /\ Progress
    /\ SyncSocketUnwatched
    /\ StartedListens

-----------------------------------------------------------------------------
(***************************************************************************)
(* Start                                                                   *)
(***************************************************************************)

\* There is a free descriptor, and the kernel gives the lowest.
LEMMA LowestFreeFd ==
    ASSUME FdType
    PROVE  /\ LowestFree \in Fds \ open
           /\ \A x \in Fds \ open : LowestFree <= x
  <1>1. \E x \in Fds \ open : \A y \in Fds \ open : x <= y
    <2>1. CASE 3 \notin open
      BY <2>1 DEF Fds
    <2>2. CASE 3 \in open /\ 4 \notin open
      BY <2>2 DEF Fds
    <2>3. CASE 3 \in open /\ 4 \in open
      <3>1. 5 \notin open
        BY <2>3 DEF FdType
      <3> QED BY <2>3, <3>1 DEF Fds
    <2> QED BY <2>1, <2>2, <2>3
  <1> QED BY <1>1 DEF LowestFree, Min

\* A call of Start that returns leaves what the next one, or the loop, may find.
LEMMA ReturnInv ==
    ASSUME PcType', FdType', SyncSocketUnwatched', StartedListens',
           Returns(caller),
           caller = "main" => AfterFirst',
           caller = "utils" => AfterSecond',
           caller \in {"main", "utils", "scan_utils"}
    PROVE  StartInv'
  <1>1. CASE caller = "main"
    BY <1>1 DEF Returns, StartInv, FirstCall, SecondCall, ThirdCall, Progress,
        Groups, StartSteps
  <1>2. CASE caller = "utils"
    BY <1>2 DEF Returns, StartInv, FirstCall, SecondCall, ThirdCall, Progress,
        Groups, StartSteps
  <1>3. CASE caller = "scan_utils"
    BY <1>3 DEF Returns, StartInv, FirstCall, SecondCall, ThirdCall, Progress,
        Groups, StartSteps
  <1> QED BY <1>1, <1>2, <1>3

\* Where Returns goes.
LEMMA ReturnType ==
    ASSUME caller \in {"main", "utils", "scan_utils"}, Returns(caller)
    PROVE  /\ caller' \in {"main", "utils", "scan_utils"}
           /\ pc' \in {"ctor", "loop"}
  BY DEF Returns

\* A constructor finds NetlinkManager started, or starts it again.
LEMMA ConstructorInv ==
    ASSUME StartInv, Constructor
    PROVE  StartInv'
  <1>1. UNCHANGED <<started, family, open, syncFd, asyncFd, requests, polled, member>>
    BY DEF Constructor
  <1>2. FdType' /\ SyncSocketUnwatched' /\ StartedListens'
    BY <1>1 DEF StartInv, FdType, SyncSocketUnwatched, StartedListens, Watched
  <1>3. caller \in {"main", "utils", "scan_utils"} /\ pc = "ctor"
    BY DEF StartInv, PcType, Constructor
  <1>4. CASE started
    <2>1. Returns(caller)
      BY <1>4 DEF Constructor
    <2>2. PcType'
      BY <1>1, <1>3, <2>1, ReturnType DEF StartInv, PcType, Running
    <2>3. caller # "main" /\ (caller = "utils" => AfterFirst)
      BY <1>3 DEF StartInv, FirstCall, SecondCall
    <2>4. caller = "utils" => AfterSecond'
      BY <1>1, <2>3 DEF AfterFirst, AfterSecond
    <2> QED BY <1>2, <1>3, <2>1, <2>2, <2>3, <2>4, ReturnInv
  <1>5. CASE ~started
    <2>1. pc' = "sync" /\ caller' = caller
      BY <1>5 DEF Constructor
    <2>2. PcType' /\ Progress'
      BY <1>1, <1>5, <2>1 DEF StartInv, PcType, Progress, StartSteps, Groups
    <2>3. FirstCall' /\ SecondCall' /\ ThirdCall'
      BY <1>1, <1>3, <2>1 DEF StartInv, FirstCall, SecondCall, ThirdCall,
          AfterFirst, AfterSecond, Groups
    <2> QED BY <1>2, <2>2, <2>3 DEF StartInv
  <1> QED BY <1>4, <1>5

\* A new synchronous socket.  The descriptor it gets is of no socket the loop
\* watches.
LEMMA SetupSyncInv ==
    ASSUME StartInv, SetupSync
    PROVE  StartInv'
  <1>1. PICK fd \in {NoFd, LowestFree} :
            /\ Reset(syncFd, fd)
            /\ syncFd' = fd
            /\ Fails \/ (fd # NoFd /\ Passes("async"))
    BY DEF SetupSync
  <1>2. /\ pc = "sync" /\ ~started /\ started' = started
        /\ UNCHANGED <<family, asyncFd, requests, member>>
        /\ caller \in {"main", "utils", "scan_utils"}
    BY <1>1 DEF SetupSync, Fails, Passes, StartInv, Progress, StartSteps, PcType
  <1>3. FdType /\ syncFd \notin polled
    BY DEF StartInv, SyncSocketUnwatched
  <1>4. /\ fd = NoFd \/ (fd \in Fds \ open /\ \A x \in Fds \ open : fd <= x)
        /\ NoFd \notin Fds
    BY <1>1, <1>3, LowestFreeFd DEF NoFd, Fds
  <1>5. FdType' /\ SyncSocketUnwatched' /\ StartedListens'
    BY <1>1, <1>2, <1>3, <1>4
       DEF Reset, FdType, SyncSocketUnwatched, StartedListens
  <1>6. caller = "main" => requests = {} /\ asyncFd = NoFd /\ syncFd = NoFd
    BY <1>2 DEF StartInv, FirstCall
  <1>7. caller = "main" => fd \in {NoFd, 3}
    <2>1. CASE caller = "main" /\ fd # NoFd
      <3>1. open = {} /\ 3 \in Fds
        BY <1>3, <1>6, <2>1 DEF FdType, Fds
      <3>2. fd \in 3..9 /\ fd <= 3
        BY <1>4, <2>1, <3>1 DEF Fds
      <3> QED BY <3>2
    <2> QED BY <2>1
  <1>8. caller = "utils" => AfterFirst
    BY <1>2 DEF StartInv, SecondCall
  <1>9. ASSUME requests = {4}, syncFd = 3, asyncFd = 4
        PROVE  fd \in {NoFd, 5}
    <2>1. open = {3, 4}
      BY <1>3, <1>9 DEF FdType, NoFd
    <2>2. fd # NoFd => fd \in (3..9) \ {3, 4} /\ fd <= 5
      BY <1>4, <2>1 DEF Fds
    <2> QED BY <2>2
  <1>10. ASSUME requests = {3, 4}, syncFd = 5, asyncFd = 3
         PROVE  fd \in {NoFd, 4}
    <2>1. open = {3, 5}
      BY <1>3, <1>10 DEF FdType, NoFd
    <2>2. fd # NoFd => fd \in (3..9) \ {3, 5} /\ fd <= 4
      BY <1>4, <2>1 DEF Fds
    <2> QED BY <2>2
  <1>11. CASE Fails
    <2>1. Returns(caller)
      BY <1>11 DEF Fails
    <2>2. PcType'
      BY <1>2, <2>1, ReturnType DEF StartInv, PcType, Running
    <2>3. /\ caller = "main" => AfterFirst'
          /\ caller = "utils" => AfterSecond'
      BY <1>2, <1>6, <1>8 DEF AfterFirst, AfterSecond
    <2> QED BY <1>2, <1>5, <2>1, <2>2, <2>3, ReturnInv
  <1>12. CASE fd # NoFd /\ Passes("async")
    <2>1. pc' = "async" /\ caller' = caller
      BY <1>12 DEF Passes
    <2>2. PcType'
      BY <1>2, <2>1 DEF StartInv, PcType, StartSteps
    <2>3. Progress'
      BY <1>1, <1>2, <1>12, <2>1 DEF Progress, Groups
    <2>4. FirstCall'
      BY <1>1, <1>2, <1>6, <1>7, <2>1 DEF FirstCall, Groups
    <2>5. SecondCall'
      BY <1>1, <1>2, <1>8, <1>9, <1>12, <2>1 DEF SecondCall, AfterFirst, Groups
    <2>6. ThirdCall'
      <3>1. caller = "scan_utils" => AfterSecond
        BY <1>2 DEF StartInv, ThirdCall
      <3> QED BY <1>1, <1>2, <1>10, <1>12, <2>1, <3>1 DEF ThirdCall, AfterSecond
    <2> QED BY <1>5, <2>2, <2>3, <2>4, <2>5, <2>6 DEF StartInv
  <1> QED BY <1>1, <1>11, <1>12

\* A new asynchronous socket.  In the third call it has none of two descriptors
\* that have a callback.
LEMMA SetupAsyncInv ==
    ASSUME StartInv, SetupAsync
    PROVE  StartInv'
  <1>1. PICK fd \in {NoFd, LowestFree} :
            /\ Reset(asyncFd, fd)
            /\ asyncFd' = fd
            /\ Fails \/ (fd # NoFd /\ Passes("discover"))
    BY DEF SetupAsync
  <1>2. /\ pc = "async" /\ ~started /\ started' = started
        /\ UNCHANGED <<family, syncFd, requests>> /\ member' = {}
        /\ caller \in {"main", "utils", "scan_utils"}
    BY <1>1 DEF SetupAsync, Fails, Passes, StartInv, Progress, StartSteps, PcType
  <1>3. FdType /\ syncFd \notin polled /\ syncFd # NoFd
    BY <1>2 DEF StartInv, SyncSocketUnwatched, Progress
  <1>4. /\ fd = NoFd \/ (fd \in Fds \ open /\ \A x \in Fds \ open : fd <= x)
        /\ NoFd \notin Fds
    BY <1>1, <1>3, LowestFreeFd DEF NoFd, Fds
  <1>5. FdType' /\ SyncSocketUnwatched' /\ StartedListens'
    BY <1>1, <1>2, <1>3, <1>4
       DEF Reset, FdType, SyncSocketUnwatched, StartedListens
  <1>6. caller = "main" => requests = {} /\ asyncFd = NoFd /\ syncFd = 3
    BY <1>2, <1>3 DEF StartInv, FirstCall
  <1>7. caller = "main" => fd \in {NoFd, 4}
    <2>1. CASE caller = "main" /\ fd # NoFd
      <3>1. open = {3} /\ 4 \in Fds
        BY <1>3, <1>6, <2>1 DEF FdType, Fds, NoFd
      <3>2. fd \in (3..9) \ {3} /\ fd <= 4
        BY <1>4, <2>1, <3>1 DEF Fds
      <3> QED BY <3>2
    <2> QED BY <2>1
  <1>8. /\ caller = "utils" =>
              requests = {} \/ (requests = {4} /\ syncFd = 5 /\ asyncFd = 4)
        /\ caller = "scan_utils" =>
              \/ \A a, b \in requests : a = b
              \/ requests = {3, 4} /\ syncFd = 4 /\ asyncFd = 3
    BY <1>2 DEF StartInv, SecondCall, ThirdCall
  <1>9. ASSUME requests = {4}, syncFd = 5, asyncFd = 4
        PROVE  fd \in {NoFd, 3}
    <2>1. open = {4, 5}
      BY <1>3, <1>9 DEF FdType, NoFd
    <2>2. fd # NoFd => fd \in 3..9 /\ fd <= 3
      BY <1>4, <2>1 DEF Fds
    <2> QED BY <2>2
  <1>10. ASSUME requests = {3, 4}, syncFd = 4, asyncFd = 3
         PROVE  fd \in {NoFd, 5}
    <2>1. open = {3, 4}
      BY <1>3, <1>10 DEF FdType, NoFd
    <2>2. fd # NoFd => fd \in (3..9) \ {3, 4} /\ fd <= 5
      BY <1>4, <2>1 DEF Fds
    <2> QED BY <2>2
  <1>11. CASE Fails
    <2>1. Returns(caller)
      BY <1>11 DEF Fails
    <2>2. PcType'
      BY <1>2, <2>1, ReturnType DEF StartInv, PcType, Running
    <2>3. /\ caller = "main" => AfterFirst'
          /\ caller = "utils" => AfterSecond'
      BY <1>2, <1>6, <1>8 DEF AfterFirst, AfterSecond
    <2> QED BY <1>2, <1>5, <2>1, <2>2, <2>3, ReturnInv
  <1>12. CASE fd # NoFd /\ Passes("discover")
    <2>1. pc' = "discover" /\ caller' = caller
      BY <1>12 DEF Passes
    <2>2. PcType'
      BY <1>2, <2>1 DEF StartInv, PcType, StartSteps
    <2>3. Progress'
      BY <1>1, <1>2, <1>3, <1>12, <2>1 DEF Progress, Groups
    <2>4. FirstCall'
      BY <1>1, <1>2, <1>6, <1>7, <2>1 DEF FirstCall, Groups
    <2>5. SecondCall'
      BY <1>1, <1>2, <1>8, <1>9, <1>12, <2>1 DEF SecondCall, Groups
    <2>6. ThirdCall'
      BY <1>1, <1>2, <1>8, <1>10, <1>12, <2>1 DEF ThirdCall
    <2> QED BY <1>5, <2>2, <2>3, <2>4, <2>5, <2>6 DEF StartInv
  <1> QED BY <1>1, <1>11, <1>12

\* The steps after the sockets: what they find and what a failure leaves.
LEMMA BeforeWatch ==
    ASSUME StartInv, pc \in {"discover", "watch"}
    PROVE  /\ ~started /\ FdType /\ SyncSocketUnwatched
           /\ syncFd # NoFd /\ asyncFd # NoFd
           /\ caller \in {"main", "utils", "scan_utils"}
           /\ caller = "main" => requests = {} /\ syncFd = 3 /\ asyncFd = 4
           /\ caller = "utils" =>
                 requests = {} \/ (requests = {4} /\ syncFd = 5 /\ asyncFd = 3)
           /\ caller = "scan_utils" =>
                 \/ \A a, b \in requests : a = b
                 \/ requests = {3, 4} /\ syncFd = 4 /\ asyncFd = 5
  BY DEF StartInv, PcType, FirstCall, SecondCall, ThirdCall, Progress, StartSteps

\* A step that fails before the loop watches the new socket.
LEMMA FailsBeforeWatch ==
    ASSUME StartInv, pc \in {"discover", "watch"}, Fails, family' \in BOOLEAN,
           UNCHANGED <<open, syncFd, asyncFd, requests, polled, member>>
    PROVE  StartInv'
  <1>1. Returns(caller) /\ started' = started
    BY DEF Fails
  <1>2. FdType' /\ SyncSocketUnwatched' /\ StartedListens'
    BY <1>1, BeforeWatch DEF FdType, SyncSocketUnwatched, StartedListens
  <1>3. PcType'
    BY <1>1, ReturnType DEF StartInv, PcType, Running
  <1>4. /\ caller = "main" => AfterFirst'
        /\ caller = "utils" => AfterSecond'
    BY BeforeWatch DEF AfterFirst, AfterSecond
  <1> QED BY <1>1, <1>2, <1>3, <1>4, BeforeWatch, ReturnInv

\* The family is found, or not.
LEMMA DiscoverInv ==
    ASSUME StartInv, DiscoverFamilyId
    PROVE  StartInv'
  <1>1. /\ pc = "discover" /\ family' \in BOOLEAN
        /\ UNCHANGED <<open, syncFd, asyncFd, requests, polled, member>>
    BY DEF DiscoverFamilyId, OnNewFamily, StartInv, PcType
  <1>2. CASE Fails
    BY <1>1, <1>2, FailsBeforeWatch
  <1>3. CASE Passes("watch")
    <2>1. pc' = "watch" /\ UNCHANGED <<caller, started>>
      BY <1>3 DEF Passes
    <2>2. PcType'
      BY <1>1, <2>1 DEF StartInv, PcType, StartSteps
    <2>3. FdType' /\ SyncSocketUnwatched' /\ StartedListens' /\ Progress'
      BY <1>1, <2>1, BeforeWatch
         DEF FdType, SyncSocketUnwatched, StartedListens, Progress, Groups
    <2>4. FirstCall' /\ SecondCall' /\ ThirdCall'
      BY <1>1, <2>1, BeforeWatch DEF FirstCall, SecondCall, ThirdCall, Groups
    <2> QED BY <2>2, <2>3, <2>4 DEF StartInv
  <1> QED BY <1>2, <1>3 DEF DiscoverFamilyId

\* The loop watches the new socket.  If its descriptor has the callback of a
\* closed one the epoll set is made anew of all open descriptors that have one,
\* of which the synchronous socket is none.
LEMMA WatchInv ==
    ASSUME StartInv, WatchSocket
    PROVE  StartInv'
  <1>1. pc = "watch" /\ UNCHANGED <<family, open, syncFd, asyncFd, member>>
    BY DEF WatchSocket
  <1>2. CASE UNCHANGED <<requests, polled>> /\ Fails
    BY <1>1, <1>2, FailsBeforeWatch DEF StartInv, PcType
  <1>3. CASE addFd(asyncFd) /\ Passes("reg")
    <2>1. pc' = "reg" /\ UNCHANGED <<caller, started>>
      BY <1>3 DEF Passes
    <2>2. PcType'
      BY <1>1, <2>1 DEF StartInv, PcType, StartSteps
    <2>3. FdType /\ syncFd # asyncFd /\ asyncFd \in Fds /\ asyncFd \in open
            /\ syncFd \notin polled /\ ~started
      BY <1>1, BeforeWatch DEF FdType, SyncSocketUnwatched
    <2>4. FdType' /\ asyncFd' \in polled'
      BY <1>1, <1>3, <2>3 DEF FdType, addFd
    <2>5. SyncSocketUnwatched'
      <3>1. CASE asyncFd \in requests \ polled
        <4>1. syncFd \notin requests
          BY <1>1, <2>3, <3>1, BeforeWatch
        <4> QED BY <1>1, <1>3, <3>1, <4>1 DEF addFd, SyncSocketUnwatched
      <3>2. CASE asyncFd \notin requests \ polled
        BY <1>1, <1>3, <2>3, <3>2 DEF addFd, SyncSocketUnwatched
      <3> QED BY <3>1, <3>2
    <2>6. StartedListens' /\ Progress'
      BY <1>1, <2>1, <2>3, <2>4, BeforeWatch
         DEF StartedListens, Progress, Watched, Groups
    <2>7. FirstCall'
      BY <1>1, <1>3, <2>1, BeforeWatch DEF FirstCall, AfterFirst, addFd
    <2>8. SecondCall'
      <3>1. caller = "utils" => AfterSecond'
        <4>1. CASE caller = "utils" /\ requests = {}
          BY <1>1, <1>3, <4>1 DEF addFd, AfterSecond
        <4>2. CASE requests = {4} /\ syncFd = 5 /\ asyncFd = 3
          BY <1>1, <1>3, <4>2 DEF addFd, AfterSecond
        <4> QED BY <1>1, <4>1, <4>2, BeforeWatch
      <3> QED BY <2>1, <3>1 DEF SecondCall
    <2>9. ThirdCall'
      BY <2>1 DEF ThirdCall
    <2> QED BY <2>2, <2>4, <2>5, <2>6, <2>7, <2>8, <2>9 DEF StartInv
  <1> QED BY <1>2, <1>3 DEF WatchSocket

\* The socket joins a group, and after the last one Start succeeds.
LEMMA SubscribeInv ==
    ASSUME StartInv, SubscribeToEvents
    PROVE  StartInv'
  <1>1. /\ pc \in Groups
        /\ UNCHANGED <<family, open, syncFd, asyncFd, requests, polled>>
    BY DEF SubscribeToEvents
  <1>2. /\ ~started /\ Watched /\ syncFd # NoFd /\ asyncFd # NoFd
        /\ FdType /\ SyncSocketUnwatched /\ PcType
        /\ caller = "main" => AfterFirst
        /\ caller = "main" => syncFd \in {3, NoFd} /\ asyncFd \in {4, NoFd}
        /\ caller = "utils" => AfterSecond
        /\ caller \in {"main", "utils", "scan_utils"}
        /\ pc \in {"scan", "mlme"} => "reg" \in member
        /\ pc = "mlme" => "scan" \in member
    BY <1>1 DEF StartInv, PcType, Progress, StartSteps, Groups, FirstCall, SecondCall
  <1>3. FdType' /\ SyncSocketUnwatched' /\ Watched'
    BY <1>1, <1>2 DEF FdType, SyncSocketUnwatched, Watched
  <1>4. /\ caller = "main" => AfterFirst'
        /\ caller = "utils" => AfterSecond'
    BY <1>1, <1>2 DEF AfterFirst, AfterSecond
  <1>5. CASE member' = member /\ Fails
    <2>1. Returns(caller) /\ started' = started
      BY <1>5 DEF Fails
    <2>2. PcType' /\ StartedListens'
      BY <1>1, <1>2, <1>5, <2>1, ReturnType DEF PcType, Running, StartedListens
    <2> QED BY <1>2, <1>3, <1>4, <2>1, <2>2, ReturnInv
  <1>6. CASE /\ member' = member \cup {pc}
             /\ pc = "mlme" /\ started' = TRUE /\ Returns(caller)
    <2>1. member' = Groups
      BY <1>2, <1>6 DEF PcType, Groups
    <2>2. PcType'
      BY <1>1, <1>2, <1>6, <2>1, ReturnType DEF PcType, Running
    <2>3. StartedListens'
      BY <1>1, <1>2, <1>3, <2>1 DEF StartedListens
    <2> QED BY <1>2, <1>3, <1>4, <1>6, <2>2, <2>3, ReturnInv
  <1>7. ASSUME NEW next \in {"scan", "mlme"}, member' = member \cup {pc},
               next = "mlme" => pc = "scan", next = "scan" => pc = "reg",
               Passes(next)
        PROVE  StartInv'
    <2>1. pc' = next /\ UNCHANGED <<caller, started>>
      BY <1>7 DEF Passes
    <2>2. PcType'
      BY <1>1, <1>2, <1>7, <2>1 DEF PcType, StartSteps, Groups
    <2>3. Progress' /\ StartedListens'
      BY <1>1, <1>2, <1>3, <1>7, <2>1 DEF Progress, StartedListens, Groups
    <2>4. FirstCall' /\ SecondCall' /\ ThirdCall'
      BY <1>1, <1>2, <1>4, <2>1 DEF FirstCall, SecondCall, ThirdCall
    <2> QED BY <1>3, <2>2, <2>3, <2>4 DEF StartInv
  <1> QED BY <1>5, <1>6, <1>7 DEF SubscribeToEvents, Groups

\* The end of the process changes none of it.
LEMMA EndInv ==
    ASSUME StartInv, pc' \in {"exited", "crashed"},
           UNCHANGED <<caller, started, family, open, syncFd, asyncFd, requests,
                       polled, member>>
    PROVE  StartInv'
  <1>1. PcType' /\ FdType'
    BY DEF StartInv, PcType, FdType, Running
  <1>2. SyncSocketUnwatched' /\ StartedListens' /\ Progress'
    BY DEF StartInv, SyncSocketUnwatched, StartedListens, Watched, Progress,
        StartSteps, Groups
  <1>3. SecondCall' /\ ThirdCall'
    BY DEF SecondCall, ThirdCall, Groups
  <1>4. FirstCall'
    BY DEF StartInv, FirstCall, Groups
  <1> QED BY <1>1, <1>2, <1>3, <1>4 DEF StartInv

\* No other step opens, closes or watches a socket.
LEMMA StartUntouched ==
    ASSUME Loop \/ Signal \/ Framework \/ Kernel, ~Poll
    PROVE  UNCHANGED startVars
  <1>1. CASE Loop
    BY <1>1 DEF Loop, ReadError, ReceivePacket, RunHandler, MeetGarbage, RunTask
  <1>2. CASE Signal
    BY <1>2 DEF Signal
  <1>3. CASE Framework
    BY <1>3 DEF Framework, Call, createApInterface, tearDownApInterface,
        registerCallback, registerWificondEventCallback,
        unregisterWificondEventCallback
  <1>4. CASE Kernel
    BY <1>4 DEF Kernel, KernelStation, KernelChannel, KernelRegulatory, Multicast
  <1> QED BY <1>1, <1>2, <1>3, <1>4

\* Every step keeps StartInv.
LEMMA StartStep == StartInv /\ [Next]_vars => StartInv'
  <1> SUFFICES ASSUME StartInv, [Next]_vars PROVE StartInv'
    OBVIOUS
  <1>1. CASE Constructor
    BY <1>1, ConstructorInv
  <1>2. CASE Start
    <2>1. CASE InterceptorDied
      BY <2>1, EndInv DEF InterceptorDied
    <2> QED BY <1>2, <2>1, SetupSyncInv, SetupAsyncInv, DiscoverInv, WatchInv,
               SubscribeInv DEF Start
  <1>3. CASE Poll
    BY <1>3, EndInv DEF Poll
  <1>4. CASE UNCHANGED startVars
    <2>1. UNCHANGED <<pc, caller, started, family, open, syncFd, asyncFd, requests,
                      polled, member>>
      BY <1>4 DEF startVars
    <2> QED BY <2>1 DEF StartInv, PcType, FdType, FirstCall, SecondCall, ThirdCall,
               AfterFirst, AfterSecond, Progress, SyncSocketUnwatched,
               StartedListens, Watched
  <1> QED BY <1>1, <1>2, <1>3, <1>4, StartUntouched DEF Next, vars

\* Before the first call there are no sockets.
LEMMA InitStartInv == Init => StartInv
  <1> SUFFICES ASSUME Init PROVE StartInv
    OBVIOUS
  <1>1. PcType /\ FdType
    BY DEF Init, PcType, FdType, StartSteps, NoFd
  <1>2. FirstCall /\ SecondCall /\ ThirdCall
    BY DEF Init, FirstCall, SecondCall, ThirdCall, Groups
  <1>3. Progress /\ SyncSocketUnwatched /\ StartedListens
    BY DEF Init, Progress, SyncSocketUnwatched, StartedListens, Groups
  <1> QED BY <1>1, <1>2, <1>3 DEF StartInv

\* Sockets, callbacks and the epoll set fit each other in every reachable state,
\* after any failures of any of the calls of Start.
THEOREM StartInvariance == Spec => []StartInv
  BY InitStartInv, StartStep, PTL DEF Spec

\* NetlinkManager says it is started only if its present asynchronous socket is
\* watched and a member of the three groups.
THEOREM StartedMeansListening == Spec => []StartedListens
  <1>1. StartInv => StartedListens
    BY DEF StartInv
  <1> QED BY StartInvariance, <1>1, PTL

\* The loop never watches the synchronous socket, though Start may be called
\* three times and the Looper keeps the callbacks of descriptors that are used
\* again.
THEOREM SyncSocketIsUnwatched == Spec => []SyncSocketUnwatched
  <1>1. StartInv => SyncSocketUnwatched
    BY DEF StartInv
  <1> QED BY StartInvariance, <1>1, PTL

-----------------------------------------------------------------------------
(***************************************************************************)
(* Events.  The messages that are still to be handled are those of the     *)
(* buffer, from `at' on, and those of the datagrams in the queue: the      *)
(* k-th message of the d-th datagram, where the buffer is number 0.        *)
(***************************************************************************)

EventType ==
    [cmd: {"new_station", "del_station"}, arg: Stations, n: Nat]
        \cup [cmd: {"ch_switch"}, arg: Channels, n: Nat]
        \cup [cmd: {"reg"}, arg: RegMessages, n: Nat]
        \cup {Garbage}

Unread(d, k) ==
    \/ d = 0 /\ k \in at..Len(buffer)
    \/ d \in 1..Len(queue) /\ k \in 1..Len(queue[d])

Msg(d, k) == IF d = 0 THEN buffer[k] ELSE queue[d][k]

\* The message m is still to be handled.
Waits(d, k, m) == Unread(d, k) /\ Msg(d, k) = m

\* What a message is about: a station, the channel or the country.
Subject(m) ==
    CASE m.cmd \in {"new_station", "del_station"} -> <<"station", m.arg>>
      [] m.cmd = "ch_switch" -> <<"channel", 0>>
      [] m.cmd = "reg" -> <<"country", 0>>

Subjects == {<<"station", s>> : s \in Stations}
                \cup {<<"channel", 0>>, <<"country", 0>>}

PartOfSubject(u) == IF u[1] = "country" THEN "reg" ELSE "ap"

\* A message says what is so.
IsSo(m) ==
    CASE m.cmd = "new_station" -> m.arg \in kernel.stations
      [] m.cmd = "del_station" -> m.arg \notin kernel.stations
      [] m.cmd = "ch_switch" -> kernel.channel = m.arg
      [] m.cmd = "reg" -> kernel.country = m.arg[1]

\* The framework was told what is so.
Told(u) ==
    CASE u[1] = "station" -> u[2] \in view.stations <=> u[2] \in kernel.stations
      [] u[1] = "channel" ->
            kernel.channel # <<>> =>
               view.channel = <<kernel.channel[1], getBandwidthType(kernel.channel[2])>>
      [] u[1] = "country" -> view.country = kernel.country

Listens(u) == IF u[1] = "country" THEN regCb ELSE ap = "heard"

\* No reply has overwritten what is still to be handled.
Undamaged == \A d, k \in Nat : ~Waits(d, k, Garbage)

Pending(u) == \E d, k \in Nat, m \in EventType : Waits(d, k, m) /\ Subject(m) = u

\* A message about u comes after the k-th of the d-th datagram.
Follows(d, k, u) ==
    \E e, l \in Nat, m \in EventType :
        /\ Waits(e, l, m) /\ (e > d \/ (e = d /\ l > k))
        /\ Subject(m) = u

\* Of the messages still to be handled, the last about each subject is true.
LastIsSo ==
    Undamaged =>
        \A d, k \in Nat, m \in EventType : Waits(d, k, m) =>
            \/ IsSo(m)
            \/ PartOfSubject(Subject(m)) \in missed
            \/ Follows(d, k, Subject(m))

\* If there is none, the framework knows.
Known ==
    Undamaged =>
        \A u \in Subjects :
            Listens(u) /\ PartOfSubject(u) \notin missed /\ ~Pending(u) => Told(u)

QueueType ==
    /\ queue \in Seq(Seq(EventType))
    /\ buffer \in Seq(EventType)
    /\ at \in 1..Len(buffer) \/ (at = 1 /\ buffer = <<>>)

ViewType ==
    /\ DOMAIN kernel = {"stations", "channel", "country"}
    /\ DOMAIN view = {"stations", "channel", "country"}
    /\ kernel.stations \subseteq Stations
    /\ view.stations \subseteq Stations
    /\ missed \subseteq Parts

\* Before the loop the framework cannot call and nothing is read.
LoopFirst ==
    pc \in StartSteps \cup {"ctor"} => buffer = <<>> /\ ap = "none" /\ ~regCb

EventInv ==
    /\ QueueType /\ ViewType /\ LoopFirst
    /\ sent \in Nat
    /\ LastIsSo /\ Known

\* A message that is not damaged is about one of the subjects, and says
\* something about it.
LEMMA MessageKinds ==
    ASSUME NEW m \in EventType, m # Garbage
    PROVE  /\ m.cmd \in {"new_station", "del_station", "ch_switch", "reg"}
           /\ m.cmd \in {"new_station", "del_station"} =>
                 m.arg \in Stations /\ Subject(m) = <<"station", m.arg>>
           /\ m.cmd = "ch_switch" =>
                 m.arg \in Channels /\ Subject(m) = <<"channel", 0>>
           /\ m.cmd = "reg" =>
                 m.arg \in RegMessages /\ Subject(m) = <<"country", 0>>
           /\ Subject(m) \in Subjects
  <1>1. \/ m \in [cmd: {"new_station", "del_station"}, arg: Stations, n: Nat]
        \/ m \in [cmd: {"ch_switch"}, arg: Channels, n: Nat]
        \/ m \in [cmd: {"reg"}, arg: RegMessages, n: Nat]
    BY DEF EventType
  <1>2. CASE m \in [cmd: {"new_station", "del_station"}, arg: Stations, n: Nat]
    BY <1>2 DEF Subject, Subjects
  <1>3. CASE m \in [cmd: {"ch_switch"}, arg: Channels, n: Nat]
    BY <1>3 DEF Subject, Subjects
  <1>4. CASE m \in [cmd: {"reg"}, arg: RegMessages, n: Nat]
    BY <1>4 DEF Subject, Subjects
  <1> QED BY <1>1, <1>2, <1>3, <1>4

\* The unread messages are messages.
LEMMA UnreadType ==
    ASSUME QueueType, NEW d \in Nat, NEW k \in Nat, Unread(d, k)
    PROVE  Msg(d, k) \in EventType
  <1>1. CASE d = 0
    BY <1>1 DEF QueueType, Unread, Msg
  <1>2. CASE d # 0
    <2>1. d \in 1..Len(queue) /\ k \in 1..Len(queue[d])
      BY <1>2 DEF Unread
    <2>2. queue[d] \in Seq(EventType)
      BY <2>1 DEF QueueType
    <2> QED BY <1>2, <2>1, <2>2 DEF Msg
  <1> QED BY <1>1, <1>2

\* The kernel puts a message behind all others, in a datagram of its own or in
\* the last one.
LEMMA Enqueued ==
    ASSUME QueueType, NEW m \in EventType, UNCHANGED <<buffer, at>>,
           \/ queue' = Append(queue, <<m>>)
           \/ queue # <<>> /\ queue' = [queue EXCEPT ![Len(queue)] = Append(@, m)]
    PROVE  /\ queue' \in Seq(Seq(EventType))
           /\ \E e, l \in Nat :
                 /\ \A d, k \in Nat, x \in EventType :
                       Waits(d, k, x)' <=>
                           Waits(d, k, x) \/ (d = e /\ k = l /\ x = m)
                 /\ \A d, k \in Nat, x \in EventType :
                       Waits(d, k, x) => e > d \/ (e = d /\ l > k)
  <1>0. queue \in Seq(Seq(EventType)) /\ Len(queue) \in Nat
    BY DEF QueueType
  <1>1. PICK n \in Nat : n = Len(queue)
    BY <1>0
  <1>2. CASE queue' = Append(queue, <<m>>)
    <2>1. <<m>> \in Seq(EventType) /\ Len(<<m>>) = 1 /\ <<m>>[1] = m
      OBVIOUS
    <2>2. /\ queue' \in Seq(Seq(EventType))
          /\ Len(queue') = n + 1
          /\ queue'[n + 1] = <<m>>
          /\ \A d \in 1..n : queue'[d] = queue[d]
      BY <1>0, <1>1, <1>2, <2>1
    <2>3. \A d, k \in Nat :
              Unread(d, k)' <=> Unread(d, k) \/ (d = n + 1 /\ k = 1)
      <3> TAKE d, k \in Nat
      <3>1. CASE d = n + 1
        <4>1. queue'[d] = <<m>> /\ d \in 1..Len(queue') /\ d # 0
                /\ d \notin 1..Len(queue)
          BY <1>1, <2>2, <3>1
        <4>2. Len(queue'[d]) = 1
          BY <2>1, <4>1
        <4>3. ~Unread(d, k)
          BY <4>1 DEF Unread
        <4>4. Unread(d, k)' <=> k \in 1..1
          BY <4>1, <4>2 DEF Unread
        <4> QED BY <3>1, <4>3, <4>4
      <3>2. CASE d \in 1..n
        BY <1>1, <2>2, <3>2 DEF Unread
      <3>3. CASE d \notin 1..(n + 1)
        BY <1>1, <2>2, <3>3 DEF Unread
      <3> QED BY <3>1, <3>2, <3>3
    <2>4. \A d, k \in Nat : Unread(d, k) => Msg(d, k)' = Msg(d, k) /\ n + 1 > d
      BY <1>1, <2>2 DEF Unread, Msg
    <2>5. Msg(n + 1, 1)' = m
      BY <1>1, <2>1, <2>2 DEF Msg
    <2> n + 1 \in Nat /\ 1 \in Nat
      BY <1>1
    <2>7. ASSUME NEW d \in Nat, NEW k \in Nat, NEW x \in EventType
          PROVE  /\ Waits(d, k, x)' <=>
                        Waits(d, k, x) \/ (d = n + 1 /\ k = 1 /\ x = m)
                 /\ Waits(d, k, x) => n + 1 > d
      <3>1. CASE Unread(d, k)
        <4>1. ~(d = n + 1 /\ k = 1)
          BY <1>1, <2>4, <3>1
        <4> QED BY <2>3, <2>4, <3>1, <4>1 DEF Waits
      <3>2. CASE ~Unread(d, k)
        BY <2>3, <2>5, <3>2 DEF Waits
      <3> QED BY <3>1, <3>2
    <2>9. \E e, l \in Nat :
              /\ \A d, k \in Nat, x \in EventType :
                    Waits(d, k, x)' <=>
                        Waits(d, k, x) \/ (d = e /\ k = l /\ x = m)
              /\ \A d, k \in Nat, x \in EventType :
                    Waits(d, k, x) => e > d \/ (e = d /\ l > k)
      <3> WITNESS n + 1 \in Nat, 1 \in Nat
      <3> QED BY <2>7
    <2> QED BY <2>2, <2>9
  <1>3. CASE queue # <<>> /\ queue' = [queue EXCEPT ![Len(queue)] = Append(@, m)]
    <2>1. n \in 1..n /\ queue[n] \in Seq(EventType) /\ Len(queue[n]) \in Nat
      BY <1>0, <1>1, <1>3
    <2>0. PICK c \in Nat : c = Len(queue[n])
      BY <2>1
    <2>2. /\ Append(queue[n], m) \in Seq(EventType)
          /\ Len(Append(queue[n], m)) = c + 1
          /\ Append(queue[n], m)[c + 1] = m
          /\ \A k \in 1..c : Append(queue[n], m)[k] = queue[n][k]
      BY <2>0, <2>1
    <2>3. /\ queue' \in Seq(Seq(EventType))
          /\ Len(queue') = n
          /\ queue'[n] = Append(queue[n], m)
          /\ \A d \in 1..n : d # n => queue'[d] = queue[d]
      BY <1>0, <1>1, <1>3, <2>1, <2>2
    <2> n \in Nat /\ c + 1 \in Nat
      BY <1>1, <2>0
    <2>5. \A d, k \in Nat :
              Unread(d, k)' <=> Unread(d, k) \/ (d = n /\ k = c + 1)
      BY <1>1, <2>0, <2>1, <2>2, <2>3 DEF Unread
    <2>6. \A d, k \in Nat : Unread(d, k) =>
              Msg(d, k)' = Msg(d, k) /\ (n > d \/ (n = d /\ c + 1 > k))
      <3> TAKE d, k \in Nat
      <3> HAVE Unread(d, k)
      <3>1. CASE d = 0
        BY <1>1, <2>1, <3>1 DEF Msg
      <3>2. CASE d \in 1..n /\ d # n
        BY <1>1, <2>3, <3>2 DEF Msg
      <3>3. CASE d = n /\ d # 0
        <4>1. k \in 1..c
          BY <2>0, <3>3 DEF Unread
        <4>2. Msg(d, k)' = queue'[n][k] /\ Msg(d, k) = queue[n][k]
          BY <3>3 DEF Msg
        <4>3. queue'[n][k] = Append(queue[n], m)[k]
          BY <2>3
        <4>4. Append(queue[n], m)[k] = queue[n][k]
          BY <2>2, <4>1
        <4>5. c + 1 > k
          BY <4>1
        <4> QED BY <3>3, <4>2, <4>3, <4>4, <4>5
      <3> QED BY <1>1, <3>1, <3>2, <3>3 DEF Unread
    <2>7. Msg(n, c + 1)' = m
      BY <2>1, <2>2, <2>3 DEF Msg
    <2>8. ASSUME NEW d \in Nat, NEW k \in Nat, NEW x \in EventType
          PROVE  /\ Waits(d, k, x)' <=>
                        Waits(d, k, x) \/ (d = n /\ k = c + 1 /\ x = m)
                 /\ Waits(d, k, x) => n > d \/ (n = d /\ c + 1 > k)
      <3>1. CASE Unread(d, k)
        <4>1. ~(d = n /\ k = c + 1)
          BY <1>1, <2>0, <2>6, <3>1
        <4> QED BY <2>5, <2>6, <3>1, <4>1 DEF Waits
      <3>2. CASE ~Unread(d, k)
        BY <2>5, <2>7, <3>2 DEF Waits
      <3> QED BY <3>1, <3>2
    <2>9. \E e, l \in Nat :
              /\ \A d, k \in Nat, x \in EventType :
                    Waits(d, k, x)' <=>
                        Waits(d, k, x) \/ (d = e /\ k = l /\ x = m)
              /\ \A d, k \in Nat, x \in EventType :
                    Waits(d, k, x) => e > d \/ (e = d /\ l > k)
      <3>1. PICK l \in Nat : l = c + 1
        OBVIOUS
      <3> WITNESS n \in Nat, l \in Nat
      <3> QED BY <2>8, <3>1
    <2> QED BY <2>3, <2>9
  <1> QED BY <1>2, <1>3

\* The kernel's state changes as the message m says and in nothing else.
Reports(m) ==
    /\ IsSo(m)'
    /\ \A e \in EventType :
          e # Garbage /\ Subject(e) # Subject(m) /\ IsSo(e) => IsSo(e)'
    /\ \A u \in Subjects : u # Subject(m) /\ Told(u) => Told(u)'
    /\ DOMAIN kernel' = {"stations", "channel", "country"}
    /\ kernel'.stations \subseteq Stations

\* A station comes or goes.
LEMMA StationReported ==
    ASSUME ViewType, view' = view, NEW s \in Stations, NEW m \in EventType,
           m # Garbage, m.arg = s,
           \/ /\ m.cmd = "del_station"
              /\ kernel' = [kernel EXCEPT !.stations = @ \ {s}]
           \/ /\ m.cmd = "new_station"
              /\ kernel' = [kernel EXCEPT !.stations = @ \cup {s}]
    PROVE  Reports(m)
  <1>1. /\ DOMAIN kernel' = {"stations", "channel", "country"}
        /\ kernel'.channel = kernel.channel /\ kernel'.country = kernel.country
        /\ kernel'.stations = IF m.cmd = "new_station" THEN kernel.stations \cup {s}
                              ELSE kernel.stations \ {s}
    BY DEF ViewType
  <1>2. Subject(m) = <<"station", s>>
    BY MessageKinds
  <1>3. IsSo(m)'
    BY <1>1 DEF IsSo
  <1>4. ASSUME NEW e \in EventType, e # Garbage, Subject(e) # Subject(m), IsSo(e)
        PROVE  IsSo(e)'
    <2>1. CASE e.cmd \in {"new_station", "del_station"}
      <3>1. e.arg # s
        BY <1>2, <1>4, <2>1, MessageKinds
      <3> QED BY <1>1, <1>4, <2>1, <3>1 DEF IsSo
    <2>2. CASE e.cmd \in {"ch_switch", "reg"}
      BY <1>1, <1>4, <2>2 DEF IsSo
    <2> QED BY <1>4, <2>1, <2>2, MessageKinds
  <1>5. ASSUME NEW u \in Subjects, u # Subject(m), Told(u)
        PROVE  Told(u)'
    <2>1. CASE \E t \in Stations : u = <<"station", t>>
      <3>1. PICK t \in Stations : u = <<"station", t>>
        BY <2>1
      <3>2. t # s /\ u[1] = "station" /\ u[2] = t
        BY <1>2, <1>5, <3>1
      <3> QED BY <1>1, <1>5, <3>2 DEF Told
    <2>2. CASE u = <<"channel", 0>>
      BY <1>1, <1>5, <2>2 DEF Told
    <2>3. CASE u = <<"country", 0>>
      BY <1>1, <1>5, <2>3 DEF Told
    <2> QED BY <2>1, <2>2, <2>3 DEF Subjects
  <1>6. kernel'.stations \subseteq Stations
    BY <1>1 DEF ViewType
  <1> QED BY <1>1, <1>3, <1>4, <1>5, <1>6 DEF Reports

\* The channel or the country changes.
LEMMA OtherReported ==
    ASSUME ViewType, view' = view, NEW m \in EventType, m # Garbage,
           \/ /\ m.cmd = "ch_switch"
              /\ kernel' = [kernel EXCEPT !.channel = m.arg]
           \/ /\ m.cmd = "reg"
              /\ kernel' = [kernel EXCEPT !.country = m.arg[1]]
    PROVE  Reports(m)
  <1>1. /\ DOMAIN kernel' = {"stations", "channel", "country"}
        /\ kernel'.stations = kernel.stations
        /\ m.cmd = "ch_switch" => /\ kernel'.channel = m.arg
                                  /\ kernel'.country = kernel.country
        /\ m.cmd = "reg" => /\ kernel'.channel = kernel.channel
                            /\ kernel'.country = m.arg[1]
    BY DEF ViewType
  <1>2. Subject(m) = IF m.cmd = "reg" THEN <<"country", 0>> ELSE <<"channel", 0>>
    BY MessageKinds
  <1>3. IsSo(m)'
    BY <1>1 DEF IsSo
  <1>4. ASSUME NEW e \in EventType, e # Garbage, Subject(e) # Subject(m), IsSo(e)
        PROVE  IsSo(e)'
    <2>1. CASE e.cmd \in {"new_station", "del_station"}
      BY <1>1, <1>4, <2>1 DEF IsSo
    <2>2. CASE e.cmd = "ch_switch"
      <3>1. m.cmd = "reg"
        BY <1>2, <1>4, <2>2, MessageKinds
      <3> QED BY <1>1, <1>4, <2>2, <3>1 DEF IsSo
    <2>3. CASE e.cmd = "reg"
      <3>1. m.cmd = "ch_switch"
        BY <1>2, <1>4, <2>3, MessageKinds
      <3> QED BY <1>1, <1>4, <2>3, <3>1 DEF IsSo
    <2> QED BY <1>4, <2>1, <2>2, <2>3, MessageKinds
  <1>5. ASSUME NEW u \in Subjects, u # Subject(m), Told(u)
        PROVE  Told(u)'
    <2>1. CASE \E t \in Stations : u = <<"station", t>>
      BY <1>1, <1>5, <2>1 DEF Told
    <2>2. CASE u = <<"channel", 0>>
      <3>1. m.cmd = "reg"
        BY <1>2, <1>5, <2>2
      <3> QED BY <1>1, <1>5, <2>2, <3>1 DEF Told
    <2>3. CASE u = <<"country", 0>>
      <3>1. m.cmd = "ch_switch"
        BY <1>2, <1>5, <2>3
      <3> QED BY <1>1, <1>5, <2>3, <3>1 DEF Told
    <2> QED BY <2>1, <2>2, <2>3 DEF Subjects
  <1>6. kernel'.stations \subseteq Stations
    BY <1>1 DEF ViewType
  <1> QED BY <1>1, <1>3, <1>4, <1>5, <1>6 DEF Reports

\* A message that is put behind all others: of those about its subject it is now
\* the last.
LEMMA NewMessage ==
    ASSUME LastIsSo, Known, NEW m \in EventType, m # Garbage, Reports(m),
           NEW e \in Nat, NEW l \in Nat,
           \A d, k \in Nat, x \in EventType :
               Waits(d, k, x)' <=> Waits(d, k, x) \/ (d = e /\ k = l /\ x = m),
           \A d, k \in Nat, x \in EventType :
               Waits(d, k, x) => e > d \/ (e = d /\ l > k),
           UNCHANGED <<ap, regCb, missed>>
    PROVE  LastIsSo' /\ Known'
  <1>1. Undamaged' => Undamaged
    BY DEF Undamaged, EventType
  <1>2. Waits(e, l, m)'
    OBVIOUS
  <1>3. ASSUME NEW d \in Nat, NEW k \in Nat, NEW u, Follows(d, k, u)
        PROVE  Follows(d, k, u)'
    BY <1>3 DEF Follows
  <1>4. ASSUME Undamaged, NEW d \in Nat, NEW k \in Nat, NEW x \in EventType,
               Waits(d, k, x)'
        PROVE  \/ IsSo(x)'
               \/ PartOfSubject(Subject(x)) \in missed
               \/ Follows(d, k, Subject(x))'
    <2>1. CASE x = m /\ d = e /\ k = l
      BY <2>1 DEF Reports
    <2>2. CASE Waits(d, k, x)
      <3>1. e > d \/ (e = d /\ l > k)
        BY <2>2
      <3>2. x # Garbage
        BY <1>4, <2>2 DEF Undamaged
      <3>3. CASE Subject(x) = Subject(m)
        BY <1>2, <3>1, <3>3 DEF Follows
      <3>4. CASE Subject(x) # Subject(m)
        <4>1. \/ IsSo(x)
              \/ PartOfSubject(Subject(x)) \in missed
              \/ Follows(d, k, Subject(x))
          BY <1>4, <2>2 DEF LastIsSo
        <4>2. IsSo(x) => IsSo(x)'
          BY <3>2, <3>4 DEF Reports
        <4> QED BY <1>3, <4>1, <4>2
      <3> QED BY <3>3, <3>4
    <2> QED BY <1>4, <2>1, <2>2
  <1>5. LastIsSo'
    BY <1>1, <1>4 DEF LastIsSo
  <1>6. Known'
    <2>1. SUFFICES ASSUME Undamaged, NEW u \in Subjects, Listens(u),
                          PartOfSubject(u) \notin missed, ~Pending(u)'
                   PROVE  Told(u)'
      BY <1>1 DEF Known, Listens
    <2>2. u # Subject(m)
      BY <1>2, <2>1 DEF Pending
    <2>3. ~Pending(u)
      BY <2>1 DEF Pending
    <2>4. Told(u)
      BY <2>1, <2>3 DEF Known
    <2> QED BY <2>2, <2>4 DEF Reports
  <1> QED BY <1>5, <1>6

\* A message that is dropped is missed.
LEMMA LostMessage ==
    ASSUME LastIsSo, Known, NEW m \in EventType, m # Garbage, Reports(m),
           UNCHANGED <<queue, buffer, at, ap, regCb>>,
           missed \subseteq missed', PartOfSubject(Subject(m)) \in missed'
    PROVE  LastIsSo' /\ Known'
  <1>1. \A d, k \in Nat, x \in EventType : Waits(d, k, x)' <=> Waits(d, k, x)
    BY DEF Waits, Unread, Msg
  <1>2. Undamaged' => Undamaged
    BY <1>1 DEF Undamaged, EventType
  <1>3. ASSUME NEW d \in Nat, NEW k \in Nat, NEW u, Follows(d, k, u)
        PROVE  Follows(d, k, u)'
    BY <1>1, <1>3 DEF Follows
  <1>4. ASSUME Undamaged, NEW d \in Nat, NEW k \in Nat, NEW x \in EventType,
               Waits(d, k, x)
        PROVE  \/ IsSo(x)'
               \/ PartOfSubject(Subject(x)) \in missed'
               \/ Follows(d, k, Subject(x))'
    <2>1. x # Garbage
      BY <1>4 DEF Undamaged
    <2>2. \/ IsSo(x)
          \/ PartOfSubject(Subject(x)) \in missed
          \/ Follows(d, k, Subject(x))
      BY <1>4 DEF LastIsSo
    <2>3. Subject(x) # Subject(m) /\ IsSo(x) => IsSo(x)'
      BY <2>1 DEF Reports
    <2> QED BY <1>3, <2>2, <2>3
  <1>5. LastIsSo'
    BY <1>1, <1>2, <1>4 DEF LastIsSo
  <1>6. Known'
    <2>1. SUFFICES ASSUME Undamaged, NEW u \in Subjects, Listens(u),
                          PartOfSubject(u) \notin missed', ~Pending(u)'
                   PROVE  Told(u)'
      BY <1>2 DEF Known, Listens
    <2>2. u # Subject(m)
      BY <2>1
    <2>3. ~Pending(u)
      BY <1>1, <2>1 DEF Pending
    <2>4. Told(u)
      BY <2>1, <2>3 DEF Known
    <2> QED BY <2>2, <2>4 DEF Reports
  <1> QED BY <1>5, <1>6

\* The kernel has an event: it is queued, or dropped and missed.
LEMMA EventSent ==
    ASSUME EventInv, NEW cmd, NEW arg, Multicast(cmd, arg), NEW m \in EventType,
           m = [cmd |-> cmd, arg |-> arg, n |-> sent + 1],
           m # Garbage, Reports(m)
    PROVE  EventInv'
  <1>1. /\ UNCHANGED <<pc, buffer, at, ap, regCb, view>>
        /\ sent' = sent + 1
        /\ \/ queue' = queue /\ missed' = missed \cup PartOf(cmd)
           \/ /\ \/ queue' = Append(queue, <<m>>)
                 \/ queue # <<>> /\ queue' = [queue EXCEPT ![Len(queue)] = Append(@, m)]
              /\ missed' = missed
    BY DEF Multicast, Misses, startVars, bufferVars
  <1>2. PartOfSubject(Subject(m)) \in PartOf(cmd) /\ PartOf(cmd) \subseteq Parts
    <2>1. m.cmd = cmd
      OBVIOUS
    <2> QED BY <2>1, MessageKinds DEF PartOfSubject, PartOf, Parts
  <1>3. LoopFirst' /\ sent' \in Nat
    BY <1>1 DEF EventInv, LoopFirst
  <1>4. CASE queue' = queue /\ missed' = missed \cup PartOf(cmd)
    <2>1. LastIsSo' /\ Known'
      BY <1>1, <1>2, <1>4, LostMessage DEF EventInv
    <2>2. QueueType' /\ ViewType'
      BY <1>1, <1>2, <1>4 DEF EventInv, QueueType, ViewType, Reports
    <2> QED BY <1>3, <2>1, <2>2 DEF EventInv
  <1>5. CASE missed' = missed /\ \/ queue' = Append(queue, <<m>>)
                                 \/ /\ queue # <<>>
                                    /\ queue' = [queue EXCEPT ![Len(queue)] = Append(@, m)]
    <2>1. /\ queue' \in Seq(Seq(EventType))
          /\ \E e, l \in Nat :
                /\ \A d, k \in Nat, x \in EventType :
                      Waits(d, k, x)' <=>
                          Waits(d, k, x) \/ (d = e /\ k = l /\ x = m)
                /\ \A d, k \in Nat, x \in EventType :
                      Waits(d, k, x) => e > d \/ (e = d /\ l > k)
      BY <1>1, <1>5, Enqueued DEF EventInv
    <2>2. LastIsSo' /\ Known'
      BY <1>1, <1>5, <2>1, NewMessage DEF EventInv
    <2>3. QueueType' /\ ViewType'
      BY <1>1, <1>5, <2>1 DEF EventInv, QueueType, ViewType, Reports
    <2> QED BY <1>3, <2>2, <2>3 DEF EventInv
  <1> QED BY <1>1, <1>4, <1>5

LEMMA KernelEvent ==
    ASSUME EventInv, Kernel
    PROVE  EventInv'
  <1>0. sent + 1 \in Nat /\ ViewType
    BY DEF EventInv
  <1>1. CASE KernelStation
    <2>1. PICK s \in Stations :
              \/ /\ kernel' = [kernel EXCEPT !.stations = @ \ {s}]
                 /\ Multicast("del_station", s)
              \/ /\ kernel' = [kernel EXCEPT !.stations = @ \cup {s}]
                 /\ Multicast("new_station", s)
      BY <1>1 DEF KernelStation
    <2>2. view' = view
      BY <2>1 DEF Multicast
    <2>3. CASE /\ kernel' = [kernel EXCEPT !.stations = @ \ {s}]
               /\ Multicast("del_station", s)
      <3>1. PICK m : m = [cmd |-> "del_station", arg |-> s, n |-> sent + 1]
        OBVIOUS
      <3>2. m \in EventType /\ m # Garbage /\ m.cmd = "del_station" /\ m.arg = s
        BY <1>0, <3>1 DEF EventType, Garbage
      <3>3. Reports(m)
        BY <1>0, <2>2, <2>3, <3>2, StationReported
      <3> QED BY <2>3, <3>1, <3>2, <3>3, EventSent
    <2>4. CASE /\ kernel' = [kernel EXCEPT !.stations = @ \cup {s}]
               /\ Multicast("new_station", s)
      <3>1. PICK m : m = [cmd |-> "new_station", arg |-> s, n |-> sent + 1]
        OBVIOUS
      <3>2. m \in EventType /\ m # Garbage /\ m.cmd = "new_station" /\ m.arg = s
        BY <1>0, <3>1 DEF EventType, Garbage
      <3>3. Reports(m)
        BY <1>0, <2>2, <2>4, <3>2, StationReported
      <3> QED BY <2>4, <3>1, <3>2, <3>3, EventSent
    <2> QED BY <2>1, <2>3, <2>4
  <1>2. CASE KernelChannel
    <2>1. PICK c \in Channels : /\ kernel' = [kernel EXCEPT !.channel = c]
                                /\ Multicast("ch_switch", c)
      BY <1>2 DEF KernelChannel
    <2>2. view' = view
      BY <2>1 DEF Multicast
    <2>3. PICK m : m = [cmd |-> "ch_switch", arg |-> c, n |-> sent + 1]
      OBVIOUS
    <2>4. m \in EventType /\ m # Garbage /\ m.cmd = "ch_switch" /\ m.arg = c
      BY <1>0, <2>3 DEF EventType, Garbage
    <2>5. Reports(m)
      BY <1>0, <2>1, <2>2, <2>4, OtherReported
    <2> QED BY <2>1, <2>3, <2>4, <2>5, EventSent
  <1>3. CASE KernelRegulatory
    <2>1. PICK r \in RegMessages : /\ kernel' = [kernel EXCEPT !.country = r[1]]
                                   /\ Multicast("reg", r)
      BY <1>3 DEF KernelRegulatory
    <2>2. view' = view
      BY <2>1 DEF Multicast
    <2>3. PICK m : m = [cmd |-> "reg", arg |-> r, n |-> sent + 1]
      OBVIOUS
    <2>4. m \in EventType /\ m # Garbage /\ m.cmd = "reg" /\ m.arg = r
      BY <1>0, <2>3 DEF EventType, Garbage
    <2>5. Reports(m)
      BY <1>0, <2>1, <2>2, <2>4, OtherReported
    <2> QED BY <2>1, <2>3, <2>4, <2>5, EventSent
  <1> QED BY <1>1, <1>2, <1>3 DEF Kernel

\* A step after which the same messages wait, the kernel and the framework's
\* callbacks are as before, and nothing that was missed is forgotten.
LEMMA NothingNew ==
    ASSUME EventInv, UNCHANGED <<queue, buffer, at, ap, regCb, view, kernel, missed, sent>>,
           LoopFirst'
    PROVE  EventInv'
  <1>1. /\ \A d, k \in Nat, x \in EventType : Waits(d, k, x)' <=> Waits(d, k, x)
        /\ Undamaged' <=> Undamaged
    BY DEF Undamaged, Waits, Unread, Msg
  <1>2. \A d, k \in Nat : \A u : Follows(d, k, u) => Follows(d, k, u)'
    BY <1>1 DEF Follows
  <1>3. LastIsSo'
    BY <1>1, <1>2 DEF EventInv, LastIsSo, IsSo
  <1>4. Known'
    <2>1. \A u : Pending(u) => Pending(u)'
      BY <1>1 DEF Pending
    <2>2. \A u : Listens(u)' = Listens(u) /\ (Told(u) => Told(u)')
      BY DEF Listens, Told
    <2> QED BY <1>1, <2>1, <2>2 DEF EventInv, Known
  <1> QED BY <1>3, <1>4 DEF EventInv, QueueType, ViewType

\* A datagram is read: the order in which messages wait is the same.
LEMMA DatagramRead ==
    ASSUME EventInv, ReceivePacket
    PROVE  EventInv'
  <1>1. /\ UNCHANGED <<pc, ap, regCb, view, kernel, missed, sent>>
        /\ pc = "loop" /\ buffer = <<>> /\ queue # <<>>
        /\ buffer' = Head(queue) /\ at' = 1 /\ queue' = Tail(queue)
    BY DEF ReceivePacket, Ready, startVars, frameworkVars, kernelVars
  <1>2. queue \in Seq(Seq(EventType)) /\ at = 1
    BY <1>1 DEF EventInv, QueueType
  <1>3. /\ Len(queue) \in Nat \ {0} /\ Len(queue') = Len(queue) - 1
        /\ queue' \in Seq(Seq(EventType))
        /\ \A d \in 1..Len(queue') : queue'[d] = queue[d + 1]
        /\ buffer' = queue[1] /\ buffer' \in Seq(EventType)
    BY <1>1, <1>2
  <1>4. ASSUME NEW d \in Nat, NEW k \in Nat, NEW x
        PROVE  Waits(d, k, x)' <=> Waits(d + 1, k, x)
    <2>1. CASE d = 0
      <3>1. d + 1 = 1 /\ 1 \in 1..Len(queue)
        BY <1>3, <2>1
      <3>2. Waits(d, k, x)' <=> k \in 1..Len(queue[1]) /\ queue[1][k] = x
        BY <1>1, <1>3, <2>1 DEF Waits, Unread, Msg
      <3>3. Waits(1, k, x) <=> k \in 1..Len(queue[1]) /\ queue[1][k] = x
        BY <3>1 DEF Waits, Unread, Msg
      <3> QED BY <3>1, <3>2, <3>3
    <2>2. CASE d \in 1..Len(queue')
      <3>1. queue'[d] = queue[d + 1] /\ d + 1 \in 1..Len(queue) /\ d # 0 /\ d + 1 # 0
        BY <1>3, <2>2
      <3>2. Waits(d, k, x)' <=> k \in 1..Len(queue'[d]) /\ queue'[d][k] = x
        BY <2>2, <3>1 DEF Waits, Unread, Msg
      <3>3. Waits(d + 1, k, x) <=> k \in 1..Len(queue[d + 1]) /\ queue[d + 1][k] = x
        BY <3>1 DEF Waits, Unread, Msg
      <3> QED BY <3>1, <3>2, <3>3
    <2>3. CASE d # 0 /\ d \notin 1..Len(queue')
      <3>1. d + 1 # 0 /\ d + 1 \notin 1..Len(queue)
        BY <1>3, <2>3
      <3> QED BY <2>3, <3>1 DEF Waits, Unread
    <2> QED BY <2>1, <2>2, <2>3
  <1>5. ASSUME NEW k \in Nat, NEW x
        PROVE  ~Waits(0, k, x)
    <2>1. Len(buffer) = 0
      BY <1>1
    <2> QED BY <1>2, <2>1 DEF Waits, Unread
  <1>6. Undamaged' => Undamaged
    <2>1. ASSUME NEW d \in Nat, NEW k \in Nat, Waits(d, k, Garbage)
          PROVE  \E e \in Nat : Waits(e, k, Garbage)'
      <3>1. d - 1 \in Nat /\ (d - 1) + 1 = d
        BY <1>5, <2>1
      <3> QED BY <1>4, <2>1, <3>1
    <2> QED BY <2>1 DEF Undamaged
  <1>7. ASSUME NEW d \in Nat, NEW k \in Nat, NEW u, Follows(d + 1, k, u)
        PROVE  Follows(d, k, u)'
    <2>1. PICK e \in Nat, l \in Nat, m \in EventType :
              /\ Waits(e, l, m) /\ (e > d + 1 \/ (e = d + 1 /\ l > k))
              /\ Subject(m) = u
      BY <1>7 DEF Follows
    <2>2. e - 1 \in Nat /\ (e - 1) + 1 = e /\ (e - 1 > d \/ (e - 1 = d /\ l > k))
      BY <2>1
    <2>3. Waits(e - 1, l, m)'
      BY <1>4, <2>1, <2>2
    <2> QED BY <2>1, <2>2, <2>3 DEF Follows
  <1>8. ASSUME NEW u, Pending(u)
        PROVE  Pending(u)'
    <2>1. PICK d \in Nat, k \in Nat, m \in EventType :
              Waits(d, k, m) /\ Subject(m) = u
      BY <1>8 DEF Pending
    <2>2. d - 1 \in Nat /\ (d - 1) + 1 = d
      BY <1>5, <2>1
    <2>3. Waits(d - 1, k, m)'
      BY <1>4, <2>1, <2>2
    <2> QED BY <2>1, <2>2, <2>3 DEF Pending
  <1>9. LastIsSo'
    <2>1. SUFFICES ASSUME Undamaged, NEW d \in Nat, NEW k \in Nat, NEW m \in EventType,
                          Waits(d, k, m)'
                   PROVE  \/ IsSo(m)'
                          \/ PartOfSubject(Subject(m)) \in missed'
                          \/ Follows(d, k, Subject(m))'
      BY <1>6 DEF LastIsSo
    <2>2. d + 1 \in Nat /\ Waits(d + 1, k, m)
      BY <1>4, <2>1
    <2>3. \/ IsSo(m)
          \/ PartOfSubject(Subject(m)) \in missed
          \/ Follows(d + 1, k, Subject(m))
      BY <2>1, <2>2 DEF EventInv, LastIsSo
    <2>4. IsSo(m) => IsSo(m)'
      BY <1>1 DEF IsSo
    <2> QED BY <1>1, <1>7, <2>3, <2>4
  <1>10. Known'
    <2>1. \A u : Listens(u)' = Listens(u) /\ (Told(u) => Told(u)')
      BY <1>1 DEF Listens, Told
    <2> QED BY <1>1, <1>6, <1>8, <2>1 DEF EventInv, Known
  <1>11. QueueType'
    BY <1>1, <1>3 DEF QueueType
  <1>12. ViewType' /\ LoopFirst' /\ sent' \in Nat
    BY <1>1 DEF EventInv, ViewType, LoopFirst, StartSteps
  <1> QED BY <1>9, <1>10, <1>11, <1>12 DEF EventInv

\* The handler of a message tells the framework what the message says of its
\* subject, and nothing else, or the event is missed.
LEMMA HandlerTells ==
    ASSUME ViewType, NEW m \in EventType, m # Garbage, BroadcastHandler(m),
           UNCHANGED <<kernel, ap, regCb>>
    PROVE  /\ missed \subseteq missed' /\ ViewType'
           /\ \A u \in Subjects : u # Subject(m) /\ Told(u) => Told(u)'
           /\ Listens(Subject(m)) /\ IsSo(m) =>
                 Told(Subject(m))' \/ PartOfSubject(Subject(m)) \in missed'
  <1>1. CASE m.cmd \in {"new_station", "del_station"}
    <2>1. m.arg \in Stations /\ Subject(m) = <<"station", m.arg>>
      BY <1>1, MessageKinds
    <2>2. OnStationEvent(m)
      BY <1>1 DEF BroadcastHandler
    <2>3. /\ missed' = missed
          /\ DOMAIN view' = {"stations", "channel", "country"}
          /\ view'.channel = view.channel /\ view'.country = view.country
          /\ \/ ap # "heard" /\ view' = view
             \/ /\ ap = "heard" /\ m.cmd = "new_station"
                /\ view'.stations = view.stations \cup {m.arg}
             \/ /\ ap = "heard" /\ m.cmd = "del_station"
                /\ view'.stations = view.stations \ {m.arg}
      BY <1>1, <2>2 DEF OnStationEvent, Notify, ViewType
    <2>4. ViewType'
      BY <2>1, <2>3 DEF ViewType
    <2>5. ASSUME NEW u \in Subjects, u # Subject(m), Told(u)
          PROVE  Told(u)'
      <3>1. CASE \E t \in Stations : u = <<"station", t>>
        <4>1. PICK t \in Stations : u = <<"station", t>>
          BY <3>1
        <4>2. t # m.arg /\ u[1] = "station" /\ u[2] = t
          BY <2>1, <2>5, <4>1
        <4> QED BY <2>3, <2>5, <4>2 DEF Told
      <3>2. CASE u = <<"channel", 0>>
        BY <2>3, <2>5, <3>2 DEF Told
      <3>3. CASE u = <<"country", 0>>
        BY <2>3, <2>5, <3>3 DEF Told
      <3> QED BY <3>1, <3>2, <3>3 DEF Subjects
    <2>6. Listens(Subject(m)) /\ IsSo(m) => Told(Subject(m))'
      <3>1. PICK u : u = Subject(m) /\ u[1] = "station" /\ u[2] = m.arg
        BY <2>1
      <3>2. Listens(u) /\ IsSo(m) => Told(u)'
        BY <1>1, <2>3, <3>1 DEF Listens, IsSo, Told
      <3> QED BY <3>1, <3>2
    <2> QED BY <2>3, <2>4, <2>5, <2>6
  <1>2. CASE m.cmd = "ch_switch"
    <2>1. Subject(m) = <<"channel", 0>>
      BY <1>2, MessageKinds
    <2>2. OnChannelSwitchEvent(m)
      BY <1>2 DEF BroadcastHandler
    <2>3. /\ missed' = missed
          /\ DOMAIN view' = {"stations", "channel", "country"}
          /\ view'.stations = view.stations /\ view'.country = view.country
          /\ ap = "heard" =>
                view'.channel = <<m.arg[1], getBandwidthType(m.arg[2])>>
      BY <2>2 DEF OnChannelSwitchEvent, Notify, ViewType
    <2>4. ViewType'
      BY <2>3 DEF ViewType
    <2>5. ASSUME NEW u \in Subjects, u # Subject(m), Told(u)
          PROVE  Told(u)'
      <3>1. CASE \E t \in Stations : u = <<"station", t>>
        BY <2>3, <2>5, <3>1 DEF Told
      <3>2. CASE u = <<"country", 0>>
        BY <2>3, <2>5, <3>2 DEF Told
      <3> QED BY <2>1, <2>5, <3>1, <3>2 DEF Subjects
    <2>6. Listens(Subject(m)) /\ IsSo(m) => Told(Subject(m))'
      <3>1. PICK u : u = Subject(m) /\ u[1] = "channel"
        BY <2>1
      <3>2. Listens(u) /\ IsSo(m) => Told(u)'
        BY <1>2, <2>3, <3>1 DEF Listens, IsSo, Told
      <3> QED BY <3>1, <3>2
    <2> QED BY <2>3, <2>4, <2>5, <2>6
  <1>3. CASE m.cmd = "reg"
    <2>1. Subject(m) = <<"country", 0>>
      BY <1>3, MessageKinds
    <2>2. OnRegChangeEvent(m)
      BY <1>3 DEF BroadcastHandler
    <2>3. Announce(m.arg[1]) \/ Announce(kernel.country) \/ Silence
      BY <2>2 DEF OnRegChangeEvent, AskAndAnnounce
    <2>4. /\ missed \subseteq missed' /\ missed' \subseteq Parts
          /\ DOMAIN view' = {"stations", "channel", "country"}
          /\ view'.stations = view.stations /\ view'.channel = view.channel
          /\ regCb => \/ view'.country \in {m.arg[1], kernel.country}
                      \/ "reg" \in missed'
      BY <2>3 DEF Announce, Silence, Misses, ViewType, Parts
    <2>5. ViewType'
      BY <2>4 DEF ViewType
    <2>6. ASSUME NEW u \in Subjects, u # Subject(m), Told(u)
          PROVE  Told(u)'
      <3>1. CASE \E t \in Stations : u = <<"station", t>>
        BY <2>4, <2>6, <3>1 DEF Told
      <3>2. CASE u = <<"channel", 0>>
        BY <2>4, <2>6, <3>2 DEF Told
      <3> QED BY <2>1, <2>6, <3>1, <3>2 DEF Subjects
    <2>7. Listens(Subject(m)) /\ IsSo(m) =>
              Told(Subject(m))' \/ PartOfSubject(Subject(m)) \in missed'
      <3>1. PICK u : u = Subject(m) /\ u[1] = "country"
        BY <2>1
      <3>2. Listens(u) /\ IsSo(m) => Told(u)' \/ PartOfSubject(u) \in missed'
        BY <1>3, <2>4, <3>1 DEF Listens, IsSo, Told, PartOfSubject
      <3> QED BY <3>1, <3>2
    <2> QED BY <2>4, <2>5, <2>6, <2>7
  <1> QED BY <1>1, <1>2, <1>3, MessageKinds

\* The first message that waits is handled; it was the last about its subject,
\* or one about it still waits.
LEMMA FirstHandled ==
    ASSUME LastIsSo, Known, NEW m \in EventType, NEW p \in Nat, Waits(0, p, m),
           \A d, k \in Nat, x \in EventType : Waits(d, k, x) => d > 0 \/ k >= p,
           Undamaged' =>
               /\ Undamaged
               /\ \A d, k \in Nat, x \in EventType :
                     Waits(d, k, x)' <=> Waits(d, k, x) /\ ~(d = 0 /\ k = p),
           UNCHANGED <<kernel, ap, regCb>>,
           missed \subseteq missed',
           \A u \in Subjects : u # Subject(m) /\ Told(u) => Told(u)',
           Listens(Subject(m)) /\ IsSo(m) =>
               Told(Subject(m))' \/ PartOfSubject(Subject(m)) \in missed'
    PROVE  LastIsSo' /\ Known'
  <1> SUFFICES ASSUME Undamaged'
               PROVE  LastIsSo' /\ Known'
    BY DEF LastIsSo, Known
  <1>1. /\ Undamaged
        /\ \A d, k \in Nat, x \in EventType :
              Waits(d, k, x)' <=> Waits(d, k, x) /\ ~(d = 0 /\ k = p)
    OBVIOUS
  <1>2. ASSUME NEW d \in Nat, NEW k \in Nat, NEW u, d > 0 \/ k >= p, Follows(d, k, u)
        PROVE  Follows(d, k, u)'
    <2>1. PICK e \in Nat, l \in Nat, x \in EventType :
              /\ Waits(e, l, x) /\ (e > d \/ (e = d /\ l > k))
              /\ Subject(x) = u
      BY <1>2 DEF Follows
    <2>2. ~(e = 0 /\ l = p)
      BY <1>2, <2>1
    <2> QED BY <1>1, <2>1, <2>2 DEF Follows
  <1>3. LastIsSo'
    <2>1. SUFFICES ASSUME NEW d \in Nat, NEW k \in Nat, NEW x \in EventType,
                          Waits(d, k, x)'
                   PROVE  \/ IsSo(x)'
                          \/ PartOfSubject(Subject(x)) \in missed'
                          \/ Follows(d, k, Subject(x))'
      BY DEF LastIsSo
    <2>2. Waits(d, k, x) /\ (d > 0 \/ k >= p)
      BY <1>1, <2>1
    <2>3. \/ IsSo(x)
          \/ PartOfSubject(Subject(x)) \in missed
          \/ Follows(d, k, Subject(x))
      BY <1>1, <2>2 DEF LastIsSo
    <2>4. IsSo(x) => IsSo(x)'
      BY DEF IsSo
    <2> QED BY <1>2, <2>2, <2>3, <2>4
  <1>4. Known'
    <2>1. SUFFICES ASSUME NEW u \in Subjects, Listens(u),
                          PartOfSubject(u) \notin missed', ~Pending(u)'
                   PROVE  Told(u)'
      BY DEF Known, Listens
    <2>2. CASE u = Subject(m)
      <3>1. ~Follows(0, p, u)
        <4>1. Follows(0, p, u) => Follows(0, p, u)'
          BY <1>2
        <4>2. Follows(0, p, u)' => Pending(u)'
          BY DEF Follows, Pending
        <4> QED BY <2>1, <4>1, <4>2
      <3>2. IsSo(m)
        BY <1>1, <2>1, <2>2, <3>1 DEF LastIsSo
      <3> QED BY <2>1, <2>2, <3>2
    <2>3. CASE u # Subject(m)
      <3>1. ~Pending(u)
        <4>1. SUFFICES ASSUME NEW d \in Nat, NEW k \in Nat, NEW x \in EventType,
                              Waits(d, k, x), Subject(x) = u
                       PROVE  FALSE
          BY DEF Pending
        <4>2. CASE d = 0 /\ k = p
          BY <2>3, <4>1, <4>2 DEF Waits
        <4>3. CASE ~(d = 0 /\ k = p)
          BY <1>1, <2>1, <4>1, <4>3 DEF Pending
        <4> QED BY <4>2, <4>3
      <3> QED BY <1>1, <2>1, <2>3, <3>1 DEF Known
    <2> QED BY <2>2, <2>3
  <1> QED BY <1>3, <1>4

\* The messages of the buffer behind the one that is handled: a reply may have
\* overwritten them, and then there is garbage.
LEMMA TurnOfLoop ==
    ASSUME QueueType, buffer # <<>>, NEW rest \in Seq(EventType), GoOn(rest),
           Len(rest) = Len(buffer),
           \A i \in 1..Len(buffer) : rest[i] \in {buffer[i], Garbage},
           queue' = queue
    PROVE  /\ QueueType'
           /\ Undamaged' =>
                 \A d, k \in Nat, x \in EventType :
                     Waits(d, k, x)' <=> Waits(d, k, x) /\ ~(d = 0 /\ k = at)
  <1>1. at \in 1..Len(buffer) /\ Len(buffer) \in Nat /\ buffer \in Seq(EventType)
    BY DEF QueueType
  <1>2. CASE at = Len(buffer)
    <2>1. buffer' = <<>> /\ at' = 1 /\ Len(buffer') = 0
      BY <1>2 DEF GoOn
    <2>2. QueueType'
      BY <2>1 DEF QueueType
    <2>3. ASSUME NEW d \in Nat, NEW k \in Nat, NEW x \in EventType
          PROVE  Waits(d, k, x)' <=> Waits(d, k, x) /\ ~(d = 0 /\ k = at)
      <3>1. CASE d = 0
        BY <1>1, <1>2, <2>1, <3>1 DEF Waits, Unread
      <3>2. CASE d # 0
        BY <3>2 DEF Waits, Unread, Msg
      <3> QED BY <3>1, <3>2
    <2> QED BY <2>2, <2>3
  <1>3. CASE at # Len(buffer)
    <2>1. buffer' = rest /\ at' = at + 1 /\ Len(buffer') = Len(buffer)
      BY <1>3 DEF GoOn
    <2>2. QueueType'
      BY <1>1, <1>3, <2>1 DEF QueueType
    <2>3. ASSUME Undamaged', NEW d \in Nat, NEW k \in Nat, NEW x \in EventType
          PROVE  Waits(d, k, x)' <=> Waits(d, k, x) /\ ~(d = 0 /\ k = at)
      <3>1. CASE d = 0
        <4>1. Waits(d, k, x)' <=> k \in (at + 1)..Len(buffer) /\ rest[k] = x
          BY <2>1, <3>1 DEF Waits, Unread, Msg
        <4>2. Waits(d, k, x) <=> k \in at..Len(buffer) /\ buffer[k] = x
          BY <1>1, <3>1 DEF Waits, Unread, Msg
        <4>3. k \in (at + 1)..Len(buffer) => rest[k] # Garbage
          <5>1. k \in (at + 1)..Len(buffer) /\ rest[k] = Garbage =>
                    Waits(d, k, Garbage)'
            BY <2>1, <3>1 DEF Waits, Unread, Msg
          <5> QED BY <2>3, <5>1 DEF Undamaged
        <4>4. k \in (at + 1)..Len(buffer) => rest[k] = buffer[k]
          BY <1>1, <4>3
        <4> QED BY <1>1, <3>1, <4>1, <4>2, <4>4
      <3>2. CASE d # 0
        BY <3>2 DEF Waits, Unread, Msg
      <3> QED BY <3>1, <3>2
    <2> QED BY <2>2, <2>3
  <1> QED BY <1>2, <1>3

LEMMA MessageHandled ==
    ASSUME EventInv, RunHandler
    PROVE  EventInv'
  <1>0. QueueType /\ ViewType /\ LastIsSo /\ Known /\ sent \in Nat
    BY DEF EventInv
  <1>1. /\ pc = "loop" /\ buffer # <<>> /\ buffer[at] # Garbage
        /\ BroadcastHandler(buffer[at])
        /\ UNCHANGED <<pc, queue, ap, regCb, kernel, sent>>
        /\ \E i \in 0..MaxReply : GoOn(Overwritten(i))
    BY DEF RunHandler, startVars, queueVars, kernelVars
  <1>2. at \in 1..Len(buffer) /\ at \in Nat /\ buffer \in Seq(EventType)
    BY <1>0, <1>1 DEF QueueType
  <1>3. PICK i \in 0..MaxReply : GoOn(Overwritten(i))
    BY <1>1
  <1>4. PICK rest : rest = Overwritten(i)
    OBVIOUS
  <1>5. /\ rest \in Seq(EventType) /\ Len(rest) = Len(buffer)
        /\ \A j \in 1..Len(buffer) : rest[j] \in {buffer[j], Garbage}
    <2>1. Garbage \in EventType
      BY DEF EventType
    <2>2. DOMAIN buffer = 1..Len(buffer) /\ Len(buffer) \in Nat
          /\ \A j \in 1..Len(buffer) : buffer[j] \in EventType
      BY <1>2
    <2> QED BY <1>4, <2>1, <2>2 DEF Overwritten
  <1>6. /\ QueueType'
        /\ Undamaged' =>
              \A d, k \in Nat, x \in EventType :
                  Waits(d, k, x)' <=> Waits(d, k, x) /\ ~(d = 0 /\ k = at)
    BY <1>0, <1>1, <1>3, <1>4, <1>5, TurnOfLoop
  <1>7. PICK m \in EventType, p \in Nat : m = buffer[at] /\ p = at
    BY <1>2
  <1>8. Waits(0, p, m)
    BY <1>2, <1>7 DEF Waits, Unread, Msg
  <1>9. ASSUME NEW d \in Nat, NEW k \in Nat, NEW x \in EventType, Waits(d, k, x)
        PROVE  d > 0 \/ k >= p
    BY <1>2, <1>7, <1>9 DEF Waits, Unread
  <1>10. /\ Undamaged' => Undamaged
         /\ Undamaged' =>
               \A d, k \in Nat, x \in EventType :
                   Waits(d, k, x)' <=> Waits(d, k, x) /\ ~(d = 0 /\ k = p)
    <2>1. Garbage \in EventType /\ ~Waits(0, p, Garbage)
      BY <1>1, <1>7 DEF EventType, Waits, Msg
    <2> QED BY <1>6, <1>7, <2>1 DEF Undamaged
  <1>11. /\ missed \subseteq missed' /\ ViewType'
         /\ \A u \in Subjects : u # Subject(m) /\ Told(u) => Told(u)'
         /\ Listens(Subject(m)) /\ IsSo(m) =>
               Told(Subject(m))' \/ PartOfSubject(Subject(m)) \in missed'
    BY <1>0, <1>1, <1>7, HandlerTells
  <1>12. LastIsSo' /\ Known'
    BY <1>0, <1>1, <1>8, <1>9, <1>10, <1>11, FirstHandled
  <1>13. LoopFirst' /\ sent' \in Nat
    BY <1>0, <1>1 DEF LoopFirst, StartSteps
  <1> QED BY <1>6, <1>11, <1>12, <1>13 DEF EventInv

\* After garbage everything counts as missed.
LEMMA GarbageMet ==
    ASSUME EventInv, MeetGarbage
    PROVE  EventInv'
  <1>1. /\ pc = "loop" /\ buffer # <<>>
        /\ missed' = missed \cup Parts
        /\ (buffer' = <<>> /\ at' = 1) \/ GoOn(buffer)
        /\ UNCHANGED <<pc, queue, ap, regCb, view, kernel, sent>>
    BY DEF MeetGarbage, Misses, startVars, queueVars, kernelVars
  <1>2. QueueType'
    <2>1. CASE buffer' = <<>> /\ at' = 1
      BY <1>1, <2>1 DEF EventInv, QueueType
    <2>2. CASE GoOn(buffer)
      BY <1>1, <2>2, TurnOfLoop DEF EventInv, QueueType
    <2> QED BY <1>1, <2>1, <2>2
  <1>3. ASSUME NEW u
        PROVE  PartOfSubject(u) \in missed'
    BY <1>1 DEF PartOfSubject, Parts
  <1>4. LastIsSo' /\ Known'
    BY <1>3 DEF LastIsSo, Known
  <1>5. ViewType' /\ LoopFirst' /\ sent' \in Nat
    BY <1>1 DEF EventInv, ViewType, LoopFirst, StartSteps
  <1> QED BY <1>2, <1>4, <1>5 DEF EventInv

\* With an empty queue and an empty buffer nothing waits.
LEMMA NothingWaits ==
    ASSUME QueueType, queue = <<>>, buffer = <<>>
    PROVE  \A d, k \in Nat : \A x : ~Waits(d, k, x)
  <1>1. Len(queue) = 0 /\ Len(buffer) = 0 /\ at = 1
    BY DEF QueueType
  <1> QED BY <1>1 DEF Waits, Unread

\* A call of the framework that leaves every subject it listens to told, or as
\* it was; what was missed is forgotten only if nothing waits.
LEMMA FrameworkCalls ==
    ASSUME EventInv, pc = "loop", UNCHANGED <<pc, queue, buffer, at, kernel, sent>>,
           buffer = <<>>, ViewType',
           missed' \subseteq missed, queue = <<>> \/ missed' = missed,
           \A u \in Subjects : Listens(u)' =>
               \/ Told(u)'
               \/ /\ Listens(u) /\ (Told(u) => Told(u)')
                  /\ PartOfSubject(u) \in missed => PartOfSubject(u) \in missed'
    PROVE  EventInv'
  <1>1. /\ \A d, k \in Nat, x \in EventType : Waits(d, k, x)' <=> Waits(d, k, x)
        /\ Undamaged' <=> Undamaged
    BY DEF Undamaged, Waits, Unread, Msg
  <1>2. \A d, k \in Nat : \A u : Follows(d, k, u) => Follows(d, k, u)'
    BY <1>1 DEF Follows
  <1>3. LastIsSo'
    <2>1. CASE queue = <<>>
      <3>1. \A d, k \in Nat, x \in EventType : ~Waits(d, k, x)
        BY <2>1, NothingWaits DEF EventInv
      <3> QED BY <1>1, <3>1 DEF LastIsSo
    <2>2. CASE missed' = missed
      <3>1. \A x : IsSo(x) => IsSo(x)'
        BY DEF IsSo
      <3> QED BY <1>1, <1>2, <2>2, <3>1 DEF EventInv, LastIsSo
    <2> QED BY <2>1, <2>2
  <1>4. Known'
    <2>1. \A u : Pending(u) => Pending(u)'
      BY <1>1 DEF Pending
    <2> QED BY <1>1, <2>1 DEF EventInv, Known
  <1>5. QueueType' /\ LoopFirst' /\ sent' \in Nat
    BY DEF EventInv, QueueType, LoopFirst, StartSteps
  <1> QED BY <1>3, <1>4, <1>5 DEF EventInv

LEMMA FrameworkStep ==
    ASSUME EventInv, Framework
    PROVE  EventInv'
  <1>0. Call /\ ViewType
    BY DEF EventInv, Framework, createApInterface, tearDownApInterface, registerCallback,
           registerWificondEventCallback, unregisterWificondEventCallback
  <1>1. /\ pc = "loop" /\ buffer = <<>>
        /\ UNCHANGED <<pc, queue, buffer, at, kernel, sent>>
    BY <1>0 DEF Call, Ready, startVars, queueVars, bufferVars, kernelVars
  <1>2. CASE createApInterface
    <2>1. ap' = "silent" /\ ap = "none" /\ UNCHANGED <<regCb, view, missed>>
      BY <1>2 DEF createApInterface
    <2>2. ViewType'
      BY <1>0, <1>1, <2>1 DEF ViewType
    <2>3. \A u \in Subjects : Listens(u)' => Listens(u) /\ (Told(u) => Told(u)')
      BY <1>1, <2>1 DEF Listens, Told
    <2> QED BY <1>1, <2>1, <2>2, <2>3, FrameworkCalls
  <1>3. CASE tearDownApInterface
    <2>1. /\ ap' = "none" /\ UNCHANGED <<regCb, missed>>
          /\ DOMAIN view' = {"stations", "channel", "country"}
          /\ view'.stations = {} /\ view'.country = view.country
      BY <1>0, <1>3 DEF tearDownApInterface, ViewType
    <2>2. ViewType'
      BY <1>0, <1>1, <2>1 DEF ViewType
    <2>3. \A u \in Subjects : Listens(u)' => Listens(u) /\ (Told(u) => Told(u)')
      BY <1>1, <2>1 DEF Listens, Told
    <2> QED BY <1>1, <2>1, <2>2, <2>3, FrameworkCalls
  <1>4. CASE registerCallback
    <2>1. /\ ap' = "heard" /\ UNCHANGED <<regCb>>
          /\ missed' = IF queue = <<>> THEN missed \ {"ap"} ELSE missed
          /\ DOMAIN view' = {"stations", "channel", "country"}
          /\ view'.stations = kernel.stations /\ view'.country = view.country
          /\ kernel.channel # <<>> =>
                view'.channel = <<kernel.channel[1], getBandwidthType(kernel.channel[2])>>
      BY <1>0, <1>4 DEF registerCallback, Recovers, ViewType
    <2>2. ViewType'
      BY <1>0, <1>1, <2>1 DEF ViewType
    <2>3. ASSUME NEW u \in Subjects, Listens(u)'
          PROVE  \/ Told(u)'
                 \/ /\ Listens(u) /\ (Told(u) => Told(u)')
                    /\ PartOfSubject(u) \in missed => PartOfSubject(u) \in missed'
      <3>1. CASE u[1] = "country"
        BY <1>1, <2>1, <2>3, <3>1 DEF Listens, Told, PartOfSubject
      <3>2. CASE u[1] \in {"station", "channel"}
        BY <1>1, <2>1, <3>2 DEF Told
      <3> QED BY <3>1, <3>2 DEF Subjects
    <2> QED BY <1>1, <2>1, <2>2, <2>3, FrameworkCalls
  <1>5. CASE registerWificondEventCallback
    <2>1. /\ regCb' = TRUE /\ UNCHANGED <<ap>>
          /\ missed' = IF queue = <<>> THEN missed \ {"reg"} ELSE missed
          /\ DOMAIN view' = {"stations", "channel", "country"}
          /\ view'.stations = view.stations /\ view'.channel = view.channel
          /\ view'.country = kernel.country
      BY <1>0, <1>5 DEF registerWificondEventCallback, Recovers, ViewType
    <2>2. ViewType'
      BY <1>0, <1>1, <2>1 DEF ViewType
    <2>3. ASSUME NEW u \in Subjects, Listens(u)'
          PROVE  \/ Told(u)'
                 \/ /\ Listens(u) /\ (Told(u) => Told(u)')
                    /\ PartOfSubject(u) \in missed => PartOfSubject(u) \in missed'
      <3>1. CASE u[1] = "country"
        BY <1>1, <2>1, <3>1 DEF Told
      <3>2. CASE u[1] \in {"station", "channel"}
        BY <1>1, <2>1, <2>3, <3>2 DEF Listens, Told, PartOfSubject
      <3> QED BY <3>1, <3>2 DEF Subjects
    <2> QED BY <1>1, <2>1, <2>2, <2>3, FrameworkCalls
  <1>6. CASE unregisterWificondEventCallback
    <2>1. /\ regCb' = FALSE /\ UNCHANGED <<ap, missed>>
          /\ DOMAIN view' = {"stations", "channel", "country"}
          /\ view'.stations = view.stations /\ view'.channel = view.channel
      BY <1>0, <1>6 DEF unregisterWificondEventCallback, ViewType
    <2>2. ViewType'
      BY <1>0, <1>1, <2>1 DEF ViewType
    <2>3. ASSUME NEW u \in Subjects, Listens(u)'
          PROVE  Listens(u) /\ (Told(u) => Told(u)')
      <3>1. u[1] \in {"station", "channel"}
        <4>1. u[1] # "country"
          BY <2>1, <2>3 DEF Listens
        <4> QED BY <4>1 DEF Subjects
      <3>2. Listens(u)
        BY <2>1, <2>3, <3>1 DEF Listens
      <3>3. Told(u) => Told(u)'
        BY <1>1, <2>1, <3>1 DEF Told
      <3> QED BY <3>2, <3>3
    <2> QED BY <1>1, <2>1, <2>2, <2>3, FrameworkCalls
  <1> QED BY <1>2, <1>3, <1>4, <1>5, <1>6 DEF Framework

\* Until the loop runs nobody listens; a new socket has an empty queue.
LEMMA BeforeLoop ==
    ASSUME EventInv, Constructor \/ Start
    PROVE  EventInv'
  <1>1. /\ pc \in StartSteps \cup {"ctor"}
        /\ UNCHANGED <<buffer, at, ap, regCb, view, kernel, sent>>
        /\ \/ UNCHANGED <<queue, missed>>
           \/ queue' = <<>> /\ missed' \in {missed, missed \cup {"any"}}
    BY DEF Constructor, Start, SetupSync, SetupAsync, InterceptorDied, DiscoverFamilyId,
           WatchSocket, SubscribeToEvents, StartSteps, Groups, queueVars, bufferVars,
           frameworkVars, kernelVars
  <1>2. buffer = <<>> /\ ap = "none" /\ ~regCb
    BY <1>1 DEF EventInv, LoopFirst
  <1>3. LoopFirst'
    BY <1>1, <1>2 DEF LoopFirst
  <1>4. CASE UNCHANGED <<queue, missed>>
    BY <1>1, <1>3, <1>4, NothingNew
  <1>5. CASE queue' = <<>> /\ missed' \in {missed, missed \cup {"any"}}
    <2>1. QueueType' /\ ViewType' /\ sent' \in Nat
      BY <1>1, <1>2, <1>5 DEF EventInv, QueueType, ViewType, Parts
    <2>2. buffer' = <<>> /\ queue' = <<>> /\ at' = 1
      BY <1>1, <1>2, <1>5, <2>1 DEF QueueType
    <2>3. \A d, k \in Nat, x \in EventType : ~Waits(d, k, x)'
      <3>1. Len(queue') = 0 /\ Len(buffer') = 0
        BY <2>2
      <3> QED BY <2>2, <3>1 DEF Waits, Unread
    <2>4. LastIsSo'
      BY <2>3 DEF LastIsSo
    <2>5. \A u : ~Listens(u)'
      BY <1>1, <1>2 DEF Listens
    <2>6. Known'
      BY <2>5 DEF Known
    <2> QED BY <1>3, <2>1, <2>4, <2>6 DEF EventInv
  <1> QED BY <1>1, <1>4, <1>5

LEMMA InitEventInv == Init => EventInv
  <1> SUFFICES ASSUME Init
               PROVE  EventInv
    OBVIOUS
  <1>1. QueueType /\ ViewType /\ LoopFirst /\ sent \in Nat
    BY DEF Init, QueueType, ViewType, LoopFirst
  <1>2. \A d, k \in Nat : \A x : ~Waits(d, k, x)
    BY <1>1, NothingWaits DEF Init
  <1>3. LastIsSo
    BY <1>2 DEF LastIsSo
  <1>4. \A u : ~Listens(u)
    BY DEF Init, Listens
  <1>5. Known
    BY <1>4 DEF Known
  <1> QED BY <1>1, <1>3, <1>5 DEF EventInv

LEMMA EventStep ==
    ASSUME EventInv, [Next]_vars
    PROVE  EventInv'
  <1>1. CASE Constructor \/ Start
    BY <1>1, BeforeLoop
  <1>2. CASE Framework
    BY <1>2, FrameworkStep
  <1>3. CASE Kernel
    BY <1>3, KernelEvent
  <1>4. CASE ReceivePacket
    BY <1>4, DatagramRead
  <1>5. CASE RunHandler
    BY <1>5, MessageHandled
  <1>6. CASE MeetGarbage
    BY <1>6, GarbageMet
  <1>7. CASE ReadError \/ RunTask \/ Poll \/ Signal \/ UNCHANGED vars
    <2>1. /\ UNCHANGED <<queue, buffer, at, ap, regCb, view, kernel, missed, sent>>
          /\ pc' \in {pc, "exited"}
      BY <1>7 DEF ReadError, RunTask, Poll, Signal, vars, startVars, queueVars, bufferVars,
                  frameworkVars, kernelVars
    <2>2. LoopFirst'
      BY <2>1 DEF EventInv, LoopFirst, StartSteps
    <2> QED BY <2>1, <2>2, NothingNew
  <1> QED BY <1>1, <1>2, <1>3, <1>4, <1>5, <1>6, <1>7 DEF Next, Loop

\* Of the messages that wait, in the queue and in the buffer, the last about each
\* subject is true, and if there is none the framework knows, unless an event of
\* that part was missed or a reply has overwritten messages.
THEOREM EventInvariance == Spec => []EventInv
  <1> QED BY InitEventInv, EventStep, PTL DEF Spec

\* Once all events are handled, the framework knows the stations, the channel
\* and the country as the kernel has them, unless an event of that part was
\* missed since it registered: however the kernel puts its messages into
\* datagrams, and for any size of the socket's buffer.
THEOREM FrameworkIsUpToDate == Spec => []FrameworkUpToDate
  <1>1. ASSUME EventInv
        PROVE  FrameworkUpToDate
    <2>1. SUFFICES ASSUME queue = <<>>, buffer = <<>>
                   PROVE  /\ ap = "heard" /\ "ap" \notin missed =>
                                /\ view.stations = kernel.stations
                                /\ kernel.channel # <<>> =>
                                      view.channel = <<kernel.channel[1],
                                                       getBandwidthType(kernel.channel[2])>>
                          /\ regCb /\ "reg" \notin missed => view.country = kernel.country
      BY DEF FrameworkUpToDate
    <2>2. \A d, k \in Nat : \A x : ~Waits(d, k, x)
      BY <1>1, <2>1, NothingWaits DEF EventInv
    <2>3. ASSUME NEW u \in Subjects, Listens(u), PartOfSubject(u) \notin missed
          PROVE  Told(u)
      BY <1>1, <2>2, <2>3 DEF EventInv, Known, Undamaged, Pending
    <2>4. ASSUME ap = "heard", "ap" \notin missed, NEW s \in Stations
          PROVE  s \in view.stations <=> s \in kernel.stations
      <3>1. PICK u \in Subjects : u = <<"station", s>>
        BY DEF Subjects
      <3>2. u[1] = "station" /\ u[2] = s
        BY <3>1
      <3>3. Told(u)
        BY <2>3, <2>4, <3>2 DEF Listens, PartOfSubject
      <3> QED BY <3>2, <3>3 DEF Told
    <2>5. ASSUME ap = "heard", "ap" \notin missed
          PROVE  view.stations = kernel.stations
      BY <1>1, <2>4, <2>5 DEF EventInv, ViewType
    <2>6. ASSUME ap = "heard", "ap" \notin missed, kernel.channel # <<>>
          PROVE  view.channel = <<kernel.channel[1], getBandwidthType(kernel.channel[2])>>
      <3>1. PICK u \in Subjects : u = <<"channel", 0>>
        BY DEF Subjects
      <3>2. u[1] = "channel"
        BY <3>1
      <3>3. Told(u)
        BY <2>3, <2>6, <3>2 DEF Listens, PartOfSubject
      <3> QED BY <2>6, <3>2, <3>3 DEF Told
    <2>7. ASSUME regCb, "reg" \notin missed
          PROVE  view.country = kernel.country
      <3>1. PICK u \in Subjects : u = <<"country", 0>>
        BY DEF Subjects
      <3>2. u[1] = "country"
        BY <3>1
      <3>3. Told(u)
        BY <2>3, <2>7, <3>2 DEF Listens, PartOfSubject
      <3> QED BY <3>2, <3>3 DEF Told
    <2> QED BY <2>5, <2>6, <2>7
  <1> QED BY <1>1, EventInvariance, PTL

-----------------------------------------------------------------------------
(***************************************************************************)
(* The order of events.  The kernel numbers them; those that were handled  *)
(* come before those that wait, and those that wait come in the order they *)
(* will be handled in.                                                     *)
(***************************************************************************)

\* What was handled, in order.
HandledOrder ==
    /\ handled \in Seq(Nat)
    /\ \A i \in 1..Len(handled) : handled[i] \in 1..sent
    /\ \A i, j \in 1..Len(handled) : i < j => handled[i] < handled[j]

\* What waits has numbers after those, unless a reply has overwritten it.
WaitingLater ==
    \A d, k \in Nat, m \in EventType : Waits(d, k, m) /\ m # Garbage =>
        /\ m.n \in 1..sent
        /\ \A i \in 1..Len(handled) : handled[i] < m.n

\* What waits, in order.
WaitingOrder ==
    \A d, k, e, l \in Nat, m, x \in EventType :
        /\ Waits(d, k, m) /\ m # Garbage
        /\ Waits(e, l, x) /\ x # Garbage
        /\ e > d \/ (e = d /\ l > k)
        => m.n < x.n

\* No event is lost unnoticed.
NoneLost ==
    "any" \notin missed /\ Undamaged =>
        \A n \in 1..sent :
            \/ \E i \in 1..Len(handled) : handled[i] = n
            \/ \E d, k \in Nat, m \in EventType : Waits(d, k, m) /\ m.n = n

OrderInv == HandledOrder /\ WaitingLater /\ WaitingOrder /\ NoneLost

\* Messages have numbers.
LEMMA NumberType ==
    /\ \A m \in EventType : m.n \in Nat
    /\ Garbage \in EventType /\ Garbage.n = 0
  BY DEF EventType, Garbage

\* Nothing is handled or sent, and the same messages wait.
LEMMA OrderKept ==
    ASSUME OrderInv, UNCHANGED <<handled, sent>>,
           \A d, k \in Nat, x \in EventType : Waits(d, k, x)' <=> Waits(d, k, x),
           "any" \in missed => "any" \in missed'
    PROVE  OrderInv'
  <1>1. HandledOrder'
    BY DEF OrderInv, HandledOrder
  <1>2. WaitingLater'
    BY DEF OrderInv, WaitingLater
  <1>3. WaitingOrder'
    BY DEF OrderInv, WaitingOrder
  <1>4. Undamaged' => Undamaged
    BY NumberType DEF Undamaged
  <1>5. NoneLost'
    BY <1>4 DEF OrderInv, NoneLost
  <1> QED BY <1>1, <1>2, <1>3, <1>5 DEF OrderInv

\* Some messages no longer wait, and that is noticed.
LEMMA OrderShrinks ==
    ASSUME OrderInv, UNCHANGED <<handled, sent>>,
           \A d, k \in Nat, x \in EventType : x # Garbage /\ Waits(d, k, x)' => Waits(d, k, x),
           "any" \in missed'
    PROVE  OrderInv'
  <1>1. HandledOrder'
    BY DEF OrderInv, HandledOrder
  <1>2. WaitingLater'
    BY DEF OrderInv, WaitingLater
  <1>3. WaitingOrder'
    BY DEF OrderInv, WaitingOrder
  <1>5. NoneLost'
    BY DEF NoneLost
  <1> QED BY <1>1, <1>2, <1>3, <1>5 DEF OrderInv

\* The kernel sends an event, or drops it.
LEMMA OrderSent ==
    ASSUME EventInv, OrderInv, NEW cmd, NEW arg, Multicast(cmd, arg), NEW m \in EventType,
           m = [cmd |-> cmd, arg |-> arg, n |-> sent + 1], m # Garbage
    PROVE  OrderInv'
  <1>1. /\ UNCHANGED <<buffer, at, handled>>
        /\ sent' = sent + 1
        /\ \/ queue' = queue /\ missed' = missed \cup PartOf(cmd)
           \/ /\ \/ queue' = Append(queue, <<m>>)
                 \/ queue # <<>> /\ queue' = [queue EXCEPT ![Len(queue)] = Append(@, m)]
              /\ missed' = missed
    BY DEF Multicast, Misses, bufferVars
  <1>2. sent \in Nat /\ m.n = sent + 1 /\ sent' \in Nat
    BY <1>1 DEF EventInv
  <1>3. /\ handled \in Seq(Nat) /\ Len(handled) \in Nat
        /\ \A i \in 1..Len(handled) : handled[i] \in 1..sent
    BY DEF OrderInv, HandledOrder
  <1>4. \A n : n \in 1..sent => n \in 1..sent' /\ n < sent + 1
    BY <1>1, <1>2
  <1>5. HandledOrder'
    BY <1>1, <1>3, <1>4 DEF OrderInv, HandledOrder
  <1>6. CASE queue' = queue /\ missed' = missed \cup PartOf(cmd)
    <2>1. \A d, k \in Nat, x \in EventType : Waits(d, k, x)' <=> Waits(d, k, x)
      BY <1>1, <1>6 DEF Waits, Unread, Msg
    <2>2. "any" \in missed'
      BY <1>6 DEF PartOf
    <2>3. WaitingLater'
      BY <1>1, <1>4, <2>1 DEF OrderInv, WaitingLater
    <2>4. WaitingOrder'
      BY <2>1 DEF OrderInv, WaitingOrder
    <2>5. NoneLost'
      BY <2>2 DEF NoneLost
    <2> QED BY <1>5, <2>3, <2>4, <2>5 DEF OrderInv
  <1>7. CASE missed' = missed /\ \/ queue' = Append(queue, <<m>>)
                                 \/ /\ queue # <<>>
                                    /\ queue' = [queue EXCEPT ![Len(queue)] = Append(@, m)]
    <2>1. \E e, l \in Nat :
             /\ \A d, k \in Nat, x \in EventType :
                   Waits(d, k, x)' <=> Waits(d, k, x) \/ (d = e /\ k = l /\ x = m)
             /\ \A d, k \in Nat, x \in EventType :
                   Waits(d, k, x) => e > d \/ (e = d /\ l > k)
      BY <1>1, <1>7, Enqueued DEF EventInv
    <2>2. PICK e \in Nat, l \in Nat :
             /\ \A d, k \in Nat, x \in EventType :
                   Waits(d, k, x)' <=> Waits(d, k, x) \/ (d = e /\ k = l /\ x = m)
             /\ \A d, k \in Nat, x \in EventType :
                   Waits(d, k, x) => e > d \/ (e = d /\ l > k)
      BY <2>1
    <2>3. WaitingLater'
      <3>1. ASSUME NEW d \in Nat, NEW k \in Nat, NEW x \in EventType,
                   Waits(d, k, x)', x # Garbage
            PROVE  /\ x.n \in 1..sent'
                   /\ \A i \in 1..Len(handled) : handled[i] < x.n
        <4>1. CASE Waits(d, k, x)
          BY <1>4, <3>1, <4>1 DEF OrderInv, WaitingLater
        <4>2. CASE x = m
          BY <1>1, <1>2, <1>3, <1>4, <4>2
        <4> QED BY <2>2, <3>1, <4>1, <4>2
      <3> QED BY <1>1, <3>1 DEF WaitingLater
    <2>4. WaitingOrder'
      <3>1. ASSUME NEW d \in Nat, NEW k \in Nat, NEW x \in EventType,
                   NEW f \in Nat, NEW g \in Nat, NEW y \in EventType,
                   Waits(d, k, x)', x # Garbage, Waits(f, g, y)', y # Garbage,
                   f > d \/ (f = d /\ g > k)
            PROVE  x.n < y.n
        <4>1. CASE Waits(d, k, x) /\ Waits(f, g, y)
          BY <3>1, <4>1 DEF OrderInv, WaitingOrder
        <4>2. CASE Waits(d, k, x) /\ f = e /\ g = l /\ y = m
          <5>1. x.n \in 1..sent
            BY <3>1, <4>2 DEF OrderInv, WaitingLater
          <5> QED BY <1>2, <1>4, <4>2, <5>1
        <4>3. CASE d = e /\ k = l /\ ~Waits(d, k, x)
          <5>1. CASE Waits(f, g, y)
            <6>1. e > f \/ (e = f /\ l > g)
              BY <2>2, <5>1
            <6> QED BY <3>1, <4>3, <6>1
          <5>2. CASE f = e /\ g = l
            BY <3>1, <4>3, <5>2
          <5> QED BY <2>2, <3>1, <5>1, <5>2
        <4> QED BY <2>2, <3>1, <4>1, <4>2, <4>3
      <3> QED BY <3>1 DEF WaitingOrder
    <2>5. NoneLost'
      <3>1. SUFFICES ASSUME "any" \notin missed', Undamaged', NEW n \in 1..sent'
                     PROVE  \/ \E i \in 1..Len(handled) : handled[i] = n
                            \/ \E d, k \in Nat, x \in EventType : Waits(d, k, x)' /\ x.n = n
        BY <1>1 DEF NoneLost
      <3>2. "any" \notin missed /\ Undamaged
        BY <1>7, <2>2, <3>1, NumberType DEF Undamaged
      <3>3. CASE n = sent + 1
        <4>1. Waits(e, l, m)'
          BY <2>2
        <4> QED BY <1>2, <3>3, <4>1
      <3>4. CASE n # sent + 1
        <4>1. n \in 1..sent
          BY <1>1, <1>2, <3>4
        <4>2. \/ \E i \in 1..Len(handled) : handled[i] = n
              \/ \E d, k \in Nat, x \in EventType : Waits(d, k, x) /\ x.n = n
          BY <3>2, <4>1 DEF OrderInv, NoneLost
        <4> QED BY <2>2, <4>2
      <3> QED BY <3>3, <3>4
    <2> QED BY <1>5, <2>3, <2>4, <2>5 DEF OrderInv
  <1> QED BY <1>1, <1>6, <1>7

LEMMA KernelOrder ==
    ASSUME EventInv, OrderInv, Kernel
    PROVE  OrderInv'
  <1>0. sent + 1 \in Nat
    BY DEF EventInv
  <1>1. \/ \E s \in Stations : Multicast("del_station", s)
        \/ \E s \in Stations : Multicast("new_station", s)
        \/ \E c \in Channels : Multicast("ch_switch", c)
        \/ \E r \in RegMessages : Multicast("reg", r)
    BY DEF Kernel, KernelStation, KernelChannel, KernelRegulatory
  <1>2. ASSUME NEW cmd \in {"del_station", "new_station"}, NEW s \in Stations,
               Multicast(cmd, s)
        PROVE  OrderInv'
    <2>1. PICK m : m = [cmd |-> cmd, arg |-> s, n |-> sent + 1]
      OBVIOUS
    <2>2. m \in EventType /\ m # Garbage
      BY <1>0, <2>1 DEF EventType, Garbage
    <2> QED BY <1>2, <2>1, <2>2, OrderSent
  <1>3. ASSUME NEW c \in Channels, Multicast("ch_switch", c)
        PROVE  OrderInv'
    <2>1. PICK m : m = [cmd |-> "ch_switch", arg |-> c, n |-> sent + 1]
      OBVIOUS
    <2>2. m \in EventType /\ m # Garbage
      BY <1>0, <2>1 DEF EventType, Garbage
    <2> QED BY <1>3, <2>1, <2>2, OrderSent
  <1>4. ASSUME NEW r \in RegMessages, Multicast("reg", r)
        PROVE  OrderInv'
    <2>1. PICK m : m = [cmd |-> "reg", arg |-> r, n |-> sent + 1]
      OBVIOUS
    <2>2. m \in EventType /\ m # Garbage
      BY <1>0, <2>1 DEF EventType, Garbage
    <2> QED BY <1>4, <2>1, <2>2, OrderSent
  <1> QED BY <1>1, <1>2, <1>3, <1>4

\* A datagram is read: each of its messages waits where it did, a datagram
\* earlier.
LEMMA DatagramShift ==
    ASSUME QueueType, ReceivePacket
    PROVE  /\ \A d, k \in Nat : \A x : Waits(d, k, x)' <=> Waits(d + 1, k, x)
           /\ \A k \in Nat : \A x : ~Waits(0, k, x)
           /\ QueueType'
  <1>1. /\ buffer = <<>> /\ queue # <<>>
        /\ buffer' = Head(queue) /\ at' = 1 /\ queue' = Tail(queue)
    BY DEF ReceivePacket, Ready
  <1>2. queue \in Seq(Seq(EventType)) /\ at = 1
    BY <1>1 DEF QueueType
  <1>3. /\ Len(queue) \in Nat \ {0} /\ Len(queue') = Len(queue) - 1
        /\ queue' \in Seq(Seq(EventType))
        /\ \A d \in 1..Len(queue') : queue'[d] = queue[d + 1]
        /\ buffer' = queue[1] /\ buffer' \in Seq(EventType)
    BY <1>1, <1>2
  <1>4. ASSUME NEW d \in Nat, NEW k \in Nat, NEW x
        PROVE  Waits(d, k, x)' <=> Waits(d + 1, k, x)
    <2>1. CASE d = 0
      <3>1. d + 1 = 1 /\ 1 \in 1..Len(queue)
        BY <1>3, <2>1
      <3>2. Waits(d, k, x)' <=> k \in 1..Len(queue[1]) /\ queue[1][k] = x
        BY <1>1, <1>3, <2>1 DEF Waits, Unread, Msg
      <3>3. Waits(1, k, x) <=> k \in 1..Len(queue[1]) /\ queue[1][k] = x
        BY <3>1 DEF Waits, Unread, Msg
      <3> QED BY <3>1, <3>2, <3>3
    <2>2. CASE d \in 1..Len(queue')
      <3>1. queue'[d] = queue[d + 1] /\ d + 1 \in 1..Len(queue) /\ d # 0 /\ d + 1 # 0
        BY <1>3, <2>2
      <3>2. Waits(d, k, x)' <=> k \in 1..Len(queue'[d]) /\ queue'[d][k] = x
        BY <2>2, <3>1 DEF Waits, Unread, Msg
      <3>3. Waits(d + 1, k, x) <=> k \in 1..Len(queue[d + 1]) /\ queue[d + 1][k] = x
        BY <3>1 DEF Waits, Unread, Msg
      <3> QED BY <3>1, <3>2, <3>3
    <2>3. CASE d # 0 /\ d \notin 1..Len(queue')
      <3>1. d + 1 # 0 /\ d + 1 \notin 1..Len(queue)
        BY <1>3, <2>3
      <3> QED BY <2>3, <3>1 DEF Waits, Unread
    <2> QED BY <2>1, <2>2, <2>3
  <1>5. ASSUME NEW k \in Nat, NEW x
        PROVE  ~Waits(0, k, x)
    <2>1. Len(buffer) = 0
      BY <1>1
    <2> QED BY <1>2, <2>1 DEF Waits, Unread
  <1>6. QueueType'
    BY <1>1, <1>3 DEF QueueType
  <1> QED BY <1>4, <1>5, <1>6

LEMMA ReadOrder ==
    ASSUME EventInv, OrderInv, ReceivePacket
    PROVE  OrderInv'
  <1>1. UNCHANGED <<handled, sent, missed>>
    BY DEF ReceivePacket, frameworkVars, kernelVars
  <1>2. /\ \A d, k \in Nat : \A x : Waits(d, k, x)' <=> Waits(d + 1, k, x)
        /\ \A k \in Nat : \A x : ~Waits(0, k, x)
    BY DatagramShift DEF EventInv
  <1>3. HandledOrder'
    BY <1>1 DEF OrderInv, HandledOrder
  <1>4. \A d \in Nat : d + 1 \in Nat
    OBVIOUS
  <1>5. WaitingLater'
    BY <1>1, <1>2, <1>4 DEF OrderInv, WaitingLater
  <1>6. WaitingOrder'
    <2>1. ASSUME NEW d \in Nat, NEW k \in Nat, NEW x \in EventType,
                 NEW f \in Nat, NEW g \in Nat, NEW y \in EventType,
                 Waits(d, k, x)', x # Garbage, Waits(f, g, y)', y # Garbage,
                 f > d \/ (f = d /\ g > k)
          PROVE  x.n < y.n
      <3>1. Waits(d + 1, k, x) /\ Waits(f + 1, g, y)
        BY <1>2, <2>1
      <3>2. d + 1 \in Nat /\ f + 1 \in Nat /\ (f + 1 > d + 1 \/ (f + 1 = d + 1 /\ g > k))
        BY <2>1
      <3> QED BY <2>1, <3>1, <3>2 DEF OrderInv, WaitingOrder
    <2> QED BY <2>1 DEF WaitingOrder
  <1>7. ASSUME NEW d \in Nat, NEW k \in Nat, NEW x, Waits(d, k, x)
        PROVE  \E f \in Nat : Waits(f, k, x)'
    <2>1. d - 1 \in Nat /\ (d - 1) + 1 = d
      BY <1>2, <1>7
    <2> QED BY <1>2, <1>7, <2>1
  <1>8. NoneLost'
    <2>1. Undamaged' => Undamaged
      BY <1>7 DEF Undamaged
    <2>2. SUFFICES ASSUME "any" \notin missed, Undamaged, NEW n \in 1..sent
                   PROVE  \/ \E i \in 1..Len(handled) : handled[i] = n
                          \/ \E d, k \in Nat, x \in EventType : Waits(d, k, x)' /\ x.n = n
      BY <1>1, <2>1 DEF NoneLost
    <2>3. \/ \E i \in 1..Len(handled) : handled[i] = n
          \/ \E d, k \in Nat, x \in EventType : Waits(d, k, x) /\ x.n = n
      BY <2>2 DEF OrderInv, NoneLost
    <2> QED BY <1>7, <2>3
  <1> QED BY <1>3, <1>5, <1>6, <1>8 DEF OrderInv

\* Behind the message that is handled nothing waits that did not before, but
\* what a reply has left there.
LEMMA TurnKeeps ==
    ASSUME QueueType, buffer # <<>>, NEW rest \in Seq(EventType), GoOn(rest),
           Len(rest) = Len(buffer),
           \A i \in 1..Len(buffer) : rest[i] \in {buffer[i], Garbage},
           queue' = queue, NEW d \in Nat, NEW k \in Nat, NEW x \in EventType,
           x # Garbage, Waits(d, k, x)'
    PROVE  Waits(d, k, x) /\ ~(d = 0 /\ k = at)
  <1>1. at \in 1..Len(buffer) /\ Len(buffer) \in Nat
    BY DEF QueueType
  <1>2. CASE d # 0
    BY <1>2 DEF Waits, Unread, Msg
  <1>3. CASE d = 0 /\ at = Len(buffer)
    <2>1. at' = 1 /\ Len(buffer') = 0
      BY <1>3 DEF GoOn
    <2> QED BY <1>3, <2>1 DEF Waits, Unread
  <1>4. CASE d = 0 /\ at # Len(buffer)
    <2>1. buffer' = rest /\ at' = at + 1
      BY <1>4 DEF GoOn
    <2>2. k \in (at + 1)..Len(buffer) /\ rest[k] = x
      BY <1>4, <2>1 DEF Waits, Unread, Msg
    <2>3. k \in at..Len(buffer) /\ k \in 1..Len(buffer) /\ k # at
      BY <1>1, <2>2
    <2>4. buffer[k] = x
      BY <2>2, <2>3
    <2> QED BY <1>4, <2>3, <2>4 DEF Waits, Unread, Msg
  <1> QED BY <1>2, <1>3, <1>4

LEMMA HandlerOrder ==
    ASSUME EventInv, OrderInv, RunHandler
    PROVE  OrderInv'
  <1>0. QueueType /\ ViewType /\ sent \in Nat
    BY DEF EventInv
  <1>1. /\ buffer # <<>> /\ buffer[at] # Garbage
        /\ BroadcastHandler(buffer[at]) /\ handled' = Append(handled, buffer[at].n)
        /\ UNCHANGED <<queue, ap, regCb, kernel, sent>>
        /\ \E i \in 0..MaxReply : GoOn(Overwritten(i))
    BY DEF RunHandler, queueVars, kernelVars
  <1>2. at \in 1..Len(buffer) /\ at \in Nat /\ buffer \in Seq(EventType)
    BY <1>0, <1>1 DEF QueueType
  <1>3. PICK i \in 0..MaxReply : GoOn(Overwritten(i))
    BY <1>1
  <1>4. PICK rest : rest = Overwritten(i)
    OBVIOUS
  <1>5. /\ rest \in Seq(EventType) /\ Len(rest) = Len(buffer)
        /\ \A j \in 1..Len(buffer) : rest[j] \in {buffer[j], Garbage}
    <2>1. Garbage \in EventType
      BY DEF EventType
    <2>2. DOMAIN buffer = 1..Len(buffer) /\ Len(buffer) \in Nat
          /\ \A j \in 1..Len(buffer) : buffer[j] \in EventType
      BY <1>2
    <2> QED BY <1>4, <2>1, <2>2 DEF Overwritten
  <1>6. Undamaged' =>
            \A d, k \in Nat, x \in EventType :
                Waits(d, k, x)' <=> Waits(d, k, x) /\ ~(d = 0 /\ k = at)
    BY <1>0, <1>1, <1>3, <1>4, <1>5, TurnOfLoop
  <1>7. \A d, k \in Nat, x \in EventType : x # Garbage /\ Waits(d, k, x)' =>
            Waits(d, k, x) /\ ~(d = 0 /\ k = at)
    BY <1>0, <1>1, <1>3, <1>4, <1>5, TurnKeeps
  <1>8. PICK m \in EventType : m = buffer[at]
    BY <1>2
  <1>9. Waits(0, at, m) /\ m # Garbage /\ m.n \in Nat /\ 0 \in Nat
    BY <1>1, <1>2, <1>8, NumberType DEF Waits, Unread, Msg
  <1>10. m.n \in 1..sent /\ \A j \in 1..Len(handled) : handled[j] < m.n
    BY <1>2, <1>9 DEF OrderInv, WaitingLater
  <1>11. \A d, k \in Nat, x \in EventType :
             Waits(d, k, x) /\ ~(d = 0 /\ k = at) => d > 0 \/ (d = 0 /\ k > at)
    BY <1>2 DEF Waits, Unread
  <1>12. ASSUME NEW d \in Nat, NEW k \in Nat, NEW x \in EventType, x # Garbage,
                Waits(d, k, x), ~(d = 0 /\ k = at)
         PROVE  m.n < x.n
    <2>1. d > 0 \/ (d = 0 /\ k > at)
      BY <1>11, <1>12
    <2> QED BY <1>2, <1>9, <1>12, <2>1 DEF OrderInv, WaitingOrder
  <1>13. /\ handled \in Seq(Nat) /\ Len(handled) \in Nat
         /\ handled' \in Seq(Nat) /\ Len(handled') = Len(handled) + 1
         /\ handled'[Len(handled) + 1] = m.n
         /\ \A j \in 1..Len(handled) : handled'[j] = handled[j]
    BY <1>1, <1>8, <1>9 DEF OrderInv, HandledOrder
  <1>14. \A j \in 1..Len(handled') : j \in 1..Len(handled) \/ j = Len(handled) + 1
    BY <1>13
  <1>15. HandledOrder'
    <2>1. \A j \in 1..Len(handled') : handled'[j] \in 1..sent
      BY <1>10, <1>13, <1>14 DEF OrderInv, HandledOrder
    <2>2. ASSUME NEW j \in 1..Len(handled'), NEW l \in 1..Len(handled'), j < l
          PROVE  handled'[j] < handled'[l]
      <3>1. j \in 1..Len(handled)
        BY <1>13, <2>2
      <3>2. CASE l = Len(handled) + 1
        BY <1>10, <1>13, <3>1, <3>2
      <3>3. CASE l \in 1..Len(handled)
        BY <1>13, <2>2, <3>1, <3>3 DEF OrderInv, HandledOrder
      <3> QED BY <1>14, <3>2, <3>3
    <2> QED BY <1>1, <1>13, <2>1, <2>2 DEF HandledOrder
  <1>16. WaitingLater'
    <2>1. ASSUME NEW d \in Nat, NEW k \in Nat, NEW x \in EventType, x # Garbage,
                 Waits(d, k, x)'
          PROVE  x.n \in 1..sent /\ \A j \in 1..Len(handled') : handled'[j] < x.n
      <3>1. Waits(d, k, x) /\ ~(d = 0 /\ k = at)
        BY <1>7, <2>1
      <3>2. x.n \in 1..sent /\ \A j \in 1..Len(handled) : handled[j] < x.n
        BY <2>1, <3>1 DEF OrderInv, WaitingLater
      <3>3. m.n < x.n
        BY <1>12, <2>1, <3>1
      <3> QED BY <1>13, <1>14, <3>2, <3>3
    <2> QED BY <1>1, <2>1 DEF WaitingLater
  <1>17. WaitingOrder'
    BY <1>7 DEF OrderInv, WaitingOrder
  <1>18. NoneLost'
    <2>1. SUFFICES ASSUME "any" \notin missed', Undamaged', NEW n \in 1..sent
                   PROVE  \/ \E j \in 1..Len(handled') : handled'[j] = n
                          \/ \E d, k \in Nat, x \in EventType : Waits(d, k, x)' /\ x.n = n
      BY <1>1 DEF NoneLost
    <2>2. missed \subseteq missed'
      BY <1>0, <1>1, <1>8, <1>9, HandlerTells
    <2>3. Undamaged
      <3>1. ~Waits(0, at, Garbage)
        BY <1>1 DEF Waits, Msg
      <3> QED BY <1>6, <2>1, <3>1, NumberType DEF Undamaged
    <2>4. \/ \E j \in 1..Len(handled) : handled[j] = n
          \/ \E d, k \in Nat, x \in EventType : Waits(d, k, x) /\ x.n = n
      BY <2>1, <2>2, <2>3 DEF OrderInv, NoneLost
    <2>5. ASSUME NEW j \in 1..Len(handled), handled[j] = n
          PROVE  \E l \in 1..Len(handled') : handled'[l] = n
      <3>1. j \in 1..Len(handled') /\ handled'[j] = n
        BY <1>13, <2>5
      <3> QED BY <3>1
    <2>6. ASSUME NEW d \in Nat, NEW k \in Nat, NEW x \in EventType, Waits(d, k, x), x.n = n
          PROVE  \/ \E j \in 1..Len(handled') : handled'[j] = n
                 \/ \E f, g \in Nat, y \in EventType : Waits(f, g, y)' /\ y.n = n
      <3>1. CASE d = 0 /\ k = at
        <4>1. x = m
          BY <1>8, <2>6, <3>1 DEF Waits, Msg
        <4>2. Len(handled) + 1 \in 1..Len(handled') /\ handled'[Len(handled) + 1] = n
          BY <1>13, <2>6, <4>1
        <4> QED BY <4>2
      <3>2. CASE ~(d = 0 /\ k = at)
        BY <1>6, <2>1, <2>6, <3>2
      <3> QED BY <3>1, <3>2
    <2> QED BY <2>4, <2>5, <2>6
  <1> QED BY <1>15, <1>16, <1>17, <1>18 DEF OrderInv

LEMMA GarbageOrder ==
    ASSUME EventInv, OrderInv, MeetGarbage
    PROVE  OrderInv'
  <1>1. /\ buffer # <<>> /\ missed' = missed \cup Parts
        /\ (buffer' = <<>> /\ at' = 1) \/ GoOn(buffer)
        /\ UNCHANGED <<queue, handled, sent>>
    BY DEF MeetGarbage, Misses, queueVars, kernelVars
  <1>2. QueueType /\ buffer \in Seq(EventType)
    BY DEF EventInv, QueueType
  <1>3. ASSUME NEW d \in Nat, NEW k \in Nat, NEW x \in EventType, x # Garbage, Waits(d, k, x)'
        PROVE  Waits(d, k, x)
    <2>1. CASE buffer' = <<>> /\ at' = 1
      <3>1. Len(buffer') = 0
        BY <2>1
      <3>2. d # 0
        BY <1>3, <2>1, <3>1 DEF Waits, Unread
      <3> QED BY <1>1, <1>3, <3>2 DEF Waits, Unread, Msg
    <2>2. CASE GoOn(buffer)
      <3>1. \A i \in 1..Len(buffer) : buffer[i] \in {buffer[i], Garbage}
        OBVIOUS
      <3> QED BY <1>1, <1>2, <1>3, <2>2, <3>1, TurnKeeps
    <2> QED BY <1>1, <2>1, <2>2
  <1>4. "any" \in missed'
    BY <1>1 DEF Parts
  <1> QED BY <1>1, <1>3, <1>4, OrderShrinks

\* Every action, and a stuttering step, keeps the order.
LEMMA OrderStep ==
    ASSUME EventInv, OrderInv, [Next]_vars
    PROVE  OrderInv'
  <1>1. CASE Constructor \/ Start
    <2>1. /\ UNCHANGED <<buffer, at, sent, handled>>
          /\ \/ UNCHANGED <<queue, missed>>
             \/ /\ queue' = <<>>
                /\ missed' = IF queue # <<>> THEN missed \cup {"any"} ELSE missed
      BY <1>1 DEF Constructor, Start, SetupSync, SetupAsync, InterceptorDied, DiscoverFamilyId,
           WatchSocket, SubscribeToEvents, queueVars, bufferVars, frameworkVars, kernelVars
    <2>2. CASE UNCHANGED <<queue, missed>> \/ (queue' = queue /\ missed' = missed)
      <3>1. \A d, k \in Nat, x \in EventType : Waits(d, k, x)' <=> Waits(d, k, x)
        BY <2>1, <2>2 DEF Waits, Unread, Msg
      <3> QED BY <2>1, <2>2, <3>1, OrderKept
    <2>3. CASE queue' = <<>> /\ missed' = missed \cup {"any"}
      <3>1. Len(queue') = 0
        BY <2>3
      <3>2. \A d, k \in Nat, x \in EventType : Waits(d, k, x)' => Waits(d, k, x)
        BY <2>1, <3>1 DEF Waits, Unread, Msg
      <3> QED BY <2>1, <2>3, <3>2, OrderShrinks
    <2> QED BY <2>1, <2>2, <2>3
  <1>2. CASE Framework \/ ReadError \/ RunTask \/ Poll \/ Signal \/ UNCHANGED vars
    <2>1. /\ UNCHANGED <<queue, buffer, at, handled, sent>>
          /\ missed' \in {missed, missed \ {"ap"}, missed \ {"reg"}}
      BY <1>2 DEF Framework, createApInterface, tearDownApInterface, registerCallback,
           registerWificondEventCallback, unregisterWificondEventCallback, Call, Recovers,
           ReadError, RunTask, Poll, Signal, vars, startVars, queueVars, bufferVars,
           frameworkVars, kernelVars
    <2>2. \A d, k \in Nat, x \in EventType : Waits(d, k, x)' <=> Waits(d, k, x)
      BY <2>1 DEF Waits, Unread, Msg
    <2> QED BY <2>1, <2>2, OrderKept
  <1>3. CASE Kernel
    BY <1>3, KernelOrder
  <1>4. CASE ReceivePacket
    BY <1>4, ReadOrder
  <1>5. CASE RunHandler
    BY <1>5, HandlerOrder
  <1>6. CASE MeetGarbage
    BY <1>6, GarbageOrder
  <1> QED BY <1>1, <1>2, <1>3, <1>4, <1>5, <1>6 DEF Next, Loop

\* Where messages wait, in the terms of the property.
LEMMA WaitingPlaces ==
    ASSUME QueueType
    PROVE  \A w : w \in Waiting <=>
               \E d, k \in Nat : w = <<d, k>> /\ Waits(d, k, Datagram(d)[k])
                                              /\ Datagram(d)[k] \in EventType
  <1>1. Len(queue) \in Nat /\ Len(buffer) \in Nat /\ at \in Nat /\ at >= 1
    BY DEF QueueType
  <1>2. \A w : w \in Waiting <=>
            \E d \in 0..Len(queue) :
                \E k \in (IF d = 0 THEN at ELSE 1)..Len(Datagram(d)) : w = <<d, k>>
    BY DEF Waiting
  <1>3. \A d, k \in Nat : Msg(d, k) = Datagram(d)[k]
    BY DEF Msg, Datagram
  <1>4. \A d, k \in Nat : Unread(d, k) <=>
            d \in 0..Len(queue) /\ k \in (IF d = 0 THEN at ELSE 1)..Len(Datagram(d))
    BY <1>1 DEF Unread, Datagram
  <1>5. \A d \in 0..Len(queue) :
            \A k \in (IF d = 0 THEN at ELSE 1)..Len(Datagram(d)) : d \in Nat /\ k \in Nat
    BY <1>1
  <1>6. \A d, k \in Nat : Unread(d, k) =>
            Waits(d, k, Datagram(d)[k]) /\ Datagram(d)[k] \in EventType
    BY <1>3, UnreadType DEF Waits
  <1>7. ASSUME NEW w, w \in Waiting
        PROVE  \E d, k \in Nat : w = <<d, k>> /\ Waits(d, k, Datagram(d)[k])
                                              /\ Datagram(d)[k] \in EventType
    <2>1. PICK d \in 0..Len(queue) :
              \E k \in (IF d = 0 THEN at ELSE 1)..Len(Datagram(d)) : w = <<d, k>>
      BY <1>2, <1>7
    <2>2. PICK k \in (IF d = 0 THEN at ELSE 1)..Len(Datagram(d)) : w = <<d, k>>
      BY <2>1
    <2>3. d \in Nat /\ k \in Nat
      BY <1>5
    <2>4. Unread(d, k)
      BY <1>4, <2>3
    <2> QED BY <1>6, <2>2, <2>3, <2>4
  <1>8. ASSUME NEW d \in Nat, NEW k \in Nat, Waits(d, k, Datagram(d)[k])
        PROVE  <<d, k>> \in Waiting
    BY <1>2, <1>4, <1>8 DEF Waits
  <1> QED BY <1>7, <1>8

\* Events are handled once and in the kernel's order, for any number of events,
\* any sizes of datagrams and of the socket's buffer, and whatever replies
\* overwrite: an event that is not handled was dropped by the kernel, went with
\* a socket that Start replaced, or was overwritten.
THEOREM EventsHandledInOrder == Spec => []HandledOnceInOrder
  <1>1. Init => OrderInv
    <2>1. SUFFICES ASSUME Init PROVE OrderInv
      OBVIOUS
    <2>2. \A d, k \in Nat : \A x : ~Waits(d, k, x)
      BY <2>1, InitEventInv, NothingWaits DEF Init, EventInv
    <2>3. handled = <<>> /\ sent = 0 /\ Len(handled) = 0
      BY <2>1 DEF Init
    <2> QED BY <2>2, <2>3 DEF OrderInv, HandledOrder, WaitingLater, WaitingOrder, NoneLost
  <1>2. ASSUME EventInv, OrderInv
        PROVE  HandledOnceInOrder
    <2>1. PICK intact : intact = {w \in Waiting : Number(w) # 0}
      OBVIOUS
    <2>2. QueueType
      BY <1>2 DEF EventInv
    <2>3. ASSUME NEW w \in Waiting
          PROVE  \E d, k \in Nat, m \in EventType :
                    w = <<d, k>> /\ Waits(d, k, m) /\ Number(w) = m.n
      <3>1. PICK d \in Nat, k \in Nat :
                w = <<d, k>> /\ Waits(d, k, Datagram(d)[k]) /\ Datagram(d)[k] \in EventType
        BY <2>2, WaitingPlaces
      <3>2. Number(w) = Datagram(d)[k].n
        BY <3>1 DEF Number
      <3> QED BY <3>1, <3>2
    <2>4. ASSUME NEW d \in Nat, NEW k \in Nat, NEW m \in EventType, Waits(d, k, m)
          PROVE  <<d, k>> \in Waiting /\ Number(<<d, k>>) = m.n
      <3>1. m = Datagram(d)[k]
        BY <2>4 DEF Waits, Msg, Datagram
      <3>2. <<d, k>> \in Waiting
        BY <2>2, <2>4, <3>1, WaitingPlaces
      <3> QED BY <3>1, <3>2 DEF Number
    <2>5. ASSUME NEW w \in intact
          PROVE  \E d, k \in Nat, m \in EventType :
                    w = <<d, k>> /\ Waits(d, k, m) /\ Number(w) = m.n /\ m # Garbage
      BY <2>1, <2>3, NumberType
    <2>6. DOMAIN handled = 1..Len(handled)
      BY <1>2 DEF OrderInv, HandledOrder
    <2>7. \A i, j \in DOMAIN handled : i < j => handled[i] < handled[j]
      BY <1>2, <2>6 DEF OrderInv, HandledOrder
    <2>8. \A i \in DOMAIN handled, w \in intact : handled[i] < Number(w)
      BY <1>2, <2>5, <2>6 DEF OrderInv, WaitingLater
    <2>9. ASSUME NEW v \in intact, NEW w \in intact, Precedes(v, w)
          PROVE  Number(v) < Number(w)
      <3>1. PICK d \in Nat, k \in Nat, m \in EventType :
                v = <<d, k>> /\ Waits(d, k, m) /\ Number(v) = m.n /\ m # Garbage
        BY <2>5
      <3>2. PICK e \in Nat, l \in Nat, x \in EventType :
                w = <<e, l>> /\ Waits(e, l, x) /\ Number(w) = x.n /\ x # Garbage
        BY <2>5
      <3>3. e > d \/ (e = d /\ l > k)
        BY <2>9, <3>1, <3>2 DEF Precedes
      <3> QED BY <1>2, <3>1, <3>2, <3>3 DEF OrderInv, WaitingOrder
    <2>10. ASSUME "any" \notin missed, intact = Waiting
           PROVE  1..sent = Range(handled) \cup {Number(w) : w \in Waiting}
      <3>1. Undamaged
        <4>1. SUFFICES ASSUME NEW d \in Nat, NEW k \in Nat, Waits(d, k, Garbage)
                       PROVE  FALSE
          BY DEF Undamaged
        <4>2. <<d, k>> \in Waiting /\ Number(<<d, k>>) = 0
          BY <2>4, <4>1, NumberType
        <4> QED BY <2>1, <2>10, <4>2
      <3>2. ASSUME NEW n \in 1..sent
            PROVE  n \in Range(handled) \cup {Number(w) : w \in Waiting}
        <4>1. \/ \E i \in 1..Len(handled) : handled[i] = n
              \/ \E d, k \in Nat, m \in EventType : Waits(d, k, m) /\ m.n = n
          BY <1>2, <2>10, <3>1 DEF OrderInv, NoneLost
        <4>2. CASE \E i \in 1..Len(handled) : handled[i] = n
          BY <2>6, <4>2 DEF Range
        <4>3. CASE \E d, k \in Nat, m \in EventType : Waits(d, k, m) /\ m.n = n
          BY <2>4, <4>3
        <4> QED BY <4>1, <4>2, <4>3
      <3>3. ASSUME NEW n \in Range(handled)
            PROVE  n \in 1..sent
        BY <1>2, <2>6 DEF Range, OrderInv, HandledOrder
      <3>4. ASSUME NEW w \in Waiting
            PROVE  Number(w) \in 1..sent
        <4>1. w \in intact
          BY <2>10
        <4> QED BY <1>2, <2>5, <4>1 DEF OrderInv, WaitingLater
      <3> QED BY <3>2, <3>3, <3>4
    <2> QED BY <2>1, <2>7, <2>8, <2>9, <2>10 DEF HandledOnceInOrder
  <1>3. EventInv /\ OrderInv /\ [Next]_vars => OrderInv'
    BY OrderStep
  <1> QED BY EventInvariance, <1>1, <1>2, <1>3, PTL DEF Spec

=============================================================================
