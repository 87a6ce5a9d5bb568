------------------------------- MODULE Scanner -------------------------------
(***************************************************************************)
(* ScannerImpl (scanning/scanner_impl.cpp) of one client interface, with   *)
(* the kernel's one-shot and scheduled scans it drives through ScanUtils   *)
(* (scanning/scan_utils.cpp) and the framework that calls it.              *)
(*                                                                         *)
(* Requests go to the kernel on the synchronous netlink socket and are     *)
(* answered inside the binder call.  What became of a scan arrives on the  *)
(* other, asynchronous socket, in the queue `events', which is read only   *)
(* when the event loop gets to it: a binder call that is handled in        *)
(* between meets a scanner that does not know yet what the kernel did.     *)
(***************************************************************************)
EXTENDS Naturals, Sequences, SequencesExt

CONSTANTS
    Env,               \* what the environment may do, see Behaviours
    CarefulPno,        \* the framework subscribes before it starts a scheduled
                       \* scan and stays subscribed while it believes it runs
    SupportsRandomMac, \* wiphy_features_.supports_random_mac_oneshot_scan
    MaxEvents          \* bound on the events not yet read

Behaviours ==
    {"external_scan",  \* another process starts scans on the interface
     "lost_ack",       \* the kernel acts on a request but its ACK is late
     "association",    \* the station associates and disconnects
     "device_gone",    \* the network device disappears
     "tear_down"}      \* the framework tears down and re-creates the client

ASSUME ScannerAssumption ==
    /\ Env \subseteq Behaviours
    /\ CarefulPno \in BOOLEAN
    /\ SupportsRandomMac \in BOOLEAN
    /\ MaxEvents \in Nat

VARIABLES
    \* kernel
    kDev,         \* the device with the scanner's interface index exists
    kScan,        \* the one-shot scan in progress: "idle", "own", "external"
    kRandom,      \* it uses a random MAC address
    kAborting,    \* it was asked to abort
    kSched,       \* a scheduled scan is running
    kAssoc,       \* the station is associated
    kOlder,       \* since before the client interface was created
    events,       \* multicast events on the asynchronous socket
    \* wificond
    proc,         \* "running", or the CHECK the process died of
    valid,        \* valid_, as long as the object exists
    scanStarted,  \* scan_started_
    pnoStarted,   \* pno_scan_started_
    nodev,        \* nodev_counter_
    scanHandler,  \* scan_event_handler_ is set
    pnoHandler,   \* pno_scan_event_handler_ is set
    associated,   \* is_associated_ of the client interface
    \* framework
    fwScan,       \* waits for the outcome of a scan it was granted
    fwPno         \* believes that its scheduled scan runs

assocVars == <<kAssoc, kOlder>>
kernelVars == <<kDev, kScan, kRandom, kAborting, kSched, assocVars>>
scannerVars == <<valid, scanStarted, pnoStarted, nodev, scanHandler,
                 pnoHandler, associated>>
fwVars == <<fwScan, fwPno>>
vars == <<kernelVars, events, proc, scannerVars, fwVars>>

EventKinds == {"results", "aborted", "sched_results", "sched_stopped",
               "connect", "disconnect"}

TypeOK ==
    /\ kDev \in BOOLEAN
    /\ kScan \in {"idle", "own", "external"}
    /\ kRandom \in BOOLEAN
    /\ kAborting \in BOOLEAN
    /\ kSched \in BOOLEAN
    /\ kAssoc \in BOOLEAN
    /\ kOlder \in BOOLEAN
    /\ events \in Seq(EventKinds)
    /\ proc \in {"running", "bad_driver"}
    /\ valid \in BOOLEAN
    /\ scanStarted \in BOOLEAN
    /\ pnoStarted \in BOOLEAN
    /\ nodev \in 0..4
    /\ scanHandler \in BOOLEAN
    /\ pnoHandler \in BOOLEAN
    /\ associated \in BOOLEAN
    /\ fwScan \in BOOLEAN
    /\ fwPno \in BOOLEAN

Init ==
    /\ kDev = TRUE
    /\ kScan = "idle"
    /\ kRandom = FALSE
    /\ kAborting = FALSE
    /\ kSched = FALSE
    /\ kAssoc = FALSE
    /\ kOlder = FALSE
    /\ events = <<>>
    /\ proc = "running"
    /\ valid = FALSE
    /\ scanStarted = FALSE
    /\ pnoStarted = FALSE
    /\ nodev = 0
    /\ scanHandler = FALSE
    /\ pnoHandler = FALSE
    /\ associated = FALSE
    /\ fwScan = FALSE
    /\ fwPno = FALSE

\* Room for what a step adds to the queue.
Room(n) == Len(events) + n <= MaxEvents

Callable == proc = "running" /\ valid

-----------------------------------------------------------------------------
(***************************************************************************)
(* Binder calls.  A call on an invalid scanner is answered with an error   *)
(* and changes nothing; so does a request that the kernel refuses with     *)
(* anything but ENODEV, or does not receive.                               *)
(***************************************************************************)

\* The constructor of ClientInterfaceImpl makes a scanner for the device.
CreateScanner ==
    /\ proc = "running"
    /\ ~valid
    /\ kDev
    /\ valid' = TRUE
    /\ scanStarted' = FALSE
    /\ pnoStarted' = FALSE
    /\ nodev' = 0
    /\ scanHandler' = FALSE
    /\ pnoHandler' = FALSE
    /\ associated' = FALSE
    /\ kOlder' = kAssoc
    /\ UNCHANGED <<kDev, kScan, kRandom, kAborting, kSched, kAssoc, events,
                   proc, fwVars>>

\* Mutant: randomizes whether or not the station is associated.
ScanAcceptedAlwaysRandom(acked) ==
    /\ Callable
    /\ kDev
    /\ kScan = "idle"
    /\ kScan' = "own"
    /\ kRandom' = SupportsRandomMac
    /\ kAborting' = FALSE
    /\ scanStarted' = TRUE
    /\ nodev' = 0
    /\ fwScan' = (fwScan \/ scanHandler)
    /\ UNCHANGED <<kDev, kSched, assocVars, events, proc, valid, pnoStarted,
                   scanHandler, pnoHandler, associated, fwPno>>

\* TRIGGER_SCAN is accepted.  Without its ACK the call fails, yet the scan runs.
ScanAccepted(acked) ==
    /\ Callable
    /\ kDev
    /\ kScan = "idle"
    /\ kScan' = "own"
    /\ kRandom' = (SupportsRandomMac /\ ~associated)
    /\ kAborting' = FALSE
    /\ IF acked THEN /\ scanStarted' = TRUE
                     /\ nodev' = 0
                     /\ fwScan' = (fwScan \/ scanHandler)
                ELSE UNCHANGED <<scanStarted, nodev, fwScan>>
    /\ UNCHANGED <<kDev, kSched, assocVars, events, proc, valid, pnoStarted,
                   scanHandler, pnoHandler, associated, fwPno>>

\* Mutant: the counter is set where it should be incremented.
CountNodevOnce ==
    /\ nodev' = 1
    /\ UNCHANGED <<kernelVars, events, proc, valid, scanStarted, pnoStarted,
                   scanHandler, pnoHandler, associated, fwVars>>

\* What scanRequest and startPnoScan do when the kernel answers ENODEV.
CountNodev ==
    /\ nodev' = nodev + 1
    /\ proc' = IF nodev' <= 3 THEN proc ELSE "bad_driver"
    /\ UNCHANGED <<kernelVars, events, valid, scanStarted, pnoStarted,
                   scanHandler, pnoHandler, associated, fwVars>>

ScanNodev ==
    /\ Callable
    /\ ~kDev
    /\ CountNodev

scanRequest ==
    \/ ScanAccepted(TRUE)
    \/ "lost_ack" \in Env /\ ScanAccepted(FALSE)
    \/ ScanNodev

\* ABORT_SCAN, which the kernel refuses when no scan is running.
AbortScan == kScan # "idle" /\ kAborting' = TRUE

\* Ignored unless scan_started_; the flag falls with the event that follows.
abortScan ==
    /\ Callable
    /\ scanStarted
    /\ AbortScan
    /\ UNCHANGED <<kDev, kScan, kRandom, kSched, assocVars, events, proc,
                   scannerVars, fwVars>>

\* START_SCHED_SCAN is accepted when no scheduled scan is running.
PnoAccepted(acked) ==
    /\ Callable
    /\ CarefulPno => pnoHandler
    /\ kDev
    /\ ~kSched
    /\ kSched' = TRUE
    /\ IF acked THEN /\ pnoStarted' = TRUE
                     /\ nodev' = 0
                     /\ fwPno' = TRUE
                ELSE UNCHANGED <<pnoStarted, nodev, fwPno>>
    /\ UNCHANGED <<kDev, kScan, kRandom, kAborting, assocVars, events, proc,
                   valid, scanStarted, scanHandler, pnoHandler, associated,
                   fwScan>>

PnoNodev ==
    /\ Callable
    /\ CarefulPno => pnoHandler
    /\ ~kDev
    /\ CountNodev

startPnoScan ==
    \/ PnoAccepted(TRUE)
    \/ "lost_ack" \in Env /\ PnoAccepted(FALSE)
    \/ PnoNodev

\* STOP_SCHED_SCAN is sent whatever pno_scan_started_ says.  The kernel also
\* announces the stop it was asked for.
PnoStopped(acked) ==
    /\ Callable
    /\ kSched
    /\ Room(1)
    /\ kSched' = FALSE
    /\ events' = Append(events, "sched_stopped")
    /\ IF acked THEN pnoStarted' = FALSE /\ fwPno' = FALSE
                ELSE UNCHANGED <<pnoStarted, fwPno>>
    /\ UNCHANGED <<kDev, kScan, kRandom, kAborting, assocVars, proc, valid,
                   scanStarted, nodev, scanHandler, pnoHandler, associated,
                   fwScan>>

stopPnoScan ==
    \/ PnoStopped(TRUE)
    \/ "lost_ack" \in Env /\ PnoStopped(FALSE)

subscribeScanEvents ==
    /\ Callable
    /\ scanHandler' = TRUE
    /\ UNCHANGED <<kernelVars, events, proc, valid, scanStarted, pnoStarted,
                   nodev, pnoHandler, associated, fwVars>>

unsubscribeScanEvents ==
    /\ proc = "running"
    /\ scanHandler' = FALSE
    /\ fwScan' = FALSE
    /\ UNCHANGED <<kernelVars, events, proc, valid, scanStarted, pnoStarted,
                   nodev, pnoHandler, associated, fwPno>>

subscribePnoScanEvents ==
    /\ Callable
    /\ pnoHandler' = TRUE
    /\ UNCHANGED <<kernelVars, events, proc, valid, scanStarted, pnoStarted,
                   nodev, scanHandler, associated, fwVars>>

unsubscribePnoScanEvents ==
    /\ proc = "running"
    /\ CarefulPno => ~fwPno
    /\ pnoHandler' = FALSE
    /\ UNCHANGED <<kernelVars, events, proc, valid, scanStarted, pnoStarted,
                   nodev, scanHandler, associated, fwVars>>

\* A device that is set down, or that goes away, ends what runs on it.
Ended ==
    (IF kScan = "idle" THEN <<>> ELSE <<"aborted">>)
        \o (IF kSched THEN <<"sched_stopped">> ELSE <<>>)
        \o (IF kAssoc THEN <<"disconnect">> ELSE <<>>)

KernelStops ==
    /\ kScan' = "idle"
    /\ kRandom' = FALSE
    /\ kAborting' = FALSE
    /\ kSched' = FALSE
    /\ kAssoc' = FALSE
    /\ kOlder' = FALSE
    /\ events' = events \o Ended

\* The client interface is destroyed: no event reaches the scanner from here
\* on, then the device is set down, which may fail.
Invalidate ==
    /\ "tear_down" \in Env
    /\ Callable
    /\ valid' = FALSE
    /\ fwScan' = FALSE
    /\ fwPno' = FALSE
    /\ \/ Room(Len(Ended)) /\ KernelStops
       \/ UNCHANGED <<kScan, kRandom, kAborting, kSched, assocVars, events>>
    /\ UNCHANGED <<kDev, proc, scanStarted, pnoStarted, nodev,
                   scanHandler, pnoHandler, associated>>

-----------------------------------------------------------------------------
(***************************************************************************)
(* Event handlers, run for the first event of the queue                    *)
(***************************************************************************)

\* Mutant: like the other handler, does nothing without a subscriber.
OnScanResultsReadySubscribed ==
    /\ Head(events) \in {"results", "aborted"}
    /\ IF scanHandler THEN scanStarted' = FALSE /\ fwScan' = FALSE
                      ELSE UNCHANGED <<scanStarted, fwScan>>
    /\ UNCHANGED <<pnoStarted, associated, fwPno>>

\* Mutant: no OnScanRequestFailed for an aborted scan.
OnScanResultsReadySilent ==
    /\ Head(events) \in {"results", "aborted"}
    /\ scanStarted' = FALSE
    /\ fwScan' = IF scanHandler /\ Head(events) = "results" THEN FALSE ELSE fwScan
    /\ UNCHANGED <<pnoStarted, associated, fwPno>>

OnScanResultsReady ==
    /\ Head(events) \in {"results", "aborted"}
    /\ scanStarted' = FALSE
    /\ fwScan' = IF scanHandler THEN FALSE ELSE fwScan
    /\ UNCHANGED <<pnoStarted, associated, fwPno>>

\* Mutant: the flag outlives the stop event.
OnSchedScanResultsReadyKeepsFlag ==
    /\ Head(events) \in {"sched_results", "sched_stopped"}
    /\ fwPno' = IF pnoHandler /\ Head(events) = "sched_stopped" /\ pnoStarted
                THEN FALSE ELSE fwPno
    /\ UNCHANGED <<scanStarted, pnoStarted, associated, fwScan>>

\* Mutant: clears the flag before it looks at it.
OnSchedScanResultsReadySwapped ==
    /\ Head(events) \in {"sched_results", "sched_stopped"}
    /\ pnoStarted' = IF pnoHandler /\ Head(events) = "sched_stopped"
                     THEN FALSE ELSE pnoStarted
    /\ UNCHANGED <<scanStarted, associated, fwVars>>

\* Nothing is done, not even to pno_scan_started_, without a subscriber.
OnSchedScanResultsReady ==
    /\ Head(events) \in {"sched_results", "sched_stopped"}
    /\ IF pnoHandler /\ Head(events) = "sched_stopped"
       THEN /\ fwPno' = IF pnoStarted THEN FALSE ELSE fwPno
            /\ pnoStarted' = FALSE
       ELSE UNCHANGED <<pnoStarted, fwPno>>
    /\ UNCHANGED <<scanStarted, associated, fwScan>>

\* The client's MLME handler, as far as IsAssociated shows it.
OnMlmeEvent ==
    /\ Head(events) \in {"connect", "disconnect"}
    /\ associated' = (Head(events) = "connect")
    /\ UNCHANGED <<scanStarted, pnoStarted, fwVars>>

ReadEvent ==
    /\ proc = "running"
    /\ events # <<>>
    /\ events' = Tail(events)
    /\ IF valid
       THEN OnScanResultsReady \/ OnSchedScanResultsReady \/ OnMlmeEvent
       ELSE UNCHANGED <<scanStarted, pnoStarted, associated, fwVars>>
    /\ UNCHANGED <<kernelVars, proc, valid, nodev, scanHandler, pnoHandler>>

-----------------------------------------------------------------------------
(***************************************************************************)
(* Kernel and init                                                         *)
(***************************************************************************)

ExternalScan ==
    /\ "external_scan" \in Env
    /\ kDev
    /\ kScan = "idle"
    /\ kScan' = "external"
    /\ UNCHANGED <<kDev, kRandom, kAborting, kSched, assocVars, events, proc,
                   scannerVars, fwVars>>

ScanEnds ==
    /\ kScan # "idle"
    /\ Room(1)
    /\ \E e \in {"results", "aborted"} :
          /\ kAborting => e = "aborted"
          /\ events' = Append(events, e)
    /\ kScan' = "idle"
    /\ kRandom' = FALSE
    /\ kAborting' = FALSE
    /\ UNCHANGED <<kDev, kSched, assocVars, proc, scannerVars, fwVars>>

SchedScanEvent ==
    /\ kSched
    /\ Room(1)
    /\ \/ /\ events' = Append(events, "sched_results")
          /\ UNCHANGED kSched
       \/ /\ events' = Append(events, "sched_stopped")
          /\ kSched' = FALSE
    /\ UNCHANGED <<kDev, kScan, kRandom, kAborting, assocVars, proc,
                   scannerVars, fwVars>>

\* The supplicant associates an interface that wificond has set up.
Associate ==
    /\ "association" \in Env
    /\ kDev
    /\ valid \/ kAssoc
    /\ Room(1)
    /\ kAssoc' = ~kAssoc
    /\ kOlder' = FALSE
    /\ events' = Append(events, IF kAssoc THEN "disconnect" ELSE "connect")
    /\ UNCHANGED <<kDev, kScan, kRandom, kAborting, kSched, proc,
                   scannerVars, fwVars>>

DeviceGone ==
    /\ "device_gone" \in Env
    /\ kDev
    /\ Room(Len(Ended))
    /\ kDev' = FALSE
    /\ KernelStops
    /\ UNCHANGED <<proc, scannerVars, fwVars>>

\* A new device has a new index: no handler is registered for the events of
\* the old one.
DeviceBack ==
    /\ ~kDev
    /\ ~valid
    /\ kDev' = TRUE
    /\ events' = <<>>
    /\ UNCHANGED <<kScan, kRandom, kAborting, kSched, assocVars, proc,
                   scannerVars, fwVars>>

\* init starts wificond again.  Its old sockets are gone with their events;
\* the kernel's scans go on.
Restart ==
    /\ proc # "running"
    /\ proc' = "running"
    /\ events' = <<>>
    /\ valid' = FALSE
    /\ scanStarted' = FALSE
    /\ pnoStarted' = FALSE
    /\ nodev' = 0
    /\ scanHandler' = FALSE
    /\ pnoHandler' = FALSE
    /\ associated' = FALSE
    /\ fwScan' = FALSE
    /\ fwPno' = FALSE
    /\ UNCHANGED kernelVars

Next ==
    \/ CreateScanner \/ Invalidate
    \/ scanRequest \/ abortScan
    \/ startPnoScan \/ stopPnoScan
    \/ subscribeScanEvents \/ unsubscribeScanEvents
    \/ subscribePnoScanEvents \/ unsubscribePnoScanEvents
    \/ ReadEvent
    \/ ExternalScan \/ ScanEnds \/ SchedScanEvent \/ Associate
    \/ DeviceGone \/ DeviceBack
    \/ Restart

Spec == Init /\ [][Next]_vars

\* The event loop reads its sockets, the kernel ends every one-shot scan, init
\* restarts the service.  The fairness of ScanEnds is strong only because the
\* bound on the queue, which the kernel does not have, disables it at times.
LiveSpec == Spec /\ WF_vars(ReadEvent) /\ SF_vars(ScanEnds) /\ WF_vars(Restart)

-----------------------------------------------------------------------------
(***************************************************************************)
(* Properties                                                              *)
(***************************************************************************)

\* What the framework sees of the scanner, as ScanService describes it.
ScanPhase ==
    IF Callable THEN IF scanStarted THEN "scanning" ELSE "idle" ELSE "off"

\* A framework whose binder to wificond died no longer waits.
Service == INSTANCE ScanService WITH
    phase <- ScanPhase, waiting <- (proc = "running" /\ fwScan)

\* The scanner is a scan service: a framework is made to wait only by a scan
\* that was granted, the end of the scan that scan_started_ stands for is what
\* it is told of, and such a scan always ends, in spite of stale events, lost
\* acknowledgements, other processes' scans, tear downs and restarts.
ImplementsScanService == Service!Spec

\* A scheduled scan that ends behind the framework's back is reported by
\* OnPnoScanFailed, unless the framework started a new one meanwhile.
PnoDeathReported == (fwPno /\ ~kSched) ~> (~fwPno \/ kSched)

\* scanner_impl.cpp: "Driver is in a bad state, restarting wificond".  If the
\* framework keeps asking for scans, a device that is gone makes wificond
\* restart unless the interface is torn down.
BadDriverRestarts ==
    WF_vars(ScanNodev) =>
        ((valid /\ ~kDev) ~> (proc = "bad_driver" \/ ~valid))

\* scan_started_ is never stuck: while it is set, a scan is running or the
\* event that will clear the flag is still to be read.
ScanFlagSound ==
    valid /\ scanStarted =>
        \/ kScan # "idle"
        \/ Contains(events, "results")
        \/ Contains(events, "aborted")

\* While wificond holds that its scheduled scan runs, it does, or the event
\* that says otherwise is still to be read.
PnoFlagSound ==
    valid /\ pnoStarted => kSched \/ Contains(events, "sched_stopped")

\* scanner_impl.cpp: "Only request MAC address randomization when station is
\* not associated": it is requested from an associated station only while the
\* event of the association is unread, or if the association is older than the
\* client interface, which starts with is_associated_ false.
RandomMacOnlyUnassociated ==
    [][kRandom' /\ ~kRandom =>
        ~kAssoc \/ kOlder \/ Contains(events, "connect")]_vars

\* scanner_impl.cpp: a stop event met while |pno_scan_started_| is set is
\* "Unexpected", not the result of "our own request": the framework is told of
\* a failure only when its scheduled scan is over.
PnoFailureIsReal ==
    [][fwPno /\ ~fwPno' /\ valid' => ~kSched']_vars

=============================================================================
