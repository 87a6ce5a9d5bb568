--------------------------- MODULE Scanner_proofs ---------------------------
(***************************************************************************)
(* Proofs about Scanner: scan_started_, pno_scan_started_ and what the     *)
(* framework waits for, related to the kernel's scans through the events   *)
(* that are still to be read; and that ScannerImpl is a scan service.      *)
(***************************************************************************)
EXTENDS Scanner, TLAPS

\* A framework that waits has a scanner with a handler and a scan it was
\* granted.
WaitingIsGranted == fwScan => valid /\ scanHandler /\ scanStarted

\* A framework that does not give up its subscription while it believes its
\* scheduled scan runs hears of the event that clears pno_scan_started_.
PnoSubscribed ==
    CarefulPno =>
        /\ fwPno => valid /\ pnoHandler
        /\ valid /\ pnoStarted => fwPno

\* The last unread MLME event of an association that the client interface saw
\* begin is its beginning.
LastMlmeIsConnect ==
    kAssoc /\ ~kOlder =>
        \A i \in 1..Len(events) : events[i] = "disconnect" =>
            \E j \in (i + 1)..Len(events) : events[j] = "connect"

\* is_associated_ is set for such an association once the event is read.
AssociationKnown ==
    valid /\ kAssoc /\ ~kOlder => associated \/ Contains(events, "connect")

\* The process that counts a fourth ENODEV does not go on.
NodevBounded == proc = "running" => nodev <= 3

IInv ==
    /\ TypeOK
    /\ NodevBounded
    /\ ScanFlagSound
    /\ WaitingIsGranted
    /\ PnoSubscribed
    /\ CarefulPno => PnoFlagSound
    /\ LastMlmeIsConnect
    /\ AssociationKnown

-----------------------------------------------------------------------------
(***************************************************************************)
(* The queue                                                               *)
(***************************************************************************)

\* An appended event is in the queue, and the others stay where they are.
LEMMA AppendEvent ==
    ASSUME NEW s \in Seq(EventKinds), NEW e \in EventKinds
    PROVE  /\ Append(s, e) \in Seq(EventKinds)
           /\ Len(Append(s, e)) = Len(s) + 1
           /\ \A i \in 1..Len(s) : Append(s, e)[i] = s[i]
           /\ Append(s, e)[Len(s) + 1] = e
           /\ Contains(Append(s, e), e)
           /\ \A x : Contains(s, x) => Contains(Append(s, e), x)
  <1>1. /\ Append(s, e) \in Seq(EventKinds)
        /\ Len(Append(s, e)) = Len(s) + 1
        /\ \A i \in 1..Len(s) : Append(s, e)[i] = s[i]
        /\ Append(s, e)[Len(s) + 1] = e
        /\ Len(s) \in Nat
    OBVIOUS
  <1>2. Contains(Append(s, e), e)
    BY <1>1 DEF Contains
  <1>3. \A x : Contains(s, x) => Contains(Append(s, e), x)
    BY <1>1 DEF Contains
  <1> QED BY <1>1, <1>2, <1>3

\* A concatenation holds what its parts hold.
LEMMA ConcatEvents ==
    ASSUME NEW s \in Seq(EventKinds), NEW t \in Seq(EventKinds)
    PROVE  /\ s \o t \in Seq(EventKinds)
           /\ \A x : Contains(s, x) => Contains(s \o t, x)
           /\ \A x : Contains(t, x) => Contains(s \o t, x)
  <1>1. /\ s \o t \in Seq(EventKinds)
        /\ Len(s \o t) = Len(s) + Len(t)
        /\ \A i \in 1..Len(s) : (s \o t)[i] = s[i]
        /\ Len(s) \in Nat /\ Len(t) \in Nat
    OBVIOUS
  <1>2. \A i \in 1..Len(t) : (s \o t)[Len(s) + i] = t[i]
    BY <1>1
  <1>3. \A x : Contains(s, x) => Contains(s \o t, x)
    BY <1>1 DEF Contains
  <1>4. ASSUME NEW x, Contains(t, x)
        PROVE  Contains(s \o t, x)
    <2>1. PICK i \in 1..Len(t) : t[i] = x
      BY <1>4 DEF Contains
    <2>2. Len(s) + i \in 1..Len(s \o t) /\ (s \o t)[Len(s) + i] = x
      BY <1>1, <1>2, <2>1
    <2> QED BY <2>2 DEF Contains
  <1> QED BY <1>1, <1>3, <1>4

\* The events behind the first one stay in the queue.
LEMMA TailEvents ==
    ASSUME NEW s \in Seq(EventKinds), s # <<>>
    PROVE  /\ Tail(s) \in Seq(EventKinds)
           /\ Head(s) \in EventKinds
           /\ Head(s) = s[1]
           /\ Len(s) \in Nat /\ Len(s) >= 1
           /\ Len(Tail(s)) = Len(s) - 1
           /\ \A i \in 2..Len(s) : Tail(s)[i - 1] = s[i]
           /\ \A x : Contains(s, x) /\ x # Head(s) => Contains(Tail(s), x)
  <1>1. /\ Tail(s) \in Seq(EventKinds)
        /\ Head(s) \in EventKinds
        /\ Head(s) = s[1]
        /\ Len(s) \in Nat /\ Len(s) >= 1
        /\ Len(Tail(s)) = Len(s) - 1
        /\ \A i \in 1..Len(Tail(s)) : Tail(s)[i] = s[i + 1]
    OBVIOUS
  <1>2. \A i \in 2..Len(s) : Tail(s)[i - 1] = s[i]
    <2> TAKE i \in 2..Len(s)
    <2>1. i - 1 \in 1..Len(Tail(s)) /\ (i - 1) + 1 = i
      BY <1>1
    <2> QED BY <1>1, <2>1
  <1>3. ASSUME NEW x, Contains(s, x), x # Head(s)
        PROVE  Contains(Tail(s), x)
    <2>1. PICK i \in 1..Len(s) : s[i] = x
      BY <1>3 DEF Contains
    <2>2. i \in 2..Len(s) /\ i - 1 \in 1..Len(Tail(s))
      BY <1>1, <1>3, <2>1
    <2> QED BY <1>2, <2>1, <2>2 DEF Contains
  <1> QED BY <1>1, <1>2, <1>3

\* A device that stops tells of all that ran on it.
LEMMA EndedEvents ==
    /\ Ended \in Seq(EventKinds)
    /\ kScan # "idle" => Contains(Ended, "aborted")
    /\ kSched => Contains(Ended, "sched_stopped")
  <1> DEFINE a == IF kScan = "idle" THEN <<>> ELSE <<"aborted">>
             b == IF kSched THEN <<"sched_stopped">> ELSE <<>>
             c == IF kAssoc THEN <<"disconnect">> ELSE <<>>
  <1>1. ASSUME NEW e \in EventKinds
        PROVE  <<>> \in Seq(EventKinds) /\ <<e>> \in Seq(EventKinds)
               /\ Contains(<<e>>, e)
    BY DEF Contains
  <1>2. /\ a \in Seq(EventKinds) /\ b \in Seq(EventKinds) /\ c \in Seq(EventKinds)
        /\ kScan # "idle" => Contains(a, "aborted")
        /\ kSched => Contains(b, "sched_stopped")
    BY <1>1 DEF EventKinds
  <1>3. Ended = (a \o b) \o c
    BY DEF Ended
  <1> HIDE DEF a, b, c
  <1>4. /\ a \o b \in Seq(EventKinds)
        /\ kScan # "idle" => Contains(a \o b, "aborted")
        /\ kSched => Contains(a \o b, "sched_stopped")
    BY <1>2, ConcatEvents
  <1> QED BY <1>2, <1>3, <1>4, ConcatEvents

-----------------------------------------------------------------------------
(***************************************************************************)
(* Types                                                                   *)
(***************************************************************************)

\* TypeOK in three parts, of which the steps change one or two.
KernelType ==
    /\ kDev \in BOOLEAN
    /\ kScan \in {"idle", "own", "external"}
    /\ kRandom \in BOOLEAN
    /\ kAborting \in BOOLEAN
    /\ kSched \in BOOLEAN
    /\ kAssoc \in BOOLEAN
    /\ kOlder \in BOOLEAN

WificondType ==
    /\ proc \in {"running", "bad_driver"}
    /\ valid \in BOOLEAN
    /\ scanStarted \in BOOLEAN
    /\ pnoStarted \in BOOLEAN
    /\ nodev \in 0..4
    /\ scanHandler \in BOOLEAN
    /\ pnoHandler \in BOOLEAN
    /\ associated \in BOOLEAN
    /\ fwScan \in BOOLEAN
    /\ fwPno \in BOOLEAN

\* They make up TypeOK.
LEMMA TypeParts ==
    TypeOK <=> KernelType /\ WificondType /\ events \in Seq(EventKinds)
  BY DEF TypeOK, KernelType, WificondType

\* The parts of the queue's type that the steps that change it rely on.
LEMMA QueueType ==
    ASSUME TypeOK, [Next]_vars
    PROVE  events' \in Seq(EventKinds)
  <1>1. events \in Seq(EventKinds) /\ <<>> \in Seq(EventKinds)
    BY DEF TypeOK
  <1>2. EventKinds = {"results", "aborted", "sched_results", "sched_stopped",
                      "connect", "disconnect"}
    BY DEF EventKinds
  <1>3. \A e \in EventKinds : Append(events, e) \in Seq(EventKinds)
    BY <1>1, AppendEvent
  <1>4. CASE events' = events
    BY <1>1, <1>4
  <1>5. CASE events' = events \o Ended
    BY <1>1, <1>5, EndedEvents, ConcatEvents
  <1>6. CASE events' = <<>>
    BY <1>1, <1>6
  <1>7. CASE events # <<>> /\ events' = Tail(events)
    BY <1>1, <1>7, TailEvents
  <1>8. CASE \E e \in EventKinds : events' = Append(events, e)
    BY <1>3, <1>8
  <1>9. CASE CreateScanner
    BY <1>4, <1>9 DEF CreateScanner
  <1>10. CASE Invalidate
    BY <1>4, <1>5, <1>10 DEF Invalidate, KernelStops
  <1>11. CASE scanRequest
    BY <1>4, <1>11 DEF scanRequest, ScanAccepted, ScanNodev, CountNodev
  <1>12. CASE abortScan
    BY <1>4, <1>12 DEF abortScan
  <1>13. CASE startPnoScan
    BY <1>4, <1>13 DEF startPnoScan, PnoAccepted, PnoNodev, CountNodev
  <1>14. CASE stopPnoScan
    BY <1>2, <1>8, <1>14 DEF stopPnoScan, PnoStopped
  <1>15. CASE subscribeScanEvents \/ unsubscribeScanEvents
                \/ subscribePnoScanEvents \/ unsubscribePnoScanEvents
    BY <1>4, <1>15 DEF subscribeScanEvents, unsubscribeScanEvents,
        subscribePnoScanEvents, unsubscribePnoScanEvents
  <1>16. CASE ReadEvent
    BY <1>7, <1>16 DEF ReadEvent
  <1>17. CASE ExternalScan
    BY <1>4, <1>17 DEF ExternalScan
  <1>18. CASE ScanEnds
    BY <1>2, <1>8, <1>18 DEF ScanEnds
  <1>19. CASE SchedScanEvent
    BY <1>2, <1>8, <1>19 DEF SchedScanEvent
  <1>20. CASE Associate
    BY <1>2, <1>8, <1>20 DEF Associate
  <1>21. CASE DeviceGone
    BY <1>5, <1>21 DEF DeviceGone, KernelStops
  <1>22. CASE DeviceBack \/ Restart
    BY <1>6, <1>22 DEF DeviceBack, Restart
  <1>23. CASE UNCHANGED vars
    BY <1>4, <1>23 DEF vars
  <1> QED
    BY <1>9, <1>10, <1>11, <1>12, <1>13, <1>14, <1>15, <1>16, <1>17, <1>18,
       <1>19, <1>20, <1>21, <1>22, <1>23 DEF Next

\* The kernel's variables keep their types.
LEMMA KernelTypeStep ==
    ASSUME KernelType, [Next]_vars
    PROVE  KernelType'
  <1>1. CASE CreateScanner
    BY <1>1 DEF CreateScanner, KernelType,
        fwVars
  <1>2. CASE Invalidate
    BY <1>2 DEF Invalidate, KernelStops, KernelType,
        assocVars
  <1>3. ASSUME NEW acked, ScanAccepted(acked)
        PROVE  KernelType'
    BY <1>3, ScannerAssumption DEF ScanAccepted, KernelType,
        assocVars
  <1>4. CASE Callable /\ CountNodev
    BY <1>4 DEF Callable, CountNodev, KernelType,
        kernelVars, assocVars, fwVars
  <1>5. CASE abortScan
    BY <1>5 DEF abortScan, AbortScan, KernelType,
        assocVars, scannerVars, fwVars
  <1>6. ASSUME NEW acked, PnoAccepted(acked)
        PROVE  KernelType'
    BY <1>6 DEF PnoAccepted, KernelType,
        assocVars
  <1>7. ASSUME NEW acked, PnoStopped(acked)
        PROVE  KernelType'
    BY <1>7 DEF PnoStopped, KernelType,
        assocVars
  <1>8. CASE subscribeScanEvents
    BY <1>8 DEF subscribeScanEvents, KernelType,
        kernelVars, assocVars, fwVars
  <1>9. CASE subscribePnoScanEvents
    BY <1>9 DEF subscribePnoScanEvents, KernelType,
        kernelVars, assocVars, fwVars
  <1>10. CASE unsubscribeScanEvents
    BY <1>10 DEF unsubscribeScanEvents, KernelType,
        kernelVars, assocVars, fwVars
  <1>11. CASE unsubscribePnoScanEvents
    BY <1>11 DEF unsubscribePnoScanEvents, KernelType,
        kernelVars, assocVars, fwVars
  <1>12. CASE ReadEvent
    BY <1>12 DEF ReadEvent, KernelType,
        kernelVars, assocVars, fwVars
  <1>13. CASE ExternalScan
    BY <1>13 DEF ExternalScan, KernelType,
        assocVars, scannerVars, fwVars
  <1>14. CASE ScanEnds
    BY <1>14 DEF ScanEnds, KernelType,
        assocVars, scannerVars, fwVars
  <1>15. CASE SchedScanEvent
    BY <1>15 DEF SchedScanEvent, KernelType,
        assocVars, scannerVars, fwVars
  <1>16. CASE Associate
    BY <1>16 DEF Associate, KernelType,
        scannerVars, fwVars
  <1>17. CASE DeviceGone
    BY <1>17 DEF DeviceGone, KernelStops, KernelType,
        scannerVars, fwVars
  <1>18. CASE DeviceBack
    BY <1>18 DEF DeviceBack, KernelType,
        assocVars, scannerVars, fwVars
  <1>19. CASE Restart
    BY <1>19 DEF Restart, KernelType,
        kernelVars, assocVars
  <1>20. CASE UNCHANGED vars
    BY <1>20 DEF vars, KernelType,
        kernelVars, assocVars, scannerVars, fwVars
  <1> QED
    BY <1>1, <1>2, <1>3, <1>4, <1>5, <1>6, <1>7, <1>8, <1>9, <1>10, <1>11,
       <1>12, <1>13, <1>14, <1>15, <1>16, <1>17, <1>18, <1>19, <1>20
       DEF Next, scanRequest, ScanNodev, startPnoScan, PnoNodev, stopPnoScan

\* So do those of wificond and of the framework, if the process that counts a
\* fourth ENODEV dies.
LEMMA WificondTypeStep ==
    ASSUME WificondType, NodevBounded, [Next]_vars
    PROVE  WificondType' /\ NodevBounded'
  <1>0. 0 \in 0..4 /\ 0 <= 3
    OBVIOUS
  <1>1. CASE CreateScanner
    BY <1>0, <1>1, Zenon DEF CreateScanner, WificondType, NodevBounded,
        fwVars
  <1>2. CASE Invalidate
    BY <1>2 DEF Invalidate, KernelStops, WificondType, NodevBounded,
        assocVars
  <1>3. ASSUME NEW acked, ScanAccepted(acked)
        PROVE  WificondType' /\ NodevBounded'
    BY <1>0, <1>3, Zenon DEF ScanAccepted, WificondType, NodevBounded,
        assocVars
  <1>4. CASE Callable /\ CountNodev
    BY <1>4 DEF Callable, CountNodev, WificondType, NodevBounded,
        kernelVars, assocVars, fwVars
  <1>5. CASE abortScan
    BY <1>5 DEF abortScan, AbortScan, WificondType, NodevBounded,
        assocVars, scannerVars, fwVars
  <1>6. ASSUME NEW acked, PnoAccepted(acked)
        PROVE  WificondType' /\ NodevBounded'
    BY <1>0, <1>6, Zenon DEF PnoAccepted, WificondType, NodevBounded,
        assocVars
  <1>7. ASSUME NEW acked, PnoStopped(acked)
        PROVE  WificondType' /\ NodevBounded'
    BY <1>7 DEF PnoStopped, WificondType, NodevBounded,
        assocVars
  <1>8. CASE subscribeScanEvents
    BY <1>8 DEF subscribeScanEvents, WificondType, NodevBounded,
        kernelVars, assocVars, fwVars
  <1>9. CASE subscribePnoScanEvents
    BY <1>9 DEF subscribePnoScanEvents, WificondType, NodevBounded,
        kernelVars, assocVars, fwVars
  <1>10. CASE unsubscribeScanEvents
    BY <1>10 DEF unsubscribeScanEvents, WificondType, NodevBounded,
        kernelVars, assocVars, fwVars
  <1>11. CASE unsubscribePnoScanEvents
    BY <1>11 DEF unsubscribePnoScanEvents, WificondType, NodevBounded,
        kernelVars, assocVars, fwVars
  <1>12. CASE ReadEvent
    <2>1. UNCHANGED <<proc, valid, nodev, scanHandler, pnoHandler>>
      BY <1>12 DEF ReadEvent
    <2>2. /\ scanStarted' \in BOOLEAN /\ pnoStarted' \in BOOLEAN
          /\ associated' \in BOOLEAN /\ fwScan' \in BOOLEAN /\ fwPno' \in BOOLEAN
      BY <1>12, Zenon DEF ReadEvent, OnScanResultsReady, OnSchedScanResultsReady,
          OnMlmeEvent, WificondType, fwVars
    <2> QED BY <2>1, <2>2 DEF WificondType, NodevBounded
  <1>13. CASE ExternalScan
    BY <1>13 DEF ExternalScan, WificondType, NodevBounded,
        assocVars, scannerVars, fwVars
  <1>14. CASE ScanEnds
    BY <1>14 DEF ScanEnds, WificondType, NodevBounded,
        assocVars, scannerVars, fwVars
  <1>15. CASE SchedScanEvent
    BY <1>15 DEF SchedScanEvent, WificondType, NodevBounded,
        assocVars, scannerVars, fwVars
  <1>16. CASE Associate
    BY <1>16 DEF Associate, WificondType, NodevBounded,
        scannerVars, fwVars
  <1>17. CASE DeviceGone
    BY <1>17 DEF DeviceGone, KernelStops, WificondType, NodevBounded,
        scannerVars, fwVars
  <1>18. CASE DeviceBack
    BY <1>18 DEF DeviceBack, WificondType, NodevBounded,
        assocVars, scannerVars, fwVars
  <1>19. CASE Restart
    BY <1>0, <1>19, Zenon DEF Restart, WificondType, NodevBounded,
        kernelVars, assocVars
  <1>20. CASE UNCHANGED vars
    BY <1>20 DEF vars, WificondType, NodevBounded,
        kernelVars, assocVars, scannerVars, fwVars
  <1> QED
    BY <1>1, <1>2, <1>3, <1>4, <1>5, <1>6, <1>7, <1>8, <1>9, <1>10, <1>11,
       <1>12, <1>13, <1>14, <1>15, <1>16, <1>17, <1>18, <1>19, <1>20
       DEF Next, scanRequest, ScanNodev, startPnoScan, PnoNodev, stopPnoScan

-----------------------------------------------------------------------------
(***************************************************************************)
(* One-shot scans                                                          *)
(***************************************************************************)

\* The steps that add to the queue keep what is in it.
LEMMA QueueKeeps ==
    ASSUME TypeOK, NEW x, Contains(events, x),
           \/ \E acked : PnoStopped(acked)
           \/ ScanEnds \/ SchedScanEvent \/ Associate \/ DeviceGone
    PROVE  Contains(events', x)
  <1>1. events \in Seq(EventKinds)
    BY DEF TypeOK
  <1>2. {"results", "aborted", "sched_results", "sched_stopped", "connect",
         "disconnect"} \subseteq EventKinds
    BY DEF EventKinds
  <1>3. \A e \in EventKinds : Contains(Append(events, e), x)
    BY <1>1, AppendEvent
  <1>4. Contains(events \o Ended, x)
    BY <1>1, EndedEvents, ConcatEvents
  <1>5. CASE \E acked : PnoStopped(acked)
    BY <1>2, <1>3, <1>5 DEF PnoStopped
  <1>6. CASE ScanEnds
    BY <1>2, <1>3, <1>6 DEF ScanEnds
  <1>7. CASE SchedScanEvent
    BY <1>2, <1>3, <1>7 DEF SchedScanEvent
  <1>8. CASE Associate
    BY <1>2, <1>3, <1>8 DEF Associate
  <1>9. CASE DeviceGone
    BY <1>4, <1>9 DEF DeviceGone, KernelStops
  <1> QED BY <1>5, <1>6, <1>7, <1>8, <1>9

\* scan_started_ stands for a scan or for its unread end, and a framework that
\* waits for a scan has a handler that will hear of it, after every step.
LEMMA ScanStep ==
    ASSUME TypeOK, ScanFlagSound, WaitingIsGranted, [Next]_vars
    PROVE  ScanFlagSound' /\ WaitingIsGranted'
  <1>1. CASE CreateScanner
    BY <1>1
        DEF CreateScanner, ScanFlagSound, WaitingIsGranted,
            fwVars
  <1>2. CASE Invalidate
    BY <1>2
        DEF Invalidate, ScanFlagSound, WaitingIsGranted,
            assocVars
  <1>3. ASSUME NEW acked, ScanAccepted(acked)
        PROVE  ScanFlagSound' /\ WaitingIsGranted'
    <2>1. kScan' = "own" /\ UNCHANGED <<valid, scanHandler>>
      BY <1>3 DEF ScanAccepted
    <2>2. fwScan' => scanHandler /\ scanStarted' /\ valid
      BY <1>3, Zenon DEF ScanAccepted, WaitingIsGranted, Callable
    <2> QED BY <2>1, <2>2 DEF ScanFlagSound, WaitingIsGranted
  <1>4. CASE CountNodev
    BY <1>4
        DEF CountNodev, ScanFlagSound, WaitingIsGranted,
            kernelVars, assocVars, fwVars
  <1>5. CASE abortScan
    BY <1>5
        DEF abortScan, ScanFlagSound, WaitingIsGranted,
            assocVars, scannerVars, fwVars
  <1>6. ASSUME NEW acked, PnoAccepted(acked)
        PROVE  ScanFlagSound' /\ WaitingIsGranted'
    BY <1>6
        DEF PnoAccepted, ScanFlagSound, WaitingIsGranted,
            assocVars
  <1>7. ASSUME NEW acked, PnoStopped(acked)
        PROVE  ScanFlagSound' /\ WaitingIsGranted'
    BY <1>7, QueueKeeps
        DEF PnoStopped, ScanFlagSound, WaitingIsGranted, assocVars
  <1>8. CASE subscribeScanEvents
    BY <1>8
        DEF subscribeScanEvents, ScanFlagSound, WaitingIsGranted,
            kernelVars, assocVars, fwVars
  <1>9. CASE subscribePnoScanEvents
    BY <1>9
        DEF subscribePnoScanEvents, ScanFlagSound, WaitingIsGranted,
            kernelVars, assocVars, fwVars
  <1>10. CASE unsubscribeScanEvents
    BY <1>10
        DEF unsubscribeScanEvents, ScanFlagSound, WaitingIsGranted,
            kernelVars, assocVars, fwVars
  <1>11. CASE unsubscribePnoScanEvents
    BY <1>11
        DEF unsubscribePnoScanEvents, ScanFlagSound, WaitingIsGranted,
            kernelVars, assocVars, fwVars
  <1>12. CASE ReadEvent
    <2>1. events \in Seq(EventKinds) /\ events # <<>>
      BY <1>12 DEF ReadEvent, TypeOK
    <2>2. \A x : Contains(events, x) /\ x # Head(events) => Contains(events', x)
      BY <1>12, <2>1, TailEvents DEF ReadEvent
    <2>3. UNCHANGED <<kScan, valid, scanHandler>>
      BY <1>12 DEF ReadEvent, kernelVars
    <2>4. CASE valid /\ OnScanResultsReady
      BY <2>3, <2>4 DEF OnScanResultsReady, ScanFlagSound, WaitingIsGranted
    <2>5. CASE /\ Head(events) \notin {"results", "aborted"}
               /\ UNCHANGED <<scanStarted, fwScan>>
      BY <2>2, <2>3, <2>5 DEF ScanFlagSound, WaitingIsGranted
    <2>6. CASE ~valid
      BY <1>12, <2>3, <2>6 DEF ReadEvent, fwVars, ScanFlagSound, WaitingIsGranted
    <2> QED BY <1>12, <2>4, <2>5, <2>6 DEF ReadEvent, OnSchedScanResultsReady,
                OnMlmeEvent, fwVars
  <1>13. CASE ExternalScan
    BY <1>13
        DEF ExternalScan, ScanFlagSound, WaitingIsGranted,
            assocVars, scannerVars, fwVars
  <1>14. CASE ScanEnds
    <2>1. Contains(events', "results") \/ Contains(events', "aborted")
      <3>1. {"results", "aborted"} \subseteq EventKinds
        BY DEF EventKinds
      <3> QED BY <1>14, <3>1, AppendEvent DEF ScanEnds, TypeOK
    <2> QED BY <1>14, <2>1 DEF ScanEnds, ScanFlagSound, WaitingIsGranted,
                scannerVars, fwVars
  <1>15. CASE SchedScanEvent
    BY <1>15, QueueKeeps
        DEF SchedScanEvent, ScanFlagSound, WaitingIsGranted, scannerVars, fwVars
  <1>16. CASE Associate
    BY <1>16, QueueKeeps
        DEF Associate, ScanFlagSound, WaitingIsGranted, scannerVars, fwVars
  <1>17. CASE DeviceGone
    <2>1. kScan # "idle" => Contains(events', "aborted")
      BY <1>17, EndedEvents, ConcatEvents DEF DeviceGone, KernelStops, TypeOK
    <2> QED BY <1>17, <2>1, QueueKeeps DEF DeviceGone, ScanFlagSound, WaitingIsGranted,
                scannerVars, fwVars
  <1>18. CASE DeviceBack
    BY <1>18
        DEF DeviceBack, ScanFlagSound, WaitingIsGranted,
            assocVars, scannerVars, fwVars
  <1>19. CASE Restart
    BY <1>19
        DEF Restart, ScanFlagSound, WaitingIsGranted,
            kernelVars, assocVars
  <1>20. CASE UNCHANGED vars
    BY <1>20
        DEF vars, ScanFlagSound, WaitingIsGranted,
            kernelVars, assocVars, scannerVars, fwVars
  <1> QED
    BY <1>1, <1>2, <1>3, <1>4, <1>5, <1>6, <1>7, <1>8, <1>9, <1>10, <1>11,
       <1>12, <1>13, <1>14, <1>15, <1>16, <1>17, <1>18, <1>19, <1>20
       DEF Next, scanRequest, ScanNodev, startPnoScan, PnoNodev, stopPnoScan

-----------------------------------------------------------------------------
(***************************************************************************)
(* Scheduled scans                                                         *)
(***************************************************************************)

\* With a framework that stays subscribed, pno_scan_started_ stands for a
\* scheduled scan or for its unread end, after every step.
LEMMA PnoStep ==
    ASSUME TypeOK, CarefulPno, PnoSubscribed, PnoFlagSound, [Next]_vars
    PROVE  PnoSubscribed' /\ PnoFlagSound'
  <1>1. CASE CreateScanner
    BY <1>1
        DEF CreateScanner, PnoSubscribed, PnoFlagSound,
            fwVars
  <1>2. CASE Invalidate
    BY <1>2
        DEF Invalidate, PnoSubscribed, PnoFlagSound,
            assocVars
  <1>3. ASSUME NEW acked, ScanAccepted(acked)
        PROVE  PnoSubscribed' /\ PnoFlagSound'
    BY <1>3
        DEF ScanAccepted, PnoSubscribed, PnoFlagSound,
            assocVars
  <1>4. CASE CountNodev
    BY <1>4
        DEF CountNodev, PnoSubscribed, PnoFlagSound,
            kernelVars, assocVars, fwVars
  <1>5. CASE abortScan
    BY <1>5
        DEF abortScan, PnoSubscribed, PnoFlagSound,
            assocVars, scannerVars, fwVars
  <1>6. ASSUME NEW acked, PnoAccepted(acked)
        PROVE  PnoSubscribed' /\ PnoFlagSound'
    BY <1>6 DEF PnoAccepted, Callable, PnoSubscribed, PnoFlagSound, assocVars
  <1>7. ASSUME NEW acked, PnoStopped(acked)
        PROVE  PnoSubscribed' /\ PnoFlagSound'
    <2>1. Contains(events', "sched_stopped")
      <3>1. "sched_stopped" \in EventKinds
        BY DEF EventKinds
      <3> QED BY <1>7, <3>1, AppendEvent DEF PnoStopped, TypeOK
    <2>2. UNCHANGED <<valid, pnoHandler>> /\ (fwPno' => fwPno)
             /\ (pnoStarted' => pnoStarted /\ UNCHANGED fwPno)
      BY <1>7 DEF PnoStopped
    <2> QED BY <2>1, <2>2 DEF PnoSubscribed, PnoFlagSound
  <1>8. CASE subscribeScanEvents
    BY <1>8
        DEF subscribeScanEvents, PnoSubscribed, PnoFlagSound,
            kernelVars, assocVars, fwVars
  <1>9. CASE subscribePnoScanEvents
    BY <1>9
        DEF subscribePnoScanEvents, PnoSubscribed, PnoFlagSound,
            kernelVars, assocVars, fwVars
  <1>10. CASE unsubscribeScanEvents
    BY <1>10
        DEF unsubscribeScanEvents, PnoSubscribed, PnoFlagSound,
            kernelVars, assocVars, fwVars
  <1>11. CASE unsubscribePnoScanEvents
    BY <1>11
        DEF unsubscribePnoScanEvents, PnoSubscribed, PnoFlagSound,
            kernelVars, assocVars, fwVars
  <1>12. CASE ReadEvent
    <2>1. events \in Seq(EventKinds) /\ events # <<>>
      BY <1>12 DEF ReadEvent, TypeOK
    <2>2. \A x : Contains(events, x) /\ x # Head(events) => Contains(events', x)
      BY <1>12, <2>1, TailEvents DEF ReadEvent
    <2>3. UNCHANGED <<kSched, valid, pnoHandler>>
      BY <1>12 DEF ReadEvent, kernelVars
    <2>4. CASE valid /\ OnSchedScanResultsReady /\ Head(events) = "sched_stopped"
      <3>1. pnoStarted => fwPno /\ pnoHandler
        BY <2>4 DEF PnoSubscribed
      <3>2. pnoStarted' = FALSE /\ (fwPno' => fwPno)
        BY <2>4, <3>1, Zenon DEF OnSchedScanResultsReady, TypeOK
      <3> QED BY <2>3, <3>2 DEF PnoSubscribed, PnoFlagSound
    <2>5. CASE Head(events) # "sched_stopped" /\ UNCHANGED <<pnoStarted, fwPno>>
      BY <2>2, <2>3, <2>5 DEF PnoSubscribed, PnoFlagSound
    <2>6. CASE ~valid
      BY <1>12, <2>3, <2>6 DEF ReadEvent, fwVars, PnoSubscribed, PnoFlagSound
    <2> QED BY <1>12, <2>4, <2>5, <2>6 DEF ReadEvent, OnScanResultsReady,
                OnSchedScanResultsReady, OnMlmeEvent, fwVars
  <1>13. CASE ExternalScan
    BY <1>13
        DEF ExternalScan, PnoSubscribed, PnoFlagSound,
            assocVars, scannerVars, fwVars
  <1>14. CASE ScanEnds
    BY <1>14, QueueKeeps
        DEF ScanEnds, PnoSubscribed, PnoFlagSound, scannerVars, fwVars
  <1>15. CASE SchedScanEvent
    <2>1. kSched' \/ Contains(events', "sched_stopped")
      <3>1. "sched_stopped" \in EventKinds
        BY DEF EventKinds
      <3>2. events \in Seq(EventKinds)
        BY DEF TypeOK
      <3>3. Contains(Append(events, "sched_stopped"), "sched_stopped")
        BY <3>1, <3>2, AppendEvent
      <3>4. kSched' \/ events' = Append(events, "sched_stopped")
        BY <1>15 DEF SchedScanEvent
      <3> QED BY <3>3, <3>4
    <2> QED BY <1>15, <2>1 DEF SchedScanEvent, PnoSubscribed, PnoFlagSound,
                scannerVars, fwVars
  <1>16. CASE Associate
    BY <1>16, QueueKeeps
        DEF Associate, PnoSubscribed, PnoFlagSound, scannerVars, fwVars
  <1>17. CASE DeviceGone
    <2>1. kSched => Contains(events', "sched_stopped")
      BY <1>17, EndedEvents, ConcatEvents DEF DeviceGone, KernelStops, TypeOK
    <2> QED BY <1>17, <2>1, QueueKeeps DEF DeviceGone, PnoSubscribed, PnoFlagSound,
                scannerVars, fwVars
  <1>18. CASE DeviceBack
    BY <1>18
        DEF DeviceBack, PnoSubscribed, PnoFlagSound,
            assocVars, scannerVars, fwVars
  <1>19. CASE Restart
    BY <1>19
        DEF Restart, PnoSubscribed, PnoFlagSound,
            kernelVars, assocVars
  <1>20. CASE UNCHANGED vars
    BY <1>20
        DEF vars, PnoSubscribed, PnoFlagSound,
            kernelVars, assocVars, scannerVars, fwVars
  <1> QED
    BY <1>1, <1>2, <1>3, <1>4, <1>5, <1>6, <1>7, <1>8, <1>9, <1>10, <1>11,
       <1>12, <1>13, <1>14, <1>15, <1>16, <1>17, <1>18, <1>19, <1>20
       DEF Next, scanRequest, ScanNodev, startPnoScan, PnoNodev, stopPnoScan

-----------------------------------------------------------------------------
(***************************************************************************)
(* The association                                                         *)
(***************************************************************************)

\* A new event that is not the end of an association.
LEMMA OtherEvent ==
    ASSUME TypeOK, LastMlmeIsConnect, AssociationKnown,
           NEW e \in EventKinds \ {"disconnect"}, events' = Append(events, e),
           UNCHANGED <<kAssoc, kOlder, valid, associated>>
    PROVE  LastMlmeIsConnect' /\ AssociationKnown'
  <1>1. /\ Len(events') = Len(events) + 1 /\ Len(events) \in Nat
        /\ \A i \in 1..Len(events) : events'[i] = events[i]
        /\ events'[Len(events) + 1] = e
        /\ Contains(events, "connect") => Contains(events', "connect")
    BY AppendEvent DEF TypeOK
  <1>2. LastMlmeIsConnect'
    <2>1. SUFFICES ASSUME kAssoc, ~kOlder, NEW i \in 1..Len(events'),
                          events'[i] = "disconnect"
                   PROVE  \E j \in (i + 1)..Len(events') : events'[j] = "connect"
      BY DEF LastMlmeIsConnect
    <2>2. i \in 1..Len(events) /\ events[i] = "disconnect"
      BY <1>1, <2>1
    <2>3. PICK j \in (i + 1)..Len(events) : events[j] = "connect"
      BY <2>1, <2>2 DEF LastMlmeIsConnect
    <2> QED BY <1>1, <2>3
  <1> QED BY <1>1, <1>2 DEF AssociationKnown

\* is_associated_ follows the association once its event is read, after every
\* step.
LEMMA AssociationStep ==
    ASSUME TypeOK, LastMlmeIsConnect, AssociationKnown, [Next]_vars
    PROVE  LastMlmeIsConnect' /\ AssociationKnown'
  <1>1. CASE CreateScanner
    BY <1>1
        DEF CreateScanner, LastMlmeIsConnect, AssociationKnown,
            fwVars
  <1>2. CASE Invalidate
    BY <1>2 DEF Invalidate, KernelStops, LastMlmeIsConnect, AssociationKnown,
            assocVars
  <1>3. ASSUME NEW acked, ScanAccepted(acked)
        PROVE  LastMlmeIsConnect' /\ AssociationKnown'
    BY <1>3
        DEF ScanAccepted, LastMlmeIsConnect, AssociationKnown,
            assocVars
  <1>4. CASE CountNodev
    BY <1>4
        DEF CountNodev, LastMlmeIsConnect, AssociationKnown,
            kernelVars, assocVars, fwVars
  <1>5. CASE abortScan
    BY <1>5
        DEF abortScan, LastMlmeIsConnect, AssociationKnown,
            assocVars, scannerVars, fwVars
  <1>6. ASSUME NEW acked, PnoAccepted(acked)
        PROVE  LastMlmeIsConnect' /\ AssociationKnown'
    BY <1>6
        DEF PnoAccepted, LastMlmeIsConnect, AssociationKnown,
            assocVars
  <1>7. ASSUME NEW acked, PnoStopped(acked)
        PROVE  LastMlmeIsConnect' /\ AssociationKnown'
    <2>1. PICK e \in EventKinds \ {"disconnect"} : events' = Append(events, e)
      BY <1>7 DEF PnoStopped, EventKinds
    <2>2. UNCHANGED <<kAssoc, kOlder, valid, associated>>
      BY <1>7 DEF PnoStopped, assocVars, scannerVars
    <2> QED BY <2>1, <2>2, OtherEvent
  <1>8. CASE subscribeScanEvents
    BY <1>8
        DEF subscribeScanEvents, LastMlmeIsConnect, AssociationKnown,
            kernelVars, assocVars, fwVars
  <1>9. CASE subscribePnoScanEvents
    BY <1>9
        DEF subscribePnoScanEvents, LastMlmeIsConnect, AssociationKnown,
            kernelVars, assocVars, fwVars
  <1>10. CASE unsubscribeScanEvents
    BY <1>10
        DEF unsubscribeScanEvents, LastMlmeIsConnect, AssociationKnown,
            kernelVars, assocVars, fwVars
  <1>11. CASE unsubscribePnoScanEvents
    BY <1>11
        DEF unsubscribePnoScanEvents, LastMlmeIsConnect, AssociationKnown,
            kernelVars, assocVars, fwVars
  <1>12. CASE ReadEvent
    <2>1. events \in Seq(EventKinds) /\ events # <<>> /\ events' = Tail(events)
      BY <1>12 DEF ReadEvent, TypeOK
    <2>2. /\ Head(events) = events[1]
          /\ Len(events) \in Nat /\ Len(events) >= 1
          /\ Len(events') = Len(events) - 1
          /\ \A i \in 2..Len(events) : events'[i - 1] = events[i]
          /\ \A x : Contains(events, x) /\ x # Head(events) => Contains(events', x)
      BY <2>1, TailEvents
    <2>3. UNCHANGED <<kAssoc, kOlder, valid>>
      BY <1>12 DEF ReadEvent, kernelVars, assocVars
    <2>4. LastMlmeIsConnect'
      <3>1. SUFFICES ASSUME kAssoc, ~kOlder, NEW i \in 1..Len(events'),
                            events'[i] = "disconnect"
                     PROVE  \E j \in (i + 1)..Len(events') : events'[j] = "connect"
        BY <2>3 DEF LastMlmeIsConnect
      <3>2. i + 1 \in 1..Len(events) /\ events[i + 1] = "disconnect"
        <4>1. i + 1 \in 2..Len(events) /\ (i + 1) - 1 = i
          BY <2>2
        <4> QED BY <2>2, <3>1, <4>1
      <3>3. PICK k \in ((i + 1) + 1)..Len(events) : events[k] = "connect"
        BY <3>1, <3>2 DEF LastMlmeIsConnect
      <3>4. k \in 2..Len(events) /\ k - 1 \in (i + 1)..Len(events')
        BY <2>2, <3>3
      <3> QED BY <2>2, <3>3, <3>4
    <2>5. AssociationKnown'
      <3>1. CASE ~(valid /\ kAssoc /\ ~kOlder)
        BY <2>3, <3>1 DEF AssociationKnown
      <3>2. CASE valid /\ kAssoc /\ ~kOlder /\ Head(events) = "connect"
        <4>1. associated' = TRUE
          BY <1>12, <3>2 DEF ReadEvent, OnScanResultsReady, OnSchedScanResultsReady,
              OnMlmeEvent
        <4> QED BY <4>1 DEF AssociationKnown
      <3>3. CASE valid /\ kAssoc /\ ~kOlder /\ Head(events) = "disconnect"
        <4>1. 1 \in 1..Len(events) /\ events[1] = "disconnect"
          BY <2>2, <3>3
        <4>2. PICK k \in (1 + 1)..Len(events) : events[k] = "connect"
          BY <3>3, <4>1 DEF LastMlmeIsConnect
        <4>3. Contains(events, "connect") /\ Head(events) # "connect"
          BY <2>2, <3>3, <4>2 DEF Contains
        <4> QED BY <2>2, <4>3 DEF AssociationKnown
      <3>4. CASE /\ valid /\ kAssoc /\ ~kOlder
                 /\ Head(events) \notin {"connect", "disconnect"}
        <4>1. UNCHANGED associated
          BY <1>12, <3>4 DEF ReadEvent, OnScanResultsReady, OnSchedScanResultsReady,
              OnMlmeEvent
        <4> QED BY <2>2, <3>4, <4>1 DEF AssociationKnown
      <3> QED BY <3>1, <3>2, <3>3, <3>4
    <2> QED BY <2>4, <2>5
  <1>13. CASE ExternalScan
    BY <1>13
        DEF ExternalScan, LastMlmeIsConnect, AssociationKnown,
            assocVars, scannerVars, fwVars
  <1>14. CASE ScanEnds
    <2>1. PICK e \in EventKinds \ {"disconnect"} : events' = Append(events, e)
      BY <1>14 DEF ScanEnds, EventKinds
    <2>2. UNCHANGED <<kAssoc, kOlder, valid, associated>>
      BY <1>14 DEF ScanEnds, assocVars, scannerVars
    <2> QED BY <2>1, <2>2, OtherEvent
  <1>15. CASE SchedScanEvent
    <2>1. PICK e \in EventKinds \ {"disconnect"} : events' = Append(events, e)
      BY <1>15 DEF SchedScanEvent, EventKinds
    <2>2. UNCHANGED <<kAssoc, kOlder, valid, associated>>
      BY <1>15 DEF SchedScanEvent, assocVars, scannerVars
    <2> QED BY <2>1, <2>2, OtherEvent
  <1>16. CASE Associate
    <2>1. CASE kAssoc
      <3>1. kAssoc' = FALSE
        BY <1>16, <2>1 DEF Associate, TypeOK
      <3> QED BY <3>1 DEF LastMlmeIsConnect, AssociationKnown
    <2>2. CASE ~kAssoc
      <3>1. events \in Seq(EventKinds) /\ "connect" \in EventKinds
        BY DEF TypeOK, EventKinds
      <3>2. events' = Append(events, "connect")
        BY <1>16, <2>2 DEF Associate
      <3>3. /\ Len(events') = Len(events) + 1 /\ Len(events) \in Nat
            /\ events'[Len(events')] = "connect"
            /\ Contains(events', "connect")
        BY <3>1, <3>2, AppendEvent
      <3>4. LastMlmeIsConnect'
        BY <3>3 DEF LastMlmeIsConnect
      <3> QED BY <3>3, <3>4 DEF AssociationKnown
    <2> QED BY <2>1, <2>2
  <1>17. CASE DeviceGone
    BY <1>17 DEF DeviceGone, KernelStops, LastMlmeIsConnect, AssociationKnown
  <1>18. CASE DeviceBack
    BY <1>18
        DEF DeviceBack, LastMlmeIsConnect, AssociationKnown,
            assocVars, scannerVars, fwVars
  <1>19. CASE Restart
    BY <1>19
        DEF Restart, LastMlmeIsConnect, AssociationKnown,
            kernelVars, assocVars
  <1>20. CASE UNCHANGED vars
    BY <1>20
        DEF vars, LastMlmeIsConnect, AssociationKnown,
            kernelVars, assocVars, scannerVars, fwVars
  <1> QED
    BY <1>1, <1>2, <1>3, <1>4, <1>5, <1>6, <1>7, <1>8, <1>9, <1>10, <1>11,
       <1>12, <1>13, <1>14, <1>15, <1>16, <1>17, <1>18, <1>19, <1>20
       DEF Next, scanRequest, ScanNodev, startPnoScan, PnoNodev, stopPnoScan

-----------------------------------------------------------------------------
(***************************************************************************)
(* The invariant                                                           *)
(***************************************************************************)

\* Before the first scanner nothing runs and nothing is known.
LEMMA InitIInv == Init => IInv
  <1> SUFFICES ASSUME Init PROVE IInv
    OBVIOUS
  <1>1. KernelType /\ WificondType /\ events \in Seq(EventKinds)
    <2>1. <<>> \in Seq(EventKinds) /\ 0 \in 0..4
      OBVIOUS
    <2> QED BY <2>1, Zenon DEF Init, KernelType, WificondType
  <1>2. NodevBounded /\ ScanFlagSound /\ WaitingIsGranted /\ PnoSubscribed
          /\ PnoFlagSound /\ LastMlmeIsConnect /\ AssociationKnown
    BY DEF Init, NodevBounded, ScanFlagSound, WaitingIsGranted, PnoSubscribed,
        PnoFlagSound, LastMlmeIsConnect, AssociationKnown
  <1> QED BY <1>1, <1>2, TypeParts DEF IInv

\* Every step keeps IInv.
LEMMA NextIInv == IInv /\ [Next]_vars => IInv'
  <1> SUFFICES ASSUME IInv, [Next]_vars PROVE IInv'
    OBVIOUS
  <1>1. KernelType /\ WificondType /\ TypeOK
    BY TypeParts DEF IInv
  <1>2. KernelType' /\ WificondType' /\ NodevBounded' /\ events' \in Seq(EventKinds)
    BY <1>1, KernelTypeStep, WificondTypeStep, QueueType DEF IInv
  <1>3. TypeOK'
    BY <1>2 DEF TypeOK, KernelType, WificondType
  <1>4. ScanFlagSound' /\ WaitingIsGranted'
    BY <1>1, ScanStep DEF IInv
  <1>5. PnoSubscribed' /\ (CarefulPno => PnoFlagSound')
    <2>1. CASE CarefulPno
      BY <1>1, <2>1, PnoStep DEF IInv
    <2>2. CASE ~CarefulPno
      BY <2>2 DEF PnoSubscribed
    <2> QED BY <2>1, <2>2
  <1>6. LastMlmeIsConnect' /\ AssociationKnown'
    BY <1>1, AssociationStep DEF IInv
  <1> QED BY <1>2, <1>3, <1>4, <1>5, <1>6 DEF IInv

\* The flags, the subscriptions and the unread events fit the kernel's scans
\* and association in every reachable state.
THEOREM Invariance == Spec => []IInv
  BY InitIInv, NextIInv, PTL DEF Spec

\* The variables of the scanner, of the kernel and of the framework keep their
\* types; nodev_counter_ never exceeds 4.
THEOREM TypeCorrect == Spec => []TypeOK
  <1>1. IInv => TypeOK
    BY DEF IInv
  <1> QED BY Invariance, <1>1, PTL

\* scan_started_ is never stuck, whatever other processes, lost
\* acknowledgements, tear downs, devices that vanish and restarts do and however
\* many events are unread.
THEOREM ScanFlagIsSound == Spec => []ScanFlagSound
  <1>1. IInv => ScanFlagSound
    BY DEF IInv
  <1> QED BY Invariance, <1>1, PTL

\* Nor is pno_scan_started_, if the framework stays subscribed while it believes
\* its scheduled scan runs: OnSchedScanResultsReady clears the flag only for a
\* subscriber.
THEOREM PnoFlagIsSound ==
    ASSUME CarefulPno
    PROVE  Spec => []PnoFlagSound
  <1>1. IInv => PnoFlagSound
    BY DEF IInv
  <1> QED BY Invariance, <1>1, PTL

\* Only ScanAccepted makes a scan use a random address, and then the scanner
\* holds that the station is not associated.
LEMMA RandomizingStep ==
    ASSUME IInv, [Next]_vars, kRandom', ~kRandom
    PROVE  valid /\ ~associated
  <1>1. kRandom \in BOOLEAN /\ kRandom' # FALSE /\ kRandom' # kRandom
    BY DEF IInv, TypeOK
  <1>2. \E acked : ScanAccepted(acked)
    BY <1>1, Zenon DEF Next, CreateScanner, Invalidate, KernelStops, scanRequest,
        ScanNodev, CountNodev, abortScan, startPnoScan, PnoAccepted, PnoNodev,
        stopPnoScan, PnoStopped, subscribeScanEvents, unsubscribeScanEvents,
        subscribePnoScanEvents, unsubscribePnoScanEvents, ReadEvent,
        ExternalScan, ScanEnds, SchedScanEvent, Associate, DeviceGone,
        DeviceBack, Restart, vars, kernelVars
  <1> QED BY <1>2, Zenon DEF ScanAccepted, Callable

\* A scan with a random address is requested from an associated station only
\* before the event of the association is read, or of an association older than
\* the client interface.
THEOREM RandomMacIsUnassociated == Spec => RandomMacOnlyUnassociated
  <1>1. ASSUME IInv, [Next]_vars
        PROVE  [kRandom' /\ ~kRandom =>
                   ~kAssoc \/ kOlder \/ Contains(events, "connect")]_vars
    <2>1. kRandom' /\ ~kRandom => valid /\ ~associated
      BY <1>1, RandomizingStep
    <2> QED BY <1>1, <2>1 DEF IInv, AssociationKnown
  <1> QED BY Invariance, <1>1, PTL DEF Spec, RandomMacOnlyUnassociated

-----------------------------------------------------------------------------
(***************************************************************************)
(* The scanner is a scan service                                           *)
(***************************************************************************)

\* What ScanService says without its fairness.
ServiceSafety == Service!Init /\ [][Service!Next]_(Service!vars)

Waiting == proc = "running" /\ fwScan

\* A step that changes neither what the framework sees nor what it waits for.
LEMMA SameView ==
    ASSUME UNCHANGED <<proc, valid, scanStarted, fwScan>>
    PROVE  UNCHANGED Service!vars
  <1>1. ScanPhase' = ScanPhase /\ Waiting' = Waiting
    BY DEF ScanPhase, Callable, Waiting
  <1> QED BY <1>1 DEF Service!vars, Waiting

\* Creating a scanner opens the service.
LEMMA CreateOpens ==
    ASSUME IInv, CreateScanner
    PROVE  Service!Open
  <1>1. proc = "running" /\ ~valid /\ valid' = TRUE /\ scanStarted' = FALSE
          /\ UNCHANGED <<proc, fwScan>>
    BY DEF CreateScanner, fwVars
  <1>2. ScanPhase = "off" /\ ScanPhase' = "idle"
    BY <1>1 DEF ScanPhase, Callable
  <1>3. UNCHANGED Waiting
    BY <1>1 DEF Waiting
  <1> QED BY <1>2, <1>3 DEF Service!Open, Waiting

\* An accepted and acknowledged request is granted; one whose acknowledgement
\* is lost is not seen.
LEMMA AcceptedGrants ==
    ASSUME IInv, NEW acked, ScanAccepted(acked)
    PROVE  Service!Grant \/ UNCHANGED Service!vars
  <1>1. CASE acked
    <2>1. /\ proc = "running" /\ valid /\ UNCHANGED <<proc, valid>>
          /\ scanStarted' = TRUE
      BY <1>1 DEF ScanAccepted, Callable
    <2>2. ScanPhase # "off" /\ ScanPhase' = "scanning"
      BY <2>1 DEF ScanPhase, Callable
    <2>3. fwScan' \in {fwScan, TRUE}
      BY <1>1, Zenon DEF ScanAccepted, IInv, TypeOK
    <2>4. Waiting = fwScan /\ Waiting' = fwScan'
      BY <2>1, <2>3, Zenon DEF Waiting, IInv, TypeOK
    <2>5. Waiting' \in {Waiting, TRUE}
      BY <2>3, <2>4, Zenon
    <2> QED BY <2>2, <2>5 DEF Service!Grant, Waiting
  <1>2. CASE ~acked
    BY <1>2, SameView DEF ScanAccepted
  <1> QED BY <1>1, <1>2

\* The end of a scan finishes the one that was granted, if there is one: who
\* waits for it is told.
LEMMA ReadFinishes ==
    ASSUME IInv, ReadEvent
    PROVE  Service!Finish \/ UNCHANGED Service!vars
  <1>1. proc = "running" /\ UNCHANGED <<proc, valid>>
    BY DEF ReadEvent
  <1>2. CASE UNCHANGED <<scanStarted, fwScan>>
    BY <1>1, <1>2, SameView
  <1>3. CASE valid /\ OnScanResultsReady
    <2>1. scanStarted' = FALSE /\ (fwScan => fwScan' = FALSE)
             /\ (~fwScan => fwScan' = fwScan)
      BY <1>3, Zenon DEF OnScanResultsReady, IInv, WaitingIsGranted, TypeOK
    <2>2. CASE scanStarted
      <3>1. ScanPhase = "scanning" /\ ScanPhase' = "idle"
        BY <1>1, <1>3, <2>1, <2>2 DEF ScanPhase, Callable
      <3>2. Waiting' = FALSE
        BY <2>1, Zenon DEF Waiting, IInv, TypeOK
      <3> QED BY <3>1, <3>2 DEF Service!Finish, Waiting
    <2>3. CASE ~scanStarted
      <3>1. ~fwScan
        BY <2>3 DEF IInv, WaitingIsGranted
      <3>2. UNCHANGED <<scanStarted, fwScan>>
        BY <2>1, <2>3, <3>1 DEF IInv, TypeOK
      <3> QED BY <1>2, <3>2
    <2> QED BY <2>2, <2>3
  <1> QED BY <1>2, <1>3 DEF ReadEvent, OnSchedScanResultsReady, OnMlmeEvent, fwVars

\* Unsubscribing ends the waiting.
LEMMA UnsubscribeStops ==
    ASSUME IInv, unsubscribeScanEvents
    PROVE  Service!StopWaiting \/ UNCHANGED Service!vars
  <1>1. proc = "running" /\ fwScan' = FALSE /\ UNCHANGED <<proc, valid, scanStarted>>
    BY DEF unsubscribeScanEvents
  <1>2. CASE fwScan
    <2>1. Waiting /\ Waiting' = FALSE /\ UNCHANGED ScanPhase
      BY <1>1, <1>2 DEF Waiting, ScanPhase, Callable
    <2> QED BY <2>1 DEF Service!StopWaiting, Waiting
  <1>3. CASE ~fwScan
    <2>1. UNCHANGED fwScan
      BY <1>1, <1>3 DEF IInv, TypeOK
    <2> QED BY <1>1, <2>1, SameView
  <1> QED BY <1>2, <1>3

\* The end of the object, or of the process, closes the service.
LEMMA Closes ==
    ASSUME Callable, ~Callable', ~Waiting'
    PROVE  Service!Close
  <1>1. ScanPhase # "off" /\ ScanPhase' = "off"
    BY DEF ScanPhase
  <1>2. Waiting' = FALSE
    BY DEF Waiting
  <1> QED BY <1>1, <1>2 DEF Service!Close, Waiting

\* A counted ENODEV is not seen, unless it is the fourth.
LEMMA NodevCloses ==
    ASSUME IInv, Callable, CountNodev
    PROVE  Service!Close \/ UNCHANGED Service!vars
  <1>1. UNCHANGED <<valid, scanStarted, fwScan>> /\ proc' \in {proc, "bad_driver"}
    BY DEF CountNodev, fwVars
  <1>2. CASE proc' = proc
    BY <1>1, <1>2, SameView
  <1>3. CASE proc' = "bad_driver"
    BY <1>3, Closes DEF Callable, Waiting
  <1> QED BY <1>1, <1>2, <1>3

\* A process that starts again is seen when it creates a scanner.
LEMMA RestartUnseen ==
    ASSUME Restart
    PROVE  UNCHANGED Service!vars
  <1>1. ScanPhase' = ScanPhase
    BY DEF Restart, ScanPhase, Callable
  <1>2. Waiting' = Waiting
    BY DEF Restart, Waiting
  <1> QED BY <1>1, <1>2 DEF Service!vars, Waiting

\* Every step of the scanner, the kernel and init is a step of the service or
\* is not seen by the framework.
LEMMA ServiceStep ==
    ASSUME IInv, [Next]_vars
    PROVE  [Service!Next]_(Service!vars)
  <1>1. CASE CreateScanner
    BY <1>1, CreateOpens DEF Service!Next
  <1>2. CASE Invalidate
    <2>1. Callable /\ valid' = FALSE /\ fwScan' = FALSE
      BY <1>2 DEF Invalidate
    <2> QED BY <2>1, Closes DEF Callable, Waiting, Service!Next
  <1>3. ASSUME NEW acked, ScanAccepted(acked)
        PROVE  [Service!Next]_(Service!vars)
    BY <1>3, AcceptedGrants DEF Service!Next
  <1>4. CASE Callable /\ CountNodev
    BY <1>4, NodevCloses DEF Service!Next
  <1>5. CASE abortScan
    BY <1>5, SameView DEF abortScan, scannerVars, fwVars
  <1>6. ASSUME NEW acked, PnoAccepted(acked) \/ PnoStopped(acked)
        PROVE  [Service!Next]_(Service!vars)
    BY <1>6, SameView DEF PnoAccepted, PnoStopped
  <1>7. CASE subscribeScanEvents \/ subscribePnoScanEvents
                \/ unsubscribePnoScanEvents
    BY <1>7, SameView DEF subscribeScanEvents, subscribePnoScanEvents,
        unsubscribePnoScanEvents, fwVars
  <1>8. CASE unsubscribeScanEvents
    BY <1>8, UnsubscribeStops DEF Service!Next
  <1>9. CASE ReadEvent
    BY <1>9, ReadFinishes DEF Service!Next
  <1>10. CASE ExternalScan \/ ScanEnds \/ SchedScanEvent \/ Associate
                \/ DeviceGone \/ DeviceBack
    BY <1>10, SameView DEF ExternalScan, ScanEnds, SchedScanEvent, Associate,
        DeviceGone, DeviceBack, scannerVars, fwVars
  <1>11. CASE Restart
    BY <1>11, RestartUnseen
  <1>12. CASE UNCHANGED vars
    BY <1>12, SameView DEF vars, scannerVars, fwVars
  <1> QED
    BY <1>1, <1>2, <1>3, <1>4, <1>5, <1>6, <1>7, <1>8, <1>9, <1>10, <1>11, <1>12
       DEF Next, scanRequest, ScanNodev, startPnoScan, PnoNodev, stopPnoScan

\* ScannerImpl implements ScanService but for its fairness: a framework waits
\* only for a scan it was granted, the end of a scan is told to who waits, and
\* no stale event, lost acknowledgement, tear down or restart shows it anything
\* else.
THEOREM ScannerIsService == Spec => ServiceSafety
  <1>1. Init => Service!Init
    BY DEF Init, Service!Init, ScanPhase, Callable
  <1>2. IInv /\ [Next]_vars => [Service!Next]_(Service!vars)
    BY ServiceStep
  <1> QED BY Invariance, <1>1, <1>2, PTL DEF Spec, ServiceSafety

=============================================================================
