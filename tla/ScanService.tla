----------------------------- MODULE ScanService -----------------------------
(***************************************************************************)
(* What a client interface promises a framework about one-shot scans: an   *)
(* abstract view of ScannerImpl (scanning/scanner_impl.cpp) that knows     *)
(* neither the kernel nor its events.  Scanner implements it.              *)
(***************************************************************************)

VARIABLES
    phase,   \* "off", "idle" or "scanning": whether there is a scanner, and
             \* whether it holds that a scan it was granted is running
    waiting  \* the framework waits for OnScanResultReady or OnScanRequestFailed

vars == <<phase, waiting>>

Init == phase = "off" /\ ~waiting

Open ==
    /\ phase = "off"
    /\ phase' = "idle"
    /\ UNCHANGED waiting

\* scanRequest returns success; a framework that has not subscribed to the
\* events of scans does not wait.  The kernel grants the next scan as soon as
\* the former is over, which the scanner may not have heard of yet.
Grant ==
    /\ phase # "off"
    /\ phase' = "scanning"
    /\ waiting' \in {waiting, TRUE}

\* The scan is over, and a framework that waits for it is told so.
Finish ==
    /\ phase = "scanning"
    /\ phase' = "idle"
    /\ waiting' = FALSE

\* The framework unsubscribes.
StopWaiting ==
    /\ waiting
    /\ waiting' = FALSE
    /\ UNCHANGED phase

\* The interface is torn down, or the process ends.
Close ==
    /\ phase # "off"
    /\ phase' = "off"
    /\ waiting' = FALSE

Next == Open \/ Grant \/ Finish \/ StopWaiting \/ Close

Spec == Init /\ [][Next]_vars /\ WF_vars(Finish)

=============================================================================
