--------------------------- MODULE SystemMonitor ---------------------------
(***************************************************************************)
(* The sampler thread of SystemMonitor: it reads the metrics of the host,  *)
(* publishes them to other threads, and evicts a backend (maybeEvict, see  *)
(* RelayRegistry) when memory and swap have both been critical for         *)
(* sustainSeconds. A sample is reduced to what the thresholds make of it,  *)
(* and time to the age of what the timer and the history remember. The     *)
(* wall clock is assumed not to be set while a timer runs.                 *)
(***************************************************************************)
EXTENDS Integers

CONSTANT Sustain   \* eviction.sustainSeconds, in ticks

\* parseSystemMonitorConfig does not let sustainSeconds be less than 1.
ASSUME SustainAssumption == Sustain \in Nat \ {0}

VARIABLES
    sampler,     \* the thread: "first" reading, "loop", "evict", or "exited"
    monStop,     \* stop_ of SystemMonitor
    level,       \* m, the last metrics that could be read
    emergency,   \* the published flag: swap above swapHighThreshold
    timer,       \* age of criticalSince, or Off (prevCritical is FALSE)
    since        \* history: ticks since the last eviction or sample that was not critical

samplerVars == <<sampler, monStop, level, emergency, timer, since>>

\* Swap above swapHighThreshold, memory and swap above their critical thresholds, both, or
\* neither: the thresholds are configured independently.
Levels == {"calm", "swap", "critical", "both"}
HighSwap == {"swap", "both"}
Off == -1
Later(t) == IF t = Off \/ t = Sustain THEN t ELSE t + 1

\* cfg_.enabled decides whether the thread runs at all.
SamplerInit ==
    /\ sampler \in {"first", "exited"} /\ monStop = FALSE
    /\ level = "calm" /\ emergency = FALSE /\ timer = Off /\ since = 0

-----------------------------------------------------------------------------
(* Faulty variants of definitions, each as a plausible bug would have it;  *)
(* the specification does not use them.                                    *)

\* The metrics of a failed read are used.
KeptNot(read) == read

\* The emergency flag is raised and never lowered.
EmergencyLatched(metrics) == emergency \/ metrics \in HighSwap

\* The timer is not reset when the pressure ends.
TimerKept(critical, expired) ==
    CASE expired -> Off
      [] critical /\ timer = Off -> 0
      [] OTHER -> timer

-----------------------------------------------------------------------------
\* The metrics can be read once, or the thread ends.
SamplerStart ==
    /\ sampler = "first"
    /\ \/ sampler' = "loop" /\ level' \in Levels
       \/ sampler' = "exited" /\ UNCHANGED level
    /\ UNCHANGED <<monStop, emergency, timer, since>>

\* A read that fails leaves the metrics of the last one that did not.
Kept(read) == IF read = "failed" THEN level ELSE read

Emergency(metrics) == metrics \in HighSwap
Critical(metrics) == metrics \in {"critical", "both"}

\* criticalSince is set by the first critical sample and reset by any other, or by an
\* eviction, whether it found a victim or not.
TimerAfter(critical, expired) ==
    CASE expired \/ ~critical -> Off
      [] critical /\ timer = Off -> 0
      [] OTHER -> timer

\* One pass of the loop, until the sleep or the eviction.
Sample(read) ==
    /\ sampler = "loop" /\ ~monStop
    /\ level' = Kept(read)
    /\ emergency' = Emergency(level')
    /\ LET critical == Critical(level')
           expired == critical /\ timer = Sustain
       IN /\ sampler' = IF expired THEN "evict" ELSE "loop"
          /\ timer' = TimerAfter(critical, expired)
          /\ since' = IF expired \/ ~critical THEN 0 ELSE since
    /\ UNCHANGED monStop

\* maybeEvict returns. Nothing is published while it runs.
Evicted ==
    /\ sampler = "evict"
    /\ sampler' = "loop"
    /\ UNCHANGED <<monStop, level, emergency, timer, since>>

SamplerExit ==
    /\ sampler = "loop" /\ monStop
    /\ sampler' = "exited"
    /\ UNCHANGED <<monStop, level, emergency, timer, since>>

Sampler == SamplerStart \/ Evicted \/ SamplerExit \/ \E read \in Levels \cup {"failed"} : Sample(read)

SamplerTick ==
    /\ timer' = Later(timer) /\ since' = Later(since)
    /\ UNCHANGED <<sampler, monStop, level, emergency>>

-----------------------------------------------------------------------------
SamplerTypeOK ==
    /\ sampler \in {"first", "loop", "evict", "exited"}
    /\ level \in Levels /\ monStop \in BOOLEAN /\ emergency \in BOOLEAN
    /\ timer \in Off..Sustain /\ since \in 0..Sustain

\* A backend is evicted only after sustainSeconds without an eviction and without a single
\* sample that was not critical: relief between two samples restarts the timer, and so does
\* an eviction. Reads that fail do not: evictions go on as if the pressure lasted.
EvictionSustained ==
    [][sampler # "evict" /\ sampler' = "evict" => since = Sustain]_samplerVars
=============================================================================
