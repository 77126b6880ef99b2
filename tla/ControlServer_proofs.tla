------------------------ MODULE ControlServer_proofs ------------------------
(***************************************************************************)
(* Proofs about ControlServer and the sampler that runs beside it, for any *)
(* sustainSeconds, addresses, rate limit and number of streams.            *)
(*                                                                         *)
(* The first part is about the sampler's timer, which no other thread      *)
(* touches. The invariant of the second has five parts: what the limiter   *)
(* remembers of the connections it let in (Limiting), the processes of a   *)
(* stream at each point of its thread (Groups), the descriptors still to   *)
(* be closed (FdsAccounted), how far the destructor has come (Joining),    *)
(* and what a command resolved without the PIN rests on (Bypassed).        *)
(***************************************************************************)
EXTENDS ControlServer, TLAPS, FiniteSetTheorems, SequenceTheorems, NumberLemmas

-----------------------------------------------------------------------------
(* The eviction timer.                                                     *)

\* EvictionSustained is not inductive by itself: the timer never runs ahead of the time
\* since the last eviction or relief.
TimerInv ==
    /\ SamplerTypeOK
    /\ timer # Off => timer <= since

\* The sampler's thread starts with the timer off.
LEMMA TimerInit == Init => TimerInv
<1> SUFFICES ASSUME SamplerInit PROVE TimerInv
  BY DEF Init
<1>1. timer \in Off..Sustain /\ since \in 0..Sustain /\ timer = Off
  BY SustainAssumption DEF SamplerInit, Off
<1>2. sampler \in {"first", "loop", "evict", "exited"} /\ level \in Levels
  BY DEF SamplerInit, Levels
<1> QED
  BY <1>1, <1>2 DEF SamplerInit, TimerInv, SamplerTypeOK

\* Steps of the sampler.
LEMMA TimerSample == ASSUME TimerInv, NEW read \in Levels \cup {"failed"}, Sample(read) PROVE TimerInv'
<1>1. level' \in Levels
  BY DEF Sample, Kept, TimerInv, SamplerTypeOK
<1>2. emergency' \in BOOLEAN
  BY DEF Sample, Emergency
<1>3. sampler' \in {"loop", "evict"} /\ monStop' = monStop
  BY DEF Sample
<1>4. timer' \in Off..Sustain /\ since' \in 0..Sustain /\ (timer' # Off => timer' <= since')
  BY SustainAssumption DEF Sample, TimerAfter, TimerInv, SamplerTypeOK, Off
<1> QED
  BY <1>1, <1>2, <1>3, <1>4 DEF TimerInv, SamplerTypeOK

\* A step of the sampler: the timer starts no earlier than the pressure.
LEMMA TimerSampler == TimerInv /\ Sampler => TimerInv'
<1> SUFFICES ASSUME TimerInv, Sampler PROVE TimerInv'
  OBVIOUS
<1>1. CASE SamplerStart
  BY <1>1 DEF SamplerStart, TimerInv, SamplerTypeOK
<1>2. CASE Evicted
  BY <1>2 DEF Evicted, TimerInv, SamplerTypeOK
<1>3. CASE SamplerExit
  BY <1>3 DEF SamplerExit, TimerInv, SamplerTypeOK
<1>4. CASE \E read \in Levels \cup {"failed"} : Sample(read)
  BY <1>4, TimerSample
<1> QED
  BY <1>1, <1>2, <1>3, <1>4 DEF Sampler

\* A second passes for both.
LEMMA TimerTick == TimerInv /\ SamplerTick => TimerInv'
<1> SUFFICES ASSUME TimerInv, SamplerTick PROVE TimerInv'
  OBVIOUS
<1>1. timer' \in Off..Sustain /\ since' \in 0..Sustain /\ (timer' # Off => timer' <= since')
  BY SustainAssumption DEF SamplerTick, Later, TimerInv, SamplerTypeOK, Off
<1> QED
  BY <1>1 DEF SamplerTick, TimerInv, SamplerTypeOK

\* Every other step leaves the sampler's variables alone, but for monStop.
LEMMA TimerMain == TimerInv /\ (Main \/ Signal) /\ MainOnly => TimerInv'
<1> SUFFICES ASSUME TimerInv, Main \/ Signal, MainOnly PROVE TimerInv'
  OBVIOUS
<1>1. monStop' \in BOOLEAN
  BY DEF Main, MainTest, MainPause, Signal, MainStopsSampler, MainJoinsSampler, StopSets,
         StopCloses, StopJoinsServer, StopJoinsStreams, TimerInv, SamplerTypeOK
<1> QED
  BY <1>1 DEF MainOnly, TimerInv, SamplerTypeOK

\* Every step of the specification.
LEMMA TimerNext == TimerInv /\ [Next]_vars => TimerInv'
<1> SUFFICES ASSUME TimerInv, [Next]_vars PROVE TimerInv'
  OBVIOUS
<1>1. CASE SamplerStep
  BY <1>1, TimerSampler DEF SamplerStep
<1>2. CASE UNCHANGED samplerVars
  BY <1>2 DEF samplerVars, TimerInv, SamplerTypeOK
<1>3. CASE (Main \/ Signal) /\ MainOnly
  BY <1>3, TimerMain
<1>4. CASE Tick
  BY <1>4, TimerTick DEF Tick
<1> QED
  BY <1>1, <1>2, <1>3, <1>4 DEF Next, Elsewhere, vars

\* The sampler's variables keep their types and the timer its bound, whatever the control
\* server and the main thread do (loop of system_monitor.cpp).
THEOREM TimerCorrect == Spec => []TimerInv
BY TimerInit, TimerNext, PTL DEF Spec

\* No step but that of an expired timer starts an eviction.
LEMMA EvictionStep ==
    ASSUME TimerInv, [Next]_vars, sampler # "evict", sampler' = "evict" PROVE since = Sustain
<1>1. CASE SamplerStep
  <2>1. PICK read \in Levels \cup {"failed"} : Sample(read)
    BY <1>1 DEF SamplerStep, Sampler, SamplerStart, Evicted, SamplerExit
  <2>2. timer = Sustain
    BY <2>1 DEF Sample
  <2> QED
    BY <2>2, SustainAssumption DEF TimerInv, SamplerTypeOK, Off
<1>2. CASE UNCHANGED samplerVars
  BY <1>2 DEF samplerVars
<1>3. CASE (Main \/ Signal) /\ MainOnly
  BY <1>3 DEF MainOnly
<1>4. CASE Tick
  BY <1>4 DEF Tick, SamplerTick
<1> QED
  BY <1>1, <1>2, <1>3, <1>4 DEF Next, Elsewhere, vars

\* A backend is evicted only after sustainSeconds without an eviction or a sample that was
\* not critical, whatever sustainSeconds is (loop of system_monitor.cpp).
THEOREM EvictionsSustained == Spec => EvictionSustained
<1>1. TimerInv /\ [Next]_vars => [sampler # "evict" /\ sampler' = "evict" => since = Sustain]_samplerVars
  BY EvictionStep
<1> QED
  BY <1>1, TimerCorrect, PTL DEF Spec, EvictionSustained

-----------------------------------------------------------------------------
(* The rate limiter.                                                       *)

\* g are the ages of the connections let in during the last Window, in order of arrival; w
\* has the same at its end, after some that have expired.
Covers(w, g) ==
    LET d == Len(w) - Len(g) IN
    /\ d >= 0
    /\ \A i \in 1..d : w[i] = Window
    /\ \A i \in 1..Len(g) : g[i] = w[d + i] /\ g[i] < Window
    /\ \A i, j \in 1..Len(g) : i <= j => g[j] <= g[i]

\* The limiter has forgotten no connection that counts.
Limiting ==
    /\ window \in [Ips -> Seq(0..Window)] /\ granted \in [Ips -> Seq(0..Window)]
    /\ \A ip \in Ips : Covers(window[ip], granted[ip])
    /\ RateBound

\* Where the expired entries are a prefix, just they are erased.
LEMMA RecentOf ==
    ASSUME NEW s \in Seq(0..Window), NEW n \in 0..Len(s),
           \A i \in 1..n : s[i] >= Window,
           \A i \in (n + 1)..Len(s) : s[i] < Window
    PROVE  /\ Recent(s) \in Seq(0..Window) /\ Len(Recent(s)) = Len(s) - n
           /\ \A i \in 1..(Len(s) - n) : Recent(s)[i] = s[n + i]
<1> DEFINE Cut(m) == /\ \A i \in 1..m : s[i] >= Window
                     /\ m < Len(s) => s[m + 1] < Window
<1>1. Cut(n)
  OBVIOUS
<1>2. ASSUME NEW m \in 0..Len(s), Cut(m) PROVE m = n
  <2>1. CASE m < n
    BY <1>2, <2>1, ControlAssumption
  <2>2. CASE n < m
    BY <1>2, <2>2, ControlAssumption
  <2> QED
    BY <2>1, <2>2
<1>3. Expired(s) = n
  BY <1>1, <1>2 DEF Expired
<1>4. Recent(s) = SubSeq(s, n + 1, Len(s))
  BY <1>3 DEF Recent
<1>5. \A i \in (n + 1)..Len(s) : s[i] \in 0..Window
  <2>1. Len(s) \in Nat /\ \A i \in 1..Len(s) : s[i] \in 0..Window
    BY ElementOfSeq, LenProperties
  <2> QED
    BY <2>1
<1>6. /\ SubSeq(s, n + 1, Len(s)) \in Seq(0..Window)
      /\ Len(SubSeq(s, n + 1, Len(s))) = IF n + 1 <= Len(s) THEN Len(s) - (n + 1) + 1 ELSE 0
      /\ \A i \in 1..(Len(s) - (n + 1) + 1) : SubSeq(s, n + 1, Len(s))[i] = s[(n + 1) + i - 1]
  BY ONLY <1>5, SubSeqProperties, n \in Int, Len(s) \in Int
<1> QED
  BY <1>4, <1>6

\* What allow() counts is what has been let in during the last Window.
LEMMA RecentGranted ==
    ASSUME NEW w \in Seq(0..Window), NEW g \in Seq(0..Window), Covers(w, g)
    PROVE  Recent(w) = g
<1> DEFINE d == Len(w) - Len(g)
<1>1. d \in 0..Len(w)
  BY DEF Covers
<1>2. \A i \in 1..d : w[i] >= Window
  BY ControlAssumption DEF Covers
<1>3. \A i \in (d + 1)..Len(w) : w[i] < Window
  <2> SUFFICES ASSUME NEW i \in (d + 1)..Len(w) PROVE w[i] < Window
    OBVIOUS
  <2>1. i - d \in 1..Len(g)
    BY <1>1
  <2>2. g[i - d] = w[d + (i - d)] /\ g[i - d] < Window
    BY <2>1 DEF Covers
  <2>3. d + (i - d) = i
    BY <1>1
  <2> QED
    BY <2>2, <2>3
<1> HIDE DEF d
<1>4. Recent(w) \in Seq(0..Window) /\ Len(Recent(w)) = Len(w) - d
      /\ \A i \in 1..(Len(w) - d) : Recent(w)[i] = w[d + i]
  BY <1>1, <1>2, <1>3, RecentOf
<1>5. Len(Recent(w)) = Len(g) /\ \A i \in 1..Len(g) : Recent(w)[i] = g[i]
  BY <1>1, <1>4 DEF Covers, d
<1> QED
  BY <1>4, <1>5, SeqEqual

\* What a sequence of ages is made of.
LEMMA AgesType ==
    ASSUME NEW s \in Seq(0..Window)
    PROVE  /\ Len(s) \in Nat /\ DOMAIN s = 1..Len(s)
           /\ \A i \in 1..Len(s) : s[i] \in 0..Window
  BY LenProperties, ElementOfSeq

\* A tick makes every age one more, up to the limit.
LEMMA OlderAges ==
    ASSUME NEW s \in Seq(0..Window)
    PROVE  /\ Older(s) \in Seq(0..Window) /\ Len(Older(s)) = Len(s)
           /\ \A i \in 1..Len(s) : Older(s)[i] = IF s[i] < Window THEN s[i] + 1 ELSE s[i]
<1> DEFINE age(i) == IF s[i] < Window THEN s[i] + 1 ELSE s[i]
<1>1. Len(s) \in Nat /\ DOMAIN s = 1..Len(s)
  BY AgesType
<1>2. \A i \in 1..Len(s) : age(i) \in 0..Window
  BY AgesType, ControlAssumption
<1>3. Older(s) = [i \in 1..Len(s) |-> age(i)]
  BY <1>1 DEF Older
<1> HIDE DEF age
<1>4. Older(s) \in Seq(0..Window)
  BY <1>1, <1>2, <1>3, IsASeq
<1>5. DOMAIN Older(s) = 1..Len(s) /\ \A i \in 1..Len(s) : Older(s)[i] = age(i)
  BY <1>3
<1>6. Len(Older(s)) = Len(s)
  <2>1. Len(Older(s)) \in Nat /\ 1..Len(Older(s)) = 1..Len(s)
    BY <1>4, <1>5, LenProperties
  <2> QED
    BY <1>1, <2>1
<1> QED
  BY <1>4, <1>5, <1>6 DEF age

\* A tick later, the entries that have just expired come first, and the limiter still
\* remembers all others.
LEMMA OlderCovers ==
    ASSUME NEW w \in Seq(0..Window), NEW g \in Seq(0..Window), Covers(w, g)
    PROVE  /\ Recent(Older(g)) \in Seq(0..Window)
           /\ Covers(Older(w), Recent(Older(g)))
           /\ Len(Recent(Older(g))) <= Len(g)
<1> DEFINE d == Len(w) - Len(g)
           Fresh == {i \in 1..(Len(g) + 1) : i = Len(g) + 1 \/ g[i] + 1 < Window}
           h == Recent(Older(g))
<1>1. Window \in Nat /\ Len(g) \in Nat /\ Len(w) \in Nat /\ d \in Nat
  BY ControlAssumption, AgesType DEF Covers
<1>2. /\ \A i \in 1..Len(g) : g[i] \in 0..Window /\ g[i] < Window /\ g[i] = w[d + i]
      /\ \A i, j \in 1..Len(g) : i <= j => g[j] <= g[i]
      /\ \A i \in 1..d : w[i] = Window
  BY AgesType DEF Covers
<1>3. /\ Older(g) \in Seq(0..Window) /\ Len(Older(g)) = Len(g) /\ Len(Older(w)) = Len(w)
      /\ \A i \in 1..Len(w) : Older(w)[i] = IF w[i] < Window THEN w[i] + 1 ELSE w[i]
      /\ \A i \in 1..Len(g) : Older(g)[i] = IF g[i] < Window THEN g[i] + 1 ELSE g[i]
  BY OlderAges
<1>4. \A i \in 1..Len(g) : Older(g)[i] = g[i] + 1
  BY <1>2, <1>3
<1>5. PICK f \in Fresh : \A i \in Fresh : f <= i
  <2>1. Len(g) + 1 \in Fresh /\ Fresh \subseteq Nat
    BY <1>1
  <2> HIDE DEF Fresh
  <2> QED
    BY <2>1, LeastNumber
<1>6. f - 1 \in 0..Len(g) /\ f \in 1..(Len(g) + 1)
  BY <1>1, <1>5
<1> HIDE DEF d
<1>7. \A i \in 1..(f - 1) : i \in 1..Len(g) /\ Older(g)[i] = Window
  <2> SUFFICES ASSUME NEW i \in 1..(f - 1) PROVE i \in 1..Len(g) /\ Older(g)[i] = Window
    OBVIOUS
  <2>1. i \in 1..Len(g) /\ i < f
    BY <1>1, <1>6
  <2>2. ~(g[i] + 1 < Window)
    BY <1>1, <1>5, <2>1
  <2> QED
    BY <1>1, <1>2, <1>4, <2>1, <2>2
<1>8. \A i \in f..Len(g) : Older(g)[i] < Window
  <2> SUFFICES ASSUME NEW i \in f..Len(g) PROVE Older(g)[i] < Window
    OBVIOUS
  <2>1. i \in 1..Len(g) /\ f \in 1..Len(g) /\ f <= i
    BY <1>1, <1>6
  <2>2. g[f] + 1 < Window
    BY <1>1, <1>5, <2>1
  <2>3. g[i] <= g[f] /\ g[i] \in 0..Window /\ g[f] \in 0..Window
    BY <1>2, <2>1
  <2> QED
    BY <1>1, <1>4, <2>1, <2>2, <2>3
<1> HIDE DEF Fresh
<1>9. /\ h \in Seq(0..Window) /\ Len(h) = Len(g) - (f - 1)
      /\ \A i \in 1..(Len(g) - (f - 1)) : h[i] = Older(g)[(f - 1) + i]
  <2> DEFINE n == f - 1
  <2>1. n \in 0..Len(Older(g)) /\ n + 1 = f
    BY <1>3, <1>6
  <2>2. \A i \in 1..n : Older(g)[i] >= Window
    BY <1>1, <1>7
  <2>3. \A i \in (n + 1)..Len(Older(g)) : Older(g)[i] < Window
    BY <1>3, <1>8, <2>1
  <2> HIDE DEF n
  <2>4. /\ h \in Seq(0..Window) /\ Len(h) = Len(Older(g)) - n
        /\ \A i \in 1..(Len(Older(g)) - n) : h[i] = Older(g)[n + i]
    BY <1>3, <2>1, <2>2, <2>3, RecentOf
  <2> QED
    BY <1>3, <2>4 DEF n
<1> HIDE DEF h
<1>10. Len(Older(w)) - Len(h) = d + (f - 1) /\ d + (f - 1) >= 0
  BY <1>1, <1>3, <1>6, <1>9 DEF d
<1>11. \A i \in 1..(d + (f - 1)) : Older(w)[i] = Window
  <2> SUFFICES ASSUME NEW i \in 1..(d + (f - 1)) PROVE Older(w)[i] = Window
    OBVIOUS
  <2>1. i \in 1..Len(w)
    BY <1>1, <1>6 DEF d
  <2>2. CASE i <= d
    BY <1>1, <1>2, <1>3, <2>1, <2>2
  <2>3. CASE i > d
    <3>1. i - d \in 1..(f - 1) /\ d + (i - d) = i
      BY <1>1, <1>6, <2>3
    <3>2. i - d \in 1..Len(g) /\ Older(g)[i - d] = Window
      BY <1>7, <3>1
    <3>3. g[i - d] = w[i] /\ g[i - d] < Window /\ g[i - d] \in 0..Window
      BY <1>2, <3>1, <3>2
    <3>4. Older(g)[i - d] = g[i - d] + 1
      BY <1>4, <3>2
    <3>5. Older(w)[i] = w[i] + 1
      BY <1>3, <2>1, <3>3
    <3> QED
      BY <3>2, <3>3, <3>4, <3>5
  <2> QED
    BY <1>1, <1>6, <2>2, <2>3
<1>12. \A i \in 1..Len(h) : h[i] = Older(w)[(d + (f - 1)) + i] /\ h[i] < Window
  <2> SUFFICES ASSUME NEW i \in 1..Len(h)
               PROVE  h[i] = Older(w)[(d + (f - 1)) + i] /\ h[i] < Window
    OBVIOUS
  <2> DEFINE k == (f - 1) + i
  <2>1. k \in f..Len(g) /\ k \in 1..Len(g) /\ i \in 1..(Len(g) - (f - 1))
    BY <1>1, <1>6, <1>9
  <2>2. d + k \in 1..Len(w) /\ d + k = (d + (f - 1)) + i
    BY <1>1, <1>6, <2>1 DEF d
  <2> HIDE DEF k
  <2>3. h[i] = Older(g)[k]
    BY <1>9, <2>1 DEF k
  <2>4. g[k] = w[d + k] /\ g[k] < Window /\ Older(g)[k] < Window /\ Older(g)[k] = g[k] + 1
    BY <1>2, <1>4, <1>8, <2>1
  <2>5. Older(w)[d + k] = w[d + k] + 1
    BY <1>3, <2>2, <2>4
  <2> QED
    BY <2>2, <2>3, <2>4, <2>5
<1>13. \A i, j \in 1..Len(h) : i <= j => h[j] <= h[i]
  <2> SUFFICES ASSUME NEW i \in 1..Len(h), NEW j \in 1..Len(h), i <= j PROVE h[j] <= h[i]
    OBVIOUS
  <2> DEFINE k == (f - 1) + i
             l == (f - 1) + j
  <2>0. i \in 1..(Len(g) - (f - 1)) /\ j \in 1..(Len(g) - (f - 1))
    BY <1>9
  <2>1. k \in 1..Len(g) /\ l \in 1..Len(g) /\ k <= l
    BY <1>1, <1>6, <2>0
  <2> HIDE DEF k, l
  <2>2. h[i] = g[k] + 1 /\ h[j] = g[l] + 1
    BY <1>4, <1>9, <2>0, <2>1 DEF k, l
  <2>3. g[l] <= g[k] /\ g[l] \in 0..Window /\ g[k] \in 0..Window
    BY <1>2, <2>1
  <2> QED
    BY <1>1, <2>2, <2>3
<1>14. Covers(Older(w), h)
  BY <1>10, <1>11, <1>12, <1>13 DEF Covers
<1>15. Len(h) <= Len(g)
  BY <1>1, <1>6, <1>9
<1> QED
  BY <1>9, <1>14, <1>15 DEF h

\* A connection is let in.
LEMMA AppendCovers ==
    ASSUME NEW w \in Seq(0..Window), NEW g \in Seq(0..Window), Covers(w, g)
    PROVE  Append(g, 0) \in Seq(0..Window) /\ Covers(Append(g, 0), Append(g, 0))
<1> DEFINE h == Append(g, 0)
<1>1. /\ Window \in Nat \ {0} /\ Len(g) \in Nat
      /\ \A i \in 1..Len(g) : g[i] \in 0..Window /\ g[i] < Window
      /\ \A i, j \in 1..Len(g) : i <= j => g[j] <= g[i]
  BY ControlAssumption, AgesType DEF Covers
<1>2. /\ h \in Seq(0..Window) /\ Len(h) = Len(g) + 1
      /\ \A i \in 1..Len(g) : h[i] = g[i]
      /\ h[Len(g) + 1] = 0
  BY <1>1, AppendProperties
<1> HIDE DEF h
<1>3. \A i \in 1..Len(h) : h[i] < Window /\ 0 <= h[i] /\ h[i] \in Int
  <2> SUFFICES ASSUME NEW i \in 1..Len(h) PROVE h[i] < Window /\ 0 <= h[i] /\ h[i] \in Int
    OBVIOUS
  <2>1. i \in 1..Len(g) \/ i = Len(g) + 1
    BY <1>1, <1>2
  <2> QED
    BY <1>1, <1>2, <2>1
<1>4. \A i, j \in 1..Len(h) : i <= j => h[j] <= h[i]
  <2> SUFFICES ASSUME NEW i \in 1..Len(h), NEW j \in 1..Len(h), i <= j PROVE h[j] <= h[i]
    OBVIOUS
  <2>1. CASE j = Len(g) + 1
    BY <1>2, <1>3, <2>1
  <2>2. CASE j # Len(g) + 1
    <3>1. i \in 1..Len(g) /\ j \in 1..Len(g)
      BY <1>1, <1>2, <2>2
    <3> QED
      BY <1>1, <1>2, <3>1
  <2> QED
    BY <2>1, <2>2
<1>5. Len(h) - Len(h) = 0 /\ \A i \in 1..Len(h) : h[i] = h[0 + i]
  BY <1>1, <1>2
<1>6. Covers(h, h)
  BY <1>3, <1>4, <1>5 DEF Covers
<1> QED
  BY <1>2, <1>6 DEF h

\* The limiter's invariant at its start and under each of its uses.
LEMMA LimitingInit == Init => Limiting
<1> SUFFICES ASSUME Init PROVE Limiting
  OBVIOUS
<1>1. <<>> \in Seq(0..Window) /\ Len(<<>>) = 0
  BY EmptySeq
<1>2. Covers(<<>>, <<>>)
  BY <1>1 DEF Covers
<1> QED
  BY <1>1, <1>2, ControlAssumption DEF Init, Limiting, RateBound

\* allow() admits a connection: the window grows by it.
LEMMA LimitingAccept ==
    ASSUME Limiting, NEW ip \in Ips, ServerAccept(ip)
    PROVE  Limiting'
<1>1. /\ window[ip] \in Seq(0..Window) /\ granted[ip] \in Seq(0..Window)
      /\ Covers(window[ip], granted[ip])
  BY DEF Limiting
<1>2. Recent(window[ip]) = granted[ip]
  BY <1>1, RecentGranted
<1> DEFINE g == Append(granted[ip], 0)
<1>3. /\ window' = [window EXCEPT ![ip] = g]
      /\ granted' = [granted EXCEPT ![ip] = g]
      /\ Len(granted[ip]) < MaxConnections
  BY <1>2 DEF ServerAccept, Admits
<1>4. g \in Seq(0..Window) /\ Covers(g, g) /\ Len(g) <= MaxConnections
  BY <1>1, <1>3, AppendCovers, AppendProperties, AgesType, ControlAssumption
<1> HIDE DEF g
<1> QED
  BY <1>3, <1>4 DEF Limiting, RateBound

\* allow() refuses a connection: the window only loses what has expired.
LEMMA LimitingReject ==
    ASSUME Limiting, NEW ip \in Ips, ServerRejects(ip)
    PROVE  Limiting'
<1> DEFINE g == granted[ip]
<1>1. /\ window[ip] \in Seq(0..Window) /\ g \in Seq(0..Window) /\ Covers(window[ip], g)
  BY DEF Limiting
<1>2. window' = [window EXCEPT ![ip] = g] /\ granted' = granted
  BY <1>1, RecentGranted DEF ServerRejects
<1> HIDE DEF g
<1>3. Covers(g, g)
  <2>1. Len(g) - Len(g) = 0 /\ \A i \in 1..Len(g) : g[i] = g[0 + i]
    BY <1>1, AgesType
  <2> QED
    BY <1>1, <2>1 DEF Covers
<1> QED
  BY <1>1, <1>2, <1>3 DEF Limiting, RateBound, g

\* A second passes: what leaves the recent grants had expired in the window too.
LEMMA LimitingTick ==
    ASSUME Limiting, Tick
    PROVE  Limiting'
<1> DEFINE g(ip) == Recent(Older(granted[ip]))
<1>1. window' = [ip \in Ips |-> Older(window[ip])] /\ granted' = [ip \in Ips |-> g(ip)]
  BY DEF Tick
<1>2. \A ip \in Ips : /\ Older(window[ip]) \in Seq(0..Window) /\ g(ip) \in Seq(0..Window)
                      /\ Covers(Older(window[ip]), g(ip))
                      /\ Len(g(ip)) <= Len(granted[ip])
  BY OlderCovers, OlderAges DEF Limiting
<1>3. \A ip \in Ips : Len(g(ip)) <= MaxConnections
  BY <1>2, AgesType, ControlAssumption DEF Limiting, RateBound
<1> HIDE DEF g
<1> QED
  BY <1>1, <1>2, <1>3 DEF Limiting, RateBound

\* No other step has to do with the limiter.
LEMMA LimitingStep == Limiting /\ [Next]_vars => Limiting'
<1> SUFFICES ASSUME Limiting, [Next]_vars PROVE Limiting'
  OBVIOUS
<1>1. CASE UNCHANGED limiter
  BY <1>1 DEF limiter, Limiting, RateBound
<1>2. ASSUME NEW ip \in Ips, ServerRejects(ip) \/ ServerAccept(ip) PROVE Limiting'
  BY <1>2, LimitingReject, LimitingAccept
<1>3. CASE Tick
  BY <1>3, LimitingTick
<1>4. ASSUME ServerSteps \/ ServerReply
             \/ \E from \in {"preset", "pin", "bypass"}, s \in BOOLEAN : ServerResolve(from, s)
      PROVE  UNCHANGED limiter
  BY <1>4 DEF ServerSteps, ServerStart, ServerHead, ServerNoClient, ServerAnswer, ServerResolve,
     ServerSync, ServerTimeout, ServerCollected, ServerWait, ServerStreamFails, ServerStream,
     ServerReply
<1>5. ASSUME NEW k \in Started, Stream(k) \/ GroupStep(k) PROVE UNCHANGED limiter
  BY <1>5 DEF Stream, StreamSets, StreamStart, StreamOutput, StreamWritten, StreamEof,
     StreamTimeout, StreamReap, StreamEnd, GroupStep
<1>6. ASSUME SamplerStep \/ ShellExit \/ Main \/ Signal \/ UNCHANGED vars
      PROVE  UNCHANGED limiter
  BY <1>6 DEF SamplerStep, ShellExit, Main, MainTest, MainPause, Signal, MainStopsSampler,
     MainJoinsSampler, StopSets, StopCloses, StopJoinsServer, StopJoinsStreams, serverVars, vars
<1> QED
  BY <1>1, <1>2, <1>3, <1>4, <1>5, <1>6 DEF Next, Server

\* No address gets more than maxConnections into any stretch of windowMs, for any limit.
THEOREM RateLimited == Spec => []RateBound
<1>1. Limiting => RateBound
  BY DEF Limiting
<1> QED
  BY <1>1, LimitingInit, LimitingStep, PTL DEF Spec

-----------------------------------------------------------------------------
(* Streams, descriptors and the end of the server.                         *)

\* The states of a stream thread.
Streams == [at : {"init", "poll", "write", "reap", "term", "done"}, why : {"none", "eof", "cut"},
            sh : {"none", "run", "zombie", "gone"}, kids : BOOLEAN]

\* The streams that still have their connection.
Unfinished == {k \in Started : streams[k].at # "done"}

\* TypeOK, one conjunct per variable.
Types ==
    /\ stop \in BOOLEAN /\ streamed \in BOOLEAN /\ lapsed \in BOOLEAN /\ signalled \in BOOLEAN
    /\ lfd \in {"none", "open", "closed"}
    /\ server \in {"start", "head", "accept", "request", "run", "sync", "wait", "reply", "exited"}
    /\ grant \in {"none", "preset", "pin", "bypass"} /\ shell \in {"none", "run", "zombie"}
    /\ streams \in Seq(Streams) /\ Len(streams) <= MaxStreams /\ todo \subseteq Started
    /\ main \in {"test", "tested", "pause", "leave", "sampler", "stop", "close", "join", "streams",
                 "exited"}

\* A stream has processes only while its thread is between fork() and the wait; a stream that
\* was cut off has none afterwards.
Groups ==
    /\ \A k \in Started :
        /\ streams[k].at = "init" => streams[k].sh = "none" /\ ~streams[k].kids
        /\ streams[k].at \in {"poll", "write", "reap"} => streams[k].sh \in {"run", "zombie"}
    /\ CutLeavesNothing

\* The server thread starts no stream any more when the list is taken.
Joining ==
    /\ main \in {"streams", "exited"} => server = "exited"
    /\ main = "streams" => todo = Started
    /\ main = "exited" => Unfinished = {}

\* The emergency flag agrees with the last metrics, and a command resolved with it with the
\* metrics of that moment.
Bypassed ==
    /\ emergency => level \in HighSwap /\ sampler # "first"
    /\ server = "run" /\ grant = "bypass" => level \in HighSwap \/ lapsed

\* The inductive invariant of the control server.
Inv == TimerInv /\ Types /\ Groups /\ FdsAccounted /\ Joining /\ Bypassed

\* The server starts without a client or a stream.
LEMMA ControlInit == Init => Inv
<1> SUFFICES ASSUME Init PROVE Inv
  OBVIOUS
<1> USE DEF Init
<1>1. TimerInv
  BY TimerInit
<1>2. Started = {} /\ Unfinished = {} /\ Len(streams) = 0 /\ streams \in Seq(Streams)
  BY EmptySeq DEF Started, Unfinished
<1>3. Types
  <2>1. streams \in Seq(Streams) /\ Len(streams) <= MaxStreams /\ todo \subseteq Started
    BY <1>2, ControlAssumption
  <2> QED
    BY <2>1 DEF Types
<1>4. Groups
  BY <1>2 DEF Groups, CutLeavesNothing, Left
<1>5. FdsAccounted
  BY <1>2, FS_EmptySet DEF FdsAccounted, Unfinished
<1>6. Joining
  BY DEF Joining
<1>7. Bypassed
  BY DEF Bypassed, SamplerInit
<1> QED
  BY <1>1, <1>3, <1>4, <1>5, <1>6, <1>7 DEF Inv

\* As many streams as there are, none is counted twice.
LEMMA UnfinishedFinite ==
    ASSUME Types
    PROVE  /\ Started = 1..Len(streams) /\ Len(streams) \in Nat
           /\ IsFiniteSet(Unfinished) /\ Cardinality(Unfinished) \in Nat
<1>1. Started = 1..Len(streams) /\ Len(streams) \in Nat
  BY LenProperties DEF Types, Started
<1>2. IsFiniteSet(Started)
  BY <1>1, FS_Interval
<1>3. Unfinished \subseteq Started
  BY DEF Unfinished
<1> QED
  BY <1>1, <1>2, <1>3, FS_Subset, FS_CardinalityType

\* One stream changes.
LEMMA StreamSet ==
    ASSUME Types, NEW k \in Started, NEW r \in Streams, streams' = [streams EXCEPT ![k] = r]
    PROVE  /\ streams' \in Seq(Streams) /\ Len(streams') = Len(streams) /\ Started' = Started
           /\ \A j \in Started : streams'[j] = IF j = k THEN r ELSE streams[j]
<1>1. k \in 1..Len(streams) /\ streams \in Seq(Streams)
  BY UnfinishedFinite DEF Types
<1>2. /\ streams' \in Seq(Streams) /\ Len(streams') = Len(streams)
      /\ \A j \in 1..Len(streams) : streams'[j] = IF j = k THEN r ELSE streams[j]
  BY <1>1, ExceptSeq
<1>3. Started' = Started
  BY <1>1, <1>2, LenProperties DEF Started
<1> QED
  BY <1>2, <1>3, UnfinishedFinite

\* A step of a stream, of its thread or of its processes, that does not end its thread.
LEMMA StreamKeeps ==
    ASSUME Inv, NEW k \in Started, NEW r \in Streams, StreamSets(k, r), Elsewhere,
           r.at = "done" <=> streams[k].at = "done",
           r.at = "init" => r.sh = "none" /\ ~r.kids,
           r.at \in {"poll", "write", "reap"} => r.sh \in {"run", "zombie"},
           r.at \in {"term", "done"} /\ r.why = "cut" => ~Left(r)
    PROVE  Inv'
<1> USE DEF Inv, StreamSets, Elsewhere
<1>1. /\ streams' \in Seq(Streams) /\ Len(streams') = Len(streams) /\ Started' = Started
      /\ \A j \in Started : streams'[j] = IF j = k THEN r ELSE streams[j]
  BY StreamSet
<1>2. TimerInv'
  BY DEF TimerInv, SamplerTypeOK, samplerVars
<1>3. Types'
  BY <1>1 DEF Types, run, mainVars
<1>4. Groups'
  BY <1>1 DEF Groups, CutLeavesNothing, Left
<1>5. Unfinished' = Unfinished
  BY <1>1 DEF Unfinished
<1>6. FdsAccounted'
  BY <1>5 DEF FdsAccounted, Unfinished
<1>7. Joining'
  BY <1>1, <1>5 DEF Joining, mainVars
<1>8. Bypassed'
  BY DEF Bypassed, samplerVars, run
<1> QED
  BY <1>2, <1>3, <1>4, <1>6, <1>7, <1>8

\* The thread of a stream closes its connection, as the last thing it does.
LEMMA StreamCloses ==
    ASSUME Inv, NEW k \in Started, StreamEnd(k), Elsewhere
    PROVE  Inv'
<1> USE DEF Inv, StreamEnd, Elsewhere
<1> DEFINE r == [streams[k] EXCEPT !.at = "done"]
<1>0. streams[k] \in Streams
  BY UnfinishedFinite, ElementOfSeq DEF Types
<1>1. /\ r \in Streams /\ r.at = "done" /\ r.why = streams[k].why /\ r.sh = streams[k].sh
      /\ r.kids = streams[k].kids /\ streams' = [streams EXCEPT ![k] = r]
  BY <1>0 DEF Streams
<1> HIDE DEF r
<1>2. /\ streams' \in Seq(Streams) /\ Len(streams') = Len(streams) /\ Started' = Started
      /\ \A j \in Started : streams'[j] = IF j = k THEN r ELSE streams[j]
  BY <1>1, StreamSet
<1>3. TimerInv'
  BY DEF TimerInv, SamplerTypeOK, samplerVars
<1>4. Types'
  BY <1>2 DEF Types, run, mainVars
<1>5. Groups'
  BY <1>1, <1>2 DEF Groups, CutLeavesNothing, Left
<1>6. Unfinished' = Unfinished \ {k} /\ k \in Unfinished
  BY <1>1, <1>2 DEF Unfinished
<1>7. Cardinality(Unfinished') = Cardinality(Unfinished) - 1 /\ Cardinality(Unfinished) \in Nat
  BY <1>6, UnfinishedFinite, FS_RemoveElement
<1>8. FdsAccounted'
  BY <1>7 DEF FdsAccounted, Unfinished
<1>9. Joining'
  BY <1>2, <1>6 DEF Joining, mainVars
<1>10. Bypassed'
  BY DEF Bypassed, samplerVars, run
<1> QED
  BY <1>3, <1>4, <1>5, <1>8, <1>9, <1>10

\* Every step of a stream's thread.
LEMMA ControlStream ==
    ASSUME Inv, NEW k \in Started, Stream(k), Elsewhere
    PROVE  Inv'
<1> DEFINE s == streams[k]
<1>1. /\ s \in Streams
      /\ s.at = "init" => s.sh = "none" /\ ~s.kids
      /\ s.at \in {"poll", "write", "reap"} => s.sh \in {"run", "zombie"}
  BY UnfinishedFinite, ElementOfSeq DEF Inv, Types, Groups
<1> USE DEF Streams, Left
<1>2. CASE StreamStart(k)
  <2>1. s.at = "init"
    BY <1>2 DEF StreamStart
  <2>2. CASE StreamSets(k, [s EXCEPT !.at = "term"])
    BY <1>1, <2>1, <2>2, StreamKeeps
  <2>3. CASE StreamSets(k, [s EXCEPT !.at = "reap", !.sh = "run", !.why = "cut"])
    BY <1>1, <2>1, <2>3, StreamKeeps
  <2>4. CASE StreamSets(k, [s EXCEPT !.at = "poll", !.sh = "run", !.why = "none"])
    BY <1>1, <2>1, <2>4, StreamKeeps
  <2>5. CASE stop
    BY <1>2, <2>2, <2>3, <2>5 DEF StreamStart
  <2>6. CASE ~stop
    BY <1>2, <2>2, <2>4, <2>6 DEF StreamStart
  <2> QED
    BY <2>5, <2>6
<1>3. CASE StreamOutput(k)
  BY <1>1, <1>3, StreamKeeps DEF StreamOutput
<1>4. CASE StreamWritten(k)
  BY <1>1, <1>4, StreamKeeps DEF StreamWritten
<1>5. CASE StreamEof(k)
  BY <1>1, <1>5, StreamKeeps DEF StreamEof
<1>6. CASE StreamTimeout(k)
  BY <1>1, <1>6, StreamKeeps DEF StreamTimeout
<1>7. CASE StreamReap(k)
  BY <1>1, <1>7, StreamKeeps DEF StreamReap
<1>8. CASE StreamEnd(k)
  BY <1>8, StreamCloses
<1> QED
  BY <1>2, <1>3, <1>4, <1>5, <1>6, <1>7, <1>8 DEF Stream

\* Every step of a stream's processes.
LEMMA ControlGroup ==
    ASSUME Inv, NEW k \in Started, GroupStep(k), Elsewhere
    PROVE  Inv'
<1> DEFINE s == streams[k]
<1>1. /\ s \in Streams
      /\ s.at = "init" => s.sh = "none" /\ ~s.kids
      /\ s.at \in {"poll", "write", "reap"} => s.sh \in {"run", "zombie"}
      /\ s.at \in {"term", "done"} /\ s.why = "cut" => ~Left(s)
  BY UnfinishedFinite, ElementOfSeq DEF Inv, Types, Groups, CutLeavesNothing
<1> USE DEF Streams, Left
<1>2. CASE s.sh = "run" /\ StreamSets(k, [s EXCEPT !.kids = TRUE])
  BY <1>1, <1>2, StreamKeeps
<1>3. CASE s.sh = "run" /\ StreamSets(k, [s EXCEPT !.sh = "zombie"])
  BY <1>1, <1>3, StreamKeeps
<1>4. CASE s.kids /\ StreamSets(k, [s EXCEPT !.kids = FALSE])
  BY <1>1, <1>4, StreamKeeps
<1> QED
  BY <1>2, <1>3, <1>4 DEF GroupStep

\* The server thread hands its client to the thread of a new stream.
LEMMA ControlHandsOver ==
    ASSUME Inv, ServerStream, Elsewhere
    PROVE  Inv'
<1> USE DEF Inv, ServerStream, ServerGoto, Elsewhere
<1> DEFINE n == Len(streams) + 1
           r == [at |-> "init", why |-> "none", sh |-> "none", kids |-> FALSE]
<1>1. r \in Streams /\ r.at = "init" /\ r.sh = "none" /\ ~r.kids /\ streams' = Append(streams, r)
  BY DEF Streams
<1> HIDE DEF r
<1>2. /\ streams' \in Seq(Streams) /\ Len(streams') = n /\ streams'[n] = r
      /\ \A j \in 1..Len(streams) : streams'[j] = streams[j]
  BY <1>1, AppendProperties DEF Types
<1>3. /\ Started = 1..Len(streams) /\ Started' = Started \cup {n} /\ n \notin Started
      /\ \A j \in Started : streams'[j] = streams[j]
  BY <1>2, UnfinishedFinite, LenProperties DEF Started
<1> HIDE DEF n
<1>4. TimerInv'
  BY DEF TimerInv, SamplerTypeOK, samplerVars
<1>5. Len(streams') <= MaxStreams
  BY <1>2, UnfinishedFinite, ControlAssumption DEF n
<1>6. Types'
  BY <1>2, <1>3, <1>5 DEF Types, mainVars
<1>7. Groups'
  BY <1>1, <1>2, <1>3 DEF Groups, CutLeavesNothing, Left
<1>8. Unfinished' = Unfinished \cup {n} /\ n \notin Unfinished
  BY <1>1, <1>2, <1>3 DEF Unfinished
<1>9. Cardinality(Unfinished') = Cardinality(Unfinished) + 1 /\ Cardinality(Unfinished) \in Nat
  BY <1>8, UnfinishedFinite, FS_AddElement
<1>10. FdsAccounted'
  <2>1. server \in {"request", "run", "sync", "wait", "reply"}
    OBVIOUS
  <2>2. fds = Cardinality(Unfinished) + 1
    BY <2>1 DEF FdsAccounted, Unfinished
  <2>3. fds' = fds /\ server' = "head"
    OBVIOUS
  <2>4. fds' = Cardinality(Unfinished') + 0
    BY <1>9, <2>2, <2>3
  <2> QED
    BY <2>3, <2>4 DEF FdsAccounted, Unfinished
<1>11. Joining'
  BY DEF Joining, mainVars
<1>12. Bypassed'
  BY DEF Bypassed, samplerVars
<1> QED
  BY <1>4, <1>6, <1>7, <1>10, <1>11, <1>12

\* Every other step of the server thread leaves the streams alone.
LEMMA ControlServes ==
    ASSUME Inv, Server, Elsewhere, ~ServerStream
    PROVE  Inv'
<1>1. UNCHANGED <<streams, todo, main, signalled, stop>> /\ UNCHANGED samplerVars
  BY DEF Elsewhere, mainVars, Server, ServerSteps, ServerStart, ServerHead, ServerNoClient,
     ServerRejects, ServerAccept, ServerAnswer, ServerResolve, ServerSync, ServerTimeout,
     ServerCollected, ServerWait, ServerReply, ServerStreamFails
<1>2. TimerInv'
  BY <1>1 DEF Inv, TimerInv, SamplerTypeOK, samplerVars
<1>3. Started' = Started /\ Unfinished' = Unfinished
  BY <1>1 DEF Started, Unfinished
<1>4. Groups'
  BY <1>1, <1>3 DEF Inv, Groups, CutLeavesNothing, Left
<1> DEFINE Busy == {"request", "run", "sync", "wait", "reply"}
<1>5. /\ lfd' \in {"none", "open", "closed"} /\ shell' \in {"none", "run", "zombie"}
      /\ server' \in {"start", "head", "accept", "request", "run", "sync", "wait", "reply",
                      "exited"}
      /\ grant' \in {"none", "preset", "pin", "bypass"}
      /\ streamed' \in BOOLEAN /\ lapsed' \in BOOLEAN
      /\ server # "exited"
      /\ \/ fds' = fds /\ (server' \in Busy <=> server \in Busy)
         \/ fds' = fds + 1 /\ server' \in Busy /\ server \notin Busy
         \/ fds' = fds - 1 /\ server' \notin Busy /\ server \in Busy
      /\ server' = "run" /\ grant' = "bypass" => server = "request" /\ PinBypass
  BY DEF Inv, Types, run, limiter, ServerGoto, Server, ServerSteps, ServerStart, ServerHead,
     ServerNoClient, ServerRejects, ServerAccept, ServerAnswer, ServerResolve, ServerSync,
     ServerTimeout, ServerCollected, ServerWait, ServerReply, ServerStreamFails
<1>6. Types'
  BY <1>1, <1>3, <1>5 DEF Inv, Types
<1>7. FdsAccounted'
  <2>1. fds = Cardinality(Unfinished) + (IF server \in Busy THEN 1 ELSE 0)
    BY DEF Inv, FdsAccounted, Unfinished
  <2>2. fds' = Cardinality(Unfinished') + (IF server' \in Busy THEN 1 ELSE 0)
    <3> HIDE DEF Busy
    <3> QED
      BY <1>3, <1>5, <2>1, UnfinishedFinite DEF Inv
  <2> QED
    BY <2>2 DEF FdsAccounted, Unfinished
<1>8. Joining'
  BY <1>1, <1>3, <1>5 DEF Inv, Joining
<1>9. Bypassed'
  BY <1>1, <1>5 DEF Inv, Bypassed, PinBypass, samplerVars
<1> QED
  BY <1>2, <1>4, <1>6, <1>7, <1>8, <1>9 DEF Inv

\* The sampler.
LEMMA ControlSamples ==
    ASSUME Inv, SamplerStep
    PROVE  Inv'
<1>1. TimerInv'
  BY TimerSampler DEF Inv, SamplerStep
<1>2. UNCHANGED <<stop, lfd, server, limiter, grant, streamed, shell, streams, todo, fds, mainVars>>
      /\ lapsed' = (lapsed \/ (server = "run" /\ level' \notin HighSwap))
  BY DEF SamplerStep
<1>3. Types'
  BY <1>2 DEF Inv, Types, Started, mainVars
<1>4. Groups' /\ FdsAccounted' /\ Joining'
  BY <1>2 DEF Inv, Groups, CutLeavesNothing, Left, FdsAccounted, Joining, Unfinished, Started, mainVars
<1>5. Bypassed'
  <2>1. emergency' => level' \in HighSwap /\ sampler' # "first"
    BY DEF Inv, Bypassed, SamplerStep, Sampler, SamplerStart, Evicted, SamplerExit, Sample,
           Emergency, TimerInv, SamplerTypeOK
  <2> QED
    BY <1>2, <2>1 DEF Inv, Bypassed
<1> QED
  BY <1>1, <1>3, <1>4, <1>5 DEF Inv

\* The main thread and the signal, which change nothing but how far the end has come.
LEMMA ControlEnds ==
    ASSUME Inv, Main \/ Signal, MainOnly
    PROVE  Inv'
<1>1. TimerInv'
  BY TimerMain DEF Inv
<1> USE DEF Inv, MainGoto
<1>2. UNCHANGED <<server, limiter, run, shell, streams, fds>>
  BY DEF Main, MainTest, MainPause, Signal, MainStopsSampler, MainJoinsSampler, StopSets,
     StopCloses, StopJoinsServer, StopJoinsStreams, serverVars
<1>3. Started' = Started /\ Unfinished' = Unfinished
  BY <1>2 DEF Started, Unfinished
<1>4. Types'
  <2>1. /\ stop' \in BOOLEAN /\ signalled' \in BOOLEAN /\ lfd' \in {"none", "open", "closed"}
        /\ todo' \in {{}, todo, Started}
        /\ main' \in {"test", "tested", "pause", "leave", "sampler", "stop", "close", "join",
                      "streams", "exited"}
    BY DEF Types, Main, MainTest, MainPause, Signal, MainStopsSampler, MainJoinsSampler,
       StopSets, StopCloses, StopJoinsServer, StopJoinsStreams, serverVars
  <2>2. todo' \subseteq Started
    BY <2>1 DEF Types
  <2> QED
    BY <1>2, <1>3, <2>1, <2>2 DEF Types, run
<1>5. Groups' /\ FdsAccounted'
  BY <1>2, <1>3 DEF Groups, CutLeavesNothing, Left, FdsAccounted, Unfinished
<1>6. Joining'
  BY <1>2, <1>3 DEF Joining, Unfinished, Main, MainTest, MainPause, Signal, MainStopsSampler,
     MainJoinsSampler, StopSets, StopCloses, StopJoinsServer, StopJoinsStreams, serverVars
<1>7. Bypassed'
  BY <1>2 DEF Bypassed, MainOnly, run
<1> QED
  BY <1>1, <1>4, <1>5, <1>6, <1>7

\* Every step keeps the invariant.
LEMMA ControlStep == Inv /\ [Next]_vars => Inv'
<1> SUFFICES ASSUME Inv, [Next]_vars PROVE Inv'
  OBVIOUS
<1>1. CASE SamplerStep
  BY <1>1, ControlSamples
<1>2. CASE Server /\ Elsewhere
  BY <1>2, ControlHandsOver, ControlServes
<1>3. CASE \E k \in Started : (Stream(k) \/ GroupStep(k)) /\ Elsewhere
  BY <1>3, ControlStream, ControlGroup
<1>4. CASE (Main \/ Signal) /\ MainOnly
  BY <1>4, ControlEnds
<1>5. ASSUME /\ TimerInv' /\ UNCHANGED <<sampler, level, emergency>>
             /\ UNCHANGED <<stop, lfd, server, run, shell, streams, todo, fds, mainVars>>
      PROVE  Inv'
  <2>1. Started' = Started /\ Unfinished' = Unfinished
    BY <1>5 DEF Started, Unfinished
  <2>2. Types'
    BY <1>5, <2>1 DEF Inv, Types, run, mainVars
  <2>3. Groups' /\ FdsAccounted' /\ Joining'
    BY <1>5, <2>1 DEF Inv, Groups, CutLeavesNothing, Left, FdsAccounted, Unfinished, Joining, mainVars
  <2>4. Bypassed'
    BY <1>5 DEF Inv, Bypassed, run
  <2> QED
    BY <1>5, <2>2, <2>3, <2>4 DEF Inv
<1>6. CASE ShellExit /\ Elsewhere
  <2>1. Started' = Started /\ Unfinished' = Unfinished
    BY <1>6 DEF Started, Unfinished, ShellExit
  <2>2. Types'
    BY <1>6, <2>1 DEF Inv, Types, ShellExit, Elsewhere, run, mainVars
  <2>3. Groups' /\ FdsAccounted' /\ Joining'
    BY <1>6, <2>1 DEF Inv, Groups, CutLeavesNothing, Left, FdsAccounted, Unfinished, Joining,
       ShellExit, Elsewhere, mainVars
  <2>4. TimerInv' /\ Bypassed'
    BY <1>6 DEF Inv, TimerInv, SamplerTypeOK, Bypassed, ShellExit, Elsewhere, samplerVars, run
  <2> QED
    BY <2>2, <2>3, <2>4 DEF Inv
<1>7. CASE Tick
  BY <1>5, <1>7, TimerTick DEF Tick, SamplerTick, Inv
<1>8. CASE UNCHANGED vars
  <2>1. TimerInv'
    BY <1>8 DEF vars, samplerVars, Inv, TimerInv, SamplerTypeOK
  <2> QED
    BY <1>5, <1>8, <2>1 DEF vars, samplerVars, serverVars
<1> QED
  BY <1>1, <1>2, <1>3, <1>4, <1>6, <1>7, <1>8 DEF Next

\* The inductive invariant of the control server.
THEOREM ControlInvariant == Spec => []Inv
  BY ControlInit, ControlStep, PTL DEF Spec

\* Every variable of the server, its threads and the main thread stays within its type.
THEOREM ControlTypeCorrect == Spec => []TypeOK
<1>1. Inv /\ Limiting => TypeOK
  <2> SUFFICES ASSUME Inv, Limiting PROVE TypeOK
    OBVIOUS
  <2>1. \A k \in Started : streams[k] \in Streams
    BY UnfinishedFinite, ElementOfSeq DEF Inv, Types
  <2>2. \A ip \in Ips : \A i \in DOMAIN window[ip] : window[ip][i] \in 0..Window
    BY AgesType DEF Limiting
  <2>3. Started = 1..Len(streams)
    BY UnfinishedFinite DEF Inv
  <2> QED
    BY <2>1, <2>2, <2>3 DEF Inv, TimerInv, Types, TypeOK, Streams
<1> QED
  BY <1>1, ControlInvariant, LimitingInit, LimitingStep, PTL DEF Spec

\* Every connection let in is closed exactly once, by the server thread or its stream.
THEOREM ConnectionsClosed == Spec => []FdsAccounted
<1>1. Inv => FdsAccounted
  BY DEF Inv
<1> QED
  BY <1>1, ControlInvariant, PTL

\* A stream that was cut off leaves no process of its group behind.
THEOREM CutsLeaveNothing == Spec => []CutLeavesNothing
<1>1. Inv => CutLeavesNothing
  BY DEF Inv, Groups
<1> QED
  BY <1>1, ControlInvariant, PTL

\* The destructor returns when every thread that refers to the server has ended.
THEOREM AllJoined == Spec => []StopJoinsAll
<1>1. Inv => StopJoinsAll
  BY DEF Inv, Joining, Unfinished, StopJoinsAll
<1> QED
  BY <1>1, ControlInvariant, PTL

\* Without the PIN, a listed command runs only while or just after an emergency.
THEOREM BypassJustified == Spec => BypassInEmergency
<1>1. Inv /\ [Next]_vars
         => [server = "run" /\ grant = "bypass" /\ server' # "run" => level \in HighSwap \/ lapsed]_vars
  BY DEF Inv, Bypassed
<1> QED
  BY <1>1, ControlInvariant, PTL DEF Spec, BypassInEmergency
=============================================================================
