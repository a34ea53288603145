-------------------------- MODULE ReconnectProofs ---------------------------
(***************************************************************************)
(* Theorems about the client's reconnection, for every width of the        *)
(* machine's integers and all delays.                                      *)
(*                                                                         *)
(* What a recursive function is takes induction.  The theorems of the      *)
(* library that state it have an operator as a parameter; that a set of    *)
(* natural numbers has a least element has not, and serves as well.        *)
(***************************************************************************)
EXTENDS Reconnect, WellFoundedInduction, TLAPS

-----------------------------------------------------------------------------
(* Induction.                                                              *)

Less == {pair \in Nat \X Nat : pair[1] < pair[2]}

LEMMA LessWellFounded == IsWellFoundedOn(Less, Nat)
    BY NatLessThanWellFounded, Zenon DEF OpToRel, Less

LEMMA Least ==
    ASSUME NEW T, T \subseteq Nat, T # {}
    PROVE  \E x \in T : \A y \in T : x <= y
<1>1. PICK x \in T : \A y \in T : ~ (<<y, x>> \in Less)
    BY LessWellFounded, WFMin
<1>2. ASSUME NEW y \in T PROVE x <= y
  <2>1. x \in Nat /\ y \in Nat
      OBVIOUS
  <2>2. <<y, x>> \in Nat \X Nat /\ <<y, x>>[1] = y /\ <<y, x>>[2] = x
      BY <2>1
  <2>3. <<y, x>> \notin Less
      BY <1>1
  <2>4. ~(y < x)
      BY <2>2, <2>3 DEF Less
  <2> QED
      BY <2>1, <2>4
<1> QED
    BY <1>2

\* A set of natural numbers without 0 is empty, or it has an element whose
\* predecessor is not in it: no property that 0 has and every step keeps fails.
LEMMA FirstFailure ==
    ASSUME NEW T, T \subseteq Nat, T # {}, 0 \notin T
    PROVE  \E n \in Nat : n + 1 \in T /\ n \notin T
<1>1. PICK x \in T : \A y \in T : x <= y
    BY Least
<1>2. x \in Nat /\ x # 0
    OBVIOUS
<1>3. x - 1 \in Nat /\ (x - 1) + 1 = x
    BY <1>2
<1>4. x - 1 \notin T
  <2> SUFFICES ASSUME x - 1 \in T PROVE FALSE
      OBVIOUS
  <2>1. x <= x - 1
      BY <1>1
  <2> QED
      BY <1>2, <2>1
<1> QED
    BY <1>3, <1>4

-----------------------------------------------------------------------------
(* The powers of 2.                                                        *)

\* The functions that are defined as power is, up to n.
Step(g, i) == IF i = 0 THEN 1 ELSE 2 * g[i - 1]
UpTo(n) == {g \in [0..n -> Nat] : \A i \in 0..n : g[i] = Step(g, i)}

LEMMA UpToSome == \A n \in Nat : UpTo(n) # {}
<1> DEFINE T == {n \in Nat : UpTo(n) = {}}
<1> SUFFICES ASSUME T # {} PROVE FALSE
    OBVIOUS
<1>1. 0 \notin T
  <2>1. [i \in 0..0 |-> 1] \in UpTo(0)
      BY DEF UpTo, Step
  <2> QED
      BY <2>1
<1>2. PICK n \in Nat : n + 1 \in T /\ n \notin T
  <2>1. T \subseteq Nat
      OBVIOUS
  <2> HIDE DEF T
  <2> QED
      BY <1>1, <2>1, FirstFailure
<1>3. PICK g \in UpTo(n) : TRUE
    BY <1>2
<1> DEFINE h == [i \in 0..(n + 1) |-> IF i = n + 1 THEN 2 * g[n] ELSE g[i]]
<1>4. g \in [0..n -> Nat] /\ \A i \in 0..n : g[i] = Step(g, i)
    BY <1>3 DEF UpTo
<1>5. h \in [0..(n + 1) -> Nat]
    BY <1>4
<1>6. ASSUME NEW i \in 0..(n + 1) PROVE h[i] = Step(h, i)
  <2>1. \A j \in 0..(n + 1) : h[j] = IF j = n + 1 THEN 2 * g[n] ELSE g[j]
      OBVIOUS
  <2> HIDE DEF h
  <2>2. CASE i = n + 1
    <3>1. i \in 0..(n + 1) /\ n \in 0..(n + 1) /\ i - 1 = n /\ i # 0 /\ n # n + 1
        BY <2>2
    <3>2. h[i] = 2 * g[n] /\ h[n] = g[n]
        BY <2>1, <2>2, <3>1
    <3> QED
        BY <3>1, <3>2 DEF Step
  <2>3. CASE i = 0
    <3>1. h[i] = g[i] /\ g[i] = Step(g, i)
        BY <1>4, <2>1, <2>3
    <3> QED
        BY <2>3, <3>1 DEF Step
  <2>4. CASE i \in 1..n
    <3>1. i \in 0..n /\ i - 1 \in 0..n /\ i # n + 1 /\ i - 1 # n + 1 /\ i # 0
        BY <2>4
    <3>2. h[i] = g[i] /\ h[i - 1] = g[i - 1] /\ g[i] = Step(g, i)
        BY <1>4, <2>1, <3>1
    <3> QED
        BY <3>1, <3>2 DEF Step
  <2> QED
      BY <2>2, <2>3, <2>4
<1>7. h \in UpTo(n + 1)
    BY <1>5, <1>6 DEF UpTo
<1> QED
    BY <1>2, <1>7

LEMMA UpToOne ==
    ASSUME NEW m \in Nat, NEW n \in Nat, NEW g \in UpTo(m), NEW h \in UpTo(n),
           NEW j \in 0..m, j \in 0..n
    PROVE  g[j] = h[j]
<1> DEFINE T == {i \in 0..m : i \in 0..n /\ g[i] # h[i]}
<1> SUFFICES ASSUME T # {} PROVE FALSE
    OBVIOUS
<1>1. 0 \notin T
    BY DEF UpTo, Step
<1>2. PICK i \in Nat : i + 1 \in T /\ i \notin T
  <2>1. T \subseteq Nat
      OBVIOUS
  <2> HIDE DEF T
  <2> QED
      BY <1>1, <2>1, FirstFailure
<1>3. g[i] = h[i]
    BY <1>2
<1>4. g[i + 1] = 2 * g[i] /\ h[i + 1] = 2 * h[i]
    BY <1>2 DEF UpTo, Step
<1> QED
    BY <1>2, <1>3, <1>4

\* power is what its definition says it is.
LEMMA PowerDefined == power = [n \in Nat |-> IF n = 0 THEN 1 ELSE 2 * power[n - 1]]
<1> DEFINE part(n) == CHOOSE g \in UpTo(n) : TRUE
           F == [n \in Nat |-> part(n)[n]]
<1>1. ASSUME NEW n \in Nat PROVE F[n] = IF n = 0 THEN 1 ELSE 2 * F[n - 1]
  <2>1. part(n) \in UpTo(n)
      BY UpToSome
  <2>2. F[n] = part(n)[n]
      OBVIOUS
  <2>3. n \in 0..n
      OBVIOUS
  <2>4. \A i \in 0..n : part(n)[i] = Step(part(n), i)
      BY <2>1 DEF UpTo
  <2>5. CASE n = 0
    <3> HIDE DEF part, F
    <3>1. part(n)[n] = Step(part(n), n)
        BY <2>3, <2>4
    <3> QED
        BY <2>2, <2>5, <3>1 DEF Step
  <2>6. CASE n # 0
    <3>1. n - 1 \in Nat /\ n - 1 \in 0..(n - 1) /\ n - 1 \in 0..n
        BY <2>6
    <3>2. part(n - 1) \in UpTo(n - 1) /\ F[n - 1] = part(n - 1)[n - 1]
        BY <3>1, UpToSome
    <3> HIDE DEF part, F
    <3>3. part(n - 1)[n - 1] = part(n)[n - 1]
        BY <2>1, <3>1, <3>2, UpToOne
    <3>4. part(n)[n] = 2 * part(n)[n - 1]
        BY <2>3, <2>4, <2>6 DEF Step
    <3> QED
        BY <2>2, <2>6, <3>2, <3>3, <3>4
  <2> QED
      BY <2>5, <2>6
<1>2. F = [n \in Nat |-> IF n = 0 THEN 1 ELSE 2 * F[n - 1]]
  <2>1. F = [n \in Nat |-> F[n]]
      OBVIOUS
  <2> HIDE DEF F
  <2> QED
      BY <1>1, <2>1
<1> HIDE DEF F
<1> QED
    BY <1>2 DEF power

LEMMA PowerOf == power[0] = 1 /\ \A n \in Nat : power[n + 1] = 2 * power[n]
<1>1. \A n \in Nat : power[n] = IF n = 0 THEN 1 ELSE 2 * power[n - 1]
  <2> DEFINE G == [n \in Nat |-> IF n = 0 THEN 1 ELSE 2 * power[n - 1]]
  <2>1. \A n \in Nat : G[n] = IF n = 0 THEN 1 ELSE 2 * power[n - 1]
      OBVIOUS
  <2>2. power = G
      BY PowerDefined
  <2> HIDE DEF G
  <2> QED
      BY <2>1, <2>2
<1>2. ASSUME NEW n \in Nat PROVE power[n + 1] = 2 * power[n]
  <2>1. n + 1 \in Nat /\ n + 1 # 0 /\ (n + 1) - 1 = n
      OBVIOUS
  <2> QED
      BY <1>1, <2>1
<1> QED
    BY <1>1, <1>2

LEMMA PowerPositive == \A n \in Nat : power[n] \in Nat \ {0}
<1> DEFINE T == {n \in Nat : power[n] \notin Nat \ {0}}
<1> SUFFICES ASSUME T # {} PROVE FALSE
    OBVIOUS
<1>1. 0 \notin T
    BY PowerOf
<1>2. PICK n \in Nat : n + 1 \in T /\ n \notin T
  <2>1. T \subseteq Nat
      OBVIOUS
  <2> HIDE DEF T
  <2> QED
      BY <1>1, <2>1, FirstFailure
<1>3. power[n] \in Nat \ {0} /\ power[n + 1] = 2 * power[n]
    BY <1>2, PowerOf
<1> QED
    BY <1>2, <1>3

LEMMA PowerMonotone == \A m, n \in Nat : m <= n => power[m] <= power[n]
<1> SUFFICES ASSUME NEW m \in Nat PROVE \A n \in Nat : m <= n => power[m] <= power[n]
    OBVIOUS
<1> DEFINE T == {n \in Nat : m <= n /\ ~(power[m] <= power[n])}
<1> SUFFICES ASSUME T # {} PROVE FALSE
    OBVIOUS
<1>1. 0 \notin T
    BY PowerPositive
<1>2. PICK n \in Nat : n + 1 \in T /\ n \notin T
  <2>1. T \subseteq Nat
      OBVIOUS
  <2> HIDE DEF T
  <2> QED
      BY <1>1, <2>1, FirstFailure
<1>3. /\ power[n + 1] = 2 * power[n]
      /\ power[m] \in Nat /\ power[n] \in Nat /\ power[n + 1] \in Nat
    BY PowerOf, PowerPositive
<1>4. CASE m <= n
    BY <1>2, <1>3, <1>4
<1>5. CASE m = n + 1
    BY <1>2, <1>3, <1>5
<1> QED
    BY <1>2, <1>4, <1>5

-----------------------------------------------------------------------------
(* The delays.                                                             *)

LEMMA Widths ==
    /\ Width \in Nat \ {0}
    /\ power[Width] \in Nat \ {0}
    /\ RECONNECT_BASE_DELAY \in Nat \ {0}
    /\ RECONNECT_MAX_DELAY \in Nat
    /\ RECONNECT_BASE_DELAY <= RECONNECT_MAX_DELAY
    BY WidthAssumption, DelayAssumption, PowerPositive

\* The counter goes up by one, or back to 0.
LEMMA WrappedStep ==
    ASSUME NEW n \in 0..(power[Width] - 1)
    PROVE  /\ Wrapped(n + 1) \in 0..(power[Width] - 1)
           /\ Wrapped(n + 1) = n + 1 \/ Wrapped(n + 1) = 0
<1> DEFINE P == power[Width]
<1>1. P \in Nat \ {0} /\ n \in Nat /\ n < P
    BY Widths
<1>2. Wrapped(n + 1) = (n + 1) % P
    BY DEF Wrapped
<1> HIDE DEF P
<1>3. (n + 1) % P \in 0..(P - 1)
    BY <1>1
<1>4. CASE n + 1 < P
    BY <1>1, <1>2, <1>4 DEF P
<1>5. CASE n + 1 = P
    BY <1>1, <1>2, <1>5 DEF P
<1> QED
    BY <1>1, <1>4, <1>5

LEMMA Powers ==
    /\ \A n \in Nat : Pred(n) \in Nat /\ Pow2(n) \in Nat
    /\ \A n \in Nat : n < Width => Pow2(n) = power[n] /\ Pow2(n) >= 1
    BY Widths, PowerPositive DEF Pred, Pow2

LEMMA Times ==
    ASSUME NEW b \in Nat, NEW m \in Nat, NEW n \in Nat, m <= n
    PROVE  b * m \in Nat /\ b * m <= b * n
    OBVIOUS

\* The delay of one of the first Width attempts is not below the base delay, and
\* not longer than that of the next; later ones have none.
LEMMA DelayFacts ==
    ASSUME NEW n \in Nat
    PROVE  /\ Delay(n) \in Nat
           /\ n <= Width => Delay(n) >= RECONNECT_BASE_DELAY
           /\ n < Width => Delay(n) <= Delay(n + 1)
           /\ n > Width => Delay(n) = 0
<1> DEFINE backoff(k) == RECONNECT_BASE_DELAY * Pow2(Pred(k))
<1>1. \A k \in Nat : /\ backoff(k) \in Nat
                     /\ Delay(k) = IF backoff(k) < RECONNECT_MAX_DELAY
                                   THEN backoff(k) ELSE RECONNECT_MAX_DELAY
  <2>1. \A k \in Nat : backoff(k) \in Nat
      BY Widths, Powers, Times
  <2> QED
      BY <2>1 DEF Delay
<1>2. n <= Width => backoff(n) >= RECONNECT_BASE_DELAY
  <2> SUFFICES ASSUME n <= Width PROVE backoff(n) >= RECONNECT_BASE_DELAY
      OBVIOUS
  <2>1. Pred(n) \in Nat /\ Pred(n) < Width
      BY Widths DEF Pred
  <2>2. Pow2(Pred(n)) \in Nat /\ 1 <= Pow2(Pred(n))
      BY <2>1, Powers
  <2>3. RECONNECT_BASE_DELAY * 1 <= backoff(n)
      BY <2>2, Widths, Times
  <2> QED
      BY <2>3, Widths
<1>3. n < Width => backoff(n) <= backoff(n + 1)
  <2> SUFFICES ASSUME n < Width PROVE backoff(n) <= backoff(n + 1)
      OBVIOUS
  <2>1. Pred(n) \in Nat /\ Pred(n) <= n /\ Pred(n) < Width /\ Pred(n + 1) = n
      BY Widths DEF Pred
  <2>2. Pow2(Pred(n)) <= Pow2(Pred(n + 1))
      BY <2>1, Powers, PowerMonotone
  <2>3. Pow2(Pred(n)) \in Nat /\ Pow2(Pred(n + 1)) \in Nat
      BY <2>1, Powers
  <2> QED
      BY <2>2, <2>3, Widths, Times
<1>5. n > Width => backoff(n) = 0
  <2> SUFFICES ASSUME n > Width PROVE backoff(n) = 0
      OBVIOUS
  <2>1. Pow2(Pred(n)) = 0
      BY Widths DEF Pred, Pow2
  <2> QED
      BY <2>1, Widths
<1> HIDE DEF backoff
<1>4. n + 1 \in Nat
    OBVIOUS
<1> QED
    BY <1>1, <1>2, <1>3, <1>4, <1>5, Widths

\* The delay is that of the last attempt; before the first there is none.
DelayInv == \/ delay = Delay(attempt)
            \/ attempt = 0 /\ delay = 0 /\ at # "sleep"

LEMMA AttemptSteps ==
    ASSUME TypeOK, AttemptOver
    PROVE  /\ attempt' \in 0..(power[Width] - 1)
           /\ attempt' = attempt + 1 \/ attempt' = 0
           /\ attempt \in Nat
           /\ delay' = Delay(attempt')
           /\ at' = "sleep"
           /\ UNCHANGED <<reachable, forced, stuck, up>>
           /\ UNCHANGED by
    BY WrappedStep DEF TypeOK, AttemptOver

LEMMA TypeInit == ASSUME Init PROVE TypeOK /\ DelayInv
<1>1. 0 \in 0..(power[Width] - 1)
    BY Widths
<1> QED
    BY <1>1 DEF Init, TypeOK, DelayInv, Transport, First

LEMMA TypeNext == ASSUME TypeOK, DelayInv, [Next]_vars PROVE TypeOK' /\ DelayInv'
<1>1. CASE Established
    BY <1>1 DEF Established, TypeOK, DelayInv
<1>2. CASE AttemptOver
  <2>1. /\ attempt' \in 0..(power[Width] - 1)
        /\ delay' = Delay(attempt')
        /\ at' = "sleep"
        /\ UNCHANGED <<reachable, forced, stuck, up, by>>
      BY <1>2, AttemptSteps
  <2>2. delay' \in Nat
      BY <2>1, DelayFacts
  <2>3. TypeOK'
      BY <2>1, <2>2 DEF TypeOK
  <2>4. DelayInv'
      BY <2>1 DEF DelayInv
  <2> QED
      BY <2>3, <2>4
<1>3. CASE DialFails /\ ~AttemptOver
    BY <1>3 DEF DialFails, TypeOK, DelayInv, Transport
<1>4. CASE TunnelEnds
    BY <1>2, <1>4 DEF TunnelEnds
<1>5. CASE Wake
    BY <1>5 DEF Wake, First, TypeOK, DelayInv, Transport
<1>6. CASE Outage
    BY <1>6 DEF Outage, TypeOK, DelayInv
<1>7. CASE Return
    BY <1>7 DEF Return, TypeOK, DelayInv
<1>8. CASE UNCHANGED vars
    BY <1>8 DEF vars, TypeOK, DelayInv
<1> QED
    BY <1>1, <1>2, <1>3, <1>4, <1>5, <1>6, <1>7, <1>8 DEF Next

LEMMA DelayInvCorrect == Spec => [](TypeOK /\ DelayInv)
    BY TypeInit, TypeNext, PTL DEF Spec

\* The type invariant of the loop; in particular its counter never leaves the
\* range of a u32, since it wraps.
THEOREM TypeCorrect == Spec => []TypeOK
    BY DelayInvCorrect, PTL

\* The loop sleeps for RECONNECT_BASE_DELAY at least after each of the first Width
\* attempts, and of the first Width after the counter has wrapped; in between it
\* does not sleep that long after any.
THEOREM FloorUntilOverflowCorrect == Spec => []FloorUntilOverflow
<1>1. ASSUME TypeOK, DelayInv, at = "sleep"
      PROVE  delay >= RECONNECT_BASE_DELAY <=> attempt <= Width
  <2>1. delay = Delay(attempt) /\ attempt \in Nat
      BY <1>1, Widths DEF TypeOK, DelayInv
  <2>2. CASE attempt <= Width
      BY <2>1, <2>2, DelayFacts
  <2>3. CASE attempt > Width
    <3>1. delay = 0
        BY <2>1, <2>3, DelayFacts
    <3> QED
        BY <2>1, <2>3, <3>1, Widths
  <2> QED
      BY <2>1, <2>2, <2>3, Widths
<1> QED
    BY <1>1, DelayInvCorrect, PTL DEF FloorUntilOverflow

\* The delays of the first Width attempts never get shorter.
THEOREM BackoffGrowsCorrect == Spec => BackoffGrows
<1> DEFINE Grows == attempt' \in 1..Width /\ attempt' # attempt => delay' >= delay
<1>1. ASSUME TypeOK, DelayInv, [Next]_vars PROVE [Grows]_vars
  <2>1. CASE AttemptOver
    <3> SUFFICES ASSUME attempt' \in 1..Width, attempt' # attempt PROVE delay' >= delay
        OBVIOUS
    <3>1. attempt' = attempt + 1 /\ attempt \in Nat /\ attempt < Width
        BY <1>1, <2>1, AttemptSteps, Widths
    <3>2. delay' = Delay(attempt + 1) /\ delay' \in Nat
        BY <1>1, <2>1, <3>1, AttemptSteps, DelayFacts
    <3>3. CASE delay = Delay(attempt)
        BY <3>1, <3>2, <3>3, DelayFacts
    <3>4. CASE delay = 0
        BY <3>2, <3>4
    <3> QED
        BY <1>1, <3>3, <3>4 DEF DelayInv
  <2>2. CASE ~AttemptOver
    <3>1. attempt' = attempt
        BY <1>1, <2>2 DEF Next, Established, DialFails, TunnelEnds, Wake, Outage, Return, vars
    <3> QED
        BY <3>1
  <2> QED
      BY <2>1, <2>2
<1> QED
    BY <1>1, DelayInvCorrect, PTL DEF BackoffGrows, Spec

=============================================================================
