----------------------------- MODULE Reconnect ------------------------------
(***************************************************************************)
(* The loops that keep a client connected: run, run_insecure and run_http, *)
(* reconnect_loop and try_connect in src/src/tunnel/client.rs.             *)
(*                                                                         *)
(* A connection is seen from outside: being dialled, up, or over.  What    *)
(* goes on inside is in WsTunnel and HttpTunnel, and so is the reason why  *)
(* some awaits never end once the network has failed.                      *)
(***************************************************************************)
EXTENDS Naturals

CONSTANTS
    Width,     \* bits of an unsigned machine integer: 32
    RECONNECT_BASE_DELAY, RECONNECT_MAX_DELAY  \* in seconds

Transport == {"ws", "http"}

ASSUME WidthAssumption == Width \in Nat \ {0}
ASSUME DelayAssumption ==
    /\ RECONNECT_BASE_DELAY \in Nat \ {0}
    /\ RECONNECT_MAX_DELAY \in Nat
    /\ RECONNECT_BASE_DELAY <= RECONNECT_MAX_DELAY

VARIABLES
    reachable,  \* the transports the server can be reached by when it runs:
                \* not "http", if port 443 speaks TLS; not "ws", if that is blocked
    forced,   \* whether --force-http was given: run_http, else reconnect_loop
    at,       \* "dial", "tunnel" or "sleep"
    by,       \* the transport of the connection dialled or up
    stuck,    \* whether the loop awaits what will never come
    up,       \* whether the server runs and the network works
    attempt,  \* the counter of the loop
    delay     \* how long it slept last, or sleeps

vars == <<reachable, forced, at, by, stuck, up, attempt, delay>>

First == IF forced THEN "http" ELSE "ws"

Init == /\ reachable \in SUBSET Transport
        /\ forced \in BOOLEAN
        /\ at = "dial"
        /\ by = First
        /\ stuck = FALSE
        /\ up \in BOOLEAN
        /\ attempt = 0
        /\ delay = 0

\* u32 arithmetic of a release build, which wraps.  (The powers of 2 are written
\* as a function for the proofs: no prover has facts about n |-> 2^n.)
power[n \in Nat] == IF n = 0 THEN 1 ELSE 2 * power[n - 1]
Wrapped(n) == n % power[Width]
Pow2(n) == IF n < Width THEN power[n] ELSE 0
Pred(n) == IF n = 0 THEN 0 ELSE n - 1

\* The delay of an attempt.  (Mutant: the power is not shifted by one, and the
\* first delay is twice the base delay.)
DelayUnshifted(n) ==
    LET backoff == RECONNECT_BASE_DELAY * Pow2(n)
    IN  IF backoff < RECONNECT_MAX_DELAY THEN backoff ELSE RECONNECT_MAX_DELAY
Delay(n) ==
    LET backoff == RECONNECT_BASE_DELAY * Pow2(Pred(n))
    IN  IF backoff < RECONNECT_MAX_DELAY THEN backoff ELSE RECONNECT_MAX_DELAY

\* An attempt is over, whatever came of it.  (Mutant: a tunnel that is closed
\* ends the loop.)
AttemptOverOnce ==
    /\ attempt' = Wrapped(attempt + 1)
    /\ delay' = Delay(attempt')
    /\ at' = IF at = "tunnel" THEN "end" ELSE "sleep"
    /\ UNCHANGED <<reachable, forced, by, stuck, up>>
AttemptOver ==
    /\ attempt' = Wrapped(attempt + 1)
    /\ delay' = Delay(attempt')
    /\ at' = "sleep"
    /\ UNCHANGED <<reachable, forced, by, stuck, up>>

Established ==
    /\ at = "dial" /\ ~stuck
    /\ up /\ by \in reachable
    /\ at' = "tunnel"
    /\ UNCHANGED <<reachable, forced, by, stuck, up, attempt, delay>>

\* try_connect goes over to HTTP, in the same attempt, when no WebSocket tunnel
\* could be set up; when that fails too, or was tried first, the attempt is over.
DialFails ==
    /\ at = "dial" /\ ~stuck
    /\ ~(up /\ by \in reachable)
    /\ IF by = "ws"
       THEN by' = "http" /\ UNCHANGED <<reachable, forced, at, stuck, up, attempt, delay>>
       ELSE AttemptOver

\* A connection breaks for whatever reason and its tunnel ends, with Ok(()) in
\* every case, once the client has seen it; which a stuck one does not.
TunnelEnds ==
    /\ at = "tunnel" /\ ~stuck
    /\ AttemptOver

Wake ==
    /\ at = "sleep"
    /\ at' = "dial"
    /\ by' = First
    /\ UNCHANGED <<reachable, forced, stuck, up, attempt, delay>>

\* The server stops, or the network fails.  A WebSocket handshake has no timeout
\* and may wait for ever; an HTTP tunnel may never end (see HttpTunnel).  A
\* WebSocket tunnel finds out by its keepalives, the HTTP handshake by its timeout.
Outage ==
    /\ up
    /\ up' = FALSE
    /\ stuck' \in IF <<at, by>> \in {<<"dial", "ws">>, <<"tunnel", "http">>}
                  THEN BOOLEAN ELSE {stuck}
    /\ UNCHANGED <<reachable, forced, at, by, attempt, delay>>

Return == ~up /\ up' = TRUE /\ UNCHANGED <<reachable, forced, at, by, stuck, attempt, delay>>

Next == Established \/ DialFails \/ TunnelEnds \/ Wake \/ Outage \/ Return

Spec == Init /\ [][Next]_vars

\* A dial comes to an end, an outage is found out, and a sleep is over.
FairSpec == /\ Spec
            /\ WF_vars(Established)
            /\ WF_vars(DialFails)
            /\ WF_vars(~up /\ TunnelEnds)
            /\ WF_vars(Wake)

-----------------------------------------------------------------------------
(* Properties.                                                             *)

TypeOK ==
    /\ reachable \subseteq Transport
    /\ {forced, stuck, up} \subseteq BOOLEAN
    /\ at \in {"dial", "tunnel", "sleep"}
    /\ by \in Transport
    /\ attempt \in 0..(power[Width] - 1)
    /\ delay \in Nat

\* A sleep is as long as RECONNECT_BASE_DELAY for Width attempts, and shorter at
\* every later one: the power has wrapped to 0 and the loop dials without a pause.
\* No tunnel that was up in between sets the counter back; only when it wraps
\* itself does the loop sleep again.
FloorUntilOverflow ==
    at = "sleep" => (delay >= RECONNECT_BASE_DELAY <=> attempt <= Width)

\* Up to there the delays of a client never get shorter, across tunnels that were
\* up in between and whichever transport an attempt ended with.
BackoffGrows ==
    [][attempt' \in 1..Width /\ attempt' # attempt => delay' >= delay]_vars

\* Once the server can be reached for good by a transport the client tries, the
\* client has a tunnel again and again, unless it is stuck: no outage, however
\* long, and no number of attempts makes the loop give up.
Recovers ==
    /\ First \in reachable \/ "http" \in reachable
    /\ <>[]up
    => []<>(at = "tunnel" \/ stuck)
=============================================================================
