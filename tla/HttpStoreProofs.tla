-------------------------- MODULE HttpStoreProofs ---------------------------
(* Theorems about the HTTP session store, for every value of its constants. *)
EXTENDS HttpStore, SequenceTheorems, TLAPS

-----------------------------------------------------------------------------
(* Types.                                                                  *)

LEMMA SessionFacts ==
    ASSUME NEW session \in HttpSession, NEW t \in Nat
    PROVE  /\ [session EXCEPT !.lastSeen = t] \in HttpSession
           /\ [session EXCEPT !.lastSeen = t].lastSeen = t
           /\ [session EXCEPT !.lastSeen = t].key = session.key
           /\ [session EXCEPT !.lastSeen = t].readCounter = session.readCounter
           /\ [session EXCEPT !.lastSeen = t].writeCounter = session.writeCounter
           /\ [session EXCEPT !.lastSeen = t].stream = session.stream
    BY DEF HttpSession

LEMMA CounterFacts ==
    ASSUME NEW session \in HttpSession
    PROVE  /\ [session EXCEPT !.readCounter = @ + 1] \in HttpSession
           /\ [session EXCEPT !.writeCounter = @ + 1] \in HttpSession
    BY DEF HttpSession

LEMMA TypeInit == ASSUME Init PROVE TypeOK
<1>1. Live = {}
    BY DEF Init, Live
<1>2. /\ {now, cleanupAt, read} \subseteq Nat
      /\ made \in SessionId \cup {0}
      /\ stream \in [Stream -> {"none", "open", "closed"}]
      /\ owner \in [Stream -> SessionId \cup {None}]
      /\ reader \in BOOLEAN
      /\ heard \in [SessionId -> Nat]
    BY TimeAssumption DEF Init
<1>3. frames \in [Stream -> Seq(Frame)] /\ toTun \in [SessionId -> Seq(Nat)]
    BY DEF Init
<1> QED
    BY <1>1, <1>2, <1>3 DEF Init, TypeOK

\* The part of TypeOK that a step may disturb in more than one variable.
SessionsOK == Live \subseteq 1..made /\ \A s \in Live : sessions[s] \in HttpSession

LEMMA TypeNext == ASSUME TypeOK, [Next]_vars PROVE TypeOK'
<1> USE DEF TypeOK
<1>1. ASSUME NEW pub \in Public, NEW psk \in Psk, DoInit(pub, psk) PROVE TypeOK'
  <2> DEFINE s == made + 1
             session == [key |-> DeriveKey(ServerKey(s), ClientKey(pub)),
                         readCounter |-> 0, writeCounter |-> 0, lastSeen |-> now,
                         stream |-> None]
  <2>1. s \in SessionId /\ made' = s /\ made \in Nat
    <3>1. MaxSession \in Nat /\ made \in Nat /\ made < MaxSession /\ made' = s
        BY <1>1, BoundAssumption DEF DoInit, SessionId
    <3> QED
        BY <3>1 DEF SessionId
  <2>2. DeriveKey(ServerKey(s), ClientKey(pub)) \in Key
      BY <2>1 DEF DeriveKey, ServerKey, ClientKey, Key
  <2>3. session \in HttpSession
      BY <2>2 DEF HttpSession
  <2>4. /\ Live' = Live \cup {s}
        /\ \A r \in Live' : sessions'[r] = IF r = s THEN session ELSE sessions[r]
      BY <1>1 DEF DoInit, Live
  <2>5. SessionsOK'
    <3>1. ASSUME NEW r \in Live' PROVE r \in 1..made'
      <4>1. made \in Nat /\ made' = made + 1
          BY <2>1
      <4>2. CASE r \in Live
        <5>1. r \in 1..made
            BY <4>2
        <5> QED
            BY <4>1, <5>1
      <4>3. CASE r = made + 1
          BY <4>1, <4>3
      <4> QED
          BY <2>4, <4>2, <4>3
    <3>2. \A r \in Live' : sessions'[r] \in HttpSession
        BY <2>3, <2>4, Zenon
    <3> QED
        BY <3>1, <3>2 DEF SessionsOK
  <2>6. heard' \in [SessionId -> Nat]
      BY <1>1, <2>1 DEF DoInit
  <2> QED
      BY <1>1, <2>1, <2>5, <2>6 DEF DoInit, SessionsOK
<1>2. ASSUME NEW s \in SessionId, NEW f \in ClientFrame(s), Send(s, f) PROVE TypeOK'
  <2> DEFINE opens == f.type = "DATA" /\ Opens(sessions[s].key, sessions[s].readCounter, f.sealed)
  <2>1. /\ s \in Live
        /\ Live' = Live
        /\ \A r \in Live : r # s => sessions'[r] = sessions[r]
        /\ sessions'[s] = IF opens THEN Accepted(Seen(sessions[s])) ELSE Seen(sessions[s])
      BY <1>2 DEF Send, Live
  <2>2. Seen(sessions[s]) \in HttpSession
      BY <2>1, SessionFacts DEF Seen
  <2>3. Accepted(Seen(sessions[s])) \in HttpSession
      BY <2>2, CounterFacts DEF Accepted
  <2>4. SessionsOK'
      BY <1>2, <2>1, <2>2, <2>3 DEF SessionsOK, Send
  <2>5. heard' \in [SessionId -> Nat]
      BY <1>2 DEF Send
  <2>6. toTun' \in [SessionId -> Seq(Nat)]
    <3>1. CASE opens
      <4>1. f.sealed.packet \in Nat
          BY <3>1 DEF ClientFrame, KeepaliveFrame, DataFrame, Encrypt
      <4>2. toTun[s] \in Seq(Nat) /\ Append(toTun[s], f.sealed.packet) \in Seq(Nat)
          BY <4>1
      <4>3. toTun' = [toTun EXCEPT ![s] = Append(toTun[s], f.sealed.packet)]
          BY <1>2, <3>1 DEF Send
      <4> QED
          BY <4>2, <4>3, Zenon
    <3>2. CASE ~opens
        BY <1>2, <3>2 DEF Send
    <3> QED
        BY <3>1, <3>2
  <2> QED
      BY <1>2, <2>4, <2>5, <2>6 DEF Send, SessionsOK
<1>3. ASSUME NEW s \in SessionId, NEW st \in Stream, StreamLookup(s, st) PROVE TypeOK'
  <2>1. /\ s \in Live
        /\ Live' = Live
        /\ \A r \in Live : r # s => sessions'[r] = sessions[r]
        /\ sessions'[s] = Seen(sessions[s])
      BY <1>3 DEF StreamLookup, Live
  <2>2. Seen(sessions[s]) \in HttpSession
      BY <2>1, SessionFacts DEF Seen
  <2>3. SessionsOK'
      BY <1>3, <2>1, <2>2 DEF SessionsOK, StreamLookup
  <2>4. heard' \in [SessionId -> Nat] /\ owner' \in [Stream -> SessionId \cup {None}]
      BY <1>3 DEF StreamLookup
  <2> QED
      BY <1>3, <2>3, <2>4 DEF StreamLookup, SessionsOK
<1>4. ASSUME NEW st \in Stream, StreamRegister(st) PROVE TypeOK'
  <2> DEFINE s == owner[st]
  <2>1. /\ Live' = Live
        /\ \A r \in Live : sessions'[r] = IF r = s THEN Registered(sessions[r], st) ELSE sessions[r]
      BY <1>4 DEF StreamRegister, Live
  <2>2. \A r \in Live : Registered(sessions[r], st) \in HttpSession
      BY DEF Registered, HttpSession
  <2>3. SessionsOK'
      BY <1>4, <2>1, <2>2 DEF SessionsOK, StreamRegister
  <2>4. stream' \in [Stream -> {"none", "open", "closed"}]
      BY <1>4 DEF StreamRegister
  <2> QED
      BY <1>4, <2>3, <2>4 DEF StreamRegister, SessionsOK
<1>5. ASSUME NEW st \in Stream, StreamLost(st) PROVE TypeOK'
  <2>1. stream' \in [Stream -> {"none", "open", "closed"}]
      BY <1>5 DEF StreamLost
  <2> QED
      BY <1>5, <2>1 DEF StreamLost, Live
<1>6. ASSUME NEW st \in Stream, StreamKeepalive(st) PROVE TypeOK'
  <2>1. frames' \in [Stream -> Seq(Frame)]
    <3>1. CASE stream[st] = "open"
      <4>1. Append(frames[st], KeepaliveFrame) \in Seq(Frame)
          BY DEF Frame
      <4>2. frames' = [frames EXCEPT ![st] = Append(frames[st], KeepaliveFrame)]
          BY <1>6, <3>1 DEF StreamKeepalive
      <4> QED
          BY <4>1, <4>2, Zenon
    <3>2. CASE stream[st] # "open"
        BY <1>6, <3>2 DEF StreamKeepalive
    <3> QED
        BY <3>1, <3>2
  <2> QED
      BY <1>6, <2>1 DEF StreamKeepalive, Live
<1>7. CASE TunRead
  <2>1. /\ Live' = Live
        /\ \A r \in Live : sessions'[r] = IF r \in Streaming
                                          THEN [sessions[r] EXCEPT !.writeCounter = @ + 1]
                                          ELSE sessions[r]
      BY <1>7 DEF TunRead, Live
  <2>2. \A r \in Live : [sessions[r] EXCEPT !.writeCounter = @ + 1] \in HttpSession
      BY CounterFacts
  <2>3. SessionsOK'
      BY <1>7, <2>1, <2>2 DEF SessionsOK, TunRead
  <2>4. ASSUME NEW st \in Stream PROVE frames'[st] \in Seq(Frame)
    <3>1. CASE Fed(st)
      <4> DEFINE session == sessions[owner[st]]
      <4>1. session \in HttpSession
          BY <3>1 DEF Fed
      <4>2. DataFrame(session.key, session.writeCounter, read) \in Frame
          BY <4>1 DEF DataFrame, Encrypt, Frame, HttpSession
      <4>3. frames'[st] = Append(frames[st], DataFrame(session.key, session.writeCounter, read))
          BY <1>7, <3>1 DEF TunRead
      <4> QED
          BY <4>2, <4>3
    <3>2. CASE ~Fed(st)
        BY <1>7, <3>2 DEF TunRead
    <3> QED
        BY <3>1, <3>2
  <2>5. frames' \in [Stream -> Seq(Frame)]
    <3>1. DOMAIN frames' = Stream /\ frames' = [st \in Stream |-> frames'[st]]
        BY <1>7 DEF TunRead
    <3> QED
        BY <2>4, <3>1, Zenon
  <2> QED
    <3>1. read' \in Nat
        BY <1>7 DEF TunRead
    <3> QED
        BY <1>7, <2>3, <2>5, <3>1 DEF TunRead, SessionsOK
<1>8. CASE TunReadError
    BY <1>8 DEF TunReadError, Live
<1>9. CASE Cleanup
  <2>1. /\ Live' \subseteq Live
        /\ \A r \in Live' : sessions'[r] = sessions[r]
      BY <1>9 DEF Cleanup, Live
  <2>2. cleanupAt' \in Nat
      BY <1>9, TimeAssumption DEF Cleanup
  <2> QED
      BY <1>9, <2>1, <2>2 DEF Cleanup
<1>10. CASE Tick
    BY <1>10 DEF Tick, Live
<1>11. CASE Restart
  <2>1. Live' = {}
      BY <1>11 DEF Restart, Live
  <2>2. cleanupAt' \in Nat /\ forgotten' \subseteq SessionId
      BY <1>11, TimeAssumption, BoundAssumption DEF Restart, SessionId
  <2>3. stream' \in [Stream -> {"none", "open", "closed"}]
      BY <1>11 DEF Restart
  <2> QED
      BY <1>11, <2>1, <2>2, <2>3 DEF Restart
<1>12. CASE UNCHANGED vars
    BY <1>12 DEF vars, Live
<1> QED
    BY <1>1, <1>2, <1>3, <1>4, <1>5, <1>6, <1>7, <1>8, <1>9, <1>10, <1>11, <1>12 DEF Next

\* The type invariant of the store.
THEOREM TypeCorrect == Spec => []TypeOK
    BY TypeInit, TypeNext, PTL DEF Spec

-----------------------------------------------------------------------------
(* Eviction.                                                               *)

\* A session in the store was last seen when it was last heard of, and the next
\* cleanup comes early enough for it; one that is gone was not heard of for the
\* timeout, or the server has been restarted since.
TimeInv ==
    /\ now <= cleanupAt
    /\ cleanupAt <= now + CleanupPeriod
    /\ \A s \in Live : /\ sessions[s].lastSeen = heard[s]
                       /\ heard[s] <= now
                       /\ cleanupAt < heard[s] + SESSION_TIMEOUT + CleanupPeriod
    /\ \A s \in (1..made) \ forgotten : s \in Live \/ heard[s] + SESSION_TIMEOUT <= now

LEMMA TimeInit == ASSUME Init PROVE TimeInv
<1>1. Live = {} /\ made = 0 /\ now <= cleanupAt /\ cleanupAt <= now + CleanupPeriod
    BY TimeAssumption DEF Init, Live
<1> QED
    BY <1>1 DEF TimeInv

LEMMA Times ==
    ASSUME TypeOK
    PROVE  /\ now \in Nat /\ cleanupAt \in Nat /\ made \in Nat
           /\ SESSION_TIMEOUT \in Nat /\ SESSION_TIMEOUT > 0
           /\ CleanupPeriod \in Nat /\ CleanupPeriod > 0
           /\ \A s \in 1..made : s \in SessionId /\ heard[s] \in Nat
           /\ Live \subseteq 1..made
<1>1. MaxSession \in Nat
    BY BoundAssumption
<1>2. made \in 0..MaxSession
    BY <1>1 DEF TypeOK, SessionId
<1>3. \A s \in 1..made : s \in SessionId
    BY <1>1, <1>2 DEF SessionId
<1> QED
    BY <1>2, <1>3, TimeAssumption DEF TypeOK

\* A request that names session s: no other step of the store or the clock.
LEMMA TimeHeard ==
    ASSUME TypeOK, TimeInv, NEW s \in Live,
           heard' = [heard EXCEPT ![s] = now], Live' = Live,
           sessions'[s].lastSeen = now,
           \A r \in Live : r # s => sessions'[r] = sessions[r],
           UNCHANGED <<now, cleanupAt, made, forgotten>>
    PROVE  TimeInv'
<1>1. heard'[s] = now /\ \A r \in 1..made : r # s => heard'[r] = heard[r]
    BY Times DEF TypeOK
<1>2. \A r \in Live : /\ sessions'[r].lastSeen = heard'[r]
                      /\ heard'[r] <= now
                      /\ cleanupAt < heard'[r] + SESSION_TIMEOUT + CleanupPeriod
    BY <1>1, Times DEF TimeInv
<1>3. \A r \in (1..made) \ forgotten : r \in Live \/ heard'[r] + SESSION_TIMEOUT <= now
    BY <1>1 DEF TimeInv
<1> QED
    BY <1>2, <1>3 DEF TimeInv

\* A step that neither makes, evicts nor names a session and takes no time.
LEMMA TimeKept ==
    ASSUME TypeOK, TimeInv, Live' = Live,
           \A r \in Live : sessions'[r].lastSeen = sessions[r].lastSeen,
           UNCHANGED <<now, cleanupAt, made, heard, forgotten>>
    PROVE  TimeInv'
    BY DEF TimeInv

LEMMA TimeNext == ASSUME TypeOK, TimeInv, [Next]_vars PROVE TimeInv'
<1>1. ASSUME NEW pub \in Public, NEW psk \in Psk, DoInit(pub, psk) PROVE TimeInv'
  <2> DEFINE s == made + 1
  <2>1. /\ Live' = Live \cup {s}
        /\ sessions'[s].lastSeen = now
        /\ \A r \in Live : r # s => sessions'[r] = sessions[r]
        /\ made' = s
        /\ UNCHANGED <<now, cleanupAt, forgotten>>
      BY <1>1 DEF DoInit, Live
  <2>2. s \in SessionId /\ s \notin 1..made /\ 1..made' = (1..made) \cup {s}
    <3>1. MaxSession \in Nat /\ made \in Nat /\ made < MaxSession
        BY <1>1, Times, BoundAssumption DEF DoInit
    <3> QED
        BY <2>1, <3>1 DEF SessionId
  <2>3. heard'[s] = now /\ \A r \in 1..made : heard'[r] = heard[r]
      BY <1>1, <2>2, Times DEF DoInit, TypeOK
  <2>4. \A r \in Live' : /\ sessions'[r].lastSeen = heard'[r]
                         /\ heard'[r] <= now
                         /\ cleanupAt < heard'[r] + SESSION_TIMEOUT + CleanupPeriod
      BY <2>1, <2>2, <2>3, Times DEF TimeInv
  <2>5. \A r \in (1..made') \ forgotten : r \in Live' \/ heard'[r] + SESSION_TIMEOUT <= now
      BY <2>1, <2>2, <2>3 DEF TimeInv
  <2> QED
      BY <2>1, <2>4, <2>5 DEF TimeInv
<1>2. ASSUME NEW s \in SessionId, NEW f \in ClientFrame(s), Send(s, f) PROVE TimeInv'
  <2>1. /\ s \in Live
        /\ Live' = Live
        /\ \A r \in Live : r # s => sessions'[r] = sessions[r]
        /\ \/ sessions'[s] = Accepted(Seen(sessions[s]))
           \/ sessions'[s] = Seen(sessions[s])
      BY <1>2 DEF Send, Live
  <2>2. /\ Seen(sessions[s]) \in HttpSession
        /\ Seen(sessions[s]).lastSeen = now
      BY <2>1, SessionFacts, Times DEF Seen, TypeOK
  <2>3. Accepted(Seen(sessions[s])).lastSeen = now
      BY <2>2 DEF Accepted, HttpSession
  <2> QED
      BY <1>2, <2>1, <2>2, <2>3, TimeHeard DEF Send
<1>3. ASSUME NEW s \in SessionId, NEW st \in Stream, StreamLookup(s, st) PROVE TimeInv'
  <2>1. /\ s \in Live
        /\ Live' = Live
        /\ \A r \in Live : r # s => sessions'[r] = sessions[r]
        /\ sessions'[s] = Seen(sessions[s])
      BY <1>3 DEF StreamLookup, Live
  <2>2. Seen(sessions[s]).lastSeen = now
      BY <2>1, SessionFacts, Times DEF Seen, TypeOK
  <2> QED
      BY <1>3, <2>1, <2>2, TimeHeard DEF StreamLookup
<1>4. ASSUME NEW st \in Stream, StreamRegister(st) PROVE TimeInv'
  <2>1. /\ Live' = Live
        /\ \A r \in Live : sessions'[r] = IF r = owner[st] THEN Registered(sessions[r], st)
                                                           ELSE sessions[r]
      BY <1>4 DEF StreamRegister, Live
  <2>2. \A r \in Live : Registered(sessions[r], st).lastSeen = sessions[r].lastSeen
      BY DEF Registered, HttpSession, TypeOK
  <2> QED
      BY <1>4, <2>1, <2>2, TimeKept DEF StreamRegister
<1>5. ASSUME NEW st \in Stream, StreamLost(st) PROVE TimeInv'
    BY <1>5, TimeKept DEF StreamLost, Live
<1>6. ASSUME NEW st \in Stream, StreamKeepalive(st) PROVE TimeInv'
    BY <1>6, TimeKept DEF StreamKeepalive, Live
<1>7. CASE TunRead
  <2>1. /\ Live' = Live
        /\ \A r \in Live : sessions'[r] = IF r \in Streaming
                                          THEN [sessions[r] EXCEPT !.writeCounter = @ + 1]
                                          ELSE sessions[r]
      BY <1>7 DEF TunRead, Live
  <2>2. \A r \in Live :
            [sessions[r] EXCEPT !.writeCounter = @ + 1].lastSeen = sessions[r].lastSeen
      BY DEF HttpSession, TypeOK
  <2> QED
      BY <1>7, <2>1, <2>2, TimeKept DEF TunRead
<1>8. CASE TunReadError
    BY <1>8, TimeKept DEF TunReadError, Live
<1>9. CASE Cleanup
  <2>1. /\ Live' = {s \in Live : Kept(sessions[s])}
        /\ \A r \in Live' : sessions'[r] = sessions[r]
        /\ cleanupAt' = now + CleanupPeriod
        /\ UNCHANGED <<now, made, heard, forgotten>>
      BY <1>9 DEF Cleanup, Live
  <2>2. \A r \in Live' : /\ sessions'[r].lastSeen = heard'[r]
                         /\ heard'[r] <= now
                         /\ now - heard[r] < SESSION_TIMEOUT
      BY <2>1 DEF TimeInv, Kept
  <2>3. \A r \in Live' : cleanupAt' < heard'[r] + SESSION_TIMEOUT + CleanupPeriod
      BY <2>1, <2>2, Times
  <2>4. \A r \in (1..made) \ forgotten : r \in Live' \/ heard[r] + SESSION_TIMEOUT <= now
    <3>1. \A r \in Live : r \in Live' \/ ~(now - heard[r] < SESSION_TIMEOUT)
        BY <2>1 DEF TimeInv, Kept
    <3> QED
        BY <3>1, Times DEF TimeInv
  <2>5. now' <= cleanupAt' /\ cleanupAt' <= now' + CleanupPeriod
      BY <2>1, Times
  <2> QED
      BY <2>1, <2>2, <2>3, <2>4, <2>5 DEF TimeInv
<1>10. CASE Tick
  <2>1. /\ now' = now + 1 /\ now < cleanupAt
        /\ Live' = Live
        /\ UNCHANGED <<sessions, cleanupAt, made, heard, forgotten>>
      BY <1>10 DEF Tick, Live
  <2> QED
      BY <2>1, Times DEF TimeInv
<1>11. CASE Restart
  <2>1. Live' = {} /\ now' = now /\ made' = made /\ cleanupAt' = now + CleanupPeriod
        /\ forgotten' = 1..made
      BY <1>11 DEF Restart, Live
  <2> QED
      BY <2>1, Times DEF TimeInv
<1>12. CASE UNCHANGED vars
    BY <1>12, TimeKept DEF vars, Live
<1> QED
    BY <1>1, <1>2, <1>3, <1>4, <1>5, <1>6, <1>7, <1>8, <1>9, <1>10, <1>11, <1>12 DEF Next

LEMMA TimeInvariance == Spec => [](TypeOK /\ TimeInv)
<1>1. Init => TypeOK /\ TimeInv
    BY TypeInit, TimeInit
<1>2. TypeOK /\ TimeInv /\ [Next]_vars => (TypeOK /\ TimeInv)'
    BY TypeNext, TimeNext
<1> QED
    BY <1>1, <1>2, PTL DEF Spec

\* A session is in the store for as long as its client is heard of in time.
THEOREM ActiveKeptCorrect == Spec => []ActiveKept
<1>1. TypeOK /\ TimeInv => ActiveKept
    BY Times DEF TimeInv, ActiveKept
<1> QED
    BY <1>1, TimeInvariance, PTL

\* A session nothing is heard of is gone after the timeout and a cleanup period.
THEOREM StaleEvictedCorrect == Spec => []StaleEvicted
<1>1. TypeOK /\ TimeInv => StaleEvicted
    BY Times DEF TimeInv, StaleEvicted
<1> QED
    BY <1>1, TimeInvariance, PTL

-----------------------------------------------------------------------------
(* Nonces.                                                                 *)

\* The key is that of session s: it has the server's ephemeral key of s.
OfSession(key, s) == \A r \in SessionId : ServerKey(r) \in key <=> r = s

\* Every stream was requested with a session that has been made; every session
\* has a key of its own; every packet was sealed with the key of its stream's
\* session, below the counter the session goes on with if it is still there.
NonceInv ==
    /\ \A st \in Stream : owner[st] \in 0..made
    /\ \A s \in Live : OfSession(sessions[s].key, s)
    /\ \A st \in Stream : \A i \in 1..Len(frames[st]) :
           IsData(frames[st][i]) =>
               /\ owner[st] \in 1..made
               /\ OfSession(frames[st][i].sealed.key, owner[st])
               /\ owner[st] \in Live =>
                      frames[st][i].sealed.counter < sessions[owner[st]].writeCounter
    /\ NonceOnce

LEMMA NonceInit == ASSUME Init PROVE NonceInv
<1>1. Live = {} /\ made = 0 /\ \A st \in Stream : owner[st] = 0 /\ Len(frames[st]) = 0
    BY DEF Init, Live, None
<1> QED
    BY <1>1 DEF NonceInv, NonceOnce

\* A derived key is of the session whose ephemeral key it is derived from.
LEMMA DerivedOfSession ==
    ASSUME NEW s \in SessionId, NEW pub \in Public
    PROVE  OfSession(DeriveKey(ServerKey(s), ClientKey(pub)), s)
<1>1. ASSUME NEW r \in SessionId
      PROVE  ServerKey(r) \in DeriveKey(ServerKey(s), ClientKey(pub)) <=> r = s
  <2>1. ServerKey(r) # ClientKey(pub)
      BY DEF ServerKey, ClientKey
  <2>2. ServerKey(r) = ServerKey(s) <=> r = s
      BY DEF ServerKey
  <2> QED
      BY <2>1, <2>2 DEF DeriveKey
<1> QED
    BY <1>1 DEF OfSession

\* Steps that put no packet into a stream, neither make a session nor take a
\* request, and leave the keys and the counters.
LEMMA NonceKept ==
    ASSUME TypeOK, NonceInv, Live' \subseteq Live,
           \A s \in Live' : /\ sessions'[s].key = sessions[s].key
                            /\ sessions'[s].writeCounter = sessions[s].writeCounter,
           UNCHANGED <<made, owner, frames>>
    PROVE  NonceInv'
<1>1. \A s \in Live' : OfSession(sessions'[s].key, s)
    BY DEF NonceInv
<1>2. \A st \in Stream : \A i \in 1..Len(frames[st]) :
          IsData(frames[st][i]) =>
              /\ owner[st] \in 1..made
              /\ OfSession(frames[st][i].sealed.key, owner[st])
              /\ owner[st] \in Live' =>
                     frames[st][i].sealed.counter < sessions'[owner[st]].writeCounter
    BY DEF NonceInv
<1>3. NonceOnce'
    BY SMTT(60) DEF NonceInv, NonceOnce
<1> QED
    BY <1>1, <1>2, <1>3 DEF NonceInv

\* A packet that is new gets the session's next counter.
LEMMA NonceSealed ==
    ASSUME TypeOK, NonceInv, TunRead PROVE NonceInv'
<1> DEFINE session(st) == sessions[owner[st]]
           Old(st, i) == i \in 1..Len(frames[st]) /\ frames'[st][i] = frames[st][i]
           New(st, i) == /\ Fed(st)
                         /\ i = Len(frames[st]) + 1
                         /\ frames'[st][i] = DataFrame(session(st).key, session(st).writeCounter, read)
<1>1. /\ Live' = Live
      /\ \A s \in Live : sessions'[s] = IF s \in Streaming
                                        THEN [sessions[s] EXCEPT !.writeCounter = @ + 1]
                                        ELSE sessions[s]
      /\ UNCHANGED <<made, owner>>
    BY DEF TunRead, Live
<1>2. \A s \in Live : /\ sessions'[s].key = sessions[s].key
                      /\ sessions[s].writeCounter \in Nat
                      /\ sessions'[s].writeCounter = IF s \in Streaming
                                                     THEN sessions[s].writeCounter + 1
                                                     ELSE sessions[s].writeCounter
    BY <1>1, ZenonT(60) DEF TypeOK, HttpSession
<1>3. ASSUME NEW st \in Stream, NEW i \in 1..Len(frames'[st]) PROVE Old(st, i) \/ New(st, i)
  <2>1. frames[st] \in Seq(Frame)
      BY DEF TypeOK
  <2>2. CASE Fed(st)
    <3>1. frames'[st] = Append(frames[st], DataFrame(session(st).key, session(st).writeCounter, read))
        BY <2>2 DEF TunRead
    <3> QED
        BY <2>1, <2>2, <3>1
  <2>3. CASE ~Fed(st)
      BY <2>3 DEF TunRead
  <2> QED
      BY <2>2, <2>3
<1>4. ASSUME NEW st \in Stream, NEW i \in 1..Len(frames'[st]), New(st, i)
      PROVE  /\ owner[st] \in Streaming
             /\ session(st).stream = st
             /\ OfSession(frames'[st][i].sealed.key, owner[st])
             /\ frames'[st][i].sealed.counter = session(st).writeCounter
  <2>1. owner[st] \in Live /\ session(st).stream = st
      BY <1>4 DEF Fed
  <2>2. /\ frames'[st][i].sealed.key = session(st).key
        /\ frames'[st][i].sealed.counter = session(st).writeCounter
      BY <1>4 DEF DataFrame, Encrypt
  <2>3. OfSession(session(st).key, owner[st])
      BY <2>1 DEF NonceInv
  <2> QED
      BY <2>1, <2>2, <2>3 DEF Streaming, Stream, None
<1>5. ASSUME NEW st \in Stream, NEW i \in 1..Len(frames'[st]), IsData(frames'[st][i])
      PROVE  /\ owner[st] \in 1..made
             /\ OfSession(frames'[st][i].sealed.key, owner[st])
             /\ owner[st] \in Live =>
                    frames'[st][i].sealed.counter < sessions'[owner[st]].writeCounter
  <2>1. CASE Old(st, i)
    <3>1. /\ owner[st] \in 1..made
          /\ OfSession(frames[st][i].sealed.key, owner[st])
          /\ owner[st] \in Live => frames[st][i].sealed.counter < session(st).writeCounter
        BY <1>5, <2>1 DEF NonceInv
    <3>2. frames[st][i].sealed.counter \in Nat
      <4>1. frames[st][i] \in Frame /\ IsData(frames[st][i])
          BY <1>5, <2>1 DEF TypeOK
      <4> QED
          BY <4>1 DEF Frame, IsData, KeepaliveFrame
    <3> QED
        BY <2>1, <3>1, <3>2, <1>2
  <2>2. CASE New(st, i)
    <3>1. Live \subseteq 1..made /\ Streaming \subseteq Live
        BY DEF TypeOK, Streaming
    <3>2. /\ owner[st] \in Streaming
          /\ OfSession(frames'[st][i].sealed.key, owner[st])
          /\ frames'[st][i].sealed.counter = session(st).writeCounter
        BY <2>2, <1>4
    <3>3. /\ session(st).writeCounter \in Nat
          /\ sessions'[owner[st]].writeCounter = session(st).writeCounter + 1
        BY <3>1, <3>2, <1>2
    <3>4. frames'[st][i].sealed.counter < sessions'[owner[st]].writeCounter
        BY <3>2, <3>3
    <3> QED
        BY <3>1, <3>2, <3>4, Zenon
  <2> QED
      BY <1>3, <2>1, <2>2
\* An old packet and a new one of the same session differ in their counters.
<1>6. ASSUME NEW st1 \in Stream, NEW st2 \in Stream,
             NEW i \in 1..Len(frames'[st1]), NEW j \in 1..Len(frames'[st2]),
             Old(st1, i), New(st2, j), IsData(frames'[st1][i]),
             frames'[st1][i].sealed.key = frames'[st2][j].sealed.key
      PROVE  frames'[st1][i].sealed.counter # frames'[st2][j].sealed.counter
  <2>1. /\ owner[st1] \in 1..made
        /\ OfSession(frames[st1][i].sealed.key, owner[st1])
        /\ owner[st1] \in Live => frames[st1][i].sealed.counter < session(st1).writeCounter
      BY <1>6 DEF NonceInv
  <2>2. /\ owner[st2] \in Live
        /\ OfSession(frames'[st2][j].sealed.key, owner[st2])
        /\ frames'[st2][j].sealed.counter = session(st2).writeCounter
      BY <1>4, <1>6 DEF Streaming
  <2>3. owner[st1] = owner[st2]
      BY <1>6, <2>1, <2>2, Times DEF OfSession
  <2>4. /\ frames'[st1][i].sealed.counter < session(st2).writeCounter
        /\ session(st2).writeCounter \in Nat
        /\ frames'[st1][i].sealed.counter \in Nat
    <3>1. frames'[st1][i].sealed.counter < session(st2).writeCounter
        BY <1>6, <2>1, <2>2, <2>3, Zenon
    <3>2. frames[st1][i] \in Frame /\ IsData(frames[st1][i])
        BY <1>6 DEF TypeOK
    <3>3. frames[st1][i].sealed.counter \in Nat
        BY <3>2 DEF Frame, IsData, KeepaliveFrame
    <3> QED
        BY <1>2, <1>6, <2>2, <3>1, <3>3, Zenon
  <2>5. \A m, n \in Nat : m < n => m # n
      OBVIOUS
  <2> QED
      BY <2>2, <2>4, <2>5, Zenon
<1>7. ASSUME NEW st1 \in Stream, NEW st2 \in Stream,
             NEW i \in 1..Len(frames'[st1]), NEW j \in 1..Len(frames'[st2]),
             IsData(frames'[st1][i]), IsData(frames'[st2][j]),
             frames'[st1][i].sealed.key = frames'[st2][j].sealed.key,
             frames'[st1][i].sealed.counter = frames'[st2][j].sealed.counter
      PROVE  st1 = st2 /\ i = j
  <2>1. CASE Old(st1, i) /\ Old(st2, j)
      BY <1>7, <2>1 DEF NonceInv, NonceOnce
  <2>2. ~(Old(st1, i) /\ New(st2, j)) /\ ~(New(st1, i) /\ Old(st2, j))
      BY <1>6, <1>7
  <2>3. CASE New(st1, i) /\ New(st2, j)
    <3>1. /\ owner[st1] \in Streaming /\ owner[st2] \in Streaming
          /\ session(st1).stream = st1 /\ session(st2).stream = st2
          /\ OfSession(frames'[st1][i].sealed.key, owner[st1])
          /\ OfSession(frames'[st2][j].sealed.key, owner[st2])
        BY <1>4, <2>3
    <3>2. Streaming \subseteq SessionId
        BY Times DEF Streaming
    <3>3. owner[st1] = owner[st2]
        BY <1>7, <3>1, <3>2 DEF OfSession
    <3> QED
        BY <2>3, <3>1, <3>3
  <2> QED
      BY <1>3, <2>1, <2>2, <2>3
<1>8. NonceOnce'
    BY <1>7 DEF NonceOnce
<1>9. \A s \in Live' : OfSession(sessions'[s].key, s)
    BY <1>1, <1>2 DEF NonceInv
<1>10. \A st \in Stream : owner'[st] \in 0..made'
    BY <1>1 DEF NonceInv
<1> QED
    BY <1>1, <1>5, <1>8, <1>9, <1>10 DEF NonceInv

\* A keepalive is not a packet.
LEMMA NonceKeepalive ==
    ASSUME TypeOK, NonceInv, NEW ka \in Stream, StreamKeepalive(ka) PROVE NonceInv'
<1>1. Live' = Live /\ UNCHANGED <<made, owner, sessions>>
    BY DEF StreamKeepalive, Live
<1>2. ASSUME NEW st \in Stream, NEW i \in 1..Len(frames'[st]), IsData(frames'[st][i])
      PROVE  i \in 1..Len(frames[st]) /\ frames'[st][i] = frames[st][i]
  <2>1. frames[st] \in Seq(Frame) /\ frames \in [Stream -> Seq(Frame)]
      BY DEF TypeOK
  <2>2. CASE frames' = [frames EXCEPT ![ka] = Append(frames[ka], KeepaliveFrame)]
    <3>1. CASE st = ka
      <4>1. frames'[st] = Append(frames[st], KeepaliveFrame)
          BY <2>1, <2>2, <3>1
      <4>2. ~IsData(KeepaliveFrame)
          BY DEF IsData, KeepaliveFrame
      <4> QED
          BY <1>2, <2>1, <4>1, <4>2
    <3>2. CASE st # ka
        BY <2>1, <2>2, <3>2
    <3> QED
        BY <3>1, <3>2
  <2>3. CASE frames' = frames
      BY <2>3
  <2> QED
      BY <2>2, <2>3 DEF StreamKeepalive
<1>3. NonceOnce'
  <2> SUFFICES ASSUME NEW st1 \in Stream, NEW st2 \in Stream,
                      NEW i \in 1..Len(frames'[st1]), NEW j \in 1..Len(frames'[st2]),
                      IsData(frames'[st1][i]), IsData(frames'[st2][j]),
                      frames'[st1][i].sealed.key = frames'[st2][j].sealed.key,
                      frames'[st1][i].sealed.counter = frames'[st2][j].sealed.counter
               PROVE  st1 = st2 /\ i = j
      BY DEF NonceOnce
  <2>1. /\ i \in 1..Len(frames[st1]) /\ frames'[st1][i] = frames[st1][i]
        /\ j \in 1..Len(frames[st2]) /\ frames'[st2][j] = frames[st2][j]
      BY <1>2
  <2> QED
      BY <2>1 DEF NonceInv, NonceOnce
<1>4. \A st \in Stream : \A i \in 1..Len(frames'[st]) :
          IsData(frames'[st][i]) =>
              /\ owner[st] \in 1..made
              /\ OfSession(frames'[st][i].sealed.key, owner[st])
              /\ owner[st] \in Live =>
                     frames'[st][i].sealed.counter < sessions[owner[st]].writeCounter
    BY <1>2 DEF NonceInv
<1> QED
    BY <1>1, <1>3, <1>4 DEF NonceInv

LEMMA NonceNext == ASSUME TypeOK, NonceInv, [Next]_vars PROVE NonceInv'
<1>1. ASSUME NEW pub \in Public, NEW psk \in Psk, DoInit(pub, psk) PROVE NonceInv'
  <2> DEFINE s == made + 1
             key == DeriveKey(ServerKey(s), ClientKey(pub))
  <2>1. /\ Live' = Live \cup {s}
        /\ sessions'[s].key = key
        /\ \A r \in Live : r # s => sessions'[r] = sessions[r]
        /\ made' = s
        /\ UNCHANGED <<owner, frames>>
      BY <1>1 DEF DoInit, Live
  <2>2. made \in Nat /\ s \in SessionId /\ s \notin 1..made
    <3>1. MaxSession \in Nat /\ made \in Nat /\ made < MaxSession
        BY <1>1, Times, BoundAssumption DEF DoInit
    <3> QED
        BY <3>1 DEF SessionId
  <2>3. OfSession(key, s)
      BY <2>2, DerivedOfSession
  <2>4. \A r \in Live' : OfSession(sessions'[r].key, r)
      BY <2>1, <2>3 DEF NonceInv
  <2>5. ASSUME NEW st \in Stream PROVE owner'[st] \in 0..made'
    <3>1. owner[st] \in 0..made
        BY DEF NonceInv
    <3> QED
        BY <2>1, <2>2, <3>1
  <2>6. ASSUME NEW st \in Stream, NEW i \in 1..Len(frames[st]), IsData(frames[st][i])
        PROVE  /\ owner[st] \in 1..made'
               /\ OfSession(frames[st][i].sealed.key, owner[st])
               /\ owner[st] \in Live' =>
                      frames[st][i].sealed.counter < sessions'[owner[st]].writeCounter
    <3>1. /\ owner[st] \in 1..made
          /\ OfSession(frames[st][i].sealed.key, owner[st])
          /\ owner[st] \in Live =>
                 frames[st][i].sealed.counter < sessions[owner[st]].writeCounter
        BY <2>6 DEF NonceInv
    <3>2. owner[st] \in 1..made' /\ owner[st] # s
        BY <2>1, <2>2, <3>1
    <3> QED
        BY <2>1, <3>1, <3>2
  <2>7. NonceOnce'
      BY <2>1, SMTT(60) DEF NonceInv, NonceOnce
  <2> QED
      BY <2>1, <2>4, <2>5, <2>6, <2>7 DEF NonceInv
<1>2. ASSUME NEW s \in SessionId, NEW f \in ClientFrame(s), Send(s, f) PROVE NonceInv'
  <2>1. /\ s \in Live
        /\ Live' = Live
        /\ \A r \in Live : r # s => sessions'[r] = sessions[r]
        /\ \/ sessions'[s] = Accepted(Seen(sessions[s]))
           \/ sessions'[s] = Seen(sessions[s])
        /\ UNCHANGED <<made, owner, frames>>
      BY <1>2 DEF Send, Live
  <2>2. /\ Seen(sessions[s]) \in HttpSession
        /\ Seen(sessions[s]).key = sessions[s].key
        /\ Seen(sessions[s]).writeCounter = sessions[s].writeCounter
      BY <2>1, SessionFacts, Times DEF Seen, TypeOK
  <2>3. /\ Accepted(Seen(sessions[s])).key = sessions[s].key
        /\ Accepted(Seen(sessions[s])).writeCounter = sessions[s].writeCounter
      BY <2>2 DEF Accepted, HttpSession
  <2> QED
      BY <2>1, <2>2, <2>3, NonceKept
<1>3. ASSUME NEW s \in SessionId, NEW st \in Stream, StreamLookup(s, st) PROVE NonceInv'
  <2>1. /\ s \in Live
        /\ Live' = Live
        /\ \A r \in Live : r # s => sessions'[r] = sessions[r]
        /\ sessions'[s] = Seen(sessions[s])
        /\ owner[st] = None
        /\ owner' = [owner EXCEPT ![st] = s]
        /\ UNCHANGED <<made, frames>>
      BY <1>3 DEF StreamLookup, Live
  <2>2. /\ Seen(sessions[s]).key = sessions[s].key
        /\ Seen(sessions[s]).writeCounter = sessions[s].writeCounter
      BY <2>1, SessionFacts, Times DEF Seen, TypeOK
  <2>3. \A r \in Live : /\ sessions'[r].key = sessions[r].key
                        /\ sessions'[r].writeCounter = sessions[r].writeCounter
      BY <2>1, <2>2
  <2>4. owner'[st] = s /\ \A other \in Stream : other # st => owner'[other] = owner[other]
      BY <2>1 DEF TypeOK
  <2>5. s \in 1..made /\ 0 \notin 1..made /\ made \in Nat
      BY <2>1, Times
  <2>6. \A r \in Live' : OfSession(sessions'[r].key, r)
      BY <2>1, <2>3 DEF NonceInv
  <2>7. \A r \in Stream : owner'[r] \in 0..made
      BY <2>4, <2>5 DEF NonceInv
  <2>8. ASSUME NEW other \in Stream, NEW i \in 1..Len(frames[other]), IsData(frames[other][i])
        PROVE  /\ owner'[other] \in 1..made
               /\ OfSession(frames[other][i].sealed.key, owner'[other])
               /\ owner'[other] \in Live' =>
                      frames[other][i].sealed.counter < sessions'[owner'[other]].writeCounter
    <3>1. /\ owner[other] \in 1..made
          /\ OfSession(frames[other][i].sealed.key, owner[other])
          /\ owner[other] \in Live =>
                 frames[other][i].sealed.counter < sessions[owner[other]].writeCounter
        BY <2>8 DEF NonceInv
    <3>2. owner'[other] = owner[other]
        BY <2>1, <2>4, <2>5, <3>1 DEF None
    <3> QED
        BY <2>1, <2>3, <3>1, <3>2
  <2>9. NonceOnce'
      BY <2>1, SMTT(60) DEF NonceInv, NonceOnce
  <2> QED
      BY <2>1, <2>6, <2>7, <2>8, <2>9 DEF NonceInv
<1>4. ASSUME NEW st \in Stream, StreamRegister(st) PROVE NonceInv'
  <2>1. /\ Live' = Live
        /\ \A r \in Live : sessions'[r] = IF r = owner[st] THEN Registered(sessions[r], st)
                                                           ELSE sessions[r]
        /\ UNCHANGED <<made, owner, frames>>
      BY <1>4 DEF StreamRegister, Live
  <2>2. \A r \in Live : /\ Registered(sessions[r], st).key = sessions[r].key
                        /\ Registered(sessions[r], st).writeCounter = sessions[r].writeCounter
      BY DEF Registered, HttpSession, TypeOK
  <2> QED
      BY <2>1, <2>2, NonceKept
<1>5. ASSUME NEW st \in Stream, StreamLost(st) PROVE NonceInv'
    BY <1>5, NonceKept DEF StreamLost, Live
<1>6. ASSUME NEW st \in Stream, StreamKeepalive(st) PROVE NonceInv'
    BY <1>6, NonceKeepalive
<1>7. CASE TunRead
    BY <1>7, NonceSealed
<1>8. CASE TunReadError
    BY <1>8, NonceKept DEF TunReadError, Live
<1>9. CASE Cleanup
  <2>1. /\ Live' \subseteq Live
        /\ \A r \in Live' : sessions'[r] = sessions[r]
        /\ UNCHANGED <<made, owner, frames>>
      BY <1>9 DEF Cleanup, Live
  <2> QED
      BY <2>1, NonceKept
<1>10. CASE Tick
    BY <1>10, NonceKept DEF Tick, Live
<1>11. CASE Restart
  <2>1. Live' = {} /\ UNCHANGED <<made, owner, frames>>
      BY <1>11 DEF Restart, Live
  <2> QED
      BY <2>1, NonceKept
<1>12. CASE UNCHANGED vars
    BY <1>12, NonceKept DEF vars, Live
<1> QED
    BY <1>1, <1>2, <1>3, <1>4, <1>5, <1>6, <1>7, <1>8, <1>9, <1>10, <1>11, <1>12 DEF Next

\* No two packets the server seals have key and counter in common.
THEOREM NonceOnceCorrect == Spec => []NonceOnce
<1>1. Init => TypeOK /\ NonceInv
    BY TypeInit, NonceInit
<1>2. TypeOK /\ NonceInv /\ [Next]_vars => (TypeOK /\ NonceInv)'
    BY TypeNext, NonceNext
<1>3. NonceInv => NonceOnce
    BY DEF NonceInv
<1> QED
    BY <1>1, <1>2, <1>3, PTL DEF Spec

-----------------------------------------------------------------------------
(* The uplink.                                                             *)

\* A session's packets are numbered as they come, and read_counter is the next.
UplinkInv ==
    /\ UplinkInOrder
    /\ \A s \in Live : Len(toTun[s]) = sessions[s].readCounter
    /\ \A s \in SessionId \ (1..made) : Len(toTun[s]) = 0

LEMMA UplinkInit == ASSUME Init PROVE UplinkInv
<1>1. \A s \in SessionId : Len(toTun[s]) = 0
    BY DEF Init
<1>2. Live = {}
    BY DEF Init, Live
<1> QED
    BY <1>1, <1>2 DEF UplinkInv, UplinkInOrder

\* A step by which no packet goes up.
LEMMA UplinkKept ==
    ASSUME TypeOK, UplinkInv, UNCHANGED <<made, toTun>>, Live' \subseteq Live,
           \A s \in Live' : sessions'[s].readCounter = sessions[s].readCounter
    PROVE  UplinkInv'
    BY DEF UplinkInv, UplinkInOrder

LEMMA Numbered ==
    ASSUME NEW q \in Seq(Nat), \A i \in 1..Len(q) : q[i] = i - 1
    PROVE  /\ Len(Append(q, Len(q))) = Len(q) + 1
           /\ \A i \in 1..Len(Append(q, Len(q))) : Append(q, Len(q))[i] = i - 1
<1>1. Len(Append(q, Len(q))) = Len(q) + 1
    OBVIOUS
<1>2. ASSUME NEW i \in 1..(Len(q) + 1) PROVE Append(q, Len(q))[i] = i - 1
  <2>1. CASE i = Len(q) + 1
      BY <2>1
  <2>2. CASE i # Len(q) + 1
      BY <2>2
  <2> QED
      BY <2>1, <2>2
<1> QED
    BY <1>1, <1>2

LEMMA UplinkSend ==
    ASSUME TypeOK, UplinkInv, NEW s \in SessionId, NEW f \in ClientFrame(s), Send(s, f)
    PROVE  UplinkInv'
<1> DEFINE opens == f.type = "DATA" /\ Opens(sessions[s].key, sessions[s].readCounter, f.sealed)
<1>1. /\ s \in Live
      /\ Live' = Live
      /\ UNCHANGED made
      /\ \A r \in Live : r # s => sessions'[r] = sessions[r]
      /\ sessions'[s] = IF opens THEN Accepted(Seen(sessions[s])) ELSE Seen(sessions[s])
      /\ toTun' = IF opens THEN [toTun EXCEPT ![s] = Append(@, f.sealed.packet)] ELSE toTun
    BY DEF Send, Live
<1>2. /\ sessions[s] \in HttpSession
      /\ Seen(sessions[s]) \in HttpSession
      /\ Seen(sessions[s]).readCounter = sessions[s].readCounter
    BY <1>1, SessionFacts, Times DEF Seen, TypeOK
<1>3. CASE opens
  <2>1. sessions'[s].readCounter = sessions[s].readCounter + 1
      BY <1>1, <1>2, <1>3 DEF Accepted, HttpSession
  <2>2. f.sealed.packet = Len(toTun[s])
      BY <1>1, <1>3 DEF ClientFrame, KeepaliveFrame, DataFrame, Encrypt, Opens, UplinkInv
  <2>3. /\ toTun'[s] = Append(toTun[s], Len(toTun[s]))
        /\ \A r \in SessionId : r # s => toTun'[r] = toTun[r]
      BY <1>1, <1>3, <2>2 DEF TypeOK
  <2>4. /\ Len(toTun'[s]) = Len(toTun[s]) + 1
        /\ \A i \in 1..Len(toTun'[s]) : toTun'[s][i] = i - 1
      BY <2>3, Numbered DEF TypeOK, UplinkInv, UplinkInOrder
  <2>5. s \in 1..made
      BY <1>1, Times
  <2>6. UplinkInOrder'
    <3>1. ASSUME NEW r \in SessionId, r # s
          PROVE  \A i \in 1..Len(toTun'[r]) : toTun'[r][i] = i - 1
        BY <2>3, <3>1 DEF UplinkInv, UplinkInOrder
    <3> QED
        BY <2>4, <3>1 DEF UplinkInOrder
  <2>7. \A r \in Live : Len(toTun'[r]) = sessions'[r].readCounter
    <3>1. \A r \in Live : r \in SessionId
        BY Times
    <3> QED
        BY <1>1, <2>1, <2>3, <2>4, <3>1 DEF UplinkInv
  <2> QED
      BY <1>1, <2>3, <2>5, <2>6, <2>7 DEF UplinkInv
<1>4. CASE ~opens
    BY <1>1, <1>2, <1>4, UplinkKept
<1> QED
    BY <1>3, <1>4

LEMMA UplinkNext == ASSUME TypeOK, UplinkInv, [Next]_vars PROVE UplinkInv'
<1>1. ASSUME NEW pub \in Public, NEW psk \in Psk, DoInit(pub, psk) PROVE UplinkInv'
  <2> DEFINE s == made + 1
  <2>1. /\ Live' = Live \cup {s}
        /\ sessions'[s].readCounter = 0
        /\ \A r \in Live : r # s => sessions'[r] = sessions[r]
        /\ made' = s /\ toTun' = toTun
      BY <1>1 DEF DoInit, Live
  <2>2. s \in SessionId \ (1..made) /\ 1..made' = (1..made) \cup {s}
    <3>1. MaxSession \in Nat /\ made \in Nat /\ made < MaxSession
        BY <1>1, Times, BoundAssumption DEF DoInit
    <3> QED
        BY <2>1, <3>1 DEF SessionId
  <2>3. Len(toTun[s]) = 0
      BY <2>2 DEF UplinkInv
  <2> QED
      BY <2>1, <2>2, <2>3 DEF UplinkInv, UplinkInOrder
<1>2. ASSUME NEW s \in SessionId, NEW f \in ClientFrame(s), Send(s, f) PROVE UplinkInv'
    BY <1>2, UplinkSend
<1>3. ASSUME NEW s \in SessionId, NEW st \in Stream, StreamLookup(s, st) PROVE UplinkInv'
  <2>1. /\ s \in Live
        /\ Live' = Live
        /\ \A r \in Live : r # s => sessions'[r] = sessions[r]
        /\ sessions'[s] = Seen(sessions[s])
      BY <1>3 DEF StreamLookup, Live
  <2>2. Seen(sessions[s]).readCounter = sessions[s].readCounter
      BY <2>1, SessionFacts, Times DEF Seen, TypeOK
  <2> QED
      BY <1>3, <2>1, <2>2, UplinkKept DEF StreamLookup
<1>4. ASSUME NEW st \in Stream, StreamRegister(st) PROVE UplinkInv'
  <2>1. /\ Live' = Live
        /\ \A r \in Live : sessions'[r] = IF r = owner[st] THEN Registered(sessions[r], st)
                                                           ELSE sessions[r]
      BY <1>4 DEF StreamRegister, Live
  <2>2. \A r \in Live : Registered(sessions[r], st).readCounter = sessions[r].readCounter
      BY DEF Registered, HttpSession, TypeOK
  <2> QED
      BY <1>4, <2>1, <2>2, UplinkKept DEF StreamRegister
<1>5. ASSUME NEW st \in Stream, StreamLost(st) PROVE UplinkInv'
    BY <1>5, UplinkKept DEF StreamLost, Live
<1>6. ASSUME NEW st \in Stream, StreamKeepalive(st) PROVE UplinkInv'
    BY <1>6, UplinkKept DEF StreamKeepalive, Live
<1>7. CASE TunRead
  <2>1. /\ Live' = Live
        /\ \A r \in Live : sessions'[r] = IF r \in Streaming
                                          THEN [sessions[r] EXCEPT !.writeCounter = @ + 1]
                                          ELSE sessions[r]
      BY <1>7 DEF TunRead, Live
  <2>2. \A r \in Live :
            [sessions[r] EXCEPT !.writeCounter = @ + 1].readCounter = sessions[r].readCounter
      BY DEF HttpSession, TypeOK
  <2> QED
      BY <1>7, <2>1, <2>2, UplinkKept DEF TunRead
<1>8. CASE TunReadError
    BY <1>8, UplinkKept DEF TunReadError, Live
<1>9. CASE Cleanup
  <2>1. /\ Live' \subseteq Live
        /\ \A r \in Live' : sessions'[r] = sessions[r]
        /\ UNCHANGED <<made, toTun>>
      BY <1>9 DEF Cleanup, Live
  <2> QED
      BY <2>1, UplinkKept
<1>10. CASE Tick
    BY <1>10, UplinkKept DEF Tick, Live
<1>11. CASE Restart
  <2>1. Live' = {} /\ UNCHANGED <<made, toTun>>
      BY <1>11 DEF Restart, Live
  <2> QED
      BY <2>1, UplinkKept
<1>12. CASE UNCHANGED vars
    BY <1>12, UplinkKept DEF vars, Live
<1> QED
    BY <1>1, <1>2, <1>3, <1>4, <1>5, <1>6, <1>7, <1>8, <1>9, <1>10, <1>11, <1>12 DEF Next

\* Whatever requests come late, twice or out of order, the packets of a session
\* get to the TUN device in the order they were sealed in, each once.
THEOREM UplinkInOrderCorrect == Spec => []UplinkInOrder
<1>1. Init => TypeOK /\ UplinkInv
    BY TypeInit, UplinkInit
<1>2. TypeOK /\ UplinkInv /\ [Next]_vars => (TypeOK /\ UplinkInv)'
    BY TypeNext, UplinkNext
<1>3. UplinkInv => UplinkInOrder
    BY DEF UplinkInv
<1> QED
    BY <1>1, <1>2, <1>3, PTL DEF Spec

-----------------------------------------------------------------------------
(* The downlink.                                                           *)

\* What comes next depends on the frames before, and on counter and number.
LEMMA FollowsSame ==
    ASSUME NEW c, NEW d, NEW n \in Nat, \A i \in 1..n : d[i] = c[i],
           NEW p, NEW q, q.counter = p.counter, q.packet = p.packet,
           NEW O, NEW P, P = {} => O = {},
           Follows(c, n, p, O)
    PROVE  Follows(d, n, q, P)
<1>1. ASSUME NEW m \in Nat \ {0}, NoData(c, m, n) PROVE NoData(d, m, n)
    BY <1>1 DEF NoData, IsData
<1>2. ASSUME NEW i \in 1..n,
             IsData(c[i]), NoData(c, i + 1, n),
             p.counter = c[i].sealed.counter + 1, p.packet = c[i].sealed.packet + 1
      PROVE  Follows(d, n, q, P)
  <2>1. NoData(d, i + 1, n) /\ IsData(d[i])
      BY <1>1, <1>2 DEF IsData
  <2> QED
      BY <1>2, <2>1 DEF Follows
<1>3. ASSUME NoData(c, 1, n), O = {} => p.counter = 0 PROVE Follows(d, n, q, P)
    BY <1>1, <1>3 DEF Follows
<1> QED
    BY <1>2, <1>3 DEF Follows

\* The case in which a frame that was put into a channel stays the next one there.
LEMMA FollowsStill ==
    ASSUME NEW c, NEW d, NEW j \in Nat \ {0}, \A i \in 1..j : d[i] = c[i],
           NEW O, NEW P, P = {} => O = {},
           Follows(c, j - 1, c[j].sealed, O)
    PROVE  Follows(d, j - 1, d[j].sealed, P)
<1>1. PICK n \in Nat : n = j - 1
    OBVIOUS
<1>2. \A i \in 1..n : d[i] = c[i]
    BY <1>1
<1>3. PICK sealed : sealed = c[j].sealed
    OBVIOUS
<1>4. d[j].sealed = sealed
    BY <1>3
<1>5. Follows(c, n, sealed, O)
    BY <1>1, <1>3
<1>6. Follows(d, n, sealed, P)
    BY <1>2, <1>5, FollowsSame
<1> QED
    BY <1>1, <1>4, <1>6

\* A keepalive changes nothing for the packet that comes next.
LEMMA FollowsKeepalive ==
    ASSUME NEW c, NEW n \in Nat, NEW p, NEW O, Follows(c, n, p, O), ~IsData(c[n + 1])
    PROVE  Follows(c, n + 1, p, O)
<1>1. ASSUME NEW m \in Nat \ {0}, NoData(c, m, n) PROVE NoData(c, m, n + 1)
  <2> SUFFICES ASSUME NEW i \in m..(n + 1) PROVE ~IsData(c[i])
      BY DEF NoData
  <2>1. CASE i \in m..n
      BY <1>1, <2>1 DEF NoData
  <2>2. CASE i = n + 1
      BY <2>2
  <2> QED
      BY <2>1, <2>2
<1>2. ASSUME NEW i \in 1..n,
             IsData(c[i]), NoData(c, i + 1, n),
             p.counter = c[i].sealed.counter + 1, p.packet = c[i].sealed.packet + 1
      PROVE  Follows(c, n + 1, p, O)
  <2>1. NoData(c, i + 1, n + 1) /\ i \in 1..(n + 1)
      BY <1>1, <1>2
  <2> QED
      BY <1>2, <2>1 DEF Follows
<1>3. ASSUME NoData(c, 1, n), O = {} => p.counter = 0 PROVE Follows(c, n + 1, p, O)
    BY <1>1, <1>3 DEF Follows
<1> QED
    BY <1>2, <1>3 DEF Follows

\* After a packet comes the one with the next counter and the next number.
LEMMA FollowsData ==
    ASSUME NEW c, NEW n \in Nat \ {0}, NEW p, NEW O, IsData(c[n]),
           p.counter = c[n].sealed.counter + 1, p.packet = c[n].sealed.packet + 1
    PROVE  Follows(c, n, p, O)
<1>1. NoData(c, n + 1, n) /\ n \in 1..n
    BY DEF NoData
<1> QED
    BY <1>1 DEF Follows

\* The packet that comes next in a stream that is fed is the next one read, under
\* the next counter of its session.  It is the session's stream only that is fed:
\* a session without one has not sealed a packet yet, and what a session sends
\* into was requested with it and has been answered.
NextPacket(st) == Encrypt(sessions[owner[st]].key, sessions[owner[st]].writeCounter, read)
FedInv ==
    \A st \in Stream :
        Fed(st) => Follows(frames[st], Len(frames[st]), NextPacket(st), Others(st))
SessionStreams ==
    \A s \in Live :
        IF sessions[s].stream = None
        THEN sessions[s].writeCounter = 0
        ELSE owner[sessions[s].stream] = s /\ sessions[s].stream \notin requests
StreamsBegin ==
    \A st \in Stream :
        /\ owner[st] = None => stream[st] = "none" /\ st \notin requests
        /\ st \in requests => stream[st] = "none"
        /\ stream[st] = "none" => frames[st] = <<>>
DownlinkInv == StreamContiguous /\ FedInv /\ SessionStreams /\ StreamsBegin

LEMMA DownlinkInit == ASSUME Init PROVE DownlinkInv
<1>1. /\ Live = {} /\ requests = {}
      /\ \A st \in Stream : stream[st] = "none" /\ frames[st] = <<>>
    BY DEF Init, Live
<1>2. \A st \in Stream : Len(frames[st]) = 0 /\ ~Fed(st)
    BY <1>1 DEF Fed
<1> QED
    BY <1>1, <1>2 DEF DownlinkInv, StreamContiguous, FedInv, SessionStreams, StreamsBegin

\* A step by which no packet is read, no stream requested or registered, and
\* nothing put into a channel.
LEMMA DownlinkKept ==
    ASSUME TypeOK, DownlinkInv, UNCHANGED <<owner, frames, read>>,
           requests' \subseteq requests,
           \A s \in Live' :
               \/ sessions'[s].stream = None /\ sessions'[s].writeCounter = 0
               \/ /\ s \in Live
                  /\ sessions'[s].stream = sessions[s].stream
                  /\ sessions'[s].writeCounter = sessions[s].writeCounter,
           \A st \in Stream :
               /\ stream'[st] = "open" => stream[st] = "open"
               /\ stream'[st] = "none" => stream[st] = "none"
               /\ stream[st] = "none" => \/ stream'[st] = "none"
                                         \/ st \notin requests' /\ owner[st] # None
    PROVE  DownlinkInv'
<1>1. \A st \in Stream : Others(st)' = Others(st)
    BY DEF Others
<1>2. StreamContiguous'
    BY <1>1 DEF DownlinkInv, StreamContiguous
<1>3. ASSUME NEW st \in Stream, Fed(st)'
      PROVE  Follows(frames[st], Len(frames[st]), NextPacket(st)', Others(st))
  <2>1. /\ owner[st] \in Live'
        /\ sessions'[owner[st]].stream = st
        /\ stream'[st] = "open"
      BY <1>3 DEF Fed
  <2>2. st # None
      BY DEF Stream, None
  <2>3. Fed(st) /\ sessions'[owner[st]].writeCounter = sessions[owner[st]].writeCounter
      BY <2>1, <2>2 DEF Fed
  <2>4. NextPacket(st)'.counter = NextPacket(st).counter /\ NextPacket(st)'.packet = NextPacket(st).packet
      BY <2>3 DEF NextPacket, Encrypt
  <2>5. Len(frames[st]) \in Nat
      BY DEF TypeOK
  <2>6. Follows(frames[st], Len(frames[st]), NextPacket(st), Others(st))
      BY <2>3 DEF DownlinkInv, FedInv
  <2> QED
      BY <2>4, <2>5, <2>6, FollowsSame
<1>4. FedInv'
    BY <1>1, <1>3 DEF FedInv
<1>5. SessionStreams'
    BY DEF DownlinkInv, SessionStreams
<1>6. StreamsBegin'
    BY DEF DownlinkInv, StreamsBegin
<1> QED
    BY <1>2, <1>4, <1>5, <1>6 DEF DownlinkInv

LEMMA DownlinkLookup ==
    ASSUME TypeOK, DownlinkInv, NEW s \in SessionId, NEW st \in Stream, StreamLookup(s, st)
    PROVE  DownlinkInv'
<1>1. /\ s \in Live /\ Live' = Live
      /\ \A r \in Live : r # s => sessions'[r] = sessions[r]
      /\ sessions'[s] = Seen(sessions[s])
      /\ owner[st] = None
      /\ owner' = [owner EXCEPT ![st] = s]
      /\ requests' = requests \cup {st}
      /\ UNCHANGED <<stream, frames, read>>
    BY DEF StreamLookup, Live
<1>2. \A r \in Live : /\ sessions'[r].stream = sessions[r].stream
                      /\ sessions'[r].writeCounter = sessions[r].writeCounter
  <2>1. sessions[s] \in HttpSession /\ now \in Nat
      BY <1>1 DEF TypeOK
  <2>2. /\ Seen(sessions[s]).stream = sessions[s].stream
        /\ Seen(sessions[s]).writeCounter = sessions[s].writeCounter
      BY <2>1, SessionFacts DEF Seen
  <2> QED
      BY <1>1, <2>2
<1>3. owner'[st] = s /\ \A o \in Stream : o # st => owner'[o] = owner[o]
    BY <1>1 DEF TypeOK
<1>4. None \notin Live
    BY Times DEF None
<1>5. ASSUME NEW o \in Stream, owner[o] # None
      PROVE  owner'[o] = owner[o] /\ (Others(o)' = {} => Others(o) = {})
    BY <1>1, <1>3, <1>5 DEF Others
<1>6. StreamContiguous'
  <2> SUFFICES ASSUME NEW o \in Stream, NEW j \in 1..Len(frames[o]), IsData(frames[o][j])
               PROVE  Follows(frames[o], j - 1, frames[o][j].sealed, Others(o)')
      BY <1>1 DEF StreamContiguous
  <2>1. Follows(frames[o], j - 1, frames[o][j].sealed, Others(o))
      BY DEF DownlinkInv, StreamContiguous
  <2>2. owner[o] # None
    <3>1. Len(frames[o]) \in Nat /\ frames[o] # <<>>
        BY DEF TypeOK
    <3> QED
        BY <3>1 DEF DownlinkInv, StreamsBegin
  <2>3. j \in Nat \ {0}
      BY DEF TypeOK
  <2> QED
      BY <1>5, <2>1, <2>2, <2>3, FollowsStill
<1>7. FedInv'
  <2> SUFFICES ASSUME NEW o \in Stream, Fed(o)'
               PROVE  Follows(frames[o], Len(frames[o]), NextPacket(o)', Others(o)')
      BY <1>1 DEF FedInv
  <2>1. stream[o] = "open" /\ owner[o] # None
      BY <1>1 DEF Fed, DownlinkInv, StreamsBegin
  <2>2. owner'[o] = owner[o]
      BY <1>5, <2>1
  <2>3. Fed(o) /\ owner[o] \in Live
      BY <1>1, <1>2, <2>2 DEF Fed
  <2>4. NextPacket(o)'.counter = NextPacket(o).counter /\ NextPacket(o)'.packet = NextPacket(o).packet
      BY <1>1, <1>2, <2>2, <2>3 DEF NextPacket, Encrypt
  <2>5. Len(frames[o]) \in Nat
      BY DEF TypeOK
  <2>6. Follows(frames[o], Len(frames[o]), NextPacket(o), Others(o))
      BY <2>3 DEF DownlinkInv, FedInv
  <2> QED
      BY <1>5, <2>1, <2>4, <2>5, <2>6, FollowsSame
<1>8. SessionStreams'
  <2> SUFFICES ASSUME NEW r \in Live, sessions[r].stream # None
               PROVE  /\ owner'[sessions[r].stream] = r
                      /\ sessions[r].stream \notin requests'
      BY <1>1, <1>2 DEF DownlinkInv, SessionStreams
  <2>1. owner[sessions[r].stream] = r /\ sessions[r].stream \notin requests
      BY DEF DownlinkInv, SessionStreams
  <2>2. sessions[r].stream \in Stream /\ sessions[r].stream # st
      BY <1>1, <1>4, <2>1 DEF TypeOK, HttpSession
  <2> QED
      BY <1>1, <1>3, <2>1, <2>2
<1>9. StreamsBegin'
    BY <1>1, <1>3, <1>4 DEF DownlinkInv, StreamsBegin
<1> QED
    BY <1>6, <1>7, <1>8, <1>9 DEF DownlinkInv

\* A stream that is registered as the first of its session begins at counter 0.
LEMMA DownlinkRegister ==
    ASSUME TypeOK, DownlinkInv, NEW st \in Stream, StreamRegister(st)
    PROVE  DownlinkInv'
<1> DEFINE s == owner[st]
<1>1. /\ Live' = Live
      /\ \A r \in Live : sessions'[r] = IF r = s THEN Registered(sessions[r], st)
                                                 ELSE sessions[r]
      /\ st \in requests /\ requests' = requests \ {st}
      /\ stream' = [stream EXCEPT ![st] = "open"]
      /\ UNCHANGED <<owner, frames, read>>
    BY DEF StreamRegister, Live
<1>2. \A r \in Live : /\ sessions'[r].writeCounter = sessions[r].writeCounter
                      /\ sessions'[r].stream = IF r = s THEN st ELSE sessions[r].stream
    BY <1>1 DEF Registered, HttpSession, TypeOK
<1>3. stream'[st] = "open" /\ \A o \in Stream : o # st => stream'[o] = stream[o]
    BY <1>1 DEF TypeOK
<1>4. \A o \in Stream : Others(o)' = Others(o)
    BY <1>1 DEF Others
<1>5. StreamContiguous'
    BY <1>1, <1>4 DEF DownlinkInv, StreamContiguous
<1>6. frames[st] = <<>> /\ s # None
    BY <1>1 DEF DownlinkInv, StreamsBegin
<1>7. FedInv'
  <2> SUFFICES ASSUME NEW o \in Stream, Fed(o)'
               PROVE  Follows(frames[o], Len(frames[o]), NextPacket(o)', Others(o))
      BY <1>1, <1>4 DEF FedInv
  <2>1. /\ owner[o] \in Live
        /\ sessions'[owner[o]].stream = o
        /\ stream'[o] = "open"
      BY <1>1 DEF Fed
  <2>2. /\ NextPacket(o)'.counter = sessions[owner[o]].writeCounter
        /\ NextPacket(o).counter = sessions[owner[o]].writeCounter
        /\ NextPacket(o)'.packet = NextPacket(o).packet
      BY <1>1, <1>2, <2>1 DEF NextPacket, Encrypt
  <2>3. CASE o = st
    <3>1. sessions[s].stream = None => sessions[s].writeCounter = 0
        BY <2>1, <2>3 DEF DownlinkInv, SessionStreams
    <3>2. sessions[s].stream # None => sessions[s].stream \in Others(st)
        BY <1>1, <2>1, <2>3 DEF DownlinkInv, SessionStreams, Others, TypeOK, HttpSession
    <3>3. NoData(frames[o], 1, 0) /\ Len(frames[o]) = 0
        BY <1>6, <2>3 DEF NoData
    <3>4. Others(o) = {} => NextPacket(o)'.counter = 0
        BY <2>2, <2>3, <3>1, <3>2
    <3> QED
        BY <3>3, <3>4 DEF Follows
  <2>4. CASE o # st
    <3>1. Fed(o)
        BY <1>2, <1>3, <2>1, <2>4 DEF Fed
    <3>2. Follows(frames[o], Len(frames[o]), NextPacket(o), Others(o))
        BY <3>1 DEF DownlinkInv, FedInv
    <3>3. Len(frames[o]) \in Nat
        BY DEF TypeOK
    <3> QED
        BY <2>2, <3>2, <3>3, FollowsSame
  <2> QED
      BY <2>3, <2>4
<1>8. SessionStreams'
    BY <1>1, <1>2, <1>6 DEF DownlinkInv, SessionStreams, Stream, None
<1>9. StreamsBegin'
    BY <1>1, <1>3, <1>6 DEF DownlinkInv, StreamsBegin
<1> QED
    BY <1>5, <1>7, <1>8, <1>9 DEF DownlinkInv

\* A frame put into a channel leaves those before it.
LEMMA Appended ==
    ASSUME NEW c \in Seq(Frame), NEW f \in Frame
    PROVE  /\ Len(c) \in Nat
           /\ Len(Append(c, f)) = Len(c) + 1
           /\ \A i \in 1..Len(c) : Append(c, f)[i] = c[i]
           /\ Append(c, f)[Len(c) + 1] = f
    OBVIOUS

LEMMA DownlinkKeepalive ==
    ASSUME TypeOK, DownlinkInv, NEW ka \in Stream, StreamKeepalive(ka)
    PROVE  DownlinkInv'
<1> DEFINE n == Len(frames[ka])
<1>1. Live' = Live /\ UNCHANGED <<sessions, owner, read, requests, stream>>
    BY DEF StreamKeepalive, Live
<1>2. CASE stream[ka] = "open"
  <2>1. frames' = [frames EXCEPT ![ka] = Append(frames[ka], KeepaliveFrame)]
      BY <1>2 DEF StreamKeepalive
  <2>2. /\ frames'[ka] = Append(frames[ka], KeepaliveFrame)
        /\ \A o \in Stream : o # ka => frames'[o] = frames[o]
      BY <2>1 DEF TypeOK
  <2>3. frames[ka] \in Seq(Frame) /\ KeepaliveFrame \in Frame /\ ~IsData(KeepaliveFrame)
      BY DEF TypeOK, Frame, IsData, KeepaliveFrame
  <2>4. /\ n \in Nat
        /\ Len(frames'[ka]) = n + 1
        /\ \A i \in 1..n : frames'[ka][i] = frames[ka][i]
        /\ ~IsData(frames'[ka][n + 1])
      BY <2>2, <2>3, Appended
  <2>5. \A o \in Stream : Others(o)' = Others(o) /\ NextPacket(o)' = NextPacket(o)
                          /\ (Fed(o)' <=> Fed(o))
      BY <1>1 DEF Others, NextPacket, Fed
  <2>6. ASSUME NEW j \in 1..Len(frames'[ka]), IsData(frames'[ka][j])
        PROVE  Follows(frames'[ka], j - 1, frames'[ka][j].sealed, Others(ka))
    <3>1. j \in 1..n /\ j \in Nat \ {0} /\ \A i \in 1..j : i \in 1..n
        BY <2>4, <2>6
    <3>2. IsData(frames[ka][j])
        BY <2>4, <2>6, <3>1 DEF IsData
    <3>3. Follows(frames[ka], j - 1, frames[ka][j].sealed, Others(ka))
        BY <3>1, <3>2 DEF DownlinkInv, StreamContiguous
    <3> QED
        BY <2>4, <3>1, <3>3, FollowsStill
  <2>7. StreamContiguous'
      BY <2>2, <2>5, <2>6 DEF DownlinkInv, StreamContiguous
  <2>8. ASSUME Fed(ka)
        PROVE  Follows(frames'[ka], Len(frames'[ka]), NextPacket(ka), Others(ka))
    <3>1. Follows(frames[ka], n, NextPacket(ka), Others(ka))
        BY <2>8 DEF DownlinkInv, FedInv
    <3>2. Follows(frames'[ka], n, NextPacket(ka), Others(ka))
        BY <2>4, <3>1, FollowsSame
    <3>3. Follows(frames'[ka], n + 1, NextPacket(ka), Others(ka))
        BY <2>4, <3>2, FollowsKeepalive
    <3> QED
        BY <2>4, <3>3
  <2>9. FedInv'
      BY <2>2, <2>5, <2>8 DEF DownlinkInv, FedInv
  <2>10. SessionStreams' /\ StreamsBegin'
      BY <1>1, <1>2, <2>2 DEF DownlinkInv, SessionStreams, StreamsBegin
  <2> QED
      BY <2>7, <2>9, <2>10 DEF DownlinkInv
<1>3. CASE stream[ka] # "open"
  <2>1. frames' = frames
      BY <1>3 DEF StreamKeepalive
  <2> QED
      BY <1>1, <2>1, DownlinkKept
<1> QED
    BY <1>2, <1>3

\* Every stream that is fed gets the packet that comes next in it.
LEMMA DownlinkRead == ASSUME TypeOK, DownlinkInv, TunRead PROVE DownlinkInv'
<1> DEFINE session(st) == sessions[owner[st]]
           frame(st) == DataFrame(session(st).key, session(st).writeCounter, read)
           n(st) == Len(frames[st])
<1>1. /\ Live' = Live
      /\ \A s \in Live : sessions'[s] = IF s \in Streaming
                                        THEN [sessions[s] EXCEPT !.writeCounter = @ + 1]
                                        ELSE sessions[s]
      /\ read' = read + 1
      /\ \A st \in Stream : frames'[st] = IF Fed(st) THEN Append(frames[st], frame(st))
                                                     ELSE frames[st]
      /\ UNCHANGED <<owner, requests, stream>>
    BY DEF TunRead, Live
<1>2. \A s \in Live : /\ sessions'[s].stream = sessions[s].stream
                      /\ sessions'[s].writeCounter = IF s \in Streaming
                                                     THEN sessions[s].writeCounter + 1
                                                     ELSE sessions[s].writeCounter
    BY <1>1, ZenonT(60) DEF TypeOK, HttpSession
<1>3. \A st \in Stream : Others(st)' = Others(st) /\ (Fed(st)' <=> Fed(st))
    BY <1>1, <1>2 DEF Others, Fed
<1>4. ASSUME NEW st \in Stream, Fed(st)
      PROVE  /\ owner[st] \in Streaming /\ owner[st] \in Live
             /\ frame(st) \in Frame
             /\ IsData(frame(st))
             /\ frame(st).sealed = NextPacket(st)
             /\ NextPacket(st)'.counter = NextPacket(st).counter + 1
             /\ NextPacket(st)'.packet = NextPacket(st).packet + 1
  <2>1. owner[st] \in Live /\ owner[st] \in Streaming
      BY <1>4 DEF Fed, Streaming, Stream, None
  <2>2. session(st).key \in Key /\ session(st).writeCounter \in Nat /\ read \in Nat
      BY <2>1 DEF TypeOK, HttpSession
  <2>3. frame(st) \in Frame /\ IsData(frame(st)) /\ frame(st).sealed = NextPacket(st)
      BY <2>2 DEF DataFrame, Encrypt, Frame, IsData, NextPacket
  <2>4. /\ NextPacket(st)'.counter = sessions'[owner[st]].writeCounter
        /\ NextPacket(st)'.packet = read'
        /\ NextPacket(st).counter = session(st).writeCounter
        /\ NextPacket(st).packet = read
      BY <1>1 DEF NextPacket, Encrypt
  <2> QED
      BY <1>1, <1>2, <2>1, <2>3, <2>4
<1>5. ASSUME NEW st \in Stream, Fed(st)
      PROVE  /\ n(st) \in Nat
             /\ Len(frames'[st]) = n(st) + 1
             /\ \A i \in 1..n(st) : frames'[st][i] = frames[st][i]
             /\ frames'[st][n(st) + 1] = frame(st)
  <2>1. frames[st] \in Seq(Frame) /\ frames'[st] = Append(frames[st], frame(st))
      BY <1>1, <1>5 DEF TypeOK
  <2>2. frame(st) \in Frame
      BY <1>4, <1>5
  <2> HIDE DEF frame
  <2> QED
      BY <2>1, <2>2, Appended
<1>6. ASSUME NEW st \in Stream, Fed(st), NEW j \in 1..Len(frames'[st]), IsData(frames'[st][j])
      PROVE  Follows(frames'[st], j - 1, frames'[st][j].sealed, Others(st))
  <2>1. CASE j \in 1..n(st)
    <3>1. j \in Nat \ {0} /\ \A i \in 1..j : i \in 1..n(st)
        BY <1>5, <1>6, <2>1
    <3>2. IsData(frames[st][j])
        BY <1>5, <1>6, <2>1 DEF IsData
    <3>3. Follows(frames[st], j - 1, frames[st][j].sealed, Others(st))
        BY <2>1, <3>2 DEF DownlinkInv, StreamContiguous
    <3>4. \A i \in 1..j : frames'[st][i] = frames[st][i]
        BY <1>5, <1>6, <3>1
    <3> QED
        BY <3>1, <3>3, <3>4, FollowsStill
  <2>2. CASE j = n(st) + 1
    <3>1. frames'[st][j].sealed = NextPacket(st) /\ j - 1 = n(st) /\ n(st) \in Nat
        BY <1>4, <1>5, <1>6, <2>2
    <3>2. Follows(frames[st], n(st), NextPacket(st), Others(st))
        BY <1>6 DEF DownlinkInv, FedInv
    <3>3. Follows(frames'[st], n(st), NextPacket(st), Others(st))
        BY <1>5, <1>6, <3>1, <3>2, FollowsSame
    <3> QED
        BY <3>1, <3>3
  <2> QED
      BY <1>5, <1>6, <2>1, <2>2
<1>7. StreamContiguous'
  <2> SUFFICES ASSUME NEW st \in Stream, NEW j \in 1..Len(frames'[st]), IsData(frames'[st][j])
               PROVE  Follows(frames'[st], j - 1, frames'[st][j].sealed, Others(st))
      BY <1>3 DEF StreamContiguous
  <2>1. CASE Fed(st)
      BY <1>6, <2>1
  <2>2. CASE ~Fed(st)
      BY <1>1, <2>2 DEF DownlinkInv, StreamContiguous
  <2> QED
      BY <2>1, <2>2
<1>8. ASSUME NEW st \in Stream, Fed(st)
      PROVE  Follows(frames'[st], Len(frames'[st]), NextPacket(st)', Others(st))
  <2>1. /\ IsData(frames'[st][n(st) + 1])
        /\ frames'[st][n(st) + 1].sealed = NextPacket(st)
        /\ n(st) + 1 \in Nat \ {0}
        /\ Len(frames'[st]) = n(st) + 1
      BY <1>4, <1>5, <1>8
  <2> QED
      BY <1>4, <1>8, <2>1, FollowsData
<1>9. FedInv'
    BY <1>3, <1>8 DEF FedInv
<1>10. SessionStreams'
    BY <1>1, <1>2 DEF DownlinkInv, SessionStreams, Streaming
<1>11. StreamsBegin'
  <2>1. \A st \in Stream : stream[st] = "none" => frames'[st] = frames[st]
      BY <1>1 DEF Fed
  <2> QED
      BY <1>1, <2>1 DEF DownlinkInv, StreamsBegin
<1> QED
    BY <1>7, <1>9, <1>10, <1>11 DEF DownlinkInv

LEMMA DownlinkNext == ASSUME TypeOK, DownlinkInv, [Next]_vars PROVE DownlinkInv'
<1>1. ASSUME NEW pub \in Public, NEW psk \in Psk, DoInit(pub, psk) PROVE DownlinkInv'
  <2> DEFINE s == made + 1
  <2>1. /\ Live' = Live \cup {s}
        /\ sessions'[s].stream = None /\ sessions'[s].writeCounter = 0
        /\ \A r \in Live : r # s => sessions'[r] = sessions[r]
        /\ UNCHANGED <<owner, frames, read, requests, stream>>
      BY <1>1 DEF DoInit, Live
  <2>2. \A r \in Live' : \/ sessions'[r].stream = None /\ sessions'[r].writeCounter = 0
                         \/ r \in Live /\ sessions'[r] = sessions[r]
      BY <2>1
  <2> QED
      BY <2>1, <2>2, DownlinkKept
<1>2. ASSUME NEW s \in SessionId, NEW f \in ClientFrame(s), Send(s, f) PROVE DownlinkInv'
  <2>1. /\ s \in Live
        /\ Live' = Live
        /\ \A r \in Live : r # s => sessions'[r] = sessions[r]
        /\ \/ sessions'[s] = Accepted(Seen(sessions[s]))
           \/ sessions'[s] = Seen(sessions[s])
        /\ UNCHANGED <<owner, frames, read, requests, stream>>
      BY <1>2 DEF Send, Live
  <2>2. /\ Seen(sessions[s]) \in HttpSession
        /\ Seen(sessions[s]).stream = sessions[s].stream
        /\ Seen(sessions[s]).writeCounter = sessions[s].writeCounter
      BY <2>1, SessionFacts, Times DEF Seen, TypeOK
  <2>3. /\ Accepted(Seen(sessions[s])).stream = sessions[s].stream
        /\ Accepted(Seen(sessions[s])).writeCounter = sessions[s].writeCounter
      BY <2>2 DEF Accepted, HttpSession
  <2> QED
      BY <2>1, <2>2, <2>3, DownlinkKept
<1>3. ASSUME NEW s \in SessionId, NEW st \in Stream, StreamLookup(s, st) PROVE DownlinkInv'
    BY <1>3, DownlinkLookup
<1>4. ASSUME NEW st \in Stream, StreamRegister(st) PROVE DownlinkInv'
    BY <1>4, DownlinkRegister
<1>5. ASSUME NEW st \in Stream, StreamLost(st) PROVE DownlinkInv'
  <2>1. /\ Live' = Live /\ UNCHANGED <<sessions, owner, frames, read>>
        /\ requests' = requests \ {st}
        /\ stream' = [stream EXCEPT ![st] = "closed"]
        /\ st \in requests \/ stream[st] = "open"
      BY <1>5 DEF StreamLost, Live
  <2>2. stream'[st] = "closed" /\ \A o \in Stream : o # st => stream'[o] = stream[o]
      BY <2>1 DEF TypeOK
  <2>3. owner[st] # None
      BY <2>1 DEF DownlinkInv, StreamsBegin
  <2> QED
      BY <2>1, <2>2, <2>3, DownlinkKept
<1>6. ASSUME NEW st \in Stream, StreamKeepalive(st) PROVE DownlinkInv'
    BY <1>6, DownlinkKeepalive
<1>7. CASE TunRead
    BY <1>7, DownlinkRead
<1>8. CASE TunReadError
    BY <1>8, DownlinkKept DEF TunReadError, Live
<1>9. CASE Cleanup
  <2>1. /\ Live' \subseteq Live
        /\ \A r \in Live' : sessions'[r] = sessions[r]
        /\ UNCHANGED <<owner, frames, read, requests, stream>>
      BY <1>9 DEF Cleanup, Live
  <2> QED
      BY <2>1, DownlinkKept
<1>10. CASE Tick
    BY <1>10, DownlinkKept DEF Tick, Live
<1>11. CASE Restart
  <2>1. /\ Live' = {} /\ requests' = {} /\ UNCHANGED <<owner, frames, read>>
        /\ \A st \in Stream : stream'[st] = IF owner[st] = None THEN "none" ELSE "closed"
      BY <1>11 DEF Restart, Live
  <2>2. \A st \in Stream : owner[st] = None => stream[st] = "none"
      BY DEF DownlinkInv, StreamsBegin
  <2> QED
      BY <2>1, <2>2, DownlinkKept
<1>12. CASE UNCHANGED vars
    BY <1>12, DownlinkKept DEF vars, Live
<1> QED
    BY <1>1, <1>2, <1>3, <1>4, <1>5, <1>6, <1>7, <1>8, <1>9, <1>10, <1>11, <1>12 DEF Next

\* Every stream gets the packets the TUN reader reads one after the other, under
\* counters without a gap, from 0 on if it is the only one of its session.
THEOREM StreamContiguousCorrect == Spec => []StreamContiguous
<1>1. Init => TypeOK /\ DownlinkInv
    BY TypeInit, DownlinkInit
<1>2. TypeOK /\ DownlinkInv /\ [Next]_vars => (TypeOK /\ DownlinkInv)'
    BY TypeNext, DownlinkNext
<1>3. DownlinkInv => StreamContiguous
    BY DEF DownlinkInv
<1> QED
    BY <1>1, <1>2, <1>3, PTL DEF Spec
=============================================================================
