------------------------- MODULE SecretStoreProofs -------------------------
(* Theorems about the secret on disk, for any processes that share it, any *)
(* number of crashes and any environment.                                  *)
EXTENDS SecretStore, TLAPS

Generating(p) == at[p] \in {"generated", "created"}

\* Who generates has a secret to write, and only secrets are gone on with.
SecretInv ==
    /\ \A p \in Process : Generating(p) => mine[p] \in Secret
    /\ used \subseteq Secret

LEMMA SecretInit == ASSUME Init PROVE TypeOK /\ SecretInv
<1>1. at \in [Process -> {"down"}] /\ mine \in [Process -> {None}]
    BY DEF Init
<1>2. TypeOK
  <2>1. at \in [Process -> {"down", "generated", "found", "created", "running"}]
      BY <1>1
  <2>2. mine \in [Process -> Secret \cup {None}]
      BY <1>1
  <2>3. made \in 0..MaxSecret /\ crashes \in 0..MaxCrash
      BY BoundAssumption DEF Init
  <2> QED
      BY <2>1, <2>2, <2>3 DEF Init, TypeOK
<1>3. SecretInv
    BY <1>1 DEF Init, SecretInv, Generating
<1> QED
    BY <1>2, <1>3

LEMMA SecretNext ==
    ASSUME TypeOK, SecretInv, [Next]_vars
    PROVE  (TypeOK /\ SecretInv)'
<1> USE DEF TypeOK, SecretInv, Generating
<1>1. ASSUME NEW p \in Process, Start(p) PROVE (TypeOK /\ SecretInv)'
  <2>1. CASE Generates
    <3>1. made + 1 \in Secret /\ made + 1 \in 0..MaxSecret
        BY <1>1, <2>1, BoundAssumption DEF Start, Secret
    <3> QED
        BY <1>1, <2>1, <3>1 DEF Start
  <2>2. CASE ~Generates
      BY <1>1, <2>2 DEF Start
  <2> QED
      BY <2>1, <2>2
<1>2. ASSUME NEW p \in Process, Read(p) PROVE (TypeOK /\ SecretInv)'
    BY <1>2 DEF Read, Goes, IsSecret
<1>3. ASSUME NEW p \in Process, Create(p) PROVE (TypeOK /\ SecretInv)'
    BY <1>3 DEF Create
<1>4. ASSUME NEW p \in Process, Write(p) PROVE (TypeOK /\ SecretInv)'
    BY <1>4 DEF Write, Goes
<1>5. ASSUME NEW p \in Process, Crash(p) PROVE (TypeOK /\ SecretInv)'
  <2>1. crashes' \in 0..MaxCrash
      BY <1>5, BoundAssumption DEF Crash
  <2> QED
      BY <1>5, <2>1 DEF Crash
<1>6. CASE Recreate
  <2>1. crashes' \in 0..MaxCrash
      BY <1>6, BoundAssumption DEF Recreate
  <2> QED
      BY <1>6, <2>1 DEF Recreate
<1>7. CASE UNCHANGED vars
    BY <1>7 DEF vars
<1> QED
    BY <1>1, <1>2, <1>3, <1>4, <1>5, <1>6, <1>7 DEF Next

THEOREM Invariance == Spec => [](TypeOK /\ SecretInv)
    BY SecretInit, SecretNext, PTL DEF Spec

\* The type invariant of the secret's file and of the processes that use it.
THEOREM TypeCorrect == Spec => []TypeOK
    BY Invariance, PTL

\* No process ever takes a file half written for a secret, however many start at
\* once and die while they write.
THEOREM NeverTornCorrect == Spec => []NeverTorn
<1>1. SecretInv => NeverTorn
    BY DEF SecretInv, NeverTorn
<1> QED
    BY Invariance, <1>1, PTL

-----------------------------------------------------------------------------
(* What becomes of a secret once it is in the file.                        *)

\* Unless two have raced, one process at a time generates, for a file that is
\* not there, and whoever runs does so with what is in the file.
FileInv == ~raced =>
    /\ \A p, q \in Process : Generating(p) /\ Generating(q) => p = q
    /\ \A p \in Process : at[p] = "generated" => file = None
    /\ \A p \in Process : at[p] = "created" => file = Torn
    /\ \A p \in Process : at[p] = "running" => mine[p] = file /\ file \in Secret

LEMMA FileInit == ASSUME Init PROVE FileInv
    BY DEF Init, FileInv, Generating

LEMMA FileNext ==
    ASSUME TypeOK, SecretInv, FileInv, [Next]_vars
    PROVE  FileInv'
<1> SUFFICES ASSUME ~raced' PROVE FileInv'
    BY DEF FileInv
<1> USE DEF Generating
<1>0. ~raced
    BY DEF Next, Start, Read, Create, Write, Crash, Recreate, vars
<1>a. /\ \A p, q \in Process : Generating(p) /\ Generating(q) => p = q
      /\ \A p \in Process : at[p] = "generated" => file = None
      /\ \A p \in Process : at[p] = "created" => file = Torn
      /\ \A p \in Process : at[p] = "running" => mine[p] = file /\ file \in Secret
    BY <1>0 DEF FileInv
<1>b. /\ at \in [Process -> {"down", "generated", "found", "created", "running"}]
      /\ mine \in [Process -> Secret \cup {None}]
    BY DEF TypeOK
<1>1. ASSUME NEW p \in Process, Start(p) PROVE FileInv'
  <2>1. CASE Generates
    <3>1. file = None /\ file' = file
        BY <1>1, <2>1 DEF Start, Generates
    <3>2. \A q \in Process : ~Generating(q) /\ at[q] # "running"
        BY <1>1, <2>1, <1>a, <3>1, NoneAssumption DEF Start
    <3>3. at' = [at EXCEPT ![p] = "generated"]
        BY <1>1, <2>1 DEF Start
    <3> QED
        BY <3>1, <3>2, <3>3, <1>b DEF FileInv
  <2>2. CASE ~Generates
      BY <1>1, <2>2, <1>a, <1>b DEF Start, FileInv
  <2> QED
      BY <2>1, <2>2
<1>2. ASSUME NEW p \in Process, Read(p) PROVE FileInv'
  <2>1. CASE IsSecret(file)
    <3>1. /\ file \in Secret /\ file' = file
          /\ at' = [at EXCEPT ![p] = "running"]
          /\ mine' = [mine EXCEPT ![p] = file]
        BY <1>2, <2>1 DEF Read, Goes, IsSecret
    <3> QED
        BY <3>1, <1>a, <1>b DEF FileInv
  <2>2. CASE ~IsSecret(file)
      BY <1>2, <2>2, <1>a, <1>b DEF Read, FileInv
  <2> QED
      BY <2>1, <2>2
<1>3. ASSUME NEW p \in Process, Create(p) PROVE FileInv'
  <2>1. file = None
      BY <1>3, <1>a DEF Create
  <2>2. \A q \in Process : at[q] # "running"
      BY <2>1, <1>a, NoneAssumption
  <2>3. file' = Torn /\ at' = [at EXCEPT ![p] = "created"]
      BY <1>3 DEF Create
  <2>4. \A q \in Process : q # p => at'[q] = at[q] /\ ~Generating(q)
      BY <1>3, <2>3, <1>a, <1>b DEF Create
  <2>5. at'[p] = "created"
      BY <2>3, <1>b
  <2> QED
      BY <2>2, <2>3, <2>4, <2>5 DEF FileInv
<1>4. ASSUME NEW p \in Process, Write(p) PROVE FileInv'
  <2>1. \A q \in Process : at[q] # "running"
      BY <1>4, <1>a, NoneAssumption DEF Write
  <2>2. /\ file' = mine[p] /\ mine[p] \in Secret
        /\ mine' = [mine EXCEPT ![p] = mine[p]]
        /\ at' = [at EXCEPT ![p] = "running"]
      BY <1>4 DEF Write, Goes, SecretInv
  <2>3. \A q \in Process : q # p => at'[q] = at[q] /\ ~Generating(q)
      BY <1>4, <2>2, <1>a, <1>b DEF Write
  <2> QED
      BY <2>1, <2>2, <2>3, <1>b DEF FileInv
<1>5. ASSUME NEW p \in Process, Crash(p) PROVE FileInv'
    BY <1>5, <1>a, <1>b DEF Crash, FileInv
<1>6. CASE Recreate
    BY <1>6 DEF Recreate, FileInv
<1>7. CASE UNCHANGED vars
    BY <1>7, <1>a DEF vars, FileInv
<1> QED
    BY <1>1, <1>2, <1>3, <1>4, <1>5, <1>6, <1>7 DEF Next

LEMMA FileInvariance == Spec => [](TypeOK /\ SecretInv /\ FileInv)
<1>1. Init => TypeOK /\ SecretInv /\ FileInv
    BY SecretInit, FileInit
<1>2. TypeOK /\ SecretInv /\ FileInv /\ [Next]_vars => (TypeOK /\ SecretInv /\ FileInv)'
    BY SecretNext, FileNext
<1> QED
    BY <1>1, <1>2, PTL DEF Spec

\* Wherever the file is, and whatever dies: unless two have raced, whoever runs
\* has the secret that is in the file.
THEOREM RunsWithFileCorrect == Spec => []RunsWithFile
<1>1. FileInv => RunsWithFile
    BY DEF FileInv, RunsWithFile
<1> QED
    BY FileInvariance, <1>1, PTL

\* Unless two have raced, a secret in the file stays there through any starts and
\* deaths of processes, and in a volume through new containers too; nothing is
\* assumed of where the file is.
THEOREM SecretKeptCorrect == Spec => SecretKept
<1>1. ASSUME FileInv, [Next]_vars, IsSecret(file), ~raced
      PROVE  UNCHANGED file \/ (Recreate /\ Dir \notin Volume)
  <2>1. file # None /\ file # Torn
      BY <1>1, NoneAssumption DEF IsSecret
  <2>2. \A p \in Process : at[p] # "generated" /\ at[p] # "created"
      BY <1>1, <2>1 DEF FileInv
  <2>3. CASE Recreate
      BY <2>3 DEF Recreate
  <2>4. CASE ~Recreate
      BY <1>1, <2>2, <2>4 DEF Next, Start, Read, Create, Write, Crash, vars
  <2> QED
      BY <2>3, <2>4
<1>2. FileInv /\ [Next]_vars
        => [IsSecret(file) /\ ~raced => UNCHANGED file \/ (Recreate /\ Dir \notin Volume)]_vars
    BY <1>1
<1> QED
    BY FileInvariance, <1>2, PTL DEF Spec, SecretKept
=============================================================================
