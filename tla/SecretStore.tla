---------------------------- MODULE SecretStore -----------------------------
(***************************************************************************)
(* The preshared secret on disk: load_preshared_secret (src/src/crypto.rs) *)
(* with the path it uses (src/src/config.rs), by processes that start,     *)
(* die and are started again on one file system, which is a container's:   *)
(* when that is created anew, as an upgrade does, only what is in a volume *)
(* is still there.                                                         *)
(***************************************************************************)
EXTENDS Naturals

CONSTANTS
    Process,       \* the processes that share the file
    BOBVPN_HOME,   \* the variable, None when it is not set
    HOME,          \* likewise; the directory .config/bobvpn in it
    None, Torn,    \* no value, and the content of a file half written
    Volume,        \* the directories that are kept in a volume
    MaxSecret,     \* bound: secrets generated
    MaxCrash       \* bound: times a process dies

ASSUME BoundAssumption == MaxSecret \in Nat /\ MaxCrash \in Nat

Secret == 1..MaxSecret

ASSUME NoneAssumption == None # Torn /\ {None, Torn} \cap Secret = {}

VARIABLES
    file,     \* the secret in the file, Torn (empty or cut off) or None
    at,       \* at[p]: where process p is
    mine,     \* mine[p]: the secret it has generated or read, if any
    made,     \* how many secrets have been generated
    crashes,
    used,     \* history: the secrets processes have gone on with
    raced     \* history: whether two processes were generating at once

vars == <<file, at, mine, made, crashes, used, raced>>

Init == /\ file = None
        /\ at = [p \in Process |-> "down"]
        /\ mine = [p \in Process |-> None]
        /\ made = 0
        /\ crashes = 0
        /\ used = {}
        /\ raced = FALSE

\* dirs(): where the file is.
Dir == IF BOBVPN_HOME # None THEN BOBVPN_HOME
       ELSE IF HOME # None THEN HOME ELSE "/root/.config/bobvpn"

\* path.exists() decides between reading and generating.  (Mutants: a secret is
\* generated at every start, or never.)
GeneratesAlways == TRUE
GeneratesNever == FALSE
Generates == file = None

Start(p) ==
    /\ at[p] = "down"
    /\ IF Generates
       THEN /\ made < MaxSecret
            /\ made' = made + 1
            /\ mine' = [mine EXCEPT ![p] = made + 1]
            /\ at' = [at EXCEPT ![p] = "generated"]
            /\ raced' = (raced \/ \E q \in Process : at[q] = "generated")
       ELSE /\ at' = [at EXCEPT ![p] = "found"]
            /\ UNCHANGED <<made, mine, raced>>
    /\ UNCHANGED <<file, crashes, used>>

Goes(p, secret) ==
    /\ at' = [at EXCEPT ![p] = "running"]
    /\ mine' = [mine EXCEPT ![p] = secret]
    /\ used' = used \cup {secret}

\* What is not the hex of 32 bytes is an error, and so the end of the process.
\* (Mutant: fewer bytes will do.)
AnyLength(content) == TRUE
IsSecret(content) == content \in Secret

Read(p) ==
    /\ at[p] = "found"
    /\ IF IsSecret(file)
       THEN Goes(p, file)
       ELSE at' = [at EXCEPT ![p] = "down"] /\ UNCHANGED <<mine, used>>
    /\ UNCHANGED <<file, made, crashes, raced>>

\* fs::write: the file is created or emptied, and then written.
Create(p) ==
    /\ at[p] = "generated"
    /\ file' = Torn
    /\ at' = [at EXCEPT ![p] = "created"]
    /\ UNCHANGED <<mine, made, crashes, used, raced>>

Write(p) ==
    /\ at[p] = "created"
    /\ file' = mine[p]
    /\ Goes(p, mine[p])
    /\ UNCHANGED <<made, crashes, raced>>

Crash(p) ==
    /\ at[p] # "down"
    /\ crashes < MaxCrash
    /\ crashes' = crashes + 1
    /\ at' = [at EXCEPT ![p] = "down"]
    /\ mine' = [mine EXCEPT ![p] = None]
    /\ UNCHANGED <<file, made, used, raced>>

Recreate ==
    /\ crashes < MaxCrash
    /\ crashes' = crashes + 1
    /\ at' = [p \in Process |-> "down"]
    /\ mine' = [p \in Process |-> None]
    /\ file' = IF Dir \in Volume THEN file ELSE None
    /\ UNCHANGED <<made, used, raced>>

Next == \/ \E p \in Process : Start(p) \/ Read(p) \/ Create(p) \/ Write(p) \/ Crash(p)
        \/ Recreate

Spec == Init /\ [][Next]_vars

\* A process that is down is started again, and goes on.
FairSpec == /\ Spec
            /\ \A p \in Process : WF_vars(Start(p) \/ Read(p) \/ Create(p) \/ Write(p))

-----------------------------------------------------------------------------
(* Properties.                                                             *)

TypeOK == /\ file \in Secret \cup {Torn, None}
          /\ at \in [Process -> {"down", "generated", "found", "created", "running"}]
          /\ mine \in [Process -> Secret \cup {None}]
          /\ made \in 0..MaxSecret
          /\ crashes \in 0..MaxCrash
          /\ used \subseteq Secret \cup {Torn, None}
          /\ raced \in BOOLEAN

\* "The preshared secret is stored in a Docker volume ... and persists across
\* restarts" (DEVELOPER.md): every start goes on with the same secret, unless two
\* have raced to generate the first.
SecretPersists == ~raced => \A s1, s2 \in used : s1 = s2

\* Whoever runs does so with the secret that is in the file, which is the one an
\* operator copies to the other hosts: no later start has put another there.
\* (Of two that race to generate it, one may run with what the other replaced.)
RunsWithFile == ~raced => \A p \in Process : at[p] = "running" => mine[p] = file

\* A file half written by another process, or by one that died, is never taken
\* for a secret, which the peers of the old one could not authenticate to.
NeverTorn == used \subseteq Secret

\* A secret that is in the file stays there, however often processes start and
\* die: only a new container without the volume drops it, or a race.
SecretKept == [][IsSecret(file) /\ ~raced
                    => UNCHANGED file \/ (Recreate /\ Dir \notin Volume)]_vars

\* "It's generated automatically on first start" (DEVELOPER.md): every process is
\* running again and again, however often it has died before, unless one died
\* while it wrote the file: that may leave it torn for good, and then no start
\* succeeds any more.
StartSucceeds == \A p \in Process : []<>(at[p] = "running") \/ <>[](file = Torn)
=============================================================================
