---------------------------- MODULE DaemonLifeProofs ----------------------------
(***************************************************************************)
(* Daemons beside start, stop and `queue add`, for any number of each, any *)
(* issues, kills and PIDs that come back: there is one daemon, and what    *)
(* was accepted is kept.                                                   *)
(***************************************************************************)
EXTENDS DaemonLife, SiftProofs

Queues == [issues : Seq(Nat), index : Nat]
Memory == [at : DaemonPlaces, pid : Pids \cup {None}, issues : Seq(Nat), index : Nat,
           buffer : Seq(Nat), flying : Nat, refreshed : BOOLEAN, idled : BOOLEAN,
           errand : Errands, stop : BOOLEAN, failed : BOOLEAN]
Notes  == [at : CommandPlaces, pid : Pids \cup {None}, read : Seq(Nat)]

\* Of torn and crossed nothing has to be known.
TypeOK ==
    /\ process \in [Pids -> Daemons \cup {"other", None}]
    /\ pidFile \in Pids \cup {None}
    /\ queueFile \in Queues
    /\ pending \in Seq(Nat)
    /\ daemon \in [Daemons -> Memory]
    /\ command \in [Commands -> Notes]
    /\ accepted \subseteq Adders
    /\ deaths \in Nat /\ reuses \in Nat

(***************************************************************************)
(* The inductive invariant of OneDaemon.                                   *)
(***************************************************************************)
\* Alive and not about to exit; and with its PID written.
Going(d) == daemon[d].at \notin {"none", "exiting", "gone"}
Named(d) == daemon[d].at \notin {"none", "spawned", "exiting", "gone"}

\* A daemon has the PID it was given until it is gone.
TableInv == \A d \in Daemons : Alive(d) => daemon[d].pid \in Pids /\ process[daemon[d].pid] = d

\* Past its probe, a start has found no daemon.
Cleared(s) == command[s].at \in {"resolving", "spawning"}

\* As long as no command met another one, or a daemon without its PID: commands
\* and daemons come one at a time, and what a command read is still so.
OneByOne ==
    /\ \A c, e \in Commands : InFlight(c) /\ InFlight(e) => c = e
    /\ \A c \in Commands, d \in Daemons : InFlight(c) => daemon[d].at # "spawned"
    /\ \A d, e \in Daemons : Going(d) /\ Going(e) => d = e
    /\ \A d \in Daemons : Named(d) => pidFile = daemon[d].pid
    /\ \A c \in Commands, d \in Daemons :
          command[c].at = "probing" /\ Named(d) => command[c].pid = daemon[d].pid
    /\ \A s \in Starters, d \in Daemons : Cleared(s) => ~Going(d)

MeetInv == crossed \/ OneByOne

(***************************************************************************)
(* The inductive invariant of AcceptedIsKept.                              *)
(***************************************************************************)
\* A daemon that has not read the queue has nothing in memory.
FreshInv ==
    \A d \in Daemons : daemon[d].at \in {"none", "spawned", "named"} =>
        daemon[d].issues = <<>> /\ daemon[d].buffer = <<>>

Somewhere(x) == x \in ToSet(pending) \/ \E d \in Daemons : x \in ToSet(daemon[d].issues)

KeptInv == torn \/ \A a \in accepted : \A x \in ToSet(Given[a]) : Somewhere(x)

\* Nothing is in flight where the loop rests or has been left.
DoneInv ==
    \A d \in Daemons :
        (\/ daemon[d].at = "resting"
         \/ daemon[d].at \in {"deleting", "exiting"} /\ ~daemon[d].stop /\ ~daemon[d].failed)
            => daemon[d].flying = 0

SyncedInv == crossed \/ \A d \in Daemons : daemon[d].at \in OnDisk => queueFile = InMemory(d)

\* What adds that succeeded were given.
Asked == UNION {ToSet(Given[a]) : a \in accepted}

\* What is in the pending file, or was read from it, was asked for and is there
\* once; an add that succeeded is over.
NoneTwice ==
    /\ \A a \in accepted : command[a].at = "done"
    /\ Distinct(pending) /\ ToSet(pending) \subseteq Asked
    /\ \A a \in Adders : Distinct(command[a].read) /\ ToSet(command[a].read) \subseteq Asked
    /\ Distinct(queueFile.issues)
    /\ \A d \in Daemons : Distinct(daemon[d].issues) /\ Distinct(daemon[d].buffer)

OnceInv == GivenOnce => NoneTwice

Inv == TypeOK /\ TableInv /\ MeetInv /\ FreshInv /\ KeptInv /\ DoneInv /\ SyncedInv /\ OnceInv

(***************************************************************************)
(* Types.                                                                  *)
(***************************************************************************)
LEMMA Assumed ==
    /\ None \notin Pids /\ None \notin Daemons /\ "other" \notin Daemons
    /\ Starters \cap Adders = {}
    /\ \A c \in Starters \cup Adders : Given[c] \in Seq(Nat)
  BY DaemonLifeAssumption

\* What goes from the pending file to the queue.
LEMMA News ==
    ASSUME TypeOK, NEW d \in Daemons
    PROVE  /\ New(d) \in Seq(Nat)
           /\ ToSet(New(d)) = ToSet(daemon[d].buffer) \ ToSet(daemon[d].issues)
           /\ Distinct(daemon[d].buffer) => Distinct(New(d))
  <1>1. daemon[d].buffer \in Seq(Nat)
    BY DEF TypeOK, Memory
  <1>2. ToSet(New(d)) = {New(d)[k] : k \in DOMAIN New(d)}
    BY DEF ToSet
  <1>3. ToSet(daemon[d].buffer) = {daemon[d].buffer[k] : k \in DOMAIN daemon[d].buffer}
    BY DEF ToSet
  <1>4. New(d) \in Seq(Nat) /\ {New(d)[k] : k \in DOMAIN New(d)}
           = {daemon[d].buffer[k] : k \in DOMAIN daemon[d].buffer} \ ToSet(daemon[d].issues)
    <2> DEFINE s == daemon[d].buffer
               q == ToSet(daemon[d].issues)
    <2>1. New(d) = Without(s, q) /\ s \in Seq(Nat)
      BY <1>1 DEF New
    <2> HIDE DEF s, q
    <2>2. /\ Without(s, q) \in Seq(Nat)
          /\ {Without(s, q)[k] : k \in DOMAIN Without(s, q)} = {s[k] : k \in DOMAIN s} \ q
      BY <2>1, WithoutKeeps
    <2> QED
      BY <2>1, <2>2 DEF s, q
  <1>5. Distinct(daemon[d].buffer) => Distinct(New(d))
    BY <1>1, WithoutInjects DEF New
  <1> QED
    BY <1>2, <1>3, <1>4, <1>5

\* A daemon's memory becomes m, in what each of its steps sets.
Keeps(d, m) == m.issues = daemon[d].issues /\ m.index = daemon[d].index
Same(d, m)  == Keeps(d, m) /\ m.buffer = daemon[d].buffer

Becomes(d, m) ==
    \/ WritePid(d) /\ m.at = "named" /\ Same(d, m)
    \/ /\ Enter(d) /\ m.at = "draining" /\ m.buffer = daemon[d].buffer
       /\ m.issues = queueFile.issues /\ m.index = queueFile.index
    \/ ReadToDrain(d) /\ m.at = "emptying" /\ Keeps(d, m) /\ m.buffer = pending
    \/ /\ EmptyPending(d) /\ m.at \in {"launching", "idling", "normalising"} /\ m.buffer = <<>>
       /\ m.issues = daemon[d].issues \o New(d) /\ m.index = daemon[d].index
       /\ (m.at # "normalising" => New(d) = <<>>)
    \/ WriteMerged(d) /\ m.at \in {"launching", "idling"} /\ Same(d, m)
    \/ /\ Launch(d) /\ m.at \in {"looping", "resting", "deleting"} /\ Same(d, m)
       /\ m.at = "looping" \/ m.flying = 0 \/ (m.at = "deleting" /\ daemon[d].stop)
    \/ /\ EndRun(d) /\ m.at \in {"draining", "normalising"} /\ m.buffer = daemon[d].buffer
       /\ m.issues = daemon[d].issues /\ m.index = daemon[d].index + 1
    \/ Refresh(d) /\ m.at = "launching" /\ Same(d, m)
    \/ Idle(d) /\ m.at = "draining" /\ Same(d, m)
    \/ StillIdle(d) /\ m.at \in {"launching", "draining"} /\ Same(d, m)
    \/ Leave(d) /\ m.at = "deleting" /\ Same(d, m) /\ m.flying = daemon[d].flying
    \/ DeletePid(d) /\ m.at = "exiting" /\ Same(d, m) /\ m.flying = daemon[d].flying

\* It goes by an error, or is gone.
Dies(d, m) ==
    \/ Fatal(d) /\ m.at = "deleting" /\ m.failed = TRUE /\ Same(d, m)
    \/ (Kill(d) \/ Exit(d)) /\ m = Gone(d)

LEMMA GoneFacts ==
    ASSUME TypeOK, NEW d \in Daemons
    PROVE  /\ Gone(d) \in Memory /\ Gone(d).at = "gone" /\ Gone(d).buffer = <<>>
           /\ Gone(d).issues = daemon[d].issues
  <1>1. daemon[d] \in Memory /\ <<>> \in Seq(Nat)
    BY DEF TypeOK
  <1> QED
    BY <1>1 DEF Gone, Unborn, Memory, DaemonPlaces, Errands

LEMMA DaemonMoves ==
    ASSUME TypeOK, NEW d \in Daemons, DaemonStep(d) \/ Fatal(d) \/ Kill(d)
    PROVE  \E m \in Memory :
              /\ daemon' = [daemon EXCEPT ![d] = m]
              /\ m.at # "gone" => m.pid = daemon[d].pid /\ m.stop = daemon[d].stop
              /\ \/ Becomes(d, m) /\ m.failed = daemon[d].failed
                 \/ Dies(d, m)
  <1>0. daemon[d] \in Memory /\ queueFile \in Queues /\ pending \in Seq(Nat) /\ <<>> \in Seq(Nat)
    BY DEF TypeOK
  <1>1. CASE WritePid(d)
    <2> DEFINE m == [daemon[d] EXCEPT !.at = "named"]
    <2>1. daemon' = [daemon EXCEPT ![d] = m]
      BY <1>1 DEF WritePid
    <2>2. m \in Memory
      BY <1>0 DEF Memory, DaemonPlaces
    <2>3. /\ m.at = "named" /\ m.issues = daemon[d].issues /\ m.index = daemon[d].index
          /\ m.buffer = daemon[d].buffer
          /\ m.failed = daemon[d].failed /\ m.pid = daemon[d].pid /\ m.stop = daemon[d].stop
      BY <1>0 DEF Memory
    <2> HIDE DEF m
    <2>4. Becomes(d, m)
      BY <1>1, <2>3 DEF Becomes, Same, Keeps
    <2> QED
      BY <2>1, <2>2, <2>3, <2>4
  <1>2. CASE Enter(d)
    <2> DEFINE m == [daemon[d] EXCEPT !.at = "draining", !.issues = queueFile.issues, !.index = queueFile.index]
    <2>1. daemon' = [daemon EXCEPT ![d] = m]
      BY <1>2 DEF Enter
    <2>2. m \in Memory
      BY <1>0 DEF Memory, DaemonPlaces, Queues
    <2>3. /\ m.at = "draining" /\ m.issues = queueFile.issues /\ m.index = queueFile.index
          /\ m.buffer = daemon[d].buffer
          /\ m.failed = daemon[d].failed /\ m.pid = daemon[d].pid /\ m.stop = daemon[d].stop
      BY <1>0 DEF Memory, Queues
    <2> HIDE DEF m
    <2>4. Becomes(d, m)
      BY <1>2, <2>3 DEF Becomes, Same, Keeps
    <2> QED
      BY <2>1, <2>2, <2>3, <2>4
  <1>3. CASE ReadToDrain(d)
    <2> DEFINE m == [daemon[d] EXCEPT !.at = "emptying", !.buffer = pending]
    <2>1. daemon' = [daemon EXCEPT ![d] = m]
      BY <1>3 DEF ReadToDrain
    <2>2. m \in Memory
      BY <1>0 DEF Memory, DaemonPlaces
    <2>3. /\ m.at = "emptying" /\ m.issues = daemon[d].issues /\ m.index = daemon[d].index
          /\ m.buffer = pending
          /\ m.failed = daemon[d].failed /\ m.pid = daemon[d].pid /\ m.stop = daemon[d].stop
      BY <1>0 DEF Memory
    <2> HIDE DEF m
    <2>4. Becomes(d, m)
      BY <1>3, <2>3 DEF Becomes, Same, Keeps
    <2> QED
      BY <2>1, <2>2, <2>3, <2>4
  <1>4. CASE EmptyPending(d)
    <2> DEFINE m == [daemon[d] EXCEPT !.at = IF New(d) = <<>> THEN AfterMerge(d) ELSE "normalising",
                                  !.issues = @ \o New(d), !.buffer = <<>>]
    <2>0. New(d) \in Seq(Nat) /\ daemon[d].issues \o New(d) \in Seq(Nat)
      <3>1. New(d) \in Seq(Nat)
        BY News
      <3> QED
        BY <1>0, <3>1 DEF Memory
    <2>1. daemon' = [daemon EXCEPT ![d] = m]
      BY <1>4 DEF EmptyPending
    <2>2. m \in Memory
      BY <1>0, <2>0 DEF Memory, DaemonPlaces, AfterMerge
    <2>3. /\ m.at \in {"launching", "idling", "normalising"} /\ m.issues = daemon[d].issues \o New(d)
          /\ m.index = daemon[d].index /\ m.buffer = <<>>
          /\ m.at # "normalising" => New(d) = <<>>
          /\ m.failed = daemon[d].failed /\ m.pid = daemon[d].pid /\ m.stop = daemon[d].stop
      BY <1>0, <2>0 DEF Memory, AfterMerge
    <2> HIDE DEF m
    <2>4. Becomes(d, m)
      BY <1>4, <2>3 DEF Becomes, Same, Keeps
    <2> QED
      BY <2>1, <2>2, <2>3, <2>4
  <1>5. CASE WriteMerged(d)
    <2> DEFINE m == [daemon[d] EXCEPT !.at = AfterMerge(d)]
    <2>1. daemon' = [daemon EXCEPT ![d] = m]
      BY <1>5 DEF WriteMerged
    <2>2. m \in Memory
      BY <1>0 DEF Memory, DaemonPlaces, AfterMerge
    <2>3. /\ m.at \in {"launching", "idling"} /\ m.issues = daemon[d].issues /\ m.index = daemon[d].index
          /\ m.buffer = daemon[d].buffer
          /\ m.failed = daemon[d].failed /\ m.pid = daemon[d].pid /\ m.stop = daemon[d].stop
      BY <1>0 DEF Memory, AfterMerge
    <2> HIDE DEF m
    <2>4. Becomes(d, m)
      BY <1>5, <2>3 DEF Becomes, Same, Keeps
    <2> QED
      BY <2>1, <2>2, <2>3, <2>4
  <1>6. CASE Launch(d)
    <2>0. PICK flying \in daemon[d].flying..MaxRuns :
             daemon' = [daemon EXCEPT
                ![d].flying = flying,
                ![d].at = IF \/ daemon[d].errand = "race" /\ daemon[d].stop
                             \/ daemon[d].errand = "idle" /\ flying = 0 THEN "deleting"
                          ELSE IF daemon[d].errand = "refresh" /\ flying = 0 THEN "resting"
                          ELSE "looping"]
      BY <1>6 DEF Launch
    <2>9. flying \in Nat
      BY <1>0, <2>0, DaemonLifeAssumption DEF Memory
    <2> DEFINE m == [daemon[d] EXCEPT !.flying = flying,
                      !.at = IF \/ daemon[d].errand = "race" /\ daemon[d].stop
                                \/ daemon[d].errand = "idle" /\ flying = 0 THEN "deleting"
                             ELSE IF daemon[d].errand = "refresh" /\ flying = 0 THEN "resting"
                             ELSE "looping"]
    <2>1. daemon' = [daemon EXCEPT ![d] = m]
      BY <2>0
    <2>2. m \in Memory
      BY <1>0, <2>9 DEF Memory, DaemonPlaces
    <2>3. /\ m.at \in {"looping", "resting", "deleting"} /\ m.issues = daemon[d].issues /\ m.index = daemon[d].index
          /\ m.buffer = daemon[d].buffer
          /\ m.at = "looping" \/ m.flying = 0 \/ (m.at = "deleting" /\ daemon[d].stop)
          /\ m.failed = daemon[d].failed /\ m.pid = daemon[d].pid /\ m.stop = daemon[d].stop
      BY <1>0, <2>9 DEF Memory
    <2> HIDE DEF m
    <2>4. Becomes(d, m)
      BY <1>6, <2>3 DEF Becomes, Same, Keeps
    <2> QED
      BY <2>1, <2>2, <2>3, <2>4
  <1>7. CASE EndRun(d)
    <2> DEFINE m == [daemon[d] EXCEPT !.at = IF @ = "looping" THEN "draining" ELSE @,
                                  !.errand = IF daemon[d].at = "looping" THEN "race" ELSE @,
                                  !.flying = @ - 1, !.index = @ + 1]
    <2>0. daemon[d].index + 1 \in Nat /\ daemon[d].flying - 1 \in Nat
      BY <1>0, <1>7 DEF Memory, EndRun
    <2>1. daemon' = [daemon EXCEPT ![d] = m]
      BY <1>7 DEF EndRun
    <2>2. m \in Memory
      BY <1>0, <1>7, <2>0 DEF Memory, DaemonPlaces, Errands, EndRun
    <2>3. /\ m.at \in {"draining", "normalising"} /\ m.issues = daemon[d].issues
          /\ m.index = daemon[d].index + 1 /\ m.buffer = daemon[d].buffer
          /\ m.failed = daemon[d].failed /\ m.pid = daemon[d].pid /\ m.stop = daemon[d].stop
      BY <1>0, <1>7, <2>0 DEF Memory, Errands, EndRun
    <2> HIDE DEF m
    <2>4. Becomes(d, m)
      BY <1>7, <2>3 DEF Becomes, Same, Keeps
    <2> QED
      BY <2>1, <2>2, <2>3, <2>4
  <1>8. CASE Refresh(d)
    <2> DEFINE m == [daemon[d] EXCEPT !.at = "launching", !.refreshed = TRUE, !.errand = "refresh"]
    <2>1. daemon' = [daemon EXCEPT ![d] = m]
      BY <1>8 DEF Refresh
    <2>2. m \in Memory
      BY <1>0 DEF Memory, DaemonPlaces, Errands
    <2>3. /\ m.at = "launching" /\ m.issues = daemon[d].issues /\ m.index = daemon[d].index
          /\ m.buffer = daemon[d].buffer
          /\ m.failed = daemon[d].failed /\ m.pid = daemon[d].pid /\ m.stop = daemon[d].stop
      BY <1>0 DEF Memory, Errands
    <2> HIDE DEF m
    <2>4. Becomes(d, m)
      BY <1>8, <2>3 DEF Becomes, Same, Keeps
    <2> QED
      BY <2>1, <2>2, <2>3, <2>4
  <1>9. CASE Idle(d)
    <2> DEFINE m == [daemon[d] EXCEPT !.at = "draining", !.idled = TRUE, !.errand = "idle"]
    <2>1. daemon' = [daemon EXCEPT ![d] = m]
      BY <1>9 DEF Idle
    <2>2. m \in Memory
      BY <1>0 DEF Memory, DaemonPlaces, Errands
    <2>3. /\ m.at = "draining" /\ m.issues = daemon[d].issues /\ m.index = daemon[d].index
          /\ m.buffer = daemon[d].buffer
          /\ m.failed = daemon[d].failed /\ m.pid = daemon[d].pid /\ m.stop = daemon[d].stop
      BY <1>0 DEF Memory, Errands
    <2> HIDE DEF m
    <2>4. Becomes(d, m)
      BY <1>9, <2>3 DEF Becomes, Same, Keeps
    <2> QED
      BY <2>1, <2>2, <2>3, <2>4
  <1>10. CASE StillIdle(d)
    <2>0. PICK place \in {"launching", "draining"} : daemon' = [daemon EXCEPT ![d].at = place]
      BY <1>10 DEF StillIdle
    <2> DEFINE m == [daemon[d] EXCEPT !.at = place]
    <2>1. daemon' = [daemon EXCEPT ![d] = m]
      BY <2>0
    <2>2. m \in Memory
      BY <1>0, <2>0 DEF Memory, DaemonPlaces
    <2>3. /\ m.at \in {"launching", "draining"} /\ m.issues = daemon[d].issues /\ m.index = daemon[d].index
          /\ m.buffer = daemon[d].buffer
          /\ m.failed = daemon[d].failed /\ m.pid = daemon[d].pid /\ m.stop = daemon[d].stop
      BY <1>0, <2>0 DEF Memory
    <2> HIDE DEF m
    <2>4. Becomes(d, m)
      BY <1>10, <2>3 DEF Becomes, Same, Keeps
    <2> QED
      BY <2>1, <2>2, <2>3, <2>4
  <1>11. CASE Leave(d)
    <2> DEFINE m == [daemon[d] EXCEPT !.at = "deleting"]
    <2>1. daemon' = [daemon EXCEPT ![d] = m]
      BY <1>11 DEF Leave
    <2>2. m \in Memory
      BY <1>0 DEF Memory, DaemonPlaces
    <2>3. /\ m.at = "deleting" /\ m.issues = daemon[d].issues /\ m.index = daemon[d].index
          /\ m.buffer = daemon[d].buffer /\ m.flying = daemon[d].flying
          /\ m.failed = daemon[d].failed /\ m.pid = daemon[d].pid /\ m.stop = daemon[d].stop
      BY <1>0 DEF Memory
    <2> HIDE DEF m
    <2>4. Becomes(d, m)
      BY <1>11, <2>3 DEF Becomes, Same, Keeps
    <2> QED
      BY <2>1, <2>2, <2>3, <2>4
  <1>12. CASE DeletePid(d)
    <2> DEFINE m == [daemon[d] EXCEPT !.at = "exiting"]
    <2>1. daemon' = [daemon EXCEPT ![d] = m]
      BY <1>12 DEF DeletePid
    <2>2. m \in Memory
      BY <1>0 DEF Memory, DaemonPlaces
    <2>3. /\ m.at = "exiting" /\ m.issues = daemon[d].issues /\ m.index = daemon[d].index
          /\ m.buffer = daemon[d].buffer /\ m.flying = daemon[d].flying
          /\ m.failed = daemon[d].failed /\ m.pid = daemon[d].pid /\ m.stop = daemon[d].stop
      BY <1>0 DEF Memory
    <2> HIDE DEF m
    <2>4. Becomes(d, m)
      BY <1>12, <2>3 DEF Becomes, Same, Keeps
    <2> QED
      BY <2>1, <2>2, <2>3, <2>4
  <1>13. CASE Fatal(d)
    <2> DEFINE m == [daemon[d] EXCEPT !.at = "deleting", !.failed = TRUE]
    <2>1. daemon' = [daemon EXCEPT ![d] = m]
      BY <1>13 DEF Fatal
    <2>2. m \in Memory
      BY <1>0 DEF Memory, DaemonPlaces
    <2>3. /\ m.at = "deleting" /\ m.issues = daemon[d].issues /\ m.index = daemon[d].index
          /\ m.buffer = daemon[d].buffer
          /\ m.failed = TRUE /\ m.pid = daemon[d].pid /\ m.stop = daemon[d].stop
      BY <1>0 DEF Memory
    <2> HIDE DEF m
    <2>4. Dies(d, m)
      BY <1>13, <2>3 DEF Dies, Same, Keeps
    <2> QED
      BY <2>1, <2>2, <2>3, <2>4
  <1>14. CASE Kill(d) \/ Exit(d)
    <2>1. daemon' = [daemon EXCEPT ![d] = Gone(d)]
      BY <1>14 DEF Kill, Exit
    <2>2. Dies(d, Gone(d))
      BY <1>14 DEF Dies
    <2> QED
      BY <2>1, <2>2, GoneFacts
  <1> QED
    BY <1>1, <1>2, <1>3, <1>4, <1>5, <1>6, <1>7, <1>8, <1>9, <1>10, <1>11, <1>12, <1>13, <1>14 DEF DaemonStep

\* The daemon a start spawns is one that was not there.
LEMMA Spawns ==
    ASSUME TypeOK, NEW s \in Starters, Spawn(s)
    PROVE  /\ command[s].at = "spawning" /\ Moves(s, "done")
           /\ \E p \in Pids, d \in Daemons, m \in Memory :
                /\ daemon[d].at = "none" /\ process[p] = None
                /\ daemon' = [daemon EXCEPT ![d] = m]
                /\ process' = [process EXCEPT ![p] = d]
                /\ m.at = "spawned" /\ m.pid = p /\ Keeps(d, m) /\ m.buffer = daemon[d].buffer
           /\ UNCHANGED <<pidFile, queueFile, pending, accepted, torn, crossed, counters>>
  <1> DEFINE d == CHOOSE e \in Daemons : daemon[e].at = "none"
  <1>1. \E e \in Daemons : daemon[e].at = "none"
    BY DEF Spawn
  <1>2. d \in Daemons /\ daemon[d].at = "none"
    BY <1>1
  <1>3. PICK p \in Pids :
           /\ process[p] = None
           /\ daemon' = [daemon EXCEPT ![d].at = "spawned", ![d].pid = p]
           /\ process' = [process EXCEPT ![p] = d]
    BY DEF Spawn
  <1> HIDE DEF d
  <1> DEFINE m == [daemon[d] EXCEPT !.at = "spawned", !.pid = p]
  <1>4. daemon' = [daemon EXCEPT ![d] = m] /\ daemon[d] \in Memory
    BY <1>2, <1>3 DEF TypeOK
  <1>5. /\ m \in Memory /\ m.at = "spawned" /\ m.pid = p /\ m.issues = daemon[d].issues
        /\ m.index = daemon[d].index /\ m.buffer = daemon[d].buffer
    BY <1>4 DEF Memory, DaemonPlaces
  <1> HIDE DEF m
  <1> QED
    BY <1>2, <1>3, <1>4, <1>5 DEF Spawn, Keeps

\* What a command has read becomes n.
Goes(c, n) ==
    \/ ReadPid(c) /\ n.at = "probing" /\ n.pid = pidFile /\ n.read = command[c].read
    \/ ReadPending(c) /\ n.at = "appending" /\ n.read = pending
    \/ Signal(c) /\ n.at \in {"waiting", "done"} /\ n.read \in {<<>>, command[c].read}
    \/ /\ n.read = <<>>
       /\ \/ StartProbe(c) /\ n.at = IF ProbeFinds(c) THEN "done" ELSE "resolving"
          \/ AddProbe(c) /\ n.at = IF ProbeFinds(c) THEN "resolving" ELSE "done"
          \/ StopProbe(c) /\ n.at = IF ProbeFinds(c) THEN "signalling" ELSE "done"
          \/ ResolveFails(c) /\ n.at = "done"
          \/ WriteQueue(c) /\ n.at = "spawning"
          \/ Spawn(c) /\ n.at = "done"
          \/ AppendPending(c) /\ n.at = "done"
          \/ AwaitExit(c) /\ n.at = "done"

CommandStep(c) ==
    \/ c \in Starters /\ StartStep(c)
    \/ c \in Adders /\ AddStep(c)
    \/ c \in Stoppers /\ StopStep(c)

LEMMA MovesTo ==
    ASSUME NEW c \in Commands, NEW place \in CommandPlaces, Moves(c, place)
    PROVE  \E n \in Notes : command' = [command EXCEPT ![c] = n] /\ n.at = place /\ n.read = <<>>
  <1> DEFINE n == [at |-> place, pid |-> None, read |-> <<>>]
  <1>1. n \in Notes /\ n.at = place /\ n.read = <<>>
    <2>1. <<>> \in Seq(Nat)
      OBVIOUS
    <2> QED
      BY <2>1 DEF Notes
  <1>2. command' = [command EXCEPT ![c] = n]
    BY DEF Moves
  <1> QED
    BY <1>1, <1>2

LEMMA CommandMoves ==
    ASSUME TypeOK, NEW c \in Commands, CommandStep(c)
    PROVE  \E n \in Notes : command' = [command EXCEPT ![c] = n] /\ Goes(c, n)
  <1>0. command[c] \in Notes /\ pidFile \in Pids \cup {None} /\ pending \in Seq(Nat)
    BY DEF TypeOK
  <1> USE DEF CommandPlaces
  <1>1. CASE ReadPid(c)
    <2> DEFINE n == [command[c] EXCEPT !.at = "probing", !.pid = pidFile]
    <2>1. command' = [command EXCEPT ![c] = n]
      BY <1>1 DEF ReadPid
    <2>2. n \in Notes /\ n.at = "probing" /\ n.pid = pidFile /\ n.read = command[c].read
      BY <1>0 DEF Notes
    <2> HIDE DEF n
    <2> QED
      BY <1>1, <2>1, <2>2 DEF Goes
  <1>2. CASE ReadPending(c)
    <2> DEFINE n == [command[c] EXCEPT !.at = "appending", !.read = pending]
    <2>1. command' = [command EXCEPT ![c] = n]
      BY <1>2 DEF ReadPending
    <2>2. n \in Notes /\ n.at = "appending" /\ n.read = pending
      BY <1>0 DEF Notes
    <2> HIDE DEF n
    <2> QED
      BY <1>2, <2>1, <2>2 DEF Goes
  <1>3. CASE Signal(c)
    <2>1. CASE Moves(c, "done")
      BY <1>3, <2>1, MovesTo DEF Goes
    <2>2. CASE pidFile \in InUse /\ command' = [command EXCEPT ![c].at = "waiting", ![c].pid = pidFile]
      <3> DEFINE n == [command[c] EXCEPT !.at = "waiting", !.pid = pidFile]
      <3>1. command' = [command EXCEPT ![c] = n]
        BY <2>2
      <3>2. n \in Notes /\ n.at = "waiting" /\ n.read = command[c].read
        BY <1>0 DEF Notes
      <3> HIDE DEF n
      <3> QED
        BY <1>3, <3>1, <3>2 DEF Goes
    <2> QED
      BY <1>3, <2>1, <2>2 DEF Signal
  <1>4. CASE StartProbe(c)
    <2>1. Moves(c, IF ProbeFinds(c) THEN "done" ELSE "resolving")
      BY <1>4 DEF StartProbe, Probe
    <2> QED
      BY <1>4, <2>1, MovesTo DEF Goes
  <1>5. CASE AddProbe(c)
    <2>1. Moves(c, IF ProbeFinds(c) THEN "resolving" ELSE "done")
      BY <1>5 DEF AddProbe, Probe
    <2> QED
      BY <1>5, <2>1, MovesTo DEF Goes
  <1>6. CASE StopProbe(c)
    <2>1. Moves(c, IF ProbeFinds(c) THEN "signalling" ELSE "done")
      BY <1>6 DEF StopProbe, Probe
    <2> QED
      BY <1>6, <2>1, MovesTo DEF Goes
  <1>7. CASE WriteQueue(c)
    <2>1. Moves(c, "spawning")
      BY <1>7 DEF WriteQueue
    <2> QED
      BY <1>7, <2>1, MovesTo DEF Goes
  <1>8. CASE Spawn(c)
    <2>1. Moves(c, "done")
      BY <1>8 DEF Spawn
    <2> QED
      BY <1>8, <2>1, MovesTo DEF Goes
  <1>9. CASE AppendPending(c)
    <2>1. Moves(c, "done")
      BY <1>9 DEF AppendPending
    <2> QED
      BY <1>9, <2>1, MovesTo DEF Goes
  <1>10. CASE AwaitExit(c)
    <2>1. Moves(c, "done")
      BY <1>10 DEF AwaitExit
    <2> QED
      BY <1>10, <2>1, MovesTo DEF Goes
  <1>11. CASE ResolveFails(c)
    <2>1. Moves(c, "done")
      BY <1>11 DEF ResolveFails
    <2> QED
      BY <1>11, <2>1, MovesTo DEF Goes
  <1> QED
    BY <1>1, <1>2, <1>3, <1>4, <1>5, <1>6, <1>7, <1>8, <1>9, <1>10, <1>11 DEF CommandStep, StartStep, AddStep, StopStep

\* A signal sets a flag, or ends a daemon without handlers.
Hears(d, m) ==
    \/ /\ m.stop = TRUE /\ m.at = daemon[d].at /\ UNCHANGED process
       /\ m.pid = daemon[d].pid /\ Same(d, m) /\ m.flying = daemon[d].flying
    \/ /\ m = Gone(d) /\ daemon[d].at \in {"spawned", "named"}
       /\ process' = [process EXCEPT ![pidFile] = None]

LEMMA Signals ==
    ASSUME TypeOK, NEW k \in Commands, Signal(k)
    PROVE  /\ daemon' \in [Daemons -> Memory]
           /\ \/ UNCHANGED <<daemon, process>>
              \/ \E d \in Daemons, m \in Memory :
                    /\ process[pidFile] = d /\ pidFile \in Pids
                    /\ daemon' = [daemon EXCEPT ![d] = m] /\ Hears(d, m)
  <1>1. CASE UNCHANGED <<daemon, process>>
    BY <1>1 DEF TypeOK
  <1>2. CASE ~UNCHANGED <<daemon, process>>
    <2> DEFINE d  == process[pidFile]
               m1 == Gone(d)
               m2 == [daemon[d] EXCEPT !.stop = TRUE]
    <2>1. pidFile \in Pids /\ d \in Daemons
      BY <1>2 DEF Signal, InUse, TypeOK
    <2>2. daemon[d] \in Memory
      BY <2>1 DEF TypeOK
    <2>3. CASE daemon[d].at \in {"spawned", "named"}
      <3>1. daemon' = [daemon EXCEPT ![d] = m1] /\ process' = [process EXCEPT ![pidFile] = None]
        BY <1>2, <2>3 DEF Signal
      <3>2. m1 \in Memory
        BY <2>1, GoneFacts
      <3>3. Hears(d, m1)
        BY <2>3, <3>1 DEF Hears
      <3> HIDE DEF m1
      <3> HIDE DEF d
      <3>4. daemon' \in [Daemons -> Memory]
        BY <2>1, <3>1, <3>2 DEF TypeOK
      <3> QED
        BY <2>1, <3>1, <3>2, <3>3, <3>4 DEF d
    <2>4. CASE daemon[d].at \notin {"spawned", "named"}
      <3>1. daemon' = [daemon EXCEPT ![d] = m2] /\ UNCHANGED process
        BY <1>2, <2>4 DEF Signal
      <3>2. m2 \in Memory /\ m2.pid = daemon[d].pid /\ m2.issues = daemon[d].issues
            /\ m2.index = daemon[d].index /\ m2.buffer = daemon[d].buffer
            /\ m2.stop = TRUE /\ m2.at = daemon[d].at /\ m2.flying = daemon[d].flying
        BY <2>2 DEF Memory
      <3> HIDE DEF m2
      <3>3. Hears(d, m2)
        BY <3>1, <3>2 DEF Hears, Same, Keeps
      <3> HIDE DEF d
      <3>4. daemon' \in [Daemons -> Memory]
        BY <2>1, <3>1, <3>2 DEF TypeOK
      <3> QED
        BY <2>1, <3>1, <3>2, <3>3, <3>4 DEF d
    <2> QED
      BY <2>3, <2>4
  <1> QED
    BY <1>1, <1>2

LEMMA CommandTypes ==
    ASSUME TypeOK, NEW c \in Commands, CommandStep(c)
    PROVE  TypeOK'
  <1>1. command' \in [Commands -> Notes]
    BY CommandMoves DEF TypeOK
  <1> USE DEF TypeOK, counters
  <1>2. CASE c \in Adders /\ AppendPending(c)
    <2>1. command[c].read \o Given[c] \in Seq(Nat)
      BY <1>2, Assumed DEF Notes
    <2> QED
      BY <1>1, <1>2, <2>1 DEF AppendPending
  <1>3. CASE c \in Starters /\ WriteQueue(c)
    BY <1>1, <1>3, Assumed DEF WriteQueue, Queues
  <1>4. CASE c \in Starters /\ Spawn(c)
    <2>1. PICK p \in Pids, d \in Daemons, m \in Memory :
             daemon' = [daemon EXCEPT ![d] = m] /\ process' = [process EXCEPT ![p] = d]
      BY ZenonT(40), <1>4, Spawns
    <2>2. UNCHANGED <<pidFile, queueFile, pending, accepted, torn, crossed, counters>>
      BY <1>4, Spawns
    <2>3. daemon' \in [Daemons -> Memory] /\ process' \in [Pids -> Daemons \cup {"other", None}]
      BY <2>1
    <2> QED
      BY <1>1, <2>2, <2>3
  <1>5. CASE Signal(c)
    <2>1. pidFile \in InUse /\ process[pidFile] # "other" => process[pidFile] \in Daemons
      BY DEF InUse
    <2>2. daemon' \in [Daemons -> Memory]
      BY <1>5, Signals
    <2>3. process' \in [Pids -> Daemons \cup {"other", None}]
      BY <1>5, <2>1 DEF Signal
    <2> QED
      BY <1>1, <1>5, <2>2, <2>3 DEF Signal
  <1>6. CASE ReadPid(c) \/ ResolveFails(c) \/ ReadPending(c) \/ AwaitExit(c)
    BY <1>1, <1>6 DEF ReadPid, ResolveFails, ReadPending, AwaitExit
  <1>7. CASE StartProbe(c) \/ AddProbe(c) \/ StopProbe(c)
    BY <1>1, <1>7 DEF StartProbe, AddProbe, StopProbe, Probe
  <1> QED
    BY <1>2, <1>3, <1>4, <1>5, <1>6, <1>7 DEF CommandStep, StartStep, AddStep, StopStep

LEMMA DaemonTypes ==
    ASSUME TypeOK, NEW d \in Daemons, DaemonStep(d) \/ Fatal(d) \/ Kill(d)
    PROVE  TypeOK'
  <1>1. PICK m \in Memory : daemon' = [daemon EXCEPT ![d] = m] /\ (Becomes(d, m) \/ Dies(d, m))
    BY DaemonMoves
  <1>2. daemon' \in [Daemons -> Memory]
    BY <1>1 DEF TypeOK
  <1>3. daemon[d] \in Memory /\ <<>> \in Seq(Nat)
    BY DEF TypeOK
  <1> USE DEF TypeOK, counters
  <1>4. CASE WritePid(d) \/ DeletePid(d)
    BY <1>2, <1>3, <1>4 DEF WritePid, DeletePid, Memory
  <1>5. CASE Enter(d) \/ ReadToDrain(d) \/ Leave(d)
    BY <1>2, <1>5 DEF Enter, ReadToDrain, Leave
  <1>6. CASE EmptyPending(d)
    BY <1>2, <1>3, <1>6 DEF EmptyPending
  <1>7. CASE WriteMerged(d) \/ Launch(d) \/ Refresh(d) \/ Idle(d) \/ StillIdle(d)
    <2>1. InMemory(d) \in Queues
      BY <1>3 DEF InMemory, Memory, Queues
    <2> QED
      BY <1>2, <1>7, <2>1 DEF WriteMerged, Launch, Refresh, Idle, StillIdle
  <1>8. CASE EndRun(d)
    <2>1. queueFile' \in Queues
      <3>1. daemon[d].issues \in Seq(Nat) /\ daemon[d].index + 1 \in Nat
        BY <1>3 DEF Memory
      <3>2. queueFile' = [issues |-> daemon[d].issues, index |-> daemon[d].index + 1]
        BY <1>8 DEF EndRun, InMemory
      <3> QED
        BY <3>1, <3>2 DEF Queues
    <2> QED
      BY <1>2, <1>8, <2>1 DEF EndRun
  <1>9. CASE Exit(d)
    BY <1>2, <1>9 DEF Exit
  <1>10. CASE Kill(d)
    <2>1. process' \in [Pids -> Daemons \cup {"other", None}]
      BY <1>10 DEF Kill
    <2>2. deaths' \in Nat
      BY <1>10 DEF Kill
    <2> QED
      BY <1>2, <1>10, <2>1, <2>2 DEF Kill
  <1>11. CASE Fatal(d)
    BY <1>2, <1>11 DEF Fatal
  <1> QED
    BY <1>1, <1>4, <1>5, <1>6, <1>7, <1>8, <1>9, <1>10, <1>11 DEF Becomes, Dies

LEMMA TypeStep ==
    ASSUME TypeOK, [Next]_vars
    PROVE  TypeOK'
  <1>1. ASSUME NEW p \in Pids, Reuse(p)
        PROVE  TypeOK'
    BY <1>1 DEF TypeOK, Reuse
  <1>2. CASE UNCHANGED vars
    BY <1>2 DEF TypeOK, vars
  <1> QED
    BY <1>1, <1>2, CommandTypes, DaemonTypes DEF Next, Commands, CommandStep

(***************************************************************************)
(* Every step, by what it does to the daemons and the process table.       *)
(***************************************************************************)
LEMMA Quiet ==
    ASSUME NEW c \in Commands, CommandStep(c), ~Signal(c), ~(c \in Starters /\ Spawn(c))
    PROVE  UNCHANGED <<daemon, process>>
  BY DEF CommandStep, StartStep, AddStep, StopStep, ReadPid, StartProbe, AddProbe, StopProbe, Probe,
         ResolveFails, WriteQueue, ReadPending, AppendPending, AwaitExit

\* A daemon step leaves the table alone or ends the daemon.
LEMMA Ends ==
    ASSUME NEW d \in Daemons, NEW m, Becomes(d, m) \/ Dies(d, m)
    PROVE  /\ Alive(d)
           /\ \/ m.at = "gone" /\ process' = [process EXCEPT ![daemon[d].pid] = None]
              \/ m.at # "gone" /\ UNCHANGED process
  BY DEF Becomes, Dies, Gone, Unborn, Alive, WritePid, Enter, ReadToDrain, EmptyPending, WriteMerged, Launch, EndRun,
       Refresh, Idle, StillIdle, Rests, Leave, DeletePid, Exit, Fatal, Kill

LEMMA TableStep ==
    ASSUME TypeOK, TableInv, [Next]_vars
    PROVE  TableInv'
  <1> USE DEF TypeOK, TableInv, Alive
  <1>1. ASSUME NEW c \in Commands, CommandStep(c)
        PROVE  TableInv'
    <2>1. CASE c \in Starters /\ Spawn(c)
      <3>1. PICK p \in Pids, d \in Daemons, m \in Memory :
               /\ process[p] = None /\ daemon' = [daemon EXCEPT ![d] = m]
               /\ process' = [process EXCEPT ![p] = d] /\ m.pid = p
        BY <2>1, Spawns
      <3>2. ASSUME NEW e \in Daemons, Alive(e)'
            PROVE  daemon'[e].pid \in Pids /\ process'[daemon'[e].pid] = e
        BY <3>1, <3>2, Assumed
      <3> QED
        BY <3>2
    <2>2. CASE Signal(c)
      <3>1. CASE UNCHANGED <<daemon, process>>
        BY <3>1
      <3>2. ASSUME NEW d \in Daemons, NEW m \in Memory, process[pidFile] = d, pidFile \in Pids,
                   daemon' = [daemon EXCEPT ![d] = m], Hears(d, m)
            PROVE  TableInv'
        <4>1. ASSUME NEW e \in Daemons, Alive(e)'
              PROVE  daemon'[e].pid \in Pids /\ process'[daemon'[e].pid] = e
          BY <3>2, <4>1, Assumed DEF Hears, Gone, Unborn
        <4> QED
          BY <4>1
      <3> QED
        BY <2>2, <3>1, <3>2, Signals
    <2> QED
      BY <1>1, <2>1, <2>2, Quiet
  <1>2. ASSUME NEW d \in Daemons, DaemonStep(d) \/ Fatal(d) \/ Kill(d)
        PROVE  TableInv'
    <2>1. PICK m \in Memory : /\ daemon' = [daemon EXCEPT ![d] = m]
                              /\ m.at # "gone" => m.pid = daemon[d].pid
                              /\ Becomes(d, m) \/ Dies(d, m)
      BY <1>2, DaemonMoves
    <2>2. ASSUME NEW e \in Daemons, Alive(e)'
          PROVE  daemon'[e].pid \in Pids /\ process'[daemon'[e].pid] = e
      BY <2>1, <2>2, Ends, Assumed
    <2> QED
      BY <2>2
  <1>3. ASSUME NEW p \in Pids, Reuse(p)
        PROVE  TableInv'
    <2>1. ASSUME NEW e \in Daemons, Alive(e)'
          PROVE  daemon'[e].pid \in Pids /\ process'[daemon'[e].pid] = e
      BY <1>3, <2>1, Assumed DEF Reuse
    <2> QED
      BY <2>1
  <1>4. CASE UNCHANGED vars
    BY <1>4 DEF vars
  <1> QED
    BY <1>1, <1>2, <1>3, <1>4 DEF Next, Commands, CommandStep

(***************************************************************************)
(* One daemon.                                                             *)
(***************************************************************************)
\* Commands are not between their steps twice: only ReadPid begins one.
LEMMA Flying ==
    ASSUME TypeOK, NEW c \in Commands, CommandStep(c), NEW n \in Notes,
           command' = [command EXCEPT ![c] = n], Goes(c, n)
    PROVE  /\ InFlight(c) \/ ReadPid(c)
           /\ \A e \in Commands : e # c => command'[e] = command[e]
           /\ command'[c] = n
  BY DEF TypeOK, Goes, InFlight, ReadPid, StartProbe, AddProbe, StopProbe, Probe, ResolveFails,
         WriteQueue, ReadPending, AppendPending, AwaitExit, Spawn, Signal

LEMMA CommandMeets ==
    ASSUME TypeOK, TableInv, OneByOne, NEW c \in Commands, CommandStep(c), ~crossed'
    PROVE  OneByOne'
  <1>1. PICK n \in Notes : command' = [command EXCEPT ![c] = n] /\ Goes(c, n)
    BY CommandMoves
  <1>2. \A e \in Commands : e # c => command'[e] = command[e]
    BY <1>1, Flying
  <1>3. command'[c] = n
    BY <1>1, Flying
  <1>4. CASE ReadPid(c)
    <2>1. /\ \A e \in Commands : ~InFlight(e)
          /\ \A d \in Daemons : daemon[d].at # "spawned"
      BY <1>4 DEF ReadPid
    <2>2. UNCHANGED <<daemon, pidFile>> /\ n.at = "probing" /\ n.pid = pidFile
      <3>1. command[c].at = "ready"
        BY <1>4 DEF ReadPid
      <3> QED
        BY <1>1, <1>4, <3>1 DEF ReadPid, Goes, ReadPending, Signal, StartProbe, AddProbe, StopProbe,
           Probe, ResolveFails, WriteQueue, Spawn, AppendPending, AwaitExit
    <2>3. \A e \in Commands : InFlight(e)' => e = c
      BY <1>2, <2>1 DEF InFlight
    <2>4. \A s \in Starters : ~Cleared(s)'
      BY <1>3, <2>2, <2>3 DEF Cleared, InFlight, Commands
    <2>5. \A e \in Commands : command'[e].at = "probing" => command'[e].pid = pidFile
      BY <1>3, <2>2, <2>3 DEF InFlight
    <2> QED
      BY <2>1, <2>2, <2>3, <2>4, <2>5 DEF OneByOne, Going, Named
  <1>5. CASE ~ReadPid(c)
    <2>1. InFlight(c)
      BY <1>1, <1>5, Flying
    <2>2. /\ \A e \in Commands : InFlight(e) => e = c
          /\ \A d \in Daemons : daemon[d].at # "spawned"
      BY <2>1 DEF OneByOne
    <2>3. \A e \in Commands : InFlight(e)' => e = c
      BY <1>2, <2>2 DEF InFlight
    <2>4. n.at # "probing"
      BY <1>1, <1>5 DEF Goes
    <2>5. \A e \in Commands : command'[e].at # "probing"
      BY <1>3, <2>3, <2>4 DEF InFlight
    <2>6. \A s \in Starters : Cleared(s)' => s = c
      BY <2>3 DEF Cleared, InFlight, Commands
    <2>7. CASE c \in Starters /\ Spawn(c)
      <3>1. PICK p \in Pids, d \in Daemons, m \in Memory : daemon' = [daemon EXCEPT ![d] = m] /\ m.at = "spawned"
        BY <2>7, Spawns
      <3>2. command[c].at = "spawning" /\ n.at = "done"
        <4>1. command[c].at = "spawning" /\ Moves(c, "done")
          BY <2>7, Spawns
        <4> QED
          BY <1>3, <4>1 DEF Moves, TypeOK
      <3>3. \A e \in Commands : ~InFlight(e)'
        BY <1>3, <2>3, <3>2 DEF InFlight
      <3>4. \A e \in Daemons : ~Going(e)
        BY <2>7, <3>2 DEF OneByOne, Cleared
      <3>5. \A e \in Daemons : (Going(e)' => e = d) /\ ~Named(e)'
        BY <3>1, <3>4 DEF TypeOK, Going, Named
      <3>6. \A s \in Starters : ~Cleared(s)'
        BY <3>3 DEF Cleared, InFlight, Commands
      <3> QED
        BY <2>5, <3>3, <3>5, <3>6 DEF OneByOne
    <2>8. CASE Signal(c)
      <3>1. UNCHANGED pidFile
        BY <2>8 DEF Signal
      <3>2. \A e \in Daemons : \/ daemon'[e].at = "gone"
                               \/ daemon'[e].at = daemon[e].at /\ daemon'[e].pid = daemon[e].pid
        <4>1. CASE UNCHANGED <<daemon, process>>
          BY <4>1
        <4>2. ASSUME NEW d \in Daemons, NEW m \in Memory,
                     daemon' = [daemon EXCEPT ![d] = m], Hears(d, m)
              PROVE  \A e \in Daemons :
                        \/ daemon'[e].at = "gone"
                        \/ daemon'[e].at = daemon[e].at /\ daemon'[e].pid = daemon[e].pid
          BY <4>2 DEF Hears, Gone, Unborn, TypeOK
        <4> QED
          BY <2>8, <4>1, <4>2, Signals
      <3>3. ~Cleared(c)'
        <4>1. command[c].at = "signalling"
          BY <2>8 DEF Signal
        <4>2. n.at \in {"waiting", "done"}
          BY <1>1, <1>5, <2>8, <4>1 DEF Goes, ReadPending, StartProbe, AddProbe, StopProbe, Probe,
             ResolveFails, WriteQueue, Spawn, AppendPending, AwaitExit
        <4> QED
          BY <1>3, <4>2 DEF Cleared
      <3>4. \A e \in Daemons : (Going(e)' => Going(e)) /\ (Named(e)' => Named(e) /\ daemon'[e].pid = daemon[e].pid)
        BY <3>2 DEF Going, Named
      <3> QED
        BY <2>2, <2>3, <2>5, <2>6, <3>1, <3>2, <3>3, <3>4 DEF OneByOne
    <2>9. CASE ~Signal(c) /\ ~(c \in Starters /\ Spawn(c))
      <3>1. UNCHANGED <<daemon, process>>
        BY <2>9, Quiet
      <3>2. ASSUME command[c].at = "probing", NEW d \in Daemons, Named(d)
            PROVE  ProbeFinds(c)
        BY <3>2, Assumed DEF OneByOne, TableInv, Named, Alive, ProbeFinds, InUse
      <3>3. ASSUME NEW d \in Daemons, Named(d)
            PROVE  pidFile' = pidFile
        BY <1>5, <2>9, <3>2, <3>3
           DEF CommandStep, StartStep, AddStep, StopStep, StartProbe, AddProbe, StopProbe, Probe,
               ResolveFails, WriteQueue, ReadPending, AppendPending, AwaitExit
      <3>4. ASSUME c \in Starters, Cleared(c)', NEW d \in Daemons
            PROVE  ~Going(d)
        <4>1. CASE Cleared(c)
          BY <3>4, <4>1 DEF OneByOne
        <4>2. CASE ~Cleared(c)
          <5>1. command[c].at = "probing" /\ ~ProbeFinds(c)
            <6>1. StartStep(c) \/ StopStep(c)
              BY <3>4, Assumed DEF CommandStep
            <6>2. CASE StartProbe(c)
              BY <3>4, <6>2 DEF StartProbe, Probe, Moves, Cleared, TypeOK
            <6>3. CASE StopProbe(c) \/ AwaitExit(c)
              BY <3>4, <6>3 DEF StopProbe, Probe, AwaitExit, Moves, Cleared, TypeOK
            <6>4. CASE ResolveFails(c) \/ WriteQueue(c)
              BY <4>2, <6>4 DEF ResolveFails, WriteQueue, Cleared
            <6> QED
              BY <1>5, <2>9, <3>4, <6>1, <6>2, <6>3, <6>4 DEF StartStep, StopStep
          <5> QED
            BY <2>2, <3>2, <5>1 DEF Going, Named
        <4> QED
          BY <4>1, <4>2
      <3> QED
        BY <2>2, <2>3, <2>5, <2>6, <3>1, <3>3, <3>4 DEF OneByOne, Going, Named
    <2> QED
      BY <2>7, <2>8, <2>9
  <1> QED
    BY <1>4, <1>5

LEMMA DaemonMeets ==
    ASSUME TypeOK, OneByOne, NEW d \in Daemons, DaemonStep(d) \/ Fatal(d) \/ Kill(d)
    PROVE  OneByOne'
  <1>1. PICK m \in Memory : /\ daemon' = [daemon EXCEPT ![d] = m]
                            /\ m.at # "gone" => m.pid = daemon[d].pid
                            /\ Becomes(d, m) \/ Dies(d, m)
    BY DaemonMoves
  <1>2. UNCHANGED command
    BY <1>1 DEF Becomes, Dies, Gone, Unborn, WritePid, Enter, ReadToDrain, EmptyPending, WriteMerged, Launch, EndRun,
       Refresh, Idle, StillIdle, Rests, Leave, DeletePid, Exit, Fatal, Kill
  <1>3. /\ \A e \in Daemons : e # d => daemon'[e] = daemon[e]
        /\ daemon'[d] = m
    BY <1>1 DEF TypeOK
  <1>4. daemon[d].at \notin {"none", "gone"} /\ m.at \notin {"none", "spawned"}
    BY <1>1 DEF Becomes, Dies, Gone, Unborn, WritePid, Enter, ReadToDrain, EmptyPending, WriteMerged, Launch, EndRun,
       Refresh, Idle, StillIdle, Rests, Leave, DeletePid, Exit, Fatal, Kill, Alive
  <1>5. daemon[d].at = "exiting" => m.at = "gone"
    BY <1>1 DEF Becomes, Dies, Gone, Unborn, WritePid, Enter, ReadToDrain, EmptyPending, WriteMerged, Launch, EndRun,
       Refresh, Idle, StillIdle, Rests, Leave, DeletePid, Exit, Fatal, Kill
  <1>6. \A e \in Daemons : Going(e)' => Going(e)
    BY <1>3, <1>4, <1>5 DEF Going
  <1>7. CASE WritePid(d)
    <2>1. \A c \in Commands : ~InFlight(c)
      BY <1>7 DEF OneByOne, WritePid
    <2>2. \A e \in Daemons : Named(e)' => e = d
      BY <1>6, <1>7 DEF OneByOne, WritePid, Going, Named
    <2>3. pidFile' = m.pid
      <3>1. pidFile' = daemon[d].pid /\ daemon'[d].at = "named"
        BY <1>7 DEF WritePid, TypeOK, Memory
      <3> QED
        BY <1>1, <1>3, <3>1
    <2>4. \A c \in Commands : ~InFlight(c)'
      BY <1>2, <2>1 DEF InFlight
    <2> QED
      BY <1>3, <1>6, <2>2, <2>3, <2>4 DEF OneByOne, InFlight, Cleared, Commands
  <1>8. CASE DeletePid(d)
    <2>1. daemon[d].at = "deleting" /\ daemon'[d].at = "exiting"
      BY <1>8 DEF DeletePid, TypeOK, Memory
    <2>2. \A e \in Daemons : ~Named(e)'
      BY <1>3, <1>6, <2>1 DEF OneByOne, Going, Named
    <2> QED
      BY <1>2, <1>3, <1>4, <1>6, <2>2 DEF OneByOne, InFlight, Cleared
  <1>9. CASE ~WritePid(d) /\ ~DeletePid(d)
    <2>1. daemon[d].at # "spawned" \/ m.at = "gone"
      BY <1>1, <1>9 DEF Becomes, Dies, Gone, Unborn, Enter, ReadToDrain, EmptyPending, WriteMerged, Launch, EndRun,
       Refresh, Idle, StillIdle, Rests, Leave, Exit, Fatal, Kill
    <2>2. UNCHANGED pidFile
      BY <1>1, <1>9 DEF Becomes, Dies, Gone, Unborn, Enter, ReadToDrain, EmptyPending, WriteMerged, Launch, EndRun,
       Refresh, Idle, StillIdle, Rests, Leave, Exit, Fatal, Kill
    <2>3. \A e \in Daemons : Named(e)' => Named(e) /\ daemon'[e].pid = daemon[e].pid
      BY <1>1, <1>3, <1>4, <1>5, <2>1 DEF Named
    <2> QED
      BY <1>1, <1>2, <1>3, <1>4, <1>6, <2>2, <2>3 DEF OneByOne, InFlight, Cleared
  <1> QED
    BY <1>7, <1>8, <1>9

LEMMA CrossedStays ==
    ASSUME [Next]_vars, crossed
    PROVE  crossed'
  BY DEF Next, vars, StartStep, AddStep, StopStep, ReadPid, StartProbe, AddProbe, StopProbe, Probe,
     ResolveFails, WriteQueue, ReadPending, AppendPending, AwaitExit, Spawn, Signal, DaemonStep,
     WritePid, Enter, ReadToDrain, EmptyPending, WriteMerged, Launch, EndRun, Refresh, Idle,
     StillIdle, Leave, DeletePid, Exit, Fatal, Kill, Reuse

LEMMA MeetStep ==
    ASSUME TypeOK, TableInv, MeetInv, [Next]_vars
    PROVE  MeetInv'
  <1> SUFFICES ASSUME ~crossed'
               PROVE  OneByOne'
    BY DEF MeetInv
  <1>0. OneByOne
    BY CrossedStays DEF MeetInv
  <1>1. ASSUME NEW p \in Pids, Reuse(p)
        PROVE  OneByOne'
    BY <1>0, <1>1 DEF Reuse, OneByOne, InFlight, Going, Named, Cleared
  <1>2. CASE UNCHANGED vars
    BY <1>0, <1>2 DEF vars, OneByOne, InFlight, Going, Named, Cleared
  <1> QED
    BY <1>0, <1>1, <1>2, CommandMeets, DaemonMeets DEF Next, Commands, CommandStep

(***************************************************************************)
(* What was accepted is kept.                                              *)
(***************************************************************************)
LEMMA Concatenation ==
    ASSUME NEW s \in Seq(Nat), NEW t \in Seq(Nat)
    PROVE  /\ ToSet(s \o t) = ToSet(s) \cup ToSet(t)
           /\ Distinct(s) /\ Distinct(t) /\ ToSet(s) \cap ToSet(t) = {} => Distinct(s \o t)
  <1> DEFINE u == s \o t
  <1>1. /\ Len(s) \in Nat /\ Len(t) \in Nat /\ DOMAIN s = 1..Len(s) /\ DOMAIN t = 1..Len(t)
        /\ DOMAIN u = 1..Len(s) + Len(t)
        /\ \A k \in 1..Len(s) : u[k] = s[k]
        /\ \A k \in Len(s) + 1..Len(s) + Len(t) : u[k] = t[k - Len(s)]
    OBVIOUS
  <1> HIDE DEF u
  <1>2. ASSUME NEW k \in DOMAIN u, k \notin 1..Len(s)
        PROVE  k - Len(s) \in DOMAIN t /\ u[k] = t[k - Len(s)]
    BY <1>1, <1>2
  <1>3. ASSUME NEW k \in DOMAIN t
        PROVE  k + Len(s) \in DOMAIN u /\ u[k + Len(s)] = t[k]
    <2>1. k + Len(s) \in Len(s) + 1..Len(s) + Len(t) /\ (k + Len(s)) - Len(s) = k
      BY <1>1
    <2> QED
      BY <1>1, <2>1
  <1>4. ToSet(u) = ToSet(s) \cup ToSet(t)
    <2>1. ASSUME NEW k \in DOMAIN u
          PROVE  u[k] \in ToSet(s) \cup ToSet(t)
      BY <1>1, <1>2 DEF ToSet
    <2>2. ASSUME NEW k \in DOMAIN s
          PROVE  s[k] \in ToSet(u)
      BY <1>1 DEF ToSet
    <2>3. ASSUME NEW k \in DOMAIN t
          PROVE  t[k] \in ToSet(u)
      BY <1>3 DEF ToSet
    <2> QED
      BY <2>1, <2>2, <2>3 DEF ToSet
  <1>5. ASSUME Distinct(s), Distinct(t), ToSet(s) \cap ToSet(t) = {}
        PROVE  Distinct(u)
    <2>1. ASSUME NEW j \in DOMAIN u, NEW k \in DOMAIN u, u[j] = u[k]
          PROVE  j = k
      <3>1. CASE j \in 1..Len(s) /\ k \in 1..Len(s)
        BY <1>1, <1>5, <2>1, <3>1 DEF Distinct
      <3>2. CASE j \notin 1..Len(s) /\ k \notin 1..Len(s)
        <4>1. j - Len(s) = k - Len(s)
          BY <1>2, <1>5, <2>1, <3>2 DEF Distinct
        <4> QED
          BY <1>1, <4>1
      <3>3. CASE j \in 1..Len(s) /\ k \notin 1..Len(s)
        BY <1>1, <1>2, <1>5, <2>1, <3>3 DEF ToSet
      <3>4. CASE j \notin 1..Len(s) /\ k \in 1..Len(s)
        BY <1>1, <1>2, <1>5, <2>1, <3>4 DEF ToSet
      <3> QED
        BY <3>1, <3>2, <3>3, <3>4
    <2> QED
      BY <2>1 DEF Distinct
  <1> QED
    BY <1>4, <1>5 DEF u

\* Commands do not touch a queue in memory: they spawn and signal at most.
Undisturbed(d) ==
    /\ daemon'[d].issues = daemon[d].issues
    /\ daemon'[d].buffer \in {<<>>, daemon[d].buffer}
    /\ \/ daemon'[d] = daemon[d]
       \/ /\ daemon'[d].at = daemon[d].at /\ daemon'[d].index = daemon[d].index
          /\ daemon'[d].buffer = daemon[d].buffer
          /\ daemon'[d].flying = daemon[d].flying /\ daemon'[d].stop = TRUE
       \/ /\ daemon'[d].at = "spawned" /\ daemon[d].at = "none"
          /\ daemon'[d].buffer = daemon[d].buffer
       \/ daemon'[d].at = "gone"

LEMMA CommandsLeaveQueues ==
    ASSUME TypeOK, NEW c \in Commands, CommandStep(c), NEW d \in Daemons
    PROVE  Undisturbed(d)
  <1>1. CASE c \in Starters /\ Spawn(c)
    <2>1. PICK p \in Pids, e \in Daemons, m \in Memory :
             /\ daemon[e].at = "none" /\ daemon' = [daemon EXCEPT ![e] = m]
             /\ m.at = "spawned" /\ Keeps(e, m) /\ m.buffer = daemon[e].buffer
      BY <1>1, Spawns
    <2> QED
      BY <2>1 DEF Undisturbed, Keeps, TypeOK
  <1>2. CASE Signal(c)
    <2>1. CASE UNCHANGED <<daemon, process>>
      BY <2>1 DEF Undisturbed
    <2>2. ASSUME NEW e \in Daemons, NEW m \in Memory,
                 daemon' = [daemon EXCEPT ![e] = m], Hears(e, m)
          PROVE  Undisturbed(d)
      <3>1. CASE m = Gone(e)
        BY <2>2, <3>1, GoneFacts DEF Undisturbed, TypeOK
      <3>2. CASE m # Gone(e)
        BY <2>2, <3>2 DEF Undisturbed, Hears, Same, Keeps, TypeOK
      <3> QED
        BY <3>1, <3>2
    <2> QED
      BY <1>2, <2>1, <2>2, Signals
  <1> QED
    BY <1>1, <1>2, Quiet DEF Undisturbed

LEMMA FreshStep ==
    ASSUME TypeOK, FreshInv, [Next]_vars
    PROVE  FreshInv'
  <1>1. ASSUME NEW c \in Commands, CommandStep(c)
        PROVE  FreshInv'
    <2>1. \A d \in Daemons : Undisturbed(d)
      BY <1>1, CommandsLeaveQueues
    <2> QED
      BY <2>1 DEF FreshInv, Undisturbed
  <1>2. ASSUME NEW d \in Daemons, DaemonStep(d) \/ Fatal(d) \/ Kill(d)
        PROVE  FreshInv'
    <2>1. PICK m \in Memory : daemon' = [daemon EXCEPT ![d] = m] /\ (Becomes(d, m) \/ Dies(d, m))
      BY <1>2, DaemonMoves
    <2>2. m.at \in {"none", "spawned", "named"} => m.issues = <<>> /\ m.buffer = <<>>
      BY <2>1, GoneFacts DEF Becomes, Dies, Same, Keeps, WritePid, FreshInv
    <2> QED
      BY <2>1, <2>2 DEF FreshInv, TypeOK
  <1>3. ASSUME NEW p \in Pids, Reuse(p)
        PROVE  FreshInv'
    BY <1>3 DEF Reuse, FreshInv
  <1>4. CASE UNCHANGED vars
    BY <1>4 DEF vars, FreshInv
  <1> QED
    BY <1>1, <1>2, <1>3, <1>4 DEF Next, Commands, CommandStep

LEMMA DoneStep ==
    ASSUME TypeOK, DoneInv, [Next]_vars
    PROVE  DoneInv'
  <1>1. ASSUME NEW c \in Commands, CommandStep(c)
        PROVE  DoneInv'
    <2>1. \A d \in Daemons : Undisturbed(d)
      BY <1>1, CommandsLeaveQueues
    <2> QED
      BY <2>1 DEF DoneInv, Undisturbed
  <1>2. ASSUME NEW d \in Daemons, DaemonStep(d) \/ Fatal(d) \/ Kill(d)
        PROVE  DoneInv'
    <2>1. PICK m \in Memory : /\ daemon' = [daemon EXCEPT ![d] = m]
                              /\ m.at # "gone" => m.stop = daemon[d].stop
                              /\ \/ Becomes(d, m) /\ m.failed = daemon[d].failed
                                 \/ Dies(d, m)
      BY <1>2, DaemonMoves
    <2>2. (\/ m.at = "resting"
           \/ m.at \in {"deleting", "exiting"} /\ ~m.stop /\ ~m.failed)
              => m.flying = 0
      <3>1. CASE Leave(d) /\ m.flying = daemon[d].flying
        BY <3>1 DEF Leave, Rests, DoneInv
      <3>2. CASE /\ DeletePid(d) /\ m.at = "exiting" /\ m.flying = daemon[d].flying
                 /\ m.failed = daemon[d].failed
        BY <2>1, <3>2 DEF DeletePid, DoneInv
      <3>3. CASE ~(Leave(d) /\ m.flying = daemon[d].flying)
                 /\ ~(/\ DeletePid(d) /\ m.at = "exiting" /\ m.flying = daemon[d].flying
                      /\ m.failed = daemon[d].failed)
        BY <2>1, <3>3, GoneFacts DEF Becomes, Dies
      <3> QED
        BY <3>1, <3>2, <3>3
    <2> QED
      BY <2>1, <2>2 DEF DoneInv, TypeOK
  <1>3. ASSUME NEW p \in Pids, Reuse(p)
        PROVE  DoneInv'
    BY <1>3 DEF Reuse, DoneInv
  <1>4. CASE UNCHANGED vars
    BY <1>4 DEF vars, DoneInv
  <1> QED
    BY <1>1, <1>2, <1>3, <1>4 DEF Next, Commands, CommandStep

\* Who writes queue.json is the one daemon there is, or a start that found none.
LEMMA SyncedStep ==
    ASSUME TypeOK, MeetInv, SyncedInv, [Next]_vars
    PROVE  SyncedInv'
  <1> SUFFICES ASSUME ~crossed'
               PROVE  \A e \in Daemons : daemon'[e].at \in OnDisk => queueFile' = InMemory(e)'
    BY DEF SyncedInv
  <1>0. OneByOne /\ \A e \in Daemons : daemon[e].at \in OnDisk => queueFile = InMemory(e)
    BY CrossedStays DEF MeetInv, SyncedInv
  <1>1. ASSUME NEW c \in Commands, CommandStep(c)
        PROVE  \A e \in Daemons : daemon'[e].at \in OnDisk => queueFile' = InMemory(e)'
    <2>1. \A e \in Daemons :
             daemon'[e].at \in OnDisk => daemon[e].at \in OnDisk /\ InMemory(e)' = InMemory(e)
      <3>1. \A e \in Daemons : Undisturbed(e)
        BY <1>1, CommandsLeaveQueues
      <3> QED
        BY <3>1 DEF Undisturbed, InMemory, OnDisk
    <2>2. CASE c \in Starters /\ WriteQueue(c)
      <3>1. \A e \in Daemons : ~Going(e)
        BY <1>0, <2>2 DEF OneByOne, Cleared, WriteQueue
      <3> QED
        BY <2>1, <3>1 DEF Going, OnDisk
    <2>3. CASE ~(c \in Starters /\ WriteQueue(c))
      <3>1. UNCHANGED queueFile
        BY <1>1, <2>3 DEF CommandStep, StartStep, AddStep, StopStep, ReadPid, StartProbe, AddProbe,
           StopProbe, Probe, ResolveFails, ReadPending, AppendPending, AwaitExit, Spawn, Signal
      <3> QED
        BY <1>0, <2>1, <3>1
    <2> QED
      BY <2>2, <2>3
  <1>2. ASSUME NEW d \in Daemons, DaemonStep(d) \/ Fatal(d) \/ Kill(d)
        PROVE  \A e \in Daemons : daemon'[e].at \in OnDisk => queueFile' = InMemory(e)'
    <2>1. PICK m \in Memory : daemon' = [daemon EXCEPT ![d] = m] /\ (Becomes(d, m) \/ Dies(d, m))
      BY <1>2, DaemonMoves
    <2>2. daemon'[d] = m /\ \A e \in Daemons : e # d => daemon'[e] = daemon[e]
      BY <2>1 DEF TypeOK
    <2>3. UNCHANGED queueFile \/ Going(d)
      BY <2>1 DEF Becomes, Dies, Going, WritePid, Enter, ReadToDrain, EmptyPending, WriteMerged,
         Launch, EndRun, Refresh, Idle, StillIdle, Rests, Leave, DeletePid, Exit, Fatal, Kill
    <2>4. ASSUME NEW e \in Daemons, e # d, daemon'[e].at \in OnDisk
          PROVE  queueFile' = InMemory(e)'
      <3>1. daemon[e].at \in OnDisk /\ InMemory(e)' = InMemory(e) /\ Going(e)
        BY <2>2, <2>4 DEF InMemory, OnDisk, Going
      <3>2. UNCHANGED queueFile
        BY <1>0, <2>3, <2>4, <3>1 DEF OneByOne
      <3> QED
        BY <1>0, <3>1, <3>2
    <2>5. ASSUME m.at \in OnDisk
          PROVE  queueFile' = [issues |-> m.issues, index |-> m.index]
      <3>1. CASE Enter(d) /\ m.issues = queueFile.issues /\ m.index = queueFile.index
        BY <3>1 DEF Enter, TypeOK, Queues
      <3>2. CASE ReadToDrain(d) /\ Keeps(d, m)
        BY <1>0, <3>2 DEF ReadToDrain, Keeps, InMemory, OnDisk
      <3>3. CASE /\ EmptyPending(d) /\ New(d) = <<>>
                 /\ m.issues = daemon[d].issues \o New(d) /\ m.index = daemon[d].index
        <4>1. daemon[d].issues \in Seq(Nat)
          BY DEF TypeOK, Memory
        <4>2. m.issues = daemon[d].issues
          BY <3>3, <4>1
        <4> QED
          BY <1>0, <3>3, <4>2 DEF EmptyPending, InMemory, OnDisk
      <3>4. CASE EndRun(d) /\ m.issues = daemon[d].issues /\ m.index = daemon[d].index + 1
        BY <3>4 DEF EndRun, InMemory
      <3>5. CASE (WriteMerged(d) \/ Refresh(d) \/ Idle(d) \/ StillIdle(d)) /\ Same(d, m)
        <4>1. queueFile' = InMemory(d)
          BY <3>5 DEF WriteMerged, Refresh, Idle, StillIdle
        <4> QED
          BY <3>5, <4>1 DEF InMemory, Same, Keeps
      <3>6. CASE Launch(d) /\ Same(d, m)
        <4>1. queueFile' = InMemory(d) \/ (queueFile' = queueFile /\ daemon[d].at = "launching")
          BY <3>6 DEF Launch
        <4> QED
          BY <1>0, <3>6, <4>1 DEF InMemory, Same, Keeps, OnDisk
      <3>7. m.at \notin {"named", "deleting", "exiting", "gone", "normalising"}
               \/ (EndRun(d) /\ m.issues = daemon[d].issues /\ m.index = daemon[d].index + 1)
        BY <2>5 DEF OnDisk
      <3> QED
        BY <2>1, <2>5, <3>1, <3>2, <3>3, <3>4, <3>5, <3>6, <3>7, GoneFacts DEF Becomes, Dies
    <2>6. daemon'[d].at \in OnDisk => queueFile' = InMemory(d)'
      BY <2>2, <2>5 DEF InMemory
    <2> QED
      BY <2>4, <2>6
  <1>3. ASSUME NEW p \in Pids, Reuse(p)
        PROVE  \A e \in Daemons : daemon'[e].at \in OnDisk => queueFile' = InMemory(e)'
    BY <1>0, <1>3 DEF Reuse, InMemory
  <1>4. CASE UNCHANGED vars
    BY <1>0, <1>4 DEF vars, InMemory
  <1> QED
    BY <1>1, <1>2, <1>3, <1>4 DEF Next, Commands, CommandStep

LEMMA KeptStep ==
    ASSUME TypeOK, FreshInv, KeptInv, [Next]_vars
    PROVE  KeptInv'
  <1> SUFFICES ASSUME ~torn'
               PROVE  \A a \in accepted' : \A x \in ToSet(Given[a]) : Somewhere(x)'
    BY DEF KeptInv
  <1>0. ~torn
    BY DEF Next, vars, StartStep, AddStep, StopStep, ReadPid, StartProbe, AddProbe, StopProbe, Probe,
       ResolveFails, WriteQueue, ReadPending, AppendPending, AwaitExit, Spawn, Signal, DaemonStep, WritePid,
       Enter, ReadToDrain, EmptyPending, WriteMerged, Launch, EndRun,
       Refresh, Idle, StillIdle, Rests, Leave, DeletePid, Exit, Fatal,
       Kill, Reuse
  <1>1. \A a \in accepted : \A x \in ToSet(Given[a]) : Somewhere(x)
    BY <1>0 DEF KeptInv
  <1>2. ASSUME NEW c \in Commands, CommandStep(c)
        PROVE  \A a \in accepted' : \A x \in ToSet(Given[a]) : Somewhere(x)'
    <2>1. \A d \in Daemons : daemon'[d].issues = daemon[d].issues
      BY <1>2, CommandsLeaveQueues DEF Undisturbed
    <2>2. CASE c \in Adders /\ AppendPending(c)
      <3>1. pending' = pending \o Given[c] /\ accepted' = accepted \cup {c}
        BY <2>2 DEF AppendPending
      <3>2. ToSet(pending') = ToSet(pending) \cup ToSet(Given[c])
        BY <2>2, <3>1, Concatenation, Assumed DEF TypeOK
      <3> QED
        BY <1>1, <2>1, <3>1, <3>2 DEF Somewhere
    <2>3. CASE ~(c \in Adders /\ AppendPending(c))
      <3>1. UNCHANGED <<pending, accepted>>
        BY <1>2, <2>3 DEF CommandStep, StartStep, AddStep, StopStep, ReadPid, StartProbe, AddProbe,
           StopProbe, Probe, ResolveFails, WriteQueue, ReadPending, AwaitExit, Spawn, Signal
      <3> QED
        BY <1>1, <2>1, <3>1 DEF Somewhere
    <2> QED
      BY <2>2, <2>3
  <1>3. ASSUME NEW d \in Daemons, DaemonStep(d) \/ Fatal(d) \/ Kill(d)
        PROVE  \A a \in accepted' : \A x \in ToSet(Given[a]) : Somewhere(x)'
    <2>1. PICK m \in Memory : daemon' = [daemon EXCEPT ![d] = m] /\ (Becomes(d, m) \/ Dies(d, m))
      BY <1>3, DaemonMoves
    <2>2. /\ \A e \in Daemons : e # d => daemon'[e] = daemon[e]
          /\ daemon'[d] = m
      BY <2>1 DEF TypeOK
    <2>3. UNCHANGED accepted
      BY <2>1 DEF Becomes, Dies, WritePid, Enter, ReadToDrain, EmptyPending, WriteMerged, Launch, EndRun,
       Refresh, Idle, StillIdle, Rests, Leave, DeletePid, Exit, Fatal, Kill
    <2>4. CASE EmptyPending(d)
      <3>1. pending = daemon[d].buffer /\ daemon'[d].issues = daemon[d].issues \o New(d)
        <4>1. daemon' = [daemon EXCEPT ![d].at = IF New(d) = <<>> THEN AfterMerge(d) ELSE "normalising",
                                       ![d].issues = @ \o New(d), ![d].buffer = <<>>]
          BY <2>4 DEF EmptyPending
        <4>2. daemon'[d].issues = daemon[d].issues \o New(d)
          BY <4>1 DEF TypeOK, Memory
        <4> QED
          BY <2>4, <4>2 DEF EmptyPending
      <3>2. /\ daemon[d].issues \in Seq(Nat) /\ New(d) \in Seq(Nat)
            /\ ToSet(New(d)) = ToSet(pending) \ ToSet(daemon[d].issues)
        BY <3>1, News DEF TypeOK, Memory
      <3>3. ToSet(daemon'[d].issues) = ToSet(daemon[d].issues) \cup ToSet(pending)
        BY <3>1, <3>2, Concatenation
      <3> QED
        BY <1>1, <2>2, <2>3, <3>3 DEF Somewhere
    <2>5. CASE ~EmptyPending(d)
      <3>1. UNCHANGED pending
        BY <2>1, <2>5 DEF Becomes, Dies, WritePid, Enter, ReadToDrain, WriteMerged, Launch, EndRun,
       Refresh, Idle, StillIdle, Rests, Leave, DeletePid, Exit, Fatal, Kill
      <3>2. m.issues = daemon[d].issues \/ daemon[d].issues = <<>>
        BY <2>1, <2>5, GoneFacts DEF Becomes, Dies, Same, Keeps, Enter, FreshInv
      <3>3. ToSet(<<>>) = {}
        BY DEF ToSet
      <3> QED
        BY <1>1, <2>2, <2>3, <3>1, <3>2, <3>3 DEF Somewhere
    <2> QED
      BY <2>4, <2>5
  <1>4. ASSUME NEW p \in Pids, Reuse(p)
        PROVE  \A a \in accepted' : \A x \in ToSet(Given[a]) : Somewhere(x)'
    BY <1>1, <1>4 DEF Reuse, Somewhere
  <1>5. CASE UNCHANGED vars
    BY <1>1, <1>5 DEF vars, Somewhere
  <1> QED
    BY <1>2, <1>3, <1>4, <1>5 DEF Next, Commands, CommandStep

LEMMA GivenDistinct ==
    ASSUME GivenOnce
    PROVE  /\ \A c \in Starters \cup Adders : Distinct(Given[c])
           /\ \A a, b \in Adders : a # b => ToSet(Given[a]) \cap ToSet(Given[b]) = {}
  BY DEF GivenOnce, IsInjective, Distinct

LEMMA NothingDistinct == Distinct(<<>>) /\ ToSet(<<>>) = {}
  BY DEF Distinct, ToSet

LEMMA CommandOnce ==
    ASSUME TypeOK, GivenOnce, NoneTwice, NEW c \in Commands, CommandStep(c)
    PROVE  NoneTwice'
  <1>1. PICK n \in Notes : command' = [command EXCEPT ![c] = n] /\ Goes(c, n)
    BY CommandMoves
  <1>2. /\ \A e \in Commands : e # c => command'[e] = command[e]
        /\ command'[c] = n
    BY <1>1, Flying
  <1>3. command[c].at # "done"
    BY <1>1, Flying DEF InFlight, ReadPid
  <1>4. c \notin accepted
    BY <1>3 DEF NoneTwice
  <1>5. \A d \in Daemons : Distinct(daemon'[d].issues) /\ Distinct(daemon'[d].buffer)
    BY CommandsLeaveQueues, NothingDistinct DEF NoneTwice, Undisturbed
  <1>6. Distinct(queueFile'.issues)
    <2>1. CASE c \in Starters /\ WriteQueue(c)
      BY <2>1, GivenDistinct DEF WriteQueue
    <2>2. CASE ~(c \in Starters /\ WriteQueue(c))
      <3>1. UNCHANGED queueFile
        BY <2>2 DEF CommandStep, StartStep, AddStep, StopStep, ReadPid, StartProbe, AddProbe, StopProbe,
           Probe, ResolveFails, ReadPending, AppendPending, AwaitExit, Spawn, Signal
      <3> QED
        BY <3>1 DEF NoneTwice
    <2> QED
      BY <2>1, <2>2
  <1>7. n.read \in {<<>>, command[c].read, pending}
    BY <1>1 DEF Goes
  <1>8. CASE c \in Adders /\ AppendPending(c)
    <2>1. pending' = command[c].read \o Given[c] /\ accepted' = accepted \cup {c} /\ n.at = "done"
      <3>1. Moves(c, "done")
        BY <1>8 DEF AppendPending
      <3> QED
        BY <1>2, <1>8, <3>1 DEF AppendPending, Moves, TypeOK
    <2>2. /\ command[c].read \in Seq(Nat) /\ Distinct(command[c].read)
          /\ ToSet(command[c].read) \subseteq Asked
      BY <1>8 DEF NoneTwice, TypeOK, Notes
    <2>3. Given[c] \in Seq(Nat) /\ Distinct(Given[c])
      BY <1>8, Assumed, GivenDistinct
    <2>4. accepted \subseteq Adders
      BY DEF TypeOK
    <2>5. Asked \cap ToSet(Given[c]) = {}
      BY <1>4, <1>8, <2>4, GivenDistinct DEF Asked
    <2>6. Asked' = Asked \cup ToSet(Given[c])
      BY <2>1 DEF Asked
    <2>7. Distinct(pending') /\ ToSet(pending') \subseteq Asked'
      BY <2>1, <2>2, <2>3, <2>5, <2>6, Concatenation
    <2>8. \A a \in accepted' : command'[a].at = "done"
      BY <1>2, <1>4, <2>1, <2>4 DEF NoneTwice, Commands
    <2>9. \A a \in Adders : Distinct(command'[a].read) /\ ToSet(command'[a].read) \subseteq Asked'
      <3>1. \A a \in Adders : Distinct(command[a].read) /\ ToSet(command[a].read) \subseteq Asked'
        BY <2>6 DEF NoneTwice
      <3>2. Distinct(n.read) /\ ToSet(n.read) \subseteq Asked'
        BY <1>7, <1>8, <2>6, <3>1, NothingDistinct DEF NoneTwice
      <3> QED
        BY <1>2, <3>1, <3>2 DEF Commands
    <2> QED
      BY <1>5, <1>6, <2>7, <2>8, <2>9 DEF NoneTwice
  <1>9. CASE ~(c \in Adders /\ AppendPending(c))
    <2>1. UNCHANGED <<pending, accepted>>
      BY <1>9 DEF CommandStep, StartStep, AddStep, StopStep, ReadPid, StartProbe, AddProbe,
         StopProbe, Probe, ResolveFails, WriteQueue, ReadPending, AwaitExit, Spawn, Signal
    <2>2. Asked' = Asked
      BY <2>1 DEF Asked
    <2>3. \A a \in Adders : Distinct(command'[a].read) /\ ToSet(command'[a].read) \subseteq Asked
      <3>1. c \in Adders => Distinct(n.read) /\ ToSet(n.read) \subseteq Asked
        BY <1>7, NothingDistinct DEF NoneTwice
      <3> QED
        BY <1>2, <3>1 DEF NoneTwice, Commands
    <2>4. \A a \in accepted' : command'[a].at = "done"
      BY <1>2, <1>4, <2>1 DEF NoneTwice, Commands, TypeOK
    <2> QED
      BY <1>5, <1>6, <2>1, <2>2, <2>3, <2>4 DEF NoneTwice
  <1> QED
    BY <1>8, <1>9

LEMMA DaemonOnce ==
    ASSUME TypeOK, NoneTwice, NEW d \in Daemons, DaemonStep(d) \/ Fatal(d) \/ Kill(d)
    PROVE  NoneTwice'
  <1>1. PICK m \in Memory : daemon' = [daemon EXCEPT ![d] = m] /\ (Becomes(d, m) \/ Dies(d, m))
    BY DaemonMoves
  <1>2. /\ \A e \in Daemons : e # d => daemon'[e] = daemon[e]
        /\ daemon'[d] = m
    BY <1>1 DEF TypeOK
  <1>3. UNCHANGED <<command, accepted>>
    BY <1>1 DEF Becomes, Dies, WritePid, Enter, ReadToDrain, EmptyPending, WriteMerged, Launch, EndRun,
       Refresh, Idle, StillIdle, Rests, Leave, DeletePid, Exit, Fatal, Kill
  <1>4. Asked' = Asked
    BY <1>3 DEF Asked
  <1>5. pending' \in {pending, <<>>}
    BY <1>1 DEF Becomes, Dies, WritePid, Enter, ReadToDrain, EmptyPending, WriteMerged, Launch, EndRun,
       Refresh, Idle, StillIdle, Rests, Leave, DeletePid, Exit, Fatal, Kill
  <1>6. queueFile'.issues \in {queueFile.issues, daemon[d].issues}
    <2>1. CASE WriteMerged(d) \/ Refresh(d) \/ Idle(d) \/ StillIdle(d)
      <3>1. queueFile' = InMemory(d)
        BY <2>1 DEF WriteMerged, Refresh, Idle, StillIdle
      <3> QED
        BY <3>1 DEF InMemory
    <2>2. CASE Launch(d)
      <3>1. queueFile' \in {queueFile, InMemory(d)}
        BY <2>2 DEF Launch
      <3> QED
        BY <3>1 DEF InMemory
    <2>3. CASE EndRun(d)
      <3>1. queueFile' = [InMemory(d) EXCEPT !.index = @ + 1]
        BY <2>3 DEF EndRun
      <3> QED
        BY <3>1 DEF InMemory
    <2>4. CASE WritePid(d) \/ Enter(d) \/ ReadToDrain(d) \/ EmptyPending(d) \/ Leave(d)
               \/ DeletePid(d) \/ Exit(d) \/ Fatal(d) \/ Kill(d)
      <3>1. UNCHANGED queueFile
        BY <2>4 DEF WritePid, Enter, ReadToDrain, EmptyPending, Leave, DeletePid, Exit, Fatal, Kill
      <3> QED
        BY <3>1
    <2> QED
      BY <2>1, <2>2, <2>3, <2>4 DEF DaemonStep
  <1>7. m.buffer \in {<<>>, daemon[d].buffer, pending}
    BY <1>1, GoneFacts DEF Becomes, Dies, Same
  <1>8. Distinct(daemon[d].issues \o New(d))
    <2>1. /\ daemon[d].issues \in Seq(Nat) /\ New(d) \in Seq(Nat)
          /\ ToSet(daemon[d].issues) \cap ToSet(New(d)) = {}
          /\ Distinct(New(d)) /\ Distinct(daemon[d].issues)
      BY News DEF TypeOK, Memory, NoneTwice
    <2> QED
      BY <2>1, Concatenation
  <1>9. Distinct(m.issues)
    BY <1>1, <1>8, GoneFacts DEF Becomes, Dies, Same, Keeps, NoneTwice
  <1>10. Distinct(m.buffer)
    BY <1>7, NothingDistinct DEF NoneTwice
  <1> QED
    BY <1>2, <1>3, <1>4, <1>5, <1>6, <1>9, <1>10, NothingDistinct DEF NoneTwice

LEMMA OnceStep ==
    ASSUME TypeOK, OnceInv, [Next]_vars
    PROVE  OnceInv'
  <1> SUFFICES ASSUME GivenOnce
               PROVE  NoneTwice'
    BY DEF OnceInv, GivenOnce
  <1>1. NoneTwice
    BY DEF OnceInv
  <1>2. ASSUME NEW p \in Pids, Reuse(p)
        PROVE  NoneTwice'
    BY <1>1, <1>2 DEF Reuse, NoneTwice, Asked
  <1>3. CASE UNCHANGED vars
    BY <1>1, <1>3 DEF vars, NoneTwice, Asked
  <1> QED
    BY <1>1, <1>2, <1>3, CommandOnce, DaemonOnce DEF Next, Commands, CommandStep

(***************************************************************************)
(* The theorems.                                                           *)
(***************************************************************************)
LEMMA InitInv == Init => Inv
  <1> SUFFICES ASSUME Init
               PROVE  Inv
    OBVIOUS
  <1>1. <<>> \in Seq(Nat)
    OBVIOUS
  <1>2. Unborn \in Memory /\ Unborn.at = "none" /\ Unborn.issues = <<>> /\ Unborn.buffer = <<>>
    BY <1>1 DEF Unborn, Memory, DaemonPlaces, Errands
  <1>3. TypeOK
    <2>1. command \in [Commands -> Notes]
      BY <1>1 DEF Init, Notes, CommandPlaces
    <2>2. queueFile \in Queues
      BY <1>1 DEF Init, Queues
    <2> QED
      BY <1>1, <1>2, <2>1, <2>2 DEF Init, TypeOK
  <1>4. \A d \in Daemons : daemon[d] = Unborn
    BY DEF Init
  <1>5. \A c \in Commands : command[c].at = "ready" /\ command[c].read = <<>>
    BY DEF Init
  <1>6. TableInv /\ FreshInv /\ DoneInv /\ SyncedInv
    BY <1>2, <1>4 DEF TableInv, FreshInv, DoneInv, SyncedInv, OnDisk, Alive
  <1>7. MeetInv
    BY <1>2, <1>4, <1>5 DEF MeetInv, OneByOne, InFlight, Going, Named, Cleared, Commands
  <1>8. KeptInv
    BY DEF Init, KeptInv
  <1>9. NoneTwice
    BY <1>2, <1>4, <1>5, NothingDistinct DEF Init, NoneTwice, Commands
  <1> QED
    BY <1>3, <1>6, <1>7, <1>8, <1>9 DEF Inv, OnceInv

LEMMA InvStep == Inv /\ [Next]_vars => Inv'
  BY TypeStep, TableStep, MeetStep, FreshStep, KeptStep, DoneStep, SyncedStep, OnceStep DEF Inv

LEMMA Invariant == Spec => []Inv
  BY InitInv, InvStep, PTL DEF Spec

\* Unless commands met one another, or met a daemon that had yet to write its
\* PID, no second daemon runs beside the first and the PID file names it: the
\* check in registerStartCommand and isLive's deletions suffice, whatever was
\* killed and whoever took a PID.
THEOREM OnlyOneDaemon == Spec => []OneDaemon
  <1>1. Inv => OneDaemon
    <2> SUFFICES ASSUME Inv, ~crossed
                 PROVE  OneDaemon
      BY DEF OneDaemon
    <2>1. OneByOne
      BY DEF Inv, MeetInv
    <2>2. \A d \in Daemons : Settled(d) => Named(d)
      BY DEF Settled, Named
    <2>3. \A d \in Daemons : Alive(d) /\ daemon[d].at # "exiting" => Going(d)
      BY DEF Alive, Going
    <2> QED
      BY <2>1, <2>2, <2>3 DEF OneDaemon, OneByOne
  <1> QED
    BY <1>1, Invariant, PTL

\* What append reported is in the pending file or has reached a queue, unless
\* the file was written over a change unseen; what a daemon took over is in
\* queue.json before it goes on; runSchedulerQueue does not end, unasked, with
\* a run in flight; and mergePending puts in nothing the queue has.
THEOREM NothingAcceptedIsLost == Spec => []AcceptedIsKept
  <1>1. Inv => AcceptedIsKept
    <2> SUFFICES ASSUME Inv
                 PROVE  AcceptedIsKept
      OBVIOUS
    <2>1. torn \/ \A a \in accepted :
             ToSet(Given[a]) \subseteq
                 ToSet(pending) \cup UNION {ToSet(daemon[d].issues) : d \in Daemons}
      BY DEF Inv, KeptInv, Somewhere
    <2>2. DoneInv /\ SyncedInv
      BY DEF Inv
    <2>3. GivenOnce => \A d \in Daemons : IsInjective(daemon[d].issues)
      BY DEF Inv, OnceInv, NoneTwice, Distinct, IsInjective
    <2>4. \A d \in Daemons :
             daemon[d].at \in {"deleting", "exiting"} /\ ~daemon[d].stop /\ ~daemon[d].failed
                 => daemon[d].flying = 0
      BY <2>2 DEF DoneInv
    <2> QED
      BY <2>1, <2>2, <2>3, <2>4 DEF AcceptedIsKept, SyncedInv
  <1> QED
    BY <1>1, Invariant, PTL
=================================================================================
