------------------------------- MODULE DaemonLife -------------------------------
(***************************************************************************)
(* The life of daemons: `start`, `stop` and `queue add`, the daemon        *)
(* processes they spawn and address, and the three files they share: the   *)
(* PID file, queue.json and the pending file.                              *)
(*                                                                         *)
(* All of them are processes of one machine. A step is one access to a     *)
(* file or to the process table, with the code that follows it up to the   *)
(* next access: nothing locks the files. `start` always writes a scheduler *)
(* section, so that the loop is runSchedulerQueue, reduced to what it does *)
(* with these files and to how it ends: which issue may start, and when    *)
(* none may, is Scheduler's question, and here any answer.                 *)
(***************************************************************************)
EXTENDS Naturals, Sequences, FiniteSets, SequencesExt, Sift

CONSTANTS
    Daemons,        \* daemon processes that may ever be spawned
    Pids,
    Starters,       \* invocations of `start`, `queue add` and `stop`
    Adders,
    Stoppers,
    Given,          \* the issues given to each start and to each add
    MaxRuns,        \* policy.maxConcurrentRuns
    None,
    MaxDeaths,      \* bound on daemons killed, or ended by an error
    MaxReuses       \* bound on PIDs taken by unrelated processes

ASSUME DaemonLifeAssumption ==
    /\ None \notin Pids
    /\ {None, "other"} \cap Daemons = {}
    /\ Starters \cap Adders = {}
    /\ DOMAIN Given = Starters \cup Adders
    /\ \A c \in DOMAIN Given : Given[c] \in Seq(Nat)
    /\ {MaxDeaths, MaxReuses, MaxRuns} \subseteq Nat

VARIABLES
    process,    \* what runs under each PID: a daemon, "other", or None
    pidFile,    \* a PID, or None
    queueFile,  \* what queue.json holds: issues and currentIndex
    pending,    \* the issues of the pending file
    daemon,     \* each daemon's memory
    command,    \* each invocation, and the PID or the pending issues it read
    accepted,   \* invocations of `queue add` that reported success
    torn,       \* the pending file was written over a change unseen
    crossed,    \* commands met one another, or a daemon about to write its PID
    deaths, reuses

vars == <<process, pidFile, queueFile, pending, daemon, command, accepted, torn,
          crossed, deaths, reuses>>

Commands == Starters \cup Adders \cup Stoppers

\* Where a daemon stands: not spawned, spawned, PID written, draining the
\* pending file (read, to be emptied), normalising, launching runs, at the top of
\* its loop, with nothing started after the refresh, idle, about to delete the
\* PID file, about to exit, gone.
DaemonPlaces == {"none", "spawned", "named", "draining", "emptying", "normalising", "launching",
                 "looping", "resting", "idling", "deleting", "exiting", "gone"}
\* What comes before it merges or launches.
Errands == {"start", "race", "refresh", "idle"}
CommandPlaces == {"ready", "probing", "resolving", "appending", "spawning", "signalling",
                  "waiting", "done"}

Unborn == [at |-> "none", pid |-> None, issues |-> <<>>, index |-> 0,
           buffer |-> <<>>, flying |-> 0, refreshed |-> FALSE, idled |-> FALSE,
           errand |-> "start", stop |-> FALSE, failed |-> FALSE]

Init ==
    /\ process = [p \in Pids |-> None]
    /\ pidFile = None
    /\ queueFile = [issues |-> <<>>, index |-> 0]
    /\ pending = <<>>
    /\ daemon = [d \in Daemons |-> Unborn]
    /\ command = [c \in Commands |-> [at |-> "ready", pid |-> None, read |-> <<>>]]
    /\ accepted = {}
    /\ torn = FALSE /\ crossed = FALSE
    /\ deaths = 0 /\ reuses = 0

counters == <<deaths, reuses>>
\* What it has read is not looked at again.
Moves(c, place) == command' = [command EXCEPT ![c] = [at |-> place, pid |-> None, read |-> <<>>]]

\* A process's memory goes with it; the queue it had is for the properties to see.
Gone(d) == [Unborn EXCEPT !.at = "gone", !.issues = daemon[d].issues]

Alive(d) == daemon[d].at \notin {"none", "gone"}
\* Has written its PID and means to go on.
Settled(d) == daemon[d].at \in DaemonPlaces \ {"none", "spawned", "deleting", "exiting", "gone"}
InFlight(c) == command[c].at \notin {"ready", "done"}

(***************************************************************************)
(* isLive, by any command: the PID is read, the process is probed with     *)
(* signal 0, and the file of a dead process is deleted, whatever it holds  *)
(* by then.                                                                *)
(***************************************************************************)
ReadPid(c) ==
    /\ command[c].at = "ready"
    /\ crossed' = (crossed \/ (\E e \in Commands : InFlight(e))
                           \/ (\E d \in Daemons : daemon[d].at = "spawned"))
    /\ command' = [command EXCEPT ![c].at = "probing", ![c].pid = pidFile]
    /\ UNCHANGED <<process, pidFile, queueFile, pending, daemon, accepted, torn, counters>>

InUse == {p \in Pids : process[p] # None}

ProbeFinds(c) == command[c].pid \in InUse

\* Variant, wrong: any error of the probe means that nobody is there, and
\* the live daemon's file is deleted as well (EPERM).
ProbeDeletes(c, live, dead) ==
    /\ command[c].at = "probing"
    /\ Moves(c, IF ProbeFinds(c) THEN live ELSE dead)
    /\ \/ pidFile' = None
       \/ ProbeFinds(c) /\ UNCHANGED pidFile
    /\ UNCHANGED <<process, queueFile, pending, daemon, accepted, torn, crossed, counters>>

Probe(c, live, dead) ==
    /\ command[c].at = "probing"
    /\ Moves(c, IF ProbeFinds(c) THEN live ELSE dead)
    /\ pidFile' = IF command[c].pid # None /\ ~ProbeFinds(c) THEN None ELSE pidFile
    /\ UNCHANGED <<process, queueFile, pending, daemon, accepted, torn, crossed, counters>>

(***************************************************************************)
(* start: refuse if a daemon is live, resolve and verify the issues,       *)
(* write the queue, spawn.                                                 *)
(***************************************************************************)
StartProbe(s) == Probe(s, "done", "resolving")

\* The issues cannot be resolved or verified: that is all.
ResolveFails(c) ==
    /\ command[c].at = "resolving"
    /\ Moves(c, "done")
    /\ UNCHANGED <<process, pidFile, queueFile, pending, daemon, accepted, torn, crossed, counters>>

WriteQueue(s) ==
    /\ command[s].at = "resolving"
    /\ Moves(s, "spawning")
    /\ queueFile' = [issues |-> Given[s], index |-> 0]
    /\ UNCHANGED <<process, pidFile, pending, daemon, accepted, torn, crossed, counters>>

Spawn(s) ==
    /\ command[s].at = "spawning"
    /\ Moves(s, "done")
    /\ \E p \in Pids : LET d == CHOOSE e \in Daemons : daemon[e].at = "none" IN
        /\ \E e \in Daemons : daemon[e].at = "none"
        /\ process[p] = None
        /\ daemon' = [daemon EXCEPT ![d].at = "spawned", ![d].pid = p]
        /\ process' = [process EXCEPT ![p] = d]
    /\ UNCHANGED <<pidFile, queueFile, pending, accepted, torn, crossed, counters>>

(***************************************************************************)
(* queue add: refuse if no daemon is live, resolve the issues, append them *)
(* to the pending file: read it, write it whole.                           *)
(***************************************************************************)
AddProbe(a) == Probe(a, "resolving", "done")

ReadPending(a) ==
    /\ command[a].at = "resolving"
    /\ command' = [command EXCEPT ![a].at = "appending", ![a].read = pending]
    /\ UNCHANGED <<process, pidFile, queueFile, pending, daemon, accepted, torn, crossed, counters>>

AppendPending(a) ==
    /\ command[a].at = "appending"
    /\ Moves(a, "done")
    /\ pending' = command[a].read \o Given[a]
    /\ torn' = (torn \/ pending # command[a].read)
    /\ accepted' = accepted \cup {a}
    /\ UNCHANGED <<process, pidFile, queueFile, daemon, crossed, counters>>

(***************************************************************************)
(* stop: signal the process the PID file names, which is read once more,   *)
(* then wait for it, ten seconds at most. A daemon that has not registered *)
(* its handlers yet dies of the signal.                                    *)
(***************************************************************************)
StopProbe(k) == Probe(k, "signalling", "done")

Signal(k) ==
    LET p == pidFile
    IN  /\ command[k].at = "signalling"
        /\ \/ /\ p \notin InUse                   \* kill() throws
              /\ Moves(k, "done")
              /\ UNCHANGED <<daemon, process>>
           \/ /\ p \in InUse
              /\ command' = [command EXCEPT ![k].at = "waiting", ![k].pid = p]
              /\ IF process[p] = "other" THEN UNCHANGED <<daemon, process>>
                 ELSE LET d == process[p]
                      IN  IF daemon[d].at \in {"spawned", "named"}
                            THEN /\ daemon' = [daemon EXCEPT ![d] = Gone(d)]
                                 /\ process' = [process EXCEPT ![p] = None]
                            ELSE /\ daemon' = [daemon EXCEPT ![d].stop = TRUE]
                                 /\ UNCHANGED process
        /\ UNCHANGED <<pidFile, queueFile, pending, accepted, torn, crossed, counters>>

AwaitExit(k) ==
    /\ command[k].at = "waiting"
    /\ \/ process[command[k].pid] = None /\ Moves(k, "done")
       \/ Moves(k, "done")
    /\ UNCHANGED <<process, pidFile, queueFile, pending, daemon, accepted, torn, crossed, counters>>

(***************************************************************************)
(* The daemon.                                                             *)
(***************************************************************************)
WritePid(d) ==
    /\ daemon[d].at = "spawned"
    /\ pidFile' = daemon[d].pid
    /\ daemon' = [daemon EXCEPT ![d].at = "named"]
    /\ UNCHANGED <<process, queueFile, pending, command, accepted, torn, crossed, counters>>

\* Repository, configuration and adapters are there: handlers registered,
\* queue read, interrupted runs resumed.
Enter(d) ==
    /\ daemon[d].at = "named"
    /\ daemon' = [daemon EXCEPT ![d].at = "draining",
                                ![d].issues = queueFile.issues, ![d].index = queueFile.index]
    /\ UNCHANGED <<process, pidFile, queueFile, pending, command, accepted, torn, crossed, counters>>

\* What start-up or a merge needs cannot be had: nothing catches the error
\* before main does.
Fatal(d) ==
    /\ daemon[d].at \in {"named", "normalising"}
    /\ deaths < MaxDeaths
    /\ deaths' = deaths + 1
    /\ daemon' = [daemon EXCEPT ![d].at = "deleting", ![d].failed = TRUE]
    /\ UNCHANGED <<process, pidFile, queueFile, pending, command, accepted, torn, crossed,
                   reuses>>

ReadToDrain(d) ==
    /\ daemon[d].at = "draining"
    /\ daemon' = [daemon EXCEPT ![d].at = "emptying", ![d].buffer = pending]
    /\ UNCHANGED <<process, pidFile, queueFile, pending, command, accepted, torn, crossed, counters>>

New(d) == Without(daemon[d].buffer, ToSet(daemon[d].issues))

\* A merge in the idle wait goes on with it; any other is followed by a launch.
AfterMerge(d) == IF daemon[d].errand = "idle" THEN "idling" ELSE "launching"

\* Variant, wrong: only what is still to do keeps an issue out; and the queue
\* in memory is left for the write to bring up to date.
EmptyPendingUnqueued(d) ==
    /\ daemon[d].at = "emptying"
    /\ pending' = <<>>
    /\ torn' = (torn \/ pending # daemon[d].buffer)
    /\ daemon' = [daemon EXCEPT ![d].at = IF New(d) = <<>> THEN AfterMerge(d) ELSE "normalising",
                                ![d].buffer = <<>>]
    /\ UNCHANGED <<process, pidFile, queueFile, command, accepted, crossed, counters>>

\* The file is emptied, what is new goes to the queue in memory.
EmptyPending(d) ==
    /\ daemon[d].at = "emptying"
    /\ pending' = <<>>
    /\ torn' = (torn \/ pending # daemon[d].buffer)
    /\ daemon' = [daemon EXCEPT ![d].at = IF New(d) = <<>> THEN AfterMerge(d) ELSE "normalising",
                                ![d].issues = @ \o New(d), ![d].buffer = <<>>]
    /\ UNCHANGED <<process, pidFile, queueFile, command, accepted, crossed, counters>>

InMemory(d) == [issues |-> daemon[d].issues, index |-> daemon[d].index]

WriteMerged(d) ==
    /\ daemon[d].at = "normalising"
    /\ queueFile' = InMemory(d)
    /\ daemon' = [daemon EXCEPT ![d].at = AfterMerge(d)]
    /\ UNCHANGED <<process, pidFile, pending, command, accepted, torn, crossed, counters>>

\* Runs are started, as many as there are slots, or fewer, or none: the others are
\* done, deferred or invalid, or the budget is spent. Each turn of the launch loop
\* writes the same queue. The loop looks for a stop after a run has ended, and
\* gives up when the idle wait brought nothing to start.
Launch(d) ==
    /\ daemon[d].at = "launching"
    /\ \E flying \in daemon[d].flying..MaxRuns :
        /\ flying > daemon[d].flying => daemon[d].index + flying <= Len(daemon[d].issues)
        /\ daemon' = [daemon EXCEPT
                ![d].flying = flying,
                ![d].at = IF \/ daemon[d].errand = "race" /\ daemon[d].stop
                             \/ daemon[d].errand = "idle" /\ flying = 0 THEN "deleting"
                          ELSE IF daemon[d].errand = "refresh" /\ flying = 0 THEN "resting"
                          ELSE "looping"]
    /\ queueFile' = IF daemon[d].flying < MaxRuns THEN InMemory(d) ELSE queueFile
    /\ UNCHANGED <<process, pidFile, pending, command, accepted, torn, crossed, counters>>

\* A run ends, whatever its outcome, and the queue is written: while the loop
\* waits for one to end, or for a merge.
EndRun(d) ==
    /\ daemon[d].at \in {"looping", "draining", "normalising"} /\ daemon[d].flying > 0
    /\ queueFile' = [InMemory(d) EXCEPT !.index = @ + 1]
    /\ daemon' = [daemon EXCEPT
            ![d].at = IF @ = "looping" THEN "draining" ELSE @,
            ![d].errand = IF daemon[d].at = "looping" THEN "race" ELSE @,
            ![d].flying = @ - 1, ![d].index = @ + 1]
    /\ UNCHANGED <<process, pidFile, pending, command, accepted, torn, crossed, counters>>

\* Nothing runs: the dependencies are looked up, once in the daemon's life.
Refresh(d) ==
    /\ daemon[d].at = "looping" /\ daemon[d].flying = 0
    /\ ~daemon[d].stop /\ ~daemon[d].refreshed
    /\ queueFile' = InMemory(d)
    /\ daemon' = [daemon EXCEPT ![d].at = "launching", ![d].refreshed = TRUE,
                                ![d].errand = "refresh"]
    /\ UNCHANGED <<process, pidFile, pending, command, accepted, torn, crossed, counters>>

\* Still nothing: the daemon leaves the loop or, once in its life, waits idle for
\* the pending file. A stop is not looked for after the refresh.
Rests(d) ==
    \/ daemon[d].at = "resting"
    \/ daemon[d].at = "looping" /\ daemon[d].flying = 0 /\ ~daemon[d].stop /\ daemon[d].refreshed

Idle(d) ==
    /\ Rests(d) /\ ~daemon[d].idled
    /\ queueFile' = InMemory(d)
    /\ daemon' = [daemon EXCEPT ![d].at = "draining", ![d].idled = TRUE, ![d].errand = "idle"]
    /\ UNCHANGED <<process, pidFile, pending, command, accepted, torn, crossed, counters>>

\* Merged and refreshed: something can start or the time is over, or it sleeps.
\* A stop does not end the wait.
StillIdle(d) ==
    /\ daemon[d].at = "idling"
    /\ queueFile' = InMemory(d)
    /\ \E place \in {"launching", "draining"} : daemon' = [daemon EXCEPT ![d].at = place]
    /\ UNCHANGED <<process, pidFile, pending, command, accepted, torn, crossed, counters>>

Leave(d) ==
    /\ \/ Rests(d)
       \/ daemon[d].at = "looping" /\ daemon[d].flying = 0 /\ daemon[d].stop
    /\ daemon' = [daemon EXCEPT ![d].at = "deleting"]
    /\ UNCHANGED <<process, pidFile, queueFile, pending, command, accepted, torn, crossed, counters>>

\* Whoever's PID it holds.
DeletePid(d) ==
    /\ daemon[d].at = "deleting"
    /\ pidFile' = None
    /\ daemon' = [daemon EXCEPT ![d].at = "exiting"]
    /\ UNCHANGED <<process, queueFile, pending, command, accepted, torn, crossed, counters>>

Exit(d) ==
    /\ daemon[d].at = "exiting"
    /\ daemon' = [daemon EXCEPT ![d] = Gone(d)]
    /\ process' = [process EXCEPT ![daemon[d].pid] = None]
    /\ UNCHANGED <<pidFile, queueFile, pending, command, accepted, torn, crossed, counters>>

DaemonStep(d) ==
    \/ WritePid(d) \/ Enter(d) \/ ReadToDrain(d) \/ EmptyPending(d) \/ WriteMerged(d)
    \/ Launch(d) \/ EndRun(d) \/ Refresh(d) \/ Idle(d) \/ StillIdle(d) \/ Leave(d)
    \/ DeletePid(d) \/ Exit(d)

(***************************************************************************)
(* The machine: SIGKILL, and PIDs that others take and give back.          *)
(***************************************************************************)
Kill(d) ==
    /\ Alive(d) /\ deaths < MaxDeaths
    /\ deaths' = deaths + 1
    /\ daemon' = [daemon EXCEPT ![d] = Gone(d)]
    /\ process' = [process EXCEPT ![daemon[d].pid] = None]
    /\ UNCHANGED <<pidFile, queueFile, pending, command, accepted, torn, crossed, reuses>>

Reuse(p) ==
    /\ \/ process[p] = None /\ reuses < MaxReuses /\ reuses' = reuses + 1
                            /\ process' = [process EXCEPT ![p] = "other"]
       \/ process[p] = "other" /\ process' = [process EXCEPT ![p] = None] /\ UNCHANGED reuses
    /\ UNCHANGED <<pidFile, queueFile, pending, daemon, command, accepted, torn, crossed, deaths>>

StartStep(s) == ReadPid(s) \/ StartProbe(s) \/ ResolveFails(s) \/ WriteQueue(s) \/ Spawn(s)
AddStep(a)   == ReadPid(a) \/ AddProbe(a) \/ ResolveFails(a) \/ ReadPending(a) \/ AppendPending(a)
StopStep(k)  == ReadPid(k) \/ StopProbe(k) \/ Signal(k) \/ AwaitExit(k)

Next ==
    \/ \E s \in Starters : StartStep(s)
    \/ \E a \in Adders : AddStep(a)
    \/ \E k \in Stoppers : StopStep(k)
    \/ \E d \in Daemons : DaemonStep(d) \/ Fatal(d) \/ Kill(d)
    \/ \E p \in Pids : Reuse(p)

Spec == Init /\ [][Next]_vars

(***************************************************************************)
(* Properties                                                              *)
(***************************************************************************)
\* One daemon at a time, and it can be found: as long as no command met another
\* one, or a daemon that has yet to write its PID, no second daemon runs beside
\* the first, and the PID file names it from writePid to its own delete(),
\* whatever was killed, whoever took a PID, whichever command found a dead one
\* and deleted the file. Commands that do meet may start two
\* (registerStartCommand checks and spawns without a lock).
OneDaemon ==
    crossed \/
        /\ \A d, e \in Daemons :
              d # e => ~(Alive(d) /\ Alive(e) /\ "exiting" \notin {daemon[d].at, daemon[e].at})
        /\ \A d \in Daemons : Settled(d) => pidFile = daemon[d].pid

\* No issue was given twice, other than to a start and to an add.
GivenOnce ==
    /\ \A c \in Starters \cup Adders : IsInjective(Given[c])
    /\ \A a, b \in Adders : a # b => ToSet(Given[a]) \cap ToSet(Given[b]) = {}

\* What the daemon merged or finished is in queue.json again.
OnDisk == {"draining", "emptying", "launching", "looping", "resting", "idling"}

\* What `queue add` reported as queued is in the pending file or has reached
\* the queue of a daemon, unless an append and a drain (or two appends)
\* overlapped on the file. What a daemon took over, and how far it is, is in
\* queue.json before it launches, idles or waits for a run, so that a kill there
\* loses none of it. A daemon that was neither stopped nor failed does not leave
\* its loop while a run is in flight. And an add that repeats what a queue has,
\* done or not, does not put it there again; only repetitions inside one drain do.
AcceptedIsKept ==
    /\ torn \/ \A a \in accepted :
          ToSet(Given[a]) \subseteq
              ToSet(pending) \cup UNION {ToSet(daemon[d].issues) : d \in Daemons}
    /\ crossed \/ \A d \in Daemons : daemon[d].at \in OnDisk => queueFile = InMemory(d)
    /\ \A d \in Daemons :
          daemon[d].at \in {"deleting", "exiting"} /\ ~daemon[d].stop /\ ~daemon[d].failed
              => daemon[d].flying = 0
    /\ GivenOnce => \A d \in Daemons : IsInjective(daemon[d].issues)

=================================================================================
