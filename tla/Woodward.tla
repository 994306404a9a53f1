------------------------------ MODULE Woodward ------------------------------
(***************************************************************************)
(* woodward, the supervisor of douglas's services.  Every interval it goes *)
(* through the services, one after the other: it reads how old a service's *)
(* heartbeat is, counts what was missed and kicks (kills and spawns again) *)
(* a service that missed too many, until too many kicks failed or          *)
(* succeeded in a while; then it gives up for that while and leaves a      *)
(* marker for `douglas status`.                                            *)
(*                                                                         *)
(* Time passes in intervals of woodward's check task; the ages that the    *)
(* code computes from timestamps are counted in intervals, up to the       *)
(* oldest that it can tell apart.  Checks take no time, kicks do: what the *)
(* task's interval missed in the meantime it makes up for at once (tokio's *)
(* MissedTickBehavior::Burst), in module Woodward the rounds that are due. *)
(***************************************************************************)
EXTENDS Integers, Sequences

CONSTANTS
    Services,            \* the services, in the order of the checks
    Pids,                \* bound: the processes of a service that may live at once
    MaxElapsed,          \* the age of a timely heartbeat
    StartupGrace,        \* how long a service that was started or kicked may be silent
    RestartWindow,       \* how long restarts and failed kicks count
    KickTimeout,         \* how long a kick waits for the service it spawned
    MaxMissedHeartbeats, MaxFailedRestarts, MaxKickFailures,
    CounterMax,          \* the largest value of the failure counter (a u8, which wraps)
    MaxMisreads,         \* bound: reads of a heartbeat file that is being written
    MaxFaults,           \* bound: what goes wrong with processes and kicks
    MaxRestarts          \* bound: restarts of woodward

ASSUME WoodwardAssumption ==
    /\ Services \in Seq(STRING) /\ Services # <<>>
    /\ Pids \subseteq Nat \ {0} /\ Pids # {}
    /\ {MaxElapsed, StartupGrace, RestartWindow, KickTimeout} \subseteq Nat
    /\ {MaxMissedHeartbeats, MaxFailedRestarts, MaxKickFailures} \subseteq Nat
    /\ {CounterMax, MaxMisreads, MaxFaults, MaxRestarts} \subseteq Nat
    /\ MaxElapsed < StartupGrace /\ StartupGrace < RestartWindow
    /\ KickTimeout <= RestartWindow /\ MaxMissedHeartbeats < CounterMax

VARIABLES
    proc,       \* the state of each process of a service
    heartbeat,  \* the heartbeat file: the process that wrote it (NoPid: the file is
                \* truncated), and its age
    tally,      \* what woodward remembers of a service
    marker,     \* is there a failure marker of the service
    check,      \* where the check task is
    budget      \* what is left of the bounded events

vars == <<proc, heartbeat, tally, marker, check, budget>>

Names == {Services[i] : i \in 1..Len(Services)}
NoPid == 0
Oldest == RestartWindow + 1
Ages == 0..Oldest
Never == -1
Older(age) == IF age = Never \/ age = Oldest THEN age ELSE age + 1
Exceeds(age, limit) == age # Never /\ age > limit

States == {"none", "starting", "beating", "frozen"}
Live(s) == {p \in Pids : proc[s][p] # "none"}
Beating(s) == {p \in Pids : proc[s][p] = "beating"}
\* A process that has bound its socket, whether it serves it or not.
Listens(s) == \E p \in Pids : proc[s][p] \in {"beating", "frozen"}

NewTally ==
    [failure_count |-> 0, restart_count |-> 0, kick_failures |-> 0,
     last_restart |-> Never, last_kick |-> Never, recovering |-> 0, failure_marked |-> FALSE]

\* check.at: the service of the round that is next (0: the round is over);
\* check.due: the rounds that the interval owes; check.kick: the step of the kick.
First == CHOOSE p \in Pids : TRUE
Init ==
    /\ proc = [s \in Names |-> [p \in Pids |-> IF p = First THEN "beating" ELSE "none"]]
    /\ heartbeat = [s \in Names |-> [pid |-> First, age |-> 0]]
    /\ tally = [s \in Names |-> NewTally]
    /\ marker = [s \in Names |-> FALSE]
    /\ check = [at |-> 0, due |-> 1, kick |-> "none", waited |-> 0]
    /\ budget = [faults |-> MaxFaults, misreads |-> MaxMisreads, restarts |-> MaxRestarts]

Fault == budget.faults > 0 /\ budget' = [budget EXCEPT !.faults = @ - 1]
Misread == budget.misreads > 0 /\ budget' = [budget EXCEPT !.misreads = @ - 1]

-----------------------------------------------------------------------------
(* The tally of a service *)

\* Restarts are forgotten, failed kicks are not.
MutantForever(t) ==
    IF Exceeds(t.last_restart, RestartWindow)
    THEN [t EXCEPT !.restart_count = 0, !.last_restart = Never] ELSE t

\* The counters of what happened too long ago start again.
Forget(t) ==
    LET restarts == IF Exceeds(t.last_restart, RestartWindow)
                    THEN [t EXCEPT !.restart_count = 0, !.last_restart = Never] ELSE t
    IN  IF Exceeds(t.last_kick, RestartWindow)
        THEN [restarts EXCEPT !.kick_failures = 0, !.last_kick = Never] ELSE restarts

\* One restart more than allowed.
MutantOneMore(t) == t.kick_failures >= MaxKickFailures \/ t.restart_count > MaxFailedRestarts + 1

GivenUp(t) == t.kick_failures >= MaxKickFailures \/ t.restart_count > MaxFailedRestarts

\* Missed heartbeats add up however long ago they were.
MutantAddsUp(t) == [t EXCEPT !.kick_failures = 0, !.recovering = Never]

RecordHeartbeat(t) == [t EXCEPT !.failure_count = 0, !.kick_failures = 0, !.recovering = Never]

InGrace(t) == t.recovering # Never /\ ~Exceeds(t.recovering, StartupGrace)

RecordMissedHeartbeat(t) ==
    IF InGrace(t) THEN t ELSE [t EXCEPT !.failure_count = (@ + 1) % (CounterMax + 1)]

NeedsKick(t) == ~InGrace(t) /\ t.failure_count > MaxMissedHeartbeats

RecordKickSuccess(t) ==
    [t EXCEPT !.failure_count = 0, !.kick_failures = 0, !.restart_count = @ + 1,
              !.last_restart = 0, !.last_kick = 0, !.recovering = 0]

RecordKickFailure(t) == [t EXCEPT !.kick_failures = @ + 1, !.last_kick = 0]

-----------------------------------------------------------------------------
(* The check task *)

Checking(s) == check.at > 0 /\ check.kick = "none" /\ s = Services[check.at]
Kicking(s, step) == check.at > 0 /\ check.kick = step /\ s = Services[check.at]
NextService == IF check.at = Len(Services) THEN 0 ELSE check.at + 1
MoveOn == check' = [check EXCEPT !.at = NextService, !.kick = "none", !.waited = 0]

StartRound ==
    /\ check.at = 0 /\ check.due > 0
    /\ check' = [check EXCEPT !.at = 1, !.due = @ - 1]
    /\ UNCHANGED <<proc, heartbeat, tally, marker, budget>>

\* A marker that could not be written is remembered as written.
MutantMarkedFirst(s) ==
    /\ Checking(s) /\ GivenUp(Forget(tally[s]))
    /\ tally' = [tally EXCEPT ![s] = [Forget(@) EXCEPT !.failure_marked = TRUE]]
    /\ \/ /\ marker' = [marker EXCEPT ![s] = @ \/ ~tally[s].failure_marked]
          /\ UNCHANGED budget
       \/ ~tally[s].failure_marked /\ Fault /\ UNCHANGED marker
    /\ MoveOn
    /\ UNCHANGED <<proc, heartbeat>>

\* Writes the marker once; a write that fails is tried again at the next check.
NoteGivenUp(s) ==
    /\ Checking(s) /\ GivenUp(Forget(tally[s]))
    /\ \/ /\ tally' = [tally EXCEPT ![s] = [Forget(@) EXCEPT !.failure_marked = TRUE]]
          /\ marker' = [marker EXCEPT ![s] = @ \/ ~tally[s].failure_marked]
          /\ UNCHANGED budget
       \/ /\ ~tally[s].failure_marked /\ Fault
          /\ tally' = [tally EXCEPT ![s] = Forget(@)]
          /\ UNCHANGED marker
    /\ MoveOn
    /\ UNCHANGED <<proc, heartbeat>>

Timely(s) == heartbeat[s].age <= MaxElapsed

\* A marker that could not be cleared is forgotten.
MutantClearedFirst(s) ==
    /\ Checking(s) /\ ~GivenUp(Forget(tally[s])) /\ Timely(s)
    /\ LET t == RecordHeartbeat(Forget(tally[s])) IN
       /\ tally' = [tally EXCEPT ![s] = [t EXCEPT !.failure_marked = FALSE]]
       /\ \/ marker' = [marker EXCEPT ![s] = @ /\ ~t.failure_marked] /\ UNCHANGED budget
          \/ t.failure_marked /\ Fault /\ UNCHANGED marker
    /\ MoveOn
    /\ UNCHANGED <<proc, heartbeat>>

\* Clears the marker that this woodward wrote; tries again if it cannot.
NoteHeartbeat(s) ==
    /\ Checking(s) /\ ~GivenUp(Forget(tally[s])) /\ Timely(s)
    /\ LET t == RecordHeartbeat(Forget(tally[s])) IN
       \/ /\ tally' = [tally EXCEPT ![s] = [t EXCEPT !.failure_marked = FALSE]]
          /\ marker' = [marker EXCEPT ![s] = @ /\ ~t.failure_marked]
          /\ UNCHANGED budget
       \/ /\ t.failure_marked /\ Fault
          /\ tally' = [tally EXCEPT ![s] = t]
          /\ UNCHANGED marker
    /\ MoveOn
    /\ UNCHANGED <<proc, heartbeat>>

\* A heartbeat that cannot be read, because it is just being written, is missed too.
NoteMissedHeartbeat(s) ==
    /\ Checking(s) /\ ~GivenUp(Forget(tally[s]))
    /\ IF Timely(s) THEN Beating(s) # {} /\ Misread ELSE UNCHANGED budget
    /\ LET t == RecordMissedHeartbeat(Forget(tally[s])) IN
       /\ tally' = [tally EXCEPT ![s] = t]
       /\ IF NeedsKick(t) THEN check' = [check EXCEPT !.kick = "kill"] ELSE MoveOn
    /\ UNCHANGED <<proc, heartbeat, marker>>

-----------------------------------------------------------------------------
(* A kick: the command `douglas kick` on behalf of woodward *)

KickFailed(s) == tally' = [tally EXCEPT ![s] = RecordKickFailure(@)] /\ MoveOn

\* The process that wrote the heartbeat is killed, if it is alive.
KickKill(s) ==
    /\ Kicking(s, "kill") /\ heartbeat[s].pid # NoPid
    /\ proc' = [proc EXCEPT ![s][heartbeat[s].pid] = "none"]
    /\ check' = [check EXCEPT !.kick = "spawn"]
    /\ UNCHANGED <<heartbeat, tally, marker, budget>>

\* That the process of an earlier kick is still starting then is a bounded event.
KickSpawn(s) ==
    /\ Kicking(s, "spawn")
    /\ IF \E p \in Pids : proc[s][p] = "starting" THEN Fault ELSE UNCHANGED budget
    /\ \E p \in Pids \ (Live(s) \cup {heartbeat[s].pid}) :
          proc' = [proc EXCEPT ![s][p] = "starting"]
    /\ check' = [check EXCEPT !.kick = "wait"]
    /\ UNCHANGED <<heartbeat, tally, marker>>

\* The service's socket accepts a connection.
KickSucceeds(s) ==
    /\ Kicking(s, "wait") /\ Listens(s)
    /\ tally' = [tally EXCEPT ![s] = RecordKickSuccess(@)]
    /\ MoveOn
    /\ UNCHANGED <<proc, heartbeat, marker, budget>>

\* Nothing listens in time: what was spawned is dead, or slow (a bounded event).
KickTimesOut(s) ==
    /\ Kicking(s, "wait") /\ ~Listens(s) /\ check.waited >= KickTimeout
    /\ IF Live(s) = {} THEN UNCHANGED budget ELSE Fault
    /\ KickFailed(s)
    /\ UNCHANGED <<proc, heartbeat, marker>>

\* Without a process to kill, the kick does not start one either.
KickHasNoPid(s) ==
    /\ Kicking(s, "kill") /\ heartbeat[s].pid = NoPid
    /\ KickFailed(s)
    /\ UNCHANGED <<proc, heartbeat, marker, budget>>

\* The kick command cannot be run, cannot kill, or cannot spawn.
KickErrs(s) ==
    /\ Kicking(s, "kill") \/ Kicking(s, "spawn")
    /\ Fault
    /\ KickFailed(s)
    /\ UNCHANGED <<proc, heartbeat, marker>>

-----------------------------------------------------------------------------
(* The world of woodward *)

\* An interval passes: only when woodward waits, for the next round or in a kick.
\* A process that beats has written its heartbeat in the meantime.
Tick ==
    /\ \/ check.at = 0 /\ check.due = 0
       \/ check.kick = "wait" /\ check.waited < KickTimeout /\ ~Listens(Services[check.at])
    /\ check' = [check EXCEPT !.due = @ + 1,
                              !.waited = IF check.kick = "wait" THEN @ + 1 ELSE @]
    /\ \E last \in [Names -> Pids] :
          /\ \A s \in Names : Beating(s) # {} => last[s] \in Beating(s)
          /\ heartbeat' = [s \in Names |->
                 IF Beating(s) # {} THEN [pid |-> last[s], age |-> 0]
                 ELSE [heartbeat[s] EXCEPT !.age = Older(@)]]
    /\ tally' = [s \in Names |->
           [tally[s] EXCEPT !.last_restart = Older(@), !.last_kick = Older(@),
                            !.recovering = Older(@)]]
    /\ UNCHANGED <<proc, marker, budget>>

\* A process that was spawned serves its socket and beats.
Ready(s, p) ==
    /\ proc[s][p] = "starting"
    /\ proc' = [proc EXCEPT ![s][p] = "beating"]
    /\ UNCHANGED <<heartbeat, tally, marker, check, budget>>

Freeze(s, p) ==
    /\ proc[s][p] = "beating" /\ Fault
    /\ proc' = [proc EXCEPT ![s][p] = "frozen"]
    /\ UNCHANGED <<heartbeat, tally, marker, check>>

Thaw(s, p) ==
    /\ proc[s][p] = "frozen"
    /\ proc' = [proc EXCEPT ![s][p] = "beating"]
    /\ UNCHANGED <<heartbeat, tally, marker, check, budget>>

Die(s, p) ==
    /\ proc[s][p] # "none" /\ Fault
    /\ proc' = [proc EXCEPT ![s][p] = "none"]
    /\ UNCHANGED <<heartbeat, tally, marker, check>>

\* The process dies between truncating its heartbeat file and writing it.
DieWriting(s, p) ==
    /\ proc[s][p] = "beating" /\ Fault
    /\ proc' = [proc EXCEPT ![s][p] = "none"]
    /\ heartbeat' = [heartbeat EXCEPT ![s] = [pid |-> NoPid, age |-> Oldest]]
    /\ UNCHANGED <<tally, marker, check>>

\* woodward is killed and started again; the kick that it had begun, a process of
\* its own, is lost or comes to its end.
Restart ==
    /\ budget.restarts > 0
    /\ budget' = [budget EXCEPT !.restarts = @ - 1]
    /\ tally' = [s \in Names |-> NewTally]
    /\ check' = [at |-> 0, due |-> 1, kick |-> "none", waited |-> 0]
    /\ \/ UNCHANGED proc
       \/ LET s == Services[check.at]
              old == heartbeat[s].pid IN
          /\ check.kick = "spawn" \/ (check.kick = "kill" /\ old # NoPid)
          /\ \E p \in Pids \ (Live(s) \cup {old}) :
                proc' = [proc EXCEPT ![s] = [@ EXCEPT ![old] = "none", ![p] = "starting"]]
    /\ UNCHANGED <<heartbeat, marker>>

CheckService(s) == NoteGivenUp(s) \/ NoteHeartbeat(s) \/ NoteMissedHeartbeat(s)
Kick(s) ==
    \/ KickKill(s) \/ KickHasNoPid(s) \/ KickErrs(s)
    \/ KickSpawn(s) \/ KickSucceeds(s) \/ KickTimesOut(s)

Next ==
    \/ StartRound \/ Tick \/ Restart
    \/ \E s \in Names : CheckService(s) \/ Kick(s)
    \/ \E s \in Names, p \in Pids : Ready(s, p) \/ Freeze(s, p) \/ Thaw(s, p)
    \/ \E s \in Names, p \in Pids : Die(s, p) \/ DieWriting(s, p)

Spec == Init /\ [][Next]_vars

\* woodward's runtime goes on, time passes, and a service that was spawned gets
\* ready unless it is killed before.
Fairness ==
    /\ WF_vars(StartRound) /\ WF_vars(Tick)
    /\ \A s \in Names : WF_vars(CheckService(s)) /\ WF_vars(Kick(s))
    /\ \A s \in Names, p \in Pids : WF_vars(Ready(s, p))
FairSpec == Spec /\ Fairness

-----------------------------------------------------------------------------
(* Properties *)

TallyType ==
    [failure_count : 0..CounterMax, restart_count : 0..MaxFailedRestarts + 1,
     kick_failures : 0..MaxKickFailures, last_restart : Ages \cup {Never},
     last_kick : Ages \cup {Never}, recovering : Ages \cup {Never}, failure_marked : BOOLEAN]

BudgetType ==
    [faults : 0..MaxFaults, misreads : 0..MaxMisreads, restarts : 0..MaxRestarts]

\* Every variable has its type.  The counters of kicks are bounded: once a service
\* is given up, neither grows before it starts again from zero.
TypeOK ==
    /\ proc \in [Names -> [Pids -> States]]
    /\ heartbeat \in [Names -> [pid : Pids \cup {NoPid}, age : Ages]]
    /\ tally \in [Names -> TallyType]
    /\ marker \in [Names -> BOOLEAN]
    /\ check \in [at : 0..Len(Services), due : Nat,
                  kick : {"none", "kill", "spawn", "wait"}, waited : 0..KickTimeout]
    /\ budget \in BudgetType

\* When woodward remembers that it left a marker, the marker is there.
MarkedOnDisk == \A s \in Names : tally[s].failure_marked => marker[s]

\* While nobody was kicked in the last RestartWindow, the count of a service's missed
\* heartbeats reaches the limit, and the service is killed, only when its heartbeat was
\* seen to be too old at MaxMissedHeartbeats + 1 checks in a row, each an interval after
\* the one before it, or a check found the file truncated.  (A kick takes its time, and
\* the rounds that it delays follow each other at once: they count one late heartbeat of
\* another service several times.)
NoHastyKick ==
    LET s == Services[check.at] IN
    (/\ check.kick = "kill" /\ tally[s].failure_count = MaxMissedHeartbeats + 1
     /\ budget.misreads = MaxMisreads /\ \A o \in Names : tally[o].last_kick = Never)
    => heartbeat[s].age > MaxElapsed + MaxMissedHeartbeats

\* Whatever happens to a service, its heartbeat is timely again and again, unless it
\* died between truncating its heartbeat file and writing it: no kick starts it then.
Torn(s) == heartbeat[s].pid = NoPid /\ Beating(s) = {}
Heals == \A s \in Names : <>[]Torn(s) \/ []<>Timely(s)

\* The marker of a service whose heartbeat is timely does not stay, unless woodward
\* was restarted: it clears the markers that it remembers.
MarkerCleared == \A s \in Names : []<>(marker[s] => ~Timely(s) \/ budget.restarts < MaxRestarts)
=============================================================================
