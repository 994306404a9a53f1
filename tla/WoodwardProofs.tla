--------------------------- MODULE WoodwardProofs ---------------------------
(* What woodward guarantees for any number of services, and any windows.     *)
EXTENDS Woodward, SequenceTheorems, TLAPS

\* A kick is of a service of the round, and of one that is not given up.
KickInHand ==
    check.kick # "none" =>
        /\ check.at > 0
        /\ tally[Services[check.at]].kick_failures < MaxKickFailures
        /\ tally[Services[check.at]].restart_count <= MaxFailedRestarts

Inv == TypeOK /\ KickInHand

\* What the assumptions say of each constant.
LEMMA Bounds ==
    /\ RestartWindow \in Nat /\ KickTimeout \in Nat /\ CounterMax \in Nat
    /\ MaxFailedRestarts \in Nat /\ MaxKickFailures \in Nat
    /\ MaxFaults \in Nat /\ MaxMisreads \in Nat /\ MaxRestarts \in Nat
    /\ First \in Pids /\ Pids \subseteq Nat \ {0}
  BY WoodwardAssumption DEF First

\* There is a service for every place in a round.
LEMMA ServiceOfRound ==
    /\ Len(Services) \in Nat \ {0}
    /\ \A i \in 1..Len(Services) : Services[i] \in Names
<1>1. Len(Services) \in Nat \ {0}
  BY WoodwardAssumption, EmptySeq
<1> QED
  BY <1>1 DEF Names

\* An age that grows stays an age.
LEMMA OlderAge ==
    /\ \A age \in Ages : Older(age) \in Ages
    /\ \A age \in Ages \cup {Never} : Older(age) \in Ages \cup {Never}
  BY Bounds DEF Older, Ages, Oldest, Never

\* Time makes the ages of a tally grow, and nothing else.
LEMMA AgedTally ==
    ASSUME NEW t \in TallyType
    PROVE  LET u == [t EXCEPT !.last_restart = Older(@), !.last_kick = Older(@),
                              !.recovering = Older(@)]
           IN  /\ u \in TallyType
               /\ u.kick_failures = t.kick_failures
               /\ u.restart_count = t.restart_count
               /\ u.failure_marked = t.failure_marked
<1>1. /\ Older(t.last_restart) \in Ages \cup {Never}
      /\ Older(t.last_kick) \in Ages \cup {Never}
      /\ Older(t.recovering) \in Ages \cup {Never}
  BY OlderAge DEF TallyType
<1> QED
  BY <1>1, Zenon DEF TallyType

\* The numbers that a tally starts with.
LEMMA Zeros ==
    /\ 0 \in 0..CounterMax /\ 0 \in 0..MaxFailedRestarts + 1
    /\ 0 \in 0..MaxKickFailures /\ 0 \in Ages \cup {Never}
    /\ Never \in Ages \cup {Never}
  BY Bounds DEF Ages, Oldest

\* Forgetting what happened too long ago keeps a tally a tally, and its marker.
LEMMA ForgetTyped ==
    ASSUME NEW t \in TallyType
    PROVE  /\ Forget(t) \in TallyType
           /\ Forget(t).failure_marked = t.failure_marked
<1> DEFINE r == IF Exceeds(t.last_restart, RestartWindow)
                THEN [t EXCEPT !.restart_count = 0, !.last_restart = Never] ELSE t
<1>1. r \in TallyType /\ r.failure_marked = t.failure_marked
  <2>1. [t EXCEPT !.restart_count = 0, !.last_restart = Never] \in TallyType
    BY Zeros, Zenon DEF TallyType
  <2>2. [t EXCEPT !.restart_count = 0, !.last_restart = Never].failure_marked
          = t.failure_marked
    BY Zenon DEF TallyType
  <2> QED
    BY <2>1, <2>2
<1>2. Forget(t) = IF Exceeds(t.last_kick, RestartWindow)
                  THEN [r EXCEPT !.kick_failures = 0, !.last_kick = Never] ELSE r
  BY DEF Forget
<1> HIDE DEF r
<1>3. [r EXCEPT !.kick_failures = 0, !.last_kick = Never] \in TallyType
  BY <1>1, Zeros, Zenon DEF TallyType
<1>4. [r EXCEPT !.kick_failures = 0, !.last_kick = Never].failure_marked
        = r.failure_marked
  BY <1>1, Zenon DEF TallyType
<1> QED
  BY <1>1, <1>2, <1>3, <1>4

\* A missed heartbeat leaves the counters of kicks alone.
LEMMA MissedTyped ==
    ASSUME NEW t \in TallyType
    PROVE  /\ RecordMissedHeartbeat(t) \in TallyType
           /\ RecordMissedHeartbeat(t).failure_marked = t.failure_marked
           /\ RecordMissedHeartbeat(t).kick_failures = t.kick_failures
           /\ RecordMissedHeartbeat(t).restart_count = t.restart_count
<1>1. (t.failure_count + 1) % (CounterMax + 1) \in 0..CounterMax
  BY Bounds DEF TallyType
<1> QED
  BY <1>1, Zenon DEF RecordMissedHeartbeat, TallyType

\* Remembering or forgetting the marker changes nothing else.
LEMMA MarkTyped ==
    ASSUME NEW t \in TallyType, NEW b \in BOOLEAN
    PROVE  [t EXCEPT !.failure_marked = b] \in TallyType
  BY Zenon DEF TallyType

\* A heartbeat in time clears the counters of failures, and not the marker.
LEMMA HeartbeatTyped ==
    ASSUME NEW t \in TallyType
    PROVE  /\ RecordHeartbeat(t) \in TallyType
           /\ RecordHeartbeat(t).failure_marked = t.failure_marked
           /\ [RecordHeartbeat(t) EXCEPT !.failure_marked = FALSE] \in TallyType
<1>1. RecordHeartbeat(t) \in TallyType
  BY Zeros, Zenon DEF RecordHeartbeat, TallyType
<1>2. RecordHeartbeat(t).failure_marked = t.failure_marked
  BY Zenon DEF RecordHeartbeat, TallyType
<1> QED
  BY <1>1, <1>2, MarkTyped

\* A kick of a service that is not given up keeps its counters in their bounds.
LEMMA KickTyped ==
    ASSUME NEW t \in TallyType, t.kick_failures < MaxKickFailures,
           t.restart_count <= MaxFailedRestarts
    PROVE  /\ RecordKickSuccess(t) \in TallyType
           /\ RecordKickFailure(t) \in TallyType
           /\ RecordKickSuccess(t).failure_marked = t.failure_marked
           /\ RecordKickFailure(t).failure_marked = t.failure_marked
<1>1. /\ t.restart_count + 1 \in 0..MaxFailedRestarts + 1
      /\ t.kick_failures + 1 \in 0..MaxKickFailures
  BY Bounds DEF TallyType
<1>2. RecordKickSuccess(t) \in TallyType
  BY <1>1, Zeros, Zenon DEF RecordKickSuccess, TallyType
<1>3. RecordKickFailure(t) \in TallyType
  BY <1>1, Zeros, Zenon DEF RecordKickFailure, TallyType
<1>4. /\ RecordKickSuccess(t).failure_marked = t.failure_marked
      /\ RecordKickFailure(t).failure_marked = t.failure_marked
  BY Zenon DEF RecordKickSuccess, RecordKickFailure, TallyType
<1> QED
  BY <1>2, <1>3, <1>4

\* The service whose turn it is.
LEMMA InTurn ==
    ASSUME TypeOK
    PROVE  /\ check.at > 0 => Services[check.at] \in Names
           /\ NextService \in 0..Len(Services)
           /\ MoveOn => check' \in [at : 0..Len(Services), due : Nat,
                             kick : {"none", "kill", "spawn", "wait"}, waited : 0..KickTimeout]
           /\ MoveOn => check'.kick = "none"
<1>1. check \in [at : 0..Len(Services), due : Nat,
                 kick : {"none", "kill", "spawn", "wait"}, waited : 0..KickTimeout]
  BY DEF TypeOK
<1>2. check.at > 0 => Services[check.at] \in Names
  BY <1>1, ServiceOfRound
<1>3. NextService \in 0..Len(Services)
  BY <1>1, ServiceOfRound DEF NextService
<1>4. 0 \in 0..KickTimeout
  BY Bounds
<1> QED
  BY <1>1, <1>2, <1>3, <1>4 DEF MoveOn

\* What goes wrong is one of the events that are left.
LEMMA FaultTyped ==
    ASSUME TypeOK, Fault \/ Misread
    PROVE  budget' \in BudgetType
<1>1. budget \in BudgetType /\ MaxFaults \in Nat /\ MaxMisreads \in Nat
  BY Bounds DEF TypeOK
<1>2. CASE Fault
  <2>1. budget.faults - 1 \in 0..MaxFaults
    BY <1>1, <1>2 DEF Fault, BudgetType
  <2>2. budget' = [budget EXCEPT !.faults = budget.faults - 1]
    BY <1>2 DEF Fault
  <2> QED
    BY <1>1, <2>1, <2>2, Zenon DEF BudgetType
<1>3. CASE Misread
  <2>1. budget.misreads - 1 \in 0..MaxMisreads
    BY <1>1, <1>3 DEF Misread, BudgetType
  <2>2. budget' = [budget EXCEPT !.misreads = budget.misreads - 1]
    BY <1>3 DEF Misread
  <2> QED
    BY <1>1, <2>1, <2>2, Zenon DEF BudgetType
<1> QED
  BY <1>2, <1>3

\* What a check of a service does to its tally, and where it leaves the task.
LEMMA CheckPreserves ==
    ASSUME Inv, NEW s \in Names, CheckService(s)
    PROVE  Inv'
<1> DEFINE Check == [at : 0..Len(Services), due : Nat,
                     kick : {"none", "kill", "spawn", "wait"}, waited : 0..KickTimeout]
<1>1. /\ tally \in [Names -> TallyType] /\ tally[s] \in TallyType
      /\ marker \in [Names -> BOOLEAN] /\ check \in Check /\ budget \in BudgetType
  BY DEF Inv, TypeOK
<1>2. UNCHANGED <<proc, heartbeat>>
  BY DEF CheckService, NoteGivenUp, NoteHeartbeat, NoteMissedHeartbeat
<1>3. Forget(tally[s]) \in TallyType
  BY <1>1, ForgetTyped
<1>4. budget' \in BudgetType
  <2>1. UNCHANGED budget \/ Fault \/ Misread
    BY DEF CheckService, NoteGivenUp, NoteHeartbeat, NoteMissedHeartbeat
  <2> QED
    BY <1>1, <2>1, FaultTyped DEF Inv
<1>5. CASE NoteGivenUp(s)
  <2>1. tally' \in [Names -> TallyType]
    <3>1. [Forget(tally[s]) EXCEPT !.failure_marked = TRUE] \in TallyType
      BY <1>3, MarkTyped
    <3>2. \/ tally' = [tally EXCEPT ![s] = [Forget(tally[s]) EXCEPT !.failure_marked = TRUE]]
          \/ tally' = [tally EXCEPT ![s] = Forget(tally[s])]
      BY <1>1, <1>5, Zenon DEF NoteGivenUp
    <3> QED
      BY <1>1, <1>3, <3>1, <3>2, Zenon
  <2>2. marker' \in [Names -> BOOLEAN]
    BY <1>1, <1>5 DEF NoteGivenUp, TallyType
  <2>3. MoveOn
    BY <1>5 DEF NoteGivenUp
  <2>4. check' \in Check /\ check'.kick = "none"
    BY <2>3, InTurn DEF Inv
  <2> QED
    BY <1>1, <1>2, <1>4, <2>1, <2>2, <2>4 DEF Inv, TypeOK, KickInHand
<1>6. CASE NoteHeartbeat(s)
  <2> DEFINE t == RecordHeartbeat(Forget(tally[s]))
  <2>1. tally' \in [Names -> TallyType]
    <3>1. t \in TallyType /\ [t EXCEPT !.failure_marked = FALSE] \in TallyType
      BY <1>3, HeartbeatTyped
    <3>2. \/ tally' = [tally EXCEPT ![s] = [t EXCEPT !.failure_marked = FALSE]]
          \/ tally' = [tally EXCEPT ![s] = t]
      BY <1>6, Zenon DEF NoteHeartbeat
    <3> QED
      BY <1>1, <3>1, <3>2, Zenon
  <2>2. marker' \in [Names -> BOOLEAN]
    BY <1>1, <1>6 DEF NoteHeartbeat
  <2>3. MoveOn
    BY <1>6 DEF NoteHeartbeat
  <2>4. check' \in Check /\ check'.kick = "none"
    BY <2>3, InTurn DEF Inv
  <2> QED
    BY <1>1, <1>2, <1>4, <2>1, <2>2, <2>4 DEF Inv, TypeOK, KickInHand
<1>7. CASE NoteMissedHeartbeat(s)
  <2> DEFINE t == RecordMissedHeartbeat(Forget(tally[s]))
  <2>1. /\ t \in TallyType
        /\ t.kick_failures = Forget(tally[s]).kick_failures
        /\ t.restart_count = Forget(tally[s]).restart_count
    BY <1>3, MissedTyped
  <2>2. /\ tally' = [tally EXCEPT ![s] = t]
        /\ check' = [check EXCEPT !.kick = "kill"] \/ MoveOn
        /\ Checking(s) /\ ~GivenUp(Forget(tally[s]))
        /\ UNCHANGED marker
    BY <1>7, Zenon DEF NoteMissedHeartbeat
  <2> HIDE DEF t
  <2>3. tally' \in [Names -> TallyType] /\ tally'[s] = t
    BY <1>1, <2>1, <2>2, Zenon
  <2>4. t.kick_failures < MaxKickFailures /\ t.restart_count <= MaxFailedRestarts
    BY <1>3, <2>1, <2>2, Bounds DEF GivenUp, TallyType
  <2>5. CASE MoveOn
    <3>1. check' \in Check /\ check'.kick = "none"
      BY <2>5, InTurn DEF Inv
    <3> QED
      BY <1>1, <1>2, <1>4, <2>2, <2>3, <3>1 DEF Inv, TypeOK, KickInHand
  <2>6. CASE check' = [check EXCEPT !.kick = "kill"]
    <3>1. check' \in Check /\ check'.at = check.at
      BY <1>1, <2>6
    <3>2. check'.at > 0 /\ s = Services[check'.at]
      BY <2>2, <3>1 DEF Checking
    <3>3. KickInHand'
      BY <2>3, <2>4, <3>2 DEF KickInHand
    <3> QED
      BY <1>1, <1>2, <1>4, <2>2, <2>3, <3>1, <3>3 DEF Inv, TypeOK
  <2> QED
    BY <2>2, <2>5, <2>6
<1> QED
  BY <1>5, <1>6, <1>7 DEF CheckService

\* A step of a kick keeps the tally in its bounds, because a kick that is begun is
\* of a service that is not given up.
LEMMA KickPreserves ==
    ASSUME Inv, NEW s \in Names, Kick(s)
    PROVE  Inv'
<1> DEFINE Check == [at : 0..Len(Services), due : Nat,
                     kick : {"none", "kill", "spawn", "wait"}, waited : 0..KickTimeout]
<1>1. /\ tally \in [Names -> TallyType] /\ tally[s] \in TallyType
      /\ heartbeat[s].pid \in Pids \cup {NoPid}
      /\ proc \in [Names -> [Pids -> States]] /\ proc[s] \in [Pids -> States]
      /\ check \in Check /\ budget \in BudgetType
  BY DEF Inv, TypeOK
<1>2. UNCHANGED <<heartbeat, marker>>
  BY DEF Kick, KickKill, KickSpawn, KickSucceeds, KickTimesOut, KickHasNoPid, KickErrs
<1>3. budget' \in BudgetType
  <2>1. UNCHANGED budget \/ Fault
    BY DEF Kick, KickKill, KickSpawn, KickSucceeds, KickTimesOut, KickHasNoPid, KickErrs
  <2> QED
    BY <1>1, <2>1, FaultTyped DEF Inv
<1>4. s = Services[check.at] /\ check.kick # "none"
  BY DEF Kick, KickKill, KickSpawn, KickSucceeds, KickTimesOut, KickHasNoPid, KickErrs,
         Kicking
<1>5. /\ check.at > 0
      /\ RecordKickSuccess(tally[s]) \in TallyType
      /\ RecordKickFailure(tally[s]) \in TallyType
  BY <1>1, <1>4, KickTyped DEF Inv, KickInHand
<1>6. ASSUME NEW step \in {"spawn", "wait"}, NEW p \in Pids, NEW q \in States,
             proc' = [proc EXCEPT ![s] = [proc[s] EXCEPT ![p] = q]],
             check' = [check EXCEPT !.kick = step], UNCHANGED tally
      PROVE  Inv'
  <2>1. proc' \in [Names -> [Pids -> States]]
    BY <1>1, <1>6, Zenon
  <2>2. check' \in Check /\ check'.at = check.at
    BY <1>1, <1>6
  <2> QED
    BY <1>1, <1>2, <1>3, <1>4, <1>6, <2>1, <2>2 DEF Inv, TypeOK, KickInHand
<1>7. ASSUME NEW t \in TallyType, tally' = [tally EXCEPT ![s] = t], MoveOn, UNCHANGED proc
      PROVE  Inv'
  <2>1. tally' \in [Names -> TallyType]
    BY <1>1, <1>7, Zenon
  <2>2. check' \in Check /\ check'.kick = "none"
    BY <1>7, InTurn DEF Inv
  <2> QED
    BY <1>1, <1>2, <1>3, <1>7, <2>1, <2>2 DEF Inv, TypeOK, KickInHand
<1>8. CASE KickKill(s)
  <2>1. heartbeat[s].pid \in Pids /\ "none" \in States
    BY <1>1, <1>8 DEF KickKill, States
  <2>2. proc' = [proc EXCEPT ![s] = [proc[s] EXCEPT ![heartbeat[s].pid] = "none"]]
    BY <1>1, <1>8, Zenon DEF KickKill
  <2>3. check' = [check EXCEPT !.kick = "spawn"] /\ UNCHANGED tally
    BY <1>8 DEF KickKill
  <2> QED
    BY <1>6, <2>1, <2>2, <2>3
<1>9. CASE KickSpawn(s)
  <2>1. PICK p \in Pids : proc' = [proc EXCEPT ![s][p] = "starting"]
    BY <1>9, Zenon DEF KickSpawn
  <2>2. proc' = [proc EXCEPT ![s] = [proc[s] EXCEPT ![p] = "starting"]]
    BY <1>1, <2>1, Zenon
  <2>3. check' = [check EXCEPT !.kick = "wait"] /\ UNCHANGED tally
    BY <1>9 DEF KickSpawn
  <2>4. "starting" \in States
    BY DEF States
  <2> QED
    BY <1>6, <2>2, <2>3, <2>4
<1>10. CASE KickSucceeds(s)
  BY <1>1, <1>5, <1>7, <1>10, Zenon DEF KickSucceeds
<1>11. CASE KickTimesOut(s) \/ KickHasNoPid(s) \/ KickErrs(s)
  <2>1. KickFailed(s) /\ UNCHANGED proc
    BY <1>11 DEF KickTimesOut, KickHasNoPid, KickErrs
  <2> QED
    BY <1>1, <1>5, <1>7, <2>1, Zenon DEF KickFailed
<1> QED
  BY <1>8, <1>9, <1>10, <1>11 DEF Kick

\* Time makes ages grow; a kick is waited for no longer than its timeout.
LEMMA TickPreserves ==
    ASSUME Inv, Tick
    PROVE  Inv'
<1>1. /\ tally \in [Names -> TallyType]
      /\ heartbeat \in [Names -> [pid : Pids \cup {NoPid}, age : Ages]]
  BY DEF Inv, TypeOK
<1>2. tally' = [s \in Names |->
          [tally[s] EXCEPT !.last_restart = Older(@), !.last_kick = Older(@),
                           !.recovering = Older(@)]]
  BY DEF Tick
<1>3. \A s \in Names : /\ tally'[s] \in TallyType
                       /\ tally'[s].kick_failures = tally[s].kick_failures
                       /\ tally'[s].restart_count = tally[s].restart_count
  BY <1>1, <1>2, AgedTally, Zenon
<1>4. tally' \in [Names -> TallyType]
  BY <1>2, <1>3, Zenon
<1>5. heartbeat' \in [Names -> [pid : Pids \cup {NoPid}, age : Ages]]
  <2>1. PICK last \in [Names -> Pids] :
            heartbeat' = [s \in Names |->
                IF Beating(s) # {} THEN [pid |-> last[s], age |-> 0]
                ELSE [heartbeat[s] EXCEPT !.age = Older(@)]]
    BY DEF Tick
  <2>2. 0 \in Ages
    BY Bounds DEF Ages, Oldest
  <2>3. ASSUME NEW s \in Names
        PROVE  [heartbeat[s] EXCEPT !.age = Older(@)] \in [pid : Pids \cup {NoPid}, age : Ages]
    <3>1. Older(heartbeat[s].age) \in Ages
      BY <1>1, OlderAge
    <3> QED
      BY <1>1, <3>1, Zenon
  <2> QED
    BY <2>1, <2>2, <2>3
<1>6. /\ check' \in [at : 0..Len(Services), due : Nat,
                     kick : {"none", "kill", "spawn", "wait"}, waited : 0..KickTimeout]
      /\ check'.at = check.at /\ check'.kick = check.kick
  <2>1. check \in [at : 0..Len(Services), due : Nat,
                   kick : {"none", "kill", "spawn", "wait"}, waited : 0..KickTimeout]
    BY DEF Inv, TypeOK
  <2>2. check.kick = "wait" => check.waited + 1 \in 0..KickTimeout
    <3>1. check.at = 0 \/ check.waited < KickTimeout
      BY DEF Tick
    <3>2. check.kick # "none" => check.at > 0
      BY DEF Inv, KickInHand
    <3> QED
      BY <2>1, <3>1, <3>2, Bounds
  <2>3. check.due + 1 \in Nat
    BY <2>1
  <2> DEFINE waited == IF check.kick = "wait" THEN check.waited + 1 ELSE check.waited
  <2>4. check' = [check EXCEPT !.due = check.due + 1, !.waited = waited]
    BY <2>1, Zenon DEF Tick
  <2>5. waited \in 0..KickTimeout
    BY <2>1, <2>2
  <2> HIDE DEF waited
  <2> QED
    BY <2>1, <2>3, <2>4, <2>5, Zenon
<1>7. UNCHANGED <<proc, marker, budget>>
  BY DEF Tick
<1>8. TypeOK'
  BY <1>4, <1>5, <1>6, <1>7 DEF Inv, TypeOK
<1>9. KickInHand'
  <2>1. check.at > 0 => Services[check.at] \in Names
    BY InTurn DEF Inv
  <2> QED
    BY <1>3, <1>6, <2>1 DEF Inv, KickInHand
<1> QED
  BY <1>8, <1>9 DEF Inv

\* What happens to the processes does not concern woodward's memory.
LEMMA WorldPreserves ==
    ASSUME Inv, NEW s \in Names, NEW p \in Pids,
           Ready(s, p) \/ Freeze(s, p) \/ Thaw(s, p) \/ Die(s, p) \/ DieWriting(s, p)
    PROVE  Inv'
<1>1. UNCHANGED <<tally, marker, check>>
  BY DEF Ready, Freeze, Thaw, Die, DieWriting
<1>2. proc' \in [Names -> [Pids -> States]]
  <2>1. PICK q \in States : proc' = [proc EXCEPT ![s][p] = q]
    BY DEF Ready, Freeze, Thaw, Die, DieWriting, States
  <2>2. proc \in [Names -> [Pids -> States]]
    BY DEF Inv, TypeOK
  <2> QED
    BY <2>1, <2>2, Zenon
<1>3. heartbeat' \in [Names -> [pid : Pids \cup {NoPid}, age : Ages]]
  <2>1. heartbeat \in [Names -> [pid : Pids \cup {NoPid}, age : Ages]]
    BY DEF Inv, TypeOK
  <2>2. [pid |-> NoPid, age |-> Oldest] \in [pid : Pids \cup {NoPid}, age : Ages]
    BY Bounds DEF Ages, Oldest
  <2>3. \/ UNCHANGED heartbeat
        \/ heartbeat' = [heartbeat EXCEPT ![s] = [pid |-> NoPid, age |-> Oldest]]
    BY DEF Ready, Freeze, Thaw, Die, DieWriting
  <2> QED
    BY <2>1, <2>2, <2>3, Zenon
<1>4. budget' \in BudgetType
  <2>1. UNCHANGED budget \/ Fault
    BY DEF Ready, Freeze, Thaw, Die, DieWriting
  <2> QED
    BY <2>1, FaultTyped DEF Inv, TypeOK
<1> QED
  BY <1>1, <1>2, <1>3, <1>4 DEF Inv, TypeOK, KickInHand

\* A tally and a task that begin.
LEMMA Beginning ==
    /\ NewTally \in TallyType /\ ~NewTally.failure_marked
    /\ [at |-> 0, due |-> 1, kick |-> "none", waited |-> 0]
         \in [at : 0..Len(Services), due : Nat,
              kick : {"none", "kill", "spawn", "wait"}, waited : 0..KickTimeout]
<1>1. 0 \in 0..Len(Services) /\ 0 \in 0..KickTimeout
  BY Bounds, ServiceOfRound
<1> QED
  BY <1>1, Zeros DEF NewTally, TallyType

\* The invariant holds in the beginning.
LEMMA InitTyped == Init => Inv
<1> SUFFICES ASSUME Init PROVE Inv
  OBVIOUS
<1>1. tally \in [Names -> TallyType] /\ marker \in [Names -> BOOLEAN]
  BY Beginning DEF Init
<1>2. 0 \in Ages /\ "none" \in States /\ "beating" \in States
  BY Bounds DEF Ages, Oldest, States
<1>3. proc \in [Names -> [Pids -> States]]
  BY <1>2 DEF Init
<1>4. heartbeat \in [Names -> [pid : Pids \cup {NoPid}, age : Ages]]
  BY <1>2, Bounds DEF Init
<1>5. budget \in BudgetType
  BY Bounds DEF Init, BudgetType
<1>6. check \in [at : 0..Len(Services), due : Nat,
                kick : {"none", "kill", "spawn", "wait"}, waited : 0..KickTimeout]
  <2>1. check = [at |-> 0, due |-> 1, kick |-> "none", waited |-> 0]
    BY DEF Init
  <2> QED
    BY <2>1, Beginning, Zenon
<1>7. TypeOK
  BY <1>1, <1>3, <1>4, <1>5, <1>6 DEF TypeOK
<1>8. KickInHand
  BY DEF Init, KickInHand
<1> QED
  BY <1>7, <1>8 DEF Inv

\* A restart of woodward begins from nothing, whatever the kick it leaves does.
LEMMA RestartPreserves ==
    ASSUME Inv, Restart
    PROVE  Inv'
<1>1. tally' \in [Names -> TallyType]
  BY Beginning DEF Restart
<1>2. budget' \in BudgetType
  <2>1. budget \in BudgetType /\ MaxRestarts \in Nat
    BY Bounds DEF Inv, TypeOK
  <2>2. budget.restarts - 1 \in 0..MaxRestarts
    BY <2>1 DEF Restart, BudgetType
  <2>3. budget' = [budget EXCEPT !.restarts = budget.restarts - 1]
    BY DEF Restart
  <2> QED
    BY <2>1, <2>2, <2>3, Zenon DEF BudgetType
<1>3. UNCHANGED <<heartbeat, marker>>
  BY DEF Restart
<1>4. check' = [at |-> 0, due |-> 1, kick |-> "none", waited |-> 0]
  BY DEF Restart
<1>5. proc' \in [Names -> [Pids -> States]]
  <2>1. proc \in [Names -> [Pids -> States]] /\ "none" \in States /\ "starting" \in States
    BY DEF Inv, TypeOK, States
  <2>2. CASE UNCHANGED proc
    BY <2>1, <2>2
  <2>3. CASE ~UNCHANGED proc
    <3> DEFINE s == Services[check.at]
    <3>1. PICK p \in Pids :
              proc' = [proc EXCEPT ![s] = [@ EXCEPT ![heartbeat[s].pid] = "none",
                                                    ![p] = "starting"]]
      BY <2>3, Zenon DEF Restart
    <3>2. check.kick # "none"
      BY <2>3 DEF Restart
    <3>3. s \in Names
      BY <3>2, InTurn DEF Inv, KickInHand
    <3>4. proc[s] \in [Pids -> States]
      BY <2>1, <3>3
    <3>5. [proc[s] EXCEPT ![heartbeat[s].pid] = "none", ![p] = "starting"] \in [Pids -> States]
      BY <2>1, <3>4, Zenon
    <3> QED
      BY <2>1, <3>1, <3>3, <3>5, Zenon
  <2> QED
    BY <2>2, <2>3
<1> QED
  BY <1>1, <1>2, <1>3, <1>4, <1>5, Beginning DEF Inv, TypeOK, KickInHand

\* A round begins with the first service and no kick.
LEMMA StartRoundPreserves ==
    ASSUME Inv, StartRound
    PROVE  Inv'
<1>1. check \in [at : 0..Len(Services), due : Nat,
                 kick : {"none", "kill", "spawn", "wait"}, waited : 0..KickTimeout]
  BY DEF Inv, TypeOK
<1>2. check.kick = "none"
  BY <1>1 DEF Inv, KickInHand, StartRound
<1>3. 1 \in 0..Len(Services) /\ check.due - 1 \in Nat
  BY <1>1, ServiceOfRound DEF StartRound
<1>4. check' = [check EXCEPT !.at = 1, !.due = check.due - 1]
  BY <1>1, Zenon DEF StartRound
<1>5. /\ check' \in [at : 0..Len(Services), due : Nat,
                     kick : {"none", "kill", "spawn", "wait"}, waited : 0..KickTimeout]
      /\ check'.kick = "none"
  BY <1>1, <1>2, <1>3, <1>4, Zenon
<1> QED
  BY <1>5 DEF StartRound, Inv, TypeOK, KickInHand

\* Every step of woodward and of its services keeps the invariant.
LEMMA NextPreserves == Inv /\ [Next]_vars => Inv'
<1> SUFFICES ASSUME Inv, [Next]_vars PROVE Inv'
  OBVIOUS
<1>1. CASE UNCHANGED vars
  BY <1>1 DEF vars, Inv, TypeOK, KickInHand
<1>2. CASE Next
  BY <1>2, StartRoundPreserves, TickPreserves, RestartPreserves, CheckPreserves,
     KickPreserves, WorldPreserves, Zenon DEF Next
<1> QED
  BY <1>1, <1>2

\* Woodward's variables keep their types: the counters of failed kicks and of
\* restarts never exceed what makes woodward give up, for any number of services,
\* although nothing but the order of its checks keeps them from it.
THEOREM TypeCorrect == Spec => []TypeOK
<1>1. Inv => TypeOK
  BY DEF Inv
<1> QED
  BY <1>1, InitTyped, NextPreserves, PTL DEF Spec

\* What a kick and the time do to tallies leaves what they remember of markers.
LEMMA MarksKept ==
    ASSUME Inv, Tick \/ \E s \in Names : Kick(s)
    PROVE  /\ UNCHANGED marker
           /\ \A s \in Names : tally'[s].failure_marked = tally[s].failure_marked
<1>1. tally \in [Names -> TallyType]
  BY DEF Inv, TypeOK
<1>2. CASE Tick
  <2>1. tally' = [s \in Names |->
            [tally[s] EXCEPT !.last_restart = Older(@), !.last_kick = Older(@),
                             !.recovering = Older(@)]]
    BY <1>2 DEF Tick
  <2>2. \A s \in Names : tally'[s].failure_marked = tally[s].failure_marked
    BY <1>1, <2>1, AgedTally, Zenon
  <2> QED
    BY <1>2, <2>2 DEF Tick
<1>3. ASSUME NEW s \in Names, Kick(s)
      PROVE  /\ UNCHANGED marker
             /\ \A r \in Names : tally'[r].failure_marked = tally[r].failure_marked
  <2>1. UNCHANGED marker
    BY <1>3 DEF Kick, KickKill, KickSpawn, KickSucceeds, KickTimesOut, KickHasNoPid, KickErrs
  <2>2. s = Services[check.at] /\ check.kick # "none"
    BY <1>3 DEF Kick, KickKill, KickSpawn, KickSucceeds, KickTimesOut, KickHasNoPid,
                KickErrs, Kicking
  <2>3. /\ RecordKickSuccess(tally[s]).failure_marked = tally[s].failure_marked
        /\ RecordKickFailure(tally[s]).failure_marked = tally[s].failure_marked
    BY <1>1, <2>2, KickTyped DEF Inv, KickInHand
  <2>4. \/ UNCHANGED tally
        \/ tally' = [tally EXCEPT ![s] = RecordKickSuccess(tally[s])]
        \/ tally' = [tally EXCEPT ![s] = RecordKickFailure(tally[s])]
    BY <1>1, <1>3, Zenon DEF Kick, KickKill, KickSpawn, KickSucceeds, KickTimesOut,
                             KickHasNoPid, KickErrs, KickFailed
  <2>5. \A r \in Names : tally'[r].failure_marked = tally[r].failure_marked
    BY <1>1, <2>3, <2>4, Zenon
  <2> QED
    BY <2>1, <2>5
<1> QED
  BY <1>2, <1>3

\* A check changes what is remembered of a marker only together with the marker.
LEMMA CheckKeepsMarked ==
    ASSUME Inv, MarkedOnDisk, NEW s \in Names, CheckService(s)
    PROVE  MarkedOnDisk'
<1>1. tally \in [Names -> TallyType] /\ tally[s] \in TallyType
      /\ marker \in [Names -> BOOLEAN] /\ marker[s] \in BOOLEAN
  BY DEF Inv, TypeOK
<1>2. tally[s].failure_marked \in BOOLEAN /\ (tally[s].failure_marked => marker[s])
  BY <1>1 DEF MarkedOnDisk, TallyType
<1>3. /\ Forget(tally[s]) \in TallyType
      /\ Forget(tally[s]).failure_marked = tally[s].failure_marked
  BY <1>1, ForgetTyped
<1>4. ASSUME NEW t \in TallyType, NEW m \in BOOLEAN,
             tally' = [tally EXCEPT ![s] = t], marker' = [marker EXCEPT ![s] = m],
             t.failure_marked => m
      PROVE  MarkedOnDisk'
  <2> SUFFICES ASSUME NEW r \in Names, tally'[r].failure_marked
               PROVE  marker'[r]
    BY DEF MarkedOnDisk
  <2>1. CASE r = s
    BY <1>1, <1>4, <2>1, Zenon
  <2>2. CASE r # s
    <3>1. tally'[r] = tally[r] /\ marker'[r] = marker[r]
      BY <1>1, <1>4, <2>2, Zenon
    <3> QED
      BY <3>1, Zenon DEF MarkedOnDisk
  <2> QED
    BY <2>1, <2>2
<1>5. marker = [marker EXCEPT ![s] = marker[s]]
  BY <1>1, Zenon
<1>6. CASE NoteGivenUp(s)
  <2> DEFINE t == [Forget(tally[s]) EXCEPT !.failure_marked = TRUE]
  <2>1. t \in TallyType
    BY <1>3, MarkTyped
  <2>2. CASE /\ tally' = [tally EXCEPT ![s] = t]
             /\ marker' = [marker EXCEPT ![s] = @ \/ ~tally[s].failure_marked]
    <3>1. marker' = [marker EXCEPT ![s] = marker[s] \/ ~tally[s].failure_marked]
      BY <1>1, <2>2, Zenon
    <3>2. marker[s] \/ ~tally[s].failure_marked
      BY <1>2
    <3> QED
      BY <1>4, <2>1, <2>2, <3>1, <3>2, Zenon
  <2>3. CASE tally' = [tally EXCEPT ![s] = Forget(tally[s])] /\ UNCHANGED marker
    BY <1>1, <1>2, <1>3, <1>4, <1>5, <2>3, Zenon
  <2> QED
    BY <1>1, <1>6, <2>2, <2>3, Zenon DEF NoteGivenUp
<1>7. CASE NoteHeartbeat(s)
  <2> DEFINE t == RecordHeartbeat(Forget(tally[s]))
             u == [t EXCEPT !.failure_marked = FALSE]
  <2>1. t \in TallyType /\ u \in TallyType /\ t.failure_marked = tally[s].failure_marked
    BY <1>3, HeartbeatTyped
  <2>2. ~u.failure_marked
    BY <2>1, Zenon DEF TallyType
  <2>3. \/ /\ tally' = [tally EXCEPT ![s] = u]
           /\ marker' = [marker EXCEPT ![s] = @ /\ ~t.failure_marked]
        \/ tally' = [tally EXCEPT ![s] = t] /\ UNCHANGED marker
    BY <1>7, Zenon DEF NoteHeartbeat
  <2> HIDE DEF t, u
  <2>4. CASE /\ tally' = [tally EXCEPT ![s] = u]
             /\ marker' = [marker EXCEPT ![s] = @ /\ ~t.failure_marked]
    <3>1. marker' = [marker EXCEPT ![s] = marker[s] /\ ~t.failure_marked]
      BY <1>1, <2>4, Zenon
    <3>2. (marker[s] /\ ~t.failure_marked) \in BOOLEAN
      BY <1>1, <1>2, <2>1
    <3> QED
      BY <1>4, <2>1, <2>2, <2>4, <3>1, <3>2, Zenon
  <2>5. CASE tally' = [tally EXCEPT ![s] = t] /\ UNCHANGED marker
    BY <1>1, <1>2, <1>4, <1>5, <2>1, <2>5, Zenon
  <2> QED
    BY <2>3, <2>4, <2>5
<1>8. CASE NoteMissedHeartbeat(s)
  <2>1. /\ RecordMissedHeartbeat(Forget(tally[s])) \in TallyType
        /\ RecordMissedHeartbeat(Forget(tally[s])).failure_marked = tally[s].failure_marked
    BY <1>3, MissedTyped
  <2>2. /\ tally' = [tally EXCEPT ![s] = RecordMissedHeartbeat(Forget(tally[s]))]
        /\ UNCHANGED marker
    BY <1>8, Zenon DEF NoteMissedHeartbeat
  <2> QED
    BY <1>1, <1>2, <1>4, <1>5, <2>1, <2>2, Zenon
<1> QED
  BY <1>6, <1>7, <1>8 DEF CheckService

\* Whatever fails, dies or is started again in the meantime: a marker that woodward
\* remembers having written is on the disk, where `douglas status` looks for it.
THEOREM MarkedCorrect == Spec => []MarkedOnDisk
<1>1. Init => MarkedOnDisk
  BY Beginning DEF Init, MarkedOnDisk
<1>2. Inv /\ MarkedOnDisk /\ [Next]_vars => MarkedOnDisk'
  <2> SUFFICES ASSUME Inv, MarkedOnDisk, [Next]_vars PROVE MarkedOnDisk'
    OBVIOUS
  <2>1. CASE UNCHANGED vars
    BY <2>1 DEF vars, MarkedOnDisk
  <2>2. CASE StartRound
    BY <2>2 DEF StartRound, MarkedOnDisk
  <2>3. CASE Tick \/ \E s \in Names : Kick(s)
    BY <2>3, MarksKept DEF MarkedOnDisk
  <2>4. CASE Restart
    BY <2>4, Beginning DEF Restart, MarkedOnDisk
  <2>5. CASE \E s \in Names : CheckService(s)
    BY <2>5, CheckKeepsMarked
  <2>6. CASE \E s \in Names, p \in Pids :
                Ready(s, p) \/ Freeze(s, p) \/ Thaw(s, p) \/ Die(s, p) \/ DieWriting(s, p)
    <3>1. UNCHANGED <<tally, marker>>
      BY <2>6 DEF Ready, Freeze, Thaw, Die, DieWriting
    <3> QED
      BY <3>1 DEF MarkedOnDisk
  <2> QED
    BY <2>1, <2>2, <2>3, <2>4, <2>5, <2>6, Zenon DEF Next
<1> QED
  BY <1>1, <1>2, InitTyped, NextPreserves, PTL DEF Spec
-----------------------------------------------------------------------------
(* When woodward kicks: the rounds that it owes, and those that a kick delayed *)

\* Every service is checked once in a round, and the code's numbers: a restart counts
\* for longer than a service takes to be missed.
OneEach ==
    /\ \A i, j \in 1..Len(Services) : Services[i] = Services[j] => i = j
    /\ MaxElapsed + MaxMissedHeartbeats <= RestartWindow

\* The checks of a service that are owed, each for an interval that its heartbeat has
\* aged: one in every round that is due, and one in this round unless it is past.
Later(s) == \E i \in 1..Len(Services) : Services[i] = s /\ i > check.at
Turn(s) == check.at > 0 /\ s = Services[check.at]
ToCome(s) == check.at > 0 /\ (Later(s) \/ (Turn(s) /\ check.kick = "none"))
Rounds(s) == check.due + (IF ToCome(s) THEN 1 ELSE 0)

Aged(age, least) == age >= least \/ age = Oldest
Below(t) == t.failure_count \in 1..MaxMissedHeartbeats
Counted(t) == IF Below(t) THEN t.failure_count ELSE 0
KickedWithin(k) == \E o \in Names : tally[o].last_kick \in 0..k
Kicks(s) == check.kick # "none" /\ Turn(s)

\* A service that is kicked was missed too often; one that was missed is not given up,
\* and a check that is owed will find that it beats again.
Sound(t, age, kicks, rounds) ==
    /\ kicks => t.failure_count > MaxMissedHeartbeats /\ age > MaxElapsed /\ ~InGrace(t)
    /\ InGrace(t) => t.failure_count = 0
    /\ Below(t) => ~GivenUp(t) /\ (age <= MaxElapsed => rounds > 0)

\* An old heartbeat has the age of the checks that missed it and of those to come,
OnTime(t, age, rounds) ==
    age <= MaxElapsed \/ InGrace(t) \/ Aged(age, MaxElapsed + rounds + Counted(t))

\* or a kick has delayed the rounds since the first of these checks.
Delayed(t, rounds) ==
    \/ check.kick # "none" \/ KickedWithin(0)
    \/ Below(t) /\ rounds <= 1 /\ KickedWithin(t.failure_count + rounds - 1)

\* So a kick comes after the intervals that it says, unless it follows another kick.
Due(s) ==
    Kicks(s) /\ check.kick = "kill" /\ tally[s].failure_count = MaxMissedHeartbeats + 1
    => \/ Aged(heartbeat[s].age, MaxElapsed + MaxMissedHeartbeats + 1)
       \/ KickedWithin(RestartWindow)

InPace(s) ==
    /\ Sound(tally[s], heartbeat[s].age, Kicks(s), Rounds(s))
    /\ OnTime(tally[s], heartbeat[s].age, Rounds(s)) \/ Delayed(tally[s], Rounds(s))
    /\ Due(s)
Paced == budget.misreads = MaxMisreads => \A s \in Names : InPace(s)

\* The numbers of woodward.
LEMMA Windows ==
    ASSUME OneEach
    PROVE  /\ MaxElapsed \in Nat /\ StartupGrace \in Nat /\ MaxMissedHeartbeats \in Nat
           /\ Oldest \in Nat /\ Oldest > MaxElapsed + MaxMissedHeartbeats
           /\ Oldest > StartupGrace /\ MaxMissedHeartbeats < CounterMax /\ CounterMax \in Nat
           /\ MaxKickFailures \in Nat /\ MaxFailedRestarts \in Nat
           /\ RestartWindow \in Nat /\ Oldest = RestartWindow + 1
           /\ MaxMissedHeartbeats <= RestartWindow
  BY WoodwardAssumption DEF OneEach, Oldest

\* The rounds that are owed to a service change with its own checks only.
LEMMA RoundsAre ==
    ASSUME OneEach, TypeOK, NEW s \in Names
    PROVE  /\ check.due \in Nat /\ Rounds(s) \in Nat
           /\ check.kick \in {"none", "kill", "spawn", "wait"}
           /\ MoveOn => check'.kick = "none"
           /\ \A k : check' = [check EXCEPT !.kick = k] => check'.kick = k /\ check'.at = check.at
           /\ check.at > 0 /\ (MoveOn \/ check' = [check EXCEPT !.kick = "kill"])
                 => /\ ~Turn(s) => Rounds(s)' = Rounds(s)
                    /\ Turn(s) /\ check.kick = "none"
                          => Rounds(s) = check.due + 1 /\ Rounds(s)' = check.due
                    /\ Turn(s) /\ check.kick # "none" => Rounds(s)' = Rounds(s)
           /\ \A k : k # "none" /\ check.kick # "none" /\ check' = [check EXCEPT !.kick = k]
                 => Rounds(s)' = Rounds(s)
<1> DEFINE n == Len(Services)
<1>1. check \in [at : 0..Len(Services), due : Nat,
                 kick : {"none", "kill", "spawn", "wait"}, waited : 0..KickTimeout]
      /\ n \in Nat
  BY ServiceOfRound DEF TypeOK
<1>2. check.at \in 0..n /\ check.due \in Nat /\ check.kick \in {"none", "kill", "spawn", "wait"}
  BY <1>1
<1>3. Rounds(s) \in Nat
  BY <1>2 DEF Rounds
<1>4. ASSUME NEW k, check' = [check EXCEPT !.kick = k]
      PROVE  check'.at = check.at /\ check'.kick = k /\ check'.due = check.due
  BY <1>1, <1>4
<1>5. ASSUME MoveOn
      PROVE  check'.at = NextService /\ check'.kick = "none" /\ check'.due = check.due
  BY <1>1, <1>5 DEF MoveOn
<1>6. ASSUME Turn(s) PROVE ~Later(s)
  <2>1. check.at \in 1..n /\ Services[check.at] = s
    BY <1>2, <1>6 DEF Turn
  <2>2. \A i \in 1..n : Services[i] = s => i = check.at
    BY <2>1 DEF OneEach
  <2> QED
    BY <1>2, <2>2 DEF Later
<1>7. ASSUME check.at > 0, MoveOn PROVE ToCome(s)' <=> Later(s)
  <2>1. CASE check.at = n
    <3>1. check'.at = 0 /\ ~Later(s)
      BY <1>2, <1>5, <1>7, <2>1 DEF NextService, Later
    <3> QED
      BY <3>1 DEF ToCome
  <2>2. CASE check.at # n
    <3>1. check'.at = check.at + 1 /\ check'.at > 0 /\ check'.at \in 1..n
      BY <1>2, <1>5, <1>7, <2>2 DEF NextService
    <3>2. ToCome(s)' <=> (\E i \in 1..n : Services[i] = s /\ i > check.at + 1)
                            \/ s = Services[check.at + 1]
      BY <1>5, <1>7, <3>1 DEF ToCome, Later, Turn
    <3>3. check.at + 1 \in 1..n /\ \A i \in 1..n : i > check.at <=> i > check.at + 1 \/ i = check.at + 1
      BY <1>2, <3>1
    <3> QED
      BY <1>2, <3>2, <3>3 DEF Later
  <2> QED
    BY <2>1, <2>2
<1>8. ASSUME NEW k, k # "none", check.at > 0, check' = [check EXCEPT !.kick = k]
      PROVE  ToCome(s)' <=> Later(s)
  BY <1>4, <1>8 DEF ToCome, Later, Turn
<1>9. ASSUME check.at > 0, MoveOn \/ (check' = [check EXCEPT !.kick = "kill"])
      PROVE  /\ ~Turn(s) => Rounds(s)' = Rounds(s)
             /\ Turn(s) /\ check.kick = "none"
                   => Rounds(s) = check.due + 1 /\ Rounds(s)' = check.due
             /\ Turn(s) /\ check.kick # "none" => Rounds(s)' = Rounds(s)
  <2>1. (ToCome(s)' <=> Later(s)) /\ check'.due = check.due
    BY <1>4, <1>5, <1>7, <1>8, <1>9
  <2>2. ToCome(s) <=> Later(s) \/ (Turn(s) /\ check.kick = "none")
    BY <1>9 DEF ToCome
  <2> QED
    BY <1>2, <1>6, <2>1, <2>2 DEF Rounds
<1>10. ASSUME NEW k, k # "none", check.kick # "none", check' = [check EXCEPT !.kick = k]
       PROVE  Rounds(s)' = Rounds(s)
  <2>1. ToCome(s)' <=> ToCome(s)
    BY <1>4, <1>10 DEF ToCome, Later, Turn
  <2> QED
    BY <1>4, <1>10, <2>1 DEF Rounds
<1> QED
  BY <1>2, <1>3, <1>4, <1>5, <1>9, <1>10

\* What a tally's operations do to the count of missed heartbeats, to the grace and to
\* what makes woodward give up.
LEMMA ForgetIs ==
    ASSUME OneEach, NEW t \in TallyType
    PROVE  /\ Forget(t).failure_count = t.failure_count
           /\ Forget(t).recovering = t.recovering
           /\ InGrace(Forget(t)) <=> InGrace(t)
           /\ GivenUp(Forget(t)) => GivenUp(t)
           /\ t.last_kick \in 0..RestartWindow => Forget(t).last_kick = t.last_kick
<1> DEFINE r == IF Exceeds(t.last_restart, RestartWindow)
                THEN [t EXCEPT !.restart_count = 0, !.last_restart = Never] ELSE t
<1>1. /\ r.failure_count = t.failure_count /\ r.recovering = t.recovering
      /\ r.kick_failures = t.kick_failures /\ r.restart_count \in {t.restart_count, 0}
      /\ r.last_kick = t.last_kick
  BY Zenon DEF TallyType
<1>2. r \in TallyType
  BY Zeros, Zenon DEF TallyType
<1>3. Forget(t) = IF Exceeds(t.last_kick, RestartWindow)
                  THEN [r EXCEPT !.kick_failures = 0, !.last_kick = Never] ELSE r
  BY DEF Forget
<1> HIDE DEF r
<1>4. /\ Forget(t).failure_count = t.failure_count /\ Forget(t).recovering = t.recovering
      /\ Forget(t).kick_failures \in {t.kick_failures, 0}
      /\ Forget(t).restart_count \in {t.restart_count, 0}
  <2>1. LET u == [r EXCEPT !.kick_failures = 0, !.last_kick = Never]
        IN  /\ u.failure_count = r.failure_count /\ u.recovering = r.recovering
            /\ u.kick_failures = 0 /\ u.restart_count = r.restart_count
    BY <1>2, Zenon DEF TallyType
  <2> QED
    BY <1>1, <1>3, <2>1
<1>5. t.kick_failures \in Nat /\ t.restart_count \in Nat
  BY Windows DEF TallyType
<1>6. GivenUp(Forget(t)) => GivenUp(t)
  BY <1>4, <1>5, Windows DEF GivenUp
<1>7. t.last_kick \in 0..RestartWindow => Forget(t).last_kick = t.last_kick
  BY <1>1, <1>3, Windows DEF Exceeds
<1> QED
  BY <1>4, <1>6, <1>7 DEF InGrace

LEMMA MarkIs ==
    ASSUME NEW t \in TallyType, NEW b \in BOOLEAN
    PROVE  LET u == [t EXCEPT !.failure_marked = b]
           IN  /\ u.failure_count = t.failure_count
               /\ u.recovering = t.recovering
               /\ u.last_kick = t.last_kick
               /\ InGrace(u) <=> InGrace(t)
  BY Zenon DEF TallyType, InGrace

LEMMA HeartbeatIs ==
    ASSUME NEW t \in TallyType
    PROVE  /\ RecordHeartbeat(t).failure_count = 0 /\ ~InGrace(RecordHeartbeat(t))
           /\ RecordHeartbeat(t).last_kick = t.last_kick
<1>1. /\ RecordHeartbeat(t).failure_count = 0
      /\ RecordHeartbeat(t).last_kick = t.last_kick
      /\ RecordHeartbeat(t).recovering = Never
  BY Zenon DEF RecordHeartbeat, TallyType
<1> QED
  BY <1>1 DEF InGrace

LEMMA MissedIs ==
    ASSUME OneEach, NEW t \in TallyType
    PROVE  LET u == RecordMissedHeartbeat(t)
           IN  /\ InGrace(u) <=> InGrace(t)
               /\ GivenUp(u) <=> GivenUp(t)
               /\ u.last_kick = t.last_kick
               /\ InGrace(t) => u.failure_count = t.failure_count
               /\ ~InGrace(t) => u.failure_count = IF t.failure_count = CounterMax THEN 0
                                                   ELSE t.failure_count + 1
<1> DEFINE n == (t.failure_count + 1) % (CounterMax + 1)
           u == [t EXCEPT !.failure_count = n]
<1>1. n = IF t.failure_count = CounterMax THEN 0 ELSE t.failure_count + 1
  <2>1. t.failure_count \in 0..CounterMax /\ CounterMax \in Nat
    BY Windows DEF TallyType
  <2> QED
    BY <2>1
<1> HIDE DEF n
<1>2. /\ u.failure_count = n /\ u.recovering = t.recovering
      /\ u.kick_failures = t.kick_failures /\ u.restart_count = t.restart_count
      /\ u.last_kick = t.last_kick
  BY Zenon DEF TallyType
<1>3. RecordMissedHeartbeat(t) = IF InGrace(t) THEN t ELSE u
  BY DEF RecordMissedHeartbeat, n
<1> HIDE DEF u
<1>4. (InGrace(u) <=> InGrace(t)) /\ (GivenUp(u) <=> GivenUp(t))
  BY <1>2 DEF InGrace, GivenUp
<1> QED
  BY <1>1, <1>2, <1>3, <1>4

LEMMA KickIs ==
    ASSUME OneEach, NEW t \in TallyType
    PROVE  /\ RecordKickSuccess(t).failure_count = 0 /\ InGrace(RecordKickSuccess(t))
           /\ RecordKickFailure(t).failure_count = t.failure_count
           /\ InGrace(RecordKickFailure(t)) <=> InGrace(t)
           /\ RecordKickSuccess(t).last_kick = 0 /\ RecordKickFailure(t).last_kick = 0
<1>1. /\ RecordKickSuccess(t).failure_count = 0 /\ RecordKickSuccess(t).recovering = 0
      /\ RecordKickFailure(t).failure_count = t.failure_count
      /\ RecordKickFailure(t).recovering = t.recovering
      /\ RecordKickSuccess(t).last_kick = 0 /\ RecordKickFailure(t).last_kick = 0
  BY Zenon DEF RecordKickSuccess, RecordKickFailure, TallyType
<1> QED
  BY <1>1, Windows DEF InGrace, Exceeds, Never

LEMMA AgedIs ==
    ASSUME OneEach, NEW t \in TallyType
    PROVE  LET u == [t EXCEPT !.last_restart = Older(@), !.last_kick = Older(@),
                              !.recovering = Older(@)]
           IN  /\ u.failure_count = t.failure_count
               /\ InGrace(u) => InGrace(t)
               /\ GivenUp(u) <=> GivenUp(t)
               /\ u.last_kick = Older(t.last_kick)
<1> DEFINE u == [t EXCEPT !.last_restart = Older(@), !.last_kick = Older(@),
                          !.recovering = Older(@)]
<1>1. /\ u.failure_count = t.failure_count /\ u.recovering = Older(t.recovering)
      /\ u.last_kick = Older(t.last_kick)
      /\ u.kick_failures = t.kick_failures /\ u.restart_count = t.restart_count
  BY Zenon DEF TallyType
<1>2. t.recovering \in Ages \cup {Never}
  BY DEF TallyType
<1> HIDE DEF u
<1>3. InGrace(u) => InGrace(t)
  BY <1>1, <1>2, Windows DEF InGrace, Exceeds, Older, Ages, Never
<1>4. GivenUp(u) <=> GivenUp(t)
  BY <1>1 DEF GivenUp
<1> QED
  BY <1>1, <1>3, <1>4 DEF u


\* The check task, the service's tally and its heartbeat, by the parts that matter.
LEMMA PaceFacts ==
    ASSUME OneEach, Inv, NEW s \in Names
    PROVE  /\ tally \in [Names -> TallyType] /\ tally[s] \in TallyType
           /\ tally[s].failure_count \in 0..CounterMax
           /\ heartbeat[s].age \in 0..Oldest /\ heartbeat[s].age \in Nat
           /\ check.at \in Nat /\ check.due \in Nat /\ Rounds(s) \in Nat
           /\ Timely(s) <=> heartbeat[s].age <= MaxElapsed
           /\ check.kick # "none" => check.at > 0
<1>1. /\ tally \in [Names -> TallyType]
      /\ heartbeat \in [Names -> [pid : Pids \cup {NoPid}, age : Ages]]
      /\ check \in [at : 0..Len(Services), due : Nat,
                    kick : {"none", "kill", "spawn", "wait"}, waited : 0..KickTimeout]
  BY DEF Inv, TypeOK
<1>2. tally[s] \in TallyType /\ heartbeat[s].age \in 0..Oldest
  BY <1>1 DEF Ages
<1>3. tally[s].failure_count \in 0..CounterMax /\ heartbeat[s].age \in Nat
  BY <1>2, Windows DEF TallyType
<1>4. check.at \in Nat
  BY <1>1, ServiceOfRound
<1> QED
  BY <1>1, <1>2, <1>3, <1>4, RoundsAre DEF Inv, Timely, KickInHand

\* Who was kicked within a window still was, while nobody forgets it and no time passes.
Remembers ==
    \A o \in Names : tally[o].last_kick \in 0..RestartWindow
                        => tally'[o].last_kick = tally[o].last_kick

LEMMA StillKicked ==
    ASSUME OneEach, Remembers, NEW k \in 0..RestartWindow, KickedWithin(k)
    PROVE  KickedWithin(k)'
<1>1. PICK o \in Names : tally[o].last_kick \in 0..k
  BY DEF KickedWithin
<1>2. tally[o].last_kick \in 0..RestartWindow
  BY <1>1, Windows
<1>3. tally'[o].last_kick \in 0..k
  BY <1>1, <1>2 DEF Remembers
<1> QED
  BY <1>3 DEF KickedWithin

\* A step that leaves a service's tally and its rounds alone keeps its pace, whether the
\* heartbeat stays or is torn, if a kick is under way after it or was as it is.
LEMMA BystanderPaces ==
    ASSUME OneEach, Inv, NEW s \in Names, InPace(s),
           tally'[s] = tally[s], Rounds(s)' = Rounds(s), Kicks(s)' => Kicks(s),
           heartbeat'[s].age \in {heartbeat[s].age, Oldest},
           \/ check'.kick # "none"
           \/ KickedWithin(0)'
           \/ check.kick = "none",
           Remembers \/ KickedWithin(0)',
           Kicks(s)' /\ check'.kick = "kill" => check.kick = "kill" /\ Remembers
    PROVE  InPace(s)'
<1> DEFINE t == tally[s]
           age == heartbeat[s].age
           later == heartbeat'[s].age
           r == Rounds(s)
<1>1. /\ t.failure_count \in 0..CounterMax /\ age \in Nat /\ r \in Nat /\ Oldest \in Nat
      /\ Oldest > MaxElapsed /\ MaxElapsed \in Nat /\ MaxMissedHeartbeats \in Nat
      /\ MaxMissedHeartbeats <= RestartWindow /\ RestartWindow \in Nat
  BY PaceFacts, Windows
<1>2. later = age \/ later = Oldest
  OBVIOUS
<1>3. Sound(t, age, Kicks(s), r) /\ (OnTime(t, age, r) \/ Delayed(t, r)) /\ Due(s)
  BY DEF InPace
<1>4. Sound(t, later, Kicks(s)', r)
  BY <1>1, <1>2, <1>3 DEF Sound
<1>5. \A least : Aged(age, least) => Aged(later, least)
  BY <1>2 DEF Aged
<1>6. OnTime(t, age, r) => OnTime(t, later, r)
  BY <1>2, <1>5 DEF OnTime, Aged
<1>7. Delayed(t, r) => Delayed(t, r)'
  <2>1. CASE check'.kick # "none" \/ KickedWithin(0)'
    BY <2>1 DEF Delayed
  <2>2. CASE check.kick = "none" /\ Remembers
    <3>1. ASSUME KickedWithin(0) PROVE Delayed(t, r)'
      <4>1. KickedWithin(0)'
        BY <1>1, <2>2, <3>1, StillKicked
      <4> QED
        BY <4>1 DEF Delayed
    <3>2. ASSUME Below(t), r <= 1, KickedWithin(t.failure_count + r - 1)
          PROVE  Delayed(t, r)'
      <4>1. t.failure_count + r - 1 \in 0..RestartWindow
        BY <1>1, <3>2 DEF Below
      <4>2. PICK k \in 0..RestartWindow : k = t.failure_count + r - 1
        BY <4>1
      <4>3. KickedWithin(k)'
        BY <2>2, <3>2, <4>2, StillKicked
      <4>4. k = (t.failure_count + r - 1)' /\ Below(t)' /\ (r <= 1)'
        BY <3>2, <4>2
      <4> QED
        BY <4>3, <4>4 DEF Delayed
    <3> QED
      BY <2>2, <3>1, <3>2 DEF Delayed
  <2> QED
    BY <2>1, <2>2
<1>8. Due(s)'
  <2> SUFFICES ASSUME Kicks(s)', check'.kick = "kill",
                      tally'[s].failure_count = MaxMissedHeartbeats + 1
               PROVE  \/ Aged(later, MaxElapsed + MaxMissedHeartbeats + 1)
                      \/ KickedWithin(RestartWindow)'
    BY DEF Due
  <2>1. \/ Aged(age, MaxElapsed + MaxMissedHeartbeats + 1)
        \/ KickedWithin(RestartWindow)
    BY <1>3 DEF Due
  <2>2. KickedWithin(RestartWindow) => KickedWithin(RestartWindow)'
    BY <1>1, StillKicked
  <2> QED
    BY <1>5, <2>1, <2>2
<1> QED
  BY <1>3, <1>4, <1>6, <1>7, <1>8 DEF InPace

\* A misread is not forgotten.
LEMMA NoMisread ==
    ASSUME TypeOK, [Next]_vars, budget'.misreads = MaxMisreads
    PROVE  budget.misreads = MaxMisreads /\ ~Misread
<1>1. budget \in BudgetType /\ MaxMisreads \in Nat
  BY Bounds DEF TypeOK
<1>2. ASSUME Misread PROVE budget'.misreads < MaxMisreads
  BY <1>1, <1>2 DEF Misread, BudgetType
<1>3. CASE Fault
  BY <1>1, <1>2, <1>3 DEF Fault, BudgetType
<1>4. CASE Restart
  <2>1. budget' = [budget EXCEPT !.restarts = budget.restarts - 1]
    BY <1>4 DEF Restart
  <2> QED
    BY <1>1, <1>2, <2>1 DEF BudgetType
<1>5. CASE UNCHANGED budget
  BY <1>1, <1>2, <1>5
<1>6. Fault \/ Misread \/ Restart \/ UNCHANGED budget
  BY DEF Next, vars, StartRound, Tick, CheckService, NoteGivenUp, NoteHeartbeat,
         NoteMissedHeartbeat, Kick, KickKill, KickSpawn, KickSucceeds, KickTimesOut,
         KickHasNoPid, KickErrs, Ready, Freeze, Thaw, Die, DieWriting
<1> QED
  BY <1>1, <1>2, <1>3, <1>4, <1>5, <1>6

\* What a check does to the tally and to the check task.
LEMMA ChecksAre ==
    ASSUME OneEach, Inv, NEW u \in Names, CheckService(u)
    PROVE  /\ Checking(u) /\ Turn(u) /\ UNCHANGED heartbeat
           /\ MoveOn \/ (check' = [check EXCEPT !.kick = "kill"])
           /\ \A o \in Names : o # u => tally'[o] = tally[o]
           /\ Remembers
<1> DEFINE f == Forget(tally[u])
           h == RecordHeartbeat(f)
           m == RecordMissedHeartbeat(f)
           marked == [f EXCEPT !.failure_marked = TRUE]
           cleared == [h EXCEPT !.failure_marked = FALSE]
<1>1. tally \in [Names -> TallyType] /\ tally[u] \in TallyType
  BY PaceFacts
<1>2. Checking(u) /\ UNCHANGED heartbeat /\ (MoveOn \/ (check' = [check EXCEPT !.kick = "kill"]))
  BY Zenon DEF CheckService, NoteGivenUp, NoteHeartbeat, NoteMissedHeartbeat
<1>3. \E t \in {f, h, m, marked, cleared} : tally' = [tally EXCEPT ![u] = t]
  <2>1. CASE NoteGivenUp(u)
    BY <1>1, <2>1, Zenon DEF NoteGivenUp
  <2>2. CASE NoteHeartbeat(u)
    BY <1>1, <2>2, Zenon DEF NoteHeartbeat
  <2>3. CASE NoteMissedHeartbeat(u)
    BY <1>1, <2>3, Zenon DEF NoteMissedHeartbeat
  <2> QED
    BY <2>1, <2>2, <2>3 DEF CheckService
<1>4. f \in TallyType /\ h \in TallyType
  BY <1>1, ForgetTyped, HeartbeatTyped
<1>5. /\ h.last_kick = f.last_kick /\ m.last_kick = f.last_kick
      /\ marked.last_kick = f.last_kick /\ cleared.last_kick = h.last_kick
  <2>1. h.last_kick = f.last_kick /\ m.last_kick = f.last_kick
    BY <1>4, HeartbeatIs, MissedIs
  <2>2. marked.last_kick = f.last_kick
    BY <1>4, MarkIs
  <2>3. cleared.last_kick = h.last_kick
    BY <1>4, MarkIs
  <2> QED
    BY <2>1, <2>2, <2>3
<1>6. tally[u].last_kick \in 0..RestartWindow => f.last_kick = tally[u].last_kick
  BY <1>1, ForgetIs
<1> HIDE DEF f, h, m, marked, cleared
<1>7. PICK t \in {f, h, m, marked, cleared} : tally' = [tally EXCEPT ![u] = t]
  BY <1>3
<1>8. tally'[u] = t /\ \A o \in Names : o # u => tally'[o] = tally[o]
  BY <1>1, <1>7
<1>9. Remembers
  BY <1>5, <1>6, <1>8 DEF Remembers
<1> QED
  BY <1>2, <1>8, <1>9 DEF Checking, Turn

\* A check that finds the heartbeat too old counts it, or kicks.
LEMMA MissedPaces ==
    ASSUME OneEach, Inv, NEW s \in Names, InPace(s), NoteMissedHeartbeat(s), ~Misread
    PROVE  InPace(s)'
<1> DEFINE f == Forget(tally[s])
           t == RecordMissedHeartbeat(f)
           age == heartbeat[s].age
           due == check.due
           n == tally[s].failure_count
           W == MaxMissedHeartbeats
<1>1. /\ tally \in [Names -> TallyType] /\ tally[s] \in TallyType
      /\ n \in 0..CounterMax /\ age \in Nat /\ due \in Nat
      /\ Timely(s) <=> age <= MaxElapsed
  BY PaceFacts
<1>2. f \in TallyType /\ f.failure_count = n /\ (InGrace(f) <=> InGrace(tally[s]))
  BY <1>1, ForgetTyped, ForgetIs
<1>3. /\ (InGrace(t) <=> InGrace(f)) /\ (GivenUp(t) <=> GivenUp(f))
      /\ InGrace(f) => t.failure_count = f.failure_count
      /\ ~InGrace(f) => t.failure_count = IF f.failure_count = CounterMax THEN 0
                                         ELSE f.failure_count + 1
  BY <1>2, MissedIs
<1>4. /\ Checking(s) /\ ~GivenUp(f) /\ ~Timely(s)
      /\ tally' = [tally EXCEPT ![s] = t]
      /\ IF NeedsKick(t) THEN check' = [check EXCEPT !.kick = "kill"] ELSE MoveOn
      /\ UNCHANGED heartbeat
  BY Zenon DEF NoteMissedHeartbeat
<1>5. tally'[s] = t /\ heartbeat'[s].age = age
  BY <1>1, <1>4, Zenon
<1>6. /\ check.at > 0 /\ check.kick = "none" /\ Turn(s) /\ ~Kicks(s)
      /\ Rounds(s) = due + 1 /\ Rounds(s)' = due /\ Remembers
      /\ check'.kick = IF NeedsKick(t) THEN "kill" ELSE "none"
  <2>1. check.at > 0 /\ check.kick = "none" /\ Turn(s) /\ ~Kicks(s)
    BY <1>4 DEF Checking, Turn, Kicks
  <2>2. Remembers
    BY ChecksAre DEF CheckService
  <2>3. Rounds(s) = due + 1 /\ Rounds(s)' = due
    BY <1>4, <2>1, RoundsAre DEF Inv
  <2>4. check'.kick = IF NeedsKick(t) THEN "kill" ELSE "none"
    BY <1>4, RoundsAre DEF Inv
  <2> QED
    BY <2>1, <2>2, <2>3, <2>4
<1>7. NeedsKick(t) <=> ~InGrace(tally[s]) /\ t.failure_count > W
  BY <1>2, <1>3 DEF NeedsKick
<1>8. Sound(tally[s], age, FALSE, due + 1)
  BY <1>6 DEF InPace, Sound
<1>9. \/ InGrace(tally[s]) \/ Aged(age, MaxElapsed + (due + 1) + Counted(tally[s]))
      \/ Delayed(tally[s], due + 1)
  BY <1>1, <1>4, <1>6 DEF InPace, OnTime
<1>10. CASE InGrace(tally[s])
  <2>1. t.failure_count = 0 /\ InGrace(t) /\ ~Below(t)
    BY <1>2, <1>3, <1>8, <1>10 DEF Sound, Below
  <2>2. check'.kick = "none"
    BY <1>6, <1>7, <1>10
  <2> HIDE DEF t
  <2> QED
    BY <1>5, <2>1, <2>2 DEF InPace, Sound, OnTime, Due, Kicks
<1>11. CASE ~InGrace(tally[s])
  <2>1. ~InGrace(t) /\ ~GivenUp(t) /\ t.failure_count = IF n = CounterMax THEN 0 ELSE n + 1
    BY <1>2, <1>3, <1>4, <1>11
  <2>2. age > MaxElapsed /\ ~(age <= MaxElapsed)
    BY <1>1, <1>4, Windows
  <2>3. (Below(tally[s]) <=> n >= 1 /\ n <= W) /\ Counted(tally[s]) = IF Below(tally[s]) THEN n ELSE 0
    BY <1>1, Windows DEF Below, Counted
  <2>4. /\ Below(t) <=> t.failure_count >= 1 /\ t.failure_count <= W
        /\ Counted(t) = IF Below(t) THEN t.failure_count ELSE 0
        /\ t.failure_count \in Nat
    BY <1>1, <2>1, Windows DEF Below, Counted
  \* What a kick delayed, it delays now: the count grows as the round is done.
  <2>5. ASSUME Delayed(tally[s], due + 1)
        PROVE  KickedWithin(0) \/ (Below(tally[s]) /\ due = 0 /\ KickedWithin(n))
    <3>1. due + 1 <= 1 => due = 0 /\ n + (due + 1) - 1 = n
      BY <1>1
    <3> QED
      BY <1>6, <2>5, <3>1 DEF Delayed
  <2>6. \A k \in 0..RestartWindow : KickedWithin(k) => KickedWithin(k)'
    BY <1>6, StillKicked
  <2>7. 0 \in 0..RestartWindow /\ RestartWindow \in 0..RestartWindow
    BY Windows
  <2>8. CASE NeedsKick(t)
    <3>1. check'.kick = "kill" /\ t.failure_count > W /\ ~Below(t)
      BY <1>6, <1>7, <2>4, <2>8, Windows
    <3>2. ASSUME t.failure_count = W + 1
          PROVE  Aged(age, MaxElapsed + W + 1) \/ KickedWithin(RestartWindow)'
      <4>1. n = W /\ (W > 0 => Below(tally[s]))
        BY <1>1, <2>1, <2>3, <3>2, Windows
      <4>2. CASE Aged(age, MaxElapsed + (due + 1) + Counted(tally[s]))
        BY <1>1, <2>3, <4>1, <4>2, Windows DEF Aged
      <4>3. CASE Delayed(tally[s], due + 1)
        <5>1. KickedWithin(0) \/ (Below(tally[s]) /\ KickedWithin(n))
          BY <2>5, <4>3
        <5>2. \A k \in 0..RestartWindow : KickedWithin(k) => KickedWithin(RestartWindow)
          BY Windows DEF KickedWithin
        <5>3. n \in 0..RestartWindow
          BY <4>1, Windows
        <5> QED
          BY <2>6, <2>7, <5>1, <5>2, <5>3
      <4> QED
        BY <1>9, <1>11, <4>2, <4>3
    <3> HIDE DEF t, age
    <3> QED
      BY <1>5, <2>1, <2>2, <3>1, <3>2 DEF InPace, Sound, Delayed, Due
  <2>9. CASE ~NeedsKick(t)
    <3>1. check'.kick = "none" /\ ~(Kicks(s)') /\ t.failure_count <= W
      BY <1>6, <1>7, <1>11, <2>4, <2>9, Windows DEF Kicks
    <3>2. \/ Aged(age, MaxElapsed + due + Counted(t))
          \/ KickedWithin(0)'
          \/ /\ Below(t) /\ due <= 1
             /\ \E k \in 0..RestartWindow : KickedWithin(k)' /\ k = t.failure_count + due - 1
      <4>1. CASE Aged(age, MaxElapsed + (due + 1) + Counted(tally[s]))
        BY <1>1, <2>1, <2>3, <2>4, <4>1, Windows DEF Aged
      <4>2. CASE Delayed(tally[s], due + 1)
        <5>1. CASE KickedWithin(0)
          BY <2>6, <2>7, <5>1
        <5>2. CASE Below(tally[s]) /\ due = 0 /\ KickedWithin(n)
          <6>1. t.failure_count = n + 1 /\ Below(t) /\ n \in 0..RestartWindow
            BY <1>1, <2>1, <2>3, <2>4, <3>1, <5>2, Windows
          <6>2. t.failure_count + due - 1 = n /\ due <= 1
            BY <1>1, <5>2, <6>1
          <6>3. PICK k \in 0..RestartWindow : k = n
            BY <6>1
          <6>4. KickedWithin(k)'
            BY <2>6, <5>2, <6>3
          <6> QED
            BY <6>1, <6>2, <6>3, <6>4
        <5> QED
          BY <2>5, <4>2, <5>1, <5>2
      <4> QED
        BY <1>9, <1>11, <4>1, <4>2
    <3>3. Delayed(tally[s], Rounds(s))' \/ OnTime(t, age, due)
      <4> HIDE DEF t, age, due
      <4>1. ASSUME NEW k \in 0..RestartWindow, KickedWithin(k)', k = t.failure_count + due - 1,
                   Below(t), due <= 1
            PROVE  Delayed(tally[s], Rounds(s))'
        <5>1. k = (tally[s].failure_count + Rounds(s) - 1)'
          BY <1>5, <1>6, <4>1
        <5>2. Below(tally[s])' /\ (Rounds(s) <= 1)'
          BY <1>5, <1>6, <4>1 DEF Below
        <5> QED
          BY <4>1, <5>1, <5>2 DEF Delayed
      <4> QED
        BY <3>2, <4>1 DEF OnTime, Delayed
    <3> HIDE DEF t, age, due
    <3> QED
      BY <1>5, <1>6, <2>1, <2>2, <3>1, <3>3 DEF InPace, Sound, OnTime, Due
  <2> QED
    BY <2>8, <2>9
<1> QED
  BY <1>10, <1>11

\* The other checks: of a service that is given up, or whose heartbeat is timely; and
\* those of another service.
LEMMA CheckPaces ==
    ASSUME OneEach, Inv, NEW s \in Names, InPace(s), NEW u \in Names, CheckService(u), ~Misread
    PROVE  InPace(s)'
<1> DEFINE f == Forget(tally[s])
           age == heartbeat[s].age
           due == check.due
<1>1. /\ tally \in [Names -> TallyType] /\ tally[s] \in TallyType
      /\ tally[s].failure_count \in 0..CounterMax /\ age \in Nat /\ due \in Nat
      /\ Timely(s) <=> age <= MaxElapsed
  BY PaceFacts
<1>2. /\ Checking(u) /\ Turn(u) /\ UNCHANGED heartbeat
      /\ MoveOn \/ (check' = [check EXCEPT !.kick = "kill"])
      /\ \A o \in Names : o # u => tally'[o] = tally[o]
      /\ Remembers /\ check.at > 0 /\ check.kick = "none"
  BY ChecksAre DEF Checking, Turn
<1>3. CASE s # u
  <2>1. ~Turn(s) /\ Rounds(s)' = Rounds(s)
    BY <1>2, <1>3, RoundsAre DEF Inv, Turn
  <2>2. ~(Kicks(s)')
    <3>1. CASE MoveOn
      BY <3>1, RoundsAre DEF Inv, Kicks
    <3>2. CASE check' = [check EXCEPT !.kick = "kill"]
      BY <2>1, <1>2, <3>2, RoundsAre DEF Inv, Kicks, Turn
    <3> QED
      BY <1>2, <3>1, <3>2
  <2> QED
    BY <1>2, <1>3, <2>1, <2>2, BystanderPaces
<1>4. CASE s = u /\ NoteMissedHeartbeat(s)
  BY <1>4, MissedPaces
<1>5. ASSUME s = u, MoveOn
      PROVE  /\ Rounds(s) = due + 1 /\ Rounds(s)' = due
             /\ check'.kick = "none" /\ heartbeat'[s].age = age
             /\ KickedWithin(0) => KickedWithin(0)'
  <2>1. Rounds(s) = due + 1 /\ Rounds(s)' = due /\ check'.kick = "none"
    BY <1>2, <1>5, RoundsAre DEF Inv
  <2>2. 0 \in 0..RestartWindow
    BY Windows
  <2> QED
    BY <1>2, <2>1, <2>2, StillKicked
<1>6. CASE s = u /\ NoteGivenUp(s)
  <2> DEFINE m == [f EXCEPT !.failure_marked = TRUE]
  <2>1. GivenUp(f) /\ MoveOn
    BY <1>6 DEF NoteGivenUp
  <2>2. tally' = [tally EXCEPT ![s] = m] \/ tally' = [tally EXCEPT ![s] = f]
    BY <1>1, <1>6, Zenon DEF NoteGivenUp
  <2>3. /\ f \in TallyType /\ f.failure_count = tally[s].failure_count
        /\ (InGrace(f) <=> InGrace(tally[s])) /\ GivenUp(tally[s])
    BY <1>1, <2>1, ForgetTyped, ForgetIs
  <2>4. m.failure_count = f.failure_count /\ (InGrace(m) <=> InGrace(f))
    BY <2>3, MarkIs
  <2> HIDE DEF m, f
  <2>5. /\ tally'[s].failure_count = tally[s].failure_count
        /\ InGrace(tally'[s]) <=> InGrace(tally[s])
    BY <1>1, <2>2, <2>3, <2>4, Zenon
  <2>6. ~Below(tally[s]) /\ ~Below(tally'[s])
    BY <2>3, <2>5 DEF InPace, Sound, Below
  <2>7. /\ Rounds(s) = due + 1 /\ Rounds(s)' = due /\ check'.kick = "none"
        /\ heartbeat'[s].age = age /\ (KickedWithin(0) => KickedWithin(0)')
    BY <1>5, <1>6, <2>1
  <2>8. \/ age <= MaxElapsed \/ InGrace(tally[s]) \/ Aged(age, MaxElapsed + (due + 1) + 0)
        \/ KickedWithin(0)
    BY <1>2, <2>6, <2>7 DEF InPace, OnTime, Delayed, Counted
  <2>9. \/ age <= MaxElapsed \/ InGrace(tally[s]) \/ Aged(age, MaxElapsed + due + 0)
        \/ KickedWithin(0)'
    BY <1>1, <2>7, <2>8, Windows DEF Aged
  <2>10. InGrace(tally[s]) => tally[s].failure_count = 0
    BY DEF InPace, Sound
  <2> HIDE DEF age, due
  <2> QED
    BY <2>5, <2>6, <2>7, <2>9, <2>10 DEF InPace, Sound, OnTime, Delayed, Due, Kicks, Counted
<1>7. CASE s = u /\ NoteHeartbeat(s)
  <2> DEFINE t == RecordHeartbeat(f)
             m == [t EXCEPT !.failure_marked = FALSE]
  <2>1. Timely(s) /\ MoveOn
    BY <1>7 DEF NoteHeartbeat
  <2>2. tally' = [tally EXCEPT ![s] = m] \/ tally' = [tally EXCEPT ![s] = t]
    BY <1>1, <1>7, Zenon DEF NoteHeartbeat
  <2>3. f \in TallyType
    BY <1>1, ForgetTyped
  <2>4. t \in TallyType /\ t.failure_count = 0 /\ ~InGrace(t)
    BY <2>3, HeartbeatTyped, HeartbeatIs
  <2>5. m.failure_count = 0 /\ ~InGrace(m)
    BY <2>4, MarkIs
  <2> HIDE DEF m, t
  <2>6. tally'[s].failure_count = 0 /\ ~InGrace(tally'[s])
    BY <1>1, <2>2, <2>4, <2>5, Zenon
  <2>7. ~Below(tally'[s])
    BY <2>6, Windows DEF Below
  <2>8. check'.kick = "none" /\ heartbeat'[s].age = age /\ age <= MaxElapsed
    BY <1>1, <1>5, <1>7, <2>1
  <2> HIDE DEF age
  <2> QED
    BY <2>6, <2>7, <2>8 DEF InPace, Sound, OnTime, Due, Kicks
<1> QED
  BY <1>3, <1>4, <1>6, <1>7 DEF CheckService

\* A kick under way delays the rounds, and one that ends has kicked a service just now.
LEMMA KickPaces ==
    ASSUME OneEach, Inv, NEW s \in Names, InPace(s), NEW u \in Names, Kick(u)
    PROVE  InPace(s)'
<1> DEFINE age == heartbeat[s].age
<1>1. /\ tally \in [Names -> TallyType] /\ tally[s] \in TallyType /\ tally[u] \in TallyType
      /\ tally[s].failure_count \in 0..CounterMax /\ age \in Nat
  BY PaceFacts
<1>2. check.kick # "none" /\ check.at > 0 /\ Turn(u) /\ UNCHANGED heartbeat
  BY PaceFacts DEF Kick, KickKill, KickSpawn, KickSucceeds, KickTimesOut, KickHasNoPid,
     KickErrs, Kicking, Turn
<1>3. ASSUME NEW k \in {"spawn", "wait"}, check' = [check EXCEPT !.kick = k], UNCHANGED tally
      PROVE  InPace(s)'
  <2>1. check'.kick = k /\ check'.at = check.at /\ Rounds(s)' = Rounds(s)
    BY <1>2, <1>3, RoundsAre DEF Inv
  <2>2. (Kicks(s)' => Kicks(s)) /\ Remembers
    BY <1>2, <1>3, <2>1 DEF Kicks, Turn, Remembers
  <2> QED
    BY <1>2, <1>3, <2>1, <2>2, BystanderPaces
<1>4. CASE KickKill(u)
  BY <1>3, <1>4 DEF KickKill
<1>5. CASE KickSpawn(u)
  BY <1>3, <1>5 DEF KickSpawn
<1>6. CASE KickSucceeds(u) \/ KickFailed(u)
  <2> DEFINE yes == RecordKickSuccess(tally[u])
             no == RecordKickFailure(tally[u])
  <2>1. MoveOn /\ (tally' = [tally EXCEPT ![u] = yes] \/ tally' = [tally EXCEPT ![u] = no])
    BY <1>6, Zenon DEF KickSucceeds, KickFailed
  <2>2. /\ yes.failure_count = 0 /\ InGrace(yes) /\ yes.last_kick = 0
        /\ no.failure_count = tally[u].failure_count /\ (InGrace(no) <=> InGrace(tally[u]))
        /\ no.last_kick = 0
    BY <1>1, KickIs
  <2> HIDE DEF yes, no
  <2>3. /\ tally'[u] \in {yes, no} /\ tally'[u].last_kick = 0
        /\ \A o \in Names : o # u => tally'[o] = tally[o]
    BY <1>1, <2>1, <2>2
  <2>4. KickedWithin(0)'
    BY <2>3 DEF KickedWithin
  <2>5. check'.kick = "none" /\ ~(Kicks(s)') /\ Rounds(s)' = Rounds(s)
    BY <1>2, <2>1, RoundsAre DEF Inv, Kicks
  <2>6. CASE s # u
    BY <1>2, <2>3, <2>4, <2>5, <2>6, BystanderPaces
  <2>7. CASE s = u
    <3>1. tally[s].failure_count > MaxMissedHeartbeats /\ ~InGrace(tally[s])
      BY <1>2, <2>7 DEF InPace, Sound, Kicks
    <3>2. (InGrace(tally'[s]) => tally'[s].failure_count = 0) /\ ~Below(tally'[s])
      BY <1>1, <2>2, <2>3, <2>7, <3>1, Windows DEF Below
    <3> QED
      BY <2>4, <2>5, <3>2 DEF InPace, Sound, Delayed, Due
  <2> QED
    BY <2>6, <2>7
<1> QED
  BY <1>4, <1>5, <1>6 DEF Kick, KickTimesOut, KickHasNoPid, KickErrs

\* An interval makes an old heartbeat older, and who was kicked longer ago, and owes a
\* check more; a service that beats again is found by the check that is owed.
LEMMA TickPaces ==
    ASSUME OneEach, Inv, NEW s \in Names, InPace(s), Tick
    PROVE  InPace(s)'
<1> DEFINE age == heartbeat[s].age
           t == [tally[s] EXCEPT !.last_restart = Older(@), !.last_kick = Older(@),
                                 !.recovering = Older(@)]
           later == IF Beating(s) # {} THEN 0 ELSE Older(age)
           W == MaxMissedHeartbeats
<1>1. /\ tally[s] \in TallyType /\ tally[s].failure_count \in 0..CounterMax
      /\ age \in 0..Oldest /\ age \in Nat /\ check.due \in Nat
      /\ check.kick # "none" => check.at > 0
  BY PaceFacts
<1>2. PICK n \in 0..CounterMax : n = tally[s].failure_count
  BY <1>1
<1>3. t.failure_count = n /\ (InGrace(t) => InGrace(tally[s])) /\ (GivenUp(t) <=> GivenUp(tally[s]))
  BY <1>1, <1>2, AgedIs
<1>4. tally'[s] = t
  BY DEF Tick
<1>5. heartbeat'[s].age = later
  <2>1. PICK last \in [Names -> Pids] :
            heartbeat' = [r \in Names |->
                IF Beating(r) # {} THEN [pid |-> last[r], age |-> 0]
                ELSE [heartbeat[r] EXCEPT !.age = Older(@)]]
    BY DEF Tick
  <2>2. heartbeat[s] \in [pid : Pids \cup {NoPid}, age : Ages]
    BY DEF Inv, TypeOK
  <2> QED
    BY <2>1, <2>2
<1>6. /\ check'.at = check.at /\ check'.kick = check.kick /\ check'.due = check.due + 1
      /\ Rounds(s)' = Rounds(s) + 1 /\ Rounds(s) \in Nat /\ (Kicks(s)' <=> Kicks(s))
  <2>1. check \in [at : 0..Len(Services), due : Nat,
                   kick : {"none", "kill", "spawn", "wait"}, waited : 0..KickTimeout]
    BY DEF Inv, TypeOK
  <2>2. check'.at = check.at /\ check'.kick = check.kick /\ check'.due = check.due + 1
    BY <2>1 DEF Tick
  <2>3. (Turn(s)' <=> Turn(s)) /\ (ToCome(s)' <=> ToCome(s))
    BY <2>2 DEF Turn, ToCome, Later
  <2> QED
    BY <2>1, <2>2, <2>3 DEF Rounds, Kicks
<1>7. /\ Below(tally[s]) <=> n >= 1 /\ n <= W
      /\ Below(t) <=> n >= 1 /\ n <= W
      /\ InGrace(tally[s]) => n = 0
      /\ n \in Nat
  BY <1>2, <1>3, Windows DEF Below, InPace, Sound
<1>8. Older(age) = (IF age = Oldest THEN Oldest ELSE age + 1)
  BY <1>1 DEF Older, Never
<1>0. \/ check.at = 0 /\ check.due = 0 /\ check.kick = "none"
      \/ check.kick = "wait" /\ ~Listens(Services[check.at])
  <2>1. \/ check.at = 0 /\ check.due = 0
        \/ check.kick = "wait" /\ ~Listens(Services[check.at])
    BY Zenon DEF Tick
  <2> QED
    BY <1>1, <2>1
<1>9. Kicks(s) => Beating(s) = {}
  <2> SUFFICES ASSUME Kicks(s) PROVE Beating(s) = {}
    OBVIOUS
  <2>1. ~Listens(Services[check.at]) /\ s = Services[check.at]
    BY <1>0 DEF Kicks, Turn
  <2> QED
    BY <2>1 DEF Listens, Beating
<1>10. Sound(tally[s], heartbeat[s].age, Kicks(s), Rounds(s))'
  <2>1. later \in Nat /\ Rounds(s) + 1 > 0 /\ (Kicks(s) => later > MaxElapsed)
    BY <1>1, <1>6, <1>8, <1>9, Windows DEF InPace, Sound
  <2>2. Kicks(s) => n > W /\ ~InGrace(t)
    BY <1>2, <1>3 DEF InPace, Sound
  <2>3. InGrace(t) => n = 0
    BY <1>3, <1>7
  <2>4. Below(t) => ~GivenUp(t)
    BY <1>3, <1>7 DEF InPace, Sound
  <2> HIDE DEF t, later
  <2> QED
    BY <1>3, <1>4, <1>5, <1>6, <2>1, <2>2, <2>3, <2>4 DEF Sound
<1>11. check.kick # "kill"
  BY <1>0
<1>12. CASE check.kick # "none"
  <2> HIDE DEF t, later
  <2> QED
    BY <1>6, <1>10, <1>11, <1>12 DEF InPace, Delayed, Due
<1>13. CASE check.kick = "none"
  <2>1. Rounds(s) = 0 /\ Rounds(s)' = 1 /\ check'.kick = "none" /\ ~(Kicks(s)')
    BY <1>0, <1>6, <1>13 DEF Rounds, ToCome, Kicks
  <2>2. Counted(t) = IF n >= 1 /\ n <= W THEN n ELSE 0
    BY <1>3, <1>7 DEF Counted
  <2>3. CASE ~Below(tally[s]) \/ Beating(s) # {} \/ OnTime(tally[s], age, 0)
    <3>1. Below(tally[s]) => ~(age <= MaxElapsed) /\ ~InGrace(tally[s])
      BY <1>7, <2>1 DEF InPace, Sound
    <3>5. OnTime(t, later, 1)
      <4>1. CASE Beating(s) # {}
        <5>1. later <= MaxElapsed
          BY <4>1, Windows
        <5> QED
          BY <5>1 DEF OnTime
      <4>2. CASE Beating(s) = {} /\ ~Below(tally[s])
        <5>1. later <= MaxElapsed \/ Aged(later, MaxElapsed + 1 + 0)
          BY <1>1, <1>8, <4>2, Windows DEF Aged
        <5>2. Counted(t) = 0
          BY <1>7, <2>2, <4>2
        <5> HIDE DEF t, later
        <5> QED
          BY <5>1, <5>2 DEF OnTime
      <4>3. CASE Beating(s) = {} /\ Below(tally[s]) /\ OnTime(tally[s], age, 0)
        <5>1. Aged(age, MaxElapsed + 0 + n)
          BY <1>2, <3>1, <4>3 DEF OnTime, Counted
        <5>2. Aged(later, MaxElapsed + 1 + n)
          BY <1>1, <1>7, <1>8, <4>3, <5>1, Windows DEF Aged
        <5>3. Counted(t) = n
          BY <1>7, <2>2, <4>3
        <5> HIDE DEF t, later
        <5> QED
          BY <5>2, <5>3 DEF OnTime
      <4> QED
        BY <2>3, <4>1, <4>2, <4>3
    <3> HIDE DEF t, later
    <3> QED
      BY <1>4, <1>5, <1>10, <2>1, <3>5 DEF InPace, Due
  <2>4. CASE Below(tally[s]) /\ ~OnTime(tally[s], age, 0)
    <3>1. KickedWithin(0) \/ KickedWithin(n + 0 - 1)
      BY <1>2, <1>13, <2>1, <2>4 DEF InPace, Delayed
    <3>2. PICK o \in Names : tally[o].last_kick \in 0..n - 1
      BY <1>7, <2>4, <3>1 DEF KickedWithin
    <3>3. tally'[o].last_kick = Older(tally[o].last_kick)
      <4>1. tally[o] \in TallyType
        BY PaceFacts
      <4> QED
        BY <4>1, AgedIs DEF Tick
    <3>4. tally'[o].last_kick \in 0..n
      BY <1>7, <2>4, <3>2, <3>3, Windows DEF Older, Never
    <3>5. n = (tally[s].failure_count + Rounds(s) - 1)' /\ (Rounds(s) <= 1)'
      BY <1>3, <1>4, <1>7, <2>1
    <3>6. Below(tally[s])'
      BY <1>4, <1>7, <2>4 DEF Below
    <3>7. Delayed(tally[s], Rounds(s))'
      BY <3>4, <3>5, <3>6 DEF Delayed, KickedWithin
    <3> HIDE DEF t, later
    <3> QED
      BY <1>10, <2>1, <3>7 DEF InPace, Due
  <2> QED
    BY <2>3, <2>4
<1> QED
  BY <1>12, <1>13

\* A process that dies while it writes its heartbeat makes it as old as can be.
LEMMA WorldPaces ==
    ASSUME OneEach, Inv, NEW s \in Names, InPace(s), NEW r \in Names, NEW p \in Pids,
           Ready(r, p) \/ Freeze(r, p) \/ Thaw(r, p) \/ Die(r, p) \/ DieWriting(r, p)
    PROVE  InPace(s)'
<1>1. UNCHANGED <<tally, check>>
  BY DEF Ready, Freeze, Thaw, Die, DieWriting
<1>2. UNCHANGED heartbeat \/ heartbeat' = [heartbeat EXCEPT ![r] = [pid |-> NoPid, age |-> Oldest]]
  BY DEF Ready, Freeze, Thaw, Die, DieWriting
<1>3. heartbeat \in [Names -> [pid : Pids \cup {NoPid}, age : Ages]]
  BY DEF Inv, TypeOK
<1>4. heartbeat'[s].age \in {heartbeat[s].age, Oldest}
  <2>1. CASE UNCHANGED heartbeat
    BY <2>1
  <2>2. CASE heartbeat' = [heartbeat EXCEPT ![r] = [pid |-> NoPid, age |-> Oldest]]
    BY <1>3, <2>2
  <2> QED
    BY <1>2, <2>1, <2>2
<1>5. Rounds(s)' = Rounds(s) /\ (Kicks(s)' <=> Kicks(s)) /\ Remembers
  BY <1>1 DEF Rounds, ToCome, Later, Turn, Kicks, Remembers
<1> QED
  BY <1>1, <1>4, <1>5, BystanderPaces

\* woodward begins with a grace for every service.
LEMMA GracePaces ==
    ASSUME OneEach
    PROVE  NewTally.failure_count = 0 /\ InGrace(NewTally) /\ ~Below(NewTally)
<1>1. NewTally.failure_count = 0 /\ NewTally.recovering = 0
  BY DEF NewTally
<1> QED
  BY <1>1, Windows DEF InGrace, Exceeds, Never, Below

\* Every step of woodward and of its services keeps the pace.
LEMMA NextPaces == OneEach /\ Inv /\ Paced /\ [Next]_vars => Paced'
<1> SUFFICES ASSUME OneEach, Inv, Paced, [Next]_vars, budget'.misreads = MaxMisreads,
                    NEW s \in Names
             PROVE  InPace(s)'
  BY DEF Paced
<1>1. InPace(s) /\ ~Misread
  BY NoMisread DEF Inv, Paced
<1>2. CASE UNCHANGED vars
  <2>1. UNCHANGED <<tally, heartbeat, check>>
    BY <1>2 DEF vars
  <2>2. Rounds(s)' = Rounds(s) /\ (Kicks(s)' <=> Kicks(s)) /\ Remembers
    BY <2>1 DEF Rounds, ToCome, Later, Turn, Kicks, Remembers
  <2> QED
    BY <1>1, <2>1, <2>2, BystanderPaces
<1>3. CASE StartRound
  <2>1. /\ check \in [at : 0..Len(Services), due : Nat,
                      kick : {"none", "kill", "spawn", "wait"}, waited : 0..KickTimeout]
        /\ check.kick # "none" => check.at > 0
    BY DEF Inv, TypeOK, KickInHand
  <2>2. check.at = 0 /\ check.due > 0 /\ check.kick = "none" /\ UNCHANGED <<tally, heartbeat>>
    BY <1>3, <2>1 DEF StartRound
  <2>3. check'.at = 1 /\ check'.due = check.due - 1 /\ check'.kick = "none"
    BY <1>3, <2>1, <2>2 DEF StartRound
  <2>4. ToCome(s)' /\ ~ToCome(s)
    <3>1. PICK i \in 1..Len(Services) : Services[i] = s
      BY DEF Names
    <3>2. i > 1 \/ i = 1
      BY ServiceOfRound
    <3> QED
      BY <2>2, <2>3, <3>1, <3>2 DEF ToCome, Later, Turn
  <2>5. Rounds(s)' = Rounds(s) /\ ~(Kicks(s)') /\ Remembers
    BY <2>1, <2>2, <2>3, <2>4 DEF Rounds, Kicks, Remembers
  <2> QED
    BY <1>1, <2>2, <2>5, BystanderPaces
<1>4. CASE Tick
  BY <1>1, <1>4, TickPaces
<1>5. CASE Restart
  <2>1. tally'[s] = NewTally /\ ~(Kicks(s)')
    BY <1>5 DEF Restart, Kicks
  <2> QED
    BY <2>1, GracePaces DEF InPace, Sound, OnTime, Due
<1>6. CASE \E u \in Names : CheckService(u) \/ Kick(u)
  BY <1>1, <1>6, CheckPaces, KickPaces
<1>7. CASE \E r \in Names, p \in Pids :
              Ready(r, p) \/ Freeze(r, p) \/ Thaw(r, p) \/ Die(r, p) \/ DieWriting(r, p)
  BY <1>1, <1>7, WorldPaces
<1> QED
  BY <1>2, <1>3, <1>4, <1>5, <1>6, <1>7 DEF Next

\* Whatever number of services woodward checks: while nobody was kicked in the last
\* RestartWindow, it kills a service for the heartbeats it missed no sooner than the
\* intervals that it says, however long the kicks before took, whatever rounds they
\* delayed and however often woodward was restarted.
THEOREM HastyCorrect ==
    ASSUME OneEach
    PROVE  Spec => []NoHastyKick
<1>1. Init => Paced
  <2> SUFFICES ASSUME Init, NEW s \in Names PROVE InPace(s)
    BY DEF Paced
  <2>1. tally[s] = NewTally /\ ~Kicks(s)
    BY DEF Init, Kicks
  <2> QED
    BY <2>1, GracePaces DEF InPace, Sound, OnTime, Due
<1>2. Inv /\ Paced => NoHastyKick
  <2> DEFINE s == Services[check.at]
  <2> SUFFICES ASSUME Inv, Paced, check.kick = "kill",
                      tally[s].failure_count = MaxMissedHeartbeats + 1,
                      budget.misreads = MaxMisreads,
                      \A o \in Names : tally[o].last_kick = Never
               PROVE  heartbeat[s].age > MaxElapsed + MaxMissedHeartbeats
    BY DEF NoHastyKick
  <2>1. s \in Names /\ Kicks(s)
    BY InTurn DEF Inv, KickInHand, Kicks, Turn
  <2>2. ~KickedWithin(RestartWindow)
    BY Windows DEF KickedWithin, Never
  <2> HIDE DEF s
  <2>3. Aged(heartbeat[s].age, MaxElapsed + MaxMissedHeartbeats + 1)
    BY <2>1, <2>2 DEF Paced, InPace, Due
  <2> QED
    BY <2>1, <2>3, PaceFacts, Windows DEF Aged
<1> QED
  BY <1>1, <1>2, InitTyped, NextPreserves, NextPaces, PTL DEF Spec
=============================================================================
