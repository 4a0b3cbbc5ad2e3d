---------------------------- MODULE ManagerProofs ----------------------------
(***************************************************************************)
(* At most one manager takes itself for the leader, and a rolling update   *)
(* hands the work over, for any number of managers, every command line     *)
(* with whole numbers for durations, and any number of failures.           *)
(***************************************************************************)
EXTENDS Manager, FiniteSetTheorems, TLAPS

\* Whoever is past the start has a command line that Validate accepts.
Validated(m) == proc[m] # "off" => Validate(opts)

\* Whoever stands for election, or has, does so with durations that the elector
\* accepts.
Configured(m) ==
    proc[m] = "candidate" \/ election[m] # "none" => opts.LeaderElect /\ ElectionConfigured(opts)

\* Who has a request under way, and that a leader's belongs to a round.
Placed(m) ==
    request[m] # "none" => IF Elected(m) THEN m \in trying ELSE proc[m] = "candidate"

\* How long ago a leader has written the lease: the answer was late by MaxAnswer
\* at most, then comes the pause, then a round.
Timely(m) ==
    /\ Elected(m) /\ m \notin trying =>
          pause[m] <= opts.RetryPeriod /\ renewed[m] <= MaxAnswer + pause[m]
    /\ m \in trying =>
          /\ round[m] <= opts.RenewDeadline
          /\ renewed[m] <= MaxAnswer + opts.RetryPeriod + round[m]
    /\ request[m] = "applied" => renewed[m] <= MaxAnswer

\* Without failures each attempt succeeds at once.
Faultless(m) ==
    spent.faults = 0 =>
        /\ m \notin trying /\ request[m] = "none"
        /\ Elected(m) => renewed[m] <= pause[m]

\* In an orderly stop the election goes on until the workers have ended.
Orderly(m) ==
    spent.overtimes = 0 =>
        /\ proc[m] # "overtime"
        /\ opts.LeaderElect /\ spent.faults = 0 /\ m \in AtWork => Elected(m)

Own(m) ==
    Validated(m) /\ Configured(m) /\ Placed(m) /\ Timely(m) /\ Faultless(m) /\ Orderly(m)

\* The premise of OneLeader.
Safe == Gap \/ spent.faults = 0

\* Who leads, or is about to.
Running(m) == Elected(m) \/ request[m] = "applied"

\* It holds the lease, so there are no two of them.
Holds == Safe => \A m \in Managers : Running(m) => holder = m

\* No candidate has waited longer than the leader has not written the lease.
NotOverdue ==
    Safe => \A m, n \in Managers : Running(m) /\ n \in fresh /\ n # m => seen[n] <= renewed[m]

ElectionInv == TypeOK /\ (\A m \in Managers : Own(m)) /\ Holds /\ NotOverdue

-----------------------------------------------------------------------------
\* The durations that an elector works with.
LEMMA Durations ==
    ASSUME ElectionInv, NEW m \in Managers, proc[m] = "candidate" \/ election[m] # "none"
    PROVE  /\ opts.LeaseDuration \in Nat /\ opts.RenewDeadline \in Nat /\ opts.RetryPeriod \in Nat
           /\ opts.RetryPeriod < opts.RenewDeadline /\ opts.RenewDeadline < opts.LeaseDuration
           /\ opts.LeaderElect
<1>1. opts \in OptionSets /\ Own(m)
  BY DEF ElectionInv, TypeOK
<1>2. opts.LeaseDuration \in Int /\ opts.RenewDeadline \in Int /\ opts.RetryPeriod \in Int
  BY <1>1, OptionsAssumption
<1>3. opts.LeaderElect /\ ElectionConfigured(opts)
  BY <1>1 DEF Own, Configured
<1>4. proc[m] # "off"
  <2>1. CASE proc[m] = "candidate"
    BY <2>1
  <2>2. CASE election[m] # "none"
    BY <2>2 DEF ElectionInv, TypeOK
  <2> QED
    BY <2>1, <2>2
<1>5. Validate(opts)
  BY <1>1, <1>4 DEF Own, Validated
<1>6. opts.LeaseDuration > 0 /\ opts.RenewDeadline > 0 /\ opts.RetryPeriod > 0
  BY <1>5, Zenon DEF Validate
<1> QED
  BY <1>2, <1>3, <1>6 DEF ElectionConfigured

\* Whoever leads has written the lease less than LeaseDuration ago.
LEMMA InTime ==
    ASSUME ElectionInv, Safe, NEW m \in Managers, Running(m)
    PROVE  renewed[m] < opts.LeaseDuration
<1>1. /\ renewed[m] \in Nat /\ pause[m] \in Nat /\ round[m] \in Nat /\ MaxAnswer \in Nat
      /\ Placed(m) /\ Timely(m) /\ Faultless(m)
  BY ManagerAssumption DEF ElectionInv, TypeOK, Own
<1>2. proc[m] = "candidate" \/ election[m] # "none"
  BY <1>1 DEF Running, Elected, Placed
<1>3. /\ opts.LeaseDuration \in Nat /\ opts.RenewDeadline \in Nat /\ opts.RetryPeriod \in Nat
      /\ opts.RetryPeriod < opts.RenewDeadline /\ opts.RenewDeadline < opts.LeaseDuration
  BY <1>2, Durations
<1>4. CASE Gap
  BY <1>1, <1>3, <1>4 DEF Running, Placed, Timely, Gap
<1>5. CASE spent.faults = 0
  BY <1>1, <1>3, <1>5 DEF Running, Placed, Timely, Faultless
<1> QED
  BY <1>4, <1>5 DEF Safe

\* Nobody leads while another may write the lease.
LEMMA NobodyElse ==
    ASSUME ElectionInv, Safe, NEW m \in Managers, NEW n \in Managers, n # m,
           Running(n)
    PROVE  holder = n /\ ~Expired(m)
<1>1. holder = n
  BY DEF ElectionInv, Holds
<1>2. m \in fresh => seen[m] <= renewed[n]
  BY DEF ElectionInv, NotOverdue
<1>3. renewed[n] < opts.LeaseDuration
  BY InTime
<1>4. seen[m] \in Nat /\ renewed[n] \in Nat /\ opts \in OptionSets
  BY DEF ElectionInv, TypeOK
<1>5. opts.LeaseDuration \in Int
  BY <1>4, OptionsAssumption
<1> QED
  BY <1>1, <1>2, <1>3, <1>4, <1>5 DEF Expired

\* What is counted.
LEMMA Counts ==
    ASSUME TypeOK
    PROVE  /\ spent.faults \in Nat /\ spent.overtimes \in Nat
           /\ Fault => /\ spent' \in [faults : Nat, stops : Nat, overtimes : Nat]
                       /\ spent'.faults > 0 /\ spent'.overtimes = spent.overtimes
           /\ spent' = [spent EXCEPT !.stops = @ + 1]
                 => /\ spent' \in [faults : Nat, stops : Nat, overtimes : Nat]
                    /\ spent'.faults = spent.faults /\ spent'.overtimes = spent.overtimes
           /\ spent' = [spent EXCEPT !.overtimes = @ + 1]
                 => /\ spent' \in [faults : Nat, stops : Nat, overtimes : Nat]
                    /\ spent'.faults = spent.faults /\ spent'.overtimes > 0
<1>1. spent \in [faults : Nat, stops : Nat, overtimes : Nat]
  BY DEF TypeOK
<1> QED
  BY <1>1 DEF Fault

\* What a step of m leaves alone of another.
Same(n) ==
    /\ proc'[n] = proc[n] /\ election'[n] = election[n] /\ request'[n] = request[n]
    /\ round'[n] = round[n] /\ pause'[n] = pause[n] /\ renewed'[n] = renewed[n]
    /\ n \in trying' <=> n \in trying
    /\ n \in fresh' => n \in fresh /\ seen'[n] = seen[n]

\* No count goes back to zero.
Counted == /\ spent'.faults = 0 => spent.faults = 0
           /\ spent'.overtimes = 0 => spent.overtimes = 0

\* A step of one manager: what has to be shown of it, and of the lease.
LEMMA OneStep ==
    ASSUME ElectionInv, TypeOK', UNCHANGED opts, Counted, NEW m \in Managers, Own(m)',
           \A n \in Managers \ {m} : Same(n),
           Safe' => (Running(m)' => holder' = m),
           Safe' => \A n \in Managers \ {m} : Running(n) => holder' = n,
           Safe' => \A n \in Managers \ {m} :
                       Running(m)' /\ n \in fresh' => seen'[n] <= renewed'[m],
           Safe' => \A n \in Managers \ {m} :
                       Running(n) /\ m \in fresh' => seen'[m] <= renewed[n]
    PROVE  ElectionInv'
<1>1. Safe' => Safe
  BY DEF Safe, Gap, Counted
<1>2. ASSUME NEW n \in Managers, n # m
      PROVE  Own(n)'
  <2>1. Own(n) /\ Same(n)
    BY <1>2 DEF ElectionInv
  <2>2. Validated(n)' /\ Configured(n)' /\ Placed(n)'
    BY <2>1 DEF Own, Same, Validated, Configured, Placed, Elected, Validate, ElectionConfigured
  <2>3. Timely(n)'
    BY <2>1 DEF Own, Same, Timely, Elected
  <2>4. Faultless(n)' /\ Orderly(n)'
    BY <2>1 DEF Own, Same, Counted, Faultless, Orderly, Elected, AtWork
  <2> QED
    BY <2>2, <2>3, <2>4 DEF Own
<1>3. \A n \in Managers \ {m} : Running(n)' <=> Running(n)
  BY DEF Same, Running, Elected
<1>4. Holds'
  BY <1>1, <1>3 DEF Holds
<1>5. NotOverdue'
  BY <1>1, <1>3 DEF NotOverdue, ElectionInv, Same
<1> QED
  BY <1>2, <1>4, <1>5 DEF ElectionInv

\* A step that leaves the lease alone, and starts no election.
LEMMA QuietStep ==
    ASSUME ElectionInv, TypeOK', UNCHANGED <<opts, holder>>, Counted,
           NEW m \in Managers, Own(m)',
           \A n \in Managers \ {m} : Same(n),
           m \in fresh' => m \in fresh /\ seen'[m] = seen[m],
           Running(m)' => Running(m) /\ renewed'[m] = renewed[m]
    PROVE  ElectionInv'
<1>1. Safe' => Safe
  BY DEF Safe, Gap, Counted
<1>2. Safe' => (Running(m)' => holder' = m)
  BY <1>1 DEF ElectionInv, Holds
<1>3. Safe' => \A n \in Managers \ {m} : Running(n) => holder' = n
  BY <1>1 DEF ElectionInv, Holds
<1>4. Safe' => \A n \in Managers \ {m} :
                  Running(m)' /\ n \in fresh' => seen'[n] <= renewed'[m]
  BY <1>1 DEF ElectionInv, NotOverdue, Same
<1>5. Safe' => \A n \in Managers \ {m} :
                  Running(n) /\ m \in fresh' => seen'[m] <= renewed[n]
  BY <1>1 DEF ElectionInv, NotOverdue
<1> QED
  BY <1>2, <1>3, <1>4, <1>5, OneStep

-----------------------------------------------------------------------------
(* Processes *)

\* A process goes from one stage to the next.
LEMMA StageKeeps ==
    ASSUME ElectionInv, NEW m \in Managers, NEW stage \in Stages, Become(m, stage),
           UNCHANGED <<opts, election, leaseVars, roundVars>>,
           spent' \in [faults : Nat, stops : Nat, overtimes : Nat],
           spent'.faults = spent.faults, Counted,
           Validate(opts),
           \/ /\ proc[m] \in {"off", "up", "ready"} /\ stage \in {"up", "ready", "candidate", "leading"}
              /\ stage = "candidate" => opts.LeaderElect /\ ElectionConfigured(opts)
              /\ stage = "leading" => ~opts.LeaderElect
           \/ /\ proc[m] \in {"leading", "stopping"} /\ stage \in {"stopping", "drained", "overtime"}
              /\ stage = "overtime" => spent'.overtimes > 0
    PROVE  ElectionInv'
<1> USE DEF leaseVars, roundVars
<1>1. Own(m) /\ TypeOK
  BY DEF ElectionInv
<1>2. /\ proc' = [proc EXCEPT ![m] = stage] /\ proc \in [Managers -> Stages]
      /\ election'[m] = election[m] /\ request'[m] = request[m]
  BY <1>1 DEF Become, TypeOK
<1>3. proc'[m] = stage
  BY <1>2
<1>4. TypeOK'
  BY <1>1, <1>2 DEF TypeOK, Elected
<1>5. \A n \in Managers \ {m} : Same(n)
  BY <1>2 DEF Same
<1>6. request[m] = "none" \/ Elected(m)
  BY <1>1 DEF Own, Placed
<1>7. Validated(m)' /\ Placed(m)' /\ Timely(m)' /\ Faultless(m)'
  BY <1>1, <1>6 DEF Own, Validated, Validate, Placed, Timely, Faultless, Elected
<1>8. Configured(m)'
  BY <1>1, <1>3 DEF Own, Configured, ElectionConfigured
<1>9. Orderly(m)'
  <2>1. stage \in {"leading", "stopping", "overtime"} /\ opts.LeaderElect => m \in AtWork
    BY DEF AtWork
  <2> QED
    BY <1>1, <1>3, <2>1 DEF Own, Orderly, Elected, AtWork, Counted
<1>10. Running(m)' => Running(m)
  BY DEF Running, Elected
<1> QED
  BY <1>4, <1>5, <1>7, <1>8, <1>9, <1>10, QuietStep DEF Own

\* A process ends.
LEMMA ExitKeeps ==
    ASSUME ElectionInv, NEW m \in Managers, Exit(m), UNCHANGED opts,
           spent' \in [faults : Nat, stops : Nat, overtimes : Nat], Counted
    PROVE  ElectionInv'
<1>1. TypeOK'
  BY ManagerAssumption DEF ElectionInv, TypeOK, Exit, Become, Forget, Elected, Stages
<1>2. \A n \in Managers \ {m} : Same(n)
  BY DEF ElectionInv, TypeOK, Exit, Become, Forget, Same
<1>3. /\ proc'[m] = "off" /\ election'[m] = "none" /\ request'[m] = "none"
      /\ m \notin trying' /\ m \notin fresh'
  BY DEF ElectionInv, TypeOK, Exit, Become, Forget
<1>4. Own(m)' /\ ~Running(m)'
  BY <1>3 DEF Own, Validated, Configured, Placed, Timely, Faultless, Orderly, Elected, AtWork, Running
<1>5. Safe' => \A n \in Managers \ {m} : Running(n) => holder' = n
  BY DEF Safe, Gap, Counted, ElectionInv, Holds, Exit
<1> QED
  BY <1>1, <1>2, <1>3, <1>4, <1>5, OneStep

-----------------------------------------------------------------------------
(* The election *)

LEMMA ObserveKeeps ==
    ASSUME ElectionInv, NEW m \in Managers, Observe(m)
    PROVE  ElectionInv'
<1> USE DEF leaseVars, roundVars
<1>1. TypeOK'
  BY DEF ElectionInv, TypeOK, Observe, Elected
<1>2. \A n \in Managers \ {m} : Same(n)
  BY DEF ElectionInv, TypeOK, Observe, Same
<1>3. Own(m)'
  BY DEF ElectionInv, Observe, Own, Validated, Validate, Configured, ElectionConfigured, Placed,
         Timely, Faultless, Orderly, Elected, AtWork
<1>4. Counted /\ (Safe' => Safe) /\ UNCHANGED <<opts, holder, renewed>> /\ (Running(m)' => Running(m))
  BY DEF Observe, Counted, Safe, Gap, Running, Elected
<1>5. seen'[m] = 0 /\ \A n \in Managers : renewed[n] \in Nat
  BY DEF ElectionInv, TypeOK, Observe
<1>6. Safe' => \A n \in Managers \ {m} :
                  Running(m)' /\ n \in fresh' => seen'[n] <= renewed'[m]
  BY <1>2, <1>4 DEF ElectionInv, NotOverdue, Same
<1>7. Safe' => \A n \in Managers \ {m} :
                  Running(n) /\ m \in fresh' => seen'[m] <= renewed[n]
  BY <1>5
<1>8. Safe' => \A n \in Managers : Running(n) => holder' = n
  BY <1>4 DEF ElectionInv, Holds
<1> QED
  BY <1>1, <1>2, <1>3, <1>4, <1>6, <1>7, <1>8, OneStep

\* Writing the lease: nobody else leads, and nobody has seen the new one.
LEMMA WriteFacts ==
    ASSUME ElectionInv, NEW m \in Managers, NEW knowing \in SUBSET {m}, Write(m, knowing),
           holder \in {"none", "", m} \/ Expired(m), UNCHANGED opts, Counted
    PROVE  /\ Safe' => (Running(m)' => holder' = m)
           /\ Safe' => \A n \in Managers \ {m} : Running(n) => holder' = n
           /\ Safe' => \A n \in Managers \ {m} :
                          Running(m)' /\ n \in fresh' => seen'[n] <= renewed'[m]
           /\ Safe' => \A n \in Managers \ {m} :
                          Running(n) /\ m \in fresh' => seen'[m] <= renewed[n]
           /\ renewed'[m] = 0
           /\ \A n \in Managers \ {m} : renewed'[n] = renewed[n] /\ n \notin fresh'
<1>1. Safe' => Safe
  BY DEF Safe, Gap, Counted
<1>2. ASSUME Safe, NEW n \in Managers \ {m}
      PROVE  ~Running(n)
  <2> SUFFICES ASSUME Running(n)
               PROVE  FALSE
    OBVIOUS
  <2>1. holder = n /\ ~Expired(m)
    BY <1>2, NobodyElse
  <2> QED
    BY <2>1, ManagerAssumption
<1>3. holder' = m /\ \A n \in Managers \ {m} : n \notin fresh'
  BY DEF Write
<1>4. renewed'[m] = 0 /\ \A n \in Managers \ {m} : renewed'[n] = renewed[n]
  BY DEF ElectionInv, TypeOK, Write
<1> QED
  BY <1>1, <1>2, <1>3, <1>4

\* What the durations and clocks of a manager in an election are.
LEMMA Clocks ==
    ASSUME ElectionInv, NEW m \in Managers
    PROVE  /\ MaxAnswer \in Nat /\ TypeOK /\ Own(m)
           /\ seen[m] \in Nat /\ round[m] \in Nat /\ pause[m] \in Nat /\ renewed[m] \in Nat
BY ManagerAssumption DEF ElectionInv, TypeOK

\* A manager that is elected, or a candidate, stays what it is.
LEMMA OwnKept ==
    ASSUME TypeOK, NEW m \in Managers, Own(m), UNCHANGED <<opts, proc, election>>, Counted,
           election[m] = "renewing" \/ proc[m] = "candidate",
           IF election[m] = "renewing" THEN request'[m] # "none" => m \in trying'
                                       ELSE TRUE,
           Timely(m)', Faultless(m)'
    PROVE  Own(m)'
<1>1. Validated(m)' /\ Configured(m)'
  BY DEF Own, Validated, Validate, Configured, ElectionConfigured
<1>2. Placed(m)'
  BY DEF Placed, Elected
<1>3. Orderly(m)'
  BY DEF Own, Orderly, Counted, AtWork, Elected
<1> QED
  BY <1>1, <1>2, <1>3 DEF Own

\* A candidate becomes the leader.
LEMMA OwnElected ==
    ASSUME NEW m \in Managers, UNCHANGED opts, opts.RetryPeriod \in Nat, MaxAnswer \in Nat,
           opts.LeaderElect, ElectionConfigured(opts), Validate(opts),
           proc'[m] = "leading", election'[m] = "renewing", request'[m] = "none",
           m \notin trying', pause'[m] = opts.RetryPeriod, renewed'[m] \in Nat,
           renewed'[m] <= MaxAnswer, spent'.faults = 0 => renewed'[m] = 0
    PROVE  Own(m)'
<1>1. Validated(m)' /\ Configured(m)' /\ Placed(m)'
  BY DEF Validated, Validate, Configured, ElectionConfigured, Placed
<1>2. Timely(m)' /\ Faultless(m)'
  BY DEF Timely, Faultless
<1>3. Orderly(m)'
  BY DEF Orderly, Elected
<1> QED
  BY <1>1, <1>2, <1>3 DEF Own

LEMMA AcquireKeeps ==
    ASSUME ElectionInv, NEW m \in Managers, Acquire(m)
    PROVE  ElectionInv'
<1> USE DEF leaseVars, roundVars
<1>1. /\ proc[m] = "candidate" /\ request[m] = "none" /\ election[m] = "none" /\ m \notin trying
      /\ holder \in {"none", "", m} \/ Expired(m)
      /\ UNCHANGED <<opts, trying, round>>
  BY DEF Acquire, ElectionInv, TypeOK, Elected
<1>2. /\ opts.RetryPeriod \in Nat /\ opts.LeaderElect /\ ElectionConfigured(opts) /\ Validate(opts)
      /\ MaxAnswer \in Nat /\ TypeOK /\ Own(m)
  BY <1>1, Durations, Clocks DEF Own, Configured, Validated
<1>3. CASE Write(m, {m}) /\ Lead(m) /\ UNCHANGED <<request, spent>>
  <2>1. TypeOK'
    BY <1>1, <1>2, <1>3, ManagerAssumption DEF TypeOK, Write, Lead, Become, Elected, Stages
  <2>2. \A n \in Managers \ {m} : Same(n)
    BY <1>1, <1>2, <1>3 DEF TypeOK, Write, Lead, Become, Same
  <2>3. /\ proc'[m] = "leading" /\ election'[m] = "renewing" /\ request'[m] = "none"
        /\ pause'[m] = opts.RetryPeriod /\ renewed'[m] = 0
    BY <1>1, <1>2, <1>3 DEF TypeOK, Write, Lead, Become
  <2>4. Own(m)'
    <3>1. m \notin trying' /\ UNCHANGED opts
      BY <1>1
    <3>2. 0 \in Nat /\ 0 <= MaxAnswer
      BY <1>2
    <3> QED
      BY <1>2, <2>3, <3>1, <3>2, OwnElected
  <2>5. Counted
    BY <1>3 DEF Counted
  <2> QED
    BY <1>1, <1>3, <2>1, <2>2, <2>4, <2>5, WriteFacts, OneStep
<1>4. CASE /\ Fault /\ Write(m, {})
           /\ request' \in {request, [request EXCEPT ![m] = "applied"]}
           /\ UNCHANGED <<proc, election, pause>>
  <2>1. /\ spent' \in [faults : Nat, stops : Nat, overtimes : Nat] /\ Counted /\ spent'.faults > 0
        /\ spent'.overtimes = spent.overtimes
    BY <1>2, <1>4, Counts DEF Counted
  <2>2. TypeOK'
    <3>1. request' \in [Managers -> {"none", "applied", "stuck"}]
      BY <1>2, <1>4 DEF TypeOK
    <3>2. /\ holder' = m /\ fresh' = {} /\ seen' \in [Managers -> Nat]
          /\ renewed' \in [Managers -> Nat]
      BY <1>2, <1>4 DEF TypeOK, Write
    <3> QED
      BY <1>1, <1>2, <1>4, <2>1, <3>1, <3>2, ManagerAssumption DEF TypeOK, Elected
  <2>3. \A n \in Managers \ {m} : Same(n)
    BY <1>1, <1>2, <1>4 DEF TypeOK, Write, Same
  <2>4. renewed'[m] = 0
    BY <1>2, <1>4 DEF TypeOK, Write
  <2>5. Timely(m)' /\ Faultless(m)'
    <3>1. m \notin trying' /\ election'[m] = "none"
      BY <1>1, <1>4
    <3>2. 0 <= MaxAnswer
      BY <1>2
    <3> QED
      BY <2>1, <2>4, <3>1, <3>2 DEF Timely, Faultless, Elected
  <2>6. Own(m)'
    BY <1>1, <1>2, <1>4, <2>1, <2>5, OwnKept
  <2> QED
    BY <1>1, <1>4, <2>1, <2>2, <2>3, <2>6, WriteFacts, OneStep
<1> QED
  BY <1>3, <1>4 DEF Acquire

\* An attempt in the round that is going on, or that begins with it.
LEMMA AttemptFacts ==
    ASSUME ElectionInv, NEW m \in Managers, Attempt(m)
    PROVE  /\ TypeOK /\ Own(m) /\ election[m] = "renewing" /\ request[m] = "none"
           /\ opts.LeaderElect /\ ElectionConfigured(opts) /\ Validate(opts)
           /\ UNCHANGED <<opts, proc, election>>
           /\ pause' \in [Managers -> Nat] /\ round' \in [Managers -> Nat]
           /\ pause'[m] = 0 /\ round'[m] \in Nat /\ round'[m] <= opts.RenewDeadline
           /\ opts.RetryPeriod \in Nat /\ opts.RenewDeadline \in Nat /\ MaxAnswer \in Nat
           /\ renewed[m] <= MaxAnswer + opts.RetryPeriod + round'[m]
           /\ \A n \in Managers \ {m} : pause'[n] = pause[n] /\ round'[n] = round[n]
<1>1. /\ election[m] = "renewing" /\ request[m] = "none" /\ UNCHANGED <<opts, proc, election>>
      /\ pause' = [pause EXCEPT ![m] = 0]
      /\ round' = IF m \in trying THEN round ELSE [round EXCEPT ![m] = 0]
  BY DEF Attempt, Elected
<1>2. TypeOK /\ Own(m) /\ MaxAnswer \in Nat
  BY Clocks
<1>3. /\ opts.LeaderElect /\ ElectionConfigured(opts) /\ Validate(opts)
      /\ opts.RetryPeriod \in Nat /\ opts.RenewDeadline \in Nat
  BY <1>1, <1>2, Durations DEF Own, Configured, Validated, TypeOK
<1>4. /\ pause' \in [Managers -> Nat] /\ pause'[m] = 0
      /\ \A n \in Managers \ {m} : pause'[n] = pause[n]
  BY <1>1, <1>2 DEF TypeOK
<1>5. /\ round' \in [Managers -> Nat]
      /\ round'[m] = IF m \in trying THEN round[m] ELSE 0
      /\ \A n \in Managers \ {m} : round'[n] = round[n]
  BY <1>1, <1>2 DEF TypeOK
<1>6. round'[m] <= opts.RenewDeadline /\ renewed[m] <= MaxAnswer + opts.RetryPeriod + round'[m]
  <2>1. renewed[m] \in Nat /\ pause[m] \in Nat
    BY <1>2 DEF TypeOK
  <2> QED
    BY <1>1, <1>2, <1>3, <1>5, <2>1 DEF Own, Timely, Elected
<1> QED
  BY <1>1, <1>2, <1>3, <1>4, <1>5, <1>6

LEMMA RenewKeeps ==
    ASSUME ElectionInv, NEW m \in Managers, Renew(m)
    PROVE  ElectionInv'
<1>1. /\ Attempt(m) /\ holder \in {m, ""} /\ Write(m, {m}) /\ trying' = trying \ {m}
      /\ UNCHANGED <<request, spent>> /\ Counted
  BY DEF Renew, Counted
<1>2. /\ TypeOK /\ Own(m) /\ election[m] = "renewing" /\ request[m] = "none"
      /\ UNCHANGED <<opts, proc, election>>
      /\ pause' \in [Managers -> Nat] /\ round' \in [Managers -> Nat] /\ pause'[m] = 0
      /\ opts.RetryPeriod \in Nat /\ MaxAnswer \in Nat
      /\ \A n \in Managers \ {m} : pause'[n] = pause[n] /\ round'[n] = round[n]
  BY <1>1, AttemptFacts
<1>3. TypeOK'
  BY <1>1, <1>2, ManagerAssumption DEF TypeOK, Write, Elected
<1>4. \A n \in Managers \ {m} : Same(n)
  BY <1>1, <1>2 DEF TypeOK, Write, Same
<1>5. renewed'[m] = 0
  BY <1>1, <1>2 DEF TypeOK, Write
<1>6. Timely(m)' /\ Faultless(m)'
  <2>1. m \notin trying' /\ request'[m] = "none"
    BY <1>1, <1>2
  <2>2. 0 <= opts.RetryPeriod /\ 0 <= MaxAnswer + 0
    BY <1>2
  <2>3. UNCHANGED opts /\ pause'[m] = 0 /\ renewed'[m] = 0
    BY <1>2, <1>5
  <2> QED
    BY <2>1, <2>2, <2>3 DEF Timely, Faultless
<1>7. Own(m)'
  BY <1>1, <1>2, <1>6, OwnKept
<1> QED
  BY <1>1, <1>2, <1>3, <1>4, <1>7, WriteFacts, OneStep

\* Not while m holds the lease: so only where there have been failures and there
\* is no gap.
LEMMA RenewRefusedKeeps ==
    ASSUME ElectionInv, NEW m \in Managers, RenewRefused(m)
    PROVE  ElectionInv'
<1>1. /\ Attempt(m) /\ holder # m /\ fresh' = fresh \cup {m} /\ seen' = [seen EXCEPT ![m] = 0]
      /\ trying' = trying \cup {m} /\ UNCHANGED <<holder, request, renewed, spent>> /\ Counted
  BY DEF RenewRefused, Counted
<1>2. /\ TypeOK /\ Own(m) /\ election[m] = "renewing" /\ request[m] = "none"
      /\ UNCHANGED <<opts, proc, election>>
      /\ pause' \in [Managers -> Nat] /\ round' \in [Managers -> Nat]
      /\ pause'[m] = 0 /\ round'[m] \in Nat /\ round'[m] <= opts.RenewDeadline
      /\ renewed[m] <= MaxAnswer + opts.RetryPeriod + round'[m]
      /\ \A n \in Managers \ {m} : pause'[n] = pause[n] /\ round'[n] = round[n]
  BY <1>1, AttemptFacts
<1>3. ~Safe /\ ~Safe'
  BY <1>1, <1>2 DEF ElectionInv, Holds, Running, Elected, Safe, Gap
<1>4. TypeOK'
  BY <1>1, <1>2 DEF TypeOK, Elected
<1>5. \A n \in Managers \ {m} : Same(n)
  BY <1>1, <1>2 DEF TypeOK, Same
<1>6. Own(m)'
  BY <1>1, <1>2, <1>3
     DEF Own, Validated, Validate, Configured, ElectionConfigured, Placed, Timely, Faultless,
         Orderly, Elected, AtWork, Safe
<1> QED
  BY <1>1, <1>2, <1>3, <1>4, <1>5, <1>6, OneStep

LEMMA RenewFailsKeeps ==
    ASSUME ElectionInv, NEW m \in Managers, RenewFails(m)
    PROVE  ElectionInv'
<1>1. Attempt(m) /\ Fault /\ trying' = trying \cup {m}
  BY DEF RenewFails
<1>2. /\ TypeOK /\ Own(m) /\ election[m] = "renewing" /\ request[m] = "none"
      /\ UNCHANGED <<opts, proc, election>>
      /\ pause' \in [Managers -> Nat] /\ round' \in [Managers -> Nat]
      /\ pause'[m] = 0 /\ round'[m] \in Nat /\ round'[m] <= opts.RenewDeadline
      /\ opts.RetryPeriod \in Nat /\ opts.RenewDeadline \in Nat /\ MaxAnswer \in Nat
      /\ renewed[m] <= MaxAnswer + opts.RetryPeriod + round'[m]
      /\ \A n \in Managers \ {m} : pause'[n] = pause[n] /\ round'[n] = round[n]
  BY <1>1, AttemptFacts
<1>3. /\ spent' \in [faults : Nat, stops : Nat, overtimes : Nat] /\ Counted /\ spent'.faults > 0
      /\ spent'.overtimes = spent.overtimes
  BY <1>1, <1>2, Counts DEF Counted
<1>4. CASE /\ fresh' \in {fresh, fresh \cup {m}}
           /\ request' \in {request, [request EXCEPT ![m] = "stuck"]}
           /\ UNCHANGED <<holder, seen, renewed>>
  <2>1. TypeOK'
    BY <1>1, <1>2, <1>3, <1>4 DEF TypeOK, Elected
  <2>2. \A n \in Managers \ {m} : Same(n)
    BY <1>1, <1>2, <1>4 DEF TypeOK, Same
  <2>3. request'[m] \in {"none", "stuck"}
    BY <1>2, <1>4 DEF TypeOK
  <2>4. Own(m)'
    <3>1. m \in trying' /\ renewed'[m] = renewed[m]
      BY <1>1, <1>4
    <3>2. Timely(m)' /\ Faultless(m)'
      BY <1>2, <1>3, <2>3, <3>1 DEF Timely, Faultless
    <3> QED
      BY <1>2, <1>3, <3>1, <3>2, OwnKept
  <2>5. Safe' => Safe /\ holder' = m /\ \A n \in Managers \ {m} : ~Running(n)
    BY <1>2, <1>3, <1>4 DEF ElectionInv, Holds, Running, Elected, Safe, Gap, Counted
  <2>6. Safe' => \A n \in Managers \ {m} :
                    Running(m)' /\ n \in fresh' => seen'[n] <= renewed'[m]
    BY <1>2, <1>4, <2>5 DEF ElectionInv, NotOverdue, Running, Elected
  <2> QED
    BY <1>2, <1>3, <2>1, <2>2, <2>4, <2>5, <2>6, OneStep
<1>5. CASE /\ holder \in {m, ""} /\ Write(m, {})
           /\ \E r \in {"none", "applied", "stuck"} : request' = [request EXCEPT ![m] = r]
  <2>1. TypeOK'
    <3>1. request' \in [Managers -> {"none", "applied", "stuck"}]
      BY <1>2, <1>5 DEF TypeOK
    <3>2. /\ holder' = m /\ fresh' = {} /\ seen' \in [Managers -> Nat]
          /\ renewed' \in [Managers -> Nat]
      BY <1>2, <1>5 DEF TypeOK, Write
    <3> QED
      BY <1>1, <1>2, <1>3, <3>1, <3>2, ManagerAssumption DEF TypeOK, Elected
  <2>2. \A n \in Managers \ {m} : Same(n)
    BY <1>1, <1>2, <1>5 DEF TypeOK, Write, Same
  <2>3. renewed'[m] = 0
    BY <1>2, <1>5 DEF TypeOK, Write
  <2>4. Own(m)'
    <3>1. m \in trying'
      BY <1>1
    <3>2. Timely(m)' /\ Faultless(m)'
      BY <1>2, <1>3, <2>3, <3>1 DEF Timely, Faultless
    <3> QED
      BY <1>2, <1>3, <3>1, <3>2, OwnKept
  <2> QED
    BY <1>2, <1>3, <1>5, <2>1, <2>2, <2>4, WriteFacts, OneStep
<1> QED
  BY <1>4, <1>5 DEF RenewFails

LEMMA AnsweredKeeps ==
    ASSUME ElectionInv, NEW m \in Managers, Answered(m)
    PROVE  ElectionInv'
<1>1. /\ request[m] = "applied" /\ request' = [request EXCEPT ![m] = "none"]
      /\ fresh' = IF holder = m THEN fresh \cup {m} ELSE fresh
      /\ UNCHANGED <<opts, holder, seen, round, renewed, spent>> /\ Counted
  BY DEF Answered, Counted
<1>2. TypeOK /\ Own(m) /\ MaxAnswer \in Nat /\ renewed[m] \in Nat /\ renewed[m] <= MaxAnswer
  BY <1>1, Clocks DEF Own, Timely
<1>3. /\ proc[m] = "candidate" \/ election[m] # "none"
      /\ ~Elected(m) => proc[m] = "candidate"
  BY <1>1, <1>2 DEF Own, Placed, Elected
<1>4. /\ opts.LeaderElect /\ ElectionConfigured(opts) /\ Validate(opts) /\ opts.RetryPeriod \in Nat
  BY <1>2, <1>3, Durations DEF Own, Configured, Validated, TypeOK
<1>5. Safe' => Safe /\ holder' = m /\ \A n \in Managers \ {m} : ~Running(n)
  BY <1>1 DEF ElectionInv, Holds, Running, Safe, Gap
<1>6. Safe' => \A n \in Managers \ {m} :
                  Running(m)' /\ n \in fresh' => seen'[n] <= renewed'[m]
  BY <1>1, <1>5 DEF ElectionInv, NotOverdue, Running
<1>7. CASE Elected(m)
  <2>1. trying' = trying \ {m} /\ pause' = [pause EXCEPT ![m] = 0] /\ UNCHANGED <<proc, election>>
    BY <1>7 DEF Answered
  <2>2. TypeOK'
    BY <1>1, <1>2, <2>1 DEF TypeOK, Elected
  <2>3. \A n \in Managers \ {m} : Same(n)
    BY <1>1, <1>2, <2>1 DEF TypeOK, Same
  <2>4. pause'[m] = 0 /\ request'[m] = "none"
    BY <1>1, <1>2, <2>1 DEF TypeOK
  <2>5. spent.faults # 0
    BY <1>1, <1>2 DEF Own, Faultless
  <2>6. Timely(m)' /\ Faultless(m)'
    BY <1>1, <1>2, <1>4, <2>1, <2>4, <2>5 DEF Timely, Faultless
  <2>7. Own(m)'
    BY <1>1, <1>2, <1>7, <2>1, <2>4, <2>6, OwnKept DEF Elected
  <2> QED
    BY <1>1, <1>5, <1>6, <2>2, <2>3, <2>7, OneStep
<1>8. CASE ~Elected(m)
  <2>1. Lead(m) /\ UNCHANGED trying /\ m \notin trying
    BY <1>2, <1>8 DEF Answered, TypeOK
  <2>2. TypeOK'
    BY <1>1, <1>2, <1>4, <2>1 DEF TypeOK, Lead, Become, Elected, Stages
  <2>3. \A n \in Managers \ {m} : Same(n)
    BY <1>1, <1>2, <2>1 DEF TypeOK, Lead, Become, Same
  <2>4. /\ proc'[m] = "leading" /\ election'[m] = "renewing" /\ request'[m] = "none"
        /\ pause'[m] = opts.RetryPeriod
    BY <1>1, <1>2, <2>1 DEF TypeOK, Lead, Become
  <2>5. spent.faults # 0
    BY <1>1, <1>2 DEF Own, Faultless
  <2>6. Own(m)'
    BY <1>1, <1>2, <1>4, <2>1, <2>4, <2>5, OwnElected
  <2> QED
    BY <1>1, <1>5, <1>6, <2>2, <2>3, <2>6, OneStep
<1> QED
  BY <1>7, <1>8

\* The elector leaves its loop: because a round has failed, which does not happen
\* without failures, or because the workers have ended or will not.
LEMMA StopRenewingKeeps ==
    ASSUME ElectionInv, NEW m \in Managers, Lose(m) \/ CancelElection(m)
    PROVE  ElectionInv'
<1> USE DEF leaseVars, roundVars
<1>1. /\ StopRenewing(m) /\ election[m] = "renewing"
      /\ m \in trying \/ proc[m] \in {"drained", "overtime"}
  BY DEF Lose, CancelElection, Elected
<1>2. TypeOK /\ Own(m)
  BY Clocks
<1>3. /\ election' = [election EXCEPT ![m] = "ending"]
      /\ request' = [request EXCEPT ![m] = "none"] /\ trying' = trying \ {m}
      /\ UNCHANGED <<opts, proc, holder, fresh, seen, round, pause, renewed, spent>>
  BY <1>1 DEF StopRenewing
<1>4. TypeOK'
  BY <1>1, <1>2, <1>3 DEF TypeOK, Elected
<1>5. \A n \in Managers \ {m} : Same(n)
  BY <1>2, <1>3 DEF TypeOK, Same
<1>6. election'[m] = "ending" /\ request'[m] = "none" /\ m \notin trying' /\ Counted
  BY <1>2, <1>3 DEF TypeOK, Counted
<1>7. Orderly(m)'
  BY <1>1, <1>2, <1>3, <1>6 DEF Own, Orderly, Faultless, AtWork, Elected
<1>8. Own(m)'
  BY <1>1, <1>2, <1>3, <1>6, <1>7
     DEF Own, Validated, Validate, Configured, ElectionConfigured, Placed, Timely, Faultless, Elected
<1>9. ~Running(m)'
  BY <1>6 DEF Running, Elected
<1> QED
  BY <1>3, <1>4, <1>5, <1>6, <1>8, <1>9, QuietStep

LEMMA ReleaseKeeps ==
    ASSUME ElectionInv, NEW m \in Managers, Release(m)
    PROVE  ElectionInv'
<1> USE DEF leaseVars, roundVars
<1>1. /\ election[m] = "ending" /\ election' = [election EXCEPT ![m] = "over"]
      /\ UNCHANGED <<opts, proc, seen, request, trying, round, pause, renewed>>
      /\ \/ holder = m /\ holder' = "" /\ fresh' = {} /\ UNCHANGED spent
         \/ (Fault \/ UNCHANGED spent) /\ UNCHANGED <<holder, fresh>>
  BY DEF Release
<1>2. TypeOK /\ Own(m)
  BY Clocks
<1>3. /\ spent' \in [faults : Nat, stops : Nat, overtimes : Nat] /\ Counted
      /\ spent'.overtimes = spent.overtimes
  <2>1. CASE UNCHANGED spent
    BY <1>2, <2>1 DEF Counted, TypeOK
  <2>2. CASE Fault
    BY <1>2, <2>2, Counts DEF Counted
  <2> QED
    BY <1>1, <2>1, <2>2
<1>4. TypeOK'
  <2>1. election' \in [Managers -> {"none", "renewing", "ending", "over"}]
    BY <1>1, <1>2 DEF TypeOK
  <2>2. holder' \in {holder, ""} /\ fresh' \subseteq Managers
    BY <1>1, <1>2 DEF TypeOK
  <2>3. trying' \subseteq {n \in Managers : Elected(n)'}
    BY <1>1, <1>2 DEF TypeOK, Elected
  <2>4. \A n \in Managers : /\ holder' = n => holder = n
                            /\ election'[n] # "none" => election[n] # "none"
    BY <1>1, <1>2, <2>2, ManagerAssumption DEF TypeOK
  <2> QED
    BY <1>1, <1>2, <1>3, <2>1, <2>2, <2>3, <2>4 DEF TypeOK
<1>5. \A n \in Managers \ {m} : Same(n)
  BY <1>1, <1>2 DEF TypeOK, Same
<1>6. election'[m] = "over" /\ request[m] = "none" /\ m \notin trying
  BY <1>1, <1>2 DEF TypeOK, Own, Placed, Elected
<1>7. Own(m)' /\ ~Running(m)'
  BY <1>1, <1>2, <1>3, <1>6
     DEF Own, Validated, Validate, Configured, ElectionConfigured, Placed, Timely, Faultless,
         Orderly, Elected, AtWork, Counted, Running
<1>8. Safe' => \A n \in Managers \ {m} : Running(n) => holder' = n
  BY <1>1, <1>3 DEF ElectionInv, Holds, Safe, Gap, Counted
<1>9. Safe' => \A n \in Managers \ {m} :
                  Running(n) /\ m \in fresh' => seen'[m] <= renewed[n]
  BY <1>1, <1>3 DEF ElectionInv, NotOverdue, Safe, Gap, Counted
<1> QED
  BY <1>1, <1>3, <1>4, <1>5, <1>7, <1>8, <1>9, OneStep

\* Time passes for the leader as fast as for who waits.
LEMMA TickKeeps ==
    ASSUME ElectionInv, Tick
    PROVE  ElectionInv'
<1>1. /\ UNCHANGED <<opts, proc, election, holder, fresh, request, trying, spent>>
      /\ TypeOK /\ (Safe' <=> Safe) /\ \A m \in Managers : Running(m)' <=> Running(m)
  BY DEF Tick, ElectionInv, Safe, Gap, Running, Elected
<1>2. \A m \in Managers :
         /\ seen[m] \in Nat /\ seen'[m] \in {seen[m], seen[m] + 1}
         /\ round[m] \in Nat /\ round'[m] = IF m \in trying THEN round[m] + 1 ELSE round[m]
         /\ pause[m] \in Nat
         /\ pause'[m] = IF Elected(m) /\ request[m] = "none" THEN pause[m] + 1 ELSE pause[m]
         /\ renewed[m] \in Nat
         /\ renewed'[m] = IF Running(m) THEN renewed[m] + 1 ELSE renewed[m]
  <2> TAKE m \in Managers
  <2>1. seen[m] \in Nat /\ round[m] \in Nat /\ pause[m] \in Nat /\ renewed[m] \in Nat
    BY <1>1 DEF TypeOK
  <2>2. seen'[m] \in {seen[m], seen[m] + 1}
    BY DEF Tick
  <2>3. /\ round'[m] = IF m \in trying THEN round[m] + 1 ELSE round[m]
        /\ pause'[m] = IF Elected(m) /\ request[m] = "none" THEN pause[m] + 1 ELSE pause[m]
        /\ renewed'[m] = IF Running(m) THEN renewed[m] + 1 ELSE renewed[m]
    BY DEF Tick, Running
  <2> QED
    BY <2>1, <2>2, <2>3
<1>3. TypeOK'
  <2>1. /\ \A m \in Managers : /\ seen'[m] \in Nat /\ round'[m] \in Nat
                               /\ pause'[m] \in Nat /\ renewed'[m] \in Nat
        /\ seen' = [m \in Managers |-> seen'[m]] /\ round' = [m \in Managers |-> round'[m]]
        /\ pause' = [m \in Managers |-> pause'[m]] /\ renewed' = [m \in Managers |-> renewed'[m]]
    BY <1>2 DEF Tick
  <2>2. /\ seen' \in [Managers -> Nat] /\ round' \in [Managers -> Nat]
        /\ pause' \in [Managers -> Nat] /\ renewed' \in [Managers -> Nat]
    BY <2>1
  <2> QED
    BY <1>1, <2>2 DEF TypeOK, Elected
<1>4. ASSUME NEW m \in Managers
      PROVE  Own(m)'
  <2>1. Own(m) /\ MaxAnswer \in Nat
    BY Clocks
  <2>2. /\ request[m] = "applied" => renewed[m] < MaxAnswer
        /\ Elected(m) /\ request[m] = "none" => pause[m] < opts.RetryPeriod
        /\ m \in trying => round[m] < opts.RenewDeadline
    BY DEF Tick
  <2>3. Elected(m) => /\ opts.RetryPeriod \in Nat /\ opts.RenewDeadline \in Nat
                      /\ m \notin trying => request[m] = "none"
    BY <2>1, Durations DEF Own, Placed, Elected
  <2>4. m \in trying => Elected(m)
    BY <1>1 DEF TypeOK
  <2>5. Timely(m)'
    BY <1>1, <1>2, <2>1, <2>2, <2>3, <2>4 DEF Own, Timely, Running, Elected
  <2>6. Faultless(m)'
    BY <1>1, <1>2, <2>1, <2>3 DEF Own, Faultless, Running, Elected
  <2>7. Validated(m)' /\ Configured(m)' /\ Placed(m)' /\ Orderly(m)'
    BY <1>1, <2>1
       DEF Own, Validated, Validate, Configured, ElectionConfigured, Placed, Orderly, Elected, AtWork
  <2> QED
    BY <2>5, <2>6, <2>7 DEF Own
<1>5. Holds'
  BY <1>1 DEF ElectionInv, Holds
<1>6. NotOverdue'
  BY <1>1, <1>2 DEF ElectionInv, NotOverdue
<1> QED
  BY <1>3, <1>4, <1>5, <1>6 DEF ElectionInv

-----------------------------------------------------------------------------
\* At the start nobody runs.
LEMMA ElectionInvInit == Init => ElectionInv
<1> SUFFICES ASSUME Init
             PROVE  ElectionInv
  OBVIOUS
<1>1. TypeOK
  BY ManagerAssumption DEF Init, TypeOK, Stages, Zero, Elected
<1>2. \A m \in Managers : Own(m) /\ ~Running(m)
  BY DEF Init, Own, Validated, Configured, Placed, Timely, Faultless, Orderly, Elected, AtWork, Running
<1>3. Holds /\ NotOverdue
  BY <1>2 DEF Holds, NotOverdue
<1> QED
  BY <1>1, <1>2, <1>3 DEF ElectionInv

\* Every step.
LEMMA ElectionInvNext == ElectionInv /\ [Next]_vars => ElectionInv'
<1> SUFFICES ASSUME ElectionInv, [Next]_vars
             PROVE  ElectionInv'
  OBVIOUS
<1>0. TypeOK /\ Stages = {"off", "up", "ready", "candidate", "leading", "stopping", "drained", "overtime"}
  BY DEF ElectionInv, Stages
<1>1. UNCHANGED spent => /\ spent' \in [faults : Nat, stops : Nat, overtimes : Nat]
                         /\ spent'.faults = spent.faults /\ Counted
  BY <1>0 DEF TypeOK, Counted
<1>2. \A m \in Managers : proc[m] # "off" => Validate(opts)
  BY DEF ElectionInv, Own, Validated
<1>3. ASSUME NEW m \in Managers, Launch(m)
      PROVE  ElectionInv'
  BY <1>0, <1>1, <1>3, StageKeeps DEF Launch
<1>4. ASSUME NEW m \in Managers, ReadEtcdSecret(m)
      PROVE  ElectionInv'
  <2>1. \/ Exit(m)
        \/ Become(m, "ready") /\ UNCHANGED <<election, leaseVars, roundVars>>
    BY <1>4 DEF ReadEtcdSecret
  <2>2. proc[m] = "up" /\ UNCHANGED <<opts, spent>>
    BY <1>4 DEF ReadEtcdSecret
  <2> QED
    BY <1>0, <1>1, <1>2, <2>1, <2>2, StageKeeps, ExitKeeps
<1>5. ASSUME NEW m \in Managers, StartManager(m)
      PROVE  ElectionInv'
  <2>1. proc[m] = "ready" /\ UNCHANGED <<opts, spent>> /\ Validate(opts)
    BY <1>2, <1>5 DEF StartManager
  <2>2. CASE opts.LeaderElect /\ ~ElectionConfigured(opts)
    BY <1>1, <1>5, <2>1, <2>2, ExitKeeps DEF StartManager
  <2>3. CASE opts.LeaderElect /\ ElectionConfigured(opts)
    <3>1. Become(m, "candidate") /\ UNCHANGED <<election, leaseVars, roundVars>>
      BY <1>5, <2>3 DEF StartManager
    <3> QED
      BY <1>0, <1>1, <2>1, <2>3, <3>1, StageKeeps
  <2>4. CASE ~opts.LeaderElect
    <3>1. Become(m, "leading") /\ UNCHANGED <<election, leaseVars, roundVars>>
      BY <1>5, <2>4 DEF StartManager
    <3> QED
      BY <1>0, <1>1, <2>1, <2>4, <3>1, StageKeeps
  <2> QED
    BY <2>2, <2>3, <2>4
<1>6. ASSUME NEW m \in Managers, Signal(m)
      PROVE  ElectionInv'
  <2>1. /\ spent' \in [faults : Nat, stops : Nat, overtimes : Nat]
        /\ spent'.faults = spent.faults /\ Counted
    BY <1>0, <1>6, Counts DEF Signal, Counted
  <2> QED
    BY <1>0, <1>2, <1>6, <2>1, StageKeeps DEF Signal
<1>7. ASSUME NEW m \in Managers, WorkersEnd(m)
      PROVE  ElectionInv'
  BY <1>0, <1>1, <1>2, <1>7, StageKeeps DEF WorkersEnd
<1>8. ASSUME NEW m \in Managers, GraceOver(m)
      PROVE  ElectionInv'
  <2>1. /\ spent' \in [faults : Nat, stops : Nat, overtimes : Nat]
        /\ spent'.faults = spent.faults /\ spent'.overtimes > 0 /\ Counted
    BY <1>0, <1>8, Counts DEF GraceOver, Counted
  <2> QED
    BY <1>0, <1>2, <1>8, <2>1, StageKeeps DEF GraceOver
<1>9. ASSUME NEW m \in Managers, ProcessEnds(m)
      PROVE  ElectionInv'
  BY <1>1, <1>9, ExitKeeps DEF ProcessEnds
<1>10. ASSUME NEW m \in Managers, Die(m)
       PROVE  ElectionInv'
  <2>1. spent' \in [faults : Nat, stops : Nat, overtimes : Nat] /\ Counted
    BY <1>0, <1>10, Counts DEF Die, Counted
  <2> QED
    BY <1>10, <2>1, ExitKeeps DEF Die
<1>11. CASE UNCHANGED vars
  <2>1. /\ UNCHANGED <<opts, proc, election, holder, fresh, seen, request, trying, round, pause,
                       renewed, spent>>
        /\ TypeOK' /\ (Safe' <=> Safe) /\ \A m \in Managers : Running(m)' <=> Running(m)
    BY <1>0, <1>11 DEF vars, leaseVars, roundVars, TypeOK, Elected, Safe, Gap, Running
  <2>2. ASSUME NEW m \in Managers
        PROVE  Own(m)'
    BY <2>1
       DEF ElectionInv, Own, Validated, Validate, Configured, ElectionConfigured, Placed, Timely,
           Faultless, Orderly, Elected, AtWork
  <2> QED
    BY <2>1, <2>2 DEF ElectionInv, Holds, NotOverdue
<1> QED
  BY <1>3, <1>4, <1>5, <1>6, <1>7, <1>8, <1>9, <1>10, <1>11, AcquireKeeps, ObserveKeeps,
     AnsweredKeeps, RenewKeeps, RenewRefusedKeeps, RenewFailsKeeps, StopRenewingKeeps,
     ReleaseKeeps, TickKeeps DEF Next

-----------------------------------------------------------------------------
\* The types of the managers' and the electors' state and of the lease; only a
\* process that runs has its name on the lease, and only one that leads, or has
\* led and has not ended yet, has an election.
THEOREM ManagerTypeCorrect == Spec => []TypeOK
<1>1. ElectionInv => TypeOK
  BY DEF ElectionInv
<1> QED
  BY <1>1, ElectionInvInit, ElectionInvNext, PTL DEF Spec

\* At most one manager takes itself for the leader, where the lease duration is
\* greater than a late answer, a retry period and a renew deadline together, or
\* where no request for the lease has failed: for any number of managers, deaths,
\* stops and grace periods that are over.
THEOREM AtMostOneLeader == Spec => []OneLeader
<1>1. ElectionInv => OneLeader
  BY DEF ElectionInv, Holds, Safe, Running, OneLeader
<1> QED
  BY <1>1, ElectionInvInit, ElectionInvNext, PTL DEF Spec

\* A rolling update without failed requests never has the workers of two managers
\* run, for any durations that are accepted.
THEOREM AlwaysHandedOver == Spec => []HandedOver
<1>1. ASSUME ElectionInv
      PROVE  HandedOver
  <2> SUFFICES ASSUME opts.LeaderElect, spent.faults = 0, spent.overtimes = 0
               PROVE  Cardinality(AtWork) <= 1
    BY DEF HandedOver
  <2>1. \A m \in AtWork : m \in Managers /\ Elected(m)
    BY <1>1 DEF ElectionInv, Own, Orderly, AtWork
  <2>2. AtWork \subseteq {holder}
    BY <1>1, <2>1 DEF ElectionInv, Holds, Safe, Running
  <2>3. IsFiniteSet({holder}) /\ Cardinality({holder}) = 1
    BY FS_Singleton
  <2> QED
    BY <2>2, <2>3, FS_Subset
<1> QED
  BY <1>1, ElectionInvInit, ElectionInvNext, PTL DEF Spec
===============================================================================
