------------------------------- MODULE Manager -------------------------------
(***************************************************************************)
(* The manager process (cmd/manager/app and its options): what it asks     *)
(* before it works, and several of them electing a leader, as during a     *)
(* rolling update.  The election itself is client-go's, started and ended  *)
(* by controller-runtime, with the options' durations; of it the manager   *)
(* chooses LeaderElectionReleaseOnCancel.                                  *)
(*                                                                         *)
(* All clocks run at one rate.  A process that has died comes back with    *)
(* another identity, so a lease that it held is nobody's who is alive.     *)
(***************************************************************************)
EXTENDS Integers, Sequences, FiniteSets

CONSTANTS
    Managers,     \* processes
    OptionSets,   \* command lines
    Secrets,      \* namespace and name of the secrets of the host cluster
    MaxAnswer,    \* bound: how late the answer to a request for the lease comes
    MaxFaults,    \* bound: requests for the lease that fail or are not answered at once
    MaxStops,     \* bound: processes that die or are told to stop
    MaxOvertimes  \* bound: stops whose grace period ends before the workers do

ASSUME ManagerAssumption ==
    /\ Managers # {} /\ Managers \cap {"none", "", "dead"} = {}
    /\ MaxAnswer \in Nat /\ MaxFaults \in Nat /\ MaxStops \in Nat /\ MaxOvertimes \in Nat

ASSUME OptionsAssumption ==
    \A o \in OptionSets : /\ o.LeaseDuration \in Int /\ o.RenewDeadline \in Int
                          /\ o.RetryPeriod \in Int /\ o.LeaderElect \in BOOLEAN

VARIABLES
    opts,      \* the command line, the same for all
    proc,      \* what a process is at
    election,  \* what its elector is at
    holder,    \* of the lease: "none" (no lease yet), "" (released), a manager, "dead"
    fresh,     \* who has observed the lease as it is
    seen,      \* how long ago
    request,   \* an attempt under way: applied and to be answered, or never answered
    trying,    \* whose round of attempts to renew goes on
    round,     \* for how long
    pause,     \* how long ago an elected manager has tried to renew
    renewed,   \* how long ago it has written the lease
    spent      \* how often each bounded event has happened

leaseVars == <<holder, fresh, seen>>
roundVars == <<request, trying, round, pause, renewed>>
vars == <<opts, proc, election, leaseVars, roundVars, spent>>

Stages == {"off", "up", "ready", "candidate", "leading", "stopping", "drained", "overtime"}

\* A manager whose workers run, or have not ended yet.
AtWork == {m \in Managers : proc[m] \in {"leading", "stopping", "overtime"}}

\* A manager that takes itself for the leader, and keeps renewing the lease.
Elected(m) == election[m] = "renewing"

\* A name on the lease, and an election, belong to a process that runs.
TypeOK ==
    /\ opts \in OptionSets
    /\ proc \in [Managers -> Stages]
    /\ election \in [Managers -> {"none", "renewing", "ending", "over"}]
    /\ holder \in {"none", "", "dead"} \cup Managers
    /\ fresh \subseteq Managers
    /\ request \in [Managers -> {"none", "applied", "stuck"}]
    /\ trying \subseteq {m \in Managers : Elected(m)}
    /\ seen \in [Managers -> Nat] /\ round \in [Managers -> Nat]
    /\ pause \in [Managers -> Nat] /\ renewed \in [Managers -> Nat]
    /\ spent \in [faults : Nat, stops : Nat, overtimes : Nat]
    /\ \A m \in Managers : /\ holder = m => proc[m] \notin {"off", "up", "ready"}
                           /\ election[m] # "none" => proc[m] \notin {"off", "up", "ready", "candidate"}

Zero == [m \in Managers |-> 0]

Init ==
    /\ opts \in OptionSets
    /\ proc = [m \in Managers |-> "off"]
    /\ election = [m \in Managers |-> "none"]
    /\ holder = "none" /\ fresh = {} /\ seen = Zero
    /\ request = [m \in Managers |-> "none"]
    /\ trying = {} /\ round = Zero /\ pause = Zero /\ renewed = Zero
    /\ spent = [faults |-> 0, stops |-> 0, overtimes |-> 0]

-----------------------------------------------------------------------------
(* Before the start *)

\* Options.Validate: each duration for itself.
Validate(o) ==
    /\ o.LeaseDuration > 0 /\ o.RenewDeadline > 0 /\ o.RetryPeriod > 0
    /\ o.EtcdServers # ""
    /\ o.EtcdSecret # <<>>

\* SplitMetaNamespaceKey of the parts between slashes, and the default.
Splits(parts) == Len(parts) \in {1, 2}

EtcdSecretOf(parts) ==
    IF Len(parts) = 1 \/ parts[1] = ""
    THEN <<"default", parts[Len(parts)]>>
    ELSE parts

\* What NewLeaderElector asks of the durations (JitterFactor is 1.2).
ElectionConfigured(o) ==
    /\ o.LeaseDuration > o.RenewDeadline
    /\ 5 * o.RenewDeadline > 6 * o.RetryPeriod

Become(m, stage) == proc' = [proc EXCEPT ![m] = stage]

\* What a process knew goes with it.
Forget(m) ==
    /\ election' = [election EXCEPT ![m] = "none"]
    /\ fresh' = fresh \ {m} /\ seen' = [seen EXCEPT ![m] = 0]
    /\ request' = [request EXCEPT ![m] = "none"] /\ trying' = trying \ {m}
    /\ round' = [round EXCEPT ![m] = 0] /\ pause' = [pause EXCEPT ![m] = 0]
    /\ renewed' = [renewed EXCEPT ![m] = 0]

\* Mutant of Exit: the name on the lease comes back with the process.
ExitByName(m) == Become(m, "off") /\ Forget(m) /\ UNCHANGED holder

\* The lease keeps the name of a process that is no more.
Exit(m) ==
    /\ Become(m, "off")
    /\ Forget(m)
    /\ holder' = IF holder = m THEN "dead" ELSE holder

\* A command line that is refused ends the process before it does anything.
Launch(m) ==
    /\ proc[m] = "off"
    /\ Validate(opts)
    /\ Become(m, "up")
    /\ UNCHANGED <<opts, election, leaseVars, roundVars, spent>>

ReadEtcdSecret(m) ==
    /\ proc[m] = "up"
    /\ IF Splits(opts.EtcdSecret) /\ EtcdSecretOf(opts.EtcdSecret) \in Secrets
       THEN Become(m, "ready") /\ UNCHANGED <<election, leaseVars, roundVars>>
       ELSE Exit(m)
    /\ UNCHANGED <<opts, spent>>

StartManager(m) ==
    /\ proc[m] = "ready"
    /\ IF opts.LeaderElect /\ ~ElectionConfigured(opts)
       THEN Exit(m)
       ELSE /\ Become(m, IF opts.LeaderElect THEN "candidate" ELSE "leading")
            /\ UNCHANGED <<election, leaseVars, roundVars>>
    /\ UNCHANGED <<opts, spent>>

-----------------------------------------------------------------------------
(* Leader election *)

Fault ==
    /\ spent.faults < MaxFaults
    /\ spent' = [spent EXCEPT !.faults = @ + 1]

\* The lease is written by m; only who is in knowing has seen it.
Write(m, knowing) ==
    /\ holder' = m
    /\ fresh' = knowing
    /\ seen' = [seen EXCEPT ![m] = 0]
    /\ renewed' = [renewed EXCEPT ![m] = 0]

\* A candidate trusts its own clock only: it waits from when it saw the lease.
Expired(m) == m \in fresh /\ seen[m] >= opts.LeaseDuration

\* The workers start, and the first round of renewals with them.
Lead(m) ==
    /\ Become(m, "leading")
    /\ election' = [election EXCEPT ![m] = "renewing"]
    /\ pause' = [pause EXCEPT ![m] = opts.RetryPeriod]

\* The answer may be late, or lost: then m finds its own name on the lease.
Acquire(m) ==
    /\ proc[m] = "candidate" /\ request[m] = "none"
    /\ holder \in {"none", "", m} \/ Expired(m)
    /\ \/ Write(m, {m}) /\ Lead(m) /\ UNCHANGED <<request, spent>>
       \/ /\ Fault
          /\ Write(m, {})
          /\ request' \in {request, [request EXCEPT ![m] = "applied"]}
          /\ UNCHANGED <<proc, election, pause>>
    /\ UNCHANGED <<opts, trying, round>>

\* Mutant of Observe: every look at the lease starts the wait again.
ObserveAgain(m) ==
    /\ proc[m] = "candidate" /\ request[m] = "none"
    /\ holder \notin {"none", "", m}
    /\ fresh' = fresh \cup {m}
    /\ seen' = [seen EXCEPT ![m] = 0]
    /\ UNCHANGED <<opts, proc, election, holder, roundVars, spent>>

Observe(m) ==
    /\ proc[m] = "candidate" /\ request[m] = "none"
    /\ holder \notin {"none", "", m}
    /\ m \notin fresh
    /\ fresh' = fresh \cup {m}
    /\ seen' = [seen EXCEPT ![m] = 0]
    /\ UNCHANGED <<opts, proc, election, holder, roundVars, spent>>

\* An attempt every RetryPeriod.  The first one after a success, RetryPeriod
\* later, starts a round, which has RenewDeadline for all its attempts.
Attempt(m) ==
    /\ Elected(m) /\ request[m] = "none"
    /\ pause[m] >= opts.RetryPeriod
    /\ pause' = [pause EXCEPT ![m] = 0]
    /\ round' = IF m \in trying THEN round ELSE [round EXCEPT ![m] = 0]
    /\ UNCHANGED <<opts, proc, election>>

\* A released lease is taken again, should somebody have had it meanwhile.
Renew(m) ==
    /\ Attempt(m)
    /\ holder \in {m, ""}
    /\ Write(m, {m})
    /\ trying' = trying \ {m}
    /\ UNCHANGED <<request, spent>>

\* The lease is another's.  It does not expire within a round, which is shorter.
RenewRefused(m) ==
    /\ Attempt(m)
    /\ holder \notin {m, ""}
    /\ fresh' = fresh \cup {m} /\ seen' = [seen EXCEPT ![m] = 0]
    /\ trying' = trying \cup {m}
    /\ UNCHANGED <<holder, request, renewed, spent>>

\* It fails, perhaps between its read and its write, or is never answered; or it
\* is applied, and the answer is late or lost.
RenewFails(m) ==
    /\ Attempt(m)
    /\ Fault
    /\ trying' = trying \cup {m}
    /\ \/ /\ fresh' \in {fresh, fresh \cup {m}}
          /\ request' \in {request, [request EXCEPT ![m] = "stuck"]}
          /\ UNCHANGED <<holder, seen, renewed>>
       \/ /\ holder \in {m, ""}
          /\ Write(m, {})
          /\ \E r \in {"none", "applied", "stuck"} : request' = [request EXCEPT ![m] = r]

\* A late answer makes a candidate the leader, or ends a leader's round.
Answered(m) ==
    /\ request[m] = "applied"
    /\ request' = [request EXCEPT ![m] = "none"]
    /\ fresh' = IF holder = m THEN fresh \cup {m} ELSE fresh
    /\ IF Elected(m)
       THEN /\ trying' = trying \ {m} /\ pause' = [pause EXCEPT ![m] = 0]
            /\ UNCHANGED <<proc, election>>
       ELSE Lead(m) /\ UNCHANGED trying
    /\ UNCHANGED <<opts, holder, seen, round, renewed, spent>>

\* The elector leaves its loop; what it has asked for is cancelled.
StopRenewing(m) ==
    /\ election' = [election EXCEPT ![m] = "ending"]
    /\ request' = [request EXCEPT ![m] = "none"]
    /\ trying' = trying \ {m}
    /\ UNCHANGED <<opts, proc, leaseVars, round, pause, renewed, spent>>

\* "failed to renew lease": a round is over without success.  The workers run on.
Lose(m) ==
    /\ Elected(m) /\ m \in trying
    /\ round[m] >= opts.RenewDeadline
    /\ StopRenewing(m)

\* Mutant of Release: the lease is released whoever has it.
ReleaseAnyway(m) ==
    /\ election[m] = "ending"
    /\ election' = [election EXCEPT ![m] = "over"]
    /\ holder' = "" /\ fresh' = {}
    /\ UNCHANGED <<opts, proc, seen, roundVars, spent>>

\* LeaderElectionReleaseOnCancel: when it leaves the loop, for whatever reason.
\* The write is refused if the lease is not as m has last seen it.
Release(m) ==
    /\ election[m] = "ending"
    /\ election' = [election EXCEPT ![m] = "over"]
    /\ IF holder = m /\ m \in fresh
       THEN \/ holder' = "" /\ fresh' = {} /\ UNCHANGED spent
            \/ Fault /\ UNCHANGED <<holder, fresh>>
       ELSE UNCHANGED <<holder, fresh, spent>>
    /\ UNCHANGED <<opts, proc, seen, roundVars>>

\* Time passes, but not past what is due.
Tick ==
    /\ \A m \in Managers :
          /\ request[m] = "applied" => renewed[m] < MaxAnswer
          /\ Elected(m) /\ request[m] = "none" => pause[m] < opts.RetryPeriod
          /\ m \in trying => round[m] < opts.RenewDeadline
    /\ seen' = [m \in Managers |->
                   IF m \in fresh /\ seen[m] < opts.LeaseDuration THEN seen[m] + 1 ELSE seen[m]]
    /\ round' = [m \in Managers |-> IF m \in trying THEN round[m] + 1 ELSE round[m]]
    /\ pause' = [m \in Managers |->
                    IF Elected(m) /\ request[m] = "none" THEN pause[m] + 1 ELSE pause[m]]
    /\ renewed' = [m \in Managers |->
                      IF Elected(m) \/ request[m] = "applied" THEN renewed[m] + 1 ELSE renewed[m]]
    /\ UNCHANGED <<opts, proc, election, holder, fresh, request, trying, spent>>

-----------------------------------------------------------------------------
(* The end *)

\* A signal: the workers end their passes, the lease is renewed meanwhile.
Signal(m) ==
    /\ proc[m] = "leading" /\ election[m] # "over"
    /\ spent.stops < MaxStops
    /\ spent' = [spent EXCEPT !.stops = @ + 1]
    /\ Become(m, "stopping")
    /\ UNCHANGED <<opts, election, leaseVars, roundVars>>

WorkersEnd(m) ==
    /\ proc[m] = "stopping"
    /\ Become(m, "drained")
    /\ UNCHANGED <<opts, election, leaseVars, roundVars, spent>>

\* GracefulShutdownTimeout, 30 seconds, ends before the workers do.
GraceOver(m) ==
    /\ proc[m] = "stopping"
    /\ spent.overtimes < MaxOvertimes
    /\ spent' = [spent EXCEPT !.overtimes = @ + 1]
    /\ Become(m, "overtime")
    /\ UNCHANGED <<opts, election, leaseVars, roundVars>>

\* Mutant of CancelElection: at the signal, while the workers still run.
CancelAtOnce(m) ==
    /\ proc[m] \in {"stopping", "drained", "overtime"}
    /\ Elected(m)
    /\ StopRenewing(m)

CancelElection(m) ==
    /\ proc[m] \in {"drained", "overtime"}
    /\ Elected(m)
    /\ StopRenewing(m)

\* After a stop, or with "leader election lost".
ProcessEnds(m) ==
    /\ \/ proc[m] = "leading" /\ election[m] = "over"
       \/ proc[m] \in {"drained", "overtime"} /\ (opts.LeaderElect => election[m] = "over")
    /\ Exit(m)
    /\ UNCHANGED <<opts, spent>>

\* At any time; a candidate that is told to stop just ends.
Die(m) ==
    /\ proc[m] # "off"
    /\ spent.stops < MaxStops
    /\ spent' = [spent EXCEPT !.stops = @ + 1]
    /\ Exit(m)
    /\ UNCHANGED opts

Next ==
    \/ \E m \in Managers :
          \/ Launch(m) \/ ReadEtcdSecret(m) \/ StartManager(m)
          \/ Acquire(m) \/ Observe(m) \/ Answered(m)
          \/ Renew(m) \/ RenewRefused(m) \/ RenewFails(m) \/ Lose(m) \/ Release(m)
          \/ Signal(m) \/ WorkersEnd(m) \/ GraceOver(m) \/ CancelElection(m)
          \/ ProcessEnds(m) \/ Die(m)
    \/ Tick

Spec == Init /\ [][Next]_vars

\* Deployments start their pods again, candidates keep trying, time goes on, and
\* the workers or the grace period end.
Fairness ==
    /\ \A m \in Managers :
          /\ WF_vars(Launch(m)) /\ WF_vars(ReadEtcdSecret(m)) /\ WF_vars(StartManager(m))
          /\ WF_vars(Acquire(m)) /\ WF_vars(Observe(m)) /\ WF_vars(Answered(m))
          /\ WF_vars(Renew(m) \/ RenewRefused(m) \/ RenewFails(m))
          /\ WF_vars(Lose(m)) /\ WF_vars(Release(m))
          /\ WF_vars(WorkersEnd(m) \/ GraceOver(m))
          /\ WF_vars(CancelElection(m)) /\ WF_vars(ProcessEnds(m))
    /\ WF_vars(Tick)

FairSpec == Spec /\ Fairness

-----------------------------------------------------------------------------
(* Properties *)

\* The lease outlives the last round of attempts of a leader that cannot renew
\* it: it begins RetryPeriod after the last answer.
Gap == opts.LeaseDuration > MaxAnswer + opts.RetryPeriod + opts.RenewDeadline

\* No two managers take themselves for the leader, through failed, late and lost
\* requests, deaths, stops and releases, if there is a gap between the durations:
\* neither Validate nor the elector asks for one.  Without failures any durations
\* that they accept will do.  The workers of one whose election is over may still
\* run beside the new leader's, until its process has ended.
OneLeader ==
    Gap \/ spent.faults = 0 => \A m, n \in Managers : Elected(m) /\ Elected(n) => m = n

\* A rolling update hands the work over: if no request for the lease fails and
\* the workers end within the grace period, then at no time do the workers of two
\* managers run, whichever durations are accepted, whoever dies, and whenever
\* processes are told to stop.
HandedOver ==
    opts.LeaderElect /\ spent.faults = 0 /\ spent.overtimes = 0 => Cardinality(AtWork) <= 1

Works == /\ Validate(opts) /\ Splits(opts.EtcdSecret)
         /\ EtcdSecretOf(opts.EtcdSecret) \in Secrets
         /\ opts.LeaderElect => ElectionConfigured(opts)

Leads(m) == proc[m] = "leading" /\ (opts.LeaderElect => Elected(m))

\* When processes stop dying somebody works in the end, and goes on: a dead
\* leader's lease runs out, one that was told to stop hands its lease over, and
\* of two leaders one finds out.
SomebodyWorks == Works => <>[](\E m \in Managers : Leads(m))
===============================================================================
