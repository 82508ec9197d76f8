----------------------------- MODULE PeerHealth -----------------------------
(***************************************************************************)
(* PeerHealthManager for one peer, the health checks that feed it, and     *)
(* A2AClient.sendMessage with withRetry, which asks it and feeds it too.   *)
(* Calls and checks overlap, so a result may be recorded long after the    *)
(* circuit moved on.                                                       *)
(*                                                                         *)
(* Time is abstracted: the cooldown passes, and with recoveryRateConstant  *)
(* the capacity reaches RECOVERY_COMPLETE_THRESHOLD, at any moment.        *)
(* Whether checkCapacity lets a call through is a choice.  An attempt      *)
(* (doSendMessage, over all transports) ends well or not; withRetry takes  *)
(* every failure of it for retryable, because its status code is 500.      *)
(***************************************************************************)
EXTENDS Naturals, FiniteSets

CONSTANTS
    Confs,      \* circuit breaker, health check and retry settings that are tried
    Calls,      \* calls of sendMessage
    Checks,     \* health checks that may be in flight at a time
    MaxFaults,  \* bound: attempts and checks that fail
    None

ASSUME HealthConstants ==
    /\ Confs \subseteq [hard : Nat \ {0}, soft : (Nat \ {0}) \cup {None}, gradual : BOOLEAN,
                        checks : BOOLEAN, retries : Nat]
    /\ IsFiniteSet(Calls) /\ MaxFaults \in Nat /\ None \notin Nat

VARIABLES
    conf,
    circuit,
    failures,   \* consecutiveFailures, counted up to failureThreshold
    health,
    cooled,     \* resetTimeoutMs have passed since lastFailureAt
    ramped,     \* the capacity of the gradual recovery is complete
    inFlight,   \* recoveringInFlight has the peer
    call,       \* per call: where it is, retries left, whether it is a probe
    check,      \* per health check: what probe() found
    faults

breaker == <<circuit, failures, health, cooled, ramped, inFlight>>
vars == <<conf, breaker, call, check, faults>>

CallStates == {"idle", "sending", "ok", "failed"}
Idle == [at |-> "idle", left |-> 0, probe |-> FALSE]

TypeOK ==
    /\ conf \in Confs
    /\ circuit \in {"closed", "desensitized", "open", "recovering"}
    /\ failures \in 0..conf.hard
    /\ health \in {"unknown", "healthy", "unhealthy"}
    /\ cooled \in BOOLEAN /\ ramped \in BOOLEAN /\ inFlight \in BOOLEAN
    /\ call \in [Calls -> [at : CallStates, left : 0..conf.retries, probe : BOOLEAN]]
    /\ check \in [Checks -> {"idle", "healthy", "unhealthy"}]
    /\ faults \in 0..MaxFaults

Init ==
    /\ conf \in Confs
    /\ circuit = "closed" /\ failures = 0 /\ health = "unknown"
    /\ cooled = FALSE /\ ramped = FALSE /\ inFlight = FALSE
    /\ call = [c \in Calls |-> Idle]
    /\ check = [k \in Checks |-> "idle"]
    /\ faults = 0

-----------------------------------------------------------------------------
(* Recording a result                                                       *)

(* Slip: the failures of the past still count when the circuit is closed.    *)
RecordSuccessKeepsCount ==
    /\ circuit' = "closed" /\ health' = "healthy"
    /\ inFlight' = FALSE /\ ramped' = FALSE
    /\ UNCHANGED <<cooled, failures>>

(* Slip: only a probe closes the circuit.                                    *)
RecordSuccessOfProbe ==
    /\ circuit' = (IF circuit \in {"open", "desensitized"} THEN circuit ELSE "closed")
    /\ failures' = 0 /\ health' = "healthy"
    /\ inFlight' = FALSE /\ ramped' = FALSE
    /\ UNCHANGED cooled

RecordSuccess ==
    /\ circuit' = "closed" /\ failures' = 0 /\ health' = "healthy"
    /\ inFlight' = FALSE /\ ramped' = FALSE
    /\ UNCHANGED cooled

(* consecutiveFailures is compared with failureThreshold at most.            *)
Counted == IF failures < conf.hard THEN failures + 1 ELSE failures

AfterFailure ==
    CASE circuit \in {"recovering", "open"} -> "open"
      [] circuit = "desensitized" -> IF Counted >= conf.hard THEN "open" ELSE "desensitized"
      [] circuit = "closed" ->
            IF Counted >= conf.hard THEN "open"
            ELSE IF conf.soft # None /\ Counted >= conf.soft THEN "desensitized"
            ELSE "closed"

RecordFailure(seen) ==
    /\ failures' = Counted
    /\ circuit' = AfterFailure
    /\ health' = IF circuit \in {"closed", "desensitized"} /\ AfterFailure = "open"
                 THEN "unhealthy" ELSE seen
    /\ cooled' = FALSE /\ inFlight' = FALSE /\ ramped' = FALSE

Record(ok, seen) == IF ok THEN RecordSuccess ELSE RecordFailure(seen)

(* The recovery that a probe belongs to ends with any recorded result.       *)
Unprobed(f) == [c \in Calls |-> [f[c] EXCEPT !.probe = FALSE]]

-----------------------------------------------------------------------------
(* sendMessage                                                              *)

Sending(probe) == [at |-> "sending", left |-> conf.retries, probe |-> probe]
Start(c, probe) == call' = [call EXCEPT ![c] = Sending(probe)]

(* isAvailable, when it lets the call through.                               *)
Admit(c) ==
    /\ circuit \in {"closed", "desensitized"} \/ (circuit = "recovering" /\ conf.gradual /\ ~ramped)
    /\ Start(c, FALSE)
    /\ UNCHANGED breaker

(* After the cooldown, or, without recoveryRateConstant, when no probe is in *)
(* flight.                                                                   *)
ProbeDue ==
    IF circuit = "open" THEN cooled ELSE circuit = "recovering" /\ ~conf.gradual /\ ~inFlight

(* Slip: the probe is not remembered.                                        *)
AdmitProbeUnmarked(c) ==
    /\ ProbeDue
    /\ circuit' = "recovering" /\ ramped' = FALSE
    /\ Start(c, TRUE)
    /\ UNCHANGED <<failures, health, cooled, inFlight>>

AdmitProbe(c) ==
    /\ ProbeDue
    /\ circuit' = "recovering" /\ ramped' = FALSE /\ inFlight' = TRUE
    /\ Start(c, TRUE)
    /\ UNCHANGED <<failures, health, cooled>>

AdmitRamped(c) ==
    /\ circuit = "recovering" /\ conf.gradual /\ ramped
    /\ circuit' = "closed" /\ failures' = 0 /\ health' = "healthy"
    /\ inFlight' = FALSE /\ ramped' = FALSE
    /\ call' = [Unprobed(call) EXCEPT ![c] = Sending(FALSE)]
    /\ UNCHANGED cooled

(* A call that isAvailable turns away gets a 503 and changes nothing.        *)
Call(c) ==
    /\ call[c].at = "idle"
    /\ Admit(c) \/ AdmitProbe(c) \/ AdmitRamped(c)
    /\ UNCHANGED <<conf, check, faults>>

(* withRetry: one attempt.                                                   *)
AttemptSucceeds(c) ==
    /\ call[c].at = "sending"
    /\ call' = [call EXCEPT ![c].at = "ok"]
    /\ UNCHANGED <<conf, breaker, check, faults>>

AttemptFails(c) ==
    /\ call[c].at = "sending" /\ faults < MaxFaults /\ faults' = faults + 1
    /\ call' = [call EXCEPT ![c] = IF @.left > 0 THEN [@ EXCEPT !.left = call[c].left - 1]
                                   ELSE [@ EXCEPT !.at = "failed"]]
    /\ UNCHANGED <<conf, breaker, check>>

Return(c) ==
    /\ call[c].at \in {"ok", "failed"}
    /\ Record(call[c].at = "ok", health)
    /\ call' = [Unprobed(call) EXCEPT ![c] = Idle]
    /\ UNCHANGED <<conf, check, faults>>

-----------------------------------------------------------------------------
(* Health checks and time                                                   *)

CheckPeer(k) ==
    /\ conf.checks /\ check[k] = "idle"
    /\ \/ check' = [check EXCEPT ![k] = "healthy"] /\ UNCHANGED faults
       \/ /\ faults < MaxFaults /\ faults' = faults + 1
          /\ check' = [check EXCEPT ![k] = "unhealthy"]
    /\ UNCHANGED <<conf, breaker, call>>

CheckReturns(k) ==
    /\ check[k] # "idle"
    /\ Record(check[k] = "healthy", "unhealthy")
    /\ check' = [check EXCEPT ![k] = "idle"]
    /\ call' = Unprobed(call)
    /\ UNCHANGED <<conf, faults>>

CooldownPasses ==
    /\ circuit = "open" /\ ~cooled /\ cooled' = TRUE
    /\ UNCHANGED <<conf, circuit, failures, health, ramped, inFlight, call, check, faults>>

CapacityRampsUp ==
    /\ circuit = "recovering" /\ conf.gradual /\ ~ramped /\ ramped' = TRUE
    /\ UNCHANGED <<conf, circuit, failures, health, cooled, inFlight, call, check, faults>>

Next ==
    \/ \E c \in Calls : Call(c) \/ AttemptSucceeds(c) \/ AttemptFails(c) \/ Return(c)
    \/ \E k \in Checks : CheckPeer(k) \/ CheckReturns(k)
    \/ CooldownPasses \/ CapacityRampsUp

Spec == Init /\ [][Next]_vars

(* The interval timer starts checks and every check and attempt returns (the *)
(* check has a timeout).  Nothing makes anybody call.                        *)
FairSpec ==
    /\ Spec
    /\ \A c \in Calls : WF_vars(AttemptSucceeds(c)) /\ WF_vars(Return(c))
    /\ \A k \in Checks : WF_vars(CheckPeer(k)) /\ WF_vars(CheckReturns(k))

-----------------------------------------------------------------------------
(* Properties                                                               *)

(* Whatever late results are recorded, the circuit agrees with the count of  *)
(* failures: it lets everything pass only below both thresholds, is          *)
(* desensitized only between them, and open or recovering only at the hard   *)
(* one and with the peer known as unhealthy.                                 *)
BreakerConsistent ==
    /\ circuit = "closed" => failures < conf.hard /\ (conf.soft # None => failures < conf.soft)
    /\ circuit = "desensitized" =>
        conf.soft # None /\ conf.soft <= failures /\ failures < conf.hard
    /\ circuit \in {"open", "recovering"} => failures = conf.hard /\ health = "unhealthy"

(* A recovering circuit has its probe: in single-probe mode exactly one call *)
(* of this recovery is under way, so that no second one is sent and the      *)
(* circuit cannot be stuck waiting for a result that nobody will record.     *)
ProbeExact ==
    /\ inFlight <=> circuit = "recovering"
    /\ circuit = "recovering" /\ ~conf.gradual => \E c \in Calls : call[c].probe
    /\ \A c, d \in Calls : call[c].probe /\ call[d].probe => c = d

(* With health checks on, a peer that stops failing gets its circuit closed  *)
(* for good.                                                                 *)
Recovers == conf.checks => <>[](circuit = "closed")
=============================================================================
