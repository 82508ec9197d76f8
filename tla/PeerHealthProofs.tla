-------------------------- MODULE PeerHealthProofs --------------------------
(***************************************************************************)
(* Proofs about PeerHealth: the circuit agrees with its counters and a     *)
(* recovering circuit has its one probe, for any number of calls and       *)
(* checks, any thresholds and any number of retries and faults.            *)
(***************************************************************************)
EXTENDS PeerHealth, TLAPS

(* A probe belongs to the recovery that is going on, and to a call that will *)
(* record its result.                                                        *)
ProbesLive == \A c \in Calls : call[c].probe => circuit = "recovering" /\ call[c].at # "idle"

IndInv == TypeOK /\ BreakerConsistent /\ ProbeExact /\ ProbesLive

Circuits == {"closed", "desensitized", "open", "recovering"}
Healths == {"unknown", "healthy", "unhealthy"}
CallType == [at : CallStates, left : 0..conf.retries, probe : BOOLEAN]

(* The parts of TypeOK and BreakerConsistent that speak of the breaker only. *)
BreakerType ==
    /\ circuit \in Circuits
    /\ failures \in 0..conf.hard
    /\ health \in Healths
FlagsType == cooled \in BOOLEAN /\ ramped \in BOOLEAN /\ inFlight \in BOOLEAN
CallsType == call \in [Calls -> CallType]
RestType ==
    /\ conf \in Confs
    /\ check \in [Checks -> {"idle", "healthy", "unhealthy"}]
    /\ faults \in 0..MaxFaults

LEMMA TypeParts == TypeOK <=> BreakerType /\ FlagsType /\ CallsType /\ RestType
  BY DEF TypeOK, BreakerType, FlagsType, CallsType, RestType, Circuits, Healths, CallType

LEMMA IndInvParts ==
    ASSUME BreakerType', FlagsType', CallsType', RestType', BreakerConsistent', ProbeExact', ProbesLive'
    PROVE  IndInv'
  <1>1. TypeOK'
    BY DEF TypeOK, BreakerType, FlagsType, CallsType, RestType, Circuits, Healths, CallType
  <1> QED  BY <1>1 DEF IndInv

(* What the configuration guarantees: a positive hard threshold and a soft   *)
(* one that is absent or positive.                                           *)
LEMMA ConfType ==
    ASSUME conf \in Confs
    PROVE  /\ conf.hard \in Nat /\ conf.hard > 0 /\ conf.retries \in Nat
           /\ conf.soft # None => conf.soft \in Nat /\ conf.soft > 0
           /\ conf.gradual \in BOOLEAN
  BY HealthConstants

(* recordSuccess closes the circuit below both thresholds.                   *)
LEMMA SuccessOK ==
    ASSUME conf \in Confs, UNCHANGED conf, BreakerType, FlagsType, RecordSuccess
    PROVE  /\ BreakerType' /\ FlagsType' /\ BreakerConsistent'
           /\ circuit' # "recovering" /\ inFlight' = FALSE
  <1>1. /\ circuit' = "closed" /\ failures' = 0 /\ health' = "healthy"
        /\ inFlight' = FALSE /\ ramped' = FALSE /\ cooled' = cooled /\ conf' = conf
    BY DEF RecordSuccess
  <1>2. BreakerType'
    BY <1>1, ConfType DEF BreakerType, Circuits, Healths
  <1>3. BreakerConsistent'
    BY <1>1, ConfType DEF BreakerConsistent
  <1>4. FlagsType'
    BY <1>1, Zenon DEF FlagsType
  <1> QED  BY <1>1, <1>2, <1>3, <1>4

(* recordFailure opens the circuit exactly at the hard threshold.            *)
LEMMA FailureOK ==
    ASSUME conf \in Confs, UNCHANGED conf, BreakerType, FlagsType, BreakerConsistent,
           NEW seen \in {health, "unhealthy"}, RecordFailure(seen)
    PROVE  /\ BreakerType' /\ FlagsType' /\ BreakerConsistent'
           /\ circuit' # "recovering" /\ inFlight' = FALSE
  <1>0. FlagsType' /\ inFlight' = FALSE
    BY Zenon DEF RecordFailure, FlagsType
  <1> USE <1>0, ConfType DEF BreakerType, RecordFailure, Circuits, Healths, AfterFailure, Counted
  <1>1. CASE circuit \in {"recovering", "open"}
    <2>1. circuit' = "open" /\ failures' = conf.hard /\ health' = "unhealthy"
      BY <1>1 DEF BreakerConsistent
    <2> QED  BY <2>1 DEF BreakerConsistent
  <1>2. CASE circuit = "desensitized"
    <2>1. failures' = failures + 1 /\ failures' <= conf.hard
      BY <1>2 DEF BreakerConsistent
    <2>2. circuit' = IF failures' >= conf.hard THEN "open" ELSE "desensitized"
      BY <1>2
    <2>3. health' = IF circuit' = "open" THEN "unhealthy" ELSE seen
      BY <1>2
    <2> QED  BY <1>2, <2>1, <2>2, <2>3 DEF BreakerConsistent
  <1>3. CASE circuit = "closed"
    <2>1. failures' = failures + 1 /\ failures' <= conf.hard
      BY <1>3 DEF BreakerConsistent
    <2>2. circuit' = IF failures' >= conf.hard THEN "open"
                     ELSE IF conf.soft # None /\ failures' >= conf.soft THEN "desensitized"
                     ELSE "closed"
      BY <1>3
    <2>3. health' = IF circuit' = "open" THEN "unhealthy" ELSE seen
      BY <1>3
    <2> QED  BY <1>3, <2>1, <2>2, <2>3 DEF BreakerConsistent
  <1> QED  BY <1>1, <1>2, <1>3

(* Any result ends the recovery.                                             *)
LEMMA RecordOK ==
    ASSUME conf \in Confs, UNCHANGED conf, BreakerType, FlagsType, BreakerConsistent,
           NEW ok, NEW seen \in {health, "unhealthy"}, Record(ok, seen)
    PROVE  /\ BreakerType' /\ FlagsType' /\ BreakerConsistent'
           /\ circuit' # "recovering" /\ inFlight' = FALSE
  BY SuccessOK, FailureOK DEF Record

(* Outside of a recovery and without probes there is nothing to prove.       *)
LEMMA NoProbes ==
    ASSUME circuit' # "recovering", inFlight' = FALSE, \A c \in Calls : ~call'[c].probe
    PROVE  ProbeExact' /\ ProbesLive'
  BY DEF ProbeExact, ProbesLive

LEMMA UnprobedType ==
    ASSUME NEW f \in [Calls -> CallType]
    PROVE  /\ Unprobed(f) \in [Calls -> CallType]
           /\ \A c \in Calls : ~Unprobed(f)[c].probe
  BY DEF Unprobed, CallType

LEMMA InitOK == Init => IndInv
  <1> SUFFICES ASSUME Init PROVE IndInv
    OBVIOUS
  <1>1. TypeOK
    <2>1. BreakerType
      BY ConfType DEF Init, BreakerType, Circuits, Healths
    <2>2. FlagsType
      BY Zenon DEF Init, FlagsType
    <2>3. CallsType
      BY ConfType DEF Init, CallsType, CallType, CallStates, Idle
    <2>4. RestType
      BY HealthConstants DEF Init, RestType
    <2> QED  BY <2>1, <2>2, <2>3, <2>4, TypeParts
  <1>2. BreakerConsistent
    BY ConfType DEF Init, BreakerConsistent
  <1>3. ProbeExact /\ ProbesLive
    BY DEF Init, ProbeExact, ProbesLive, Idle
  <1> QED  BY <1>1, <1>2, <1>3 DEF IndInv

-----------------------------------------------------------------------------
(* The actions                                                              *)

LEMMA SendingType ==
    ASSUME conf \in Confs, NEW p \in BOOLEAN
    PROVE  /\ Sending(p) \in CallType
           /\ Sending(p).probe = p /\ Sending(p).at = "sending"
  BY ConfType DEF Sending, CallType, CallStates

LEMMA CallOK ==
    ASSUME IndInv, NEW c \in Calls, Call(c)
    PROVE  IndInv'
  <1>0. BreakerType /\ FlagsType /\ CallsType /\ RestType
    BY TypeParts DEF IndInv
  <1>1. RestType' /\ conf' = conf /\ conf \in Confs /\ call[c].at = "idle" /\ ~call[c].probe
    BY <1>0 DEF Call, RestType, IndInv, ProbesLive
  <1>2. CASE Admit(c)
    <2>1. call' = [call EXCEPT ![c] = Sending(FALSE)] /\ UNCHANGED breaker
      BY <1>2 DEF Admit, Start
    <2>2. CallsType'
      BY <1>0, <1>1, <2>1, SendingType DEF CallsType, CallType
    <2>3. \A d \in Calls : call'[d].probe <=> call[d].probe
      BY <1>0, <1>1, <2>1, SendingType DEF CallsType
    <2>4. \A d \in Calls : call'[d].at = IF d = c THEN "sending" ELSE call[d].at
      BY <1>0, <1>1, <2>1, SendingType DEF CallsType
    <2>5. BreakerType' /\ FlagsType' /\ BreakerConsistent'
      BY <1>0, <1>1, <2>1 DEF BreakerType, FlagsType, BreakerConsistent, breaker, IndInv
    <2>6. ProbeExact' /\ ProbesLive'
      <3>1. circuit' = circuit /\ inFlight' = inFlight /\ conf' = conf
        BY <1>1, <2>1 DEF breaker
      <3>2. ProbeExact'
        BY <2>3, <3>1, Zenon DEF IndInv, ProbeExact
      <3>3. ProbesLive'
        BY <1>1, <2>3, <2>4, <3>1 DEF IndInv, ProbesLive
      <3> QED  BY <3>2, <3>3
    <2> QED  BY <1>1, <2>2, <2>5, <2>6, IndInvParts, Zenon
  <1>3. CASE AdmitProbe(c)
    <2>1. circuit = "open" /\ circuit' = "recovering" /\ inFlight'
      BY <1>3, <1>0 DEF AdmitProbe, ProbeDue, IndInv, ProbeExact
    <2>2. call' = [call EXCEPT ![c] = Sending(TRUE)]
      BY <1>3 DEF AdmitProbe, Start
    <2>3. CallsType'
      BY <1>0, <1>1, <2>2, SendingType DEF CallsType, CallType
    <2>4. \A d \in Calls : (call'[d].probe <=> d = c) /\ call'[c].at # "idle"
      BY <1>0, <1>1, <2>1, <2>2, SendingType DEF CallsType, IndInv, ProbesLive
    <2>5. BreakerType' /\ BreakerConsistent'
      BY <1>0, <1>1, <1>3, <2>1 DEF BreakerType, BreakerConsistent, IndInv, AdmitProbe, Circuits
    <2>7. FlagsType'
      BY <1>0, <1>3, Zenon DEF FlagsType, AdmitProbe
    <2>6. ProbeExact' /\ ProbesLive'
      BY <2>1, <2>4 DEF ProbeExact, ProbesLive
    <2> QED  BY <1>1, <2>3, <2>5, <2>6, <2>7, IndInvParts, Zenon
  <1>4. CASE AdmitRamped(c)
    <2>1. RecordSuccess
      BY <1>4 DEF AdmitRamped, RecordSuccess
    <2>2. BreakerType' /\ FlagsType' /\ BreakerConsistent' /\ circuit' # "recovering" /\ inFlight' = FALSE
      BY <1>0, <1>1, <2>1, SuccessOK
    <2>3. CallsType' /\ \A d \in Calls : ~call'[d].probe
      <3>1. call' = [Unprobed(call) EXCEPT ![c] = Sending(FALSE)]
        BY <1>4 DEF AdmitRamped
      <3> QED  BY <1>0, <1>1, <3>1, UnprobedType, SendingType DEF CallsType, CallType
    <2>4. ProbeExact' /\ ProbesLive'
      BY <2>2, <2>3, NoProbes
    <2> QED  BY <1>1, <2>2, <2>3, <2>4, IndInvParts, Zenon
  <1> QED  BY <1>2, <1>3, <1>4 DEF Call

LEMMA AttemptOK ==
    ASSUME IndInv, NEW c \in Calls, AttemptSucceeds(c) \/ AttemptFails(c)
    PROVE  IndInv'
  <1>0. BreakerType /\ FlagsType /\ CallsType /\ RestType /\ conf' = conf /\ UNCHANGED breaker
    BY TypeParts DEF IndInv, AttemptSucceeds, AttemptFails
  <1>1. RestType'
    BY HealthConstants DEF RestType, IndInv, TypeOK, AttemptSucceeds, AttemptFails
  <1>2. /\ CallsType'
        /\ \A d \in Calls : (call'[d].probe <=> call[d].probe)
        /\ \A d \in Calls : call[d].at # "idle" => call'[d].at # "idle"
    <2>1. call[c] \in CallType /\ call[c].at = "sending" /\ conf.retries \in Nat
      BY <1>0, ConfType DEF CallsType, RestType, AttemptSucceeds, AttemptFails
    <2>2. PICK r \in CallType : /\ call' = [call EXCEPT ![c] = r]
                                /\ r.at # "idle" /\ r.probe = call[c].probe
      <3>1. CASE AttemptSucceeds(c)
        <4> DEFINE r == [call[c] EXCEPT !.at = "ok"]
        <4>1. call' = [call EXCEPT ![c] = r]
          BY <3>1 DEF AttemptSucceeds
        <4>2. r \in CallType
          BY <2>1 DEF CallType, CallStates
        <4>3. r.at # "idle" /\ r.probe = call[c].probe
          BY <2>1 DEF CallType
        <4> HIDE DEF r
        <4> QED  BY <4>1, <4>2, <4>3
      <3>2. CASE AttemptFails(c) /\ call[c].left > 0
        <4> DEFINE r == [call[c] EXCEPT !.left = call[c].left - 1]
        <4>1. call' = [call EXCEPT ![c] = r]
          BY <3>2 DEF AttemptFails
        <4>2. r \in CallType
          BY <3>2, <2>1 DEF CallType, CallStates
        <4>3. r.at # "idle" /\ r.probe = call[c].probe
          BY <3>2, <2>1 DEF CallType
        <4> HIDE DEF r
        <4> QED  BY <4>1, <4>2, <4>3
      <3>3. CASE AttemptFails(c) /\ ~(call[c].left > 0)
        <4> DEFINE r == [call[c] EXCEPT !.at = "failed"]
        <4>1. call' = [call EXCEPT ![c] = r]
          BY <3>3 DEF AttemptFails
        <4>2. r \in CallType
          BY <3>3, <2>1 DEF CallType, CallStates
        <4>3. r.at # "idle" /\ r.probe = call[c].probe
          BY <3>3, <2>1 DEF CallType
        <4> HIDE DEF r
        <4> QED  BY <4>1, <4>2, <4>3
      <3> QED  BY <3>1, <3>2, <3>3
    <2> QED  BY <1>0, <2>2 DEF CallsType, CallType
  <1>3. BreakerType' /\ FlagsType' /\ BreakerConsistent'
    BY <1>0 DEF BreakerType, FlagsType, BreakerConsistent, breaker, IndInv
  <1>4. ProbeExact' /\ ProbesLive'
    BY <1>0, <1>2 DEF IndInv, ProbeExact, ProbesLive, breaker
  <1> QED  BY <1>1, <1>2, <1>3, <1>4, IndInvParts, Zenon

LEMMA ReturnOK ==
    ASSUME IndInv, NEW c \in Calls, Return(c)
    PROVE  IndInv'
  <1>0. BreakerType /\ FlagsType /\ CallsType /\ RestType /\ conf' = conf /\ RestType'
    BY TypeParts DEF IndInv, Return, RestType
  <1>1. BreakerType' /\ FlagsType' /\ BreakerConsistent' /\ circuit' # "recovering" /\ inFlight' = FALSE
    <2>1. Record(call[c].at = "ok", health)
      BY DEF Return
    <2> QED  BY <1>0, <2>1, RecordOK DEF IndInv, RestType
  <1>2. CallsType' /\ \A d \in Calls : ~call'[d].probe
    <2>1. call' = [Unprobed(call) EXCEPT ![c] = Idle]
      BY DEF Return
    <2>2. Idle \in CallType /\ ~Idle.probe
      BY <1>0, ConfType DEF Idle, CallType, CallStates, RestType
    <2> QED  BY <1>0, <2>1, <2>2, UnprobedType DEF CallsType, CallType
  <1>3. ProbeExact' /\ ProbesLive'
    BY <1>1, <1>2, NoProbes
  <1> QED  BY <1>0, <1>1, <1>2, <1>3, IndInvParts, Zenon

LEMMA CheckReturnsOK ==
    ASSUME IndInv, NEW k \in Checks, CheckReturns(k)
    PROVE  IndInv'
  <1>0. BreakerType /\ FlagsType /\ CallsType /\ RestType /\ conf' = conf /\ RestType'
    BY TypeParts DEF IndInv, CheckReturns, RestType
  <1>1. BreakerType' /\ FlagsType' /\ BreakerConsistent' /\ circuit' # "recovering" /\ inFlight' = FALSE
    <2>1. Record(check[k] = "healthy", "unhealthy")
      BY DEF CheckReturns
    <2> QED  BY <1>0, <2>1, RecordOK DEF IndInv, RestType
  <1>2. CallsType' /\ \A d \in Calls : ~call'[d].probe
    BY <1>0, UnprobedType DEF CheckReturns, CallsType, CallType
  <1>3. ProbeExact' /\ ProbesLive'
    BY <1>1, <1>2, NoProbes
  <1> QED  BY <1>0, <1>1, <1>2, <1>3, IndInvParts, Zenon

(* The checks that start, and time.                                          *)
LEMMA TimeOK ==
    ASSUME IndInv, CooldownPasses \/ CapacityRampsUp \/ UNCHANGED vars
                   \/ \E k \in Checks : CheckPeer(k)
    PROVE  IndInv'
  <1>1. /\ circuit' = circuit /\ failures' = failures /\ health' = health
        /\ inFlight' = inFlight /\ call' = call /\ conf' = conf
        /\ cooled' \in BOOLEAN /\ ramped' \in BOOLEAN
    BY DEF IndInv, TypeOK, CooldownPasses, CapacityRampsUp, CheckPeer, vars, breaker
  <1>2. RestType'
    BY HealthConstants
       DEF RestType, IndInv, TypeOK, CooldownPasses, CapacityRampsUp, CheckPeer, vars, breaker
  <1>3. TypeOK'
    BY <1>1, <1>2 DEF TypeOK, RestType, IndInv
  <1>4. BreakerConsistent' /\ ProbeExact' /\ ProbesLive'
    BY <1>1 DEF IndInv, BreakerConsistent, ProbeExact, ProbesLive
  <1> QED  BY <1>3, <1>4 DEF IndInv

LEMMA NextOK == IndInv /\ [Next]_vars => IndInv'
  BY CallOK, AttemptOK, ReturnOK, CheckReturnsOK, TimeOK DEF Next

LEMMA Invariance == Spec => []IndInv
  BY InitOK, NextOK, PTL DEF Spec

(* The types of the breaker, the calls and the checks.                       *)
THEOREM HealthTypeCorrect == Spec => []TypeOK
  BY Invariance, PTL DEF IndInv

(* recordFailure, recordSuccess and isAvailable keep the circuit in          *)
(* agreement with the consecutive failures and the health of the peer,       *)
(* whatever late results are recorded.                                       *)
THEOREM HealthBreakerConsistent == Spec => []BreakerConsistent
  BY Invariance, PTL DEF IndInv

(* A recovering circuit in single-probe mode has exactly one probe under way *)
(* and so cannot be stuck.                                                   *)
THEOREM HealthProbeExact == Spec => []ProbeExact
  BY Invariance, PTL DEF IndInv
=============================================================================
