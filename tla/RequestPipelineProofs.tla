----------------------- MODULE RequestPipelineProofs -----------------------
(***************************************************************************)
(* Proofs about RequestPipeline, for any number of requests and any limit: *)
(* whoever waits for a provider has a slot and a reservation, and 4xx      *)
(* answers are free.                                                       *)
(***************************************************************************)
EXTENDS RequestPipeline, FiniteSetTheorems, TLAPS

BeforeCall == {"new", "lookup", "rate", "preparing", "reserving"}
AtProvider == {"calling", "body", "relaying"}
HasGuard == {"preparing", "reserving", "settling"} \cup AtProvider

(* What is true of a request by the place its handler is at.               *)
StageInv(r) ==
  /\ r \in holders <=> pc[r] \in HasGuard
  /\ called[r] <=> pc[r] \in AtProvider
  /\ pc[r] \in BeforeCall => reservation[r] = "none"
  /\ pc[r] \in BeforeCall \cup {"calling", "dropped"} => answer[r] = NoAnswer
  /\ pc[r] = "relaying" => IsSuccess(answer[r])
  /\ pc[r] = "settling" => reservation[r] = "settling"
  /\ pc[r] = "settling" /\ answer[r] \in 400..499 => charge[r] = 0
  /\ pc[r] = "answered" /\ answer[r] \in 400..499 =>
       reservation[r] = "none" \/ charge[r] = 0

SlotsFit == IsFiniteSet(holders) /\ Cardinality(holders) <= MaxStreams

PipelineInv ==
  TypeOK /\ SlotsFit /\ \A r \in Requests : StageInv(r)

Answers == {Status[e] : e \in DOMAIN Status} \cup ProviderStatuses \cup {NoAnswer}

-----------------------------------------------------------------------------
LEMMA InitPipelineInv == Init => PipelineInv
<1> SUFFICES ASSUME Init PROVE PipelineInv
  OBVIOUS
<1>1. TypeOK
  BY DEF Init, TypeOK, SlotsInit, SlotsTypeOK, InHandler, Ended, Settlements
<1>2. SlotsFit
  BY FS_EmptySet, SlotsAssumption DEF Init, SlotsInit, SlotsFit
<1>3. ASSUME NEW r \in Requests PROVE StageInv(r)
  BY PipelineAssumption
     DEF Init, SlotsInit, StageInv, BeforeCall, AtProvider, HasGuard
<1>4. QED
  BY <1>1, <1>2, <1>3 DEF PipelineInv

(* Taking a slot that is free, giving one back, or neither.                *)
LEMMA SlotsStillFit ==
  ASSUME SlotsFit, NEW r,
         (Acquire(r) \/ DropGuard(r) \/ UNCHANGED holders)
  PROVE  SlotsFit'
<1>0. Cardinality(holders) \in Nat /\ MaxStreams \in Nat
  BY FS_CardinalityType, SlotsAssumption DEF SlotsFit
<1>1. CASE Acquire(r)
  BY <1>0, <1>1, FS_AddElement DEF SlotsFit, Acquire, HasSlot
<1>2. CASE DropGuard(r)
  <2>1. IsFiniteSet(holders') /\ Cardinality(holders') <= Cardinality(holders)
        /\ Cardinality(holders') \in Nat
    BY <1>2, FS_Subset, FS_CardinalityType DEF SlotsFit, DropGuard
  <2>2. QED
    BY <1>0, <2>1 DEF SlotsFit
<1>3. CASE UNCHANGED holders
  BY <1>3 DEF SlotsFit
<1>4. QED
  BY <1>1, <1>2, <1>3

(* The other requests are as they were.                                    *)
Alone(r) ==
  /\ pc' = [pc EXCEPT ![r] = pc'[r]]
  /\ tracked' = tracked
  /\ reservation' = [reservation EXCEPT ![r] = reservation'[r]]
  /\ charge' = [charge EXCEPT ![r] = charge'[r]]
  /\ answer' = [answer EXCEPT ![r] = answer'[r]]
  /\ called' = [called EXCEPT ![r] = called'[r]]
  /\ holders' \ {r} = holders \ {r}

(* A step of one request keeps the invariant if it keeps that request's.   *)
StageTypeOK(r) ==
  /\ pc[r] \in InHandler \cup Ended \cup {"new", "relaying"}
  /\ reservation[r] \in Settlements \cup {"none", "held", "settling"}
  /\ charge[r] \in Usages \cup {0, Budget}
  /\ answer[r] \in Answers
  /\ called[r] \in BOOLEAN
  /\ reservation[r] = "held" <=> pc[r] \in AtProvider

LEMMA OneRequest ==
  ASSUME PipelineInv, NEW r \in Requests, Alone(r), SlotsFit',
         StageTypeOK(r)', StageInv(r)'
  PROVE  PipelineInv'
<1> USE DEF PipelineInv
<1>1. TypeOK'
  <2>1. SlotsTypeOK'
    BY PipelineAssumption DEF TypeOK, SlotsTypeOK, Alone
  <2>2. pc' \in [Requests -> InHandler \cup Ended \cup {"new", "relaying"}]
    BY DEF TypeOK, Alone, StageTypeOK
  <2>3. reservation' \in [Requests -> Settlements \cup {"none", "held", "settling"}]
    BY DEF TypeOK, Alone, StageTypeOK
  <2>4. charge' \in [Requests -> Usages \cup {0, Budget}]
    BY DEF TypeOK, Alone, StageTypeOK
  <2>5. answer' \in [Requests -> Answers]
    BY DEF TypeOK, Alone, StageTypeOK, Answers
  <2>6. called' \in [Requests -> BOOLEAN] /\ tracked' \in [Requests -> BOOLEAN]
    BY DEF TypeOK, Alone, StageTypeOK
  <2>7. ASSUME NEW q \in Requests
        PROVE  reservation'[q] = "held" <=> pc'[q] \in {"calling", "body", "relaying"}
    BY DEF TypeOK, Alone, StageTypeOK, AtProvider
  <2>8. QED
    BY <2>1, <2>2, <2>3, <2>4, <2>5, <2>6, <2>7 DEF TypeOK, Answers
<1>2. ASSUME NEW q \in Requests, q # r PROVE StageInv(q)'
  <2>1. /\ pc'[q] = pc[q] /\ reservation'[q] = reservation[q]
        /\ charge'[q] = charge[q] /\ answer'[q] = answer[q]
        /\ called'[q] = called[q] /\ (q \in holders' <=> q \in holders)
    BY <1>2 DEF Alone, TypeOK
  <2>2. QED
    BY <2>1 DEF StageInv
<1>3. QED
  BY <1>1, <1>2

-----------------------------------------------------------------------------
LEMMA StatusesTyped ==
  /\ \A error \in DOMAIN Status : Status[error] \in Answers
  /\ ApiKeyErrors \cup EngineerErrors \cup RateLimitErrors \cup PreparationErrors
       \subseteq DOMAIN Status
  /\ {"TooManyActiveStreams", "LimitExceeded"} \subseteq DOMAIN Status
  /\ "ReservationFailed" \in DOMAIN Status /\ Status["ReservationFailed"] = 503
  /\ "ProviderRequestFailed" \in DOMAIN Status
  /\ Status["ProviderRequestFailed"] = 502
<1>1. \A error \in DOMAIN Status : Status[error] \in Answers
  BY DEF Answers
<1>2. QED
  BY <1>1 DEF Status, ApiKeyErrors, EngineerErrors, RateLimitErrors, PreparationErrors

LEMMA RejectKeeps ==
  ASSUME PipelineInv, NEW r \in Requests, NEW error \in DOMAIN Status,
         pc[r] \in BeforeCall, Reject(r, error), UNCHANGED <<tracked, charge, called>>,
         reservation' = [reservation EXCEPT ![r] = reservation'[r]],
         \/ reservation'[r] = "none"
         \/ reservation'[r] = "left" /\ Status[error] \notin 400..499
  PROVE  PipelineInv'
<1> USE DEF PipelineInv
<1>1. /\ pc' = [pc EXCEPT ![r] = "answered"] /\ pc'[r] = "answered"
      /\ answer' = [answer EXCEPT ![r] = Status[error]] /\ answer'[r] = Status[error]
      /\ holders' = holders \ {r}
  BY DEF Reject, Goto, DropGuard, TypeOK
<1>2. Alone(r)
  BY <1>1 DEF Alone, TypeOK
<1>3. SlotsFit'
  BY SlotsStillFit DEF Reject
<1>4. ~called[r] /\ called'[r] = called[r] /\ charge'[r] = charge[r]
  BY DEF StageInv, BeforeCall, AtProvider
<1>5. StageTypeOK(r)'
  BY <1>1, <1>4, StatusesTyped
     DEF StageTypeOK, TypeOK, Ended, Settlements, AtProvider
<1>6. StageInv(r)'
  BY <1>1, <1>4 DEF StageInv, BeforeCall, AtProvider, HasGuard
<1>7. QED
  BY <1>2, <1>3, <1>5, <1>6, OneRequest

(* A handler that goes on before its call takes nothing but the slot.      *)
LEMMA GoOnKeeps ==
  ASSUME PipelineInv, NEW r \in Requests, NEW place \in BeforeCall,
         pc[r] \in BeforeCall, Goto(r, place),
         UNCHANGED <<tracked, reservation, charge, answer, called>>,
         \/ Acquire(r) /\ place \in HasGuard
         \/ UNCHANGED holders /\ (place \in HasGuard <=> pc[r] \in HasGuard)
  PROVE  PipelineInv'
<1> USE DEF PipelineInv
<1>1. pc' = [pc EXCEPT ![r] = place] /\ pc'[r] = place
  BY DEF Goto, TypeOK
<1>2. Alone(r)
  BY <1>1 DEF Alone, TypeOK, Acquire
<1>3. SlotsFit'
  BY SlotsStillFit
<1>4. StageTypeOK(r)'
  BY <1>1 DEF StageTypeOK, TypeOK, Answers, StageInv, BeforeCall, AtProvider, InHandler
<1>5. r \in holders' <=> place \in HasGuard
  BY DEF StageInv, Acquire
<1>6. StageInv(r)'
  BY <1>1, <1>5 DEF StageInv, BeforeCall, AtProvider
<1>7. QED
  BY <1>2, <1>3, <1>4, <1>6, OneRequest

LEMMA StepBeforeCall ==
  ASSUME PipelineInv, NEW r \in Requests,
         \/ Arrive(r) \/ Authenticate(r) \/ CheckRate(r) \/ Prepare(r)
         \/ ReserveExceeded(r) \/ ReserveFails(r)
  PROVE  PipelineInv'
<1>0. /\ reservation = [reservation EXCEPT ![r] = reservation[r]]
      /\ pc[r] \in BeforeCall => reservation[r] = "none"
  BY DEF PipelineInv, TypeOK, StageInv
<1>1. CASE Arrive(r)
  <2>1. CASE Goto(r, "lookup") /\ UNCHANGED <<holders, answer>>
    BY <1>1, <2>1, GoOnKeeps DEF Arrive, BeforeCall, HasGuard, AtProvider
  <2>2. ASSUME NEW error \in ApiKeyErrors, Reject(r, error) PROVE PipelineInv'
    BY <1>0, <1>1, <2>2, StatusesTyped, RejectKeeps DEF Arrive, BeforeCall
  <2>3. QED
    BY <1>1, <2>1, <2>2 DEF Arrive
<1>2. CASE Authenticate(r)
  <2>1. CASE Goto(r, "rate") /\ UNCHANGED <<holders, answer>>
    BY <1>2, <2>1, GoOnKeeps DEF Authenticate, BeforeCall, HasGuard, AtProvider
  <2>2. ASSUME NEW error \in EngineerErrors, Reject(r, error) PROVE PipelineInv'
    BY <1>0, <1>2, <2>2, StatusesTyped, RejectKeeps DEF Authenticate, BeforeCall
  <2>3. QED
    BY <1>2, <2>1, <2>2 DEF Authenticate
<1>3. CASE CheckRate(r)
  <2>1. CASE Acquire(r) /\ Goto(r, "preparing") /\ UNCHANGED answer
    BY <1>3, <2>1, GoOnKeeps DEF CheckRate, BeforeCall, HasGuard, AtProvider
  <2>2. CASE Reject(r, "TooManyActiveStreams")
    BY <1>0, <1>3, <2>2, StatusesTyped, RejectKeeps DEF CheckRate, BeforeCall
  <2>3. ASSUME NEW error \in RateLimitErrors, Reject(r, error) PROVE PipelineInv'
    BY <1>0, <1>3, <2>3, StatusesTyped, RejectKeeps DEF CheckRate, BeforeCall
  <2>4. QED
    BY <1>3, <2>1, <2>2, <2>3 DEF CheckRate
<1>4. CASE Prepare(r)
  <2>1. CASE Goto(r, "reserving") /\ UNCHANGED <<holders, answer>>
    BY <1>4, <2>1, GoOnKeeps DEF Prepare, BeforeCall, HasGuard, AtProvider
  <2>2. ASSUME NEW error \in PreparationErrors, Reject(r, error) PROVE PipelineInv'
    BY <1>0, <1>4, <2>2, StatusesTyped, RejectKeeps DEF Prepare, BeforeCall
  <2>3. QED
    BY <1>4, <2>1, <2>2 DEF Prepare
<1>5. CASE ReserveExceeded(r)
  BY <1>0, <1>5, StatusesTyped, RejectKeeps DEF ReserveExceeded, BeforeCall
<1>6. CASE ReserveFails(r)
  <2>1. /\ reservation' = [reservation EXCEPT ![r] = reservation'[r]]
        /\ reservation'[r] \in {"none", "left"}
    BY <1>0, <1>6 DEF ReserveFails, BeforeCall, PipelineInv, TypeOK
  <2>2. QED
    BY <1>6, <2>1, StatusesTyped, RejectKeeps DEF ReserveFails, BeforeCall
<1>7. QED
  BY <1>1, <1>2, <1>3, <1>4, <1>5, <1>6

-----------------------------------------------------------------------------
(* A settlement that starts charges a client error nothing.                *)
LEMMA StartSettlingKeeps ==
  ASSUME PipelineInv, NEW r \in Requests, pc[r] \in {"calling", "body"},
         NEW actual \in Usages \cup {0, Unreported}, NEW status \in Answers,
         StartSettling(r, actual, status),
         status \in 400..499 => actual = 0
  PROVE  PipelineInv'
<1> USE DEF PipelineInv
<1>1. Charged(r, actual) \in Usages \cup {0, Budget}
  BY DEF Charged
<1>2. actual = 0 => Charged(r, actual) = 0
  BY PipelineAssumption DEF Charged
<1>3. /\ pc'[r] = "settling" /\ reservation'[r] = "settling"
      /\ charge'[r] = Charged(r, actual) /\ answer'[r] = status /\ ~called'[r]
      /\ called'[r] \in BOOLEAN
  BY DEF StartSettling, Goto, TypeOK
<1>4. Alone(r)
  BY <1>3 DEF StartSettling, Goto, Alone, TypeOK
<1>5. SlotsFit'
  BY SlotsStillFit DEF StartSettling
<1>6. StageTypeOK(r)'
  BY <1>1, <1>3 DEF StageTypeOK, InHandler, AtProvider
<1>7. StageInv(r)'
  BY <1>2, <1>3 DEF StageInv, StartSettling, BeforeCall, AtProvider, HasGuard
<1>8. QED
  BY <1>4, <1>5, <1>6, <1>7, OneRequest

LEMMA StepAtProvider ==
  ASSUME PipelineInv, NEW r \in Requests,
         \/ Reserve(r) \/ ProviderFails(r) \/ ProviderStreams(r)
         \/ ProviderAnswers(r) \/ BodyArrives(r)
  PROVE  PipelineInv'
<1> USE DEF PipelineInv
<1>1. CASE Reserve(r)
  <2>1. Alone(r) /\ SlotsFit'
    BY <1>1, SlotsStillFit DEF Reserve, Goto, Alone, TypeOK
  <2>2. StageTypeOK(r)'
    BY <1>1 DEF Reserve, Goto, StageTypeOK, TypeOK, Answers, InHandler, AtProvider
  <2>3. StageInv(r)'
    BY <1>1 DEF Reserve, Goto, StageInv, TypeOK, BeforeCall, AtProvider, HasGuard
  <2>4. QED
    BY <2>1, <2>2, <2>3, OneRequest
<1>2. CASE ProviderFails(r)
  <2>1. Status["ProviderRequestFailed"] \in Answers
        /\ Status["ProviderRequestFailed"] \notin 400..499
    BY StatusesTyped
  <2>2. QED
    BY <1>2, <2>1, StartSettlingKeeps DEF ProviderFails
<1>3. CASE ProviderStreams(r)
  <2>1. Alone(r) /\ SlotsFit'
    BY <1>3, SlotsStillFit DEF ProviderStreams, Goto, Alone, TypeOK
  <2>2. StageTypeOK(r)'
    BY <1>3 DEF ProviderStreams, Goto, StageTypeOK, TypeOK, Answers,
                ProviderStatuses, AtProvider
  <2>3. StageInv(r)'
    BY <1>3 DEF ProviderStreams, Goto, StageInv, TypeOK, BeforeCall, AtProvider, HasGuard
  <2>4. QED
    BY <2>1, <2>2, <2>3, OneRequest
<1>4. CASE ProviderAnswers(r)
  <2>1. PICK status \in ProviderStatuses : answer' = [answer EXCEPT ![r] = status]
    BY <1>4 DEF ProviderAnswers
  <2>2. Alone(r) /\ SlotsFit'
    BY <1>4, <2>1, SlotsStillFit DEF ProviderAnswers, Goto, Alone, TypeOK
  <2>3. StageTypeOK(r)'
    BY <1>4, <2>1 DEF ProviderAnswers, Goto, StageTypeOK, TypeOK, Answers,
                      InHandler, AtProvider
  <2>4. StageInv(r)'
    BY <1>4, <2>1 DEF ProviderAnswers, Goto, StageInv, TypeOK, BeforeCall,
                      AtProvider, HasGuard
  <2>5. QED
    BY <2>2, <2>3, <2>4, OneRequest
<1>5. CASE BodyArrives(r)
  <2>1. PICK actual \in CompletedTokens(answer[r]) :
          StartSettling(r, actual, answer[r])
    BY <1>5 DEF BodyArrives
  <2>2. actual \in Usages \cup {0, Unreported}
        /\ (answer[r] \in 400..499 => actual = 0)
    BY <2>1 DEF CompletedTokens, IsClientError
  <2>3. answer[r] \in Answers
    BY DEF TypeOK, Answers
  <2>4. QED
    BY <1>5, <2>1, <2>2, <2>3, StartSettlingKeeps DEF BodyArrives
<1>6. QED
  BY <1>1, <1>2, <1>3, <1>4, <1>5

-----------------------------------------------------------------------------
LEMMA StepToTheEnd ==
  ASSUME PipelineInv, NEW r \in Requests,
         Settled(r) \/ RelayEnds(r) \/ Disconnect(r)
  PROVE  PipelineInv'
<1> USE DEF PipelineInv
<1>1. SlotsFit'
  BY SlotsStillFit DEF Settled, RelayEnds, Disconnect
<1>2. CASE Settled(r)
  <2>1. PICK how \in Settlements : reservation' = [reservation EXCEPT ![r] = how]
    BY <1>2 DEF Settled
  <2>2. Alone(r)
    BY <1>2, <2>1 DEF Settled, Goto, DropGuard, Alone, TypeOK
  <2>3. StageTypeOK(r)'
    BY <1>2, <2>1 DEF Settled, Goto, StageTypeOK, TypeOK, Answers, Ended,
                      Settlements, AtProvider
  <2>4. StageInv(r)'
    BY <1>2, <2>1 DEF Settled, Goto, DropGuard, StageInv, TypeOK, BeforeCall,
                      AtProvider, HasGuard
  <2>5. QED
    BY <1>1, <2>2, <2>3, <2>4, OneRequest
<1>3. CASE RelayEnds(r)
  <2>1. PICK actual \in Usages \cup {Unreported} :
          charge' = [charge EXCEPT ![r] = Charged(r, actual)]
    BY <1>3 DEF RelayEnds
  <2>2. PICK how \in Settlements : reservation' = [reservation EXCEPT ![r] = how]
    BY <1>3 DEF RelayEnds
  <2>3. Charged(r, actual) \in Usages \cup {0, Budget}
    BY DEF Charged
  <2>4. Alone(r)
    BY <1>3, <2>1, <2>2 DEF RelayEnds, Goto, DropGuard, Alone, TypeOK
  <2>5. StageTypeOK(r)'
    BY <1>3, <2>1, <2>2, <2>3 DEF RelayEnds, Goto, StageTypeOK, TypeOK, Answers,
                                  Ended, Settlements, AtProvider
  <2>6. StageInv(r)'
    BY <1>3, <2>1, <2>2 DEF RelayEnds, Goto, DropGuard, StageInv, TypeOK,
                            BeforeCall, AtProvider, HasGuard, IsSuccess
  <2>7. QED
    BY <1>1, <2>4, <2>5, <2>6, OneRequest
<1>4. CASE Disconnect(r)
  <2>1. PICK how \in Settlements \cup {"none"} :
          reservation' = [reservation EXCEPT ![r] = how]
    BY <1>4 DEF Disconnect, Settlements
  <2>2. Alone(r)
    BY <1>4, <2>1 DEF Disconnect, Goto, DropGuard, Alone, TypeOK
  <2>3. StageTypeOK(r)'
    BY <1>4, <2>1 DEF Disconnect, Goto, StageTypeOK, TypeOK, Answers, Ended,
                      Settlements, AtProvider
  <2>4. StageInv(r)'
    BY <1>4, <2>1, PipelineAssumption
       DEF Disconnect, Goto, DropGuard, StageInv, TypeOK, BeforeCall, AtProvider,
           HasGuard
  <2>5. QED
    BY <1>1, <2>2, <2>3, <2>4, OneRequest
<1>5. QED
  BY <1>2, <1>3, <1>4

LEMMA NextPipelineInv == PipelineInv /\ [Next]_vars => PipelineInv'
<1> SUFFICES ASSUME PipelineInv, [Next]_vars PROVE PipelineInv'
  OBVIOUS
<1>1. ASSUME NEW r \in Requests, Arrive(r) \/ HandlerNext(r) \/ Disconnect(r)
      PROVE  PipelineInv'
  BY <1>1, StepBeforeCall, StepAtProvider, StepToTheEnd DEF HandlerNext
<1>2. CASE UNCHANGED vars
  BY <1>2 DEF vars, PipelineInv, TypeOK, SlotsTypeOK, SlotsFit, StageInv
<1>3. QED
  BY <1>1, <1>2 DEF Next

LEMMA PipelineInvariant == Spec => []PipelineInv
BY InitPipelineInv, NextPipelineInv, PTL DEF Spec

-----------------------------------------------------------------------------
(* Every variable has its type, and a reservation is held exactly while a  *)
(* provider is at work for it.                                             *)
THEOREM TypeCorrect == Spec => []TypeOK
<1>1. PipelineInv => TypeOK
  BY DEF PipelineInv
<1>2. QED
  BY <1>1, PipelineInvariant, PTL

(* No handler or relay waits for a provider without a slot and a           *)
(* reservation, and at most MaxStreams do: for any number of requests,     *)
(* every error and every disconnect.                                       *)
THEOREM CallsAlwaysCovered == Spec => []CallsAreCovered
<1>1. PipelineInv => CallsAreCovered
  <2> SUFFICES ASSUME PipelineInv PROVE CallsAreCovered
    OBVIOUS
  <2>1. ASSUME NEW r \in Requests, called[r]
        PROVE  r \in holders /\ reservation[r] = "held"
    BY <2>1 DEF PipelineInv, StageInv, TypeOK, AtProvider, HasGuard
  <2>2. {r \in Requests : called[r]} \subseteq holders
    BY <2>1
  <2>3. Cardinality({r \in Requests : called[r]}) <= Cardinality(holders)
        /\ Cardinality({r \in Requests : called[r]}) \in Nat
    BY <2>2, FS_Subset, FS_CardinalityType DEF PipelineInv, SlotsFit
  <2>4. Cardinality(holders) \in Nat /\ MaxStreams \in Nat
    BY FS_CardinalityType, SlotsAssumption DEF PipelineInv, SlotsFit
  <2>5. QED
    BY <2>1, <2>3, <2>4 DEF CallsAreCovered, PipelineInv, SlotsFit
<1>2. QED
  BY <1>1, PipelineInvariant, PTL

(* A 4xx answer, the gateway's or the provider's, costs no tokens.         *)
THEOREM ClientErrorsAlwaysFree == Spec => []ClientErrorsAreFree
<1>1. PipelineInv => ClientErrorsAreFree
  BY DEF PipelineInv, StageInv, ClientErrorsAreFree
<1>2. QED
  BY <1>1, PipelineInvariant, PTL

-----------------------------------------------------------------------------
(* The handlers use the limit as StreamSlots has it: a slot is taken by    *)
(* try_acquire when one is free, and any end of a handler or its relay     *)
(* gives back one that is held, or none.                                   *)
THEOREM LimitImplemented == Spec => SlotsSpec
<1>1. ASSUME NEW r \in Requests, Acquire(r) \/ DropGuard(r) \/ UNCHANGED holders
      PROVE  [SlotsNext]_holders
  <2>1. CASE r \in holders /\ DropGuard(r)
    BY <2>1, PipelineAssumption DEF DropGuard, Release, SlotsNext
  <2>2. CASE r \notin holders /\ DropGuard(r)
    BY <2>2 DEF DropGuard
  <2>3. CASE Acquire(r)
    BY <2>3, PipelineAssumption DEF SlotsNext
  <2>4. QED
    BY <1>1, <2>1, <2>2, <2>3
<1>2. [Next]_vars => [SlotsNext]_holders
  <2> SUFFICES ASSUME Next PROVE [SlotsNext]_holders
    BY DEF vars
  <2>1. PICK r \in Requests : Arrive(r) \/ HandlerNext(r) \/ Disconnect(r)
    BY DEF Next
  <2>2. Acquire(r) \/ DropGuard(r) \/ UNCHANGED holders
    BY <2>1
       DEF Arrive, HandlerNext, Disconnect, Authenticate, CheckRate, Prepare,
           Reserve, ReserveExceeded, ReserveFails, ProviderFails,
           ProviderStreams, ProviderAnswers, BodyArrives, StartSettling,
           Settled, RelayEnds, Reject
  <2>3. QED
    BY <1>1, <2>2
<1>3. Init => SlotsInit
  BY DEF Init
<1>4. QED
  BY <1>2, <1>3, PTL DEF Spec, SlotsSpec

-----------------------------------------------------------------------------
(* Progress: what liveness under fairness rests on, as safety.             *)

(* The steps a request still has before it, at the most.                   *)
StepsLeft(r) ==
  IF pc[r] = "new" THEN 8
  ELSE IF pc[r] = "lookup" THEN 7
  ELSE IF pc[r] = "rate" THEN 6
  ELSE IF pc[r] = "preparing" THEN 5
  ELSE IF pc[r] = "reserving" THEN 4
  ELSE IF pc[r] = "calling" THEN 3
  ELSE IF pc[r] \in {"body", "relaying"} THEN 2
  ELSE IF pc[r] = "settling" THEN 1
  ELSE 0

(* A step is of one request, and brings it nearer to its end.  What has    *)
(* been settled, left to the queue or left behind stays as it is, and so   *)
(* does an answer that the client has.                                     *)
StepGoesForward ==
  /\ \E r \in Requests :
       /\ StepsLeft(r)' < StepsLeft(r)
       /\ \A q \in Requests \ {r} : StepsLeft(q)' = StepsLeft(q)
  /\ \A r \in Requests :
       /\ reservation[r] \in Settlements =>
            reservation'[r] = reservation[r] /\ charge'[r] = charge[r]
       /\ pc[r] \in Ended \cup {"relaying"} => answer'[r] = answer[r]

(* What a step does to its request.                                        *)
OneForward(r) ==
  /\ StepsLeft(r)' < StepsLeft(r)
  /\ reservation[r] \notin Settlements
  /\ pc[r] = "relaying" => answer'[r] = answer[r]
  /\ pc[r] \notin Ended

LEMMA StepForward ==
  ASSUME TypeOK, NEW r \in Requests, StageInv(r),
         Arrive(r) \/ HandlerNext(r) \/ Disconnect(r)
  PROVE  Alone(r) /\ OneForward(r)
<1>0. /\ pc[r] \in InHandler \cup Ended \cup {"new", "relaying"}
      /\ pc[r] \notin Ended => reservation[r] \notin Settlements
  BY DEF TypeOK, StageInv, BeforeCall, AtProvider, InHandler, Ended,
         Settlements
<1> USE <1>0 DEF TypeOK, OneForward, StepsLeft, Alone, Goto, Ended
<1>1. ASSUME NEW error, Reject(r, error),
             pc[r] \in BeforeCall,
             UNCHANGED <<tracked, charge, called>>,
             reservation' = [reservation EXCEPT ![r] = reservation'[r]]
      PROVE  Alone(r) /\ OneForward(r)
  BY <1>1 DEF Reject, DropGuard, BeforeCall
<1>2. ASSUME NEW place \in BeforeCall, Goto(r, place), StepsLeft(r)' < StepsLeft(r),
             pc[r] \in BeforeCall,
             UNCHANGED <<tracked, reservation, charge, answer, called>>,
             Acquire(r) \/ UNCHANGED holders
      PROVE  Alone(r) /\ OneForward(r)
  BY <1>2 DEF Acquire, BeforeCall
<1>3. CASE Arrive(r) \/ Authenticate(r) \/ CheckRate(r) \/ Prepare(r)
  BY <1>1, <1>2, <1>3
     DEF Arrive, Authenticate, CheckRate, Prepare, BeforeCall
<1>4. CASE ReserveExceeded(r) \/ ReserveFails(r)
  BY <1>1, <1>4 DEF ReserveExceeded, ReserveFails, BeforeCall
<1>5. CASE Reserve(r) \/ ProviderStreams(r) \/ ProviderAnswers(r)
  BY <1>5 DEF Reserve, ProviderStreams, ProviderAnswers
<1>6. CASE ProviderFails(r) \/ BodyArrives(r)
  BY <1>6 DEF ProviderFails, BodyArrives, StartSettling
<1>7. CASE Settled(r) \/ RelayEnds(r)
  BY <1>7 DEF Settled, RelayEnds, DropGuard
<1>8. CASE Disconnect(r)
  BY <1>8 DEF Disconnect, DropGuard, InHandler
<1>9. QED
  BY <1>3, <1>4, <1>5, <1>6, <1>7, <1>8 DEF HandlerNext

(* A request is over after eight steps at the most, whatever its handler,  *)
(* its relay, its provider and its client do, and nobody touches again     *)
(* what was settled or answered.                                           *)
THEOREM RequestsGoForward == Spec => [][StepGoesForward]_vars
<1>1. PipelineInv /\ [Next]_vars => [StepGoesForward]_vars
  <2> SUFFICES ASSUME PipelineInv, Next PROVE StepGoesForward
    OBVIOUS
  <2>1. PICK r \in Requests : Arrive(r) \/ HandlerNext(r) \/ Disconnect(r)
    BY DEF Next
  <2>2. TypeOK /\ Alone(r) /\ OneForward(r)
    BY <2>1, StepForward DEF PipelineInv
  <2>3. ASSUME NEW q \in Requests \ {r}
        PROVE  /\ pc'[q] = pc[q] /\ reservation'[q] = reservation[q]
               /\ charge'[q] = charge[q] /\ answer'[q] = answer[q]
    BY <2>2 DEF Alone, TypeOK
  <2>4. \A q \in Requests \ {r} : StepsLeft(q)' = StepsLeft(q)
    BY <2>3 DEF StepsLeft
  <2>5. ASSUME NEW q \in Requests
        PROVE  /\ reservation[q] \in Settlements =>
                    /\ reservation'[q] = reservation[q]
                    /\ charge'[q] = charge[q]
               /\ pc[q] \in Ended \cup {"relaying"} => answer'[q] = answer[q]
    BY <2>2, <2>3 DEF OneForward
  <2>6. QED
    BY <2>2, <2>4, <2>5 DEF StepGoesForward, OneForward
<1>2. QED
  BY <1>1, PipelineInvariant, PTL DEF Spec
=============================================================================
