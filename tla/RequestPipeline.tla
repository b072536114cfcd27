-------------------------- MODULE RequestPipeline --------------------------
(***************************************************************************)
(* The route handlers of anthropic.rs and openai.rs: authentication, rate  *)
(* limit, slot, preparation, reservation, provider and settlement, in that *)
(* order, with the status each failure is answered with.  A step is what a *)
(* handler does between two awaits; at any of them the server drops the    *)
(* handler when its client disconnects.                                    *)
(*                                                                         *)
(* What the parts do inside is in their own modules: RateLimit,            *)
(* RequestBody, TokenAccounting, StreamRelay.                              *)
(***************************************************************************)
EXTENDS StreamSlots

CONSTANTS
  Requests,     \* requests of one service task
  Budget,       \* tokens a request reserves
  Usages,       \* totals a provider may report
  Unreported,   \* "None": no usage in the provider's answer
  NoAnswer      \* the client has no status yet

ASSUME PipelineAssumption ==
  /\ Holders = Requests
  /\ Budget \in Nat \ {0}
  /\ Usages \subseteq Nat
  /\ Unreported \notin Nat
  /\ NoAnswer \notin Nat

VARIABLES
  pc,           \* the await a request's handler is at
  tracked,      \* its engineer has a token limit
  reservation,  \* what became of the reservation
  charge,       \* tokens its reconcile charges
  answer,       \* status the client got, or is about to get
  called        \* the provider connection is open

vars == <<holders, pc, tracked, reservation, charge, answer, called>>

(* into_response: the status of each error.                                *)
Status ==
  [MissingApiKey |-> 401, InvalidApiKeyFormat |-> 401,
   InvalidCredentials |-> 401, DisabledEngineer |-> 401, LookupFailed |-> 503,
   RateLimitExceeded |-> 429, ClockFailed |-> 503, UpdateFailed |-> 503,
   TooManyActiveStreams |-> 429,
   FileTooLarge |-> 413, TimedOut |-> 408, InvalidRequest |-> 400,
   SpoolFailed |-> 502, WorkerStopped |-> 502,
   LimitExceeded |-> 402, ReservationFailed |-> 503,
   ProviderRequestFailed |-> 502]

(* The errors of each stage.  The query by key hash fails, or it finds     *)
(* none, two, a broken or a disabled engineer.                             *)
ApiKeyErrors == {"MissingApiKey", "InvalidApiKeyFormat"}
EngineerErrors == {"LookupFailed", "InvalidCredentials", "DisabledEngineer"}
RateLimitErrors == {"RateLimitExceeded", "ClockFailed", "UpdateFailed"}
PreparationErrors ==
  {"FileTooLarge", "TimedOut", "InvalidRequest", "SpoolFailed", "WorkerStopped"}

(* A status of each class the provider may answer with.                    *)
ProviderStatuses == {200, 302, 429, 500}
IsSuccess(status) == status \in 200..299
IsClientError(status) == status \in 400..499

Ended == {"answered", "dropped"}
InHandler == {"lookup", "rate", "preparing", "reserving", "calling", "body",
              "settling"}

Init ==
  /\ SlotsInit
  /\ pc = [r \in Requests |-> "new"]
  /\ tracked \in [Requests -> BOOLEAN]
  /\ reservation = [r \in Requests |-> "none"]
  /\ charge = [r \in Requests |-> 0]
  /\ answer = [r \in Requests |-> NoAnswer]
  /\ called = [r \in Requests |-> FALSE]

Goto(r, place) == pc' = [pc EXCEPT ![r] = place]

(* Mutant of DropGuard: dropping it gives nothing back.                     *)
DropGuardIdly(r) == UNCHANGED holders

(* The end of a handler that had the slot drops the guard.                 *)
DropGuard(r) == holders' = holders \ {r}

(* The handler returns an error: what it holds is dropped with it.         *)
Reject(r, error) ==
  /\ answer' = [answer EXCEPT ![r] = Status[error]]
  /\ Goto(r, "answered")
  /\ DropGuard(r)

-----------------------------------------------------------------------------
(* read_api_key comes before the first await.                              *)
Arrive(r) ==
  /\ pc[r] = "new"
  /\ \/ /\ Goto(r, "lookup")
        /\ UNCHANGED <<holders, answer>>
     \/ \E error \in ApiKeyErrors : Reject(r, error)
  /\ UNCHANGED <<tracked, reservation, charge, called>>

Authenticate(r) ==
  /\ pc[r] = "lookup"
  /\ \/ /\ Goto(r, "rate")
        /\ UNCHANGED <<holders, answer>>
     \/ \E error \in EngineerErrors : Reject(r, error)
  /\ UNCHANGED <<tracked, reservation, charge, called>>

(* check_and_record, and then the slot without an await in between.        *)
CheckRate(r) ==
  /\ pc[r] = "rate"
  /\ \/ /\ Acquire(r)
        /\ Goto(r, "preparing")
        /\ UNCHANGED answer
     \/ /\ ~HasSlot
        /\ Reject(r, "TooManyActiveStreams")
     \/ \E error \in RateLimitErrors : Reject(r, error)
  /\ UNCHANGED <<tracked, reservation, charge, called>>

Prepare(r) ==
  /\ pc[r] = "preparing"
  /\ \/ /\ Goto(r, "reserving")
        /\ UNCHANGED <<holders, answer>>
     \/ \E error \in PreparationErrors : Reject(r, error)
  /\ UNCHANGED <<tracked, reservation, charge, called>>

(* reserve, and then the call to the provider.  An untracked reservation   *)
(* is made without a write.                                                *)
Reserve(r) ==
  /\ pc[r] = "reserving"
  /\ Goto(r, "calling")
  /\ called' = [called EXCEPT ![r] = TRUE]
  /\ reservation' = [reservation EXCEPT ![r] = "held"]
  /\ UNCHANGED <<holders, tracked, charge, answer>>

ReserveExceeded(r) ==
  /\ pc[r] = "reserving"
  /\ tracked[r]
  /\ Reject(r, "LimitExceeded")
  /\ UNCHANGED <<tracked, reservation, charge, called>>

(* The reservation may have been made, when its answer was lost.           *)
ReserveFails(r) ==
  /\ pc[r] = "reserving"
  /\ tracked[r]
  /\ Reject(r, "ReservationFailed")
  /\ reservation' \in {reservation, [reservation EXCEPT ![r] = "left"]}
  /\ UNCHANGED <<tracked, charge, called>>

-----------------------------------------------------------------------------
(* reconcile with the reported total: a tracked reservation is charged in  *)
(* full without one, an untracked one not at all.                          *)
Charged(r, actual) ==
  IF actual # Unreported THEN actual ELSE IF tracked[r] THEN Budget ELSE 0

StartSettling(r, actual, status) ==
  /\ Goto(r, "settling")
  /\ reservation' = [reservation EXCEPT ![r] = "settling"]
  /\ charge' = [charge EXCEPT ![r] = Charged(r, actual)]
  /\ answer' = [answer EXCEPT ![r] = status]
  /\ called' = [called EXCEPT ![r] = FALSE]
  /\ UNCHANGED <<holders, tracked>>

(* send or bytes fails, by the read timeout at the latest.                 *)
ProviderFails(r) ==
  /\ pc[r] \in {"calling", "body"}
  /\ StartSettling(r, Unreported, Status["ProviderRequestFailed"])

(* Mutant of ProviderStreams: the relay does not get the guard.            *)
ProviderStreamsWithoutGuard(r) ==
  /\ pc[r] = "calling"
  /\ Goto(r, "relaying")
  /\ \E status \in ProviderStatuses :
       IsSuccess(status) /\ answer' = [answer EXCEPT ![r] = status]
  /\ DropGuard(r)
  /\ UNCHANGED <<tracked, reservation, charge, called>>

(* A successful answer to a streaming request: the relay takes over guard  *)
(* and reservation, and the client gets the status at once.                *)
ProviderStreams(r) ==
  /\ pc[r] = "calling"
  /\ Goto(r, "relaying")
  /\ \E status \in ProviderStatuses :
       IsSuccess(status) /\ answer' = [answer EXCEPT ![r] = status]
  /\ UNCHANGED <<holders, tracked, reservation, charge, called>>

(* Any other answer has its body read first.                               *)
ProviderAnswers(r) ==
  /\ pc[r] = "calling"
  /\ \E status \in ProviderStatuses : answer' = [answer EXCEPT ![r] = status]
  /\ Goto(r, "body")
  /\ UNCHANGED <<holders, tracked, reservation, charge, called>>

(* Mutant of CompletedTokens: client errors are not told apart.            *)
CompletedTokensOfAny(status) == Usages \cup {Unreported}

(* completed_response_tokens: a client error costs nothing; otherwise the  *)
(* usage in the body, if there is one.                                     *)
CompletedTokens(status) ==
  IF IsClientError(status) THEN {0} ELSE Usages \cup {Unreported}

BodyArrives(r) ==
  /\ pc[r] = "body"
  /\ \E actual \in CompletedTokens(answer[r]) :
       StartSettling(r, actual, answer[r])

(* reconcile_durably returns: settled, left to the queue, or failed twice, *)
(* which is only logged.                                                   *)
Settlements == {"settled", "queued", "left"}

Settled(r) ==
  /\ pc[r] = "settling"
  /\ \E how \in Settlements : reservation' = [reservation EXCEPT ![r] = how]
  /\ Goto(r, "answered")
  /\ DropGuard(r)
  /\ UNCHANGED <<tracked, charge, answer, called>>

(* The relay's end: see StreamRelay.                                       *)
RelayEnds(r) ==
  /\ pc[r] = "relaying"
  /\ \E actual \in Usages \cup {Unreported} :
       charge' = [charge EXCEPT ![r] = Charged(r, actual)]
  /\ \E how \in Settlements : reservation' = [reservation EXCEPT ![r] = how]
  /\ called' = [called EXCEPT ![r] = FALSE]
  /\ Goto(r, "answered")
  /\ DropGuard(r)
  /\ UNCHANGED <<tracked, answer>>

(* The handler is dropped at its await: the guard and the connection to    *)
(* the provider go with it; a write under way may be made or not, and      *)
(* nobody reconciles what is reserved.                                     *)
Disconnect(r) ==
  /\ pc[r] \in InHandler
  /\ Goto(r, "dropped")
  /\ DropGuard(r)
  /\ answer' = [answer EXCEPT ![r] = NoAnswer]
  /\ called' = [called EXCEPT ![r] = FALSE]
  /\ \E how \in IF reservation[r] = "held" THEN {"left"}
                ELSE IF reservation[r] = "settling" THEN Settlements
                ELSE IF pc[r] = "reserving" /\ tracked[r] THEN {"none", "left"}
                ELSE {"none"} :
       reservation' = [reservation EXCEPT ![r] = how]
  /\ UNCHANGED <<tracked, charge>>

HandlerNext(r) ==
  \/ Authenticate(r) \/ CheckRate(r) \/ Prepare(r)
  \/ Reserve(r) \/ ReserveExceeded(r) \/ ReserveFails(r)
  \/ ProviderFails(r) \/ ProviderStreams(r) \/ ProviderAnswers(r)
  \/ BodyArrives(r) \/ Settled(r) \/ RelayEnds(r)

Next == \E r \in Requests : Arrive(r) \/ HandlerNext(r) \/ Disconnect(r)

Spec == Init /\ [][Next]_vars

(* The handler's other awaits end by themselves: the AWS calls and their   *)
(* retries are bounded, an upload by its deadline, and a relay as          *)
(* StreamRelay shows.                                                      *)
OwnStep(r) ==
  \/ Authenticate(r) \/ CheckRate(r) \/ Prepare(r)
  \/ Reserve(r) \/ ReserveExceeded(r) \/ ReserveFails(r)
  \/ Settled(r) \/ RelayEnds(r)

(* A provider need not answer; the client's read timeout ends the wait.    *)
LiveSpec ==
  Spec /\ \A r \in Requests : WF_vars(OwnStep(r)) /\ WF_vars(ProviderFails(r))

-----------------------------------------------------------------------------
(* Every variable has its type, and a reservation is held exactly while a  *)
(* provider is at work for it.                                             *)
TypeOK ==
  /\ SlotsTypeOK
  /\ pc \in [Requests -> InHandler \cup Ended \cup {"new", "relaying"}]
  /\ tracked \in [Requests -> BOOLEAN]
  /\ reservation \in [Requests -> Settlements \cup {"none", "held", "settling"}]
  /\ charge \in [Requests -> Usages \cup {0, Budget}]
  /\ answer \in [Requests -> {Status[e] : e \in DOMAIN Status}
                              \cup ProviderStatuses \cup {NoAnswer}]
  /\ called \in [Requests -> BOOLEAN]
  /\ \A r \in Requests :
       reservation[r] = "held" <=> pc[r] \in {"calling", "body", "relaying"}

(* Whoever waits for a provider has a slot and a reservation, so providers *)
(* see MaxStreams requests of this service at most, and none without a     *)
(* budget behind it: also when handlers are dropped or hand over.          *)
CallsAreCovered ==
  /\ \A r \in Requests :
       called[r] => r \in holders /\ reservation[r] = "held"
  /\ Cardinality({r \in Requests : called[r]}) <= MaxStreams

(* A 4xx answer costs no tokens, whether the gateway refused the request   *)
(* or the provider did, as far as its settlement could be made.            *)
ClientErrorsAreFree ==
  \A r \in Requests : pc[r] = "answered" /\ answer[r] \in 400..499 =>
    \/ reservation[r] = "none"
    \/ charge[r] = 0

(* Every request gives its slot back, whichever way it ends: refused,      *)
(* answered, relayed, dropped, or left alone by its provider.              *)
SlotsComeBack == \A r \in Requests : r \in holders ~> r \notin holders
=============================================================================
