---------------------------- MODULE RetryBreaker ----------------------------
(***************************************************************************)
(* RetryActor (main-app/src/retry_actor.rs): every chat request goes       *)
(* through it.  It retries a failed LLM call with a growing delay and      *)
(* keeps a circuit breaker, whose state survives the process in one row of *)
(* a database.                                                             *)
(*                                                                         *)
(* The handler of a request is synchronous up to its first LLM call and    *)
(* its last continuation is synchronous again; between the two any number  *)
(* of other requests are served, so requests overlap freely.               *)
(*                                                                         *)
(* The cooldown is a deadline compared with two clocks: the monotone one   *)
(* (Instant) while the process lives, the wall clock when the row is read. *)
(* Only whether each deadline has passed matters, and the two need not     *)
(* agree.  Left out: the delays, the texts, the latencies.                 *)
(***************************************************************************)
EXTENDS Integers, FiniteSets

CONSTANTS
    Requests,      \* RetryChatRequest messages
    Thresholds,    \* CIRCUIT_BREAKER_THRESHOLD, possibly another after a restart
    AttemptCap,    \* the 10 of max_retries.min(10)
    AskedRetries,  \* the max_retries a caller may ask for
    MaxCrashes     \* bound on process restarts

ASSUME BreakerAssumption ==
    /\ Thresholds \subseteq Nat /\ AskedRetries \subseteq Nat
    /\ AttemptCap \in Nat \ {0}
    /\ MaxCrashes \in Nat

VARIABLES
    circuit,    \* the breaker of this process
    cooling,    \* an open circuit's deadline lies ahead
    failures,   \* consecutive_failures
    threshold,  \* the configuration of this process
    request,    \* how far each request has come
    row,        \* the row of the database
    persist,    \* whether this process could open the database
    crashes     \* restarts so far

breaker == <<circuit, cooling, failures>>
breakerVars == <<circuit, cooling, failures, threshold, request, row, persist, crashes>>

----------------------------------------------------------------------------
\* Data

CircuitState == {"closed", "open", "half-open"}

\* A row that was never written reads as a closed circuit.
Row == [state: CircuitState, cooling: BOOLEAN, failures: Nat]

NoRow == [state |-> "closed", cooling |-> FALSE, failures |-> 0]

Stages == {"new", "calling", "backoff", "answered", "failed", "rejected", "lost"}

\* attempt counts the LLM calls made; probe says that the request was let
\* through by a half-open circuit.
Request == [stage: Stages, attempt: 0..AttemptCap, limit: 1..AttemptCap, probe: BOOLEAN]

NewRequest == [stage |-> "new", attempt |-> 0, limit |-> 1, probe |-> FALSE]

InFlight(r) == request[r].stage \in {"calling", "backoff"}

\* Mutation: no lower bound.
AttemptLimitUnfloored(asked) == IF asked > AttemptCap THEN AttemptCap ELSE asked

\* max_retries.min(10).max(1)
AttemptLimit(asked) == IF asked > AttemptCap THEN AttemptCap
                       ELSE IF asked < 1 THEN 1 ELSE asked

\* No request makes more calls than max_retries, clamped, allows.
BreakerTypeOK ==
    /\ circuit \in CircuitState
    /\ cooling \in BOOLEAN
    /\ failures \in Nat
    /\ threshold \in Thresholds
    /\ request \in [Requests -> Request]
    /\ \A r \in Requests : request[r].attempt <= request[r].limit
    /\ row \in Row
    /\ persist \in BOOLEAN
    /\ crashes \in Nat

BreakerInit ==
    /\ circuit = "closed" /\ cooling = FALSE /\ failures = 0
    /\ threshold \in Thresholds
    /\ request = [r \in Requests |-> NewRequest]
    /\ row = NoRow
    /\ persist \in BOOLEAN
    /\ crashes = 0

\* persist_state after a change; an open circuit is written with the absolute
\* time its cooldown ends.
PersistState ==
    row' = IF persist
           THEN [state |-> circuit', cooling |-> cooling', failures |-> failures']
           ELSE row

----------------------------------------------------------------------------
\* Handler<RetryChatRequest> up to the first LLM call

RejectRequest(r) ==
    /\ request[r].stage = "new"
    /\ circuit = "open" /\ cooling
    /\ request' = [request EXCEPT ![r].stage = "rejected"]
    /\ UNCHANGED <<breaker, threshold, row, persist, crashes>>

\* Anything but an open circuit in its cooldown lets the request through; an
\* open circuit whose cooldown is over becomes half-open first.
AdmitRequest(r) ==
    /\ request[r].stage = "new"
    /\ ~(circuit = "open" /\ cooling)
    /\ circuit' = IF circuit = "open" THEN "half-open" ELSE circuit
    /\ UNCHANGED <<cooling, failures>>
    /\ IF circuit = "open" THEN PersistState ELSE UNCHANGED row
    /\ \E asked \in AskedRetries :
           request' = [request EXCEPT ![r] =
               [stage |-> "calling", attempt |-> 1, limit |-> AttemptLimit(asked),
                probe |-> circuit' = "half-open"]]
    /\ UNCHANGED <<threshold, persist, crashes>>

----------------------------------------------------------------------------
\* The retry loop and its continuation in the actor

\* Success closes the circuit, whatever it was.
AttemptSucceeds(r) ==
    /\ request[r].stage = "calling"
    /\ request' = [request EXCEPT ![r].stage = "answered"]
    /\ circuit' = "closed" /\ cooling' = FALSE /\ failures' = 0
    /\ PersistState
    /\ UNCHANGED <<threshold, persist, crashes>>

\* A failed call that is not the last sleeps before the next.
AttemptFails(r) ==
    /\ request[r].stage = "calling"
    /\ request[r].attempt < request[r].limit
    /\ request' = [request EXCEPT ![r].stage = "backoff"]
    /\ UNCHANGED <<breaker, threshold, row, persist, crashes>>

\* Mutation: the loop does not count its attempts.
RetryUncounted(r) ==
    /\ request[r].stage = "backoff"
    /\ request' = [request EXCEPT ![r].stage = "calling"]
    /\ UNCHANGED <<breaker, threshold, row, persist, crashes>>

RetryAttempt(r) ==
    /\ request[r].stage = "backoff"
    /\ request' = [request EXCEPT ![r].stage = "calling", ![r].attempt = @ + 1]
    /\ UNCHANGED <<breaker, threshold, row, persist, crashes>>

\* The last attempt failed: enough failures in a row, or a failed probe, open
\* the circuit for a whole cooldown.
RetriesExhausted(r) ==
    /\ request[r].stage = "calling"
    /\ request[r].attempt >= request[r].limit
    /\ request' = [request EXCEPT ![r].stage = "failed"]
    /\ failures' = failures + 1
    /\ \/ /\ failures' >= threshold
          /\ circuit' = "open" /\ cooling' = TRUE
       \/ /\ failures' < threshold /\ circuit = "half-open"
          /\ circuit' = "open" /\ cooling' = TRUE
       \/ /\ failures' < threshold /\ circuit # "half-open"
          /\ UNCHANGED <<circuit, cooling>>
    /\ PersistState
    /\ UNCHANGED <<threshold, persist, crashes>>

Proceed(r) ==
    \/ AttemptSucceeds(r) \/ AttemptFails(r) \/ RetryAttempt(r) \/ RetriesExhausted(r)

----------------------------------------------------------------------------
\* Time and restarts

CooldownEnds ==
    /\ circuit = "open" /\ cooling
    /\ cooling' = FALSE
    /\ UNCHANGED <<circuit, failures, threshold, request, row, persist, crashes>>

RowCooldownEnds ==
    /\ row.state = "open" /\ row.cooling
    /\ row' = [row EXCEPT !.cooling = FALSE]
    /\ UNCHANGED <<breaker, threshold, request, persist, crashes>>

\* Mutation: only the state of the circuit is restored.
LoadStateOnly(r) ==
    [state    |-> IF r.state = "open" /\ ~r.cooling THEN "half-open" ELSE r.state,
     cooling  |-> r.state = "open" /\ r.cooling,
     failures |-> 0]

\* CircuitPersist::load: an open row past its deadline reads as half-open.
Load(r) ==
    [state    |-> IF r.state = "open" /\ ~r.cooling THEN "half-open" ELSE r.state,
     cooling  |-> r.state = "open" /\ r.cooling,
     failures |-> r.failures]

\* RetryActor::new in the next process; requests in flight are gone.
RestartBreaker(opened) ==
    /\ crashes < MaxCrashes
    /\ crashes' = crashes + 1
    /\ persist' = opened
    /\ threshold' \in Thresholds
    /\ LET from == Load(IF opened THEN row ELSE NoRow) IN
           /\ circuit' = from.state /\ cooling' = from.cooling
           /\ failures' = from.failures
    /\ request' = [r \in Requests |->
                      IF InFlight(r) THEN [request[r] EXCEPT !.stage = "lost"]
                                     ELSE request[r]]
    /\ UNCHANGED row

----------------------------------------------------------------------------

BreakerNext ==
    \/ \E r \in Requests : RejectRequest(r) \/ AdmitRequest(r) \/ Proceed(r)
    \/ CooldownEnds \/ RowCooldownEnds
    \/ \E opened \in BOOLEAN : RestartBreaker(opened)

BreakerSpec == BreakerInit /\ [][BreakerNext]_breakerVars

\* LLM calls return and sleeps end.
FairBreakerSpec == BreakerSpec /\ \A r \in Requests : WF_breakerVars(Proceed(r))

----------------------------------------------------------------------------
\* Properties

\* What a crash at this moment would restore is the breaker as it is, but for
\* the rest of a cooldown that the wall clock takes for over.
CrashKeepsBreaker ==
    persist =>
        LET restored == Load(row) IN
        /\ restored.failures = failures
        /\ \/ restored.state = circuit
           \/ circuit = "open" /\ restored.state = "half-open"

\* A breaker that is not closed has seen a failure that no success followed:
\* no interleaving of late answers and no restart trips it for nothing.
TrippedByFailure == circuit # "closed" => failures > 0

\* The circuit closes only because a call succeeded, or in a restart where the
\* old process or the new one had no database.
ClosesOnlyOnSuccess ==
    [][circuit # "closed" /\ circuit' = "closed" =>
          \/ \E r \in Requests : /\ request[r].stage = "calling"
                                 /\ request'[r].stage = "answered"
          \/ crashes' > crashes /\ ~(persist /\ persist')]_breakerVars

\* Every admitted request is answered, fails for good or dies with the
\* process: the number of its calls is bounded.
RequestsEnd == \A r \in Requests : InFlight(r) ~> ~InFlight(r)

----------------------------------------------------------------------------
\* What the documentation says and the code does not do

\* "HalfOpen - after cooldown, allow one request": at most one probe at a time.
OneProbe ==
    Cardinality({r \in Requests : InFlight(r) /\ request[r].probe}) <= 1

\* "Open - reject immediately for a cooldown": an open circuit whose cooldown
\* is running does not close.
OpenForCooldown ==
    [][circuit = "open" /\ cooling => circuit' # "closed" \/ crashes' > crashes]_breakerVars
=============================================================================
