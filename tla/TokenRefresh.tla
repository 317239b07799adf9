------------------------------ MODULE TokenRefresh ------------------------------
(***************************************************************************)
(* The MARS access token: MarsService.refreshToken, its timer, the refresh *)
(* that a 401 starts, and the first refresh of LocationService.            *)
(*                                                                         *)
(* A refresh asks MARS for a token and, when MARS answers, sets a timer    *)
(* that starts the next refresh.  A chain is such a succession.  Starting  *)
(* a refresh cancels the timer the service remembers, then waits for MARS, *)
(* so that refreshes of several chains overlap.                            *)
(***************************************************************************)
EXTENDS Naturals, FiniteSets

CONSTANTS
  Chain,     \* successions of refreshes, each started once at a time
  MaxCalls   \* bound on MARS calls in flight with a token MARS rejects

ASSUME TokenAssumption == MaxCalls \in Nat \ {0} /\ Chain # {}

VARIABLES
  stage,        \* each chain: not started, asking MARS, or waiting on its timer
  handle,       \* refreshTokenTimer: the chain whose timer was set last
  token,        \* accessToken as MARS sees it
  service,      \* the bootstrap of the application
  initialized,  \* LocationService.isMarsInitialized
  locating,     \* chains whose present request LocationService.locations awaits
  rejected,     \* MARS calls in flight with a token MARS rejects
  up,           \* MARS answers every request
  broken,       \* history: some request for a token failed without an answer
  overlap       \* history: some refresh started while another was asking MARS

chainVars == <<stage, handle>>
callerVars == <<service, initialized, locating>>
tokenVars == <<chainVars, token, callerVars, rejected, up, broken, overlap>>

NoTimer == "none"

TokenTypeOK ==
  /\ stage \in [Chain -> {"off", "asking", "armed"}]
  /\ handle \in Chain \cup {NoTimer}
  /\ token \in {"none", "valid", "expired"}
  /\ service \in {"starting", "serving", "dead"}
  /\ initialized \in BOOLEAN
  /\ locating \subseteq Chain
  /\ rejected \in 0..MaxCalls
  /\ up \in BOOLEAN
  /\ broken \in BOOLEAN
  /\ overlap \in BOOLEAN

\* onApplicationBootstrap has called refreshToken.
TokenInit ==
  /\ \E c \in Chain : stage = [x \in Chain |-> IF x = c THEN "asking" ELSE "off"]
  /\ handle = NoTimer
  /\ token = "none"
  /\ service = "starting"
  /\ initialized = FALSE
  /\ locating = {}
  /\ rejected = 0
  /\ up \in BOOLEAN
  /\ broken = FALSE
  /\ overlap = FALSE

-----------------------------------------------------------------------------
(* refreshToken *)

Asking == {c \in Chain : stage[c] = "asking"}

\* Mutant: the timer the service remembers keeps running.
RefreshTokenUncleared(c) ==
  /\ stage' = [stage EXCEPT ![c] = "asking"]
  /\ overlap' = (overlap \/ Asking # {})

\* Up to the await: clear the timer the service remembers, ask for a token.
RefreshToken(c) ==
  /\ stage' = [x \in Chain |->
                 IF x = c THEN "asking"
                 ELSE IF x = handle /\ stage[x] = "armed" THEN "off" ELSE stage[x]]
  /\ overlap' = (overlap \/ Asking # {})

\* A timer fires.  Clearing the timer that just fired does nothing.
Fire(c) ==
  /\ stage[c] = "armed"
  /\ RefreshToken(c)
  /\ UNCHANGED <<handle, token, callerVars, rejected, up, broken>>

\* Who waits for the request of c when it ends: the bootstrap, or locations.
Booting == service = "starting"
Succeed(c) ==
  /\ service' = IF Booting THEN "serving" ELSE service
  /\ initialized' = (initialized \/ c \in locating)
  /\ locating' = locating \ {c}

Reject(c) ==
  /\ service' = IF Booting THEN "dead" ELSE service
  /\ locating' = locating \ {c}
  /\ UNCHANGED initialized

\* MARS answers with a token: keep it and set the timer for the next one.
Grant(c) ==
  /\ stage[c] = "asking"
  /\ stage' = [stage EXCEPT ![c] = "armed"]
  /\ handle' = c
  /\ token' = "valid"
  /\ Succeed(c)
  /\ UNCHANGED <<rejected, up, broken, overlap>>

\* Mutant: the retry is left to whoever gets the error.
RefuseUntimed(c) ==
  /\ stage[c] = "asking" /\ ~up
  /\ stage' = [stage EXCEPT ![c] = "off"]
  /\ Reject(c)
  /\ UNCHANGED <<handle, token, rejected, up, broken, overlap>>

\* MARS answers without a token: retry in five seconds, and throw.
Refuse(c) ==
  /\ stage[c] = "asking" /\ ~up
  /\ stage' = [stage EXCEPT ![c] = "armed"]
  /\ handle' = c
  /\ Reject(c)
  /\ UNCHANGED <<token, rejected, up, broken, overlap>>

\* The request fails or times out: requestToken throws and no timer is set.
FailToken(c) ==
  /\ stage[c] = "asking" /\ ~up
  /\ stage' = [stage EXCEPT ![c] = "off"]
  /\ Reject(c)
  /\ broken' = TRUE
  /\ UNCHANGED <<handle, token, rejected, up, overlap>>

-----------------------------------------------------------------------------
(* Who starts a refresh *)

\* A request is served by calling MARS with a token it will reject.
Send ==
  /\ service = "serving" /\ token # "valid" /\ rejected < MaxCalls
  /\ rejected' = rejected + 1
  /\ UNCHANGED <<chainVars, token, callerVars, up, broken, overlap>>

\* Mutant: the 401 is reported like any other error.
UnauthorizedIgnored(c) ==
  /\ rejected > 0 /\ stage[c] = "off"
  /\ rejected' = rejected - 1
  /\ UNCHANGED <<chainVars, token, callerVars, up, broken, overlap>>

\* checkResponseAndBuildError sees a 401: refreshToken starts, un-awaited,
\* even when the token was renewed while the call was in flight.
Unauthorized(c) ==
  /\ rejected > 0 /\ stage[c] = "off"
  /\ rejected' = rejected - 1
  /\ RefreshToken(c)
  /\ UNCHANGED <<handle, token, callerVars, up, broken>>

\* The call times out or fails otherwise: no refresh.
Lose ==
  /\ rejected > 0 /\ ~up
  /\ rejected' = rejected - 1
  /\ UNCHANGED <<chainVars, token, callerVars, up, broken, overlap>>

\* LocationService.locations before its first success.
Locations(c) ==
  /\ ~initialized /\ service = "serving" /\ stage[c] = "off"
  /\ RefreshToken(c)
  /\ locating' = locating \cup {c}
  /\ UNCHANGED <<handle, token, service, initialized, rejected, up, broken>>

-----------------------------------------------------------------------------
(* MARS *)

\* The token runs out, or MARS forgets it.
Expire ==
  /\ token = "valid"
  /\ token' = "expired"
  /\ UNCHANGED <<chainVars, callerVars, rejected, up, broken, overlap>>

Outage ==
  /\ up' = ~up
  /\ UNCHANGED <<chainVars, token, callerVars, rejected, broken, overlap>>

TokenNext ==
  \/ \E c \in Chain :
       Fire(c) \/ Grant(c) \/ Refuse(c) \/ FailToken(c) \/ Unauthorized(c) \/ Locations(c)
  \/ Send \/ Lose \/ Expire \/ Outage

TokenSpec == TokenInit /\ [][TokenNext]_tokenVars

(***************************************************************************)
(* Timers fire and every request to MARS is answered or times out.  A 401  *)
(* is served by whichever chain is free.                                   *)
(***************************************************************************)
TokenFairness ==
  /\ \A c \in Chain : WF_tokenVars(Fire(c)) /\ WF_tokenVars(Grant(c) \/ Refuse(c) \/ FailToken(c))
  /\ WF_tokenVars(\E c \in Chain : Unauthorized(c))

FairTokenSpec == TokenSpec /\ TokenFairness

-----------------------------------------------------------------------------
On == {c \in Chain : stage[c] # "off"}
Armed == {c \in Chain : stage[c] = "armed"}

(***************************************************************************)
(* Refreshes that start in any order and clear each other's timers never   *)
(* leave the service without one: a refresh is under way or scheduled as   *)
(* long as no request for a token failed at the network level.             *)
(***************************************************************************)
RefreshGoesOn == ~broken => On # {}

\* The bootstrap waits for a token: a service that takes requests, and so
\* calls MARS, was given one, whichever refresh brought it.
ServingHasToken == service = "serving" => token # "none"

(***************************************************************************)
(* "Make sure there's only one" (timer, refreshToken): true as long as no  *)
(* refresh starts while another waits for MARS; then one refresh is under  *)
(* way or one timer runs, never both, and the timer is the remembered one. *)
(***************************************************************************)
OneTimerUnlessOverlap ==
  ~overlap => \A c, d \in On : c = d /\ (stage[c] = "armed" => handle = c)

(***************************************************************************)
(* Once MARS stays up, and requests that call MARS keep coming while the   *)
(* token is bad, the service has a valid token again and again, even when  *)
(* an outage ended every chain of refreshes.                               *)
(***************************************************************************)
TokenRecovers ==
  (<>[]up /\ []<>(token = "valid" \/ rejected > 0)) => []<>(token = "valid")
=============================================================================
