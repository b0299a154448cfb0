----------------------------- MODULE HttpServer -----------------------------
(***************************************************************************)
(* The local API (server/http_server.cpp): POST /txn and POST /command on  *)
(* worker threads that share one hopper, one shutter and one busy flag.    *)
(*                                                                         *)
(* Every request passes the rate limiter and the gate of the pre-routing   *)
(* handler.  /txn holds in_progress_ while it parses and runs the          *)
(* purchase; /command looks at the flag before it opens or dispenses, does *)
(* not take it, and does not look at all before it closes.  The engine is  *)
(* reduced to what it does to hopper and shutter (TxnEngine has its        *)
(* journal and its faults), the hopper to its counter, which dispenseCoins *)
(* resets and every caller that polls may increment.                       *)
(***************************************************************************)
EXTENDS Naturals, FiniteSets

CONSTANTS
  Workers,      \* threads of the HTTP library
  Requests,     \* requests that clients send
  Capacity,     \* RateLimiter::capacity, in whole tokens
  MaxPosts,     \* bound: requests received
  MaxFallen     \* bound: coins that fall for one purchase

\* A request: what it asks for, whether its body is well-formed and whether it is
\* authorized.
Jobs == [route : {"txn", "close", "open", "dispense"}, coins : Nat,
         good : BOOLEAN, auth : BOOLEAN]

ASSUME ServerAssumption ==
  /\ Requests \subseteq Jobs /\ Requests # {}
  /\ Capacity \in Nat /\ MaxPosts \in Nat /\ MaxFallen \in Nat

VARIABLES
  wpc,        \* control point of every worker
  job,        \* its request
  response,   \* its latest answer
  inProgress, \* HttpServer::in_progress_
  tokens,     \* RateLimiter::tokens of each route
  disabled,   \* the fleet manager has disabled local-drawer
  motor,      \* the hopper's motor runs
  pulses,     \* HopperParallel::pulses_
  shutter,    \* "closed", "open" or "ajar"
  posts,      \* requests so far
  fallen,     \* history: coins since the worker began its purchase
  crossed     \* history: workers whose purchase a command interfered with

hvars == <<wpc, job, response, inProgress, tokens, disabled, motor, pulses, shutter,
           posts, fallen, crossed>>

\* What the busy flag guards, and where a worker moves hopper or shutter.
Guarded == {"parse", "start", "pay", "open", "present", "close", "answer"}
Paying == {"pay", "cmdpay"}
Moving == {"open", "close", "cmdopen", "cmdclose"}
Commanding == {"cmdstart", "cmdpay", "cmdopen", "cmdclose"}
WPcs == {"free", "limit", "gate", "txn", "command", "look"} \cup Guarded \cup Commanding

Answers == {"none", "OK", "VOID", "done", "400", "401", "409", "423", "429"}
Limiter(r) == IF r = "txn" THEN "txn" ELSE "command"

HTypeOK ==
  /\ wpc \in [Workers -> WPcs]
  /\ job \in [Workers -> Requests]
  /\ response \in [Workers -> Answers]
  /\ inProgress \in BOOLEAN
  /\ tokens \in [{"txn", "command"} -> 0..Capacity]
  /\ disabled \in BOOLEAN
  /\ motor \in BOOLEAN
  /\ pulses \in Nat
  /\ shutter \in {"closed", "open", "ajar"}
  /\ posts \in 0..MaxPosts
  /\ fallen \in [Workers -> Nat]
  /\ crossed \subseteq Workers

HInit ==
  /\ wpc = [w \in Workers |-> "free"]
  /\ job = [w \in Workers |-> CHOOSE j \in Requests : TRUE]
  /\ response = [w \in Workers |-> "none"]
  /\ inProgress = FALSE
  /\ tokens = [r \in {"txn", "command"} |-> Capacity]
  /\ disabled = FALSE
  /\ motor = FALSE
  /\ pulses = 0
  /\ shutter = "closed"
  /\ posts = 0
  /\ fallen = [w \in Workers |-> 0]
  /\ crossed = {}

-----------------------------------------------------------------------------
Advance(w, p) == wpc' = [wpc EXCEPT ![w] = p]

Reply(w, code) ==
  /\ Advance(w, "free")
  /\ response' = [response EXCEPT ![w] = code]

Dispatch(w, j) ==
  /\ wpc[w] = "free"
  /\ posts < MaxPosts
  /\ posts' = posts + 1
  /\ job' = [job EXCEPT ![w] = j]
  /\ Advance(w, "limit")
  /\ UNCHANGED <<response, inProgress, tokens, disabled, motor, pulses, shutter, fallen, crossed>>

\* RateLimiter::allow; the refill that time has brought is RefillTokens.
Limit(w) ==
  /\ wpc[w] = "limit"
  /\ LET r == Limiter(job[w].route) IN
       \/ tokens[r] = 0 /\ Reply(w, "429") /\ UNCHANGED tokens
       \/ /\ tokens[r] > 0
          /\ tokens' = [tokens EXCEPT ![r] = @ - 1]
          /\ Advance(w, "gate")
          /\ UNCHANGED response
  /\ UNCHANGED <<job, inProgress, disabled, motor, pulses, shutter, posts, fallen, crossed>>

RefillTokens(r) ==
  /\ tokens[r] < Capacity
  /\ tokens' = [tokens EXCEPT ![r] = @ + 1]
  /\ UNCHANGED <<wpc, job, response, inProgress, disabled, motor, pulses, shutter, posts,
                 fallen, crossed>>

\* The rest of the pre-routing handler: disabled device, then authorization.
Gate(w) ==
  /\ wpc[w] = "gate"
  /\ \/ disabled /\ Reply(w, "423")
     \/ ~disabled /\ ~job[w].auth /\ Reply(w, "401")
     \/ /\ ~disabled /\ job[w].auth
        /\ Advance(w, Limiter(job[w].route))
        /\ UNCHANGED response
  /\ UNCHANGED <<job, inProgress, tokens, disabled, motor, pulses, shutter, posts,
                 fallen, crossed>>

-----------------------------------------------------------------------------
(***************************************************************************)
(* POST /txn.                                                              *)
(***************************************************************************)
\* Guard: busy_try_acquire().
Acquire(w) ==
  /\ wpc[w] = "txn"
  /\ inProgress' = TRUE
  /\ \/ inProgress /\ Reply(w, "409")
     \/ ~inProgress /\ Advance(w, "parse") /\ UNCHANGED response
  /\ UNCHANGED <<job, tokens, disabled, motor, pulses, shutter, posts, fallen, crossed>>

\* ~Guard() on the way out.
EndGuard(w, code) ==
  /\ inProgress' = FALSE
  /\ Reply(w, code)

\* The body; then run_purchase begins.
Parse(w) ==
  /\ wpc[w] = "parse"
  /\ \/ ~job[w].good /\ EndGuard(w, "400") /\ UNCHANGED <<fallen, crossed>>
     \/ /\ job[w].good
        /\ fallen' = [fallen EXCEPT ![w] = 0]
        /\ crossed' = IF \E o \in Workers : wpc[o] \in Commanding
                      THEN crossed \cup {w} ELSE crossed \ {w}
        /\ Advance(w, IF job[w].coins > 0 THEN "start" ELSE "open")
        /\ UNCHANGED <<response, inProgress>>
  /\ UNCHANGED <<job, tokens, disabled, motor, pulses, shutter, posts>>

\* check_and_block_motion() refuses before the coins or after the presentation; a payout
\* or a shutter that fails ends in StopMotor and Move.
Void(w) ==
  /\ wpc[w] \in {"start", "present"}
  /\ EndGuard(w, "VOID")
  /\ UNCHANGED <<job, tokens, disabled, motor, pulses, shutter, posts, fallen, crossed>>

Presented(w) ==
  /\ wpc[w] = "present"
  /\ Advance(w, "close")
  /\ UNCHANGED <<job, response, inProgress, tokens, disabled, motor, pulses, shutter, posts,
                 fallen, crossed>>

AnswerOk(w) ==
  /\ wpc[w] = "answer"
  /\ EndGuard(w, "OK")
  /\ UNCHANGED <<job, tokens, disabled, motor, pulses, shutter, posts, fallen, crossed>>

-----------------------------------------------------------------------------
(***************************************************************************)
(* POST /command.                                                          *)
(***************************************************************************)
\* Purchases that are under way when a command begins to move something.
Cross == crossed' = crossed \cup {o \in Workers : wpc[o] \in Guarded \ {"parse"}}

\* A body that does not parse, or a bad distance to close, is refused at once; any other
\* bad value, and a command nobody knows, only after the look at the flag.
Command(w) ==
  /\ wpc[w] = "command"
  /\ \/ ~job[w].good /\ Reply(w, "400") /\ UNCHANGED crossed
     \/ /\ job[w].good /\ job[w].route = "close"
        /\ Advance(w, "cmdclose")
        /\ Cross
        /\ UNCHANGED response
     \/ /\ job[w].route # "close"
        /\ Advance(w, "look")
        /\ UNCHANGED <<response, crossed>>
  /\ UNCHANGED <<job, inProgress, tokens, disabled, motor, pulses, shutter, posts, fallen>>

\* in_progress_.load()
Look(w) ==
  /\ wpc[w] = "look"
  /\ \/ inProgress /\ Reply(w, "409") /\ UNCHANGED crossed
     \/ ~inProgress /\ ~job[w].good /\ Reply(w, "400") /\ UNCHANGED crossed
     \/ /\ ~inProgress /\ job[w].good
        /\ Advance(w, IF job[w].route = "open" THEN "cmdopen" ELSE "cmdstart")
        /\ Cross
        /\ UNCHANGED response
  /\ UNCHANGED <<job, inProgress, tokens, disabled, motor, pulses, shutter, posts, fallen>>

-----------------------------------------------------------------------------
(***************************************************************************)
(* The hopper and the shutter, for whoever calls.                          *)
(***************************************************************************)
\* dispenseCoins, or one more attempt of it: resetCounters() and start().
StartMotor(w) ==
  /\ wpc[w] \in {"start", "cmdstart"} \cup Paying
  /\ wpc[w] \in Paying => pulses < job[w].coins
  /\ pulses' = 0
  /\ motor' = TRUE
  /\ Advance(w, IF wpc[w] \in {"start", "pay"} THEN "pay" ELSE "cmdpay")
  /\ UNCHANGED <<job, response, inProgress, tokens, disabled, shutter, posts, fallen, crossed>>

\* A coin leaves.  A single caller counts it at most once; of two callers that poll the
\* sensor without a lock, both may see the edge.
CoinFalls ==
  LET callers == {w \in Workers : wpc[w] \in Paying} IN
    /\ motor
    /\ callers # {}
    /\ \A w \in callers : fallen[w] < MaxFallen
    /\ \E seen \in 0..Cardinality(callers) : pulses' = pulses + seen
    /\ fallen' = [w \in Workers |-> IF w \in callers THEN fallen[w] + 1 ELSE fallen[w]]
    /\ UNCHANGED <<wpc, job, response, inProgress, tokens, disabled, motor, shutter, posts,
                   crossed>>

\* Bug: dispenseCoins waits for its coins without an end.
StopMotorPatient(w) ==
  /\ wpc[w] \in Paying
  /\ pulses >= job[w].coins
  /\ motor' = FALSE
  /\ \/ wpc[w] = "cmdpay" /\ Reply(w, "done")
     \/ wpc[w] = "pay" /\ Advance(w, "open") /\ UNCHANGED response
  /\ UNCHANGED <<job, inProgress, tokens, disabled, pulses, shutter, posts, fallen,
                 crossed>>

\* Bug: the result of dispenseCoins is not looked at.
StopMotorBlind(w) ==
  /\ wpc[w] \in Paying
  /\ motor' = FALSE
  /\ \/ wpc[w] = "cmdpay" /\ Reply(w, "done")
     \/ wpc[w] = "pay" /\ Advance(w, "open") /\ UNCHANGED response
  /\ UNCHANGED <<job, inProgress, tokens, disabled, pulses, shutter, posts, fallen,
                 crossed>>

\* dispenseCoins ends: with all coins counted, or not.
StopMotor(w) ==
  /\ wpc[w] \in Paying
  /\ motor' = FALSE
  /\ \/ wpc[w] = "cmdpay" /\ Reply(w, "done") /\ UNCHANGED inProgress
     \/ /\ wpc[w] = "pay" /\ pulses >= job[w].coins
        /\ Advance(w, "open") /\ UNCHANGED <<response, inProgress>>
     \/ wpc[w] = "pay" /\ pulses < job[w].coins /\ EndGuard(w, "VOID")
  /\ UNCHANGED <<job, tokens, disabled, pulses, shutter, posts, fallen, crossed>>

\* open_mm and close_mm.  Two callers of one ShutterFSM may leave it anywhere.
Move(w) ==
  /\ wpc[w] \in Moving
  /\ \E arrived \in BOOLEAN :
       /\ LET goal == IF wpc[w] \in {"open", "cmdopen"} THEN "open" ELSE "closed"
              alone == \A o \in Workers \ {w} : wpc[o] \notin Moving
          IN  shutter' \in IF arrived /\ alone THEN {goal}
                           ELSE IF arrived THEN {"closed", "open", "ajar"}
                           ELSE {shutter, "ajar"}
       /\ \/ wpc[w] \in Commanding /\ Reply(w, "done") /\ UNCHANGED inProgress
          \/ wpc[w] \in Guarded /\ ~arrived /\ EndGuard(w, "VOID")
          \/ /\ wpc[w] \in Guarded /\ arrived
             /\ Advance(w, IF wpc[w] = "open" THEN "present" ELSE "answer")
             /\ UNCHANGED <<response, inProgress>>
  /\ UNCHANGED <<job, tokens, disabled, motor, pulses, posts, fallen, crossed>>

\* The fleet manager disables or enables the device.
SetDisabled ==
  /\ disabled' = ~disabled
  /\ UNCHANGED <<wpc, job, response, inProgress, tokens, motor, pulses, shutter, posts,
                 fallen, crossed>>

\* The steps a worker takes by itself; whether a jammed call is repeated is StartMotor.
Serve(w) ==
  \/ Limit(w) \/ Gate(w)
  \/ Acquire(w) \/ Parse(w) \/ Void(w) \/ Presented(w) \/ AnswerOk(w)
  \/ Command(w) \/ Look(w)
  \/ (wpc[w] \in {"start", "cmdstart"} /\ StartMotor(w)) \/ StopMotor(w) \/ Move(w)

HNext ==
  \/ \E w \in Workers, j \in Requests : Dispatch(w, j)
  \/ \E w \in Workers : Serve(w) \/ StartMotor(w)
  \/ \E r \in {"txn", "command"} : RefillTokens(r)
  \/ CoinFalls
  \/ SetDisabled

HSpec == HInit /\ [][HNext]_hvars

\* Threads are scheduled, and dispenseCoins and the shutter adapter give up in time.
HFairSpec == HSpec /\ \A w \in Workers : WF_hvars(Serve(w))

-----------------------------------------------------------------------------
(***************************************************************************)
(* in_progress_ is set exactly while one /txn request is being served:     *)
(* two purchases never share the engine, and no way out of the handler,    *)
(* the 400 included, leaves the flag behind.                               *)
(***************************************************************************)
BusyIsHeld ==
  /\ inProgress <=> \E w \in Workers : wpc[w] \in Guarded
  /\ \A a, b \in Workers : wpc[a] \in Guarded /\ wpc[b] \in Guarded => a = b

(***************************************************************************)
(* A purchase answered OK, with which no command interfered, has let at    *)
(* least its coins fall and has left the shutter closed.                   *)
(***************************************************************************)
OkMeansPaid ==
  \A w \in Workers : wpc[w] = "answer" /\ w \notin crossed =>
    fallen[w] >= job[w].coins /\ shutter = "closed"

(***************************************************************************)
(* Liveness: every request is answered.                                    *)
(***************************************************************************)
RequestsAnswered == \A w \in Workers : wpc[w] # "free" ~> wpc[w] = "free"
=============================================================================
