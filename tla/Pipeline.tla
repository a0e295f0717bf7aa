------------------------------- MODULE Pipeline -------------------------------
(***************************************************************************)
(* internal/pkg/core: what happens to a request between core.New's two     *)
(* middlewares and the reply.  A request's goroutine runs the handlers of  *)
(* its route, each around a context object of a shared pool; a handler may *)
(* finish, abort or panic, and the deferred function of the core           *)
(* middleware turns that into one reply.  The rate limiter (module         *)
(* RateLimit), JWTAuthMiddleware and the handlers of internal/router are   *)
(* the links of the chain.                                                 *)
(***************************************************************************)
EXTENDS RateLimit, Sequences, SequencesExt

CONSTANTS
    RoutesOf,  \* bound: the routes each request may ask for
    Slots,     \* bound: context objects, as many as can be needed at once
    TokenTTL   \* ticks a token is valid for after Login

\* The routes of internal/router, "none" for a path that has none.
Routes == {"admin", "login", "profile", "health", "none"}

ASSUME PipelineAssumption ==
    /\ RoutesOf \in [Requests -> SUBSET Routes]
    /\ TokenTTL \in Nat
    /\ None \notin {400, 401, 429, 500}

VARIABLES
    pc,         \* where the request's goroutine is
    route,      \* the route it asks for
    chain,      \* the handlers of the route that are still to run
    stack,      \* its contexts, the innermost first
    ctx,        \* context.ctx: context object -> the request it wraps
    pool,       \* the objects in contextPool
    panicking,  \* the goroutine unwinds its stack
    traced,     \* _TraceName is set
    abortErr,   \* the HTTP code of _AbortErrorName, None while not aborted
    payload,    \* _PayloadName is set
    session,    \* _SessionUserInfo is set
    issued,     \* the tokens Login has signed
    handled,    \* history: the last handler of the route has been run
    abortedBy,  \* history: what aborted the request: "guard", "handler", "panic"
    reply       \* what has been sent: status (0: nothing yet), header, bodies; and logged

flow == <<pc, chain, stack, ctx, pool>>
local == <<route, panicking, traced, abortErr, payload, session, handled, abortedBy,
           reply>>
pvars == <<rvars, flow, local, issued>>

NoReply == [status |-> 0, header |-> FALSE, bodies |-> <<>>, log |-> None]

PipelineInit ==
    /\ RateLimitInit
    /\ pc = [r \in Requests |-> "idle"]
    /\ route = [r \in Requests |-> "none"]
    /\ chain = [r \in Requests |-> <<>>]
    /\ stack = [r \in Requests |-> <<>>]
    /\ ctx = [s \in Slots |-> None] /\ pool = Slots
    /\ abortErr = [r \in Requests |-> None]
    /\ abortedBy = [r \in Requests |-> "nobody"]
    /\ issued = {}
    /\ reply = [r \in Requests |-> NoReply]
    /\ panicking = [r \in Requests |-> FALSE] /\ traced = panicking
    /\ payload = panicking /\ session = panicking /\ handled = panicking

Goto(r, from, to) == pc[r] = from /\ pc' = [pc EXCEPT ![r] = to]

-------------------------------------------------------------------------------
(* Contexts, abort and reply *)

\* contextPool.Get: any pooled object or a new one.  Which one does not matter,
\* because it holds nothing but ctx.
newContext(r) ==
    /\ pool # {}
    /\ LET s == CHOOSE x \in pool : TRUE IN
       /\ pool' = pool \ {s}
       /\ ctx' = [ctx EXCEPT ![s] = r]
       /\ stack' = [stack EXCEPT ![r] = <<s>> \o @]

\* gin keeps the status that was written first.
WriteStatus(rep, code) == IF rep.status = 0 THEN [rep EXCEPT !.status = code] ELSE rep

\* ctx.JSON
WriteBody(rep, code, body) == [WriteStatus(rep, code) EXCEPT !.bodies = Append(@, body)]

\* AbortWithStatus moves gin's index behind the last handler and sends the header at once.
AbortWithError(r, code, by) ==
    /\ reply' = [reply EXCEPT ![r] = WriteStatus(@, code)]
    /\ abortErr' = [abortErr EXCEPT ![r] = code]
    /\ abortedBy' = [abortedBy EXCEPT ![r] = by]

-------------------------------------------------------------------------------
(* The two middlewares of core.New, on the way in *)

Chain(rt) ==
    CASE rt = "admin"   -> <<"limit", "handler">>
      [] rt = "profile" -> <<"verify", "handler">>
      [] rt = "none"    -> <<"noroute">>
      [] OTHER          -> <<"handler">>

Arrive(r, rt) ==
    /\ Goto(r, "idle", "core")
    /\ route' = [route EXCEPT ![r] = rt]
    /\ chain' = [chain EXCEPT ![r] = Chain(rt)]
    /\ UNCHANGED <<rvars, stack, ctx, pool, panicking, traced, abortErr, abortedBy, payload,
                   session, handled, reply, issued>>

\* The status is 404 already when no route matches: the middleware returns.
PassBy(r) ==
    /\ route[r] = "none" /\ Goto(r, "core", "next")
    /\ UNCHANGED <<rvars, chain, stack, ctx, pool, local, issued>>

\* init has read the body, the trace is set unless withoutTracePaths says no.
Begin(r) ==
    /\ route[r] # "none" /\ Goto(r, "core", "next")
    /\ newContext(r)
    /\ traced' = [traced EXCEPT ![r] = route[r] # "health"]
    /\ UNCHANGED <<rvars, chain, route, panicking, abortErr, abortedBy, payload, session, handled,
                   reply, issued>>

\* init panics on a body that cannot be read, before the recover is deferred.
BeginUnreadable(r) ==
    /\ route[r] # "none" /\ Goto(r, "core", "release")
    /\ newContext(r)
    /\ panicking' = [panicking EXCEPT ![r] = TRUE]
    /\ UNCHANGED <<rvars, chain, route, traced, abortErr, abortedBy, payload, session, handled,
                   reply, issued>>

\* gin.Context.Next: the next handler runs, around a context of its own, unless the
\* request is aborted.
CallNext(r) ==
    /\ chain[r] # <<>> /\ abortErr[r] = None
    /\ Goto(r, "next", Head(chain[r]))
    /\ chain' = [chain EXCEPT ![r] = Tail(@)]
    /\ newContext(r)
    /\ IF Head(chain[r]) = "limit" THEN Enter(r) ELSE UNCHANGED rvars
    /\ UNCHANGED <<local, issued>>

-------------------------------------------------------------------------------
(* The links of the chain *)

\* RateLimitMiddleware.Middleware at work.
Limit(r) ==
    /\ pc[r] = "limit" /\ Check(r)
    /\ UNCHANGED <<flow, local, issued>>

LimitPassed(r) ==
    /\ at[r] = "passed" /\ Goto(r, "limit", "next")
    /\ UNCHANGED <<rvars, chain, stack, ctx, pool, local, issued>>

\* (Mutant) the refusal is answered, and the request not aborted.
LimitRefused_NoAbort(r) ==
    /\ at[r] = "refused" /\ Goto(r, "limit", "release")
    /\ reply' = [reply EXCEPT ![r] = WriteBody(@, 429, "failure")]
    /\ UNCHANGED <<rvars, chain, stack, ctx, pool, route, panicking, traced, abortErr, abortedBy,
                   payload, session, handled, issued>>

\* handleRateLimitExceeded
LimitRefused(r) ==
    /\ at[r] = "refused" /\ Goto(r, "limit", "release")
    /\ AbortWithError(r, 429, "guard")
    /\ UNCHANGED <<rvars, chain, stack, ctx, pool, route, panicking, traced, payload, session,
                   handled, issued>>

\* token.Parse lets a token count from its issue until it expires.
Parse(token) == token.issuedAt <= ticks /\ ticks < token.expiresAt

\* JWTAuthMiddleware.Middleware lets a live token of Login pass ...
Verify(r) ==
    /\ \E token \in issued : Parse(token)
    /\ Goto(r, "verify", "next")
    /\ session' = [session EXCEPT ![r] = TRUE]
    /\ UNCHANGED <<rvars, chain, stack, ctx, pool, route, panicking, traced, abortErr, abortedBy,
                   payload, handled, reply, issued>>

\* ... and refuses a request without a token, or with any other.
VerifyRefuses(r) ==
    /\ Goto(r, "verify", "release")
    /\ AbortWithError(r, 401, "guard")
    /\ UNCHANGED <<rvars, chain, stack, ctx, pool, route, panicking, traced, payload, session,
                   handled, issued>>

Handled(r) ==
    /\ Goto(r, "handler", "release")
    /\ handled' = [handled EXCEPT ![r] = TRUE]

\* token.Sign
Sign == [issuedAt |-> ticks, expiresAt |-> ticks + TokenTTL]

\* The handler finishes: its last call is ctx.Payload.  Login signs a token first.
HandlerReturns(r) ==
    /\ Handled(r)
    /\ payload' = [payload EXCEPT ![r] = TRUE]
    /\ issued' = IF route[r] = "login" THEN issued \cup {Sign} ELSE issued
    /\ UNCHANGED <<rvars, chain, stack, ctx, pool, route, panicking, traced, abortErr, abortedBy,
                   session, reply>>

\* The errors handlers answer with AbortWithError: Login has one for a wrong password
\* and one for a token that cannot be signed.
Errors(rt) ==
    CASE rt = "admin" -> {400}
      [] rt = "login" -> {400, 401, 500}
      [] OTHER        -> {}

\* (Mutant) no return after AbortWithError.
HandlerFails_GoesOn(r) ==
    /\ Handled(r)
    /\ \E code \in Errors(route[r]) : AbortWithError(r, code, "handler")
    /\ payload' = [payload EXCEPT ![r] = TRUE]
    /\ UNCHANGED <<rvars, chain, stack, ctx, pool, route, panicking, traced, session, issued>>

HandlerFails(r) ==
    /\ Handled(r)
    /\ \E code \in Errors(route[r]) : AbortWithError(r, code, "handler")
    /\ UNCHANGED <<rvars, chain, stack, ctx, pool, route, panicking, traced, payload, session,
                   issued>>

HandlerPanics(r) ==
    /\ route[r] \in {"admin", "login", "health"} /\ Handled(r)
    /\ panicking' = [panicking EXCEPT ![r] = TRUE]
    /\ UNCHANGED <<rvars, chain, stack, ctx, pool, route, traced, abortErr, abortedBy, payload,
                   session, reply, issued>>

\* DisableTraceLog, the handler of NoRoute and NoMethod.
NoRoute(r) ==
    /\ Goto(r, "noroute", "release")
    /\ traced' = [traced EXCEPT ![r] = FALSE]
    /\ UNCHANGED <<rvars, chain, stack, ctx, pool, route, panicking, abortErr, abortedBy, payload,
                   session, handled, reply, issued>>

-------------------------------------------------------------------------------
(* The way out *)

\* Where a handler that has returned leaves its goroutine: in the handler that called
\* Next, whose own release follows; in gin's loop, which runs what is left of the
\* chain unless the request is aborted; or in the next deferred function.
Outside(r) ==
    CASE Len(stack[r]) = 1 -> "finish"
      [] Len(stack[r]) > 2 -> "release"
      [] OTHER -> IF panicking[r] \/ abortErr[r] # None \/ chain[r] = <<>>
                  THEN "deferred" ELSE "next"

Release(r) ==
    LET s == Head(stack[r]) IN
    /\ ctx' = [ctx EXCEPT ![s] = None]
    /\ pool' = pool \cup {s}

\* (Mutant) the release is not deferred: a panic skips it.
releaseContext_NotDeferred(r) ==
    /\ Goto(r, "release", Outside(r))
    /\ IF panicking[r] THEN UNCHANGED <<ctx, pool>> ELSE Release(r)
    /\ stack' = [stack EXCEPT ![r] = Tail(@)]
    /\ UNCHANGED <<rvars, chain, local, issued>>

\* Deferred in every wrapped handler and in the core middleware.
releaseContext(r) ==
    /\ Goto(r, "release", Outside(r))
    /\ Release(r)
    /\ stack' = [stack EXCEPT ![r] = Tail(@)]
    /\ UNCHANGED <<rvars, chain, local, issued>>

\* What recover makes of a panic: AbortWithError with the code of ServerError.
Recovered(r) ==
    LET sent == [reply[r] EXCEPT !.header = traced[r] /\ reply[r].status = 0] IN
    IF panicking[r] THEN [code |-> 500, by |-> "panic", reply |-> WriteStatus(sent, 500)]
    ELSE [code |-> abortErr[r], by |-> abortedBy[r], reply |-> sent]

\* The deferred function of the core middleware: trace header, recover, failure
\* body when aborted, payload, log.
Deferred(r) ==
    LET aborted == Recovered(r)
        failed  == IF aborted.code = None THEN aborted.reply
                   ELSE WriteBody(aborted.reply, aborted.code, "failure")
        full    == IF payload[r] THEN WriteBody(failed, 200, "payload") ELSE failed
        success == aborted.code = None /\ full.status \in {0, 200}
    IN
    /\ Goto(r, "deferred", "release")
    /\ panicking' = [panicking EXCEPT ![r] = FALSE]
    /\ abortErr' = [abortErr EXCEPT ![r] = aborted.code]
    /\ abortedBy' = [abortedBy EXCEPT ![r] = aborted.by]
    /\ reply' = [reply EXCEPT ![r] =
                    [full EXCEPT !.log = IF traced[r] THEN success ELSE None]]
    /\ UNCHANGED <<rvars, chain, stack, ctx, pool, route, traced, payload, session, handled,
                   issued>>

\* The outer middleware recovers what is left of a panic and only logs it; gin
\* sends the status if nobody has: 404 without a route, otherwise 200.
Finish(r) ==
    /\ Goto(r, "finish", "done")
    /\ reply' = [reply EXCEPT ![r] = WriteStatus(@, IF route[r] = "none" THEN 404 ELSE 200)]
    /\ UNCHANGED <<rvars, chain, stack, ctx, pool, route, panicking, traced, abortErr, abortedBy,
                   payload, session, handled, issued>>

-------------------------------------------------------------------------------

Step(r) ==
    \/ PassBy(r) \/ Begin(r) \/ BeginUnreadable(r) \/ CallNext(r)
    \/ Limit(r) \/ LimitPassed(r) \/ LimitRefused(r) \/ Verify(r) \/ VerifyRefuses(r)
    \/ HandlerReturns(r) \/ HandlerFails(r) \/ HandlerPanics(r) \/ NoRoute(r)
    \/ releaseContext(r) \/ Deferred(r) \/ Finish(r)

\* The clock of the limiters is also that of the tokens.
Clock == Tick /\ UNCHANGED <<flow, local, issued>>

PipelineNext ==
    \/ Clock
    \/ \E r \in Requests : Step(r) \/ \E rt \in RoutesOf[r] : Arrive(r, rt)

PipelineSpec == PipelineInit /\ [][PipelineNext]_pvars

\* A goroutine that can run does.
PipelineFairSpec == PipelineSpec /\ \A r \in Requests : WF_pvars(Step(r))

-------------------------------------------------------------------------------
(* Properties *)

\* A context belongs to one request from newContext to releaseContext, also while
\* a panic unwinds; all others are pooled and refer to no request.
ContextsExclusive ==
    LET InUse(r) == Range(stack[r]) IN
    /\ \A r \in Requests : \A s \in InUse(r) : ctx[s] = r
    /\ pool = Slots \ UNION {InUse(r) : r \in Requests}
    /\ \A s \in pool : ctx[s] = None

\* The handler of a guarded route runs only for a request that its middleware let
\* through, every enabled limit or a live token, and never for one that it refused.
GuardsHold ==
    \A r \in Requests :
        /\ handled[r] /\ route[r] = "admin" => at[r] = "passed"
        /\ handled[r] /\ route[r] = "profile" => session[r]
        /\ handled[r] => abortedBy[r] # "guard"

\* Every request whose body could be read gets one body, of the kind and with the
\* status of what its handlers did, and the log agrees; a success and a recovered
\* panic carry the trace header too.  Whatever else aborts, with 500 or another code,
\* has sent the header before the trace header is set.
ReplyMatches ==
    \A r \in Requests :
        LET rep == reply[r] IN
        pc[r] = "done" /\ route[r] # "none" /\ ~panicking[r] =>
            /\ rep.bodies = <<IF payload[r] THEN "payload" ELSE "failure">>
            /\ rep.status = IF payload[r] THEN 200 ELSE abortErr[r]
            /\ rep.log \in {None, payload[r]}
            /\ traced[r] /\ (payload[r] \/ abortedBy[r] = "panic") => rep.header

\* Every request that has arrived is answered, and returns its contexts.
AllAnswered ==
    \A r \in Requests : pc[r] = "core" ~> pc[r] = "done" /\ stack[r] = <<>>
===============================================================================
