-------------------------- MODULE KiteAuthentication --------------------------
(***************************************************************************)
(* Login, restore and reset of the broker session                           *)
(* (KiteAuthenticationUseCase behind KiteAuthenticationController), the     *)
(* login attempts and the stored token they use, and the requests that run  *)
(* beside them.                                                             *)
(*                                                                         *)
(* restore, complete, reset and status are synchronized on the use case:    *)
(* `owner' has that monitor for a whole call, and inside the call every     *)
(* method of the session is a step of its own that waits for the session's  *)
(* monitor.  So requests, WebSockets, expiry and crashes come between any   *)
(* two of them.                                                             *)
(*                                                                         *)
(* An operator's position in the code is pc; `ret' says where               *)
(* clearStoredSession and clearSession continue.                            *)
(***************************************************************************)
EXTENDS KiteSession, Sequences

CONSTANTS Operators,      \* threads in KiteAuthenticationController
          Readers,        \* threads that read the account, read history or send orders
          RequestTokens,  \* what the broker's redirect may carry
          NoRequest,      \* request token of a call that has none
          MaxRemembered,  \* MAX_REMEMBERED_REQUESTS
          MaxCalls,       \* bound: login and reset calls
          MaxTokens,      \* bound: access tokens issued by the broker
          MaxRequests,    \* bound: requests of the readers
          MaxCrashes,     \* bound: process crashes
          DatabaseFails   \* whether the database may fail

ASSUME ThreadsAssumption == Operators \cap Readers = {} /\ Threads = Operators \cup Readers
ASSUME BoundsAssumption == MaxCalls \in Nat /\ MaxTokens \in Nat /\ MaxRequests \in Nat
                           /\ MaxCrashes \in Nat /\ DatabaseFails \in BOOLEAN
ASSUME RememberAssumption == MaxRemembered \in Nat \ {0}
ASSUME NoRequestAssumption == NoRequest \notin RequestTokens

VARIABLES active,      \* activeToken
          generation,  \* counts clearSession
          attempts,    \* remembered request tokens, oldest first
          initialized, \* initializedIdentity
          unavailable, \* unavailableCode is set
          owner,       \* holder of the use case's monitor
          booted,      \* the startup restore has been called
          stored,      \* durable: the row of kite_access_tokens
          nonces,      \* durable: outstanding rows of kite_login_attempts
          issued,      \* tokens the broker has issued
          calls, requests, crashes, \* counters of the bounds
          pc,          \* per thread
          loc,         \* per operator: its call, continuation, request token, token, identity
          validated,   \* history: tokens whose profile the broker confirmed
          refreshed,   \* history: identities under which the instruments were refreshed
          spent,       \* history: exchanges of a request token since this process remembers it
          wiped        \* history: a reset has succeeded and no login since

authVars == <<active, generation, attempts, initialized, unavailable, owner, booted>>
durable  == <<stored, nonces>>
bounds   == <<issued, calls, requests, crashes>>
history  == <<validated, refreshed, spent, wiped>>
vars     == <<session, rejected, lapsed, ids, monitor, sock, rid, ans, refused,
              active, generation, attempts, initialized, unavailable, owner, booted,
              stored, nonces, issued, calls, requests, crashes, pc, loc,
              validated, refreshed, spent, wiped>>

NoCall == [op |-> "none", ret |-> "none", rt |-> NoRequest, tok |-> None, id |-> None]

Goto(a, p) == pc' = [pc EXCEPT ![a] = p]
Stay       == UNCHANGED <<pc, loc>>

\* A call of a private method that continues at r.
Call(a, p, r) == Goto(a, p) /\ loc' = [loc EXCEPT ![a].ret = r]
Jump(a, p)    == Goto(a, p) /\ UNCHANGED loc

-----------------------------------------------------------------------------
(* KiteAuthenticationUseCase: private methods.                              *)

\* No monitor: the order path calls this while it has the session's monitor.
initializationReady == initialized # None /\ initialized = executionIdentity

usableToken(t) == t # None /\ lapsed < t

\* clearSession, up to the monitor of session.clear()
clearSession ==
  /\ Sync(cleared(session))
  /\ initialized' = None /\ active' = None /\ generation' = generation + 1
  /\ UNCHANGED <<attempts, owner, booted>>

remembered == { attempts[i].rt : i \in DOMAIN attempts }

\* remember: the oldest fingerprints are forgotten beyond the limit
remember(rt, ok) ==
  LET known == { i \in DOMAIN attempts : attempts[i].rt = rt }
      next  == [rt |-> rt, ok |-> ok, gen |-> generation]
      all   == IF known # {} THEN [ i \in DOMAIN attempts |-> IF i \in known THEN next ELSE attempts[i] ]
               ELSE Append(attempts, next)
  IN attempts' = IF Len(all) > MaxRemembered THEN Tail(all) ELSE all

\* What a refused credential, and every other failure, leads to.
AuthenticationFailure(a) ==
  IF loc[a].op = "callback" THEN Call(a, "wipe", "throw") ELSE Call(a, "drop", "wipe")
OtherFailure(a) ==
  Call(a, "drop", IF loc[a].op = "callback" THEN "throw" ELSE "return")

\* reconcileSession: an active token that is past its expiry, or whose session ended
reconcile(a) ==
  /\ pc[a] = "reconcile" /\ Unlocked
  /\ \/ /\ active = None
        /\ Jump(a, loc[a].ret) /\ UNCHANGED sessionVars
     \/ /\ active # None /\ ~usableToken(active)
        /\ Jump(a, "wipe") /\ UNCHANGED sessionVars
     \/ /\ usableToken(active)
        /\ Sync(expired(session))
        /\ Jump(a, IF authenticated(expired(session)) THEN loc[a].ret ELSE "wipe")
  /\ UNCHANGED <<authVars, durable, bounds, history>>

\* clearStoredSession, first the memory ...
wipe(a) ==
  /\ pc[a] = "wipe" /\ clearSession /\ Jump(a, "erase")
  /\ UNCHANGED <<unavailable, durable, bounds, history>>

\* Mutant of erase: the delete misses the row.
eraseMissed(a) ==
  /\ pc[a] = "erase"
  /\ \/ /\ UNCHANGED stored /\ unavailable' = FALSE
        /\ wiped' = (wiped \/ loc[a].op = "reset")
        /\ Jump(a, IF loc[a].ret = "stale" THEN "return" ELSE loc[a].ret)
     \/ /\ DatabaseFails /\ stored' \in {None, stored} /\ unavailable' = TRUE /\ UNCHANGED wiped
        /\ \/ loc[a].ret = "stale" /\ Call(a, "drop", "return")
           \/ loc[a].op = "reset" /\ Jump(a, "throw")
           \/ loc[a].ret # "stale" /\ loc[a].op # "reset" /\ Jump(a, loc[a].ret)
  /\ UNCHANGED <<sessionVars, active, generation, attempts, initialized, owner, booted, nonces, bounds,
                 validated, refreshed, spent>>

\* ... then the row.  A failed delete may have been committed all the same.
erase(a) ==
  /\ pc[a] = "erase"
  /\ \/ /\ stored' = None /\ unavailable' = FALSE
        /\ wiped' = (wiped \/ loc[a].op = "reset")
        /\ Jump(a, IF loc[a].ret = "stale" THEN "return" ELSE loc[a].ret)
     \/ /\ DatabaseFails /\ stored' \in {None, stored} /\ unavailable' = TRUE /\ UNCHANGED wiped
        /\ \/ loc[a].ret = "stale" /\ Call(a, "drop", "return")
           \/ loc[a].op = "reset" /\ Jump(a, "throw")
           \/ loc[a].ret # "stale" /\ loc[a].op # "reset" /\ Jump(a, loc[a].ret)
  /\ UNCHANGED <<sessionVars, active, generation, attempts, initialized, owner, booted, nonces, bounds,
                 validated, refreshed, spent>>

\* clearSession after a failure; restore's refused credential also loses its row.
drop(a) ==
  /\ pc[a] = "drop" /\ clearSession /\ unavailable' = TRUE
  /\ IF loc[a].ret = "wipe" THEN Call(a, "wipe", "return") ELSE Jump(a, loc[a].ret)
  /\ UNCHANGED <<durable, bounds, history>>

-----------------------------------------------------------------------------
(* installAndValidate and initializeInstruments.                            *)

prepare(a) ==
  /\ pc[a] = "prepare" /\ clearSession /\ Jump(a, "install")
  /\ UNCHANGED <<unavailable, durable, bounds, history>>

install(a) ==
  /\ pc[a] = "install" /\ Unlocked
  /\ \/ /\ usableToken(loc[a].tok)
        /\ session' = installed(session, loc[a].tok) /\ ids' = ids + 1
        /\ UNCHANGED <<rejected, lapsed, monitor, sock, rid, ans, refused>>
        /\ Jump(a, "profile")
     \/ ~usableToken(loc[a].tok) /\ AuthenticationFailure(a) /\ UNCHANGED sessionVars
  /\ UNCHANGED <<authVars, durable, bounds, history>>

\* KiteProfileAdapter: one monitor around the request and profileValidated()
profile(a) ==
  /\ pc[a] = "profile" /\ Unlocked
  /\ \/ expired(session).token # None /\ Send(a, expired(session)) /\ Jump(a, "profileAnswer")
     \/ expired(session).token = None /\ Sync(expired(session)) /\ AuthenticationFailure(a)
  /\ UNCHANGED <<authVars, durable, bounds, history>>

profileAnswer(a) ==
  /\ pc[a] = "profileAnswer"
  /\ Receive(a, IF ans[a] = "ok" THEN profileValidated(session) ELSE answered(a, session))
  /\ \/ ans[a] = "ok" /\ validated' = validated \cup {loc[a].tok} /\ Jump(a, "confirm")
     \/ ans[a] = "refused" /\ AuthenticationFailure(a) /\ UNCHANGED validated
     \/ ans[a] = "failed" /\ OtherFailure(a) /\ UNCHANGED validated
  /\ UNCHANGED <<authVars, durable, bounds, refreshed, spent, wiped>>

confirm(a) ==
  /\ pc[a] = "confirm" /\ Sync(expired(session))
  /\ \/ /\ authenticated(expired(session)) /\ active' = loc[a].tok
        /\ \/ loc[a].op = "callback" /\ Jump(a, "save") /\ UNCHANGED unavailable
           \/ loc[a].op # "callback" /\ Jump(a, "init") /\ unavailable' = FALSE
     \/ /\ ~authenticated(expired(session)) /\ AuthenticationFailure(a)
        /\ UNCHANGED <<active, unavailable>>
  /\ UNCHANGED <<generation, attempts, initialized, owner, booted, durable, bounds, history>>

init(a) ==
  /\ pc[a] = "init" /\ Sync(expired(session))
  /\ Jump(a, IF initializationReady \/ active = None \/ ~authenticated(expired(session))
             THEN "return" ELSE "refresh")
  /\ UNCHANGED <<authVars, durable, bounds, history>>

\* The identity is read before the instruments are requested ...
refresh(a) ==
  /\ pc[a] = "refresh" /\ Unlocked
  /\ \/ /\ expired(session).token # None /\ Send(a, expired(session))
        /\ Goto(a, "refreshAnswer") /\ loc' = [loc EXCEPT ![a].id = executionIdentity]
     \/ expired(session).token = None /\ Sync(expired(session)) /\ Call(a, "wipe", "return")
  /\ UNCHANGED <<authVars, durable, bounds, history>>

refreshAnswer(a) ==
  /\ pc[a] = "refreshAnswer" /\ Receive(a, answered(a, session))
  /\ \/ ans[a] = "ok" /\ refreshed' = refreshed \cup {rid[a]} /\ Jump(a, "mark")
     \/ ans[a] = "refused" /\ Call(a, "wipe", "return") /\ UNCHANGED refreshed
     \/ ans[a] = "failed" /\ Jump(a, "return") /\ UNCHANGED refreshed
  /\ UNCHANGED <<authVars, durable, bounds, validated, spent, wiped>>

\* ... and marked as initialized only while it is still the session's.
mark(a) ==
  /\ pc[a] = "mark"
  /\ initialized' = IF loc[a].id # None /\ loc[a].id = executionIdentity THEN loc[a].id ELSE initialized
  /\ Jump(a, "return")
  /\ UNCHANGED <<sessionVars, active, generation, attempts, unavailable, owner, booted,
                 durable, bounds, history>>

-----------------------------------------------------------------------------
(* restore and complete, each in the use case's monitor.                    *)

\* restore with a token in memory: kept when the session is still authenticated
resume(a) ==
  /\ pc[a] = "resume"
  /\ \/ active = None /\ Jump(a, "load") /\ UNCHANGED sessionVars
     \/ /\ active # None /\ Sync(expired(session))
        /\ Jump(a, IF authenticated(expired(session)) THEN "init" ELSE "load")
  /\ UNCHANGED <<authVars, durable, bounds, history>>

load(a) ==
  /\ pc[a] = "load"
  /\ \/ stored = None /\ Jump(a, "vacate")
     \/ stored # None /\ ~usableToken(stored) /\ Call(a, "wipe", "stale")
     \/ usableToken(stored) /\ Goto(a, "prepare") /\ loc' = [loc EXCEPT ![a].tok = stored]
     \/ DatabaseFails /\ OtherFailure(a)
  /\ UNCHANGED <<sessionVars, authVars, durable, bounds, history>>

vacate(a) ==
  /\ pc[a] = "vacate" /\ clearSession /\ unavailable' = FALSE /\ Jump(a, "return")
  /\ UNCHANGED <<durable, bounds, history>>

\* complete: a request token seen before is never exchanged again
lookup(a) ==
  /\ pc[a] = "lookup"
  /\ \/ /\ loc[a].rt \notin remembered
        /\ remember(loc[a].rt, FALSE)
        /\ Jump(a, "exchange") /\ UNCHANGED sessionVars
     \/ \E i \in DOMAIN attempts :
        /\ attempts[i].rt = loc[a].rt /\ UNCHANGED attempts
        /\ \/ /\ attempts[i].ok /\ attempts[i].gen = generation /\ active # None
              /\ Sync(expired(session))
              /\ Jump(a, IF authenticated(expired(session)) THEN "init" ELSE "throw")
           \/ /\ ~attempts[i].ok \/ attempts[i].gen # generation \/ active = None
              /\ Jump(a, "throw") /\ UNCHANGED sessionVars
  /\ UNCHANGED <<active, generation, initialized, unavailable, owner, booted, durable, bounds, history>>

\* The exchange: refused, lost, or a new token, which may already be past its expiry.
exchange(a) ==
  /\ pc[a] = "exchange"
  /\ spent' = [rt \in RequestTokens |-> IF rt = loc[a].rt THEN spent[rt] + 1
                                      ELSE IF rt \in remembered THEN spent[rt] ELSE 0]
  /\ \/ Jump(a, "throw") /\ UNCHANGED <<issued, wiped>>
     \/ /\ issued < MaxTokens /\ issued' = issued + 1 /\ wiped' = FALSE
        /\ Goto(a, "candidate") /\ loc' = [loc EXCEPT ![a].tok = issued + 1]
  /\ UNCHANGED <<sessionVars, authVars, durable, calls, requests, crashes, validated, refreshed>>

candidate(a) ==
  /\ pc[a] = "candidate"
  /\ Jump(a, IF usableToken(loc[a].tok) THEN "prepare" ELSE "throw")
  /\ UNCHANGED <<sessionVars, authVars, durable, bounds, history>>

save(a) ==
  /\ pc[a] = "save"
  /\ \/ /\ stored' = loc[a].tok /\ unavailable' = FALSE
        /\ remember(loc[a].rt, TRUE) /\ Jump(a, "init")
     \/ /\ DatabaseFails /\ stored' \in {stored, loc[a].tok}
        /\ OtherFailure(a) /\ UNCHANGED <<unavailable, attempts>>
  /\ UNCHANGED <<sessionVars, active, generation, initialized, owner, booted, nonces, bounds, history>>

\* A call returns through currentStatus(); a browser at /login that is still
\* not authenticated goes on to start an attempt.
return(a) ==
  /\ pc[a] = "return" /\ Sync(expired(session)) /\ owner' = NoOne
  /\ IF loc[a].op = "login" /\ ~(active # None /\ authenticated(expired(session)))
     THEN Jump(a, "start")
     ELSE Goto(a, "idle") /\ loc' = [loc EXCEPT ![a] = NoCall]
  /\ UNCHANGED <<active, generation, attempts, initialized, unavailable, booted, durable, bounds, history>>

throw(a) ==
  /\ pc[a] = "throw" /\ owner' = NoOne
  /\ Goto(a, "idle") /\ loc' = [loc EXCEPT ![a] = NoCall]
  /\ UNCHANGED <<sessionVars, active, generation, attempts, initialized, unavailable, booted,
                 durable, bounds, history>>

-----------------------------------------------------------------------------
(* KiteAuthenticationController and the ApplicationRunner.                  *)

\* The monitor of the use case is taken, for restore, complete or reset.
enter(a) ==
  /\ pc[a] = "enter" /\ owner = NoOne /\ owner' = a
  /\ \/ loc[a].op \in {"boot", "login"} /\ Call(a, "reconcile", "resume")
     \/ loc[a].op = "callback" /\ Call(a, "reconcile", "lookup")
     \/ loc[a].op = "reset" /\ Call(a, "wipe", "return")
  /\ UNCHANGED <<sessionVars, active, generation, attempts, initialized, unavailable, booted,
                 durable, bounds, history>>

\* The application's startup restores once.
boot(a) ==
  /\ pc[a] = "idle" /\ ~booted /\ booted' = TRUE
  /\ Goto(a, "enter") /\ loc' = [loc EXCEPT ![a].op = "boot"]
  /\ UNCHANGED <<sessionVars, active, generation, attempts, initialized, unavailable, owner,
                 durable, bounds, history>>

\* status(): what it leaves the session as
observed == IF active # None /\ ~usableToken(active) THEN cleared(session) ELSE session

status ==
  /\ owner = NoOne /\ Sync(expired(observed))
  /\ IF observed # session
     THEN initialized' = None /\ active' = None /\ generation' = generation + 1
     ELSE UNCHANGED <<initialized, active, generation>>
  /\ UNCHANGED <<attempts, unavailable, owner, booted, durable, issued, requests, crashes, history>>

\* GET /status, and the actuator's kitestatus, which only reads the session.
statusCall ==
  /\ Stay /\ UNCHANGED calls
  /\ \/ status
     \/ Sync(expired(session)) /\ UNCHANGED <<authVars, durable, issued, requests, crashes, history>>

\* GET /login: the status decides whether to restore, and is stale by then.
login(a) ==
  LET known   == active # None /\ observed = session /\ authenticated(expired(session))
      pending == known /\ ~initializationReady
  IN
  /\ pc[a] = "idle" /\ calls < MaxCalls /\ calls' = calls + 1 /\ status
  /\ \/ /\ pending \/ (~known /\ unavailable)
        /\ Goto(a, "enter") /\ loc' = [loc EXCEPT ![a].op = "login"]
     \/ known /\ ~pending /\ Stay
     \/ ~known /\ ~unavailable /\ Goto(a, "start") /\ loc' = [loc EXCEPT ![a].op = "login"]

\* KiteLoginAttemptUseCase.start: one more outstanding attempt, unless the database fails
start(a) ==
  /\ pc[a] = "start"
  /\ nonces' = nonces + 1 \/ (DatabaseFails /\ UNCHANGED nonces)
  /\ Goto(a, "idle") /\ loc' = [loc EXCEPT ![a] = NoCall]
  /\ UNCHANGED <<sessionVars, authVars, stored, bounds, history>>

\* GET /callback: consuming the attempt commits before complete() runs.
callback(a, rt) ==
  /\ pc[a] = "idle" /\ nonces > 0 /\ nonces' = nonces - 1
  /\ \/ Goto(a, "enter") /\ loc' = [loc EXCEPT ![a].op = "callback", ![a].rt = rt]
     \/ DatabaseFails /\ Stay
  /\ UNCHANGED <<sessionVars, authVars, stored, bounds, history>>

\* POST /reset: cancels the browser's attempt, if it has one, then resets.
reset(a) ==
  /\ pc[a] = "idle" /\ calls < MaxCalls /\ calls' = calls + 1
  /\ nonces' \in {nonces} \cup (IF nonces > 0 THEN {nonces - 1} ELSE {})
  /\ \/ Goto(a, "enter") /\ loc' = [loc EXCEPT ![a].op = "reset"]
     \/ DatabaseFails /\ Stay
  /\ UNCHANGED <<sessionVars, authVars, stored, issued, requests, crashes, history>>

OperatorStep(a) ==
  \/ reconcile(a) \/ wipe(a) \/ erase(a) \/ drop(a) \/ prepare(a) \/ install(a) \/ profile(a)
  \/ profileAnswer(a) \/ confirm(a) \/ init(a) \/ refresh(a) \/ refreshAnswer(a) \/ mark(a)
  \/ resume(a) \/ load(a) \/ vacate(a) \/ lookup(a) \/ exchange(a) \/ candidate(a) \/ save(a)
  \/ return(a) \/ throw(a) \/ enter(a) \/ start(a)

-----------------------------------------------------------------------------
(* The other users of the session.                                          *)

\* get(): account reads need a token, a historical read and an order an
\* authenticated session.  A refusal is only applied by the first and the last.
\* A request that is turned away only applies expire(), as statusCall does.
read(r) ==
  /\ pc[r] = "idle" /\ Unlocked /\ requests < MaxRequests /\ requests' = requests + 1
  /\ \/ /\ expired(session).token # None /\ Send(r, expired(session))
        /\ Jump(r, "readAnswer")
     \/ /\ authenticated(expired(session)) /\ Send(r, expired(session))
        /\ Jump(r, "historyAnswer")
  /\ UNCHANGED <<authVars, durable, issued, calls, crashes, history>>

\* orderRequest: the session's monitor is taken, then the gates are asked ...
orderRequest(r) ==
  /\ pc[r] = "idle" /\ Unlocked /\ requests < MaxRequests /\ requests' = requests + 1
  /\ authenticated(expired(session))
  /\ session' = expired(session) /\ monitor' = r
  /\ Jump(r, "gate")
  /\ UNCHANGED <<rejected, lapsed, ids, sock, rid, ans, refused,
                 authVars, durable, issued, calls, crashes, history>>

\* ... of which initialization is one; they deny, or the order is sent.
dispatchValidation(r) ==
  /\ pc[r] = "gate"
  /\ \/ /\ initializationReady /\ Jump(r, "authorize") /\ UNCHANGED sessionVars
     \/ Receive(r, session) /\ Jump(r, "idle")
  /\ UNCHANGED <<authVars, durable, bounds, history>>

authorize(r) ==
  /\ pc[r] = "authorize"
  /\ \/ expired(session).token # None /\ Send(r, expired(session)) /\ Jump(r, "orderAnswer")
     \/ expired(session).token = None /\ Receive(r, expired(session)) /\ Jump(r, "idle")
  /\ UNCHANGED <<authVars, durable, bounds, history>>

answer(r) ==
  /\ pc[r] \in {"readAnswer", "historyAnswer", "orderAnswer"}
  /\ Receive(r, IF pc[r] = "historyAnswer" THEN session ELSE answered(r, session))
  /\ Jump(r, "idle")
  /\ UNCHANGED <<authVars, durable, bounds, history>>

ReaderStep(r) == dispatchValidation(r) \/ authorize(r) \/ answer(r)

\* The clock passes the expiry of the oldest token.
lapse ==
  /\ lapsed < issued /\ lapsed' = lapsed + 1
  /\ UNCHANGED <<session, rejected, ids, monitor, sock, rid, ans, refused>>
  /\ UNCHANGED <<authVars, durable, bounds, pc, loc, history>>

\* Everything but the database is gone; identities are random and never reused.
crash ==
  /\ crashes < MaxCrashes /\ crashes' = crashes + 1
  /\ session' = [state |-> "AUTH_REQUIRED", token |-> None, gen |-> 1, id |-> None]
  /\ rejected' = 0 /\ monitor' = NoOne /\ owner' = NoOne /\ booted' = FALSE
  /\ sock' = [w \in Sockets |-> NoSocket]
  /\ rid' = [t \in Threads |-> None] /\ ans' = [t \in Threads |-> "none"]
  /\ active' = None /\ generation' = 0 /\ attempts' = <<>> /\ initialized' = None /\ unavailable' = FALSE
  /\ pc' = [t \in Threads |-> "idle"] /\ loc' = [a \in Operators |-> NoCall]
  /\ spent' = [rt \in RequestTokens |-> 0]
  /\ UNCHANGED <<lapsed, ids, refused, durable, issued, calls, requests, validated, refreshed, wiped>>

-----------------------------------------------------------------------------
Init ==
  /\ SessionInit
  /\ active = None /\ generation = 0 /\ attempts = <<>> /\ initialized = None /\ unavailable = FALSE
  /\ owner = NoOne /\ booted = FALSE
  /\ stored = None /\ nonces = 0
  /\ issued = 0 /\ calls = 0 /\ requests = 0 /\ crashes = 0
  /\ pc = [t \in Threads |-> "idle"] /\ loc = [a \in Operators |-> NoCall]
  /\ validated = {} /\ refreshed = {} /\ spent = [rt \in RequestTokens |-> 0] /\ wiped = FALSE

Next ==
  \/ \E a \in Operators : OperatorStep(a) \/ boot(a) \/ login(a) \/ reset(a)
                          \/ \E rt \in RequestTokens : callback(a, rt)
  \/ \E r \in Readers : ReaderStep(r) \/ read(r) \/ orderRequest(r)
  \/ \E w \in Sockets : SocketStep(w) /\ UNCHANGED <<authVars, durable, bounds, pc, loc, history>>
  \/ statusCall \/ lapse \/ crash

Spec == Init /\ [][Next]_vars

-----------------------------------------------------------------------------
\* Every variable keeps to its type, and the monitors to the calls that hold them.
TypeOK ==
  /\ SessionType
  /\ active \in Nat /\ generation \in Nat /\ initialized \in Nat /\ unavailable \in BOOLEAN
  /\ attempts \in Seq([rt : RequestTokens, ok : BOOLEAN, gen : Nat])
  /\ owner \in Operators \cup {NoOne} /\ booted \in BOOLEAN
  /\ stored \in Nat /\ nonces \in Nat
  /\ issued \in Nat /\ calls \in Nat /\ requests \in Nat /\ crashes \in Nat
  /\ DOMAIN pc = Threads
  /\ \A a \in Operators : loc[a].tok \in Nat /\ loc[a].id \in Nat /\ loc[a].rt \in RequestTokens \cup {NoRequest}
  /\ validated \subseteq Nat /\ refreshed \subseteq Nat
  /\ spent \in [RequestTokens -> Nat] /\ wiped \in BOOLEAN

\* The broker's refusal of one session never ends another: the session is
\* invalidated, or marked as rejected by a WebSocket, only when a request or a
\* socket with its own credential was refused (KiteRestTransport.get keeps the
\* monitor; rejectMarketData compares generations).
RefusalEndsOwnSession ==
  session.state = "INVALIDATED" \/ (session.token # None /\ rejected = session.gen)
    => session.id \in refused

\* An execution identity becomes visible only in the step in which the broker
\* confirms the profile of a freshly installed token; a session that ended, was
\* rejected or expired never comes back (usable, profileValidated, rejectMarketData).
VisibleByValidation ==
  executionIdentity' \notin {None, executionIdentity}
    => /\ session.state = "UNVERIFIED"
       /\ \E a \in DOMAIN loc : pc[a] = "profileAnswer" /\ ans[a] = "ok" /\ rid[a] = executionIdentity'

\* A token is stored only after the broker confirmed its profile, also when a
\* save or a delete fails halfway or the process dies (complete).
StoredTokenConfirmed == stored # None => stored \in validated

\* Instruments count as initialized only for the session they were refreshed
\* with, and an order is only ever sent with the credential of such a session:
\* no login slips between the gate and the request (orderRequest).
OrdersUseInitializedSession ==
  /\ initializationReady => executionIdentity \in refreshed
  /\ \A r \in DOMAIN pc : pc[r] = "orderAnswer" => rid[r] \in refreshed

\* As long as a process remembers a request token it exchanges it at most once,
\* whatever became of the first exchange (complete records it before spending it).
ExchangedOnce == \A rt \in RequestTokens : spent[rt] <= 1

\* After a reset that reported success no session becomes visible until a new
\* login is exchanged, whatever fails, restarts or restores (clearStoredSession).
ResetLasts == wiped => executionIdentity = None

\* A refusal ends only the session it is about, an order carries the credential of an
\* initialized session, only confirmed tokens are stored, a reset lasts through failures and a
\* restart, and a remembered request token is exchanged once.
SessionsSound ==
  /\ RefusalEndsOwnSession /\ OrdersUseInitializedSession /\ StoredTokenConfirmed
  /\ ResetLasts /\ ExchangedOnce

\* A session that was rejected, ended or expired never becomes visible again: an execution
\* identity appears only in the step in which the broker confirms a freshly installed token.
NeverVisibleAgain == [][VisibleByValidation]_vars

\* Every call in the use case and every request ends: the two monitors are
\* never waited for in a circle (initializationReady takes neither).
CallsReturn == \A t \in Threads : pc[t] # "idle" ~> pc[t] = "idle"
=============================================================================
