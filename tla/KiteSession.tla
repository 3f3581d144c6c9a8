------------------------------ MODULE KiteSession ------------------------------
(***************************************************************************)
(* The one broker session of the process (KiteSession) and the two kinds of *)
(* traffic that use it: REST requests (KiteRestTransport), which keep the   *)
(* session's monitor from the moment they read the credential until the     *)
(* answer is applied, and WebSockets (JdkKiteWebSocketTransport), which     *)
(* never take the monitor and report a refused credential by its            *)
(* generation.                                                              *)
(*                                                                         *)
(* Every synchronized method of KiteSession publishes its immutable view    *)
(* before it leaves the monitor, so the view that the lock-free readers see *)
(* is a function of the session: it is marketDataView below.                *)
(* A token is the number of the exchange that issued it; all of them expire *)
(* at the next 6 o'clock, so they lapse in the order they were issued.      *)
(* The session is assumed enabled and configured (DISABLED and              *)
(* NOT_CONFIGURED never leave their state).                                 *)
(***************************************************************************)
EXTENDS Integers

CONSTANTS Sockets,    \* WebSockets that may be open at the same time
          Threads,    \* threads that send REST requests
          NoOne       \* holder of a free monitor

ASSUME NoOneAssumption == NoOne \notin Threads

VARIABLES session,   \* state, token, generation and execution identity
          rejected,  \* rejectedMarketDataGeneration
          lapsed,    \* tokens up to this one are past their expiry
          ids,       \* execution identities drawn so far
          monitor,   \* the thread in a request, with the session's monitor
          sock,      \* the WebSockets: phase, generation, and the identity it stands for
          rid,       \* per thread: the identity whose token its request carries
          ans,       \* per thread: the broker's answer to its request
          refused    \* history: identities whose token the broker refused

sessionVars == <<session, rejected, lapsed, ids, monitor, sock, rid, ans, refused>>

None     == 0
NoSocket == [phase |-> "none", gen |-> 0, id |-> None]

-----------------------------------------------------------------------------
(* The methods of KiteSession, as functions of the session.                 *)

\* clear(), and with it the constructor
cleared(s) == [s EXCEPT !.state = "AUTH_REQUIRED", !.token = None, !.gen = @ + 1]

\* install(): a fresh execution identity for every installation
installed(s, t) == [state |-> "UNVERIFIED", token |-> t, gen |-> s.gen + 1, id |-> ids + 1]

invalidated(s) == [s EXCEPT !.state = "INVALIDATED", !.token = None, !.gen = @ + 1]

\* expire(): every synchronized method applies a rejection or the expiry first
expired(s) ==
  IF s.token # None /\ rejected = s.gen THEN invalidated(s)
  ELSE IF s.token # None /\ s.token <= lapsed THEN cleared(s)
  ELSE s

profileValidated(s) ==
  IF expired(s).state = "UNVERIFIED" THEN [expired(s) EXCEPT !.state = "AUTHENTICATED"] ELSE expired(s)

authenticated(s) == s.state = "AUTHENTICATED"

\* The published view, and what usable() makes of it without the monitor.
marketDataView == [auth |-> authenticated(session), gen |-> session.gen,
                   token |-> session.token, id |-> session.id]

usable == marketDataView.auth /\ lapsed < marketDataView.token /\ rejected # marketDataView.gen

executionIdentity == IF usable THEN marketDataView.id ELSE None

-----------------------------------------------------------------------------
(* REST requests.                                                           *)

\* A synchronized method runs only while no request has the monitor.
Unlocked == monitor = NoOne

\* authorization() and the request: refused answers are remembered per identity.
Send(t, s) ==
  \E a \in {"ok", "refused", "failed"} :
    /\ session' = s /\ monitor' = t
    /\ ans' = [ans EXCEPT ![t] = a]
    /\ rid' = [rid EXCEPT ![t] = s.id]
    /\ refused' = IF a = "refused" THEN refused \cup {s.id} ELSE refused
    /\ UNCHANGED <<rejected, lapsed, ids, sock>>

\* The answer is applied and the monitor given back.
Receive(t, s) ==
  /\ session' = s /\ monitor' = NoOne
  /\ ans' = [ans EXCEPT ![t] = "none"]
  /\ rid' = [rid EXCEPT ![t] = None]
  /\ UNCHANGED <<rejected, lapsed, ids, sock, refused>>

\* What an answer does to the session: 401, 403 and TokenException end it.
answered(t, s) == IF ans[t] = "refused" THEN invalidated(s) ELSE s

\* A synchronized method that leaves the session as s.
Sync(s) ==
  /\ Unlocked /\ session' = s
  /\ UNCHANGED <<rejected, lapsed, ids, monitor, sock, rid, ans, refused>>

-----------------------------------------------------------------------------
(* WebSockets: marketDataCredentials, then a refusal that arrives any time. *)

connect(w) ==
  /\ sock[w].phase = "none" /\ usable
  /\ sock' = [sock EXCEPT ![w] = [phase |-> "open", gen |-> marketDataView.gen, id |-> marketDataView.id]]
  /\ UNCHANGED <<session, rejected, lapsed, ids, monitor, rid, ans, refused>>

close(w) ==
  /\ sock[w].phase = "open"
  /\ sock' = [sock EXCEPT ![w] = NoSocket]
  /\ UNCHANGED <<session, rejected, lapsed, ids, monitor, rid, ans, refused>>

\* The broker refuses the credential: in the handshake, in a message or on close.
refuse(w) ==
  /\ sock[w].phase = "open"
  /\ sock' = [sock EXCEPT ![w].phase = "check"]
  /\ refused' = refused \cup {sock[w].id}
  /\ UNCHANGED <<session, rejected, lapsed, ids, monitor, rid, ans>>

\* rejectMarketData, first half: the published generation is compared
rejectCheck(w) ==
  /\ sock[w].phase = "check"
  /\ sock' = [sock EXCEPT ![w] = IF marketDataView.gen = @.gen THEN [@ EXCEPT !.phase = "store"] ELSE NoSocket]
  /\ UNCHANGED <<session, rejected, lapsed, ids, monitor, rid, ans, refused>>

\* Mutant of rejectStore: the generation is set, also below a later one.
rejectStoreLast(w) ==
  /\ sock[w].phase = "store"
  /\ rejected' = sock[w].gen
  /\ sock' = [sock EXCEPT ![w] = NoSocket]
  /\ UNCHANGED <<session, lapsed, ids, monitor, rid, ans, refused>>

\* second half: the larger of the two generations stays
rejectStore(w) ==
  /\ sock[w].phase = "store"
  /\ rejected' = IF sock[w].gen > rejected THEN sock[w].gen ELSE rejected
  /\ sock' = [sock EXCEPT ![w] = NoSocket]
  /\ UNCHANGED <<session, lapsed, ids, monitor, rid, ans, refused>>

SocketStep(w) == connect(w) \/ close(w) \/ refuse(w) \/ rejectCheck(w) \/ rejectStore(w)

-----------------------------------------------------------------------------
SessionInit ==
  /\ session = [state |-> "AUTH_REQUIRED", token |-> None, gen |-> 1, id |-> None]
  /\ rejected = 0 /\ lapsed = 0 /\ ids = 0
  /\ monitor = NoOne
  /\ sock = [w \in Sockets |-> NoSocket]
  /\ rid = [t \in Threads |-> None] /\ ans = [t \in Threads |-> "none"]
  /\ refused = {}

SessionType ==
  /\ session \in [state : {"AUTH_REQUIRED", "UNVERIFIED", "AUTHENTICATED", "INVALIDATED"},
                  token : Nat, gen : Nat, id : Nat]
  /\ rejected \in Nat /\ lapsed \in Nat /\ ids \in Nat
  /\ monitor \in Threads \cup {NoOne}
  /\ sock \in [Sockets -> [phase : {"none", "open", "check", "store"}, gen : Nat, id : Nat]]
  /\ rid \in [Threads -> Nat] /\ ans \in [Threads -> {"none", "ok", "refused", "failed"}]
  /\ refused \subseteq Nat
=============================================================================
