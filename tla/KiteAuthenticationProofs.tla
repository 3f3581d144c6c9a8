----------------------- MODULE KiteAuthenticationProofs -----------------------
(***************************************************************************)
(* Proofs about KiteAuthentication, for every number of operators, readers, *)
(* WebSockets and request tokens and every bound.                           *)
(*                                                                         *)
(* The invariant has three layers.  SInv is about the session alone: whose  *)
(* refusal is on its way, by the monitor for a REST answer and by the       *)
(* generation for a WebSocket.  ThreadInv and OperatorInv say what each     *)
(* position of a call has established.  Books relates what the use case     *)
(* remembers, the stored row and the history.                               *)
(***************************************************************************)
EXTENDS KiteAuthentication, TLAPS

States == {"AUTH_REQUIRED", "UNVERIFIED", "AUTHENTICATED", "INVALIDATED"}
Live   == {"UNVERIFIED", "AUTHENTICATED"}
Session == [state : States, token : Nat, gen : Nat, id : Nat]

\* A socket stands for the session of its generation, and reports what the broker refused.
Sock(w) ==
  sock[w].phase # "none" =>
    /\ sock[w].gen <= session.gen
    /\ sock[w].gen = session.gen => sock[w].id = session.id
    /\ sock[w].phase \in {"check", "store"} => sock[w].id \in refused

\* A request that is under way has the monitor and the credential of the session.
Asked(t) ==
  ans[t] # "none" =>
    /\ monitor = t /\ rid[t] = session.id
    /\ ans[t] = "refused" => session.id \in refused

SInv ==
  /\ SessionType
  /\ rejected <= session.gen
  /\ session.token # None /\ rejected = session.gen => session.id \in refused
  /\ session.state = "INVALIDATED" => session.id \in refused
  /\ \A w \in Sockets : Sock(w)
  /\ \A t \in Threads : Asked(t)

\* What a method of the session may leave: the same credential, or none and a later generation.
Follows(s) ==
  /\ s \in Session /\ s.id = session.id
  /\ (s.gen = session.gen /\ s.token = session.token) \/ (s.gen > session.gen /\ s.token = None)
  /\ s.state = "INVALIDATED" => s.id \in refused

\* ... and it does not bring a session to life.
Settles(s) == s = session \/ s.state \notin Live

\* What clear() and an invalidation make of a session, field by field.
LEMMA Cleared ==
  ASSUME NEW s \in Session
  PROVE  /\ cleared(s) = [state |-> "AUTH_REQUIRED", token |-> None, gen |-> s.gen + 1, id |-> s.id]
         /\ invalidated(s) = [state |-> "INVALIDATED", token |-> None, gen |-> s.gen + 1, id |-> s.id]
<1>1. ASSUME NEW x PROVE [s EXCEPT !.state = x, !.token = None, !.gen = @ + 1]
                           = [state |-> x, token |-> None, gen |-> s.gen + 1, id |-> s.id]
  <2>1. PICK r \in Session : r = s
    OBVIOUS
  <2>2. [r EXCEPT !.state = x] = [state |-> x, token |-> r.token, gen |-> r.gen, id |-> r.id]
    BY DEF Session
  <2>3. [[state |-> x, token |-> r.token, gen |-> r.gen, id |-> r.id] EXCEPT !.token = None]
          = [state |-> x, token |-> None, gen |-> r.gen, id |-> r.id]
    OBVIOUS
  <2>4. [[state |-> x, token |-> None, gen |-> r.gen, id |-> r.id] EXCEPT !.gen = r.gen + 1]
          = [state |-> x, token |-> None, gen |-> r.gen + 1, id |-> r.id]
    OBVIOUS
  <2>5. [s EXCEPT !.state = x, !.token = None, !.gen = @ + 1]
          = [[[r EXCEPT !.state = x] EXCEPT !.token = None] EXCEPT !.gen = r.gen + 1]
    BY <2>1 DEF Session
  <2> QED
    BY <2>1, <2>2, <2>3, <2>4, <2>5
<1> QED
  BY <1>1 DEF cleared, invalidated

\* clear and expire leave such a session.
LEMMA MethodsFollow ==
  ASSUME SInv
  PROVE  /\ Follows(session) /\ Settles(session)
         /\ Follows(cleared(session)) /\ cleared(session).state \notin Live /\ Settles(cleared(session))
         /\ Follows(expired(session)) /\ Settles(expired(session))
         /\ expired(cleared(session)) = cleared(session)
<1>0. session \in Session
  BY DEF SInv, SessionType, Session, States
<1>1. Follows(session) /\ Settles(session)
  BY <1>0 DEF SInv, Follows, Settles
<1>2. cleared(session) = [state |-> "AUTH_REQUIRED", token |-> None, gen |-> session.gen + 1, id |-> session.id]
  BY <1>0, Cleared
<1>3. invalidated(session) = [state |-> "INVALIDATED", token |-> None, gen |-> session.gen + 1, id |-> session.id]
  BY <1>0, Cleared
<1>4. Follows(cleared(session)) /\ cleared(session).state \notin Live /\ Settles(cleared(session))
  BY <1>0, <1>2 DEF Follows, Settles, Session, States, Live, None
<1>5. session.id \in refused => Follows(invalidated(session)) /\ Settles(invalidated(session))
  BY <1>0, <1>3 DEF Follows, Settles, Session, States, Live, None
<1>6. Follows(expired(session)) /\ Settles(expired(session))
  BY <1>1, <1>4, <1>5 DEF expired, SInv
<1>7. expired(cleared(session)) = cleared(session)
  BY <1>2 DEF expired
<1> QED
  BY <1>1, <1>4, <1>6, <1>7

\* So does the answer to a request that is under way.
LEMMA AnswersFollow ==
  ASSUME SInv, NEW t \in Threads
  PROVE  Follows(answered(t, session)) /\ Settles(answered(t, session))
<1>0. session \in Session
  BY DEF SInv, SessionType, Session, States
<1>3. invalidated(session) = [state |-> "INVALIDATED", token |-> None, gen |-> session.gen + 1, id |-> session.id]
  BY <1>0, Cleared
<1>5. session.id \in refused => Follows(invalidated(session)) /\ Settles(invalidated(session))
  BY <1>0, <1>3 DEF Follows, Settles, Session, States, Live, None
<1>6. ans[t] = "refused" => session.id \in refused
  BY DEF SInv, Asked
<1> QED
  BY <1>5, <1>6, MethodsFollow DEF answered

\* A confirmed profile changes nothing but the state, and only of a live session.
LEMMA ProfileFollows ==
  ASSUME SInv
  PROVE  /\ Follows(profileValidated(session))
         /\ \/ Settles(profileValidated(session))
            \/ session.state = "UNVERIFIED" /\ profileValidated(session) = [session EXCEPT !.state = "AUTHENTICATED"]
<1>0. session \in Session
  BY DEF SInv, SessionType, Session, States
<1>1. CASE expired(session).state = "UNVERIFIED"
  <2>1. expired(session) = session
    BY <1>1, MethodsFollow DEF Settles, Live
  <2>2. [session EXCEPT !.state = "AUTHENTICATED"] =
          [state |-> "AUTHENTICATED", token |-> session.token, gen |-> session.gen, id |-> session.id]
    BY <1>0 DEF Session
  <2>3. profileValidated(session) = [session EXCEPT !.state = "AUTHENTICATED"]
    BY <1>1, <2>1 DEF profileValidated
  <2>4. Follows(profileValidated(session))
    BY <1>0, <2>2, <2>3 DEF Follows, Session, States
  <2> QED
    BY <1>1, <2>1, <2>3, <2>4
<1>2. CASE expired(session).state # "UNVERIFIED"
  BY <1>2, MethodsFollow DEF profileValidated
<1> QED
  BY <1>1, <1>2

\* What a step of the thread x does to the session: every other thread keeps its request,
\* and while one is under way the session stays.
Effect(x) ==
  /\ SInv'
  /\ \A u \in Threads \ {x} : /\ ans'[u] = ans[u] /\ rid'[u] = rid[u]
                              /\ monitor = u => monitor' = u /\ session' = session

\* The session, typed as a record of its fields.
LEMMA Typed == SInv => session \in Session
  BY DEF SInv, SessionType, Session, States

\* A synchronized method that nobody's request stands in the way of.
LEMMA SyncEffect ==
  ASSUME SInv, NEW s, Follows(s), Sync(s), NEW x
  PROVE  Effect(x)
<1>0. /\ session' = s /\ monitor = NoOne /\ \A t \in Threads : ans[t] = "none"
      /\ UNCHANGED <<rejected, lapsed, ids, monitor, sock, rid, ans, refused>>
  BY NoOneAssumption DEF Sync, Unlocked, SInv, Asked
<1>1. SessionType'
  BY <1>0 DEF SInv, SessionType, Follows, Session, States
<1>2. /\ rejected' <= session'.gen
      /\ session'.token # None /\ rejected' = session'.gen => session'.id \in refused'
      /\ session'.state = "INVALIDATED" => session'.id \in refused'
  BY <1>0, Typed DEF SInv, SessionType, Follows, Session
<1>3. ASSUME NEW w \in Sockets PROVE Sock(w)'
  <2>1. sock[w].gen \in Nat /\ Sock(w)
    BY DEF SInv, SessionType
  <2> QED
    BY <1>0, <2>1, Typed DEF Sock, Follows, Session
<1>4. \A t \in Threads : Asked(t)'
  BY <1>0 DEF Asked
<1> QED
  BY <1>0, <1>1, <1>2, <1>3, <1>4, NoOneAssumption DEF Effect, SInv

\* A request is sent with the credential of the session, whose monitor is free or its own.
LEMMA SendEffect ==
  ASSUME SInv, NEW t \in Threads, NEW s, Follows(s), Send(t, s), monitor \in {NoOne, t}
  PROVE  Effect(t) /\ monitor' = t /\ ans'[t] # "none" /\ rid'[t] = session.id
<1>1. PICK a \in {"ok", "refused", "failed"} :
        /\ session' = s /\ monitor' = t
        /\ ans' = [ans EXCEPT ![t] = a]
        /\ rid' = [rid EXCEPT ![t] = s.id]
        /\ refused' = IF a = "refused" THEN refused \cup {s.id} ELSE refused
        /\ UNCHANGED <<rejected, lapsed, ids, sock>>
  BY DEF Send
<1>2. /\ ans'[t] = a /\ rid'[t] = s.id /\ refused \subseteq refused'
      /\ \A u \in Threads \ {t} : ans'[u] = ans[u] /\ rid'[u] = rid[u] /\ ans[u] = "none" /\ monitor # u
  BY <1>1, NoOneAssumption DEF SInv, SessionType, Asked
<1>3. SessionType'
  BY <1>1 DEF SInv, SessionType, Follows, Session, States
<1>4. /\ rejected' <= session'.gen
      /\ session'.token # None /\ rejected' = session'.gen => session'.id \in refused'
      /\ session'.state = "INVALIDATED" => session'.id \in refused'
  BY <1>1, <1>2, Typed DEF SInv, SessionType, Follows, Session
<1>5. ASSUME NEW w \in Sockets PROVE Sock(w)'
  <2>1. sock[w].gen \in Nat /\ Sock(w)
    BY DEF SInv, SessionType
  <2> QED
    BY <1>1, <1>2, <2>1, Typed DEF Sock, Follows, Session
<1>6. \A u \in Threads : Asked(u)'
  BY <1>1, <1>2 DEF Asked, Follows
<1> QED
  BY <1>1, <1>2, <1>3, <1>4, <1>5, <1>6 DEF Effect, SInv, Follows

\* The thread that has the monitor applies its answer and gives the monitor back.
LEMMA ReceiveEffect ==
  ASSUME SInv, NEW t \in Threads, NEW s, Follows(s), Receive(t, s), monitor = t
  PROVE  Effect(t)
<1>1. /\ session' = s /\ monitor' = NoOne
      /\ ans' = [ans EXCEPT ![t] = "none"]
      /\ rid' = [rid EXCEPT ![t] = None]
      /\ UNCHANGED <<rejected, lapsed, ids, sock, refused>>
  BY DEF Receive
<1>2. /\ ans'[t] = "none"
      /\ \A u \in Threads \ {t} : ans'[u] = ans[u] /\ rid'[u] = rid[u] /\ ans[u] = "none" /\ monitor # u
  BY <1>1, NoOneAssumption DEF SInv, SessionType, Asked
<1>3. SessionType'
  BY <1>1 DEF SInv, SessionType, Follows, Session, States, None
<1>4. /\ rejected' <= session'.gen
      /\ session'.token # None /\ rejected' = session'.gen => session'.id \in refused'
      /\ session'.state = "INVALIDATED" => session'.id \in refused'
  BY <1>1, Typed DEF SInv, SessionType, Follows, Session
<1>5. ASSUME NEW w \in Sockets PROVE Sock(w)'
  <2>1. sock[w].gen \in Nat /\ Sock(w)
    BY DEF SInv, SessionType
  <2> QED
    BY <1>1, <2>1, Typed DEF Sock, Follows, Session
<1>6. \A u \in Threads : Asked(u)'
  BY <1>1, <1>2 DEF Asked
<1> QED
  BY <1>2, <1>3, <1>4, <1>5, <1>6 DEF Effect, SInv

\* An installation starts a new generation with an identity that was never used.
LEMMA InstallEffect ==
  ASSUME SInv, NEW t \in Nat, t # None, Unlocked, session' = installed(session, t), ids' = ids + 1,
         UNCHANGED <<rejected, lapsed, monitor, sock, rid, ans, refused>>, NEW x
  PROVE  Effect(x)
<1>0. /\ session' = [state |-> "UNVERIFIED", token |-> t, gen |-> session.gen + 1, id |-> ids + 1]
      /\ session.gen \in Nat /\ ids \in Nat /\ rejected \in Nat
      /\ \A u \in Threads : ans[u] = "none" /\ monitor # u
  BY Typed, NoOneAssumption DEF installed, Session, SInv, SessionType, Unlocked, Asked
<1>1. SessionType'
  BY <1>0 DEF SInv, SessionType
<1>2. /\ rejected' <= session'.gen /\ rejected' # session'.gen
      /\ session'.state # "INVALIDATED"
  BY <1>0 DEF SInv
<1>3. ASSUME NEW w \in Sockets PROVE Sock(w)'
  <2>1. sock[w].gen \in Nat /\ Sock(w)
    BY DEF SInv, SessionType
  <2> QED
    BY <1>0, <2>1 DEF Sock
<1> QED
  BY <1>0, <1>1, <1>2, <1>3 DEF Effect, SInv, Asked

\* A WebSocket never touches the session, only the generation that it rejects.
LEMMA SocketEffect ==
  ASSUME SInv, NEW w \in Sockets, SocketStep(w), NEW x
  PROVE  Effect(x) /\ session' = session /\ rejected' >= rejected /\ UNCHANGED <<lapsed, ids, monitor>>
<1>0. /\ UNCHANGED <<session, lapsed, ids, monitor, rid, ans>> /\ refused \subseteq refused'
      /\ session \in Session /\ sock[w] \in [phase : {"none", "open", "check", "store"}, gen : Nat, id : Nat]
      /\ rejected \in Nat /\ Sock(w)
  BY Typed DEF SocketStep, connect, close, refuse, rejectCheck, rejectStore, SInv, SessionType
<1>1. /\ rejected' \in Nat /\ rejected' >= rejected /\ rejected' <= session.gen
      /\ rejected' # rejected => rejected' = sock[w].gen /\ sock[w].phase = "store"
  BY <1>0 DEF SocketStep, connect, close, refuse, rejectCheck, rejectStore, SInv, Session, Sock
<1>2. /\ DOMAIN sock' = Sockets /\ \A v \in Sockets \ {w} : sock'[v] = sock[v]
      /\ sock'[w] \in [phase : {"none", "open", "check", "store"}, gen : Nat, id : Nat]
      /\ sock'[w].phase # "none" => /\ sock'[w].gen <= session.gen
                                    /\ sock'[w].gen = session.gen => sock'[w].id = session.id
                                    /\ sock'[w].phase \in {"check", "store"} => sock'[w].id \in refused'
  <2>0. sock \in [Sockets -> [phase : {"none", "open", "check", "store"}, gen : Nat, id : Nat]]
    BY DEF SInv, SessionType
  <2>1. CASE connect(w)
    <3>1. sock'[w] = [phase |-> "open", gen |-> session.gen, id |-> session.id]
      BY <2>0, <2>1 DEF connect, marketDataView
    <3> QED
      BY <1>0, <2>0, <2>1, <3>1 DEF connect, Session
  <2>2. CASE close(w) \/ rejectStore(w)
    BY <2>0, <2>2 DEF close, rejectStore, NoSocket, None
  <2>3. CASE refuse(w)
    <3>1. /\ sock'[w] = [phase |-> "check", gen |-> sock[w].gen, id |-> sock[w].id]
          /\ sock[w].phase = "open" /\ sock[w].id \in refused'
      BY <1>0, <2>0, <2>3 DEF refuse
    <3> QED
      BY <1>0, <2>0, <2>3, <3>1 DEF refuse, Sock
  <2>4. CASE rejectCheck(w)
    <3>1. \/ sock'[w] = [phase |-> "store", gen |-> sock[w].gen, id |-> sock[w].id]
          \/ sock'[w] = NoSocket
      BY <1>0, <2>0, <2>4 DEF rejectCheck
    <3>2. sock[w].phase = "check"
      BY <2>4 DEF rejectCheck
    <3> QED
      BY <1>0, <2>0, <2>4, <3>1, <3>2 DEF rejectCheck, NoSocket, None, Sock
  <2> QED
    BY <2>1, <2>2, <2>3, <2>4 DEF SocketStep
<1>s. \E n : sock' = [sock EXCEPT ![w] = n]
  BY DEF SocketStep, connect, close, refuse, rejectCheck, rejectStore
<1>3. refused' \subseteq Nat
  BY <1>0 DEF SocketStep, connect, close, refuse, rejectCheck, rejectStore, SInv, SessionType
<1>4. SessionType'
  <2>1. \A v \in Sockets : sock'[v] \in [phase : {"none", "open", "check", "store"}, gen : Nat, id : Nat]
    BY <1>2 DEF SInv, SessionType
  <2>2. sock' = [v \in Sockets |-> sock'[v]]
    BY <1>s DEF SInv, SessionType
  <2>3. sock' \in [Sockets -> [phase : {"none", "open", "check", "store"}, gen : Nat, id : Nat]]
    BY <2>1, <2>2
  <2> QED
    BY <1>0, <1>1, <1>3, <2>3 DEF SInv, SessionType
<1>5. session'.token # None /\ rejected' = session'.gen => session'.id \in refused'
  BY <1>0, <1>1 DEF SInv, Sock
<1>6. ASSUME NEW v \in Sockets PROVE Sock(v)'
  <2>1. CASE v = w
    <3>1. session' = session
      BY <1>0
    <3>2. sock'[w].phase # "none" => /\ sock'[w].gen <= session'.gen
                                     /\ sock'[w].gen = session'.gen => sock'[w].id = session'.id
                                     /\ sock'[w].phase \in {"check", "store"} => sock'[w].id \in refused'
      BY <1>2, <3>1
    <3>3. Sock(w)'
      BY <3>2 DEF Sock
    <3> QED
      BY <2>1, <3>3
  <2>2. CASE v # w
    BY <1>0, <1>2, <2>2 DEF SInv, SessionType, Sock
  <2> QED
    BY <2>1, <2>2
<1> QED
  BY <1>0, <1>1, <1>4, <1>5, <1>6 DEF Effect, SInv, Asked

-----------------------------------------------------------------------------
(* The calls *)

\* Positions with the session's monitor, and those of them that wait for an answer.
Answering == {"profileAnswer", "refreshAnswer", "readAnswer", "historyAnswer", "orderAnswer"}
Holding   == Answering \cup {"gate", "authorize"}

\* Positions with the use case's monitor, and those of them with a token to be installed.
Trying == {"candidate", "prepare", "install", "profile", "profileAnswer", "confirm", "save"}
Inside == Trying \cup {"reconcile", "wipe", "erase", "drop", "init", "refresh", "refreshAnswer", "mark",
                       "resume", "load", "vacate", "lookup", "exchange", "return", "throw"}

Rets == {"none", "resume", "lookup", "return", "throw", "stale", "wipe"}
Record == [op : {"none", "boot", "login", "callback", "reset"}, ret : Rets,
           rt : RequestTokens \cup {NoRequest}, tok : Nat, id : Nat]

ThreadInv(t) ==
  /\ pc[t] \in Holding => monitor = t
  /\ pc[t] \in Answering => ans[t] # "none"
  /\ pc[t] = "authorize" => session.id \in refreshed
  /\ pc[t] = "orderAnswer" => rid[t] \in refreshed

\* complete continues with its lookup, restore with the token in memory.
Fits(p, op) == (p = "lookup" => op = "callback") /\ (p = "resume" => op # "callback")

\* What the locals of a call are for.
Local(a) ==
  /\ loc[a] \in Record
  /\ loc[a].op = "callback" => loc[a].rt \in RequestTokens
  /\ Fits(loc[a].ret, loc[a].op)
  /\ pc[a] = "idle" => loc[a].ret = "none"

\* What each position of a call has established.
Position(a) ==
  /\ pc[a] \in Inside => owner = a
  /\ pc[a] \in {"lookup", "exchange", "save"} => loc[a].op = "callback"
  /\ pc[a] \in {"resume", "load"} => loc[a].op # "callback"
  /\ pc[a] \in Trying \cup {"exchange"} /\ loc[a].op = "callback" => loc[a].rt \in remembered
  /\ pc[a] = "exchange" => spent[loc[a].rt] = 0
  /\ pc[a] \in {"confirm", "save"} => loc[a].tok \in validated
  /\ pc[a] = "refreshAnswer" => loc[a].id \in {None, rid[a]}
  /\ pc[a] = "mark" => loc[a].id = None \/ loc[a].id \in refreshed
  /\ pc[a] = "erase" => active = None /\ session.state \notin Live
  /\ pc[a] \in Trying => ~wiped

OperatorInv(a) == Local(a) /\ Position(a)

\* The row, the memory of the use case and the history.
Books ==
  /\ active \in Nat /\ generation \in Nat /\ initialized \in Nat /\ stored \in Nat
  /\ validated \subseteq Nat /\ refreshed \subseteq Nat
  /\ stored # None => stored \in validated
  /\ initialized # None => initialized \in refreshed
  /\ wiped => stored = None /\ active = None /\ session.state \notin Live

Attempt == [rt : RequestTokens, ok : BOOLEAN, gen : Nat]

\* A request token that is not remembered counts as never exchanged, except while the call
\* that pushed it out is about to exchange its own.
Recall ==
  /\ attempts \in Seq(Attempt) /\ Len(attempts) <= MaxRemembered
  /\ spent \in [RequestTokens -> {0, 1}]
  /\ (\A a \in Operators : pc[a] # "exchange") => \A rt \in RequestTokens : rt \notin remembered => spent[rt] = 0

Tables == DOMAIN pc = Threads /\ DOMAIN loc = Operators

KInv ==
  /\ SInv /\ Tables /\ Books /\ Recall
  /\ \A t \in Threads : ThreadInv(t)
  /\ \A a \in Operators : OperatorInv(a)

\* What a step of x leaves to the other calls: their positions and locals, and to the one in
\* the use case's monitor everything that monitor protects.
Frame(x) ==
  /\ Tables'
  /\ \A u \in Threads \ {x} : pc'[u] = pc[u]
  /\ \A u \in Operators \ {x} : loc'[u] = loc[u]
  /\ validated \subseteq validated' /\ refreshed \subseteq refreshed'
  /\ \A u \in Operators \ {x} : owner = u =>
       /\ UNCHANGED <<owner, attempts, spent, active, wiped>>
       /\ session.state \notin Live => session'.state \notin Live

\* Such a step keeps the other calls' part of the invariant.
LEMMA OthersKeep ==
  ASSUME KInv, NEW x, Effect(x), Frame(x)
  PROVE  /\ \A u \in Threads \ {x} : ThreadInv(u)'
         /\ \A u \in Operators \ {x} : OperatorInv(u)'
<1>1. ASSUME NEW u \in Threads \ {x} PROVE ThreadInv(u)'
  <2>1. ThreadInv(u) /\ pc'[u] = pc[u] /\ ans'[u] = ans[u] /\ rid'[u] = rid[u] /\ refreshed \subseteq refreshed'
        /\ (monitor = u => monitor' = u /\ session' = session)
    BY DEF KInv, Effect, Frame
  <2> QED
    BY <2>1 DEF ThreadInv, Holding, Answering
<1>2. ASSUME NEW u \in Operators \ {x} PROVE OperatorInv(u)'
  <2>1. /\ Local(u) /\ Position(u) /\ pc'[u] = pc[u] /\ loc'[u] = loc[u] /\ rid'[u] = rid[u]
        /\ validated \subseteq validated' /\ refreshed \subseteq refreshed'
    BY ThreadsAssumption DEF KInv, OperatorInv, Effect, Frame
  <2>2. Local(u)'
    BY <2>1 DEF Local
  <2>3. CASE pc[u] \notin Inside
    <3>1. Position(u)'
      BY <2>1, <2>3 DEF Position, Inside, Trying
    <3> QED
      BY <2>2, <3>1 DEF OperatorInv
  <2>4. CASE pc[u] \in Inside
    <3>1. /\ owner = u /\ UNCHANGED <<owner, attempts, spent, active, wiped>>
          /\ session.state \notin Live => session'.state \notin Live
      BY <2>1, <2>4 DEF Position, Frame
    <3>2. remembered' = remembered
      BY <3>1 DEF remembered
    <3> QED
      BY <2>1, <2>2, <3>1, <3>2 DEF OperatorInv, Position
  <2> QED
    BY <2>2, <2>3, <2>4 DEF OperatorInv
<1> QED
  BY <1>1, <1>2

\* A step of the thread x keeps the invariant when it keeps its own part and the books.
LEMMA StepKeeps ==
  ASSUME KInv, NEW x, Effect(x), Frame(x), Books', Recall',
         x \in Threads => ThreadInv(x)', x \in Operators => OperatorInv(x)'
  PROVE  KInv'
BY OthersKeep DEF KInv, Frame, Effect

\* The position of a becomes p; of its locals only the continuation may change, to r.
Moved(a, p, r) ==
  /\ Tables' /\ pc'[a] = p
  /\ \A u \in Threads \ {a} : pc'[u] = pc[u]
  /\ \A u \in Operators \ {a} : loc'[u] = loc[u]
  /\ loc'[a] \in Record /\ loc'[a].ret = r /\ loc'[a].op = loc[a].op
  /\ loc'[a].rt = loc[a].rt /\ loc'[a].tok = loc[a].tok /\ loc'[a].id = loc[a].id

\* Jump and Call move the caller.
LEMMA Moves ==
  ASSUME KInv, NEW a \in Operators
  PROVE  /\ \A p : Jump(a, p) => Moved(a, p, loc[a].ret)
         /\ \A p, r : Call(a, p, r) /\ r \in Rets => Moved(a, p, r)
<1>0. Tables /\ loc[a] \in Record /\ a \in Threads
  BY ThreadsAssumption DEF KInv, OperatorInv, Local
<1>1. ASSUME NEW p, Jump(a, p) PROVE Moved(a, p, loc[a].ret)
  BY <1>0, <1>1 DEF Jump, Goto, Moved, Tables
<1>2. ASSUME NEW p, NEW r \in Rets, Call(a, p, r) PROVE Moved(a, p, r)
  <2>1. loc'[a] = [loc[a] EXCEPT !.ret = r]
    BY <1>0, <1>2 DEF Call, Tables
  <2>2. [loc[a] EXCEPT !.ret = r] = [op |-> loc[a].op, ret |-> r, rt |-> loc[a].rt, tok |-> loc[a].tok, id |-> loc[a].id]
    BY <1>0 DEF Record
  <2>3. loc'[a] \in Record
    BY <1>0, <2>1, <2>2 DEF Record
  <2> QED
    BY <1>0, <1>2, <2>1, <2>2, <2>3 DEF Call, Goto, Moved, Tables
<1> QED
  BY <1>1, <1>2

\* The books after a step that writes none of them.
LEMMA BooksSame ==
  ASSUME KInv, UNCHANGED <<active, generation, initialized, stored, wiped, validated, refreshed>>,
         session.state \notin Live => session'.state \notin Live
  PROVE  Books'
BY DEF KInv, Books

\* The request tokens after a step that is not an exchange and not a lookup.
LEMMA RecallSame ==
  ASSUME KInv, UNCHANGED <<attempts, spent>>,
         \A u \in Operators : pc[u] = "exchange" => pc'[u] = "exchange"
  PROVE  Recall'
<1>1. remembered' = remembered
  BY DEF remembered
<1> QED
  BY <1>1 DEF KInv, Recall

-----------------------------------------------------------------------------
(* Steps of an operator inside the use case's monitor *)

\* Nobody but a moves.
Others(a) ==
  /\ Tables'
  /\ \A u \in Threads \ {a} : pc'[u] = pc[u]
  /\ \A u \in Operators \ {a} : loc'[u] = loc[u]

\* A step that leaves the session and its traffic alone.
LEMMA IdleEffect ==
  ASSUME SInv, UNCHANGED sessionVars, NEW x
  PROVE  Effect(x)
BY DEF SInv, SessionType, Sock, Asked, Effect, sessionVars

\* Only one operator is inside: what the monitor protects concerns nobody else.
LEMMA InsideKeeps ==
  ASSUME KInv, NEW a \in Operators, pc[a] \in Inside, Effect(a), Others(a),
         validated \subseteq validated', refreshed \subseteq refreshed', Books', Recall',
         ThreadInv(a)', OperatorInv(a)'
  PROVE  KInv'
<1>1. owner = a
  BY DEF KInv, OperatorInv, Position
<1>2. Frame(a)
  BY <1>1 DEF Frame, Others
<1> QED
  BY <1>2, StepKeeps

\* Positions that rest on more than the use case's monitor.
Special == Holding \cup Trying \cup {"lookup", "resume", "load", "exchange", "mark", "erase", "idle"}

\* Such a step to any other position.
LEMMA PlainKeeps ==
  ASSUME KInv, NEW a \in Operators, pc[a] \in Inside, Effect(a), UNCHANGED owner,
         NEW p, NEW r, Moved(a, p, r), p \notin Special, Fits(r, loc[a].op),
         validated \subseteq validated', refreshed \subseteq refreshed', Books', Recall'
  PROVE  KInv'
<1>1. owner = a /\ Local(a)
  BY DEF KInv, OperatorInv, Position
<1>2. ThreadInv(a)'
  BY DEF ThreadInv, Moved, Special, Holding, Answering
<1>3. Local(a)'
  BY <1>1 DEF Local, Moved, Special
<1>4. Position(a)'
  BY <1>1 DEF Position, Moved, Special, Holding, Answering, Trying
<1>5. Others(a)
  BY DEF Moved, Others
<1> QED
  BY <1>2, <1>3, <1>4, <1>5, InsideKeeps DEF OperatorInv

\* The request tokens after a step of a that is not an exchange and not a lookup.
LEMMA RecallKept ==
  ASSUME KInv, NEW a, Others(a), a \in Threads => pc[a] # "exchange", UNCHANGED <<attempts, spent>>
  PROVE  Recall'
<1>1. \A u \in Operators : pc[u] = "exchange" => pc'[u] = "exchange"
  BY ThreadsAssumption DEF Others
<1> QED
  BY <1>1, RecallSame

\* clearSession leaves no session, nothing initialized and no active token.
LEMMA ClearKeeps ==
  ASSUME KInv, clearSession, UNCHANGED <<stored, validated, refreshed, wiped>>, NEW x
  PROVE  Effect(x) /\ Books' /\ session'.state \notin Live /\ active' = None /\ UNCHANGED <<attempts, owner>>
<1>1. SInv /\ Sync(cleared(session))
  BY DEF KInv, clearSession
<1>2. Effect(x) /\ session'.state \notin Live
  BY <1>1, MethodsFollow, SyncEffect DEF Sync
<1>3. active' = None /\ initialized' = None /\ generation' = generation + 1 /\ UNCHANGED <<attempts, owner>>
  BY DEF clearSession
<1>4. Books'
  BY <1>2, <1>3 DEF KInv, Books, None
<1> QED
  BY <1>2, <1>3, <1>4

\* expire() as a step: the session does not come to life.
LEMMA ExpireKeeps ==
  ASSUME KInv, Sync(expired(session)), NEW x
  PROVE  Effect(x) /\ (session.state \notin Live => session'.state \notin Live)
         /\ (authenticated(expired(session)) => session' = session)
BY MethodsFollow, SyncEffect DEF KInv, Sync, Settles, authenticated, Live

\* What a failure leads to are plain positions.
LEMMA FailureMoves ==
  ASSUME KInv, NEW a \in Operators, AuthenticationFailure(a) \/ OtherFailure(a)
  PROVE  \E p, r : Moved(a, p, r) /\ p \notin Special /\ Fits(r, loc[a].op)
<1>1. PICK p \in {"wipe", "drop"}, r \in {"throw", "wipe", "return"} : Call(a, p, r)
  BY DEF AuthenticationFailure, OtherFailure
<1>2. Moved(a, p, r)
  BY <1>1, Moves DEF Rets
<1> QED
  BY <1>2 DEF Fits, Special, Holding, Answering, Trying

\* A step to a plain position that changes neither the books nor the session's life.
LEMMA QuietKeeps ==
  ASSUME KInv, NEW a \in Operators, pc[a] \in Inside, pc[a] # "exchange", Effect(a),
         session.state \notin Live => session'.state \notin Live,
         UNCHANGED <<owner, active, generation, initialized, stored, wiped, attempts, spent, validated, refreshed>>,
         NEW p, NEW r, Moved(a, p, r), p \notin Special, Fits(r, loc[a].op)
  PROVE  KInv'
<1>1. Books'
  BY BooksSame
<1>2. Others(a)
  BY DEF Moved, Others
<1>3. Recall'
  BY <1>2, RecallKept
<1> QED
  BY <1>1, <1>3, PlainKeeps

\* Where a private method continues.
LEMMA Continues ==
  ASSUME KInv, NEW a \in Operators, pc[a] \in Inside
  PROVE  /\ owner = a /\ loc[a].ret \in Rets /\ Fits(loc[a].ret, loc[a].op)
         /\ loc[a] \in Record
         /\ \A r \in Rets : r \notin {"lookup", "resume"} => r \notin Special
BY DEF KInv, OperatorInv, Position, Local, Record, Rets, Special, Holding, Answering, Trying

\* After reconcileSession or a delete, complete goes on with its lookup and restore with its token.
LEMMA ToEntry ==
  ASSUME KInv, NEW a \in Operators, pc[a] \in Inside, pc[a] # "exchange", Effect(a), UNCHANGED owner,
         NEW p \in {"lookup", "resume"}, NEW r, Moved(a, p, r), Fits(p, loc[a].op), Fits(r, loc[a].op),
         UNCHANGED <<attempts, spent>>, validated \subseteq validated', refreshed \subseteq refreshed', Books'
  PROVE  KInv'
<1>1. owner = a /\ Local(a)
  BY DEF KInv, OperatorInv, Position
<1>2. ThreadInv(a)'
  BY DEF ThreadInv, Moved, Holding, Answering
<1>3. Local(a)' /\ Position(a)'
  BY <1>1 DEF Fits, Local, Position, Moved, Trying
<1>4. Others(a)
  BY DEF Moved, Others
<1>5. Recall'
  BY <1>4, RecallKept
<1> QED
  BY <1>2, <1>3, <1>4, <1>5, InsideKeeps DEF OperatorInv

\* reconcileSession keeps the invariant.
LEMMA ReconcileKeeps ==
  ASSUME KInv, NEW a \in Operators, reconcile(a)
  PROVE  KInv'
<1>0. /\ pc[a] \in Inside /\ pc[a] # "exchange" /\ SInv
      /\ UNCHANGED <<owner, active, generation, initialized, stored, wiped, attempts, spent, validated, refreshed>>
  BY DEF reconcile, Inside, KInv, authVars, durable, history
<1>1. Effect(a) /\ (session.state \notin Live => session'.state \notin Live)
  <2>1. UNCHANGED sessionVars \/ Sync(expired(session))
    BY DEF reconcile
  <2> QED
    BY <1>0, <2>1, IdleEffect, ExpireKeeps DEF sessionVars
<1>2. Jump(a, "wipe") \/ Jump(a, loc[a].ret)
  BY DEF reconcile
<1>3. CASE Jump(a, "wipe")
  <2>1. PICK p : p = "wipe"
    OBVIOUS
  <2>2. Moved(a, p, loc[a].ret) /\ p \notin Special
    BY <1>3, <2>1, Moves DEF Special, Holding, Answering, Trying
  <2> QED
    BY <1>0, <1>1, <2>2, Continues, QuietKeeps
<1>4. CASE Jump(a, loc[a].ret)
  <2>1. Moved(a, loc[a].ret, loc[a].ret)
    BY <1>4, Moves
  <2>2. CASE loc[a].ret \in {"lookup", "resume"}
    <3>1. Books'
      BY <1>0, <1>1, BooksSame
    <3> QED
      BY <1>0, <1>1, <2>1, <2>2, <3>1, Continues, ToEntry
  <2>3. CASE loc[a].ret \notin {"lookup", "resume"}
    BY <1>0, <1>1, <2>1, <2>3, Continues, QuietKeeps
  <2> QED
    BY <2>2, <2>3
<1> QED
  BY <1>2, <1>3, <1>4

\* clearStoredSession, the memory: nothing is active and no session lives when the row is deleted.
LEMMA WipeKeeps ==
  ASSUME KInv, NEW a \in Operators, wipe(a)
  PROVE  KInv'
<1>0. /\ pc[a] = "wipe" /\ pc[a] \in Inside /\ clearSession /\ Jump(a, "erase")
      /\ UNCHANGED <<stored, validated, refreshed, wiped, spent>>
  BY DEF wipe, Inside, durable, history
<1>1. Effect(a) /\ Books' /\ session'.state \notin Live /\ active' = None /\ UNCHANGED <<attempts, owner>>
  BY <1>0, ClearKeeps
<1>2. Moved(a, "erase", loc[a].ret) /\ owner = a /\ Local(a)
  BY <1>0, Moves DEF KInv, OperatorInv, Position
<1>3. Others(a)
  BY <1>2 DEF Moved, Others
<1>4. Recall'
  BY <1>0, <1>1, <1>3, RecallKept
<1>5. ThreadInv(a)'
  BY <1>2 DEF Moved, ThreadInv, Holding, Answering
<1>6. Local(a)' /\ Position(a)'
  BY <1>1, <1>2 DEF Moved, Local, Position, Trying
<1> QED
  BY <1>0, <1>1, <1>3, <1>4, <1>5, <1>6, InsideKeeps DEF OperatorInv

\* clearStoredSession, the row: a reset that succeeds leaves neither row nor session.
LEMMA EraseKeeps ==
  ASSUME KInv, NEW a \in Operators, erase(a)
  PROVE  KInv'
<1>0. /\ pc[a] \in Inside /\ pc[a] = "erase" /\ SInv /\ stored' \in {None, stored}
      /\ UNCHANGED <<sessionVars, owner, active, generation, initialized, attempts, spent, validated, refreshed>>
  BY DEF erase, Inside, KInv
<1>1. Effect(a) /\ UNCHANGED session
  BY <1>0, IdleEffect DEF sessionVars
<1>2. active = None /\ session.state \notin Live
  BY <1>0 DEF KInv, OperatorInv, Position
<1>3. stored' = None \/ (UNCHANGED wiped /\ stored' \in {None, stored})
  BY DEF erase
<1>4. Books'
  BY <1>0, <1>1, <1>2, <1>3 DEF KInv, Books, None
<1>5. \/ \E p \in {"return", "throw", loc[a].ret} : Jump(a, p)
      \/ Call(a, "drop", "return")
  BY DEF erase
<1>6. CASE Call(a, "drop", "return")
  <2>1. PICK p, r : p = "drop" /\ r = "return"
    OBVIOUS
  <2>2. Moved(a, p, r) /\ p \notin Special /\ Fits(r, loc[a].op)
    BY <1>6, <2>1, Moves DEF Fits, Special, Holding, Answering, Trying, Rets
  <2>3. Others(a)
    BY <2>2 DEF Moved, Others
  <2>4. Recall'
    BY <1>0, <2>3, RecallKept
  <2> QED
    BY <1>0, <1>1, <1>4, <2>2, <2>4, PlainKeeps
<1>7. CASE \E p \in {"return", "throw", loc[a].ret} : Jump(a, p)
  <2>1. PICK p \in {"return", "throw", loc[a].ret} : Jump(a, p)
    BY <1>7
  <2>2. Moved(a, p, loc[a].ret) /\ Fits(p, loc[a].op)
    BY <1>0, <2>1, Moves, Continues DEF Fits
  <2>3. p \in {"lookup", "resume"} \/ p \notin Special
    BY <1>0, <2>1, Continues DEF Rets
  <2>4. Others(a)
    BY <2>2 DEF Moved, Others
  <2>5. Recall'
    BY <1>0, <2>4, RecallKept
  <2>6. CASE p \in {"lookup", "resume"}
    BY <1>0, <1>1, <1>4, <2>2, <2>6, Continues, ToEntry
  <2>7. CASE p \notin Special
    BY <1>0, <1>1, <1>4, <2>2, <2>5, <2>7, Continues, PlainKeeps
  <2> QED
    BY <2>3, <2>6, <2>7
<1> QED
  BY <1>5, <1>6, <1>7

\* clearSession after a failure keeps the invariant.
LEMMA DropKeeps ==
  ASSUME KInv, NEW a \in Operators, drop(a)
  PROVE  KInv'
<1>0. /\ pc[a] = "drop" /\ pc[a] \in Inside /\ clearSession
      /\ UNCHANGED <<stored, validated, refreshed, wiped, spent>>
  BY DEF drop, Inside, durable, history
<1>1. Effect(a) /\ Books' /\ session'.state \notin Live /\ active' = None /\ UNCHANGED <<attempts, owner>>
  BY <1>0, ClearKeeps
<1>2. Call(a, "wipe", "return") \/ (loc[a].ret # "wipe" /\ Jump(a, loc[a].ret))
  BY DEF drop
<1>3. \E p, r : Moved(a, p, r) /\ Fits(p, loc[a].op)
                /\ (p \in {"lookup", "resume"} \/ p \notin Special) /\ Fits(r, loc[a].op)
  <2>1. CASE Call(a, "wipe", "return")
    <3>1. PICK p, r : p = "wipe" /\ r = "return"
      OBVIOUS
    <3>2. Moved(a, p, r) /\ p \notin Special /\ Fits(r, loc[a].op) /\ p \notin {"lookup", "resume"}
      BY <2>1, <3>1, Moves DEF Fits, Special, Holding, Answering, Trying, Rets
    <3> QED
      BY <3>2 DEF Fits
  <2>2. CASE Jump(a, loc[a].ret)
    <3>1. Moved(a, loc[a].ret, loc[a].ret)
      BY <2>2, Moves
    <3> QED
      BY <1>0, <3>1, Continues
  <2> QED
    BY <1>2, <2>1, <2>2
<1>4. PICK p, r : /\ Moved(a, p, r) /\ Fits(p, loc[a].op)
                  /\ (p \in {"lookup", "resume"} \/ p \notin Special) /\ Fits(r, loc[a].op)
  BY <1>3
<1>5. Others(a)
  BY <1>4 DEF Moved, Others
<1>6. Recall'
  BY <1>0, <1>1, <1>5, RecallKept
<1> QED
  BY <1>0, <1>1, <1>4, <1>6, ToEntry, PlainKeeps

\* The next position of an attempt: its token and request token stay what they are.
LEMMA TryingKeeps ==
  ASSUME KInv, NEW a \in Operators, pc[a] \in Trying, Effect(a), UNCHANGED <<owner, attempts, spent, wiped>>,
         NEW p \in Trying \ {"profileAnswer"}, Moved(a, p, loc[a].ret),
         p = "save" => loc[a].op = "callback",
         p \in {"confirm", "save"} => loc[a].tok \in validated',
         validated \subseteq validated', refreshed \subseteq refreshed', Books'
  PROVE  KInv'
<1>1. owner = a /\ Local(a) /\ Position(a) /\ pc[a] \in Inside
  BY DEF KInv, OperatorInv, Position, Inside
<1>2. Others(a)
  BY DEF Moved, Others
<1>3. Recall'
  BY <1>2, RecallKept DEF Trying
<1>4. ThreadInv(a)'
  BY DEF Moved, ThreadInv, Holding, Answering, Trying
<1>5. Local(a)'
  BY <1>1 DEF Moved, Local, Trying
<1>6. remembered' = remembered
  BY DEF remembered
<1>7. Position(a)'
  BY <1>1, <1>6 DEF Moved, Position, Trying
<1> QED
  BY <1>1, <1>2, <1>3, <1>4, <1>5, <1>7, InsideKeeps DEF OperatorInv

\* installAndValidate clears before it installs.
LEMMA PrepareKeeps ==
  ASSUME KInv, NEW a \in Operators, prepare(a)
  PROVE  KInv'
<1>0. /\ pc[a] = "prepare" /\ pc[a] \in Trying /\ clearSession /\ Jump(a, "install")
      /\ UNCHANGED <<stored, validated, refreshed, wiped, spent>>
  BY DEF prepare, Trying, durable, history
<1>1. Effect(a) /\ Books' /\ UNCHANGED <<attempts, owner>>
  BY <1>0, ClearKeeps
<1>2. PICK p \in Trying \ {"profileAnswer"} : p = "install"
  BY DEF Trying
<1>3. Moved(a, p, loc[a].ret)
  BY <1>0, <1>2, Moves
<1> QED
  BY <1>0, <1>1, <1>2, <1>3, TryingKeeps

\* install keeps the invariant: only an attempt after the last reset brings a session to life.
LEMMA InstallKeeps ==
  ASSUME KInv, NEW a \in Operators, install(a)
  PROVE  KInv'
<1>0. /\ pc[a] = "install" /\ pc[a] \in Trying /\ pc[a] \in Inside /\ SInv /\ Unlocked
      /\ UNCHANGED <<owner, active, generation, initialized, stored, wiped, attempts, spent, validated, refreshed>>
  BY DEF install, Trying, Inside, KInv, authVars, durable, history
<1>1. ~wiped /\ loc[a].tok \in Nat
  BY <1>0 DEF KInv, OperatorInv, Position, Local, Record
<1>2. CASE usableToken(loc[a].tok) /\ Jump(a, "profile") /\ session' = installed(session, loc[a].tok) /\ ids' = ids + 1
           /\ UNCHANGED <<rejected, lapsed, monitor, sock, rid, ans, refused>>
  <2>1. Effect(a)
    BY <1>0, <1>1, <1>2, InstallEffect DEF usableToken
  <2>2. Books'
    BY <1>0, <1>1 DEF KInv, Books
  <2>3. PICK p \in Trying \ {"profileAnswer"} : p = "profile"
    BY DEF Trying
  <2>4. Moved(a, p, loc[a].ret)
    BY <1>2, <2>3, Moves
  <2> QED
    BY <1>0, <2>1, <2>2, <2>3, <2>4, TryingKeeps
<1>3. CASE AuthenticationFailure(a) /\ UNCHANGED sessionVars
  <2>1. Effect(a) /\ UNCHANGED session
    BY <1>0, <1>3, IdleEffect DEF sessionVars
  <2>2. PICK p, r : Moved(a, p, r) /\ p \notin Special /\ Fits(r, loc[a].op)
    BY <1>3, FailureMoves
  <2> QED
    BY <1>0, <2>1, <2>2, QuietKeeps
<1> QED
  BY <1>2, <1>3 DEF install

\* The profile is requested with the credential that was installed.
LEMMA ProfileKeeps ==
  ASSUME KInv, NEW a \in Operators, profile(a)
  PROVE  KInv'
<1>0. /\ pc[a] = "profile" /\ pc[a] \in Trying /\ pc[a] \in Inside /\ SInv /\ monitor = NoOne /\ a \in Threads
      /\ UNCHANGED <<owner, active, generation, initialized, stored, wiped, attempts, spent, validated, refreshed>>
  BY ThreadsAssumption DEF profile, Trying, Inside, KInv, authVars, durable, history, Unlocked
<1>1. CASE Send(a, expired(session)) /\ Jump(a, "profileAnswer")
  <2>1. /\ Effect(a) /\ monitor' = a /\ ans'[a] # "none"
        /\ (session.state \notin Live => session'.state \notin Live)
    BY <1>0, <1>1, MethodsFollow, SendEffect DEF Send, Settles
  <2>2. Moved(a, "profileAnswer", loc[a].ret) /\ Local(a) /\ Position(a)
    BY <1>1, Moves DEF KInv, OperatorInv
  <2>3. Others(a)
    BY <2>2 DEF Moved, Others
  <2>4. Books' /\ Recall' /\ remembered' = remembered
    BY <1>0, <2>1, <2>3, BooksSame, RecallKept DEF remembered
  <2>5. ThreadInv(a)' /\ Local(a)'
    BY <2>1, <2>2 DEF Moved, ThreadInv, Local
  <2>6. Position(a)'
    BY <1>0, <2>2, <2>4 DEF Moved, Position, Trying
  <2> QED
    BY <1>0, <2>1, <2>3, <2>4, <2>5, <2>6, InsideKeeps DEF OperatorInv
<1>2. CASE Sync(expired(session)) /\ AuthenticationFailure(a)
  <2>1. PICK p, r : Moved(a, p, r) /\ p \notin Special /\ Fits(r, loc[a].op)
    BY <1>2, FailureMoves
  <2> QED
    BY <1>0, <1>2, <2>1, ExpireKeeps, QuietKeeps
<1> QED
  BY <1>1, <1>2 DEF profile

\* The answer to the profile request: a confirmed token may be stored from here on.
LEMMA ProfileAnswerKeeps ==
  ASSUME KInv, NEW a \in Operators, profileAnswer(a)
  PROVE  KInv'
<1>0. /\ pc[a] = "profileAnswer" /\ pc[a] \in Trying /\ pc[a] \in Inside /\ SInv /\ a \in Threads
      /\ Receive(a, IF ans[a] = "ok" THEN profileValidated(session) ELSE answered(a, session))
      /\ UNCHANGED <<owner, active, generation, initialized, stored, wiped, attempts, spent, refreshed>>
  BY ThreadsAssumption DEF profileAnswer, Trying, Inside, KInv, authVars, durable
<1>1. monitor = a /\ ~wiped /\ loc[a].tok \in Nat
  BY <1>0 DEF KInv, ThreadInv, OperatorInv, Position, Local, Record, Holding, Answering
<1>2. Effect(a)
  BY <1>0, <1>1, ProfileFollows, AnswersFollow, ReceiveEffect
<1>3. CASE ans[a] = "ok" /\ validated' = validated \cup {loc[a].tok} /\ Jump(a, "confirm")
  <2>1. Books' /\ validated \subseteq validated' /\ loc[a].tok \in validated'
    BY <1>0, <1>1, <1>3 DEF KInv, Books
  <2>2. PICK p \in Trying \ {"profileAnswer"} : p = "confirm"
    BY DEF Trying
  <2>3. Moved(a, p, loc[a].ret)
    BY <1>3, <2>2, Moves
  <2> QED
    BY <1>0, <1>2, <2>1, <2>2, <2>3, TryingKeeps
<1>4. CASE ans[a] # "ok" /\ (AuthenticationFailure(a) \/ OtherFailure(a)) /\ UNCHANGED validated
  <2>1. PICK p, r : Moved(a, p, r) /\ p \notin Special /\ Fits(r, loc[a].op)
    BY <1>4, FailureMoves
  <2>2. session' = answered(a, session)
    BY <1>0, <1>4 DEF Receive
  <2>3. session.state \notin Live => session'.state \notin Live
    BY <1>0, <2>2, AnswersFollow DEF Settles
  <2> QED
    BY <1>0, <1>2, <1>4, <2>1, <2>3, QuietKeeps
<1> QED
  BY <1>3, <1>4 DEF profileAnswer

\* The confirmed token becomes the active one, and complete goes on to store it.
LEMMA ConfirmKeeps ==
  ASSUME KInv, NEW a \in Operators, confirm(a)
  PROVE  KInv'
<1>0. /\ pc[a] = "confirm" /\ pc[a] \in Trying /\ pc[a] \in Inside /\ SInv /\ Sync(expired(session))
      /\ UNCHANGED <<owner, generation, initialized, stored, wiped, attempts, spent, validated, refreshed>>
  BY DEF confirm, Trying, Inside, KInv, durable, history
<1>1. ~wiped /\ loc[a].tok \in Nat /\ loc[a].tok \in validated /\ loc[a].ret \in Rets
      /\ Fits(loc[a].ret, loc[a].op)
  BY <1>0, Continues DEF KInv, OperatorInv, Position, Local, Record
<1>2. Effect(a) /\ (session.state \notin Live => session'.state \notin Live)
  BY <1>0, ExpireKeeps
<1>3. CASE active' = loc[a].tok /\ loc[a].op = "callback" /\ Jump(a, "save")
  <2>1. Books'
    BY <1>0, <1>1, <1>3 DEF KInv, Books
  <2>2. PICK p \in Trying \ {"profileAnswer"} : p = "save"
    BY DEF Trying
  <2>3. Moved(a, p, loc[a].ret)
    BY <1>3, <2>2, Moves
  <2> QED
    BY <1>0, <1>1, <1>2, <1>3, <2>1, <2>2, <2>3, TryingKeeps
<1>4. CASE active' = loc[a].tok /\ Jump(a, "init")
  <2>1. Books'
    BY <1>0, <1>1, <1>4 DEF KInv, Books
  <2>2. PICK p : p = "init"
    OBVIOUS
  <2>3. Moved(a, p, loc[a].ret) /\ p \notin Special
    BY <1>4, <2>2, Moves DEF Special, Holding, Answering, Trying
  <2>4. Others(a)
    BY <2>3 DEF Moved, Others
  <2>5. Recall'
    BY <1>0, <2>4, RecallKept
  <2> QED
    BY <1>0, <1>1, <1>2, <2>1, <2>3, <2>5, PlainKeeps
<1>5. CASE AuthenticationFailure(a) /\ UNCHANGED active
  <2>1. PICK p, r : Moved(a, p, r) /\ p \notin Special /\ Fits(r, loc[a].op)
    BY <1>5, FailureMoves
  <2> QED
    BY <1>0, <1>2, <1>5, <2>1, QuietKeeps
<1> QED
  BY <1>3, <1>4, <1>5 DEF confirm

\* initializeInstruments decides whether the instruments have to be refreshed.
LEMMA InitKeeps ==
  ASSUME KInv, NEW a \in Operators, init(a)
  PROVE  KInv'
<1>0. /\ pc[a] \in Inside /\ pc[a] # "exchange" /\ Sync(expired(session))
      /\ UNCHANGED <<owner, active, generation, initialized, stored, wiped, attempts, spent, validated, refreshed>>
  BY DEF init, Inside, authVars, durable, history
<1>1. PICK p \in {"return", "refresh"} : Jump(a, p)
  BY DEF init
<1>2. Moved(a, p, loc[a].ret) /\ p \notin Special
  BY <1>1, Moves DEF Special, Holding, Answering, Trying
<1> QED
  BY <1>0, <1>2, Continues, ExpireKeeps, QuietKeeps

\* The identity that is read before the instruments are requested is the session's or none.
LEMMA IdentityIs == executionIdentity \in {None, session.id}
BY DEF executionIdentity, marketDataView

\* The instruments are requested with the credential of the session that is then marked.
LEMMA RefreshKeeps ==
  ASSUME KInv, NEW a \in Operators, refresh(a)
  PROVE  KInv'
<1>0. /\ pc[a] = "refresh" /\ pc[a] \in Inside /\ SInv /\ monitor = NoOne /\ a \in Threads
      /\ UNCHANGED <<owner, active, generation, initialized, stored, wiped, attempts, spent, validated, refreshed>>
  BY ThreadsAssumption DEF refresh, Inside, KInv, authVars, durable, history, Unlocked
<1>1. CASE Send(a, expired(session)) /\ Goto(a, "refreshAnswer") /\ loc' = [loc EXCEPT ![a].id = executionIdentity]
  <2>1. /\ Effect(a) /\ monitor' = a /\ ans'[a] # "none" /\ rid'[a] = session.id
        /\ (session.state \notin Live => session'.state \notin Live)
    BY <1>0, <1>1, MethodsFollow, SendEffect DEF Send, Settles
  <2>2. Local(a) /\ Position(a) /\ loc[a] \in Record /\ Tables
    BY DEF KInv, OperatorInv, Local
  <2>3. Others(a) /\ pc'[a] = "refreshAnswer" /\ loc'[a] = [loc[a] EXCEPT !.id = executionIdentity]
    BY <1>0, <1>1, <2>2 DEF Goto, Others, Tables
  <2>4. executionIdentity \in {None, session.id} /\ executionIdentity \in Nat
    BY <1>0, IdentityIs, Typed DEF Session, None
  <2>5. [loc[a] EXCEPT !.id = executionIdentity]
          = [op |-> loc[a].op, ret |-> loc[a].ret, rt |-> loc[a].rt, tok |-> loc[a].tok, id |-> executionIdentity]
    BY <2>2 DEF Record
  <2>6. Books' /\ Recall' /\ remembered' = remembered
    BY <1>0, <2>1, <2>3, BooksSame, RecallKept DEF remembered
  <2>7. ThreadInv(a)'
    BY <2>1, <2>3 DEF ThreadInv
  <2>8. Local(a)'
    BY <2>2, <2>3, <2>4, <2>5 DEF Local, Record
  <2>9. Position(a)'
    BY <1>0, <2>1, <2>2, <2>3, <2>4, <2>5, <2>6 DEF Position, Trying
  <2> QED
    BY <1>0, <2>1, <2>3, <2>6, <2>7, <2>8, <2>9, InsideKeeps DEF OperatorInv
<1>2. CASE Sync(expired(session)) /\ Call(a, "wipe", "return")
  <2>1. PICK p, r : p = "wipe" /\ r = "return"
    OBVIOUS
  <2>2. Moved(a, p, r) /\ p \notin Special /\ Fits(r, loc[a].op)
    BY <1>2, <2>1, Moves DEF Fits, Special, Holding, Answering, Trying, Rets
  <2> QED
    BY <1>0, <1>2, <2>2, ExpireKeeps, QuietKeeps
<1> QED
  BY <1>1, <1>2 DEF refresh

\* The answer to that request.
LEMMA RefreshAnswerKeeps ==
  ASSUME KInv, NEW a \in Operators, refreshAnswer(a)
  PROVE  KInv'
<1>0. /\ pc[a] = "refreshAnswer" /\ pc[a] \in Inside /\ SInv /\ a \in Threads
      /\ Receive(a, answered(a, session))
      /\ UNCHANGED <<owner, active, generation, initialized, stored, wiped, attempts, spent, validated>>
  BY ThreadsAssumption DEF refreshAnswer, Inside, Trying, KInv, authVars, durable
<1>1. monitor = a /\ Local(a) /\ Position(a) /\ rid[a] \in Nat
  BY <1>0 DEF KInv, ThreadInv, OperatorInv, Holding, Answering, SInv, SessionType
<1>2. Effect(a) /\ (session.state \notin Live => session'.state \notin Live)
  BY <1>0, <1>1, AnswersFollow, ReceiveEffect DEF Receive, Settles
<1>3. CASE refreshed' = refreshed \cup {rid[a]} /\ Jump(a, "mark")
  <2>1. Moved(a, "mark", loc[a].ret)
    BY <1>3, Moves
  <2>2. Others(a)
    BY <2>1 DEF Moved, Others
  <2>3. Books'
    BY <1>0, <1>1, <1>2, <1>3 DEF KInv, Books
  <2>4. Recall' /\ remembered' = remembered
    BY <1>0, <2>2, RecallKept DEF remembered
  <2>5. ThreadInv(a)' /\ Local(a)'
    BY <1>1, <2>1 DEF ThreadInv, Local, Moved, Holding, Answering
  <2>6. Position(a)'
    BY <1>0, <1>1, <1>3, <2>1 DEF Position, Moved, Trying
  <2> QED
    BY <1>0, <1>2, <1>3, <2>2, <2>3, <2>4, <2>5, <2>6, InsideKeeps DEF OperatorInv
<1>4. CASE UNCHANGED refreshed /\ (Call(a, "wipe", "return") \/ Jump(a, "return"))
  <2>1. PICK p \in {"wipe", "return"}, r \in {"return", loc[a].ret} : Moved(a, p, r)
    BY <1>4, Moves DEF Rets
  <2>2. p \notin Special /\ Fits(r, loc[a].op)
    BY <1>0, <2>1, Continues DEF Fits, Special, Holding, Answering, Trying
  <2> QED
    BY <1>0, <1>2, <1>4, <2>1, <2>2, QuietKeeps
<1> QED
  BY <1>3, <1>4 DEF refreshAnswer

\* mark: the identity is initialized only when its instruments were refreshed.
LEMMA MarkKeeps ==
  ASSUME KInv, NEW a \in Operators, mark(a)
  PROVE  KInv'
<1>0. /\ pc[a] = "mark" /\ pc[a] \in Inside /\ SInv /\ Jump(a, "return")
      /\ UNCHANGED <<sessionVars, owner, active, generation, stored, wiped, attempts, spent, validated, refreshed>>
      /\ initialized' \in {loc[a].id, initialized} /\ (initialized' # initialized => loc[a].id # None)
  BY DEF mark, Inside, KInv, durable, history
<1>1. Effect(a) /\ UNCHANGED session
  BY <1>0, IdleEffect DEF sessionVars
<1>2. (loc[a].id = None \/ loc[a].id \in refreshed) /\ loc[a].id \in Nat
  BY <1>0 DEF KInv, OperatorInv, Position, Local, Record
<1>3. Books'
  BY <1>0, <1>1, <1>2 DEF KInv, Books
<1>4. PICK p : p = "return"
  OBVIOUS
<1>5. Moved(a, p, loc[a].ret) /\ p \notin Special
  BY <1>0, <1>4, Moves DEF Special, Holding, Answering, Trying
<1>6. Others(a)
  BY <1>5 DEF Moved, Others
<1>7. Recall'
  BY <1>0, <1>6, RecallKept
<1> QED
  BY <1>0, <1>1, <1>3, <1>5, <1>7, Continues, PlainKeeps

\* restore with a token in memory goes on with the instruments or with the row.
LEMMA ResumeKeeps ==
  ASSUME KInv, NEW a \in Operators, resume(a)
  PROVE  KInv'
<1>0. /\ pc[a] = "resume" /\ pc[a] \in Inside /\ SInv
      /\ UNCHANGED <<owner, active, generation, initialized, stored, wiped, attempts, spent, validated, refreshed>>
  BY DEF resume, Inside, KInv, authVars, durable, history
<1>1. Effect(a) /\ (session.state \notin Live => session'.state \notin Live)
  <2>1. UNCHANGED sessionVars \/ Sync(expired(session))
    BY DEF resume
  <2> QED
    BY <1>0, <2>1, IdleEffect, ExpireKeeps DEF sessionVars
<1>2. Jump(a, "load") \/ Jump(a, "init")
  BY DEF resume
<1>3. CASE Jump(a, "load")
  <2>1. Moved(a, "load", loc[a].ret) /\ Local(a) /\ Position(a)
    BY <1>3, Moves DEF KInv, OperatorInv
  <2>2. Others(a)
    BY <2>1 DEF Moved, Others
  <2>3. Books' /\ Recall'
    BY <1>0, <1>1, <2>2, BooksSame, RecallKept
  <2>4. ThreadInv(a)' /\ Local(a)' /\ Position(a)'
    BY <1>0, <2>1 DEF Moved, ThreadInv, Local, Position, Holding, Answering, Trying, Fits
  <2> QED
    BY <1>0, <1>1, <2>2, <2>3, <2>4, InsideKeeps DEF OperatorInv
<1>4. CASE Jump(a, "init")
  <2>1. PICK p : p = "init"
    OBVIOUS
  <2>2. Moved(a, p, loc[a].ret) /\ p \notin Special
    BY <1>4, <2>1, Moves DEF Special, Holding, Answering, Trying
  <2> QED
    BY <1>0, <1>1, <2>2, Continues, QuietKeeps
<1> QED
  BY <1>2, <1>3, <1>4

\* restore reads the row: a row is there only when no reset has succeeded since the last login.
LEMMA LoadKeeps ==
  ASSUME KInv, NEW a \in Operators, load(a)
  PROVE  KInv'
<1>0. /\ pc[a] = "load" /\ pc[a] \in Inside /\ SInv
      /\ UNCHANGED <<owner, active, generation, initialized, stored, wiped, attempts, spent, validated, refreshed>>
      /\ UNCHANGED sessionVars
  BY DEF load, Inside, KInv, authVars, durable, history
<1>1. Effect(a) /\ UNCHANGED session
  BY <1>0, IdleEffect DEF sessionVars
<1>2. CASE Jump(a, "vacate") \/ Call(a, "wipe", "stale") \/ OtherFailure(a)
  <2>1. \E p, r : Moved(a, p, r) /\ p \notin Special /\ Fits(r, loc[a].op)
    <3>1. CASE Jump(a, "vacate")
      <4>1. PICK p : p = "vacate"
        OBVIOUS
      <4>2. Moved(a, p, loc[a].ret) /\ p \notin Special
        BY <3>1, <4>1, Moves DEF Special, Holding, Answering, Trying
      <4> QED
        BY <1>0, <4>2, Continues
    <3>2. CASE Call(a, "wipe", "stale")
      <4>1. PICK p, r : p = "wipe" /\ r = "stale"
        OBVIOUS
      <4>2. Moved(a, p, r) /\ p \notin Special /\ Fits(r, loc[a].op)
        BY <3>2, <4>1, Moves DEF Fits, Special, Holding, Answering, Trying, Rets
      <4> QED
        BY <4>2
    <3> QED
      BY <1>2, <3>1, <3>2, FailureMoves
  <2>2. PICK p, r : Moved(a, p, r) /\ p \notin Special /\ Fits(r, loc[a].op)
    BY <2>1
  <2> QED
    BY <1>0, <1>1, <2>2, QuietKeeps
<1>3. CASE usableToken(stored) /\ Goto(a, "prepare") /\ loc' = [loc EXCEPT ![a].tok = stored]
  <2>1. Local(a) /\ Position(a) /\ loc[a] \in Record /\ Tables /\ a \in Threads
    BY ThreadsAssumption DEF KInv, OperatorInv, Local
  <2>2. Others(a) /\ pc'[a] = "prepare" /\ loc'[a] = [loc[a] EXCEPT !.tok = stored]
    BY <1>3, <2>1 DEF Goto, Others, Tables
  <2>3. ~wiped /\ stored \in Nat
    BY <1>3 DEF usableToken, KInv, Books
  <2>4. [loc[a] EXCEPT !.tok = stored]
          = [op |-> loc[a].op, ret |-> loc[a].ret, rt |-> loc[a].rt, tok |-> stored, id |-> loc[a].id]
    BY <2>1 DEF Record
  <2>5. Books' /\ Recall'
    BY <1>0, <1>1, <2>2, BooksSame, RecallKept
  <2>6. ThreadInv(a)'
    BY <2>2 DEF ThreadInv, Holding, Answering
  <2>7. Local(a)'
    BY <2>1, <2>2, <2>3, <2>4 DEF Local, Record, Fits
  <2>8. Position(a)'
    BY <1>0, <2>1, <2>2, <2>3, <2>4 DEF Position, Trying, Inside
  <2> QED
    BY <1>0, <1>1, <2>2, <2>5, <2>6, <2>7, <2>8, InsideKeeps DEF OperatorInv
<1> QED
  BY <1>2, <1>3 DEF load

\* restore without a row clears the session.
LEMMA VacateKeeps ==
  ASSUME KInv, NEW a \in Operators, vacate(a)
  PROVE  KInv'
<1>0. /\ pc[a] = "vacate" /\ pc[a] \in Inside /\ clearSession /\ Jump(a, "return")
      /\ UNCHANGED <<stored, validated, refreshed, wiped, spent>>
  BY DEF vacate, Inside, durable, history
<1>1. Effect(a) /\ Books' /\ UNCHANGED <<attempts, owner>>
  BY <1>0, ClearKeeps
<1>2. PICK p : p = "return"
  OBVIOUS
<1>3. Moved(a, p, loc[a].ret) /\ p \notin Special
  BY <1>0, <1>2, Moves DEF Special, Holding, Answering, Trying
<1>4. Others(a)
  BY <1>3 DEF Moved, Others
<1>5. Recall'
  BY <1>0, <1>1, <1>4, RecallKept
<1> QED
  BY <1>0, <1>1, <1>3, <1>5, Continues, PlainKeeps

\* remember: a known request token stays where it is; a new one is remembered afterwards, and
\* only the oldest is forgotten.
LEMMA RememberFacts ==
  ASSUME KInv, NEW rt \in RequestTokens, NEW ok \in BOOLEAN, remember(rt, ok)
  PROVE  /\ attempts' \in Seq(Attempt) /\ Len(attempts') <= MaxRemembered /\ rt \in remembered'
         /\ rt \in remembered => remembered' = remembered
<1>0. attempts \in Seq(Attempt) /\ Len(attempts) \in Nat /\ Len(attempts) <= MaxRemembered /\ generation \in Nat
      /\ MaxRemembered \in Nat /\ MaxRemembered >= 1
  BY RememberAssumption DEF KInv, Recall, Books
<1> DEFINE known == { i \in DOMAIN attempts : attempts[i].rt = rt }
           next  == [rt |-> rt, ok |-> ok, gen |-> generation]
           same  == [ i \in DOMAIN attempts |-> IF i \in known THEN next ELSE attempts[i] ]
<1>1. next \in Attempt /\ next.rt = rt
  BY <1>0 DEF Attempt
<1>r. attempts' = LET all == IF known # {} THEN same ELSE Append(attempts, next)
                  IN IF Len(all) > MaxRemembered THEN Tail(all) ELSE all
  BY Zenon DEF remember
<1> HIDE DEF known, next, same
<1>a. PICK all : all = (IF known # {} THEN same ELSE Append(attempts, next))
                 /\ attempts' = (IF Len(all) > MaxRemembered THEN Tail(all) ELSE all)
  BY <1>r, Zenon
<1>2. CASE known # {}
  <2>1. rt \in remembered
    BY <1>2 DEF remembered, known
  <2>2. same \in Seq(Attempt) /\ Len(same) = Len(attempts) /\ DOMAIN same = DOMAIN attempts
    BY <1>0, <1>1 DEF same
  <2>3. \A i \in DOMAIN attempts : same[i].rt = attempts[i].rt
    BY <1>1 DEF same, known
  <2>a. all = same
    BY <1>2, <1>a, Zenon
  <2>b. ~(Len(same) > MaxRemembered)
    BY <1>0, <2>2
  <2>4. attempts' = same
    BY <1>a, <2>a, <2>b, Zenon
  <2>5. remembered' = remembered
    BY <2>2, <2>3, <2>4 DEF remembered
  <2> QED
    BY <1>0, <2>1, <2>2, <2>4, <2>5
<1>3. CASE known = {}
  <2>1. rt \notin remembered
    BY <1>3 DEF remembered, known
  <2>a. all = Append(attempts, next)
    BY <1>3, <1>a, Zenon
  <2>b. attempts \in Seq(Attempt) /\ next \in Attempt
    BY <1>0, <1>1, Zenon
  <2>c. Append(attempts, next) \in Seq(Attempt)
    BY <2>b
  <2>2. PICK s \in Seq(Attempt) : s = Append(attempts, next)
    BY <2>c, Zenon
  <2>3. Len(s) = Len(attempts) + 1 /\ s[Len(s)] = next
    BY <1>0, <1>1, <2>2
  <2>4. attempts' = IF Len(s) > MaxRemembered THEN Tail(s) ELSE s
    BY <1>a, <2>2, <2>a
  <2>5. CASE Len(s) > MaxRemembered
    <3>1. attempts' = Tail(s) /\ s # <<>> /\ Len(s) \in Nat /\ Len(s) >= 2
      BY <1>0, <2>3, <2>4, <2>5
    <3>2. attempts' \in Seq(Attempt) /\ Len(attempts') = Len(s) - 1 /\ DOMAIN attempts' = 1..(Len(s) - 1)
      BY <2>2, <3>1
    <3>3. attempts'[Len(s) - 1] = s[Len(s)] /\ Len(s) - 1 \in DOMAIN attempts'
      BY <2>2, <3>1, <3>2
    <3>4. rt \in remembered'
      BY <1>1, <2>3, <3>3 DEF remembered
    <3> QED
      BY <1>0, <2>1, <2>3, <3>2, <3>4
  <2>6. CASE ~(Len(s) > MaxRemembered)
    <3>1. attempts' = s /\ Len(s) \in DOMAIN attempts' /\ Len(s) <= MaxRemembered
      BY <1>0, <2>2, <2>3, <2>4, <2>6
    <3>2. rt \in remembered'
      BY <1>1, <2>3, <3>1 DEF remembered
    <3> QED
      BY <2>1, <2>2, <3>1, <3>2
  <2> QED
    BY <2>5, <2>6
<1> QED
  BY <1>2, <1>3

\* complete looks its request token up: one that is not remembered was never exchanged.
LEMMA LookupKeeps ==
  ASSUME KInv, NEW a \in Operators, lookup(a)
  PROVE  KInv'
<1>0. /\ pc[a] = "lookup" /\ pc[a] \in Inside /\ SInv /\ Local(a) /\ Position(a) /\ loc[a] \in Record
      /\ UNCHANGED <<owner, active, generation, initialized, stored, wiped, spent, validated, refreshed>>
  BY DEF lookup, Inside, KInv, OperatorInv, Local, authVars, durable, history
<1>1. owner = a /\ loc[a].op = "callback" /\ loc[a].rt \in RequestTokens
  BY <1>0 DEF Position, Local
<1>2. CASE loc[a].rt \notin remembered /\ remember(loc[a].rt, FALSE) /\ Jump(a, "exchange") /\ UNCHANGED sessionVars
  <2>1. Effect(a) /\ UNCHANGED session
    BY <1>0, <1>2, IdleEffect DEF sessionVars
  <2>2. Moved(a, "exchange", loc[a].ret)
    BY <1>2, Moves
  <2>3. Others(a)
    BY <2>2 DEF Moved, Others
  <2>4. /\ attempts' \in Seq(Attempt) /\ Len(attempts') <= MaxRemembered /\ loc[a].rt \in remembered'
    BY <1>1, <1>2, RememberFacts
  <2>5. \A u \in Operators : pc[u] # "exchange"
    BY <1>0, <1>1 DEF KInv, OperatorInv, Position, Inside
  <2>6. spent[loc[a].rt] = 0
    BY <1>1, <1>2, <2>5 DEF KInv, Recall
  <2>7. Books'
    BY <1>0, <2>1, BooksSame
  <2>8. Recall'
    BY <1>0, <2>2, <2>4 DEF KInv, Recall, Moved
  <2>9. ThreadInv(a)' /\ Local(a)'
    BY <1>0, <2>2 DEF ThreadInv, Local, Moved, Holding, Answering
  <2>10. Position(a)'
    BY <1>0, <1>1, <2>2, <2>4, <2>6 DEF Position, Moved, Trying
  <2> QED
    BY <1>0, <2>1, <2>3, <2>7, <2>8, <2>9, <2>10, InsideKeeps DEF OperatorInv
<1>3. CASE UNCHANGED attempts /\ (Jump(a, "init") \/ Jump(a, "throw")) /\ (UNCHANGED sessionVars \/ Sync(expired(session)))
  <2>1. Effect(a) /\ (session.state \notin Live => session'.state \notin Live)
    BY <1>0, <1>3, IdleEffect, ExpireKeeps DEF sessionVars
  <2>2. PICK p \in {"init", "throw"} : Jump(a, p)
    BY <1>3
  <2>3. Moved(a, p, loc[a].ret) /\ p \notin Special
    BY <2>2, Moves DEF Special, Holding, Answering, Trying
  <2> QED
    BY <1>0, <1>3, <2>1, <2>3, Continues, QuietKeeps
<1> QED
  BY <1>2, <1>3 DEF lookup

\* The exchange, the only one of its request token while that is remembered.
LEMMA ExchangeKeeps ==
  ASSUME KInv, issued \in Nat, NEW a \in Operators, exchange(a)
  PROVE  KInv'
<1>0. /\ pc[a] = "exchange" /\ pc[a] \in Inside /\ SInv /\ Local(a) /\ Position(a) /\ loc[a] \in Record /\ Tables
      /\ UNCHANGED <<sessionVars, owner, active, generation, initialized, stored, attempts, validated, refreshed>>
      /\ spent' = [rt \in RequestTokens |-> IF rt = loc[a].rt THEN spent[rt] + 1
                                            ELSE IF rt \in remembered THEN spent[rt] ELSE 0]
  BY DEF exchange, Inside, KInv, OperatorInv, Local, authVars, durable, history
<1>1. owner = a /\ loc[a].op = "callback" /\ loc[a].rt \in RequestTokens /\ loc[a].rt \in remembered /\ spent[loc[a].rt] = 0
  BY <1>0 DEF Position, Local
<1>2. Effect(a) /\ UNCHANGED session /\ remembered' = remembered
  BY <1>0, IdleEffect DEF sessionVars, remembered
<1>3. Recall'
  BY <1>0, <1>1, <1>2 DEF KInv, Recall
<1>4. CASE Jump(a, "throw") /\ UNCHANGED wiped
  <2>1. PICK p : p = "throw"
    OBVIOUS
  <2>2. Moved(a, p, loc[a].ret) /\ p \notin Special
    BY <1>4, <2>1, Moves DEF Special, Holding, Answering, Trying
  <2>3. Books'
    BY <1>0, <1>2, <1>4, BooksSame
  <2> QED
    BY <1>0, <1>2, <1>3, <2>2, <2>3, Continues, PlainKeeps
<1>5. CASE issued' = issued + 1 /\ wiped' = FALSE /\ Goto(a, "candidate") /\ loc' = [loc EXCEPT ![a].tok = issued + 1]
  <2>1. Others(a) /\ pc'[a] = "candidate" /\ loc'[a] = [loc[a] EXCEPT !.tok = issued + 1]
    BY <1>0, <1>5, ThreadsAssumption DEF Goto, Others, Tables
  <2>2. [loc[a] EXCEPT !.tok = issued + 1]
          = [op |-> loc[a].op, ret |-> loc[a].ret, rt |-> loc[a].rt, tok |-> issued + 1, id |-> loc[a].id]
    BY <1>0 DEF Record
  <2>3. issued + 1 \in Nat
    OBVIOUS
  <2>4. Books'
    BY <1>0, <1>2, <1>5, <2>3 DEF KInv, Books
  <2>5. ThreadInv(a)'
    BY <2>1 DEF ThreadInv, Holding, Answering
  <2>6. Local(a)'
    BY <1>0, <2>1, <2>2, <2>3 DEF Local, Record
  <2>7. Position(a)'
    BY <1>0, <1>1, <1>2, <1>5, <2>1, <2>2 DEF Position, Trying
  <2> QED
    BY <1>0, <1>2, <1>3, <2>1, <2>4, <2>5, <2>6, <2>7, InsideKeeps DEF OperatorInv
<1> QED
  BY <1>4, <1>5 DEF exchange

\* A candidate that is past its expiry is not installed.
LEMMA CandidateKeeps ==
  ASSUME KInv, NEW a \in Operators, candidate(a)
  PROVE  KInv'
<1>0. /\ pc[a] = "candidate" /\ pc[a] \in Trying /\ pc[a] \in Inside /\ SInv /\ UNCHANGED sessionVars
      /\ UNCHANGED <<owner, active, generation, initialized, stored, wiped, attempts, spent, validated, refreshed>>
  BY DEF candidate, Trying, Inside, KInv, authVars, durable, history
<1>1. Effect(a) /\ UNCHANGED session
  BY <1>0, IdleEffect DEF sessionVars
<1>2. CASE Jump(a, "prepare")
  <2>1. PICK p \in Trying \ {"profileAnswer"} : p = "prepare"
    BY DEF Trying
  <2>2. Moved(a, p, loc[a].ret)
    BY <1>2, <2>1, Moves
  <2>3. Books'
    BY <1>0, <1>1, BooksSame
  <2> QED
    BY <1>0, <1>1, <2>1, <2>2, <2>3, TryingKeeps
<1>3. CASE Jump(a, "throw")
  <2>1. PICK p : p = "throw"
    OBVIOUS
  <2>2. Moved(a, p, loc[a].ret) /\ p \notin Special
    BY <1>3, <2>1, Moves DEF Special, Holding, Answering, Trying
  <2> QED
    BY <1>0, <1>1, <2>2, Continues, QuietKeeps
<1> QED
  BY <1>2, <1>3 DEF candidate

\* The confirmed token is stored; the request token stays remembered.
LEMMA SaveKeeps ==
  ASSUME KInv, NEW a \in Operators, save(a)
  PROVE  KInv'
<1>0. /\ pc[a] = "save" /\ pc[a] \in Inside /\ SInv /\ Local(a) /\ Position(a) /\ loc[a] \in Record
      /\ UNCHANGED <<sessionVars, owner, active, generation, initialized, wiped, spent, validated, refreshed>>
      /\ stored' \in {stored, loc[a].tok}
  BY DEF save, Inside, Trying, KInv, OperatorInv, Local, history
<1>1. ~wiped /\ loc[a].tok \in validated /\ loc[a].tok \in Nat /\ loc[a].rt \in RequestTokens /\ loc[a].rt \in remembered
  BY <1>0 DEF Position, Local, Record, Trying
<1>2. Effect(a) /\ UNCHANGED session
  BY <1>0, IdleEffect DEF sessionVars
<1>3. Books'
  BY <1>0, <1>1, <1>2 DEF KInv, Books
<1>4. (remember(loc[a].rt, TRUE) /\ Jump(a, "init")) \/ (OtherFailure(a) /\ UNCHANGED attempts)
  BY DEF save
<1>5. attempts' \in Seq(Attempt) /\ Len(attempts') <= MaxRemembered /\ remembered' = remembered
  BY <1>1, <1>4, RememberFacts DEF KInv, Recall, remembered
<1>6. \E p, r : Moved(a, p, r) /\ p \notin Special /\ Fits(r, loc[a].op)
  <2>1. CASE Jump(a, "init")
    <3>1. PICK p : p = "init"
      OBVIOUS
    <3>2. Moved(a, p, loc[a].ret) /\ p \notin Special
      BY <2>1, <3>1, Moves DEF Special, Holding, Answering, Trying
    <3> QED
      BY <1>0, <3>2, Continues
  <2> QED
    BY <1>4, <2>1, FailureMoves
<1>7. PICK p, r : Moved(a, p, r) /\ p \notin Special /\ Fits(r, loc[a].op)
  BY <1>6
<1>8. \A u \in Operators : pc[u] = "exchange" => pc'[u] = "exchange"
  BY <1>0, <1>7, ThreadsAssumption DEF Moved
<1>9. Recall'
  BY <1>0, <1>5, <1>8 DEF KInv, Recall
<1> QED
  BY <1>0, <1>2, <1>3, <1>7, <1>9, PlainKeeps

-----------------------------------------------------------------------------
(* Entering and leaving a call *)

\* A call that has ended.
LEMMA CallEnded ==
  ASSUME KInv, NEW a \in Operators, Goto(a, "idle"), loc' = [loc EXCEPT ![a] = NoCall]
  PROVE  Others(a) /\ ThreadInv(a)' /\ OperatorInv(a)'
<1>1. Others(a) /\ pc'[a] = "idle" /\ loc'[a] = NoCall
  BY ThreadsAssumption DEF KInv, Tables, Goto, Others
<1>2. NoCall \in Record /\ NoCall.op = "none" /\ NoCall.ret = "none"
  BY DEF NoCall, Record, Rets, None
<1>3. ThreadInv(a)' /\ Local(a)' /\ Position(a)'
  BY <1>1, <1>2 DEF ThreadInv, Local, Fits, Position, Holding, Answering, Trying, Inside
<1> QED
  BY <1>1, <1>3 DEF OperatorInv

\* A call returns, or goes on to a new login attempt.
LEMMA ReturnKeeps ==
  ASSUME KInv, NEW a \in Operators, return(a)
  PROVE  KInv'
<1>0. /\ pc[a] = "return" /\ pc[a] \in Inside /\ SInv /\ Sync(expired(session)) /\ Local(a)
      /\ UNCHANGED <<active, generation, initialized, stored, wiped, attempts, spent, validated, refreshed>>
  BY DEF return, Inside, KInv, OperatorInv, durable, history
<1>1. Effect(a) /\ Books'
  BY <1>0, ExpireKeeps, BooksSame
<1>2. Others(a) /\ ThreadInv(a)' /\ OperatorInv(a)'
  <2>1. CASE Jump(a, "start")
    <3>1. Moved(a, "start", loc[a].ret)
      BY <2>1, Moves
    <3>2. ThreadInv(a)' /\ Local(a)' /\ Position(a)'
      BY <1>0, <3>1 DEF Moved, ThreadInv, Local, Position, Holding, Answering, Trying, Inside
    <3> QED
      BY <3>1, <3>2 DEF Moved, Others, OperatorInv
  <2> QED
    BY <2>1, CallEnded DEF return
<1>3. Recall'
  BY <1>0, <1>2, RecallKept
<1> QED
  BY <1>0, <1>1, <1>2, <1>3, InsideKeeps

\* A call ends with an exception.
LEMMA ThrowKeeps ==
  ASSUME KInv, NEW a \in Operators, throw(a)
  PROVE  KInv'
<1>0. /\ pc[a] = "throw" /\ pc[a] \in Inside /\ SInv /\ UNCHANGED sessionVars
      /\ UNCHANGED <<active, generation, initialized, stored, wiped, attempts, spent, validated, refreshed>>
  BY DEF throw, Inside, KInv, durable, history
<1>1. Effect(a) /\ UNCHANGED session
  BY <1>0, IdleEffect DEF sessionVars
<1>2. Others(a) /\ ThreadInv(a)' /\ OperatorInv(a)'
  BY CallEnded DEF throw
<1>3. Books' /\ Recall'
  BY <1>0, <1>1, <1>2, BooksSame, RecallKept
<1> QED
  BY <1>0, <1>1, <1>2, <1>3, InsideKeeps

\* A step of an operator outside: the monitor is free, or what it protects stays.
LEMMA OutsideKeeps ==
  ASSUME KInv, NEW a \in Operators, Effect(a), Others(a),
         \/ owner = NoOne
         \/ /\ UNCHANGED <<owner, attempts, spent, active, wiped>>
            /\ session.state \notin Live => session'.state \notin Live,
         UNCHANGED <<validated, refreshed>>, Books', Recall', ThreadInv(a)', OperatorInv(a)'
  PROVE  KInv'
<1>1. Frame(a)
  BY NoOneAssumption, ThreadsAssumption DEF Frame, Others
<1> QED
  BY <1>1, StepKeeps

\* The use case's monitor is taken while it is free.
LEMMA EnterKeeps ==
  ASSUME KInv, NEW a \in Operators, enter(a)
  PROVE  KInv'
<1>0. /\ pc[a] = "enter" /\ SInv /\ owner = NoOne /\ owner' = a /\ UNCHANGED sessionVars /\ Local(a)
      /\ UNCHANGED <<active, generation, initialized, stored, wiped, attempts, spent, validated, refreshed>>
  BY DEF enter, KInv, OperatorInv, durable, history
<1>1. Effect(a) /\ UNCHANGED session
  BY <1>0, IdleEffect DEF sessionVars
<1>2. PICK p \in {"reconcile", "wipe"}, r \in {"resume", "lookup", "return"} :
         Call(a, p, r) /\ Fits(r, loc[a].op)
  BY DEF enter, Fits
<1>3. Moved(a, p, r)
  BY <1>2, Moves DEF Rets
<1>4. Others(a)
  BY <1>3 DEF Moved, Others
<1>5. Books' /\ Recall'
  BY <1>0, <1>1, <1>4, ThreadsAssumption, BooksSame, RecallKept
<1>6. ThreadInv(a)' /\ Local(a)' /\ Position(a)'
  BY <1>0, <1>2, <1>3 DEF Moved, ThreadInv, Local, Position, Holding, Answering, Trying
<1> QED
  BY <1>0, <1>1, <1>4, <1>5, <1>6, OutsideKeeps DEF OperatorInv

\* A call starts: it waits for the monitor, or goes on to a login attempt.
LEMMA CallStarted ==
  ASSUME KInv, NEW a \in Operators, pc[a] = "idle", NEW p \in {"enter", "start"}, Goto(a, p),
         NEW op \in {"boot", "login", "reset", "callback"},
         \/ op # "callback" /\ loc' = [loc EXCEPT ![a].op = op]
         \/ \E rt \in RequestTokens : loc' = [loc EXCEPT ![a].op = op, ![a].rt = rt]
  PROVE  Others(a) /\ ThreadInv(a)' /\ OperatorInv(a)'
<1>0. Tables /\ loc[a] \in Record /\ loc[a].ret = "none" /\ a \in Threads
  BY ThreadsAssumption DEF KInv, OperatorInv, Local
<1>1. Others(a) /\ pc'[a] = p
  BY <1>0 DEF Tables, Goto, Others
<1>2. loc'[a] \in Record /\ loc'[a].ret = "none" /\ loc'[a].op = op /\ (op = "callback" => loc'[a].rt \in RequestTokens)
  <2>1. CASE op # "callback" /\ loc' = [loc EXCEPT ![a].op = op]
    <3>1. loc'[a] = [loc[a] EXCEPT !.op = op]
      BY <1>0, <2>1 DEF Tables
    <3>2. [loc[a] EXCEPT !.op = op] = [op |-> op, ret |-> loc[a].ret, rt |-> loc[a].rt, tok |-> loc[a].tok, id |-> loc[a].id]
      BY <1>0 DEF Record
    <3> QED
      BY <1>0, <2>1, <3>1, <3>2 DEF Record
  <2>2. CASE \E rt \in RequestTokens : loc' = [loc EXCEPT ![a].op = op, ![a].rt = rt]
    <3>1. PICK rt \in RequestTokens : loc' = [loc EXCEPT ![a].op = op, ![a].rt = rt]
      BY <2>2
    <3>2. loc'[a] = [[loc[a] EXCEPT !.op = op] EXCEPT !.rt = rt]
      BY <1>0, <3>1 DEF Tables
    <3>3. [loc[a] EXCEPT !.op = op] = [op |-> op, ret |-> loc[a].ret, rt |-> loc[a].rt, tok |-> loc[a].tok, id |-> loc[a].id]
      BY <1>0 DEF Record
    <3>4. loc'[a] = [op |-> op, ret |-> loc[a].ret, rt |-> rt, tok |-> loc[a].tok, id |-> loc[a].id]
      BY <3>2, <3>3
    <3> QED
      BY <1>0, <3>1, <3>4 DEF Record
  <2> QED
    BY <2>1, <2>2
<1>3. ThreadInv(a)' /\ Local(a)' /\ Position(a)'
  BY <1>1, <1>2 DEF ThreadInv, Local, Fits, Position, Holding, Answering, Trying, Inside
<1> QED
  BY <1>1, <1>3 DEF OperatorInv

\* A step in which no call moves.
LEMMA StayKeeps ==
  ASSUME KInv, Stay, Effect(NoOne), UNCHANGED <<attempts, spent>>,
         \/ owner = NoOne
         \/ /\ UNCHANGED <<owner, attempts, spent, active, wiped>>
            /\ session.state \notin Live => session'.state \notin Live,
         UNCHANGED <<validated, refreshed>>, Books'
  PROVE  KInv'
<1>1. Tables' /\ UNCHANGED <<pc, loc>>
  BY DEF KInv, Tables, Stay
<1>2. Frame(NoOne)
  BY <1>1, NoOneAssumption, ThreadsAssumption DEF Frame
<1>3. Recall'
  BY <1>1, RecallSame
<1> QED
  BY <1>2, <1>3, StepKeeps, NoOneAssumption, ThreadsAssumption

\* The startup restore, a login attempt, a callback and a reset, up to the use case's monitor.
LEMMA ArrivalsKeep ==
  ASSUME KInv, NEW a \in Operators,
         boot(a) \/ start(a) \/ reset(a) \/ \E rt \in RequestTokens : callback(a, rt)
  PROVE  KInv'
<1>0. /\ pc[a] \in {"idle", "start"} /\ SInv /\ UNCHANGED sessionVars
      /\ UNCHANGED <<owner, active, generation, initialized, stored, wiped, attempts, spent, validated, refreshed>>
  BY DEF boot, start, reset, callback, KInv, authVars, durable, history
<1>1. Effect(a) /\ Effect(NoOne) /\ UNCHANGED session
  <2>1. Effect(a)
    BY <1>0, IdleEffect
  <2>2. Effect(NoOne)
    BY <1>0, IdleEffect
  <2> QED
    BY <1>0, <2>1, <2>2 DEF sessionVars
<1>2. Books'
  BY <1>0, <1>1, BooksSame
<1>3. CASE Stay
  BY <1>0, <1>1, <1>2, <1>3, StayKeeps
<1>4. CASE Others(a) /\ ThreadInv(a)' /\ OperatorInv(a)'
  <2>1. Recall'
    BY <1>0, <1>4, RecallKept
  <2> QED
    BY <1>0, <1>1, <1>2, <1>4, <2>1, OutsideKeeps
<1>5. CASE boot(a)
  <2>1. PICK p \in {"enter", "start"}, op \in {"boot", "login", "reset", "callback"} : p = "enter" /\ op = "boot"
    OBVIOUS
  <2>2. pc[a] = "idle" /\ Goto(a, p) /\ op # "callback" /\ loc' = [loc EXCEPT ![a].op = op]
    BY <1>5, <2>1 DEF boot
  <2> QED
    BY <1>4, <2>2, CallStarted
<1>6. CASE start(a)
  <2>1. Goto(a, "idle") /\ loc' = [loc EXCEPT ![a] = NoCall]
    BY <1>6 DEF start
  <2> QED
    BY <1>4, <2>1, CallEnded
<1>7. CASE reset(a)
  <2>1. PICK p \in {"enter", "start"}, op \in {"boot", "login", "reset", "callback"} : p = "enter" /\ op = "reset"
    OBVIOUS
  <2>2. pc[a] = "idle" /\ (Stay \/ (Goto(a, p) /\ op # "callback" /\ loc' = [loc EXCEPT ![a].op = op]))
    BY <1>7, <2>1 DEF reset
  <2> QED
    BY <1>3, <1>4, <2>2, CallStarted
<1>8. CASE \E rt \in RequestTokens : callback(a, rt)
  <2>1. PICK p \in {"enter", "start"}, op \in {"boot", "login", "reset", "callback"} : p = "enter" /\ op = "callback"
    OBVIOUS
  <2>2. pc[a] = "idle" /\ (Stay \/ (Goto(a, p) /\ \E rt \in RequestTokens : loc' = [loc EXCEPT ![a].op = op, ![a].rt = rt]))
    BY <1>8, <2>1 DEF callback
  <2> QED
    BY <1>3, <1>4, <2>2, CallStarted
<1> QED
  BY <1>5, <1>6, <1>7, <1>8

\* status() in a free monitor: an active token past its expiry takes its session with it.
LEMMA StatusFacts ==
  ASSUME KInv, status, NEW x
  PROVE  Effect(x) /\ Books' /\ owner = NoOne /\ UNCHANGED <<attempts, spent, validated, refreshed, owner, stored, wiped>>
<1>0. /\ SInv /\ owner = NoOne /\ Sync(expired(observed)) /\ session \in Session
      /\ UNCHANGED <<attempts, spent, validated, refreshed, owner, stored, wiped>>
  BY Typed DEF status, KInv, durable, history
<1>1. CASE observed = session
  <2>1. UNCHANGED <<initialized, active, generation>>
    BY <1>1 DEF status
  <2>2. Effect(x) /\ (session.state \notin Live => session'.state \notin Live)
    BY <1>0, <1>1, ExpireKeeps
  <2> QED
    BY <1>0, <2>1, <2>2, BooksSame
<1>2. CASE observed # session
  <2>1. observed = cleared(session) /\ initialized' = None /\ active' = None /\ generation' = generation + 1
    BY <1>2 DEF status, observed
  <2>2. Sync(cleared(session))
    BY <1>0, <2>1, MethodsFollow
  <2>3. Effect(x) /\ session'.state \notin Live
    BY <1>0, <2>2, MethodsFollow, SyncEffect DEF Sync
  <2>4. Books'
    BY <1>0, <2>1, <2>3 DEF KInv, Books, None
  <2> QED
    BY <1>0, <2>3, <2>4
<1> QED
  BY <1>1, <1>2

\* GET /login reads the status and decides.
LEMMA LoginKeeps ==
  ASSUME KInv, NEW a \in Operators, login(a)
  PROVE  KInv'
<1>0. pc[a] = "idle" /\ status
  BY DEF login
<1>1. /\ Effect(a) /\ Books' /\ owner = NoOne /\ UNCHANGED <<attempts, spent, validated, refreshed, owner, stored, wiped>>
  BY <1>0, StatusFacts
<1>2. CASE Stay
  <2>1. Effect(NoOne)
    BY <1>0, StatusFacts
  <2> QED
    BY <1>1, <1>2, <2>1, StayKeeps
<1>3. CASE \E p \in {"enter", "start"} : Goto(a, p) /\ loc' = [loc EXCEPT ![a].op = "login"]
  <2>1. PICK p \in {"enter", "start"} : Goto(a, p) /\ loc' = [loc EXCEPT ![a].op = "login"]
    BY <1>3
  <2>2. PICK op \in {"boot", "login", "reset", "callback"} : op = "login"
    OBVIOUS
  <2>3. op # "callback" /\ loc' = [loc EXCEPT ![a].op = op]
    BY <2>1, <2>2
  <2>4. Others(a) /\ ThreadInv(a)' /\ OperatorInv(a)'
    BY <1>0, <2>1, <2>3, CallStarted
  <2>5. Recall'
    BY <1>0, <1>1, <2>4, RecallKept
  <2> QED
    BY <1>1, <2>4, <2>5, OutsideKeeps
<1> QED
  BY <1>2, <1>3 DEF login

\* GET /status and the actuator.
LEMMA StatusCallKeeps ==
  ASSUME KInv, statusCall
  PROVE  KInv'
<1>1. CASE status
  BY <1>1, StatusFacts, StayKeeps DEF statusCall
<1>2. CASE Sync(expired(session)) /\ UNCHANGED <<authVars, durable, issued, requests, crashes, history>>
  <2>1. UNCHANGED <<owner, active, generation, initialized, stored, wiped, attempts, spent, validated, refreshed>>
    BY <1>2 DEF authVars, durable, history
  <2>2. Effect(NoOne) /\ (session.state \notin Live => session'.state \notin Live)
    BY <1>2, ExpireKeeps
  <2> QED
    BY <2>1, <2>2, BooksSame, StayKeeps DEF statusCall
<1> QED
  BY <1>1, <1>2 DEF statusCall

-----------------------------------------------------------------------------
(* The other users of the session *)

\* A step of a reader keeps the invariant when its own part holds.
LEMMA ReaderKeeps ==
  ASSUME KInv, NEW r \in Readers, NEW p, Jump(r, p), Effect(r),
         session.state \notin Live => session'.state \notin Live,
         UNCHANGED <<authVars, durable, history>>, pc'[r] = p => ThreadInv(r)'
  PROVE  KInv'
<1>0. /\ r \in Threads /\ r \notin Operators /\ Tables
      /\ UNCHANGED <<owner, active, generation, initialized, stored, wiped, attempts, spent, validated, refreshed>>
  BY ThreadsAssumption DEF KInv, authVars, durable, history
<1>1. Tables' /\ pc'[r] = p /\ UNCHANGED loc /\ \A u \in Threads \ {r} : pc'[u] = pc[u]
  BY <1>0 DEF Jump, Goto, Tables
<1>2. Frame(r)
  BY <1>0, <1>1 DEF Frame
<1>3. \A u \in Operators : pc[u] = "exchange" => pc'[u] = "exchange"
  BY <1>0, <1>1, ThreadsAssumption
<1>4. Books' /\ Recall'
  BY <1>0, <1>3, BooksSame, RecallSame
<1> QED
  BY <1>0, <1>1, <1>2, <1>4, StepKeeps

\* An account read or a historical read is sent.
LEMMA ReadKeeps ==
  ASSUME KInv, NEW r \in Readers, read(r)
  PROVE  KInv'
<1>0. SInv /\ r \in Threads /\ monitor = NoOne /\ UNCHANGED <<authVars, durable, history>>
  BY ThreadsAssumption DEF KInv, read, Unlocked
<1>1. PICK p \in {"readAnswer", "historyAnswer"} : Send(r, expired(session)) /\ Jump(r, p)
  BY DEF read
<1>2. /\ Effect(r) /\ monitor' = r /\ ans'[r] # "none"
      /\ (session.state \notin Live => session'.state \notin Live)
  BY <1>0, <1>1, MethodsFollow, SendEffect DEF Send, Settles
<1>3. pc'[r] = p => ThreadInv(r)'
  BY <1>2 DEF ThreadInv
<1> QED
  BY <1>0, <1>1, <1>2, <1>3, ReaderKeeps

\* An order takes the session's monitor before the gates are asked.
LEMMA OrderRequestKeeps ==
  ASSUME KInv, NEW r \in Readers, orderRequest(r)
  PROVE  KInv'
<1>0. /\ SInv /\ r \in Threads /\ monitor = NoOne /\ UNCHANGED <<authVars, durable, history>>
      /\ monitor' = r /\ UNCHANGED <<rejected, lapsed, ids, sock, rid, ans, refused>> /\ Jump(r, "gate")
  BY ThreadsAssumption DEF KInv, orderRequest, Unlocked
<1>1. session' = session
  BY <1>0, MethodsFollow DEF orderRequest, authenticated, Settles, Live
<1>2. \A t \in Threads : ans[t] = "none" /\ monitor # t
  BY <1>0, NoOneAssumption DEF SInv, Asked
<1>3. Effect(r)
  <2>1. SessionType'
    BY <1>0, <1>1 DEF SInv, SessionType
  <2>2. \A w \in Sockets : Sock(w)'
    BY <1>0, <1>1 DEF SInv, Sock
  <2> QED
    BY <1>0, <1>1, <1>2, <2>1, <2>2 DEF Effect, SInv, Asked
<1>4. PICK p : p = "gate"
  OBVIOUS
<1>5. pc'[r] = p => ThreadInv(r)'
  BY <1>0, <1>4 DEF ThreadInv, Answering
<1> QED
  BY <1>0, <1>1, <1>3, <1>4, <1>5, ReaderKeeps

\* The gate lets an order through only for a session whose instruments were refreshed.
LEMMA DispatchKeeps ==
  ASSUME KInv, NEW r \in Readers, dispatchValidation(r)
  PROVE  KInv'
<1>0. SInv /\ r \in Threads /\ monitor = r /\ UNCHANGED <<authVars, durable, history>>
  BY ThreadsAssumption DEF KInv, dispatchValidation, ThreadInv, Holding
<1>1. CASE initializationReady /\ Jump(r, "authorize") /\ UNCHANGED sessionVars
  <2>1. Effect(r) /\ UNCHANGED <<session, monitor>>
    BY <1>0, <1>1, IdleEffect DEF sessionVars
  <2>2. session.id \in refreshed
    BY <1>1, IdentityIs DEF initializationReady, KInv, Books
  <2>3. PICK p : p = "authorize"
    OBVIOUS
  <2>4. pc'[r] = p => ThreadInv(r)'
    BY <1>0, <2>1, <2>2, <2>3 DEF ThreadInv, Answering, history
  <2> QED
    BY <1>0, <1>1, <2>1, <2>3, <2>4, ReaderKeeps
<1>2. CASE Receive(r, session) /\ Jump(r, "idle")
  <2>1. Effect(r) /\ UNCHANGED session
    BY <1>0, <1>2, MethodsFollow, ReceiveEffect DEF Receive
  <2>2. PICK p : p = "idle"
    OBVIOUS
  <2>3. pc'[r] = p => ThreadInv(r)'
    BY <2>2 DEF ThreadInv, Answering, Holding
  <2> QED
    BY <1>0, <1>2, <2>1, <2>2, <2>3, ReaderKeeps
<1> QED
  BY <1>1, <1>2 DEF dispatchValidation

\* The order is sent with the session that passed the gate.
LEMMA AuthorizeKeeps ==
  ASSUME KInv, NEW r \in Readers, authorize(r)
  PROVE  KInv'
<1>0. SInv /\ r \in Threads /\ monitor = r /\ session.id \in refreshed /\ UNCHANGED <<authVars, durable, history>>
  BY ThreadsAssumption DEF KInv, authorize, ThreadInv, Holding
<1>1. CASE Send(r, expired(session)) /\ Jump(r, "orderAnswer")
  <2>1. /\ Effect(r) /\ monitor' = r /\ ans'[r] # "none" /\ rid'[r] = session.id
        /\ (session.state \notin Live => session'.state \notin Live)
    BY <1>0, <1>1, MethodsFollow, SendEffect DEF Send, Settles
  <2>2. PICK p : p = "orderAnswer"
    OBVIOUS
  <2>3. pc'[r] = p => ThreadInv(r)'
    BY <1>0, <2>1, <2>2 DEF ThreadInv, history
  <2> QED
    BY <1>0, <1>1, <2>1, <2>2, <2>3, ReaderKeeps
<1>2. CASE Receive(r, expired(session)) /\ Jump(r, "idle")
  <2>1. Effect(r) /\ (session.state \notin Live => session'.state \notin Live)
    BY <1>0, <1>2, MethodsFollow, ReceiveEffect DEF Receive, Settles
  <2>2. PICK p : p = "idle"
    OBVIOUS
  <2>3. pc'[r] = p => ThreadInv(r)'
    BY <2>2 DEF ThreadInv, Answering, Holding
  <2> QED
    BY <1>0, <1>2, <2>1, <2>2, <2>3, ReaderKeeps
<1> QED
  BY <1>1, <1>2 DEF authorize

\* The answer to a reader's request.
LEMMA AnswerKeeps ==
  ASSUME KInv, NEW r \in Readers, answer(r)
  PROVE  KInv'
<1>0. SInv /\ r \in Threads /\ monitor = r /\ UNCHANGED <<authVars, durable, history>> /\ Jump(r, "idle")
  BY ThreadsAssumption DEF KInv, answer, ThreadInv, Holding, Answering
<1>1. PICK s \in {session, answered(r, session)} : Receive(r, s)
  BY DEF answer
<1>2. Effect(r) /\ (session.state \notin Live => session'.state \notin Live)
  BY <1>0, <1>1, MethodsFollow, AnswersFollow, ReceiveEffect DEF Receive, Settles
<1>3. PICK p : p = "idle"
  OBVIOUS
<1>4. pc'[r] = p => ThreadInv(r)'
  BY <1>3 DEF ThreadInv, Answering, Holding
<1> QED
  BY <1>0, <1>2, <1>3, <1>4, ReaderKeeps

\* A WebSocket reports what the broker says of its credential.
LEMMA SocketKeeps ==
  ASSUME KInv, NEW w \in Sockets, SocketStep(w), UNCHANGED <<authVars, durable, bounds, pc, loc, history>>
  PROVE  KInv'
<1>1. UNCHANGED <<owner, active, generation, initialized, stored, wiped, attempts, spent, validated, refreshed>> /\ Stay
  BY DEF authVars, durable, history, Stay
<1>2. Effect(NoOne) /\ session' = session
  BY SocketEffect DEF KInv
<1> QED
  BY <1>1, <1>2, BooksSame, StayKeeps

\* The clock passes an expiry.
LEMMA LapseKeeps ==
  ASSUME KInv, lapse
  PROVE  KInv'
<1>1. /\ UNCHANGED <<owner, active, generation, initialized, stored, wiped, attempts, spent, validated, refreshed>> /\ Stay
      /\ UNCHANGED <<session, rejected, ids, monitor, sock, rid, ans, refused>> /\ lapsed' = lapsed + 1
  BY DEF lapse, authVars, durable, history, Stay
<1>2. Effect(NoOne)
  <2>1. SessionType'
    BY <1>1 DEF KInv, SInv, SessionType
  <2>2. (\A w \in Sockets : Sock(w)') /\ (\A t \in Threads : Asked(t)')
    BY <1>1 DEF KInv, SInv, Sock, Asked
  <2> QED
    BY <1>1, <2>1, <2>2 DEF KInv, SInv, Effect
<1> QED
  BY <1>1, <1>2, BooksSame, StayKeeps

-----------------------------------------------------------------------------
(* The theorems *)

\* A process that has just started: no session, no call, nothing remembered.
Started ==
  /\ session = [state |-> "AUTH_REQUIRED", token |-> None, gen |-> 1, id |-> None]
  /\ rejected = 0 /\ monitor = NoOne /\ owner = NoOne
  /\ sock = [w \in Sockets |-> NoSocket]
  /\ rid = [t \in Threads |-> None] /\ ans = [t \in Threads |-> "none"]
  /\ active = None /\ generation = 0 /\ attempts = <<>> /\ initialized = None
  /\ pc = [t \in Threads |-> "idle"] /\ loc = [a \in Operators |-> NoCall]
  /\ spent = [rt \in RequestTokens |-> 0]

\* What outlives a process: the row, the clock and the history.
Durable ==
  /\ lapsed \in Nat /\ ids \in Nat /\ refused \subseteq Nat /\ stored \in Nat
  /\ validated \subseteq Nat /\ refreshed \subseteq Nat
  /\ stored # None => stored \in validated
  /\ wiped => stored = None

\* With a sound row and history a process starts in the invariant.
LEMMA StartedKeeps == Started /\ Durable => KInv
<1> SUFFICES ASSUME Started, Durable PROVE KInv
  OBVIOUS
<1>1. SInv
  <2>1. NoSocket \in [phase : {"none", "open", "check", "store"}, gen : Nat, id : Nat] /\ NoSocket.phase = "none"
    BY DEF NoSocket, None
  <2>2. SessionType
    BY <2>1 DEF Started, Durable, SessionType, None
  <2>3. (\A w \in Sockets : Sock(w)) /\ (\A t \in Threads : Asked(t))
    BY <2>1 DEF Started, Sock, Asked
  <2> QED
    BY <2>2, <2>3 DEF Started, SInv, None
<1>2. Tables
  BY DEF Started, Tables
<1>3. Books
  BY DEF Started, Durable, Books, Live, None
<1>4. Recall
  BY RememberAssumption DEF Started, Recall
<1>5. \A t \in Threads : ThreadInv(t)
  BY DEF Started, ThreadInv, Holding, Answering
<1>6. \A a \in Operators : OperatorInv(a)
  <2>1. NoCall \in Record /\ NoCall.op = "none" /\ NoCall.ret = "none"
    BY DEF NoCall, Record, Rets, None
  <2>2. \A a \in Operators : pc[a] = "idle" /\ loc[a] = NoCall
    BY ThreadsAssumption DEF Started
  <2> QED
    BY <2>1, <2>2 DEF OperatorInv, Local, Fits, Position, Inside, Trying
<1> QED
  BY <1>1, <1>2, <1>3, <1>4, <1>5, <1>6 DEF KInv

\* A crash takes everything but the row.
LEMMA CrashKeeps ==
  ASSUME KInv, crash
  PROVE  KInv'
<1>1. Started'
  BY DEF crash, Started
<1>2. UNCHANGED <<lapsed, ids, refused, stored, validated, refreshed, wiped>>
  BY DEF crash, durable
<1>3. Durable
  BY DEF KInv, SInv, SessionType, Books, Durable
<1>4. Durable'
  BY <1>2, <1>3 DEF Durable
<1> QED
  BY <1>1, <1>4, StartedKeeps, PTL

\* Every step keeps the invariant.
LEMMA NextKeeps ==
  ASSUME KInv, issued \in Nat, [Next]_vars
  PROVE  KInv'
<1>1. ASSUME NEW a \in Operators, OperatorStep(a) PROVE KInv'
  BY <1>1, ReconcileKeeps, WipeKeeps, EraseKeeps, DropKeeps, PrepareKeeps, InstallKeeps, ProfileKeeps,
     ProfileAnswerKeeps, ConfirmKeeps, InitKeeps, RefreshKeeps, RefreshAnswerKeeps, MarkKeeps, ResumeKeeps,
     LoadKeeps, VacateKeeps, LookupKeeps, ExchangeKeeps, CandidateKeeps, SaveKeeps, ReturnKeeps, ThrowKeeps,
     EnterKeeps, ArrivalsKeep DEF OperatorStep
<1>2. ASSUME NEW a \in Operators, boot(a) \/ login(a) \/ reset(a) \/ \E rt \in RequestTokens : callback(a, rt)
      PROVE  KInv'
  BY <1>2, ArrivalsKeep, LoginKeeps
<1>3. ASSUME NEW r \in Readers, ReaderStep(r) \/ read(r) \/ orderRequest(r) PROVE KInv'
  BY <1>3, DispatchKeeps, AuthorizeKeeps, AnswerKeeps, ReadKeeps, OrderRequestKeeps DEF ReaderStep
<1>4. CASE UNCHANGED vars
  <2>1. Stay /\ UNCHANGED sessionVars /\ UNCHANGED <<attempts, spent, owner, active, wiped, session, validated, refreshed>>
        /\ UNCHANGED <<generation, initialized, stored>>
    BY <1>4 DEF vars, Stay, sessionVars
  <2> QED
    BY <2>1, IdleEffect, BooksSame, StayKeeps DEF KInv
<1> QED
  BY <1>1, <1>2, <1>3, <1>4, SocketKeeps, StatusCallKeeps, LapseKeeps, CrashKeeps DEF Next

\* The initial state satisfies it.
LEMMA InitHolds == Init => KInv /\ issued \in Nat
<1> SUFFICES ASSUME Init PROVE KInv /\ issued \in Nat
  OBVIOUS
<1>1. Started /\ Durable
  BY DEF Init, SessionInit, Started, Durable, None
<1> QED
  BY <1>1, StartedKeeps DEF Init

\* The number of issued tokens stays a natural number.
LEMMA IssuedKeeps ==
  ASSUME issued \in Nat, [Next]_vars
  PROVE  issued' \in Nat
<1>1. ASSUME NEW a \in Operators, OperatorStep(a) PROVE issued' \in {issued, issued + 1}
  BY <1>1 DEF OperatorStep, reconcile, wipe, erase, drop, prepare, install, profile, profileAnswer, confirm, init,
     refresh, refreshAnswer, mark, resume, load, vacate, lookup, exchange, candidate, save, return, throw, enter,
     start, bounds
<1>2. ASSUME NEW a \in Operators, boot(a) \/ login(a) \/ reset(a) \/ \E rt \in RequestTokens : callback(a, rt)
      PROVE  issued' = issued
  BY <1>2 DEF boot, login, reset, callback, status, bounds
<1>3. ASSUME NEW r \in Readers, ReaderStep(r) \/ read(r) \/ orderRequest(r) PROVE issued' = issued
  BY <1>3 DEF ReaderStep, read, orderRequest, dispatchValidation, authorize, answer, bounds
<1>4. (statusCall \/ lapse \/ crash \/ UNCHANGED vars) => issued' = issued
  BY DEF statusCall, status, lapse, crash, bounds, vars
<1> QED
  BY <1>1, <1>2, <1>3, <1>4 DEF Next, bounds

\* The inductive invariant of the login, restore and reset of the broker session: who has
\* which monitor, whose refusal is on its way, and what each position of a call has established.
THEOREM SessionInductive == Spec => [](KInv /\ issued \in Nat)
<1>1. KInv /\ issued \in Nat /\ [Next]_vars => (KInv /\ issued \in Nat)'
  BY NextKeeps, IssuedKeeps
<1> QED
  BY <1>1, InitHolds, PTL DEF Spec

\* The invariant gives the properties of the run.
LEMMA InvariantSound == KInv => SessionsSound
<1> SUFFICES ASSUME KInv PROVE SessionsSound
  OBVIOUS
<1>1. RefusalEndsOwnSession
  BY DEF KInv, SInv, RefusalEndsOwnSession
<1>2. OrdersUseInitializedSession
  BY DEF KInv, Tables, Books, ThreadInv, OrdersUseInitializedSession, initializationReady
<1>3. StoredTokenConfirmed
  BY DEF KInv, Books, StoredTokenConfirmed
<1>4. ResetLasts
  BY DEF KInv, Books, Live, ResetLasts, executionIdentity, usable, marketDataView, authenticated
<1>5. ExchangedOnce
  BY DEF KInv, Recall, ExchangedOnce
<1> QED
  BY <1>1, <1>2, <1>3, <1>4, <1>5 DEF SessionsSound

\* For any number of operators, readers and WebSockets: a refusal ends only the session it is
\* about, orders carry the credential of an initialized session, only confirmed tokens are
\* stored, a successful reset lasts, and a remembered request token is exchanged once.
THEOREM SessionsAreSound == Spec => []SessionsSound
  BY SessionInductive, InvariantSound, PTL

-----------------------------------------------------------------------------
(* What brings an identity to light *)

\* A step that makes no session visible: the session stays, and what rejects it or lets it
\* lapse only grows, or it is not an authenticated one afterwards.
Dull == \/ session' = session /\ rejected' >= rejected /\ lapsed' >= lapsed
        \/ session'.state # "AUTHENTICATED"

\* The ways in which a step uses the session.
Uses ==
  \/ \E s \in {session, expired(session), cleared(session)} : Sync(s)
  \/ \E t \in Threads : \E s \in {session, expired(session), answered(t, session)} : Send(t, s) \/ Receive(t, s)
  \/ UNCHANGED sessionVars

\* None of them makes a session visible.
LEMMA UsesAreDull ==
  ASSUME SInv, Uses
  PROVE  Dull
<1>0. rejected \in Nat /\ lapsed \in Nat
  BY DEF SInv, SessionType
<1>1. ASSUME NEW s, Settles(s), session' = s, UNCHANGED <<rejected, lapsed>> PROVE Dull
  BY <1>0, <1>1 DEF Settles, Dull, Live
<1>2. CASE \E s \in {session, expired(session), cleared(session)} : Sync(s)
  BY <1>1, <1>2, MethodsFollow DEF Sync
<1>3. CASE \E t \in Threads : \E s \in {session, expired(session), answered(t, session)} : Send(t, s) \/ Receive(t, s)
  <2>1. PICK t \in Threads : \E s \in {session, expired(session), answered(t, session)} : Send(t, s) \/ Receive(t, s)
    BY <1>3
  <2>2. PICK s \in {session, expired(session), answered(t, session)} : Send(t, s) \/ Receive(t, s)
    BY <2>1
  <2>3. Settles(s) /\ session' = s /\ UNCHANGED <<rejected, lapsed>>
    BY <2>2, MethodsFollow, AnswersFollow DEF Send, Receive
  <2> QED
    BY <1>1, <2>3
<1>4. CASE UNCHANGED sessionVars
  BY <1>0, <1>4 DEF sessionVars, Dull
<1> QED
  BY <1>2, <1>3, <1>4 DEF Uses

\* An operator's step, other than the profile's answer.
LEMMA OperatorDull ==
  ASSUME KInv, NEW a \in Operators, OperatorStep(a), ~profileAnswer(a)
  PROVE  Dull
<1>0. a \in Threads /\ SInv
  BY ThreadsAssumption DEF KInv
<1>1. CASE wipe(a) \/ drop(a) \/ prepare(a) \/ vacate(a)
  <2>1. Sync(cleared(session))
    BY <1>1 DEF wipe, drop, prepare, vacate, clearSession
  <2> QED
    BY <1>0, <2>1, UsesAreDull DEF Uses
<1>2. CASE reconcile(a) \/ confirm(a) \/ init(a) \/ resume(a) \/ lookup(a) \/ return(a)
  <2>1. Sync(expired(session)) \/ UNCHANGED sessionVars
    BY <1>2 DEF reconcile, confirm, init, resume, lookup, return
  <2> QED
    BY <1>0, <2>1, UsesAreDull DEF Uses
<1>3. CASE profile(a) \/ refresh(a) \/ refreshAnswer(a)
  <2>1. \/ Send(a, expired(session)) \/ Sync(expired(session)) \/ Receive(a, answered(a, session))
    BY <1>3 DEF profile, refresh, refreshAnswer
  <2> QED
    BY <1>0, <2>1, UsesAreDull DEF Uses
<1>4. CASE install(a)
  <2>1. session' = installed(session, loc[a].tok) \/ UNCHANGED sessionVars
    BY <1>4 DEF install
  <2>2. installed(session, loc[a].tok).state = "UNVERIFIED"
    BY DEF installed
  <2> QED
    BY <1>0, <2>1, <2>2, UsesAreDull DEF Uses, Dull
<1>5. CASE erase(a) \/ mark(a) \/ load(a) \/ exchange(a) \/ candidate(a) \/ save(a) \/ throw(a) \/ enter(a) \/ start(a)
  <2>1. UNCHANGED sessionVars
    BY <1>5 DEF erase, mark, load, exchange, candidate, save, throw, enter, start
  <2> QED
    BY <1>0, <2>1, UsesAreDull DEF Uses
<1> QED
  BY <1>1, <1>2, <1>3, <1>4, <1>5 DEF OperatorStep

\* status() and what calls it.
LEMMA StatusDull ==
  ASSUME KInv, status
  PROVE  Dull
<1>1. SInv
  BY DEF KInv
<1>2. \E s \in {expired(session), cleared(session)} : Sync(s)
  BY <1>1, MethodsFollow DEF status, observed
<1> QED
  BY <1>1, <1>2, UsesAreDull DEF Uses

\* Every step but the answer to a profile request.
LEMMA NextDull ==
  ASSUME KInv, [Next]_vars, \A a \in Operators : ~profileAnswer(a)
  PROVE  Dull
<1>0. SInv /\ session \in Session /\ rejected \in Nat /\ lapsed \in Nat
  BY Typed DEF KInv, SInv, SessionType
<1>1. ASSUME NEW a \in Operators, boot(a) \/ reset(a) \/ \E rt \in RequestTokens : callback(a, rt) PROVE Dull
  <2>1. UNCHANGED sessionVars
    BY <1>1 DEF boot, reset, callback
  <2> QED
    BY <1>0, <2>1, UsesAreDull DEF Uses
<1>2. ASSUME NEW a \in Operators, login(a) PROVE Dull
  BY <1>2, StatusDull DEF login
<1>3. ASSUME NEW r \in Readers, ReaderStep(r) \/ read(r) PROVE Dull
  <2>1. r \in Threads
    BY ThreadsAssumption
  <2>2. \/ \E s \in {session, expired(session), answered(r, session)} : Send(r, s) \/ Receive(r, s)
        \/ UNCHANGED sessionVars
    BY <1>3 DEF ReaderStep, read, dispatchValidation, authorize, answer
  <2> QED
    BY <1>0, <2>1, <2>2, UsesAreDull DEF Uses
<1>4. ASSUME NEW r \in Readers, orderRequest(r) PROVE Dull
  <2>1. session' = expired(session) /\ UNCHANGED <<rejected, lapsed>>
    BY <1>4 DEF orderRequest
  <2> QED
    BY <1>0, <2>1, MethodsFollow DEF Settles, Live, Dull
<1>5. ASSUME NEW w \in Sockets, SocketStep(w) PROVE Dull
  BY <1>0, <1>5, SocketEffect DEF Dull
<1>6. CASE statusCall
  <2>1. status \/ Sync(expired(session))
    BY <1>6 DEF statusCall
  <2> QED
    BY <1>0, <2>1, StatusDull, UsesAreDull DEF Uses
<1>7. CASE lapse
  BY <1>0, <1>7 DEF lapse, Dull
<1>8. CASE crash
  BY <1>8 DEF crash, Dull
<1>9. CASE UNCHANGED vars
  BY <1>0, <1>9 DEF vars, Dull
<1> QED
  BY <1>1, <1>2, <1>3, <1>4, <1>5, <1>6, <1>7, <1>8, <1>9, OperatorDull DEF Next

\* A step shows an identity only when the broker confirms the profile of an installed token.
LEMMA StepShows ==
  ASSUME KInv, KInv', [Next]_vars
  PROVE  VisibleByValidation
<1>0. /\ SInv /\ session \in Session /\ session' \in Session /\ rejected \in Nat /\ lapsed \in Nat /\ rejected' \in Nat
      /\ lapsed' \in Nat /\ rejected' <= session'.gen /\ rejected <= session.gen
  BY DEF KInv, SInv, SessionType, Session, States
<1>1. ASSUME executionIdentity' \notin {None, executionIdentity} PROVE VisibleByValidation
  <2>1. /\ session'.state = "AUTHENTICATED" /\ lapsed' < session'.token /\ rejected' # session'.gen
        /\ executionIdentity' = session'.id
    BY <1>1 DEF executionIdentity, usable, marketDataView, authenticated
  <2>2. ~Dull
    <3>1. SUFFICES ASSUME session' = session, rejected' >= rejected, lapsed' >= lapsed PROVE FALSE
      BY <2>1 DEF Dull
    <3>a. session.gen \in Nat /\ session.token \in Nat
      BY <1>0 DEF Session
    <3>b. session.state = "AUTHENTICATED" /\ lapsed < session.token /\ rejected # session.gen
      BY <1>0, <2>1, <3>1, <3>a
    <3>2. usable
      BY <3>b DEF usable, marketDataView, authenticated
    <3>3. executionIdentity = session.id
      BY <3>2 DEF executionIdentity, marketDataView
    <3> QED
      BY <1>1, <2>1, <3>1, <3>3
  <2>3. PICK a \in Operators : profileAnswer(a)
    BY <2>2, NextDull
  <2>4. /\ pc[a] = "profileAnswer" /\ a \in DOMAIN loc /\ a \in Threads
        /\ Receive(a, IF ans[a] = "ok" THEN profileValidated(session) ELSE answered(a, session))
    BY <2>3, ThreadsAssumption DEF profileAnswer, KInv, Tables
  <2>5. ans[a] # "none" /\ rid[a] = session.id /\ UNCHANGED <<rejected, lapsed>>
    BY <1>0, <2>4 DEF KInv, ThreadInv, Answering, SInv, Asked, Receive
  <2>6. session' = IF ans[a] = "ok" THEN profileValidated(session) ELSE answered(a, session)
    BY <2>4 DEF Receive
  <2>7. ~Settles(session')
    BY <1>0, <2>1, <2>2, <2>5 DEF Settles, Dull, Live
  <2>8. ans[a] = "ok" /\ session' = profileValidated(session)
    BY <1>0, <2>4, <2>6, <2>7, AnswersFollow
  <2>9. session.state = "UNVERIFIED" /\ session'.id = session.id
    BY <1>0, <2>7, <2>8, ProfileFollows DEF Follows
  <2> QED
    BY <2>1, <2>4, <2>5, <2>8, <2>9 DEF VisibleByValidation
<1> QED
  BY <1>1 DEF VisibleByValidation

\* A session that was rejected, ended or expired never becomes visible again, whatever the
\* order of answers, WebSocket refusals, expiry and crashes.
THEOREM VisibleOnce == Spec => NeverVisibleAgain
<1>1. KInv /\ KInv' /\ [Next]_vars => [VisibleByValidation]_vars
  BY StepShows
<1> QED
  BY <1>1, SessionInductive, PTL DEF Spec, NeverVisibleAgain

=============================================================================
