------------------------- MODULE ExecutionArmingProofs -------------------------
(***************************************************************************)
(* Proofs about ExecutionArming, for any number of callers, orders, halts,  *)
(* permits and logins.                                                      *)
(*                                                                         *)
(* The permit changes in five ways only: it is published, claimed, revoked, *)
(* consumed, or left alone.  The hard case is a claim whose armed() passed  *)
(* before a HALT and a resumption: it must find the permit changed.  That   *)
(* is so because resume revokes the permit before it releases the latch,    *)
(* and because no permit ever comes back once it is not UNUSED.             *)
(***************************************************************************)
EXTENDS ExecutionArming, TLAPS

Checking == {"stop", "read", "judge", "bind", "gates"}

\* Which positions go with which purpose of a check.
Shape(w) ==
  /\ leg[w] \in 0..3
  /\ pc[w] \in Checking => stage[w] \in Stages
  /\ pc[w] \in Checking /\ stage[w] \in Bare => leg[w] = 1 /\ pc[w] \in {"read", "judge"}
  /\ pc[w] \in {"resumeCheck", "resumeCas"} => stage[w] = "resume"
  /\ pc[w] = "claim" => stage[w] = "claim"
  /\ pc[w] = "idle" => stage[w] = "none"

\* A resumption that has revoked the permit and whose confirmation still counts.
Quiet(w) == stage[w] = "resume" /\ Halted /\ held[w] = epoch.n

\* The permit that w is about to claim is still there, unused.
Claimable(w) == arm = perm[w] /\ arm.state = "UNUSED"

Domains ==
  /\ DOMAIN pc = Callers /\ DOMAIN stage = Callers /\ DOMAIN leg = Callers /\ DOMAIN tgt = Callers
  /\ DOMAIN snap = Callers /\ DOMAIN perm = Callers /\ DOMAIN att = Callers /\ DOMAIN held = Callers

\* Counters bound the identities drawn from them; an unused permit is active.
Counters ==
  /\ arms \in Nat /\ epoch.n \in Nat
  /\ arm.nonce \in 0..arms /\ (arm.state = "UNUSED" => arm.active)
  /\ \A w \in Callers : perm[w].nonce \in 0..arms /\ held[w] \in 0..epoch.n

\* The monitor of arm, and the freshness of a permit that is about to be published.
Monitor == \A u, w \in Callers : Arming(u) /\ Arming(w) => u = w
Fresh(w) ==
  pc[w] = "publish" =>
    /\ perm[w].state = "UNUSED" /\ perm[w].active
    /\ arm.nonce < perm[w].nonce
    /\ \A u \in Callers \ {w} : perm[u].nonce < perm[w].nonce

\* What armed() inside claim has established.
Judging(w) == pc[w] = "judge" /\ stage[w] = "claim" /\ Claimable(w) => snap[w] = perm[w]
Judged(w) ==
  pc[w] = "claim" /\ Claimable(w) =>
    /\ ~Halted => perm[w].epoch = epoch.n
    /\ \A u \in Callers : ~Quiet(u)

\* What resume has established before it releases the latch.
Released(w) == pc[w] = "resumeCas" /\ Quiet(w) => arm.state # "CLAIMED"

CallerInv(w) == Shape(w) /\ Fresh(w) /\ Judging(w) /\ Judged(w) /\ Released(w)

IInv == /\ Domains /\ Counters /\ Monitor
        /\ \A w \in Callers : CallerInv(w)
        /\ OwnPermit /\ SingleAttempt /\ NoAttemptSurvivesResume

-----------------------------------------------------------------------------
\* A process that has just started satisfies the inductive invariant.
THEOREM InitIInv == Init => IInv
<1> SUFFICES ASSUME Init PROVE IInv
  OBVIOUS
<1>1. Domains /\ Counters
  BY DEF Init, Domains, Counters, NoArm
<1>2. Monitor
  BY DEF Init, Monitor, Arming
<1>3. ASSUME NEW w \in Callers PROVE CallerInv(w)
  <2>1. pc[w] = "idle" /\ leg[w] = 0
    BY DEF Init
  <2> QED
    BY <2>1 DEF Init, CallerInv, Shape, Fresh, Judging, Judged, Released, Checking
<1>4. OwnPermit /\ SingleAttempt /\ NoAttemptSurvivesResume
  BY DEF Init, OwnPermit, SingleAttempt, NoAttemptSurvivesResume, InFlight, Halted
<1> QED
  BY <1>1, <1>2, <1>3, <1>4 DEF IInv

\* Revoking a permit keeps its identity and a claim on it, and leaves nothing unused.
LEMMA RevokedFacts ==
  ASSUME Counters
  PROVE  /\ revoked(arm).nonce = arm.nonce /\ revoked(arm).epoch = arm.epoch
         /\ revoked(arm).state # "UNUSED"
         /\ revoked(arm).state = "CLAIMED" <=> arm.state = "CLAIMED"
  BY DEF Counters, revoked, change

\* Only w moves.
Frame(w) ==
  /\ Domains'
  /\ \A u \in Callers \ {w} :
       /\ pc'[u] = pc[u] /\ stage'[u] = stage[u] /\ leg'[u] = leg[u]
       /\ snap'[u] = snap[u] /\ perm'[u] = perm[u] /\ att'[u] = att[u] /\ held'[u] = held[u]

\* What w owes when it moves without touching the halt latch: the parts of the
\* invariant that its own new position brings in.
Owes(w) ==
  /\ Shape(w)'
  /\ Arming(w)' => Arming(w) \/ \A u \in Callers : ~Arming(u)
  /\ pc'[w] # "publish"
  /\ Judging(w)'
  /\ pc'[w] = "claim" /\ Claimable(w)' => arm.epoch = epoch.n /\ ~Halted
  /\ Quiet(w)' => Quiet(w) \/ arm'.state # "UNUSED"
  /\ Released(w)'

\* A step of w that leaves the permit alone or revokes it.
LEMMA LocalKeeps ==
  ASSUME IInv, NEW w \in Callers, Frame(w), Owes(w),
         epoch' = epoch, arms' = arms, arm' \in {arm, revoked(arm)},
         att'[w] \in {att[w], 0}, held'[w] \in 0..epoch.n, perm'[w] \in {perm[w], arm, NoArm}
  PROVE  IInv'
<1>r. /\ arm'.nonce = arm.nonce /\ arm'.epoch = arm.epoch
      /\ arm'.state = "CLAIMED" <=> arm.state = "CLAIMED"
      /\ arm' = arm \/ arm'.state # "UNUSED"
  BY RevokedFacts DEF IInv
<1>1. Domains'
  BY DEF Frame
<1>2. Counters'
  <2>1. arm'.state = "UNUSED" => arm'.active
    BY <1>r DEF IInv, Counters
  <2>2. perm'[w].nonce \in 0..arms
    BY DEF IInv, Counters, NoArm
  <2> QED
    BY <1>r, <2>1, <2>2 DEF IInv, Counters, Frame
<1>3. Monitor'
  <2>1. \A u \in Callers \ {w} : Arming(u)' <=> Arming(u)
    BY DEF Arming, Frame
  <2> QED
    BY <2>1 DEF Monitor, IInv, Owes
<1>4. OwnPermit' /\ SingleAttempt'
  BY <1>r DEF IInv, OwnPermit, SingleAttempt, InFlight, Frame
<1>5. NoAttemptSurvivesResume'
  BY <1>r DEF IInv, NoAttemptSurvivesResume, Halted
<1>6. CallerInv(w)'
  <2>1. Judged(w)'
    <3> SUFFICES ASSUME pc'[w] = "claim", Claimable(w)'
                 PROVE  (~Halted => perm'[w].epoch = epoch.n) /\ \A u \in Callers : ~Quiet(u)'
      BY DEF Judged, Halted
    <3>1. arm.epoch = epoch.n /\ ~Halted
      BY DEF Owes
    <3> QED
      BY <3>1, <1>r DEF Claimable, Quiet, Halted
  <2> QED
    BY <2>1 DEF CallerInv, Owes, Fresh
<1>7. ASSUME NEW u \in Callers \ {w} PROVE CallerInv(u)'
  <2>1. Shape(u)'
    BY DEF IInv, CallerInv, Shape, Frame
  <2>2. Fresh(u)'
    BY <1>r DEF IInv, CallerInv, Fresh, Frame, Counters, NoArm
  <2>3. Claimable(u)' => Claimable(u) /\ arm' = arm
    BY <1>r DEF Claimable, Frame
  <2>4. Judging(u)'
    BY <2>3 DEF IInv, CallerInv, Judging, Frame
  <2>5. Judged(u)'
    <3> SUFFICES ASSUME pc'[u] = "claim", Claimable(u)'
                 PROVE  (~Halted => perm'[u].epoch = epoch.n) /\ \A v \in Callers : ~Quiet(v)'
      BY DEF Judged, Halted
    <3>1. (~Halted => perm[u].epoch = epoch.n) /\ \A v \in Callers : ~Quiet(v)
      BY <2>3 DEF IInv, CallerInv, Judged, Frame
    <3>2. ~Quiet(w)'
      BY <3>1 DEF Owes, Claimable
    <3> QED
      BY <3>1, <3>2 DEF Quiet, Halted, Frame
  <2>6. Released(u)'
    BY <1>r DEF IInv, CallerInv, Released, Quiet, Halted, Frame
  <2> QED
    BY <2>1, <2>2, <2>4, <2>5, <2>6 DEF CallerInv
<1> QED
  BY <1>1, <1>2, <1>3, <1>4, <1>5, <1>6, <1>7 DEF IInv

-----------------------------------------------------------------------------
SnapFrame(w) == DOMAIN snap' = Callers /\ \A u \in Callers \ {w} : snap'[u] = snap[u]

\* Goto changes only the caller's own position.
LEMMA GotoFrame ==
  ASSUME Domains, NEW w \in Callers, NEW p, Goto(w, p), SnapFrame(w)
  PROVE  /\ Frame(w) /\ pc'[w] = p /\ stage'[w] = stage[w] /\ leg'[w] = leg[w]
         /\ perm'[w] = perm[w] /\ att'[w] = att[w] /\ held'[w] = held[w]
  BY DEF Domains, Goto, Frame, SnapFrame

\* The same for Enter, whose caller may also read a permit.
LEMMA EnterFrame ==
  ASSUME Domains, NEW w \in Callers, NEW s, NEW l, NEW p, NEW c, Enter(w, s, l, p, c), SnapFrame(w),
         DOMAIN tgt' = Callers, DOMAIN perm' = Callers,
         att' = att, held' = held, \A u \in Callers \ {w} : perm'[u] = perm[u]
  PROVE  /\ Frame(w) /\ pc'[w] = p /\ stage'[w] = s /\ leg'[w] = l
         /\ att'[w] = att[w] /\ held'[w] = held[w]
  BY DEF Domains, Enter, Frame, SnapFrame

\* The same for Return, which clears the locals.
LEMMA ReturnFrame ==
  ASSUME Domains, NEW w \in Callers, Return(w), SnapFrame(w)
  PROVE  /\ Frame(w) /\ pc'[w] = "idle" /\ stage'[w] = "none" /\ leg'[w] = 0
         /\ perm'[w] = NoArm /\ att'[w] = 0 /\ held'[w] = 0
  BY DEF Domains, Return, Frame, SnapFrame

\* A caller that only changes its position, to one that establishes nothing.
LEMMA GotoKeeps ==
  ASSUME IInv, NEW w \in Callers, NEW p, Goto(w, p), SnapFrame(w),
         epoch' = epoch, arms' = arms, arm' \in {arm, revoked(arm)},
         p \notin Checking \cup {"idle", "publish", "claim", "resumeCas"},
         p = "resumeCheck" => stage[w] = "resume",
         p \in {"armDisarm", "armGate", "install", "recheck", "armUndo", "armEnd"} => Arming(w)
  PROVE  IInv'
<1>1. /\ Frame(w) /\ pc'[w] = p /\ stage'[w] = stage[w] /\ leg'[w] = leg[w]
      /\ perm'[w] = perm[w] /\ att'[w] = att[w] /\ held'[w] = held[w]
  BY GotoFrame DEF IInv
<1>2. Shape(w)'
  BY <1>1 DEF Shape, IInv, CallerInv, Checking
<1>3. Arming(w)' => Arming(w)
  BY <1>1 DEF Arming
<1>4. Quiet(w)' => Quiet(w)
  BY <1>1 DEF Quiet, Halted
<1>5. Owes(w)
  BY <1>1, <1>2, <1>3, <1>4 DEF Owes, Judging, Released, Checking
<1> QED
  BY <1>1, <1>5, LocalKeeps DEF IInv, Counters

\* A call that returns.
LEMMA ReturnKeeps ==
  ASSUME IInv, NEW w \in Callers, Return(w), snap' = snap,
         epoch' = epoch, arms' = arms, arm' \in {arm, revoked(arm)}
  PROVE  IInv'
<1>1. /\ Frame(w) /\ pc'[w] = "idle" /\ stage'[w] = "none" /\ leg'[w] = 0
      /\ perm'[w] = NoArm /\ att'[w] = 0 /\ held'[w] = 0
  BY ReturnFrame DEF IInv, SnapFrame, Domains
<1>2. Owes(w)
  BY <1>1 DEF Owes, Shape, Checking, Arming, Judging, Released, Quiet
<1> QED
  BY <1>1, <1>2, LocalKeeps DEF IInv, Counters

\* A call that begins a check.
LEMMA EnterKeeps ==
  ASSUME IInv, NEW w \in Callers, NEW s \in Stages, NEW l \in 0..3, NEW p \in {"stop", "read"}, NEW c,
         Enter(w, s, l, p, c), snap' = snap, DOMAIN tgt' = Callers, DOMAIN perm' = Callers,
         att' = att, held' = held, \A u \in Callers \ {w} : perm'[u] = perm[u],
         perm'[w] \in {perm[w], arm},
         epoch' = epoch, arms' = arms, arm' \in {arm, revoked(arm)},
         s \in {"armBefore", "armAfter", "armStatus"} => Arming(w),
         s \in Bare => l = 1 /\ p = "read",
         s = "resume" => arm' = revoked(arm)
  PROVE  IInv'
<1>1. /\ Frame(w) /\ pc'[w] = p /\ stage'[w] = s /\ leg'[w] = l
      /\ att'[w] = att[w] /\ held'[w] = held[w]
  BY EnterFrame DEF IInv, SnapFrame, Domains
<1>2. Shape(w)'
  BY <1>1 DEF Shape, Checking
<1>3. Arming(w)' => Arming(w)
  BY <1>1 DEF Arming
<1>4. Quiet(w)' => arm'.state # "UNUSED"
  BY <1>1, RevokedFacts DEF Quiet, IInv
<1>5. Owes(w)
  BY <1>1, <1>2, <1>3, <1>4 DEF Owes, Judging, Released
<1> QED
  BY <1>1, <1>5, LocalKeeps DEF IInv, Counters

\* A check that denies.
LEMMA DenyKeeps ==
  ASSUME IInv, NEW w \in Callers, NEW r, Deny(w, r), SnapFrame(w),
         epoch' = epoch, arms' = arms, arm' \in {arm, revoked(arm)}
  PROVE  IInv'
<1>1. /\ Denied(stage[w], r) \in {"armUndo", "resumeCheck", "done", "finDisarm", "fail"}
      /\ Denied(stage[w], r) = "resumeCheck" => stage[w] = "resume"
      /\ Denied(stage[w], r) = "armUndo" => stage[w] \in {"armBefore", "armAfter"}
  BY DEF Denied
<1>2. Goto(w, Denied(stage[w], r))
  BY DEF Deny
<1>3. PICK p : p = Denied(stage[w], r)
  OBVIOUS
<1> QED
  BY <1>1, <1>2, <1>3, GotoKeeps DEF Checking, Arming

\* A check that passes; for the one inside claim the permit has been judged.
LEMMA PassKeeps ==
  ASSUME IInv, NEW w \in Callers, Pass(w), SnapFrame(w), pc[w] \in Checking,
         epoch' = epoch, arms' = arms, arm' = arm,
         stage[w] # "claim" => snap' = snap \/ stage[w] \in Bare,
         stage[w] = "claim" /\ Claimable(w) => arm.epoch = epoch.n /\ ~Halted
  PROVE  IInv'
<1>s. stage[w] \in Stages
  BY DEF IInv, CallerInv, Shape
<1>1. CASE stage[w] \in DOMAIN Chain
  <2>1. stage[w] \notin Bare /\ stage[w] # "claim"
    BY <1>1 DEF Chain, Bare
  <2>2. /\ Chain[stage[w]] \in Stages \ (Bare \cup {"armBefore", "armAfter"})
    BY <1>1 DEF Chain, Exit, Stages, Bare
  <2>3. PICK s \in Stages : s = Chain[stage[w]]
    BY <2>2
  <2>4. PICK l \in 0..3 : l = IF stage[w] \in Dispatching THEN 1 ELSE 0
    OBVIOUS
  <2>5. Enter(w, s, l, "stop", cand[w]) /\ UNCHANGED kept
    BY <1>1, <2>3, <2>4 DEF Pass
  <2> QED
    BY <2>1, <2>2, <2>3, <2>4, <2>5, EnterKeeps DEF kept, IInv, Domains, Bare
<1>2. CASE stage[w] \notin DOMAIN Chain
  <2>1. Goto(w, Exit[stage[w]])
    BY <1>2 DEF Pass
  <2>2. stage[w] \in DOMAIN Exit
    BY <1>s, <1>2 DEF Stages
  <2>3. /\ Exit[stage[w]] \in {"install", "armEnd", "claimRead", "claim", "admit", "send", "resumeCheck", "done"}
        /\ Exit[stage[w]] \in {"install", "armEnd"} => stage[w] \in {"armBefore", "armAfter"}
        /\ Exit[stage[w]] = "resumeCheck" => stage[w] = "resume"
        /\ Exit[stage[w]] = "claim" <=> stage[w] = "claim"
    BY <2>2 DEF Exit
  <2>4. PICK p : p = Exit[stage[w]]
    OBVIOUS
  <2>5. CASE p # "claim"
    BY <2>1, <2>3, <2>4, <2>5, GotoKeeps DEF Checking, Arming
  <2>6. CASE p = "claim"
    <3>1. /\ Frame(w) /\ pc'[w] = "claim" /\ stage'[w] = "claim" /\ leg'[w] = leg[w]
          /\ perm'[w] = perm[w] /\ att'[w] = att[w] /\ held'[w] = held[w]
      BY <2>1, <2>3, <2>4, <2>6, GotoFrame DEF IInv
    <3>2. Owes(w)
      BY <3>1, <2>3, <2>4, <2>6 DEF Owes, Shape, Checking, Arming, Judging, Released, Quiet, Claimable,
         IInv, CallerInv
    <3> QED
      BY <3>1, <3>2, LocalKeeps DEF IInv, Counters
  <2> QED
    BY <2>5, <2>6
<1> QED
  BY <1>1, <1>2

\* A caller that moves on within a policy check.
LEMMA CheckKeeps ==
  ASSUME IInv, NEW w \in Callers, NEW p \in {"stop", "read", "bind", "gates"}, NEW l \in 0..3,
         pc' = [pc EXCEPT ![w] = p], DOMAIN leg' = Callers, leg'[w] = l,
         \A u \in Callers \ {w} : leg'[u] = leg[u],
         UNCHANGED <<stage, tgt, perm, att, held>>, SnapFrame(w),
         pc[w] \in Checking, stage[w] \notin Bare,
         epoch' = epoch, arms' = arms, arm' \in {arm, revoked(arm)}
  PROVE  IInv'
<1>1. /\ Frame(w) /\ pc'[w] = p /\ stage'[w] = stage[w] /\ leg'[w] = l
      /\ perm'[w] = perm[w] /\ att'[w] = att[w] /\ held'[w] = held[w]
  BY DEF IInv, Domains, Frame, SnapFrame
<1>2. Shape(w)'
  BY <1>1 DEF Shape, IInv, CallerInv, Checking
<1>3. Arming(w)' => Arming(w)
  BY <1>1 DEF Arming
<1>4. Quiet(w)' => Quiet(w)
  BY <1>1 DEF Quiet, Halted
<1>5. Owes(w)
  BY <1>1, <1>2, <1>3, <1>4 DEF Owes, Judging, Released
<1> QED
  BY <1>1, <1>5, LocalKeeps DEF IInv, Counters

\* armed() answered no.
LEMMA UnarmedKeeps ==
  ASSUME IInv, NEW w \in Callers, Unarmed(w), SnapFrame(w), pc[w] \in Checking,
         epoch' = epoch, arms' = arms, arm' \in {arm, revoked(arm)}
  PROVE  IInv'
<1>1. CASE leg[w] \in {0, 1}
  <2>1. Deny(w, "DISARMED")
    BY <1>1 DEF Unarmed
  <2>2. PICK r : r = "DISARMED"
    OBVIOUS
  <2> QED
    BY <2>1, <2>2, DenyKeeps
<1>2. CASE leg[w] \notin {0, 1}
  <2>1. stage[w] \notin Bare
    BY <1>2 DEF IInv, CallerInv, Shape
  <2>2. PICK p \in {"stop", "read", "bind", "gates"} : p = IF leg[w] = 2 THEN "read" ELSE "gates"
    OBVIOUS
  <2>3. PICK l \in 0..3 : l = 3
    OBVIOUS
  <2>4. /\ pc' = [pc EXCEPT ![w] = p] /\ leg' = [leg EXCEPT ![w] = l]
        /\ UNCHANGED <<stage, tgt, perm, att, held>>
    BY <1>2, <2>2, <2>3 DEF Unarmed
  <2> QED
    BY <2>1, <2>4, CheckKeeps DEF IInv, Domains
<1> QED
  BY <1>1, <1>2

\* armed() answered yes.
LEMMA ArmedKeeps ==
  ASSUME IInv, NEW w \in Callers, Armed(w), SnapFrame(w), pc[w] \in Checking,
         epoch' = epoch, arms' = arms, arm' = arm,
         stage[w] = "claim" /\ Claimable(w) => arm.epoch = epoch.n /\ ~Halted
  PROVE  IInv'
<1>1. CASE stage[w] \in Bare
  BY <1>1, PassKeeps DEF Armed
<1>2. CASE stage[w] \notin Bare
  <2>1. leg[w] \in 0..3
    BY DEF IInv, CallerInv, Shape
  <2>2. PICK l \in 0..3 : l = IF leg[w] < 2 THEN leg[w] + 1 ELSE leg[w]
    BY <2>1
  <2>3. PICK p : p = CASE leg[w] = 0 -> "stop" [] leg[w] = 1 -> "read"
                       [] leg[w] = 2 -> "bind" [] leg[w] = 3 -> "gates"
    OBVIOUS
  <2>4. p \in {"stop", "read", "bind", "gates"}
    BY <2>1, <2>3
  <2>5. /\ pc' = [pc EXCEPT ![w] = p] /\ leg' = [leg EXCEPT ![w] = l]
        /\ UNCHANGED <<stage, tgt, perm, att, held>>
    BY <1>2, <2>2, <2>3 DEF Armed
  <2> QED
    BY <1>2, <2>4, <2>5, CheckKeeps DEF IInv, Domains
<1> QED
  BY <1>1, <1>2

-----------------------------------------------------------------------------
\* The steps of a policy check.
LEMMA CheckingKeeps ==
  ASSUME IInv, NEW w \in Callers,
         checkStop(w) \/ armedRead(w) \/ armedJudge(w) \/ bindingReason(w) \/ inspectGates(w)
  PROVE  IInv'
<1>d. Domains /\ Shape(w)
  BY DEF IInv, CallerInv
<1>s. snap' = snap => SnapFrame(w)
  BY <1>d DEF SnapFrame, Domains
<1>1. CASE checkStop(w)
  <2>1. /\ pc[w] = "stop" /\ stage[w] \notin Bare /\ SnapFrame(w)
        /\ epoch' = epoch /\ arms' = arms /\ arm' = arm
    BY <1>1, <1>d, <1>s DEF checkStop, latches, Shape, Checking
  <2>2. CASE Deny(w, "EMERGENCY_STOP")
    <3>1. PICK r : r = "EMERGENCY_STOP"
      OBVIOUS
    <3> QED
      BY <2>1, <2>2, <3>1, DenyKeeps
  <2>3. CASE Deny(w, "DENIED")
    <3>1. PICK r : r = "DENIED"
      OBVIOUS
    <3> QED
      BY <2>1, <2>3, <3>1, DenyKeeps
  <2>4. CASE Goto(w, "read")
    <3>1. PICK l \in 0..3 : l = leg[w]
      BY <1>d DEF Shape
    <3>2. PICK p \in {"stop", "read", "bind", "gates"} : p = "read"
      OBVIOUS
    <3> QED
      BY <2>1, <2>4, <3>1, <3>2, <1>d, CheckKeeps DEF Goto, Checking, Domains
  <2> QED
    BY <1>1, <2>2, <2>3, <2>4 DEF checkStop
<1>2. CASE armedRead(w)
  <2>1. /\ pc[w] = "read" /\ epoch' = epoch /\ arms' = arms /\ arm' = arm
    BY <1>2 DEF armedRead, latches
  <2>2. CASE snap' = [snap EXCEPT ![w] = arm] /\ Goto(w, "judge")
    <3>1. SnapFrame(w) /\ snap'[w] = arm
      BY <2>2, <1>d DEF SnapFrame, Domains
    <3>2. /\ Frame(w) /\ pc'[w] = "judge" /\ stage'[w] = stage[w] /\ leg'[w] = leg[w]
          /\ perm'[w] = perm[w] /\ att'[w] = att[w] /\ held'[w] = held[w]
      BY <2>2, <3>1, <1>d, GotoFrame
    <3>3. Shape(w)'
      BY <3>2, <1>d, <2>1 DEF Shape, Checking
    <3>4. Owes(w)
      BY <3>1, <3>2, <3>3, <2>1 DEF Owes, Arming, Judging, Claimable, Quiet, Halted, Released
    <3> QED
      BY <2>1, <3>2, <3>4, LocalKeeps DEF IInv, Counters
  <2>3. CASE Unarmed(w) /\ snap' = snap
    BY <2>1, <2>3, <1>s, UnarmedKeeps DEF Checking
  <2> QED
    BY <1>2, <2>2, <2>3 DEF armedRead
<1>3. CASE armedJudge(w)
  <2>1. /\ pc[w] = "judge" /\ epoch' = epoch /\ arms' = arms /\ SnapFrame(w)
        /\ arm' \in {arm, revoked(arm)}
    BY <1>3, <1>d DEF armedJudge, SnapFrame, Domains
  <2>2. CASE usable(snap[w]) /\ Armed(w) /\ arm' = arm
    <3>1. stage[w] = "claim" /\ Claimable(w) => arm.epoch = epoch.n /\ ~Halted
      BY <2>1, <2>2 DEF IInv, CallerInv, Judging, Claimable, usable, runningAt, Halted
    <3> QED
      BY <2>1, <2>2, <3>1, ArmedKeeps DEF Checking
  <2>3. CASE Unarmed(w)
    BY <2>1, <2>3, UnarmedKeeps DEF Checking
  <2> QED
    BY <1>3, <2>2, <2>3 DEF armedJudge
<1>4. CASE bindingReason(w)
  <2>1. /\ pc[w] = "bind" /\ stage[w] \notin Bare /\ SnapFrame(w)
        /\ epoch' = epoch /\ arms' = arms /\ arm' = arm
    BY <1>4, <1>d, <1>s DEF bindingReason, latches, Shape, Checking
  <2>2. PICK p \in {"stop", "read", "bind", "gates"}, l \in 0..3 : p = "read" /\ l = 3
    OBVIOUS
  <2>3. /\ pc' = [pc EXCEPT ![w] = p] /\ leg' = [leg EXCEPT ![w] = l]
        /\ UNCHANGED <<stage, tgt, perm, att, held>>
    BY <1>4, <2>2 DEF bindingReason
  <2> QED
    BY <2>1, <2>3, <1>d, CheckKeeps DEF Checking, Domains
<1>5. CASE inspectGates(w)
  <2>1. /\ pc[w] = "gates" /\ stage[w] \notin Bare /\ SnapFrame(w) /\ snap' = snap
        /\ epoch' = epoch /\ arms' = arms /\ arm' = arm
    BY <1>5, <1>d, <1>s DEF inspectGates, latches, Shape, Checking
  <2>2. CASE Pass(w)
    BY <2>1, <2>2, PassKeeps DEF Checking, Bare
  <2>3. CASE \E r : Deny(w, r)
    <3>1. PICK r : Deny(w, r)
      BY <2>3
    <3> QED
      BY <2>1, <3>1, DenyKeeps
  <2> QED
    BY <1>5, <2>2, <2>3 DEF inspectGates
<1> QED
  BY <1>1, <1>2, <1>3, <1>4, <1>5

-----------------------------------------------------------------------------
\* A HALT begins a new epoch, which no operator has confirmed a resumption of.
LEMMA haltBeginKeeps ==
  ASSUME IInv, NEW w \in Callers, haltBegin(w)
  PROVE  IInv'
<1>h. /\ epoch' = [n |-> epoch.n + 1, state |-> "HALTED"]
      /\ pc[w] = "idle" /\ Goto(w, "haltDisarm") /\ snap' = snap /\ arm' = arm /\ arms' = arms
  BY DEF haltBegin, Call
<1>f. /\ Frame(w) /\ pc'[w] = "haltDisarm" /\ stage'[w] = stage[w] /\ leg'[w] = leg[w]
      /\ perm'[w] = perm[w] /\ att'[w] = att[w] /\ held'[w] = held[w]
  BY <1>h, GotoFrame DEF IInv, SnapFrame, Domains
<1>c. Counters /\ Halted' /\ epoch'.n = epoch.n + 1
  BY <1>h DEF IInv, Halted
<1>q. \A u \in Callers : ~Quiet(u)'
  BY <1>f, <1>c DEF Quiet, Counters, Frame
<1>1. Counters'
  BY <1>f, <1>c, <1>h DEF Counters, Frame
<1>2. Monitor'
  <2>1. \A u \in Callers : Arming(u)' => Arming(u)
    BY <1>f, <1>h DEF Arming, Frame
  <2> QED
    BY <2>1 DEF Monitor, IInv
<1>3. OwnPermit' /\ SingleAttempt' /\ NoAttemptSurvivesResume'
  BY <1>f, <1>h, <1>c DEF IInv, OwnPermit, SingleAttempt, NoAttemptSurvivesResume, InFlight, Frame
<1>4. ASSUME NEW u \in Callers PROVE CallerInv(u)'
  <2>1. Shape(u)'
    BY <1>f DEF IInv, CallerInv, Shape, Frame, Checking
  <2>2. Fresh(u)' /\ Judging(u)'
    BY <1>f, <1>h DEF IInv, CallerInv, Fresh, Judging, Claimable, Frame
  <2>3. Judged(u)' /\ Released(u)'
    BY <1>q, <1>c DEF Judged, Released
  <2> QED
    BY <2>1, <2>2, <2>3 DEF CallerInv
<1> QED
  BY <1>f, <1>1, <1>2, <1>3, <1>4 DEF IInv, Frame

\* A resumption that counts finds no permit claimed and none that could be.
LEMMA resumeCasKeeps ==
  ASSUME IInv, NEW w \in Callers, resumeCas(w)
  PROVE  IInv'
<1>h. pc[w] = "resumeCas" /\ Return(w) /\ snap' = snap /\ arm' = arm /\ arms' = arms
  BY DEF resumeCas
<1>1. CASE epoch' = epoch
  BY <1>h, <1>1, ReturnKeeps
<1>2. CASE Halted /\ epoch.n = held[w] /\ epoch' = [n |-> epoch.n + 1, state |-> "RUNNING"]
  <2>f. /\ Frame(w) /\ pc'[w] = "idle" /\ stage'[w] = "none" /\ leg'[w] = 0
        /\ perm'[w] = NoArm /\ att'[w] = 0 /\ held'[w] = 0
    BY <1>h, ReturnFrame DEF IInv, SnapFrame, Domains
  <2>q. Quiet(w) /\ arm.state # "CLAIMED"
    BY <1>h, <1>2 DEF IInv, CallerInv, Shape, Released, Quiet
  <2>c. Counters /\ ~Halted' /\ epoch'.n = epoch.n + 1
    BY <1>2 DEF IInv, Halted
  <2>1. Counters'
    BY <2>f, <2>c, <1>h DEF Counters, Frame, NoArm
  <2>2. Monitor'
    <3>1. \A u \in Callers : Arming(u)' => Arming(u)
      BY <2>f DEF Arming, Frame
    <3> QED
      BY <3>1 DEF Monitor, IInv
  <2>3. OwnPermit' /\ SingleAttempt' /\ NoAttemptSurvivesResume'
    BY <2>f, <1>h, <2>q DEF IInv, OwnPermit, SingleAttempt, NoAttemptSurvivesResume, InFlight, Frame
  <2>4. ASSUME NEW u \in Callers PROVE CallerInv(u)'
    <3>1. Shape(u)'
      BY <2>f DEF IInv, CallerInv, Shape, Frame, Checking
    <3>2. Fresh(u)'
      BY <2>f, <1>h DEF IInv, CallerInv, Fresh, Frame, NoArm, Counters
    <3>3. Judging(u)'
      BY <2>f, <1>h DEF IInv, CallerInv, Judging, Claimable, Frame
    <3>4. Judged(u)'
      BY <2>f, <1>h, <2>q DEF IInv, CallerInv, Judged, Claimable, Frame
    <3>5. Released(u)'
      BY <2>q, <1>h DEF Released
    <3> QED
      BY <3>1, <3>2, <3>3, <3>4, <3>5 DEF CallerInv
  <2> QED
    BY <2>f, <2>1, <2>2, <2>3, <2>4 DEF IInv, Frame
<1> QED
  BY <1>1, <1>2 DEF resumeCas

\* The other steps of halt, disarm, status and resume.
LEMMA ControlKeeps ==
  ASSUME IInv, NEW w \in Callers,
         haltDisarm(w) \/ disarmCall(w) \/ statusBegin(w) \/ prepareResume(w)
         \/ resumeDisarm(w) \/ resumeCheck(w) \/ done(w)
  PROVE  IInv'
<1>d. Domains /\ Shape(w) /\ (snap' = snap => SnapFrame(w))
  BY DEF IInv, CallerInv, SnapFrame, Domains
<1>1. CASE haltDisarm(w)
  BY <1>1, ReturnKeeps DEF haltDisarm, disarm
<1>2. CASE done(w)
  BY <1>2, ReturnKeeps DEF done, latches
<1>3. CASE disarmCall(w)
  <2>1. PICK p : p = "done"
    OBVIOUS
  <2> QED
    BY <1>3, <1>d, <2>1, GotoKeeps DEF disarmCall, Call, disarm, Checking
<1>4. CASE statusBegin(w)
  <2>1. PICK s \in Stages, l \in 0..3, p \in {"stop", "read"} : s = "status" /\ l = 1 /\ p = "read"
    BY DEF Stages, Exit
  <2>2. Enter(w, s, l, p, NoRow) /\ snap' = snap /\ tgt' = tgt /\ perm' = perm /\ att' = att
        /\ held' = held /\ epoch' = epoch /\ arms' = arms /\ arm' = arm
    BY <1>4, <2>1 DEF statusBegin, latches
  <2> QED
    BY <1>d, <2>1, <2>2, EnterKeeps DEF Domains
<1>5. CASE prepareResume(w)
  <2>1. /\ Frame(w) /\ pc[w] = "idle" /\ pc'[w] = "resumeAsk" /\ stage'[w] = stage[w] /\ leg'[w] = leg[w]
        /\ perm'[w] = perm[w] /\ att'[w] = att[w] /\ held'[w] = epoch.n
        /\ epoch' = epoch /\ arms' = arms /\ arm' = arm
    BY <1>5, <1>d DEF prepareResume, Frame, Domains, latches
  <2>2. stage[w] = "none"
    BY <2>1, <1>d DEF Shape
  <2>3. Owes(w)
    BY <2>1, <2>2, <1>d DEF Owes, Shape, Checking, Arming, Judging, Released, Quiet
  <2> QED
    BY <2>1, <2>3, LocalKeeps DEF IInv, Counters
<1>6. CASE resumeDisarm(w)
  <2>0. snap' = snap /\ epoch' = epoch /\ arms' = arms /\ arm' = revoked(arm)
    BY <1>6 DEF resumeDisarm, disarm
  <2>1. CASE Goto(w, "done")
    <3>1. PICK p : p = "done"
      OBVIOUS
    <3> QED
      BY <2>0, <2>1, <1>d, <3>1, GotoKeeps DEF Checking
  <2>2. CASE Enter(w, "resume", 1, "read", NoRow) /\ UNCHANGED kept
    <3>1. PICK s \in Stages, l \in 0..3, p \in {"stop", "read"} : s = "resume" /\ l = 1 /\ p = "read"
      BY DEF Stages, Exit
    <3>2. Enter(w, s, l, p, NoRow) /\ tgt' = tgt /\ perm' = perm /\ att' = att /\ held' = held
      BY <2>2, <3>1 DEF kept
    <3> QED
      BY <1>d, <2>0, <3>1, <3>2, EnterKeeps DEF Domains
  <2> QED
    BY <1>6, <2>1, <2>2 DEF resumeDisarm
<1>7. CASE resumeCheck(w)
  <2>0. /\ snap' = snap /\ epoch' = epoch /\ arms' = arms /\ arm' = arm /\ pc[w] = "resumeCheck"
        /\ stage[w] = "resume"
    BY <1>7, <1>d DEF resumeCheck, latches, Shape
  <2>1. CASE Goto(w, "done")
    <3>1. PICK p : p = "done"
      OBVIOUS
    <3> QED
      BY <2>0, <2>1, <1>d, <3>1, GotoKeeps DEF Checking
  <2>2. CASE arm.state # "CLAIMED" /\ Goto(w, "resumeCas")
    <3>1. /\ Frame(w) /\ pc'[w] = "resumeCas" /\ stage'[w] = stage[w] /\ leg'[w] = leg[w]
          /\ perm'[w] = perm[w] /\ att'[w] = att[w] /\ held'[w] = held[w]
      BY <2>0, <2>2, <1>d, GotoFrame
    <3>2. Owes(w)
      BY <3>1, <2>0, <2>2, <1>d DEF Owes, Shape, Checking, Arming, Judging, Released, Quiet, Halted
    <3> QED
      BY <2>0, <3>1, <3>2, LocalKeeps DEF IInv, Counters
  <2> QED
    BY <1>7, <2>1, <2>2 DEF resumeCheck
<1> QED
  BY <1>1, <1>2, <1>3, <1>4, <1>5, <1>6, <1>7

-----------------------------------------------------------------------------
\* A permit is made with a nonce above all the others, by the only caller inside arm.
LEMMA installKeeps ==
  ASSUME IInv, NEW w \in Callers, install(w)
  PROVE  IInv'
<1>d. Domains /\ Counters /\ Shape(w) /\ pc[w] = "install" /\ Arming(w)
  BY DEF IInv, CallerInv, install, Arming
<1>1. CASE Goto(w, "armUndo") /\ arms' = arms
  <2>1. PICK p : p = "armUndo"
    OBVIOUS
  <2>2. SnapFrame(w) /\ epoch' = epoch /\ arm' = arm
    BY <1>d DEF install, SnapFrame, Domains
  <2> QED
    BY <1>1, <1>d, <2>1, <2>2, GotoKeeps DEF Checking
<1>2. CASE pc' = [pc EXCEPT ![w] = "publish"] /\ arms' = arms + 1
  <2>0. PICK new : new = [nonce |-> arms + 1, order |-> tgt[w], version |-> cand[w].version,
                          session |-> session, epoch |-> held[w], state |-> "UNUSED", active |-> TRUE]
    OBVIOUS
  <2>1. /\ perm' = [perm EXCEPT ![w] = new]
        /\ new.nonce = arms + 1 /\ new.state = "UNUSED" /\ new.active
    BY <1>2, <1>d, <2>0 DEF install, Goto, Counters
  <2>f. /\ Frame(w) /\ pc'[w] = "publish" /\ stage'[w] = stage[w] /\ leg'[w] = leg[w]
        /\ perm'[w] = new /\ att'[w] = att[w] /\ held'[w] = held[w]
        /\ epoch' = epoch /\ arm' = arm
    BY <1>2, <1>d, <2>1 DEF install, Frame, Domains, Goto
  <2>o. \A u \in Callers \ {w} : ~Arming(u) /\ pc[u] # "publish"
    BY <1>d DEF IInv, Monitor, Arming
  <2>2. Counters'
    BY <1>d, <1>2, <2>1, <2>f DEF Counters, Frame
  <2>3. Monitor'
    <3>1. \A u \in Callers \ {w} : ~Arming(u)'
      BY <2>o, <2>f DEF Arming, Frame
    <3> QED
      BY <3>1 DEF Monitor
  <2>4. OwnPermit' /\ SingleAttempt' /\ NoAttemptSurvivesResume'
    BY <2>f DEF IInv, OwnPermit, SingleAttempt, NoAttemptSurvivesResume, InFlight, Frame, Halted
  <2>5. CallerInv(w)'
    <3>1. Shape(w)'
      BY <1>d, <2>f DEF Shape, Checking
    <3>2. Fresh(w)'
      BY <1>d, <2>1, <2>f DEF Fresh, Counters, Frame
    <3> QED
      BY <3>1, <3>2, <2>f DEF CallerInv, Judging, Judged, Released
  <2>6. ASSUME NEW u \in Callers \ {w} PROVE CallerInv(u)'
    <3>1. Shape(u)' /\ Fresh(u)' /\ Judging(u)'
      BY <2>f, <2>o DEF IInv, CallerInv, Shape, Fresh, Judging, Claimable, Frame, Checking
    <3>2. \A v \in Callers : Quiet(v)' <=> Quiet(v)
      BY <2>f DEF Quiet, Halted, Frame
    <3>3. Judged(u)' /\ Released(u)'
      BY <2>f, <3>2 DEF IInv, CallerInv, Judged, Released, Claimable, Halted, Frame
    <3> QED
      BY <3>1, <3>3 DEF CallerInv
  <2> QED
    BY <2>f, <2>2, <2>3, <2>4, <2>5, <2>6 DEF IInv, Frame
<1> QED
  BY <1>1, <1>2 DEF install

\* A published permit is one that nobody has read, and it replaces no claim.
LEMMA publishKeeps ==
  ASSUME IInv, NEW w \in Callers, publish(w)
  PROVE  IInv'
<1>d. Domains /\ Counters /\ Shape(w) /\ pc[w] = "publish" /\ Arming(w) /\ Fresh(w)
  BY DEF IInv, CallerInv, publish, Arming
<1>e. SnapFrame(w) /\ epoch' = epoch /\ arms' = arms
  BY <1>d DEF publish, SnapFrame, Domains
<1>1. CASE Goto(w, "armUndo") /\ arm' = arm
  <2>1. PICK p : p = "armUndo"
    OBVIOUS
  <2> QED
    BY <1>1, <1>d, <1>e, <2>1, GotoKeeps DEF Checking
<1>2. CASE arm.state # "CLAIMED" /\ arm' = perm[w] /\ Goto(w, "recheck")
  <2>f. /\ Frame(w) /\ pc'[w] = "recheck" /\ stage'[w] = stage[w] /\ leg'[w] = leg[w]
        /\ perm'[w] = perm[w] /\ att'[w] = att[w] /\ held'[w] = held[w]
    BY <1>2, <1>d, <1>e, GotoFrame
  <2>o. \A u \in Callers \ {w} : ~Arming(u) /\ pc[u] # "publish"
    BY <1>d DEF IInv, Monitor, Arming
  <2>a. arm'.state = "UNUSED" /\ arm'.active /\ arm'.nonce \in 0..arms
    BY <1>2, <1>d DEF Fresh, Counters
  <2>c. \A u \in Callers \ {w} : ~Claimable(u)'
    BY <1>2, <1>d, <2>f DEF Fresh, Claimable, Frame, Counters
  <2>1. Counters'
    BY <1>d, <1>e, <2>a, <2>f DEF Counters, Frame
  <2>2. Monitor'
    <3>1. \A u \in Callers \ {w} : ~Arming(u)'
      BY <2>o, <2>f DEF Arming, Frame
    <3> QED
      BY <3>1 DEF Monitor
  <2>3. OwnPermit' /\ SingleAttempt' /\ NoAttemptSurvivesResume'
    BY <1>2, <2>f, <2>a DEF IInv, OwnPermit, SingleAttempt, NoAttemptSurvivesResume, InFlight, Frame
  <2>4. CallerInv(w)'
    <3>1. Shape(w)'
      BY <1>d, <2>f DEF Shape, Checking
    <3> QED
      BY <3>1, <2>f DEF CallerInv, Fresh, Judging, Judged, Released
  <2>5. ASSUME NEW u \in Callers \ {w} PROVE CallerInv(u)'
    <3>1. Shape(u)'
      BY <2>f DEF IInv, CallerInv, Shape, Frame, Checking
    <3> QED
      BY <3>1, <2>f, <2>o, <2>c, <2>a DEF CallerInv, Fresh, Judging, Judged, Released, Frame
  <2> QED
    BY <2>f, <2>1, <2>2, <2>3, <2>4, <2>5 DEF IInv, Frame
<1> QED
  BY <1>1, <1>2 DEF publish

\* The other steps of arm.
LEMMA ArmKeeps ==
  ASSUME IInv, NEW w \in Callers,
         (\E o \in Orders : armBegin(w, o)) \/ armDisarm(w) \/ armGate(w) \/ recheck(w)
         \/ armUndo(w) \/ armEnd(w)
  PROVE  IInv'
<1>d. Domains /\ Shape(w) /\ (snap' = snap => SnapFrame(w))
  BY DEF IInv, CallerInv, SnapFrame, Domains
<1>u. ASSUME Goto(w, "armUndo"), Arming(w), snap' = snap, epoch' = epoch, arms' = arms, arm' = arm
      PROVE  IInv'
  <2>1. PICK p : p = "armUndo"
    OBVIOUS
  <2> QED
    BY <1>u, <1>d, <2>1, GotoKeeps DEF Checking
<1>t. ASSUME Enter(w, "armStatus", 1, "read", NoRow), Arming(w), UNCHANGED kept, snap' = snap,
             epoch' = epoch, arms' = arms, arm' \in {arm, revoked(arm)}
      PROVE  IInv'
  <2>1. PICK s \in Stages, l \in 0..3, p \in {"stop", "read"} : s = "armStatus" /\ l = 1 /\ p = "read"
    BY DEF Stages, Exit
  <2>2. Enter(w, s, l, p, NoRow) /\ tgt' = tgt /\ perm' = perm /\ att' = att /\ held' = held
    BY <1>t, <2>1 DEF kept
  <2> QED
    BY <1>d, <1>t, <2>1, <2>2, EnterKeeps DEF Domains
<1>p. ASSUME NEW s \in {"armBefore", "armAfter"}, Enter(w, s, 2, "read", row[tgt[w]]), Arming(w),
             UNCHANGED kept, snap' = snap, epoch' = epoch, arms' = arms, arm' = arm
      PROVE  IInv'
  <2>1. PICK l \in 0..3, p \in {"stop", "read"} : l = 2 /\ p = "read"
    OBVIOUS
  <2>2. s \in Stages /\ s \notin Bare
    BY DEF Stages, Exit, Bare
  <2>3. Enter(w, s, l, p, row[tgt[w]]) /\ tgt' = tgt /\ perm' = perm /\ att' = att /\ held' = held
    BY <1>p, <2>1 DEF kept
  <2> QED
    BY <1>d, <1>p, <2>1, <2>2, <2>3, EnterKeeps DEF Domains
<1>1. CASE \E o \in Orders : armBegin(w, o)
  <2>1. /\ Frame(w) /\ pc[w] = "idle" /\ pc'[w] = "armDisarm" /\ stage'[w] = stage[w] /\ leg'[w] = leg[w]
        /\ perm'[w] = perm[w] /\ att'[w] = att[w] /\ held'[w] = epoch.n
        /\ epoch' = epoch /\ arms' = arms /\ arm' = arm /\ \A u \in Callers : ~Arming(u)
    BY <1>1, <1>d DEF armBegin, Frame, Domains, latches
  <2>2. stage[w] = "none"
    BY <2>1, <1>d DEF Shape
  <2>3. Owes(w)
    BY <2>1, <2>2, <1>d DEF Owes, Shape, Checking, Judging, Released, Quiet
  <2> QED
    BY <2>1, <2>3, LocalKeeps DEF IInv, Counters
<1>2. CASE armDisarm(w)
  <2>1. PICK p : p = "armGate"
    OBVIOUS
  <2> QED
    BY <1>2, <1>d, <2>1, GotoKeeps DEF armDisarm, disarm, Arming, Checking
<1>3. CASE armGate(w)
  BY <1>3, <1>u, <1>p DEF armGate, Arming, latches
<1>4. CASE recheck(w)
  BY <1>4, <1>u, <1>p DEF recheck, Arming, latches
<1>5. CASE armUndo(w)
  BY <1>5, <1>t DEF armUndo, disarm, Arming
<1>6. CASE armEnd(w)
  BY <1>6, <1>u, <1>t DEF armEnd, Arming, latches
<1> QED
  BY <1>1, <1>2, <1>3, <1>4, <1>5, <1>6

-----------------------------------------------------------------------------
\* A claim that succeeds takes a permit that no HALT has touched since armed().
LEMMA claimKeeps ==
  ASSUME IInv, NEW w \in Callers, claim(w)
  PROVE  IInv'
<1>d. Domains /\ Counters /\ Shape(w) /\ Judged(w) /\ pc[w] = "claim" /\ stage[w] = "claim"
  BY DEF IInv, CallerInv, Shape, claim
<1>e. snap' = snap /\ epoch' = epoch /\ arms' = arms
  BY DEF claim
<1>1. CASE Goto(w, "finDisarm") /\ arm' = arm
  <2>1. PICK p : p = "finDisarm"
    OBVIOUS
  <2> QED
    BY <1>1, <1>d, <1>e, <2>1, GotoKeeps DEF Checking, SnapFrame, Domains
<1>2. CASE /\ perm[w].state = "UNUSED" /\ arm = perm[w]
           /\ arm' = change(arm, "CLAIMED", TRUE)
           /\ att' = [att EXCEPT ![w] = arm.nonce]
           /\ Enter(w, "evaluate", 1, "stop", row[tgt[w]])
           /\ UNCHANGED <<tgt, perm, held>>
  <2>f. /\ Frame(w) /\ pc'[w] = "stop" /\ stage'[w] = "evaluate" /\ leg'[w] = 1
        /\ perm' = perm /\ held' = held /\ att'[w] = arm.nonce
    BY <1>2, <1>d, <1>e DEF Enter, Frame, Domains
  <2>a. arm'.state = "CLAIMED" /\ arm'.nonce = arm.nonce /\ arm'.epoch = arm.epoch
    BY <1>2 DEF change
  <2>q. Claimable(w) /\ (~Halted => arm.epoch = epoch.n) /\ \A u \in Callers : ~Quiet(u)
    BY <1>2, <1>d DEF Judged, Claimable
  <2>o. \A u \in Callers \ {w} : ~InFlight(u)'
    BY <1>2, <2>f DEF IInv, OwnPermit, InFlight, Frame
  <2>1. Counters'
    BY <1>d, <1>e, <2>a, <2>f DEF Counters
  <2>2. Monitor'
    <3>1. \A u \in Callers : Arming(u)' => Arming(u)
      BY <2>f DEF Arming, Frame
    <3> QED
      BY <3>1 DEF Monitor, IInv
  <2>3. OwnPermit' /\ SingleAttempt'
    BY <2>a, <2>f, <2>o DEF OwnPermit, SingleAttempt, InFlight
  <2>4. NoAttemptSurvivesResume'
    BY <2>a, <2>q, <1>e DEF NoAttemptSurvivesResume, Halted
  <2>5. \A u \in Callers : ~Quiet(u)'
    BY <2>q, <2>f, <1>e DEF Quiet, Halted, Frame
  <2>6. ASSUME NEW u \in Callers PROVE CallerInv(u)'
    <3>1. Shape(u)'
      <4>1. CASE u = w
        BY <4>1, <2>f DEF Shape, Checking, Stages, Chain, Bare
      <4>2. CASE u # w
        BY <4>2, <2>f DEF IInv, CallerInv, Shape, Frame, Checking
      <4> QED
        BY <4>1, <4>2
    <3>2. Fresh(u)'
      BY <2>f, <2>a DEF IInv, CallerInv, Fresh, Frame
    <3> QED
      BY <3>1, <3>2, <2>5, <2>a DEF CallerInv, Judging, Judged, Released, Claimable
  <2> QED
    BY <2>f, <2>1, <2>2, <2>3, <2>4, <2>6 DEF IInv, Frame
<1> QED
  BY <1>1, <1>2 DEF claim

\* An attempt that ends consumes its own permit, and it was the only one.
LEMMA completeKeeps ==
  ASSUME IInv, NEW w \in Callers, complete(w)
  PROVE  IInv'
<1>d. Domains /\ Counters /\ Return(w) /\ snap' = snap /\ epoch' = epoch /\ arms' = arms
  BY DEF IInv, complete
<1>1. CASE arm' = arm
  BY <1>1, <1>d, ReturnKeeps
<1>2. CASE att[w] # 0 /\ arm' = change(arm, "CONSUMED", FALSE)
  <2>f. /\ Frame(w) /\ pc'[w] = "idle" /\ stage'[w] = "none" /\ leg'[w] = 0
        /\ perm'[w] = NoArm /\ att'[w] = 0 /\ held'[w] = 0
    BY <1>d, ReturnFrame DEF SnapFrame, Domains
  <2>a. arm'.state = "CONSUMED" /\ arm'.nonce = arm.nonce
    BY <1>2 DEF change
  <2>o. \A u \in Callers : ~InFlight(u)'
    BY <1>2, <2>f DEF IInv, SingleAttempt, InFlight, Frame
  <2>1. Counters'
    BY <1>d, <2>a, <2>f DEF Counters, Frame, NoArm
  <2>2. Monitor'
    <3>1. \A u \in Callers : Arming(u)' => Arming(u)
      BY <2>f DEF Arming, Frame
    <3> QED
      BY <3>1 DEF Monitor, IInv
  <2>3. OwnPermit' /\ SingleAttempt' /\ NoAttemptSurvivesResume'
    BY <2>a, <2>o DEF OwnPermit, SingleAttempt, NoAttemptSurvivesResume
  <2>4. ASSUME NEW u \in Callers PROVE CallerInv(u)'
    <3>1. Shape(u)'
      BY <2>f DEF IInv, CallerInv, Shape, Frame, Checking
    <3>2. Fresh(u)'
      BY <2>f, <2>a, <1>d DEF IInv, CallerInv, Fresh, Frame, NoArm, Counters
    <3> QED
      BY <3>1, <3>2, <2>a DEF CallerInv, Judging, Judged, Released, Claimable
  <2> QED
    BY <2>f, <2>1, <2>2, <2>3, <2>4 DEF IInv, Frame
<1> QED
  BY <1>1, <1>2 DEF complete

\* The other steps of execute.
LEMMA ExecuteKeeps ==
  ASSUME IInv, NEW w \in Callers,
         (\E o \in Orders : executeBegin(w, o)) \/ claimRead(w) \/ admit(w) \/ send(w)
         \/ fail(w) \/ finDisarm(w)
  PROVE  IInv'
<1>d. Domains /\ Shape(w) /\ (snap' = snap => SnapFrame(w))
  BY DEF IInv, CallerInv, SnapFrame, Domains
<1>g. ASSUME NEW p \in {"finDisarm", "complete"}, Goto(w, p), snap' = snap, epoch' = epoch, arms' = arms,
             arm' \in {arm, revoked(arm)}
      PROVE  IInv'
  BY <1>g, <1>d, GotoKeeps DEF Checking
<1>1. CASE \E o \in Orders : executeBegin(w, o)
  <2>1. PICK o \in Orders : executeBegin(w, o)
    BY <1>1
  <2>2. PICK s \in Stages, l \in 0..3, p \in {"stop", "read"}, c \in {row[o]} :
          s = "preflight" /\ l = 2 /\ p = "read"
    BY DEF Stages, Exit
  <2>3. /\ Enter(w, s, l, p, c) /\ DOMAIN tgt' = Callers /\ perm' = perm /\ att' = att /\ held' = held
        /\ snap' = snap /\ epoch' = epoch /\ arms' = arms /\ arm' = arm
    BY <2>1, <2>2, <1>d DEF executeBegin, latches, Domains
  <2> QED
    BY <1>d, <2>2, <2>3, EnterKeeps DEF Domains, Bare
<1>2. CASE claimRead(w)
  <2>1. PICK s \in Stages, l \in 0..3, p \in {"stop", "read"}, c \in {cand[w]} :
          s = "claim" /\ l = 1 /\ p = "read"
    BY DEF Stages, Exit
  <2>2. /\ Enter(w, s, l, p, c) /\ tgt' = tgt /\ perm' = [perm EXCEPT ![w] = arm]
        /\ att' = att /\ held' = held
        /\ snap' = snap /\ epoch' = epoch /\ arms' = arms /\ arm' = arm
    BY <1>2, <2>1 DEF claimRead, latches
  <2> QED
    BY <1>d, <2>1, <2>2, EnterKeeps DEF Domains
<1>3. CASE admit(w)
  <2>1. snap' = snap /\ epoch' = epoch /\ arms' = arms /\ arm' = arm
    BY <1>3 DEF admit, latches
  <2>2. CASE Enter(w, "dispatch", 1, "stop", cand[w]) /\ UNCHANGED kept
    <3>1. PICK s \in Stages, l \in 0..3, p \in {"stop", "read"} : s = "dispatch" /\ l = 1 /\ p = "stop"
      BY DEF Stages, Chain
    <3>2. Enter(w, s, l, p, cand[w]) /\ tgt' = tgt /\ perm' = perm /\ att' = att /\ held' = held
      BY <2>2, <3>1 DEF kept
    <3> QED
      BY <1>d, <2>1, <3>1, <3>2, EnterKeeps DEF Domains, Bare
  <2>3. CASE Goto(w, "finDisarm")
    BY <2>1, <2>3, <1>g
  <2> QED
    BY <1>3, <2>2, <2>3 DEF admit
<1>4. CASE send(w)
  BY <1>4, <1>g DEF send, latches
<1>5. CASE fail(w)
  BY <1>5, <1>g DEF fail, latches
<1>6. CASE finDisarm(w)
  BY <1>6, <1>g DEF finDisarm, disarm
<1> QED
  BY <1>1, <1>2, <1>3, <1>4, <1>5, <1>6

-----------------------------------------------------------------------------
\* Every step keeps the inductive invariant; logins, logouts and the clock do not
\* matter for it.
THEOREM NextKeeps == IInv /\ [Next]_vars => IInv'
<1> SUFFICES ASSUME IInv, [Next]_vars PROVE IInv'
  OBVIOUS
<1>1. CASE UNCHANGED <<epoch, arm, arms, pc, stage, leg, tgt, snap, perm, att, held>>
  BY <1>1 DEF IInv, Domains, Counters, Monitor, Arming, CallerInv, Shape, Fresh, Judging, Judged,
     Released, Claimable, Quiet, Halted, OwnPermit, SingleAttempt, NoAttemptSurvivesResume, InFlight
<1>2. ASSUME NEW w \in Callers, Begin(w) PROVE IInv'
  BY <1>2, haltBeginKeeps, ControlKeeps, ArmKeeps, ExecuteKeeps DEF Begin
<1>3. ASSUME NEW w \in Callers, Step(w) PROVE IInv'
  BY <1>3, CheckingKeeps, resumeCasKeeps, ControlKeeps, installKeeps, publishKeeps, ArmKeeps,
     claimKeeps, completeKeeps, ExecuteKeeps DEF Step
<1>4. CASE login \/ logout \/ lapse \/ \E o \in Orders : admittedElsewhere(o)
  BY <1>4, <1>1 DEF login, logout, lapse, admittedElsewhere, locals, latches
<1>5. CASE UNCHANGED vars
  BY <1>5, <1>1 DEF vars
<1> QED
  BY <1>2, <1>3, <1>4, <1>5 DEF Next

\* The inductive invariant holds in every reachable state.
THEOREM Inductive == Spec => []IInv
<1> QED
  BY InitIInv, NextKeeps, PTL DEF Spec

\* The permit of an attempt stays claimed, by the same nonce, until the attempt ends.
THEOREM PermitOwned == Spec => []OwnPermit
<1>1. IInv => OwnPermit
  BY DEF IInv
<1> QED
  BY <1>1, Inductive, PTL

\* There is never a second attempt in flight.
THEOREM OneAttempt == Spec => []SingleAttempt
<1>1. IInv => SingleAttempt
  BY DEF IInv
<1> QED
  BY <1>1, Inductive, PTL

\* No attempt survives a halt and the following resumption.
THEOREM NoneSurvives == Spec => []NoAttemptSurvivesResume
<1>1. IInv => NoAttemptSurvivesResume
  BY DEF IInv
<1> QED
  BY <1>1, Inductive, PTL

-----------------------------------------------------------------------------
\* Only halt and the compare-and-set of resume write the halt latch.
LEMMA HaltLatchWriters ==
  ASSUME NEW w \in Callers, Begin(w) \/ Step(w)
  PROVE  epoch' = epoch \/ haltBegin(w) \/ resumeCas(w)
<1>1. CASE Begin(w)
  BY <1>1 DEF Begin, disarmCall, disarm, statusBegin, prepareResume, armBegin, executeBegin, latches
<1>2. CASE checkStop(w) \/ armedRead(w) \/ armedJudge(w) \/ bindingReason(w) \/ inspectGates(w)
  BY <1>2 DEF checkStop, armedRead, armedJudge, bindingReason, inspectGates, latches
<1>3. CASE haltDisarm(w) \/ resumeDisarm(w) \/ resumeCheck(w) \/ resumeCas(w) \/ done(w)
  BY <1>3 DEF haltDisarm, resumeDisarm, disarm, resumeCheck, done, latches
<1>4. CASE armDisarm(w) \/ armGate(w) \/ install(w) \/ publish(w) \/ recheck(w) \/ armUndo(w) \/ armEnd(w)
  BY <1>4 DEF armDisarm, disarm, armGate, install, publish, recheck, armUndo, armEnd, latches
<1>5. CASE claimRead(w) \/ claim(w) \/ admit(w) \/ send(w) \/ fail(w) \/ finDisarm(w) \/ complete(w)
  BY <1>5 DEF claimRead, claim, admit, send, fail, finDisarm, disarm, complete, latches
<1> QED
  BY <1>1, <1>2, <1>3, <1>4, <1>5 DEF Step

\* Trading is resumed only from the halted epoch that the operator saw before confirming.
THEOREM ResumeSaw == Spec => ResumeSeesHalt
<1>1. ASSUME Next, Halted, ~Halted'
      PROVE  \E w \in Callers : pc[w] = "resumeCas" /\ held[w] = epoch.n
  <2>1. epoch' # epoch
    BY <1>1 DEF Halted
  <2>2. PICK w \in Callers : Begin(w) \/ Step(w)
    BY <1>1, <2>1 DEF Next, login, logout, lapse, admittedElsewhere, latches
  <2>3. haltBegin(w) \/ resumeCas(w)
    BY <2>1, <2>2, HaltLatchWriters
  <2>4. CASE haltBegin(w)
    BY <1>1, <2>4 DEF haltBegin, Halted
  <2>5. CASE resumeCas(w)
    BY <2>1, <2>5 DEF resumeCas
  <2> QED
    BY <2>3, <2>4, <2>5
<1>2. [Next]_vars => [~Halted' /\ Halted => \E w \in Callers : pc[w] = "resumeCas" /\ held[w] = epoch.n]_vars
  BY <1>1
<1> QED
  BY <1>2, PTL DEF Spec, ResumeSeesHalt

-----------------------------------------------------------------------------
(* What the last check before the request establishes *)

AttStages == {"evaluate", "precheck", "locked", "commit", "dispatch", "transport", "final"}

\* Positions of arm, resume and execute outside an attempt.
Outside == {"armDisarm", "armGate", "install", "publish", "recheck", "armUndo", "armEnd", "resumeAsk",
            "claimRead", "haltDisarm"}

Row == [state : {"NONE", "RISK_APPROVED", "SUBMITTING", "SUBMITTED", "REFUSED", "DENIED"}, version : Nat]

\* The types of the latches and the rows.
Latches ==
  /\ epoch.n \in 1..MaxEpochs /\ epoch.state \in {"HALTED", "RUNNING"}
  /\ arms \in 0..MaxArms /\ logins \in 0..MaxLogins /\ session \in 0..logins
  /\ arm \in Permit \cup {NoArm}
  /\ row \in [Orders -> Row]

\* The types of a caller's locals.
Locals(w) ==
  /\ stage[w] \in Stages \cup {"none"} /\ leg[w] \in 0..3
  /\ tgt[w] \in Orders \cup {NoOrder}
  /\ snap[w] \in Permit \cup {NoArm} /\ perm[w] \in Permit \cup {NoArm}
  /\ att[w] \in 0..arms /\ held[w] \in 0..epoch.n
  /\ began[w] \in [epoch : 0..epoch.n, session : 0..logins]
  /\ verdict[w] \in {"NONE", "DISARMED", "DENIED"}
  /\ cand[w] \in Row

\* Which positions and purposes go with an attempt, an order, and room for a new permit.
Place(w) ==
  /\ stage[w] \in AttStages <=> att[w] # 0
  /\ pc[w] \in Outside => stage[w] \notin AttStages
  /\ pc[w] = "admit" => stage[w] = "commit"
  /\ pc[w] = "fail" => stage[w] \in Dispatching
  /\ pc[w] = "send" => stage[w] = "final" /\ leg[w] = 3 /\ verdict[w] = "NONE"
  /\ pc[w] = "stop" => leg[w] \in {0, 1}
  /\ pc[w] = "bind" => leg[w] = 2
  /\ pc[w] = "gates" => leg[w] = 3
  /\ \/ pc[w] \in {"armDisarm", "armGate", "install", "publish", "recheck", "claimRead"}
     \/ stage[w] \in {"armBefore", "armAfter", "preflight", "claim"} \cup AttStages
     => tgt[w] \in Orders
  /\ \/ pc[w] \in {"armDisarm", "armGate", "install"}
     \/ stage[w] = "armBefore" /\ pc[w] \in Checking
     => arms < MaxArms

\* What an attempt knows of its permit: the order from the claim on, epoch and session
\* once armed() has passed in leg 1, the version once the binding has been compared.
Bound(w) ==
  stage[w] \in AttStages =>
    /\ arm.order = tgt[w]
    /\ arm.epoch <= began[w].epoch
    /\ session = arm.session => began[w].session = arm.session
    /\ pc[w] = "judge" => snap[w].epoch = arm.epoch /\ snap[w].session = arm.session
    /\ leg[w] >= 2 => began[w].epoch = arm.epoch /\ began[w].session = arm.session
    /\ leg[w] = 3 /\ verdict[w] = "NONE" => arm.version = cand[w].version
    /\ stage[w] \in Dispatching /\ pc[w] \in Checking \cup {"send", "fail"} =>
         row[tgt[w]] = [state |-> "SUBMITTING", version |-> cand[w].version + 1]

AInv == /\ IInv /\ Latches
        /\ DOMAIN cand = Callers /\ DOMAIN verdict = Callers /\ DOMAIN began = Callers
        /\ \A w \in Callers : Locals(w) /\ Place(w) /\ Bound(w)

-----------------------------------------------------------------------------
\* A process that has just started.
LEMMA InitAInv == Init => AInv
<1> SUFFICES ASSUME Init PROVE AInv
  OBVIOUS
<1>1. Latches
  BY MaxArmsAssumption, MaxLoginsAssumption, MaxEpochsAssumption DEF Init, Latches, Row
<1> QED
  BY <1>1, InitIInv DEF Init, AInv, Locals, Place, Bound, NoTime, NoRow, Row, AttStages, Outside, Checking

\* The permit keeps what it was made for.
SamePermit == /\ arm'.order = arm.order /\ arm'.version = arm.version
              /\ arm'.session = arm.session /\ arm'.epoch = arm.epoch

\* A revoked permit is still a permit for the same order, version, session and epoch.
LEMMA RevokedSame ==
  ASSUME arm \in Permit \cup {NoArm}, arm' \in {arm, revoked(arm)}
  PROVE  SamePermit /\ arm' \in Permit \cup {NoArm}
<1>1. CASE arm \in Permit
  <2>1. ASSUME NEW s \in {"CLAIMED", "CONSUMED"}
        PROVE  /\ change(arm, s, FALSE) \in Permit
               /\ change(arm, s, FALSE).order = arm.order /\ change(arm, s, FALSE).version = arm.version
               /\ change(arm, s, FALSE).session = arm.session /\ change(arm, s, FALSE).epoch = arm.epoch
    BY <1>1 DEF change, Permit
  <2>2. arm' = arm \/ \E s \in {"CLAIMED", "CONSUMED"} : arm' = change(arm, s, FALSE)
    BY DEF revoked
  <2> QED
    BY <1>1, <2>1, <2>2 DEF SamePermit
<1>2. CASE arm = NoArm
  <2>1. arm' = arm
    BY <1>2 DEF revoked, NoArm
  <2> QED
    BY <2>1 DEF SamePermit
<1> QED BY <1>1, <1>2

\* Only w moves, the locals of the check included.
Moves(w) ==
  /\ Frame(w)
  /\ DOMAIN cand' = Callers /\ DOMAIN verdict' = Callers /\ DOMAIN began' = Callers
  /\ \A u \in Callers \ {w} : /\ tgt'[u] = tgt[u] /\ cand'[u] = cand[u]
                              /\ verdict'[u] = verdict[u] /\ began'[u] = began[u]

\* What a step of w may do to the shared state without disturbing other callers: a new
\* permit is drawn or made visible, and a row written, only by a caller that is alone.
Apart(w) ==
  /\ UNCHANGED <<session, logins>>
  /\ epoch'.n >= epoch.n
  /\ arms' = arms \/ (arms' = arms + 1 /\ Arming(w))
  /\ SamePermit \/ \A u \in Callers \ {w} : att[u] = 0
  /\ row' = row \/ att[w] # 0

\* Identities drawn so far remain valid.
LEMMA PermitGrows ==
  ASSUME Latches, arms' \in Nat, arms' >= arms, epoch'.n \in Nat, epoch'.n >= epoch.n,
         logins' \in Nat, logins' >= logins, NEW a \in Permit \cup {NoArm}
  PROVE  a \in Permit' \cup {NoArm}
<1>1. CASE a = NoArm
  BY <1>1
<1>2. CASE a \in Permit
  <2>1. 1..arms \subseteq 1..arms' /\ 1..logins \subseteq 1..logins' /\ 1..epoch.n \subseteq 1..epoch'.n
    BY DEF Latches
  <2> QED BY <1>2, <2>1 DEF Permit
<1> QED BY <1>1, <1>2

\* A step of w that stays apart keeps every other caller's part of the invariant.
LEMMA OthersApart ==
  ASSUME AInv, Latches', NEW w \in Callers, Moves(w), Apart(w), NEW u \in Callers \ {w}
  PROVE  Locals(u)' /\ Place(u)' /\ Bound(u)'
<1>0. /\ Locals(u) /\ Place(u) /\ Bound(u) /\ Latches
      /\ pc'[u] = pc[u] /\ stage'[u] = stage[u] /\ leg'[u] = leg[u] /\ tgt'[u] = tgt[u]
      /\ snap'[u] = snap[u] /\ perm'[u] = perm[u] /\ att'[u] = att[u] /\ held'[u] = held[u]
      /\ cand'[u] = cand[u] /\ verdict'[u] = verdict[u] /\ began'[u] = began[u]
  BY DEF AInv, Moves, Frame
<1>1. /\ arms' \in Nat /\ arms' >= arms /\ epoch'.n \in Nat /\ epoch'.n >= epoch.n
      /\ logins' = logins /\ logins \in Nat /\ session' = session /\ arms \in Nat /\ epoch.n \in Nat
  BY <1>0, MaxArmsAssumption, MaxEpochsAssumption, MaxLoginsAssumption DEF Latches, Apart
<1>2. Locals(u)'
  <2>1. snap[u] \in Permit' \cup {NoArm} /\ perm[u] \in Permit' \cup {NoArm}
    BY <1>0, <1>1, PermitGrows DEF Locals
  <2>2. 0..arms \subseteq 0..arms' /\ 0..epoch.n \subseteq 0..epoch'.n
    BY <1>1
  <2>3. began[u] \in [epoch : 0..epoch'.n, session : 0..logins']
    BY <1>0, <1>1, <2>2 DEF Locals
  <2> QED
    BY <1>0, <2>1, <2>2, <2>3 DEF Locals
<1>3. Place(u)'
  <2>1. Arming(u) => arms' = arms
    BY DEF AInv, IInv, Monitor, Apart
  <2> QED
    BY <1>0, <2>1 DEF Place, Arming
<1>4. Bound(u)'
  <2>1. CASE att[u] = 0
    BY <1>0, <2>1 DEF Place, Bound
  <2>2. CASE att[u] # 0
    <3>1. SamePermit /\ row' = row
      BY <2>2 DEF AInv, IInv, SingleAttempt, InFlight, Apart
    <3> QED
      BY <1>0, <1>1, <3>1 DEF Bound, SamePermit
  <2> QED BY <2>1, <2>2
<1> QED BY <1>2, <1>3, <1>4

\* A step of w keeps the invariant when it stays apart and re-establishes its own part.
LEMMA OwnStep ==
  ASSUME AInv, IInv', Latches', NEW w \in Callers, Moves(w), Apart(w),
         Locals(w)', Place(w)', Bound(w)'
  PROVE  AInv'
<1>1. ASSUME NEW u \in Callers PROVE (Locals(u) /\ Place(u) /\ Bound(u))'
  <2>1. CASE u = w
    BY <2>1
  <2>2. CASE u # w
    BY <2>2, OthersApart
  <2> QED BY <2>1, <2>2
<1> QED
  BY <1>1 DEF AInv, Moves

-----------------------------------------------------------------------------
\* Nothing shared changes, except that the permit may be revoked.
Calm == UNCHANGED <<epoch, arms, session, logins, row>> /\ arm' \in {arm, revoked(arm)}

\* Such a step disturbs nobody.
LEMMA CalmApart ==
  ASSUME AInv, Calm, NEW w \in Callers
  PROVE  Latches' /\ Apart(w) /\ Permit' = Permit /\ SamePermit
<1>0. epoch.n \in Nat
  BY MaxEpochsAssumption DEF AInv, Latches
<1>1. Permit' = Permit
  BY DEF Calm, Permit
<1>2. SamePermit /\ arm' \in Permit \cup {NoArm}
  BY RevokedSame DEF AInv, Latches, Calm
<1> QED
  BY <1>0, <1>1, <1>2 DEF AInv, Latches, Calm, Apart

SnapOK(w) == SnapFrame(w) /\ snap'[w] \in Permit \cup {NoArm}

\* The locals that a jump leaves as they are.
Stays(w) ==
  /\ stage'[w] = stage[w] /\ leg'[w] = leg[w] /\ tgt'[w] = tgt[w] /\ perm'[w] = perm[w]
  /\ att'[w] = att[w] /\ held'[w] = held[w] /\ cand'[w] = cand[w] /\ verdict'[w] = verdict[w]
  /\ began'[w] = began[w]

\* Goto changes only the position.
LEMMA GotoMoves ==
  ASSUME AInv, NEW w \in Callers, NEW p, Goto(w, p), SnapFrame(w)
  PROVE  Moves(w) /\ pc'[w] = p /\ Stays(w)
<1>1. Frame(w) /\ pc'[w] = p
  BY GotoFrame DEF AInv, IInv
<1> QED
  BY <1>1 DEF AInv, Goto, Moves, Stays

\* Enter sets the purpose, the leg, the row and the beginning of a check.
LEMMA EnterMoves ==
  ASSUME AInv, NEW w \in Callers, NEW s, NEW l, NEW p, NEW c, Enter(w, s, l, p, c), SnapFrame(w),
         DOMAIN tgt' = Callers, DOMAIN perm' = Callers, att' = att, held' = held,
         \A u \in Callers \ {w} : perm'[u] = perm[u] /\ tgt'[u] = tgt[u]
  PROVE  /\ Moves(w) /\ pc'[w] = p /\ stage'[w] = s /\ leg'[w] = l /\ cand'[w] = c
         /\ verdict'[w] = "NONE" /\ began'[w] = [epoch |-> epoch.n, session |-> session]
         /\ att'[w] = att[w] /\ held'[w] = held[w]
<1>1. /\ Frame(w) /\ pc'[w] = p /\ stage'[w] = s /\ leg'[w] = l
      /\ att'[w] = att[w] /\ held'[w] = held[w]
  BY EnterFrame DEF AInv, IInv
<1> QED
  BY <1>1 DEF AInv, Enter, Moves

\* A caller that jumps to a position that establishes nothing about its attempt.
LEMMA GotoAInv ==
  ASSUME AInv, IInv', NEW w \in Callers, NEW p, Goto(w, p), SnapOK(w), Calm,
         p \notin Checking \cup {"send", "fail", "admit"},
         p \in Outside => stage[w] \notin AttStages,
         p \in {"armDisarm", "armGate", "install", "publish", "recheck", "claimRead"} => tgt[w] \in Orders,
         p \in {"armDisarm", "armGate", "install"} => arms < MaxArms
  PROVE  AInv'
<1>1. Moves(w) /\ pc'[w] = p /\ Stays(w)
  BY GotoMoves DEF SnapOK
<1>2. Latches' /\ Apart(w) /\ Permit' = Permit /\ SamePermit
  BY CalmApart
<1>3. Locals(w) /\ Place(w) /\ Bound(w) /\ UNCHANGED <<epoch, arms, session, logins, row>>
  BY DEF AInv, Calm
<1>4. Locals(w)'
  BY <1>1, <1>2, <1>3 DEF Locals, Stays, SnapOK
<1>5. Place(w)'
  BY <1>1, <1>3 DEF Place, Stays, Checking
<1>6. Bound(w)'
  BY <1>1, <1>2, <1>3 DEF Bound, Stays, SamePermit, Checking
<1> QED
  BY <1>1, <1>2, <1>4, <1>5, <1>6, OwnStep

\* A caller of an attempt that jumps from a check to the admission, to the request or to
\* the denial of the row it has admitted.
LEMMA LeaveAInv ==
  ASSUME AInv, IInv', NEW w \in Callers, NEW p \in {"send", "fail", "admit"}, Goto(w, p), SnapOK(w), Calm,
         pc[w] \in Checking,
         p = "admit" => stage[w] = "commit",
         p = "fail" => stage[w] \in Dispatching,
         p = "send" => stage[w] = "final" /\ leg[w] = 3 /\ verdict[w] = "NONE"
  PROVE  AInv'
<1>1. Moves(w) /\ pc'[w] = p /\ Stays(w)
  BY GotoMoves DEF SnapOK
<1>2. Latches' /\ Apart(w) /\ Permit' = Permit /\ SamePermit
  BY CalmApart
<1>3. Locals(w) /\ Place(w) /\ Bound(w) /\ UNCHANGED <<epoch, arms, session, logins, row>>
  BY DEF AInv, Calm
<1>4. Locals(w)'
  BY <1>1, <1>2, <1>3 DEF Locals, Stays, SnapOK
<1>5. Place(w)'
  BY <1>1, <1>3 DEF Place, Stays, Checking, Outside
<1>6. Bound(w)'
  BY <1>1, <1>2, <1>3 DEF Bound, Stays, SamePermit
<1> QED
  BY <1>1, <1>2, <1>4, <1>5, <1>6, OwnStep

\* A call that returns.
LEMMA ReturnAInv ==
  ASSUME AInv, IInv', NEW w \in Callers, Return(w), snap' = snap, Latches', Apart(w), arms' = arms,
         Permit \subseteq Permit'
  PROVE  AInv'
<1>0. SnapFrame(w) /\ Domains
  BY DEF SnapFrame, AInv, IInv, Domains
<1>1. Moves(w) /\ pc'[w] = "idle" /\ stage'[w] = "none" /\ att'[w] = 0 /\ tgt'[w] = NoOrder
      /\ leg'[w] = 0 /\ perm'[w] = NoArm /\ held'[w] = 0 /\ cand'[w] = NoRow
      /\ verdict'[w] = "NONE" /\ began'[w] = NoTime /\ snap'[w] = snap[w]
  <2>1. Frame(w)
    BY <1>0, ReturnFrame
  <2> QED
    BY <2>1, <1>0 DEF AInv, Return, Moves, Domains
<1>2. Locals(w) /\ epoch'.n \in Nat /\ arms \in Nat /\ logins' \in Nat
  BY MaxEpochsAssumption, MaxArmsAssumption, MaxLoginsAssumption DEF AInv, Latches
<1>3. Locals(w)'
  BY <1>1, <1>2 DEF Locals, NoRow, NoTime, Row
<1>4. Place(w)' /\ Bound(w)'
  BY <1>1 DEF Place, Bound, AttStages, Outside, Checking
<1> QED
  BY <1>1, <1>3, <1>4, OwnStep

\* A caller that begins a check with the row c.
LEMMA EnterAInv ==
  ASSUME AInv, IInv', NEW w \in Callers, NEW s \in Stages, NEW l \in 0..2, NEW p \in {"stop", "read"},
         NEW c \in Row, Enter(w, s, l, p, c), snap' = snap, att' = att, held' = held,
         DOMAIN tgt' = Callers, DOMAIN perm' = Callers,
         \A u \in Callers \ {w} : perm'[u] = perm[u] /\ tgt'[u] = tgt[u],
         perm'[w] \in {perm[w], arm}, tgt'[w] \in Orders \cup {NoOrder},
         Latches', Apart(w), SamePermit, UNCHANGED <<epoch, arms>>,
         s \in AttStages <=> att[w] # 0,
         s \in AttStages => tgt'[w] = tgt[w] /\ l \in {0, 1} /\ arm.order = tgt[w],
         p = "stop" => l \in {0, 1},
         s \in {"armBefore", "armAfter", "preflight", "claim"} \cup AttStages => tgt'[w] \in Orders,
         s = "armBefore" => arms < MaxArms,
         s \in Dispatching => row'[tgt[w]] = [state |-> "SUBMITTING", version |-> c.version + 1]
  PROVE  AInv'
<1>0. SnapFrame(w) /\ Locals(w) /\ Latches
  BY DEF SnapFrame, AInv, IInv, Domains
<1>1. /\ Moves(w) /\ pc'[w] = p /\ stage'[w] = s /\ leg'[w] = l /\ cand'[w] = c
      /\ verdict'[w] = "NONE" /\ began'[w] = [epoch |-> epoch.n, session |-> session]
      /\ att'[w] = att[w] /\ held'[w] = held[w] /\ snap'[w] = snap[w]
  BY <1>0, EnterMoves
<1>2. /\ session' = session /\ logins' = logins /\ Permit' = Permit /\ epoch.n \in Nat /\ session \in 0..logins
  BY <1>0, MaxEpochsAssumption DEF Apart, Permit, Latches
<1>3. Locals(w)'
  <2>1. [epoch |-> epoch.n, session |-> session] \in [epoch : 0..epoch.n, session : 0..logins]
    BY <1>2
  <2>2. perm'[w] \in Permit \cup {NoArm}
    BY <1>0 DEF Locals, Latches
  <2> QED
    BY <1>0, <1>1, <1>2, <2>1, <2>2 DEF Locals
<1>4. Place(w)'
  BY <1>1 DEF Place, Checking, Outside
<1>5. Bound(w)'
  <2> SUFFICES ASSUME s \in AttStages PROVE Bound(w)'
    BY <1>1 DEF Bound
  <2>1. arm.nonce # 0 /\ arm.epoch <= epoch.n
    <3>1. arm.nonce = att[w] /\ att[w] # 0
      BY DEF AInv, IInv, OwnPermit, InFlight
    <3> QED
      BY <1>0, <1>2, <3>1 DEF Latches, Permit, NoArm
  <2> QED
    BY <1>1, <1>2, <2>1 DEF Bound, SamePermit
<1> QED
  BY <1>1, <1>3, <1>4, <1>5, OwnStep

-----------------------------------------------------------------------------
\* A check that denies: an attempt goes on to its end or to the denial of its row.
LEMMA DenyAInv ==
  ASSUME AInv, IInv', NEW w \in Callers, NEW r, Deny(w, r), SnapOK(w), Calm, pc[w] \in Checking
  PROVE  AInv'
<1>1. PICK p : p = Denied(stage[w], r)
  OBVIOUS
<1>2. Goto(w, p)
  BY <1>1 DEF Deny
<1>3. /\ p \in {"armUndo", "resumeCheck", "done", "finDisarm", "fail"}
      /\ p = "fail" => stage[w] \in Dispatching
      /\ p = "armUndo" => stage[w] \in {"armBefore", "armAfter"}
  BY <1>1 DEF Denied
<1>4. CASE p = "fail"
  BY <1>2, <1>3, <1>4, LeaveAInv
<1>5. CASE p # "fail"
  BY <1>2, <1>3, <1>5, GotoAInv DEF Checking, Outside, AttStages
<1> QED BY <1>4, <1>5

\* A check that passes: the next check of an attempt begins, or the caller goes on.
LEMMA PassAInv ==
  ASSUME AInv, IInv', NEW w \in Callers, Pass(w), SnapOK(w), Calm, pc[w] \in Checking,
         stage[w] \notin Bare => snap' = snap,
         stage[w] = "final" => leg[w] = 3 /\ verdict[w] = "NONE"
  PROVE  AInv'
<1>0. Locals(w) /\ Place(w) /\ Bound(w) /\ Shape(w) /\ Latches
  BY DEF AInv, IInv, CallerInv
<1>1. CASE stage[w] \in DOMAIN Chain
  <2>1. PICK s \in Stages : s = Chain[stage[w]]
    BY <1>1 DEF Chain, Exit, Stages
  <2>2. /\ s \in AttStages /\ stage[w] \in AttStages /\ stage[w] \notin Bare
        /\ s \in Dispatching => stage[w] \in Dispatching
    BY <1>1, <2>1 DEF Chain, AttStages, Bare, Dispatching
  <2>3. PICK l \in 0..2 : l = IF stage[w] \in Dispatching THEN 1 ELSE 0
    OBVIOUS
  <2>4. PICK c \in Row : c = cand[w]
    BY <1>0 DEF Locals
  <2>5. PICK p \in {"stop", "read"} : p = "stop"
    OBVIOUS
  <2>6. Enter(w, s, l, p, c) /\ tgt' = tgt /\ perm' = perm /\ att' = att /\ held' = held
    BY <1>1, <2>1, <2>3, <2>4, <2>5 DEF Pass, kept
  <2>7. Latches' /\ Apart(w) /\ Permit' = Permit /\ SamePermit
    BY CalmApart
  <2>8. /\ DOMAIN tgt' = Callers /\ DOMAIN perm' = Callers /\ tgt'[w] = tgt[w] /\ perm'[w] = perm[w]
        /\ \A u \in Callers \ {w} : perm'[u] = perm[u] /\ tgt'[u] = tgt[u]
    BY <2>6 DEF AInv, IInv, Domains
  <2>9. /\ att[w] # 0 /\ tgt[w] \in Orders /\ arm.order = tgt[w]
        /\ s \in Dispatching => row[tgt[w]] = [state |-> "SUBMITTING", version |-> c.version + 1]
    BY <1>0, <2>2, <2>4 DEF Place, Bound
  <2>10. UNCHANGED <<epoch, arms, row>> /\ snap' = snap /\ l \in {0, 1} /\ s # "armBefore"
    BY <2>2, <2>3 DEF Calm, AttStages
  <2> QED
    BY <2>2, <2>5, <2>6, <2>7, <2>8, <2>9, <2>10, EnterAInv
<1>2. CASE stage[w] \notin DOMAIN Chain
  <2>1. stage[w] \in DOMAIN Exit
    BY <1>0, <1>2 DEF Shape, Stages
  <2>2. PICK p : p = Exit[stage[w]]
    OBVIOUS
  <2>3. Goto(w, p)
    BY <1>2, <2>2 DEF Pass
  <2>4. /\ p \in {"install", "armEnd", "claimRead", "claim", "admit", "send", "resumeCheck", "done"}
        /\ p = "install" => stage[w] = "armBefore"
        /\ p = "armEnd" => stage[w] = "armAfter"
        /\ p = "claimRead" => stage[w] = "preflight"
        /\ p = "admit" => stage[w] = "commit"
        /\ p = "send" => stage[w] = "final"
    BY <2>1, <2>2 DEF Exit
  <2>5. CASE p \in {"admit", "send"}
    BY <2>3, <2>4, <2>5, LeaveAInv
  <2>6. CASE p \notin {"admit", "send"}
    <3>1. p \in {"install", "claimRead"} => tgt[w] \in Orders /\ (p = "install" => arms < MaxArms)
      BY <1>0, <2>4 DEF Place
    <3> QED
      BY <2>3, <2>4, <2>6, <3>1, GotoAInv DEF Checking, Outside, AttStages
  <2> QED BY <2>5, <2>6
<1> QED BY <1>1, <1>2

\* The leg and the verdict of w become l and v, the others keep theirs.
Sets(w, l, v) ==
  /\ DOMAIN leg' = Callers /\ DOMAIN verdict' = Callers /\ leg'[w] = l /\ verdict'[w] = v
  /\ \A u \in Callers \ {w} : leg'[u] = leg[u] /\ verdict'[u] = verdict[u]

\* A caller that goes on inside a check; v is what the check has found so far.
LEMMA InsideAInv ==
  ASSUME AInv, IInv', NEW w \in Callers, NEW p \in {"stop", "read", "judge", "bind", "gates"}, NEW l \in 0..3,
         NEW v \in {"NONE", "DISARMED", "DENIED"},
         pc' = [pc EXCEPT ![w] = p], Sets(w, l, v),
         UNCHANGED <<stage, tgt, perm, att, held, cand, began>>, SnapOK(w), Calm,
         pc[w] \in Checking,
         p = "stop" => l \in {0, 1},
         p = "bind" => l = 2,
         p = "gates" => l = 3,
         p = "judge" /\ stage[w] \in AttStages =>
           snap'[w].epoch = arm.epoch /\ snap'[w].session = arm.session,
         l >= 2 /\ stage[w] \in AttStages => began[w].epoch = arm.epoch /\ began[w].session = arm.session,
         l = 3 /\ v = "NONE" /\ stage[w] \in AttStages => arm.version = cand[w].version
  PROVE  AInv'
<1>0. /\ Locals(w) /\ Place(w) /\ Bound(w) /\ UNCHANGED <<epoch, arms, session, logins, row>>
      /\ Domains /\ DOMAIN cand = Callers /\ DOMAIN verdict = Callers /\ DOMAIN began = Callers
  BY DEF AInv, IInv, Calm
<1>1. Latches' /\ Apart(w) /\ Permit' = Permit /\ SamePermit
  BY CalmApart
<1>2. /\ pc'[w] = p /\ leg'[w] = l /\ verdict'[w] = v /\ stage'[w] = stage[w] /\ tgt'[w] = tgt[w]
      /\ perm'[w] = perm[w] /\ att'[w] = att[w] /\ held'[w] = held[w] /\ cand'[w] = cand[w]
      /\ began'[w] = began[w]
  BY <1>0 DEF Domains, Sets
<1>3. Moves(w)
  BY <1>0 DEF Moves, Frame, Domains, SnapOK, SnapFrame, Sets
<1>4. Locals(w)'
  BY <1>0, <1>1, <1>2 DEF Locals, SnapOK
<1>5. Place(w)'
  BY <1>0, <1>2 DEF Place, Checking, Outside
<1>6. Bound(w)'
  BY <1>0, <1>1, <1>2 DEF Bound, SamePermit, Checking
<1> QED
  BY <1>1, <1>3, <1>4, <1>5, <1>6, OwnStep

\* armed() answered no.
LEMMA UnarmedAInv ==
  ASSUME AInv, IInv', NEW w \in Callers, Unarmed(w), SnapOK(w), Calm, pc[w] \in Checking
  PROVE  AInv'
<1>0. Locals(w) /\ Bound(w) /\ Domains
  BY DEF AInv, IInv
<1>1. CASE leg[w] \in {0, 1}
  <2>1. PICK r : r = "DISARMED"
    OBVIOUS
  <2> QED
    BY <1>1, <2>1, DenyAInv DEF Unarmed
<1>2. CASE leg[w] \notin {0, 1}
  <2>1. PICK p \in {"stop", "read", "judge", "bind", "gates"} : p = IF leg[w] = 2 THEN "read" ELSE "gates"
    OBVIOUS
  <2>2. PICK l \in 0..3, v \in {"NONE", "DISARMED", "DENIED"} : l = 3 /\ v = "DISARMED"
    OBVIOUS
  <2>3. /\ pc' = [pc EXCEPT ![w] = p] /\ Sets(w, l, v)
        /\ UNCHANGED <<stage, tgt, perm, att, held, cand, began>>
    BY <1>0, <1>2, <2>1, <2>2 DEF Unarmed, Sets, Domains, AInv
  <2>4. stage[w] \in AttStages => began[w].epoch = arm.epoch /\ began[w].session = arm.session
    BY <1>0, <1>2 DEF Bound, Locals
  <2>5. p \in {"read", "gates"} /\ v # "NONE"
    BY <2>1, <2>2
  <2> QED
    BY <2>2, <2>3, <2>4, <2>5, InsideAInv
<1> QED BY <1>1, <1>2

\* armed() answered yes: in leg 1 the running epoch and the session are the permit's, and
\* they were when the check began, because neither ever comes back.
LEMMA ArmedAInv ==
  ASSUME AInv, IInv', NEW w \in Callers, Armed(w), SnapOK(w), Calm, pc[w] = "judge", usable(snap[w])
  PROVE  AInv'
<1>0. Locals(w) /\ Place(w) /\ Bound(w) /\ Shape(w) /\ Latches /\ epoch.n \in Nat /\ Domains
  BY MaxEpochsAssumption DEF AInv, IInv, CallerInv, Latches
<1>1. CASE stage[w] \in Bare
  BY <1>1, PassAInv DEF Armed, Checking, Bare
<1>2. CASE stage[w] \notin Bare
  <2>1. PICK l \in 0..3 : l = IF leg[w] < 2 THEN leg[w] + 1 ELSE leg[w]
    BY <1>0 DEF Locals
  <2>2. PICK p \in {"stop", "read", "judge", "bind", "gates"} :
           p = CASE leg[w] = 0 -> "stop" [] leg[w] = 1 -> "read"
                 [] leg[w] = 2 -> "bind" [] leg[w] = 3 -> "gates"
    BY <1>0 DEF Locals
  <2>3. PICK v \in {"NONE", "DISARMED", "DENIED"} : v = verdict[w]
    BY <1>0 DEF Locals
  <2>4. leg' = [leg EXCEPT ![w] = l] /\ verdict' = verdict
    BY <1>2, <2>1 DEF Armed
  <2>5. /\ pc' = [pc EXCEPT ![w] = p] /\ Sets(w, l, v)
        /\ UNCHANGED <<stage, tgt, perm, att, held, cand, began>>
    BY <1>0, <1>2, <2>2, <2>3, <2>4 DEF Armed, Sets, Domains, AInv
  <2>6. /\ p = "stop" => l = 1
        /\ p = "bind" => l = 2
        /\ p = "gates" => l = 3
        /\ p # "judge"
        /\ l = 3 => leg[w] = 3
        /\ l >= 2 => leg[w] >= 1
    BY <1>0, <2>1, <2>2 DEF Locals
  <2>7. l >= 2 /\ stage[w] \in AttStages => began[w].epoch = arm.epoch /\ began[w].session = arm.session
    <3> SUFFICES ASSUME stage[w] \in AttStages PROVE began[w].epoch = arm.epoch /\ began[w].session = arm.session
      OBVIOUS
    <3>1. snap[w].epoch = arm.epoch /\ snap[w].session = arm.session
      BY <1>0 DEF Bound
    <3>2. epoch.n = arm.epoch /\ session = arm.session
      BY <3>1 DEF usable, runningAt
    <3>3. began[w].epoch \in 0..epoch.n
      BY <1>0 DEF Locals
    <3> QED
      BY <1>0, <3>2, <3>3 DEF Bound
  <2>8. l = 3 /\ v = "NONE" /\ stage[w] \in AttStages => arm.version = cand[w].version
    BY <1>0, <2>3, <2>6 DEF Bound
  <2> QED
    BY <2>4, <2>5, <2>6, <2>7, <2>8, InsideAInv DEF Checking
<1> QED BY <1>1, <1>2

\* The steps of a policy check.
LEMMA CheckingAInv ==
  ASSUME AInv, IInv', NEW w \in Callers,
         checkStop(w) \/ armedRead(w) \/ armedJudge(w) \/ bindingReason(w) \/ inspectGates(w)
  PROVE  AInv'
<1>0. Locals(w) /\ Place(w) /\ Bound(w) /\ Shape(w) /\ Latches /\ Domains
  BY DEF AInv, IInv, CallerInv
<1>s. snap' = snap => SnapOK(w)
  BY <1>0 DEF SnapOK, SnapFrame, Domains, Locals
<1>l. PICK l \in 0..3, v \in {"NONE", "DISARMED", "DENIED"} : l = leg[w] /\ v = verdict[w]
  BY <1>0 DEF Locals
<1>e. leg' = leg /\ verdict' = verdict => Sets(w, l, v)
  BY <1>l, <1>0 DEF Domains, AInv, Sets
<1>1. CASE checkStop(w)
  <2>1. pc[w] = "stop" /\ SnapOK(w) /\ Calm /\ snap' = snap
    BY <1>1, <1>s DEF checkStop, latches, Calm
  <2>2. CASE \E r : Deny(w, r)
    <3>1. PICK r : Deny(w, r)
      BY <2>2
    <3> QED
      BY <2>1, <3>1, DenyAInv DEF Checking
  <2>3. CASE Goto(w, "read")
    <3>1. PICK p \in {"stop", "read", "judge", "bind", "gates"} : p = "read"
      OBVIOUS
    <3>2. /\ pc' = [pc EXCEPT ![w] = p] /\ Sets(w, l, v)
          /\ UNCHANGED <<stage, tgt, perm, att, held, cand, began>>
      BY <2>3, <3>1, <1>e DEF Goto
    <3>3. l \in {0, 1} /\ ~(l >= 2) /\ l # 3
      BY <1>0, <1>l, <2>1 DEF Place
    <3> QED
      BY <2>1, <3>1, <3>2, <3>3, InsideAInv DEF Checking
  <2> QED
    BY <1>1, <2>2, <2>3 DEF checkStop
<1>2. CASE armedRead(w)
  <2>1. pc[w] = "read" /\ Calm
    BY <1>2 DEF armedRead, latches, Calm
  <2>2. CASE snap' = [snap EXCEPT ![w] = arm] /\ Goto(w, "judge")
    <3>1. SnapOK(w) /\ snap'[w] = arm
      BY <2>2, <1>0 DEF SnapOK, SnapFrame, Domains, Latches
    <3>2. PICK p \in {"stop", "read", "judge", "bind", "gates"} : p = "judge"
      OBVIOUS
    <3>3. /\ pc' = [pc EXCEPT ![w] = p] /\ Sets(w, l, v)
          /\ UNCHANGED <<stage, tgt, perm, att, held, cand, began>>
      BY <2>2, <3>2, <1>e DEF Goto
    <3>4. /\ l >= 2 /\ stage[w] \in AttStages => began[w].epoch = arm.epoch /\ began[w].session = arm.session
          /\ l = 3 /\ v = "NONE" /\ stage[w] \in AttStages => arm.version = cand[w].version
      BY <1>0, <1>l DEF Bound
    <3> QED
      BY <2>1, <3>1, <3>2, <3>3, <3>4, InsideAInv DEF Checking
  <2>3. CASE Unarmed(w) /\ snap' = snap
    BY <2>1, <2>3, <1>s, UnarmedAInv DEF Checking
  <2> QED
    BY <1>2, <2>2, <2>3 DEF armedRead
<1>3. CASE armedJudge(w)
  <2>1. pc[w] = "judge" /\ SnapOK(w) /\ Calm
    BY <1>3, <1>0 DEF armedJudge, SnapOK, SnapFrame, Domains, Calm
  <2>2. CASE usable(snap[w]) /\ Armed(w)
    BY <2>1, <2>2, ArmedAInv
  <2>3. CASE Unarmed(w)
    BY <2>1, <2>3, UnarmedAInv DEF Checking
  <2> QED
    BY <1>3, <2>2, <2>3 DEF armedJudge
<1>4. CASE bindingReason(w)
  <2>1. pc[w] = "bind" /\ SnapOK(w) /\ Calm
    BY <1>4, <1>s DEF bindingReason, latches, Calm
  <2>2. PICK p \in {"stop", "read", "judge", "bind", "gates"}, m \in 0..3 : p = "read" /\ m = 3
    OBVIOUS
  <2>3. PICK x \in {"NONE", "DISARMED", "DENIED"} :
           x = CASE ~arm.active -> "DISARMED"
                 [] arm.active /\ arm.order = tgt[w] /\ arm.version = cand[w].version -> "NONE"
                 [] OTHER -> "DENIED"
    OBVIOUS
  <2>4. /\ pc' = [pc EXCEPT ![w] = p] /\ leg' = [leg EXCEPT ![w] = m]
        /\ verdict' = [verdict EXCEPT ![w] = x]
        /\ UNCHANGED <<stage, tgt, perm, att, held, cand, began>>
    BY <1>4, <2>2, <2>3 DEF bindingReason
  <2>s. Sets(w, m, x)
    BY <1>0, <2>4 DEF Sets, Domains, AInv
  <2>5. stage[w] \in AttStages => began[w].epoch = arm.epoch /\ began[w].session = arm.session
    BY <1>0, <2>1 DEF Place, Bound
  <2>6. x = "NONE" => arm.version = cand[w].version
    BY <2>3
  <2> QED
    BY <2>1, <2>2, <2>4, <2>s, <2>5, <2>6, InsideAInv DEF Checking
<1>5. CASE inspectGates(w)
  <2>1. pc[w] = "gates" /\ SnapOK(w) /\ Calm /\ snap' = snap /\ leg[w] = 3
    BY <1>5, <1>s, <1>0 DEF inspectGates, latches, Calm, Place
  <2>2. CASE Pass(w) /\ verdict[w] = IF stage[w] = "armBefore" THEN "DISARMED" ELSE "NONE"
    BY <2>1, <2>2, PassAInv DEF Checking
  <2>3. CASE \E r : Deny(w, r)
    <3>1. PICK r : Deny(w, r)
      BY <2>3
    <3> QED
      BY <2>1, <3>1, DenyAInv DEF Checking
  <2> QED
    BY <1>5, <2>2, <2>3 DEF inspectGates
<1> QED
  BY <1>1, <1>2, <1>3, <1>4, <1>5

-----------------------------------------------------------------------------
\* The steps of halt, disarm, status and resume; a HALT or a resumption only adds an epoch.
LEMMA ControlAInv ==
  ASSUME AInv, IInv', NEW w \in Callers,
         haltBegin(w) \/ haltDisarm(w) \/ disarmCall(w) \/ statusBegin(w) \/ prepareResume(w)
         \/ resumeDisarm(w) \/ resumeCheck(w) \/ resumeCas(w) \/ done(w)
  PROVE  AInv'
<1>0. /\ Locals(w) /\ Place(w) /\ Bound(w) /\ Shape(w) /\ Latches /\ Domains
      /\ epoch.n \in Nat /\ arms \in Nat /\ logins \in Nat
  BY MaxEpochsAssumption, MaxArmsAssumption, MaxLoginsAssumption DEF AInv, IInv, CallerInv, Latches
<1>s. snap' = snap => SnapOK(w) /\ SnapFrame(w)
  BY <1>0 DEF SnapOK, SnapFrame, Domains, Locals
<1>i. pc[w] = "idle" => stage[w] = "none" /\ att[w] = 0 /\ stage[w] \notin AttStages
  BY <1>0 DEF Shape, Place, AttStages
<1>e. ASSUME epoch' = [n |-> epoch.n + 1, state |-> epoch'.state], epoch'.state \in {"HALTED", "RUNNING"},
             epoch.n < MaxEpochs, UNCHANGED <<arm, arms, session, logins, row>>
      PROVE  Latches' /\ Apart(w) /\ Permit \subseteq Permit' /\ SamePermit /\ epoch'.n = epoch.n + 1
  <2>1. epoch'.n = epoch.n + 1
    BY <1>e
  <2>2. Permit \subseteq Permit'
    <3>1. 1..epoch.n \subseteq 1..epoch'.n
      BY <1>0, <2>1
    <3> QED
      BY <1>e, <3>1 DEF Permit
  <2> QED
    BY <1>0, <1>e, <2>1, <2>2, MaxEpochsAssumption DEF Latches, Apart, SamePermit
<1>c. ASSUME Calm PROVE Latches' /\ Apart(w) /\ Permit' = Permit /\ SamePermit /\ arms' = arms
  BY <1>c, CalmApart DEF Calm
<1>1. CASE haltBegin(w)
  <2>1. /\ pc[w] = "idle" /\ Goto(w, "haltDisarm") /\ snap' = snap
        /\ Latches' /\ Apart(w) /\ Permit \subseteq Permit' /\ SamePermit /\ epoch'.n = epoch.n + 1
        /\ UNCHANGED <<arms, session, logins, row>>
    BY <1>1, <1>e DEF haltBegin, Call
  <2>2. PICK p : p = "haltDisarm"
    OBVIOUS
  <2>3. Moves(w) /\ pc'[w] = p /\ Stays(w)
    BY <2>1, <2>2, <1>s, GotoMoves
  <2>4. Locals(w)'
    <3>1. 0..epoch.n \subseteq 0..epoch'.n
      BY <1>0, <2>1
    <3>2. began[w] \in [epoch : 0..epoch'.n, session : 0..logins]
      BY <1>0, <3>1 DEF Locals
    <3> QED
      BY <1>0, <2>1, <2>3, <3>1, <3>2 DEF Locals, Stays
  <2>5. Place(w)' /\ Bound(w)'
    BY <1>0, <1>i, <2>1, <2>2, <2>3 DEF Place, Bound, Stays, Checking, AttStages
  <2> QED
    BY <2>1, <2>3, <2>4, <2>5, OwnStep
<1>2. CASE haltDisarm(w) \/ done(w)
  <2>1. Return(w) /\ snap' = snap /\ Calm
    BY <1>2 DEF haltDisarm, done, disarm, latches, Calm
  <2> QED
    BY <1>c, <2>1, ReturnAInv
<1>3. CASE disarmCall(w)
  <2>1. PICK p : p = "done"
    OBVIOUS
  <2>2. Goto(w, p) /\ snap' = snap /\ Calm
    BY <1>3, <2>1 DEF disarmCall, Call, disarm, Calm
  <2> QED
    BY <1>s, <2>1, <2>2, GotoAInv DEF Checking, Outside
<1>n. NoRow \in Row
  BY DEF NoRow, Row
<1>4. ASSUME NEW s \in {"status", "resume"}, Enter(w, s, 1, "read", NoRow), att[w] = 0, snap' = snap, Calm,
             UNCHANGED <<tgt, perm, att, held>>
      PROVE  AInv'
  <2>1. PICK t \in Stages, l \in 0..2, p \in {"stop", "read"}, c \in Row :
           t = s /\ l = 1 /\ p = "read" /\ c = NoRow
    BY <1>4, <1>n DEF Stages, Exit
  <2>2. Enter(w, t, l, p, c) /\ t \notin AttStages /\ t \notin Dispatching
    BY <1>4, <2>1 DEF AttStages, Dispatching
  <2>3. /\ DOMAIN tgt' = Callers /\ DOMAIN perm' = Callers /\ tgt'[w] = tgt[w] /\ perm'[w] = perm[w]
        /\ \A u \in Callers \ {w} : perm'[u] = perm[u] /\ tgt'[u] = tgt[u]
        /\ tgt[w] \in Orders \cup {NoOrder} /\ UNCHANGED <<epoch, arms>>
    BY <1>4, <1>0 DEF Domains, Locals, Calm
  <2>4. t \notin {"armBefore", "armAfter", "preflight", "claim"}
    BY <2>1
  <2> QED
    BY <1>4, <1>c, <2>1, <2>2, <2>3, <2>4, EnterAInv
<1>5. CASE statusBegin(w)
  BY <1>5, <1>4, <1>i DEF statusBegin, latches, Calm
<1>6. CASE prepareResume(w)
  <2>1. /\ pc'[w] = "resumeAsk" /\ stage'[w] = stage[w] /\ leg'[w] = leg[w] /\ tgt'[w] = tgt[w]
        /\ perm'[w] = perm[w] /\ att'[w] = att[w] /\ held'[w] = epoch.n /\ cand'[w] = cand[w]
        /\ verdict'[w] = verdict[w] /\ began'[w] = began[w] /\ snap'[w] = snap[w]
        /\ Moves(w) /\ Calm /\ pc[w] = "idle"
    BY <1>6, <1>0 DEF prepareResume, Moves, Frame, Domains, AInv, latches, Calm
  <2>2. Locals(w)'
    BY <1>0, <1>c, <2>1 DEF Locals, Calm
  <2>3. Place(w)' /\ Bound(w)'
    BY <1>0, <1>i, <2>1 DEF Place, Bound, Checking, AttStages
  <2> QED
    BY <1>c, <2>1, <2>2, <2>3, OwnStep
<1>7. CASE resumeDisarm(w)
  <2>1. pc[w] = "resumeAsk" /\ snap' = snap /\ Calm /\ att[w] = 0
    BY <1>7, <1>0 DEF resumeDisarm, disarm, Calm, Place, Outside
  <2>2. CASE Goto(w, "done")
    <3>1. PICK p : p = "done"
      OBVIOUS
    <3> QED
      BY <1>s, <2>1, <2>2, <3>1, GotoAInv DEF Checking, Outside
  <2>3. CASE Enter(w, "resume", 1, "read", NoRow) /\ UNCHANGED kept
    BY <1>4, <2>1, <2>3 DEF kept
  <2> QED
    BY <1>7, <2>2, <2>3 DEF resumeDisarm
<1>8. CASE resumeCheck(w)
  <2>1. PICK p \in {"done", "resumeCas"} : Goto(w, p)
    BY <1>8 DEF resumeCheck
  <2>2. snap' = snap /\ Calm
    BY <1>8 DEF resumeCheck, latches, Calm
  <2> QED
    BY <1>s, <2>1, <2>2, GotoAInv DEF Checking, Outside
<1>9. CASE resumeCas(w)
  <2>1. Return(w) /\ snap' = snap /\ UNCHANGED <<arm, arms, session, logins, row>>
    BY <1>9 DEF resumeCas
  <2>2. CASE epoch' = epoch
    <3>1. Calm
      BY <2>1, <2>2 DEF Calm
    <3> QED
      BY <1>c, <2>1, <3>1, ReturnAInv
  <2>3. CASE epoch' = [n |-> epoch.n + 1, state |-> "RUNNING"] /\ epoch.n < MaxEpochs
    BY <1>e, <2>1, <2>3, ReturnAInv
  <2> QED
    BY <1>9, <2>2, <2>3 DEF resumeCas
<1> QED
  BY <1>1, <1>2, <1>3, <1>5, <1>6, <1>7, <1>8, <1>9

\* The steps of arm: a permit is drawn while there is room, for the order, the row, the
\* session and the running epoch; it becomes visible only when nobody is in an attempt.
LEMMA ArmAInv ==
  ASSUME AInv, IInv', NEW w \in Callers,
         (\E o \in Orders : armBegin(w, o)) \/ armDisarm(w) \/ armGate(w) \/ install(w) \/ publish(w)
         \/ recheck(w) \/ armUndo(w) \/ armEnd(w)
  PROVE  AInv'
<1>0. /\ Locals(w) /\ Place(w) /\ Bound(w) /\ Shape(w) /\ Latches /\ Domains
      /\ epoch.n \in Nat /\ arms \in Nat /\ logins \in Nat
  BY MaxEpochsAssumption, MaxArmsAssumption, MaxLoginsAssumption DEF AInv, IInv, CallerInv, Latches
<1>s. snap' = snap => SnapOK(w) /\ SnapFrame(w)
  BY <1>0 DEF SnapOK, SnapFrame, Domains, Locals
<1>i. pc[w] = "idle" => stage[w] = "none" /\ att[w] = 0 /\ stage[w] \notin AttStages
  BY <1>0 DEF Shape, Place, AttStages
<1>c. ASSUME Calm PROVE Latches' /\ Apart(w) /\ Permit' = Permit /\ SamePermit /\ arms' = arms
  BY <1>c, CalmApart DEF Calm
<1>n. NoRow \in Row
  BY DEF NoRow, Row
<1>u. ASSUME Goto(w, "armUndo"), pc[w] \in Outside, snap' = snap, Calm PROVE AInv'
  <2>1. PICK p : p = "armUndo"
    OBVIOUS
  <2>2. stage[w] \notin AttStages
    BY <1>0, <1>u DEF Place
  <2> QED
    BY <1>s, <1>u, <2>1, <2>2, GotoAInv DEF Checking
<1>t. ASSUME NEW s \in {"armBefore", "armAfter", "armStatus"}, NEW l \in {1, 2}, NEW c \in Row,
             Enter(w, s, l, "read", c), UNCHANGED kept, pc[w] \in Outside, snap' = snap, Calm,
             s # "armStatus" => tgt[w] \in Orders, s = "armBefore" => arms < MaxArms
      PROVE  AInv'
  <2>1. PICK p \in {"stop", "read"}, k \in 0..2, t \in Stages : p = "read" /\ k = l /\ t = s
    BY DEF Stages, Exit
  <2>2. Enter(w, t, k, p, c) /\ t \notin AttStages /\ t \notin Dispatching /\ att[w] = 0
    BY <1>0, <1>t, <2>1 DEF AttStages, Dispatching, Place
  <2>3. /\ DOMAIN tgt' = Callers /\ DOMAIN perm' = Callers /\ tgt'[w] = tgt[w] /\ perm'[w] = perm[w]
        /\ \A u \in Callers \ {w} : perm'[u] = perm[u] /\ tgt'[u] = tgt[u] 
        /\ att' = att /\ held' = held
        /\ tgt[w] \in Orders \cup {NoOrder} /\ UNCHANGED <<epoch, arms>>
    BY <1>0, <1>t DEF Domains, Locals, Calm, kept
  <2>4. t \in {"armBefore", "armAfter", "preflight", "claim"} \cup AttStages => tgt'[w] \in Orders
    BY <1>t, <2>1, <2>2, <2>3
  <2>5. t = "armBefore" => arms < MaxArms
    BY <1>t, <2>1
  <2> QED
    BY <1>t, <1>c, <2>1, <2>2, <2>3, <2>4, <2>5, EnterAInv
<1>r. pc[w] \in {"armGate", "recheck"} => tgt[w] \in Orders /\ row[tgt[w]] \in Row
  BY <1>0 DEF Place, Latches
<1>1. CASE \E o \in Orders : armBegin(w, o)
  <2>0. PICK o \in Orders : armBegin(w, o)
    BY <1>1
  <2>1. /\ pc'[w] = "armDisarm" /\ stage'[w] = stage[w] /\ leg'[w] = leg[w] /\ tgt'[w] = o
        /\ perm'[w] = perm[w] /\ att'[w] = att[w] /\ held'[w] = epoch.n /\ cand'[w] = cand[w]
        /\ verdict'[w] = verdict[w] /\ began'[w] = began[w] /\ snap'[w] = snap[w]
        /\ Moves(w) /\ Calm /\ pc[w] = "idle" /\ arms < MaxArms
    BY <2>0, <1>0 DEF armBegin, Moves, Frame, Domains, AInv, latches, Calm
  <2>2. Locals(w)'
    BY <1>0, <1>c, <2>1 DEF Locals, Calm
  <2>3. Place(w)' /\ Bound(w)'
    BY <1>0, <1>c, <1>i, <2>1 DEF Place, Bound, Checking, AttStages
  <2> QED
    BY <1>c, <2>1, <2>2, <2>3, OwnStep
<1>2. CASE armDisarm(w)
  <2>1. PICK p : p = "armGate"
    OBVIOUS
  <2>2. Goto(w, p) /\ snap' = snap /\ Calm /\ pc[w] = "armDisarm"
    BY <1>2, <2>1 DEF armDisarm, disarm, Calm
  <2>3. stage[w] \notin AttStages /\ tgt[w] \in Orders /\ arms < MaxArms
    BY <1>0, <2>2 DEF Place, Outside
  <2> QED
    BY <1>s, <2>1, <2>2, <2>3, GotoAInv DEF Checking
<1>3. CASE armGate(w)
  <2>1. pc[w] = "armGate" /\ pc[w] \in Outside /\ snap' = snap /\ Calm /\ arms < MaxArms
    BY <1>3, <1>0 DEF armGate, Outside, latches, Calm, Place
  <2>2. CASE Enter(w, "armBefore", 2, "read", row[tgt[w]]) /\ UNCHANGED kept
    BY <1>t, <1>r, <2>1, <2>2
  <2> QED
    BY <1>3, <1>u, <2>1, <2>2 DEF armGate
<1>4. CASE install(w)
  <2>0. /\ pc[w] = "install" /\ pc[w] \in Outside /\ snap' = snap /\ tgt[w] \in Orders /\ arms < MaxArms
        /\ UNCHANGED <<epoch, arm, session, logins, row>> /\ Arming(w) /\ stage[w] \notin AttStages
    BY <1>4, <1>0 DEF install, Outside, Place, Arming
  <2>1. CASE arms' = arms /\ Goto(w, "armUndo")
    BY <1>u, <2>0, <2>1 DEF Calm
  <2>2. CASE /\ runningAt(held[w]) /\ session # 0 /\ arms' = arms + 1
             /\ perm' = [perm EXCEPT ![w] =
                      [nonce |-> arms + 1, order |-> tgt[w], version |-> cand[w].version,
                       session |-> session, epoch |-> held[w], state |-> "UNUSED", active |-> TRUE]]
             /\ pc' = [pc EXCEPT ![w] = "publish"]
             /\ UNCHANGED <<stage, leg, tgt, att, held, cand, verdict, began>>
    <3>1. PICK new : new = [nonce |-> arms + 1, order |-> tgt[w], version |-> cand[w].version,
                            session |-> session, epoch |-> held[w], state |-> "UNUSED", active |-> TRUE]
      OBVIOUS
    <3>2. /\ pc'[w] = "publish" /\ stage'[w] = stage[w] /\ leg'[w] = leg[w] /\ tgt'[w] = tgt[w]
          /\ perm'[w] = new /\ att'[w] = att[w] /\ held'[w] = held[w] /\ cand'[w] = cand[w]
          /\ verdict'[w] = verdict[w] /\ began'[w] = began[w] /\ snap'[w] = snap[w] /\ Moves(w)
      BY <1>0, <2>0, <2>2, <3>1 DEF Moves, Frame, Domains, AInv
    <3>3. new \in Permit'
      <4>1. /\ arms + 1 \in 1..arms' /\ session \in 1..logins' /\ held[w] \in 1..epoch'.n
            /\ cand[w].version \in Nat
        BY <1>0, <2>0, <2>2 DEF Latches, Locals, Row, runningAt
      <4> QED
        BY <2>0, <3>1, <4>1 DEF Permit
    <3>4. arms' \in 0..MaxArms /\ arms' \in Nat /\ arms' >= arms
      BY <1>0, <2>0, <2>2, MaxArmsAssumption
    <3>5. \A a \in Permit \cup {NoArm} : a \in Permit' \cup {NoArm}
      BY <1>0, <2>0, <3>4, PermitGrows
    <3>6. Latches'
      BY <1>0, <2>0, <3>4, <3>5 DEF Latches
    <3>7. Apart(w)
      BY <1>0, <2>0, <2>2 DEF Apart, SamePermit
    <3>8. Locals(w)'
      <4>1. 0..arms \subseteq 0..arms'
        BY <1>0, <3>4
      <4> QED
        BY <1>0, <2>0, <3>2, <3>3, <3>5, <4>1 DEF Locals
    <3>9. Place(w)' /\ Bound(w)'
      BY <1>0, <2>0, <3>2 DEF Place, Bound, Checking
    <3> QED
      BY <3>2, <3>6, <3>7, <3>8, <3>9, OwnStep
  <2> QED
    BY <1>4, <2>1, <2>2 DEF install
<1>5. CASE publish(w)
  <2>0. /\ pc[w] = "publish" /\ pc[w] \in Outside /\ snap' = snap /\ tgt[w] \in Orders
        /\ UNCHANGED <<epoch, arms, session, logins, row>> /\ stage[w] \notin AttStages /\ att[w] = 0
    BY <1>5, <1>0 DEF publish, Outside, Place
  <2>1. CASE arm' = arm /\ Goto(w, "armUndo")
    BY <1>u, <2>0, <2>1 DEF Calm
  <2>2. CASE arm.state # "CLAIMED" /\ arm' = perm[w] /\ Goto(w, "recheck")
    <3>1. PICK p : p = "recheck"
      OBVIOUS
    <3>2. Moves(w) /\ pc'[w] = p /\ Stays(w)
      BY <1>s, <2>0, <2>2, <3>1, GotoMoves
    <3>3. Permit' = Permit
      BY <2>0 DEF Permit
    <3>4. Latches'
      BY <1>0, <2>0, <2>2, <3>3 DEF Latches, Locals
    <3>5. \A u \in Callers : att[u] = 0
      BY <2>2 DEF AInv, IInv, OwnPermit, InFlight
    <3>6. Apart(w)
      BY <1>0, <2>0, <3>5 DEF Apart
    <3>7. Locals(w)'
      BY <1>0, <2>0, <3>2, <3>3 DEF Locals, Stays
    <3>8. Place(w)' /\ Bound(w)'
      BY <1>0, <2>0, <3>1, <3>2 DEF Place, Bound, Stays, Checking
    <3> QED
      BY <3>2, <3>4, <3>6, <3>7, <3>8, OwnStep
  <2> QED
    BY <1>5, <2>1, <2>2 DEF publish
<1>6. CASE recheck(w)
  <2>1. pc[w] = "recheck" /\ pc[w] \in Outside /\ snap' = snap /\ Calm
    BY <1>6 DEF recheck, Outside, latches, Calm
  <2>2. CASE Enter(w, "armAfter", 2, "read", row[tgt[w]]) /\ UNCHANGED kept
    BY <1>t, <1>r, <2>1, <2>2
  <2> QED
    BY <1>6, <1>u, <2>1, <2>2 DEF recheck
<1>7. CASE armUndo(w)
  <2>1. /\ pc[w] \in Outside /\ snap' = snap /\ Calm
        /\ Enter(w, "armStatus", 1, "read", NoRow) /\ UNCHANGED kept
    BY <1>7 DEF armUndo, Outside, disarm, Calm
  <2> QED
    BY <1>t, <1>n, <2>1
<1>8. CASE armEnd(w)
  <2>1. pc[w] \in Outside /\ snap' = snap /\ Calm
    BY <1>8 DEF armEnd, Outside, latches, Calm
  <2>2. CASE Enter(w, "armStatus", 1, "read", NoRow) /\ UNCHANGED kept
    BY <1>t, <1>n, <2>1, <2>2
  <2> QED
    BY <1>8, <1>u, <2>1, <2>2 DEF armEnd
<1> QED
  BY <1>1, <1>2, <1>3, <1>4, <1>5, <1>6, <1>7, <1>8

\* A permit that is claimed or consumed is made for what it was made for.
LEMMA ChangeSame ==
  ASSUME arm \in Permit, NEW s \in {"CLAIMED", "CONSUMED"}, NEW on \in {TRUE, FALSE}
  PROVE  /\ change(arm, s, on) \in Permit
         /\ change(arm, s, on).order = arm.order /\ change(arm, s, on).version = arm.version
         /\ change(arm, s, on).session = arm.session /\ change(arm, s, on).epoch = arm.epoch
<1>1. on \in BOOLEAN
  OBVIOUS
<1> QED
  BY <1>1 DEF change, Permit

\* The steps of execute: a claim takes a permit nobody else has, and only the attempt
\* that owns it writes the row.
LEMMA ExecuteAInv ==
  ASSUME AInv, IInv', NEW w \in Callers,
         (\E o \in Orders : executeBegin(w, o)) \/ claimRead(w) \/ claim(w) \/ admit(w) \/ send(w)
         \/ fail(w) \/ finDisarm(w) \/ complete(w)
  PROVE  AInv'
<1>0. /\ Locals(w) /\ Place(w) /\ Bound(w) /\ Shape(w) /\ Latches /\ Domains
      /\ epoch.n \in Nat /\ arms \in Nat /\ logins \in Nat
  BY MaxEpochsAssumption, MaxArmsAssumption, MaxLoginsAssumption DEF AInv, IInv, CallerInv, Latches
<1>s. snap' = snap => SnapOK(w) /\ SnapFrame(w)
  BY <1>0 DEF SnapOK, SnapFrame, Domains, Locals
<1>i. pc[w] = "idle" => stage[w] = "none" /\ att[w] = 0 /\ stage[w] \notin AttStages
  BY <1>0 DEF Shape, Place, AttStages
<1>c. ASSUME Calm PROVE Latches' /\ Apart(w) /\ Permit' = Permit /\ SamePermit /\ arms' = arms
  BY <1>c, CalmApart DEF Calm
<1>g. ASSUME NEW p \in {"finDisarm", "complete"}, Goto(w, p), snap' = snap, Calm PROVE AInv'
  BY <1>g, <1>s, GotoAInv DEF Checking, Outside
<1>p. att[w] # 0 => arm \in Permit /\ arm.nonce = att[w]
  BY <1>0 DEF AInv, IInv, OwnPermit, InFlight, Latches, NoArm
<1>1. CASE \E o \in Orders : executeBegin(w, o)
  <2>0. PICK o \in Orders : executeBegin(w, o)
    BY <1>1
  <2>1. PICK s \in Stages, l \in 0..2, p \in {"stop", "read"}, c \in Row :
          s = "preflight" /\ l = 2 /\ p = "read" /\ c = row[o]
    BY <1>0 DEF Stages, Exit, Latches
  <2>2. /\ Enter(w, s, l, p, c) /\ s \notin AttStages /\ s \notin Dispatching /\ att[w] = 0
        /\ snap' = snap /\ att' = att /\ held' = held /\ Calm
    BY <1>i, <2>0, <2>1 DEF executeBegin, latches, Calm, AttStages, Dispatching
  <2>3. /\ DOMAIN tgt' = Callers /\ DOMAIN perm' = Callers /\ tgt'[w] = o /\ perm'[w] = perm[w]
        /\ \A u \in Callers \ {w} : perm'[u] = perm[u] /\ tgt'[u] = tgt[u]
        /\ UNCHANGED <<epoch, arms>>
    BY <1>0, <2>0 DEF Domains, executeBegin, latches
  <2> QED
    BY <1>c, <2>1, <2>2, <2>3, EnterAInv
<1>2. CASE claimRead(w)
  <2>1. PICK s \in Stages, l \in 0..2, p \in {"stop", "read"}, c \in Row :
          s = "claim" /\ l = 1 /\ p = "read" /\ c = cand[w]
    BY <1>0 DEF Stages, Exit, Locals
  <2>2. /\ Enter(w, s, l, p, c) /\ s \notin AttStages /\ s \notin Dispatching /\ att[w] = 0
        /\ snap' = snap /\ att' = att /\ held' = held /\ Calm
    BY <1>0, <1>2, <2>1 DEF claimRead, latches, Calm, AttStages, Dispatching, Place, Outside
  <2>3. /\ DOMAIN tgt' = Callers /\ DOMAIN perm' = Callers /\ tgt'[w] = tgt[w] /\ perm'[w] = arm
        /\ \A u \in Callers \ {w} : perm'[u] = perm[u] /\ tgt'[u] = tgt[u]
        /\ UNCHANGED <<epoch, arms>> /\ tgt[w] \in Orders
    BY <1>0, <1>2 DEF Domains, claimRead, latches, Place
  <2>4. /\ s \in {"armBefore", "armAfter", "preflight", "claim"} \cup AttStages => tgt'[w] \in Orders
        /\ s # "armBefore" /\ p # "stop" /\ tgt'[w] \in Orders \cup {NoOrder} /\ perm'[w] \in {perm[w], arm}
    BY <2>1, <2>3
  <2> QED
    BY <1>c, <2>1, <2>2, <2>3, <2>4, EnterAInv
<1>3. CASE claim(w)
  <2>0. /\ pc[w] = "claim" /\ stage[w] = "claim" /\ snap' = snap /\ tgt[w] \in Orders
        /\ UNCHANGED <<epoch, arms, session, logins, row>>
    BY <1>0, <1>3 DEF claim, Shape, Place
  <2>1. CASE arm' = arm /\ Goto(w, "finDisarm")
    <3>1. Calm
      BY <2>0, <2>1 DEF Calm
    <3> QED
      BY <1>g, <2>0, <2>1, <3>1
  <2>2. CASE /\ perm[w].order = tgt[w] /\ perm[w].state = "UNUSED" /\ arm = perm[w]
             /\ arm' = change(arm, "CLAIMED", TRUE) /\ att' = [att EXCEPT ![w] = arm.nonce]
             /\ Enter(w, "evaluate", 1, "stop", row[tgt[w]]) /\ UNCHANGED <<tgt, perm, held>>
    <3>1. arm \in Permit
      BY <1>0, <2>2 DEF Latches, NoArm
    <3>2. arm' \in Permit /\ SamePermit
      BY <2>2, <3>1, ChangeSame DEF SamePermit
    <3>3. Permit' = Permit
      BY <2>0 DEF Permit
    <3>4. Latches' /\ Apart(w)
      BY <1>0, <2>0, <3>2, <3>3 DEF Latches, Apart
    <3>5. /\ pc'[w] = "stop" /\ stage'[w] = "evaluate" /\ leg'[w] = 1 /\ cand'[w] = row[tgt[w]]
          /\ verdict'[w] = "NONE" /\ began'[w] = [epoch |-> epoch.n, session |-> session]
          /\ att'[w] = arm.nonce /\ held'[w] = held[w] /\ tgt'[w] = tgt[w] /\ perm'[w] = perm[w]
          /\ snap'[w] = snap[w] /\ Moves(w)
      BY <1>0, <2>0, <2>2 DEF Enter, Moves, Frame, Domains, AInv
    <3>6. /\ [epoch |-> epoch.n, session |-> session] \in [epoch : 0..epoch.n, session : 0..logins]
          /\ arm.nonce \in 1..arms /\ arm.epoch <= epoch.n /\ row[tgt[w]] \in Row
      BY <1>0, <2>0, <3>1 DEF Latches, Permit
    <3>7. Locals(w)'
      BY <1>0, <2>0, <3>3, <3>5, <3>6 DEF Locals, Stages, Chain
    <3>8. Place(w)'
      BY <1>0, <2>0, <3>5, <3>6 DEF Place, Checking, Outside, AttStages
    <3>9. Bound(w)'
      <4>1. /\ arm'.order = tgt'[w] /\ arm'.epoch <= began'[w].epoch
            /\ session' = arm'.session => began'[w].session = arm'.session
        <5>1. began'[w].epoch = epoch.n /\ began'[w].session = session
          BY <3>5
        <5>2. arm.order = tgt[w]
          BY <2>2
        <5> QED
          BY <2>0, <3>2, <3>5, <3>6, <5>1, <5>2 DEF SamePermit
      <4> QED
        BY <3>5, <4>1 DEF Bound, Dispatching
    <3> QED
      BY <3>4, <3>5, <3>7, <3>8, <3>9, OwnStep
  <2> QED
    BY <1>3, <2>1, <2>2 DEF claim
<1>w. ASSUME NEW r \in Row, row' = [row EXCEPT ![tgt[w]] = r], tgt[w] \in Orders, att[w] # 0,
             UNCHANGED latches
      PROVE  Latches' /\ Apart(w) /\ SamePermit /\ Permit' = Permit /\ row'[tgt[w]] = r
  <2>1. row' \in [Orders -> Row] /\ row'[tgt[w]] = r
    BY <1>0, <1>w DEF Latches
  <2>2. Permit' = Permit /\ UNCHANGED <<epoch, arm, arms, session, logins>>
    BY <1>w DEF Permit, latches
  <2> QED
    BY <1>0, <1>w, <2>1, <2>2 DEF Latches, Apart, SamePermit
<1>4. CASE admit(w)
  <2>0. /\ pc[w] = "admit" /\ stage[w] = "commit" /\ snap' = snap /\ tgt[w] \in Orders /\ att[w] # 0
        /\ UNCHANGED latches /\ cand[w] \in Row /\ arm.order = tgt[w] /\ UNCHANGED <<epoch, arms>>
    BY <1>0, <1>4 DEF admit, Place, AttStages, Locals, Bound, latches
  <2>1. CASE row' = row /\ Goto(w, "finDisarm")
    <3>1. Calm
      BY <2>0, <2>1 DEF Calm, latches
    <3> QED
      BY <1>g, <2>0, <2>1, <3>1
  <2>2. CASE /\ row' = [row EXCEPT ![tgt[w]] = [state |-> "SUBMITTING", version |-> cand[w].version + 1]]
             /\ Enter(w, "dispatch", 1, "stop", cand[w]) /\ UNCHANGED kept
    <3>1. PICK s \in Stages, l \in 0..2, p \in {"stop", "read"} : s = "dispatch" /\ l = 1 /\ p = "stop"
      BY DEF Stages, Chain
    <3>2. [state |-> "SUBMITTING", version |-> cand[w].version + 1] \in Row
      BY <2>0 DEF Row
    <3>3. /\ Latches' /\ Apart(w) /\ SamePermit
          /\ row'[tgt[w]] = [state |-> "SUBMITTING", version |-> cand[w].version + 1]
      BY <1>w, <2>0, <2>2, <3>2
    <3>4. /\ Enter(w, s, l, p, cand[w]) /\ s \in AttStages /\ s # "armBefore" /\ att' = att /\ held' = held
      BY <2>2, <3>1 DEF kept, AttStages
    <3>5. /\ DOMAIN tgt' = Callers /\ DOMAIN perm' = Callers /\ tgt'[w] = tgt[w] /\ perm'[w] = perm[w]
          /\ \A u \in Callers \ {w} : perm'[u] = perm[u] /\ tgt'[u] = tgt[u]
      BY <1>0, <2>2 DEF Domains, kept
    <3> QED
      BY <2>0, <3>1, <3>3, <3>4, <3>5, EnterAInv
  <2> QED
    BY <1>4, <2>1, <2>2 DEF admit
<1>5. CASE send(w) \/ fail(w)
  <2>0. /\ pc[w] \in {"send", "fail"} /\ stage[w] \in AttStages /\ snap' = snap /\ tgt[w] \in Orders
        /\ att[w] # 0 /\ UNCHANGED latches /\ Goto(w, "finDisarm") /\ cand[w] \in Row
    BY <1>0, <1>5 DEF send, fail, Place, AttStages, Locals, Dispatching
  <2>1. CASE row' = row
    <3>1. Calm
      BY <2>0, <2>1 DEF Calm, latches
    <3> QED
      BY <1>g, <2>0, <3>1
  <2>2. CASE \E r \in Row : row' = [row EXCEPT ![tgt[w]] = r]
    <3>1. Latches' /\ Apart(w) /\ SamePermit /\ Permit' = Permit
      BY <1>w, <2>0, <2>2
    <3>2. PICK p : p = "finDisarm"
      OBVIOUS
    <3>3. Moves(w) /\ pc'[w] = p /\ Stays(w)
      BY <1>s, <2>0, <3>2, GotoMoves
    <3>4. UNCHANGED <<epoch, arms, session, logins>> /\ snap'[w] = snap[w]
      BY <2>0 DEF latches
    <3>5. Locals(w)'
      BY <1>0, <3>1, <3>3, <3>4 DEF Locals, Stays
    <3>6. Place(w)'
      BY <1>0, <3>2, <3>3 DEF Place, Stays, Checking, Outside
    <3>7. Bound(w)'
      BY <1>0, <3>1, <3>2, <3>3, <3>4 DEF Bound, Stays, SamePermit, Checking
    <3> QED
      BY <3>1, <3>3, <3>5, <3>6, <3>7, OwnStep
  <2>3. ASSUME NEW s \in {"SUBMITTED", "REFUSED", "DENIED"}
        PROVE  [state |-> s, version |-> cand[w].version + 2] \in Row
    BY <2>0 DEF Row
  <2> QED
    BY <1>5, <2>1, <2>2, <2>3 DEF send, fail
<1>6. CASE finDisarm(w)
  <2>1. Goto(w, "complete") /\ snap' = snap /\ Calm
    BY <1>6 DEF finDisarm, disarm, Calm
  <2> QED
    BY <1>g, <2>1
<1>7. CASE complete(w)
  <2>0. Return(w) /\ snap' = snap /\ UNCHANGED <<epoch, arms, session, logins, row>>
    BY <1>7 DEF complete
  <2>1. CASE arm' = arm
    <3>1. Calm
      BY <2>0, <2>1 DEF Calm
    <3> QED
      BY <1>c, <2>0, <3>1, ReturnAInv
  <2>2. CASE att[w] # 0 /\ arm' = change(arm, "CONSUMED", FALSE)
    <3>1. arm' \in Permit /\ SamePermit
      BY <1>p, <2>2, ChangeSame DEF SamePermit
    <3>2. Permit' = Permit
      BY <2>0 DEF Permit
    <3>3. Latches' /\ Apart(w)
      BY <1>0, <2>0, <3>1, <3>2 DEF Latches, Apart
    <3> QED
      BY <2>0, <3>2, <3>3, ReturnAInv
  <2> QED
    BY <1>7, <2>1, <2>2 DEF complete
<1> QED
  BY <1>1, <1>2, <1>3, <1>4, <1>5, <1>6, <1>7

-----------------------------------------------------------------------------
\* Nobody's locals change when the session, the clock or another process moves: a session
\* that ended does not come back, and another process admits only a row nobody has admitted.
LEMMA SurroundingsAInv ==
  ASSUME AInv, IInv', login \/ logout \/ lapse \/ \E o \in Orders : admittedElsewhere(o)
  PROVE  AInv'
<1>0. /\ Latches /\ epoch.n \in Nat /\ arms \in Nat /\ logins \in Nat /\ session \in 0..logins
      /\ UNCHANGED <<epoch, arm, arms>> /\ UNCHANGED locals
  BY MaxEpochsAssumption, MaxArmsAssumption DEF AInv, Latches, login, logout, lapse, admittedElsewhere, latches
<1>1. /\ logins' \in 0..MaxLogins /\ logins' \in Nat /\ logins' >= logins /\ session' \in 0..logins'
      /\ session' = session \/ session' = 0 \/ session' > logins
  BY <1>0, MaxLoginsAssumption DEF Latches, login, logout, lapse, admittedElsewhere, latches
<1>2. \A a \in Permit \cup {NoArm} : a \in Permit' \cup {NoArm}
  BY <1>0, <1>1, PermitGrows
<1>3. /\ row' \in [Orders -> Row]
      /\ \A o \in Orders : row[o].state = "SUBMITTING" => row'[o] = row[o]
  <2>1. CASE row' = row
    BY <1>0, <2>1 DEF Latches
  <2>2. ASSUME NEW o \in Orders, admittedElsewhere(o)
        PROVE  /\ row' \in [Orders -> Row]
               /\ \A q \in Orders : row[q].state = "SUBMITTING" => row'[q] = row[q]
    <3>1. [state |-> "SUBMITTING", version |-> row[o].version + 1] \in Row
      BY <1>0 DEF Latches, Row
    <3> QED
      BY <1>0, <2>2, <3>1 DEF Latches, admittedElsewhere
  <2> QED
    BY <2>1, <2>2 DEF login, logout, lapse
<1>4. Latches'
  BY <1>0, <1>1, <1>2, <1>3 DEF Latches
<1>5. ASSUME NEW u \in Callers PROVE (Locals(u) /\ Place(u) /\ Bound(u))'
  <2>0. Locals(u) /\ Place(u) /\ Bound(u)
    BY DEF AInv
  <2>1. Locals(u)'
    <3>1. 0..logins \subseteq 0..logins'
      BY <1>0, <1>1
    <3>2. began[u] \in [epoch : 0..epoch.n, session : 0..logins']
      BY <2>0, <3>1 DEF Locals
    <3> QED
      BY <1>0, <1>2, <2>0, <3>2 DEF Locals, locals
  <2>2. Place(u)'
    BY <1>0, <2>0 DEF Place, locals
  <2>3. Bound(u)'
    <3> SUFFICES ASSUME stage[u] \in AttStages PROVE Bound(u)'
      BY <1>0 DEF Bound, locals
    <3>1. att[u] # 0 /\ arm.nonce = att[u] /\ tgt[u] \in Orders
      BY <2>0 DEF Place, AInv, IInv, OwnPermit, InFlight
    <3>2. arm.session \in 1..logins
      BY <1>0, <3>1 DEF Latches, Permit, NoArm
    <3>3. session' = arm.session => session = arm.session
      BY <1>0, <1>1, <3>2
    <3> QED
      BY <1>0, <1>3, <2>0, <3>1, <3>3 DEF Bound, locals
  <2> QED
    BY <2>1, <2>2, <2>3
<1> QED
  BY <1>0, <1>4, <1>5 DEF AInv, locals

\* Every step keeps what an attempt knows of its permit.
LEMMA NextAInv == AInv /\ [Next]_vars => AInv'
<1> SUFFICES ASSUME AInv, [Next]_vars PROVE AInv'
  OBVIOUS
<1>0. IInv'
  BY NextKeeps DEF AInv
<1>1. CASE UNCHANGED vars
  BY <1>0, <1>1 DEF vars, AInv, Latches, Permit, Locals, Place, Bound
<1>2. ASSUME NEW w \in Callers, Begin(w) PROVE AInv'
  BY <1>0, <1>2, ControlAInv, ArmAInv, ExecuteAInv DEF Begin
<1>3. ASSUME NEW w \in Callers, Step(w) PROVE AInv'
  BY <1>0, <1>3, CheckingAInv, ControlAInv, ArmAInv, ExecuteAInv DEF Step
<1>4. CASE login \/ logout \/ lapse \/ \E o \in Orders : admittedElsewhere(o)
  BY <1>0, <1>4, SurroundingsAInv
<1> QED
  BY <1>1, <1>2, <1>3, <1>4 DEF Next

\* What an attempt knows of its permit holds in every reachable state.
THEOREM AttemptsBound == Spec => []AInv
<1> QED
  BY InitAInv, NextAInv, PTL DEF Spec

\* The window of a permit is open or over.
WindowOK == lapsed \in BOOLEAN

\* It stays so: every step leaves the window alone or opens or closes it.
LEMMA WindowTyped == Spec => []WindowOK
<1>1. Init => WindowOK
  BY DEF Init, WindowOK
<1>2. WindowOK /\ [Next]_vars => WindowOK'
  <2> SUFFICES ASSUME WindowOK, [Next]_vars PROVE WindowOK'
    OBVIOUS
  <2>1. lapsed' = lapsed \/ lapsed' = TRUE \/ lapsed' = FALSE
    BY DEF Next, Begin, Step, vars, latches, disarm, checkStop, armedRead, armedJudge, bindingReason,
       inspectGates, haltBegin, haltDisarm, disarmCall, statusBegin, prepareResume, resumeDisarm,
       resumeCheck, resumeCas, done, armBegin, armDisarm, armGate, install, publish, recheck, armUndo,
       armEnd, executeBegin, claimRead, claim, admit, send, fail, finDisarm, complete,
       login, logout, lapse, admittedElsewhere
  <2> QED
    BY <2>1 DEF WindowOK
<1> QED
  BY <1>1, <1>2, PTL DEF Spec

\* TypeOK: the halt latch, the permits and every local of every call keep their types,
\* however many calls, logins and permits there are.
THEOREM TypeCorrect == Spec => []TypeOK
<1>1. AInv /\ WindowOK => TypeOK
  <2> SUFFICES ASSUME AInv, WindowOK PROVE TypeOK
    OBVIOUS
  <2>1. Latches /\ \A w \in Callers : Locals(w)
    BY DEF AInv
  <2> QED
    BY <2>1, Zenon DEF Latches, Locals, TypeOK, WindowOK
<1> QED
  BY <1>1, AttemptsBound, WindowTyped, PTL

\* SendAuthorised: past the last check of DispatchGate the request is covered by a permit
\* for that order at the version that was admitted, requested in the halt epoch and the
\* session in which the last check began.
THEOREM SendsAuthorised == Spec => []SendAuthorised
<1>1. AInv => SendAuthorised
  <2> SUFFICES ASSUME AInv, NEW w \in Callers, pc[w] = "send"
               PROVE  /\ arm.nonce = att[w]
                      /\ arm.order = tgt[w] /\ arm.version = cand[w].version
                      /\ began[w] = [epoch |-> arm.epoch, session |-> arm.session]
                      /\ row[tgt[w]].state = "SUBMITTING" /\ row[tgt[w]].version = arm.version + 1
    BY DEF SendAuthorised
  <2>1. stage[w] = "final" /\ leg[w] = 3 /\ verdict[w] = "NONE"
    BY DEF AInv, Place
  <2>2. stage[w] \in AttStages /\ stage[w] \in Dispatching
    BY <2>1 DEF AttStages, Dispatching
  <2>3. arm.nonce = att[w]
    BY <2>2 DEF AInv, IInv, Place, OwnPermit, InFlight
  <2>4. /\ arm.order = tgt[w] /\ arm.version = cand[w].version
        /\ began[w].epoch = arm.epoch /\ began[w].session = arm.session
        /\ row[tgt[w]] = [state |-> "SUBMITTING", version |-> cand[w].version + 1]
    BY <2>1, <2>2 DEF AInv, Bound
  <2>5. began[w] = [epoch |-> began[w].epoch, session |-> began[w].session]
    BY DEF AInv, Locals
  <2> QED
    BY <2>3, <2>4, <2>5
<1> QED
  BY <1>1, AttemptsBound, PTL

=============================================================================
