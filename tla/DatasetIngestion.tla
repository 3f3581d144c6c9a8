-------------------------- MODULE DatasetIngestion --------------------------
(***************************************************************************)
(* phase1439/pipeline.py: instrument masters, candle batches checked       *)
(* against them, and the in-memory session (Transient) that accepts a      *)
(* batch once and allows research on what it accepted until it expires;    *)
(* phase1440/datasets.py: the ledger of candles a dataset must have, the   *)
(* assessment of the records delivered for it, and its certification.      *)
(*                                                                         *)
(* Time is counted in candles of five minutes; candle t spans t..t+1.      *)
(* master: [observed, expires, token]      token: symbol -> token          *)
(* batch:  [id, master, symbol, token, observed, bars, verified]           *)
(* scope:  [length, days, holidays, sessions, listed, pauses, known,       *)
(*          periods, complete, events, adjustment]; known: when the        *)
(*          calendar, listing and suspension evidence was available        *)
(* record: [start, available, token, sound]; sound: the candle is well     *)
(*          formed and its mapping generation and source batch are right   *)
(***************************************************************************)
EXTENDS Integers, Sequences, FiniteSets, SequencesExt

CONSTANTS
  Symbols, Tokens,
  Symbol,             \* the symbol whose data is ingested
  Validity,           \* how long a master is valid
  Starts, Expires,    \* lifetime of the session
  BatchIds,
  Sessions,           \* the calendar of a batch: a set of [start, end]
  Scopes, DayLength,
  Records,            \* records that may be delivered
  MaxNow, MaxMasters, MaxRecords, MaxBack

Intervals == [start : Int, end : Int]

ASSUME IngestionAssumption ==
  /\ {Validity, Starts, Expires, MaxNow, MaxMasters, MaxRecords, MaxBack} \subseteq Nat
  /\ Symbol \in Symbols /\ DayLength \in Nat \ {0} /\ Sessions \subseteq Intervals
  /\ \A r \in Records : r.start \in Int /\ r.available \in Int
  /\ \A sc \in Scopes : sc.length \in Nat /\ sc.sessions \subseteq Intervals /\ sc.listed \in Intervals
                       /\ sc.pauses \in Seq(Intervals) /\ Len(sc.periods) \in Nat
                       /\ DOMAIN sc.periods = 1 .. Len(sc.periods)

VARIABLES
  now,          \* what callers pass as now
  back,         \* how often it was set back
  masters,      \* accepted masters, the newest last
  session,      \* [seen, closed]; seen: the checkpoints, one batch per id
  studied,      \* [batch, master, at] of every research
  scope,        \* of the dataset to certify
  delivered,    \* the records, in order of delivery
  certified,    \* contents certified under the dataset's id
  report        \* the last assessment

ingestionVars == <<now, back, masters, session, studied, scope, delivered, certified, report>>

NoReport == [status |-> "NONE"]

(***************************************************************************)
(* Masters.                                                                *)
(***************************************************************************)
IsOneToOne(f) == \A a, b \in DOMAIN f : f[a] = f[b] => a = b

MasterValid(m) == m.observed <= now /\ now < m.expires

\* The checks of master() against the master before it.
Follows(m, old) ==
  /\ old.observed < m.observed
  /\ \A s \in Symbols, q \in Symbols : old.token[q] = m.token[s] => q = s

AcceptMaster ==
  /\ Len(masters) < MaxMasters
  /\ \E token \in [Symbols -> Tokens] :
       LET m == [observed |-> now, expires |-> now + Validity, token |-> token]
       IN  /\ IsOneToOne(token)
           /\ masters # <<>> => Follows(m, Last(masters))
           /\ masters' = Append(masters, m)
  /\ UNCHANGED <<now, back, session, studied, scope, delivered, certified, report>>

(***************************************************************************)
(* Candle batches and the transient session.                               *)
(***************************************************************************)
SlotsOf(sessions) == UNION {s.start .. (s.end - 1) : s \in sessions}

\* Mutant of candles: the mapping may have expired since the batch was accepted.
candlesOldMapping(b, m) ==
  /\ b.master = m /\ b.token = m.token[b.symbol]
  /\ m.observed <= b.observed /\ b.observed <= now
  /\ b.bars \subseteq SlotsOf(Sessions)

candles(b, m) ==
  /\ MasterValid(m)
  /\ b.master = m /\ b.token = m.token[b.symbol]
  /\ m.observed <= b.observed /\ b.observed <= now
  /\ \A t \in b.bars : t + 1 <= b.observed
  /\ b.bars \subseteq SlotsOf(Sessions)

\* completeness(): what the calendar, listing and corporate-action evidence leave open
\* comes before missing candles.
completeness(b, m) ==
  IF ~candles(b, m) THEN "INVALID"
  ELSE IF b.verified # "all" THEN b.verified
  ELSE IF b.bars = {} THEN "DATA_UNAVAILABLE"
  ELSE IF b.bars # SlotsOf(Sessions) THEN "PARTIAL"
  ELSE "COMPLETE"

Batches ==
  {[id |-> i, master |-> m, symbol |-> Symbol, token |-> t, observed |-> o, bars |-> b, verified |-> v] :
     i \in BatchIds, m \in ToSet(masters), t \in Tokens, o \in {now, now - 1},
     b \in {SlotsOf(Sessions), SlotsOf(Sessions) \ {CHOOSE x \in SlotsOf(Sessions) : TRUE}},
     v \in {"all", "CALENDAR_UNVERIFIED"}}

\* dispose(): nothing stays.
Dispose == [seen |-> {}, closed |-> TRUE]

\* active(): a call at or after the expiry closes the session for good.
Active == IF now >= Expires THEN Dispose ELSE session

IsActive == ~Active.closed /\ Starts <= now /\ now < Expires

Accept(b, m) ==
  /\ session' = IF /\ IsActive /\ completeness(b, m) = "COMPLETE"
                   /\ \A x \in session.seen : x.id # b.id
                THEN [session EXCEPT !.seen = @ \cup {b}] ELSE Active
  /\ UNCHANGED <<now, back, masters, studied, scope, delivered, certified, report>>

\* Mutant of Research: the batch is only looked up by its id.
ResearchById(b, m) ==
  /\ session' = Active
  /\ studied' = IF IsActive /\ completeness(b, m) = "COMPLETE" /\ \E x \in session.seen : x.id = b.id
                THEN studied \cup {[batch |-> b, master |-> m, at |-> now]} ELSE studied
  /\ UNCHANGED <<now, back, masters, scope, delivered, certified, report>>

Research(b, m) ==
  /\ session' = Active
  /\ studied' = IF IsActive /\ completeness(b, m) = "COMPLETE" /\ b \in session.seen
                THEN studied \cup {[batch |-> b, master |-> m, at |-> now]} ELSE studied
  /\ UNCHANGED <<now, back, masters, scope, delivered, certified, report>>

Close ==
  /\ ~session.closed
  /\ session' = Dispose
  /\ UNCHANGED <<now, back, masters, studied, scope, delivered, certified, report>>

(***************************************************************************)
(* The expected ledger and the assessment of phase1440.                    *)
(***************************************************************************)
Window(sc) == 0 .. (sc.length * DayLength - 1)

SessionOn(sc, d) == {s \in sc.sessions : s.start \div DayLength = d}

Regular(s, d) == s.start = d * DayLength /\ s.end = d * DayLength + 2

\* The requirements of expected(): every day of the window has a session of the kind it is
\* said to be or is a holiday; listing and suspensions lie inside the window, in order; all
\* of it was known when the window began.
CalendarVerified(sc) ==
  /\ sc.known <= 0
  /\ sc.listed.start \in Window(sc) /\ sc.listed.start < sc.listed.end /\ sc.listed.end - 1 \in Window(sc)
  /\ DOMAIN sc.days = 0 .. (sc.length - 1)
  /\ {s.start \div DayLength : s \in sc.sessions} \cup sc.holidays = DOMAIN sc.days
  /\ \A s \in sc.sessions : s.start \in Window(sc) /\ s.end - 1 \in Window(sc)
  /\ \A d \in DOMAIN sc.days :
       IF SessionOn(sc, d) = {} THEN sc.days[d] = "VERIFIED_NON_TRADING_DAY"
       ELSE \/ sc.days[d] = "SPECIAL_SESSION_VERIFIED"
            \/ sc.days[d] = "VERIFIED_SESSION" /\ \A s \in SessionOn(sc, d) : Regular(s, d)
  /\ \A i \in DOMAIN sc.pauses :
       /\ sc.listed.start <= sc.pauses[i].start /\ sc.pauses[i].start < sc.pauses[i].end
       /\ sc.pauses[i].end <= sc.listed.end
       /\ i > 1 => sc.pauses[i-1].end <= sc.pauses[i].start

\* expected(): the candles wholly inside a session and the listing and outside every pause.
expected(sc) ==
  {t \in SlotsOf(sc.sessions) :
     /\ sc.listed.start <= t /\ t + 1 <= sc.listed.end
     /\ \A i \in DOMAIN sc.pauses : ~(t < sc.pauses[i].end /\ t + 1 > sc.pauses[i].start)}

\* identity(): periods of one symbol do not overlap and no token serves two symbols.
identity(sc) ==
  /\ sc.periods # <<>>
  /\ \A i \in DOMAIN sc.periods :
       LET a == sc.periods[i]
       IN  /\ a.observed <= a.start /\ a.start < a.end /\ a.observed <= now
           /\ \A j \in 1 .. (i - 1) :
                LET b == sc.periods[j]
                IN  IF a.symbol = b.symbol THEN a.end <= b.start \/ b.end <= a.start
                                           ELSE a.token # b.token

\* actions(): events must be of the window, known before they take effect and carry their
\* ratio or amount; prices are never adjusted here.
actions(sc) ==
  IF \/ ~sc.complete
     \/ \E e \in sc.events : e.effective \notin Window(sc) \/ e.available > e.effective \/ ~e.valued
  THEN "CORPORATE_ACTION_UNVERIFIED"
  ELSE IF sc.events # {} THEN "ADJUSTMENT_REQUIRED"
  ELSE IF sc.adjustment # "RAW_UNADJUSTED" THEN "ADJUSTMENT_UNVERIFIED"
  ELSE "NOT_APPLICABLE"

Covering(sc, t) == {i \in DOMAIN sc.periods : sc.periods[i].symbol = Symbol
                                              /\ sc.periods[i].start <= t /\ t + 1 <= sc.periods[i].end}

\* A record counts when it was available after its candle and by now, under the token that
\* was the symbol's at that time.
RecordValid(r, sc) ==
  /\ r.sound
  /\ r.start + 1 <= r.available /\ r.available <= now
  /\ \E i \in Covering(sc, r.start) :
       sc.periods[i].token = r.token /\ \A j \in Covering(sc, r.start) : sc.periods[j].token = r.token => j = i

\* missing_runs(): one pass over the missing candles in order.
missing_runs(missing) ==
  FoldLeft(LAMBDA runs, t :
             IF runs # <<>> /\ Last(runs).last + 1 = t
             THEN [runs EXCEPT ![Len(runs)] = [@ EXCEPT !.last = t, !.count = @ + 1]]
             ELSE Append(runs, [first |-> t, last |-> t, count |-> 1]),
           <<>>, SetToSortSeq(missing, <))

\* What assess() requires before it looks at a record; "" when nothing is wrong.
Refusal(sc) ==
  IF ~(Starts <= now /\ now < Expires) THEN "RETENTION_NOT_AUTHORIZED"
  ELSE IF now < sc.length * DayLength THEN "DATASET_INVALID"
  ELSE IF ~CalendarVerified(sc) THEN "CALENDAR_UNVERIFIED"
  ELSE IF ~identity(sc) \/ \E t \in expected(sc) : Cardinality(Covering(sc, t)) # 1
       THEN "INSTRUMENT_IDENTITY_UNVERIFIED"
  ELSE IF actions(sc) \in {"CORPORATE_ACTION_UNVERIFIED", "ADJUSTMENT_UNVERIFIED"} THEN actions(sc)
  ELSE ""

\* An invalid record, a candle that is repeated, not expected or out of order.
Irregular(raw, sc) ==
  LET starts == [i \in DOMAIN raw |-> raw[i].start]
  IN  \/ \E i \in DOMAIN raw : ~RecordValid(raw[i], sc)
      \/ ~IsInjective(starts) \/ ToSet(starts) \ expected(sc) # {}
      \/ \E i \in DOMAIN raw : i > 1 /\ starts[i-1] > starts[i]

\* assess(): a refusal, or the status with the diagnosis of the records.
assess(raw, sc) ==
  LET want == expected(sc)
      got == {raw[i].start : i \in {j \in DOMAIN raw : RecordValid(raw[j], sc)}}
      status ==
        IF Irregular(raw, sc) THEN "DATASET_INVALID"
        ELSE IF actions(sc) = "ADJUSTMENT_REQUIRED" THEN "ADJUSTMENT_UNVERIFIED"
        ELSE IF want \ got # {} \/ want = {} THEN "SYNTHETIC_DATASET_PARTIAL"
        ELSE "SYNTHETIC_DATASET_CERTIFIED"
  IN  IF Refusal(sc) # "" THEN [status |-> Refusal(sc)]
      ELSE [status |-> status, raw |-> raw, at |-> now, missing |-> want \ got,
            runs |-> missing_runs(want \ got), valid |-> got \cap want]

Deliver ==
  /\ Len(delivered) < MaxRecords
  /\ \E r \in Records : delivered' = Append(delivered, r)
  /\ UNCHANGED <<now, back, masters, session, studied, scope, certified, report>>

\* The source starts over with an empty file.
Withdraw ==
  /\ delivered # <<>> /\ delivered' = <<>>
  /\ UNCHANGED <<now, back, masters, session, studied, scope, certified, report>>

Assess ==
  /\ report' = assess(delivered, scope)
  /\ UNCHANGED <<now, back, masters, session, studied, scope, delivered, certified>>

\* Certification.accept: a receipt, once for the dataset's id.
Certify ==
  /\ certified = {}
  /\ assess(delivered, scope).status = "SYNTHETIC_DATASET_CERTIFIED"
  /\ certified' = {assess(delivered, scope)}
  /\ UNCHANGED <<now, back, masters, session, studied, scope, delivered, report>>

TimePasses ==
  /\ now < MaxNow
  /\ now' = now + 1
  /\ UNCHANGED <<back, masters, session, studied, scope, delivered, certified, report>>

SetBack ==
  /\ back < MaxBack /\ now > 0
  /\ now' = now - 1 /\ back' = back + 1
  /\ UNCHANGED <<masters, session, studied, scope, delivered, certified, report>>

IngestionInit ==
  /\ now = 0 /\ back = 0
  /\ masters = <<>>
  /\ session = [seen |-> {}, closed |-> FALSE]
  /\ studied = {}
  /\ scope \in Scopes
  /\ delivered = <<>> /\ certified = {} /\ report = NoReport

IngestionNext ==
  \/ report # NoReport /\ report' = NoReport
     /\ UNCHANGED <<now, back, masters, session, studied, scope, delivered, certified>>
  \/ /\ report = NoReport
     /\ \/ AcceptMaster
        \/ \E b \in Batches, m \in ToSet(masters) : Accept(b, m) \/ Research(b, m)
        \/ Close \/ Deliver \/ Withdraw \/ Assess \/ Certify \/ TimePasses \/ SetBack

IngestionSpec == IngestionInit /\ [][IngestionNext]_ingestionVars

-----------------------------------------------------------------------------
\* Types; a closed session remembers nothing.
IngestionTypeOK ==
  /\ now \in 0..MaxNow
  /\ session.closed \in BOOLEAN
  /\ session.closed => session.seen = {}
  /\ \A m \in ToSet(masters) : IsOneToOne(m.token)
  /\ \A x, y \in session.seen : x.id = y.id => x = y

\* Research uses complete batches only, whose mapping is valid while it runs and in which
\* no candle had still to end when the batch was observed.
StudiedIsCurrent ==
  \A x \in studied :
    /\ x.batch.bars = SlotsOf(Sessions)
    /\ x.master.observed <= x.at /\ x.at < x.master.expires
    /\ \A t \in x.batch.bars : t + 1 <= x.at

\* Two consecutive masters never give a token to different symbols.
TokensKeepTheirSymbol ==
  \A i \in DOMAIN masters : i > 1 =>
    \A s, q \in Symbols : masters[i-1].token[q] = masters[i].token[s] => s = q

\* The intervals of a scope in which the symbol did trade, from its own calendar.
Traded(sc) ==
  {t \in Window(sc) :
     /\ \E s \in sc.sessions : s.start <= t /\ t < s.end
     /\ t \in sc.listed.start .. (sc.listed.end - 1)
     /\ ~\E i \in DOMAIN sc.pauses : sc.pauses[i].start <= t /\ t < sc.pauses[i].end}

\* A certified dataset is the sequence of all candles of the traded intervals, each once,
\* in order, none read before it ended, all of one security: no other symbol had the token
\* and no corporate action changed what a share is.
CertifiedIsWhole ==
  \A c \in certified :
    /\ {c.raw[i].start : i \in DOMAIN c.raw} = Traded(scope) /\ scope.events = {}
    /\ \A i \in DOMAIN c.raw :
         /\ i > 1 => c.raw[i-1].start < c.raw[i].start
         /\ c.raw[i].available > c.raw[i].start /\ c.raw[i].available <= c.at
         /\ \A j \in DOMAIN scope.periods :
              scope.periods[j].token = c.raw[i].token => scope.periods[j].symbol = Symbol

\* One content is certified under an id.
CertifiedOnce == Cardinality(certified) <= 1

\* Research uses only batches that are complete under a master still valid, tokens keep their
\* symbol, and a dataset is certified once and only when every expected candle is there.
IngestionSound ==
  /\ IngestionTypeOK /\ StudiedIsCurrent /\ TokensKeepTheirSymbol
  /\ CertifiedIsWhole /\ CertifiedOnce

\* A research is of a batch the open session has accepted with exactly that content, and a
\* session closed by a call at its expiry accepts and allows nothing again, also when the
\* now is set back.
StudiedWasAccepted ==
  [][/\ \A x \in studied' \ studied : x.batch \in session.seen
     /\ session.closed => session' = session /\ studied' = studied]_ingestionVars

\* The diagnosis of an assessment adds up: the runs are disjoint, in order, never adjacent,
\* and together the missing candles; what is missing or valid is what was expected.
DiagnosisAddsUp ==
  "runs" \in DOMAIN report =>
    LET r == report.runs
    IN  /\ UNION {r[i].first .. r[i].last : i \in DOMAIN r} = report.missing
        /\ \A i \in DOMAIN r : r[i].count = r[i].last - r[i].first + 1
        /\ \A i \in DOMAIN r : i > 1 => r[i-1].last + 1 < r[i].first
        /\ report.valid \cup report.missing = Traded(scope)
        /\ report.valid \cap report.missing = {}

=============================================================================
