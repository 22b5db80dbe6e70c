------------------------------- MODULE Profiles -------------------------------
(***************************************************************************)
(* The time profiles: config.json as a start of the engine reads, migrates *)
(* and validates it, the history that a start writes of its changes, the   *)
(* profile that the trader locks for the life of an order, the settlements *)
(* it logs, and what build_change_outcomes.py makes of history and log for *)
(* the models of the nightly review.                                       *)
(*                                                                         *)
(* A profile has a name, a time range and one value, which stands for its  *)
(* strategy parameters.  Any step may happen at any minute of a short day; *)
(* the time of the records is counted by starts and settlements, which     *)
(* never share an instant.                                                 *)
(***************************************************************************)
EXTENDS Integers, FiniteSetsExt

CONSTANTS
  DayLength,     \* minutes of the day; a range ends at most here
  FirstList,     \* the profiles of config.json in the initial state
  Lists,         \* profile lists that are written into it
  DefaultValue,  \* _STRATEGY_DEFAULTS
  Short, Long,   \* the provisional and the longest final window of an outcome
  MaxEdits,      \* bound: writes of config.json
  MaxTime        \* bound: starts and settlements

FullDay(value) == {[name |-> "full_day", start |-> 0, end |-> DayLength, value |-> value]}

ASSUME ProfilesAssumption ==
  /\ DayLength \in Nat \ {0} /\ {Short, Long, DefaultValue, MaxEdits, MaxTime} \subseteq Nat
  /\ \A list \in Lists \cup {FirstList} :
       \A p \in list : p.start \in Nat /\ p.end \in 0..DayLength /\ p.value \in Nat

FlatValue == 2   \* of an old flat config.json

NoTrade == [stage |-> "none"]
NoPayload == [readable |-> FALSE]
DefaultVersion == 0
NoVersion == -1

VARIABLES
  file,      \* config.json
  cache,     \* last_loaded_config.json
  history,   \* config_history.jsonl
  engine,    \* the engine: its stage, and the payload it loaded
  trade,     \* the order or position with its locked profile
  grace,     \* _cancel_fill_grace_by_order_id: the profiles of cancelled orders
  saved,     \* live_state.db: the open position and active_profile_name
  settled,   \* realtime_trading_log_*.csv: the settlements
  outcomes,  \* change_outcomes.jsonl
  now,       \* the time of the records
  edits,     \* bound
  untold,    \* history: a start left a change out of the history, or told it twice
  reused     \* history: a write changed the profiles and kept the version

profileVars == <<file, cache, history, engine, trade, grace, saved, settled,
                 outcomes, now, edits, untold, reused>>
tradeVars == <<trade, grace, saved, settled>>
configVars == <<file, cache, history, edits, reused>>

Payload(version, list) == [readable |-> TRUE, version |-> version, list |-> list]
DefaultPayload == Payload(DefaultVersion, FullDay(DefaultValue))

ProfilesInit ==
  /\ file = [form |-> "profiles", payload |-> Payload(DefaultVersion, FirstList)]
  /\ cache = NoPayload /\ history = {} /\ engine = [stage |-> "down"]
  /\ trade = NoTrade /\ grace = {} /\ saved = NoTrade
  /\ settled = {} /\ outcomes = {} /\ now = 0 /\ edits = 0
  /\ untold = FALSE /\ reused = FALSE

-----------------------------------------------------------------------------
(* profile_config.py.                                                      *)

Minutes == 0..DayLength - 1 \* _now_minute
Covers(p, m) == p.start <= m /\ m < p.end

\* validate_profiles.  Sorted by their start, the profiles begin at 0, end with
\* the day, and each ends where the next one starts: none overlap, no gap.
ValidList(list) ==
  /\ list # {}
  /\ \A p, q \in list : p.name = q.name => p = q
  /\ \A p \in list : p.start < p.end
  /\ \A m \in Minutes : \E p \in list : Covers(p, m)
  /\ \A p, q \in list : p # q => p.end <= q.start \/ q.end <= p.start

ActiveProfile(m) == CHOOSE p \in engine.payload.list : Covers(p, m)

Named(list, name) == {p \in list : p.name = name}
NamesOf(list) == {p.name : p \in list}

-----------------------------------------------------------------------------
(* config.json is written: by the nightly review, which gives each write a *)
(* new version, or by the operator, who may keep the old one, break the    *)
(* file, bring an old flat one back or remove it.                          *)

WriteProfiles ==
  /\ file.form = "profiles" /\ edits < MaxEdits /\ edits' = edits + 1
  /\ \E list \in Lists \ {file.payload.list} :
       \/ /\ file' = [file EXCEPT !.payload = Payload(edits', list)]
          /\ UNCHANGED reused
       \/ /\ file' = [file EXCEPT !.payload.list = list]
          /\ reused' = TRUE
  /\ UNCHANGED <<cache, history, engine, tradeVars, outcomes, now, untold>>

ReplaceFile ==
  /\ edits < MaxEdits /\ edits' = edits + 1
  /\ file' \in {[form |-> "broken"], [form |-> "missing"]}
       \cup {[form |-> "flat", version |-> v, value |-> FlatValue] : v \in {DefaultVersion, edits'}}
       \cup (IF file.form = "profiles" THEN {}
             ELSE {[form |-> "profiles", payload |-> Payload(edits', list)] : list \in Lists})
  /\ reused' = \/ reused
               \/ file'.form = "missing"
               \/ file'.form = "flat" /\ file'.version = DefaultVersion
  /\ UNCHANGED <<cache, history, engine, tradeVars, outcomes, now, untold>>

-----------------------------------------------------------------------------
(* A start of the engine.                                                  *)

\* load_config_payload: a missing file gives the defaults, a flat one a single
\* profile; both are written back.
LoadedPayload ==
  CASE file.form = "missing" -> DefaultPayload
    [] file.form = "flat" -> Payload(file.version, FullDay(file.value))
    [] OTHER -> file.payload

\* _diff_profile_payloads: the names that were changed, added or removed.
Differ(old, new) ==
  {n \in NamesOf(old) \cup NamesOf(new) : Named(old, n) # Named(new, n)}

\* _log_config_history_if_changed, the entry: against the payload of the last
\* start, or the defaults when it cannot be read; a migration tells no names.
EntryOf(payload, migrated) ==
  LET base == IF cache.readable THEN cache ELSE DefaultPayload IN
  [at |-> now + 1, version |-> payload.version,
   previous |-> IF cache.readable THEN cache.version ELSE NoVersion,
   names |-> IF migrated THEN {} ELSE Differ(base.list, payload.list),
   from |-> base.list, to |-> payload.list]

Load ==
  /\ engine.stage = "down" /\ file.form # "broken" /\ now < MaxTime
  /\ LET payload == LoadedPayload
         migrated == file.form = "flat"
         entry == EntryOf(payload, migrated) IN
       /\ ValidList(payload.list)
       /\ file' = [form |-> "profiles", payload |-> payload]
       /\ history' = IF migrated \/ entry.names # {} THEN history \cup {entry} ELSE history
       /\ engine' = [stage |-> "logged", payload |-> payload]
       /\ untold' = (untold \/ (migrated /\ Differ(entry.from, entry.to) # {}))
  /\ now' = now + 1
  /\ UNCHANGED <<cache, tradeVars, outcomes, edits, reused>>

Lock(p) == [name |-> p.name, value |-> p.value]

\* _lock_profile_for_restored_position: the profile of that name, or the active
\* one when the name is gone.
LockOf(name, m) ==
  LET named == Named(engine.payload.list, name) IN
  Lock(IF named # {} THEN CHOOSE p \in named : TRUE ELSE ActiveProfile(m))

\* The payload is remembered, and the position of live_state restored.
Remember ==
  /\ engine.stage = "logged"
  /\ cache' = engine.payload
  /\ engine' = [engine EXCEPT !.stage = "up"]
  /\ \E m \in Minutes :
       LET lock == LockOf(saved.name, m)
           gone == Named(engine.payload.list, saved.owner) = {} IN
       trade' = IF saved = NoTrade THEN NoTrade
                ELSE [stage |-> saved.stage, lock |-> lock,
                      owner |-> IF gone THEN lock.name ELSE saved.owner]
  /\ UNCHANGED <<file, history, grace, saved, settled, outcomes, now, edits, untold, reused>>

\* The engine ends; in a start, before the payload is remembered or while it is
\* written.
Die ==
  /\ engine.stage # "down"
  /\ engine' = [stage |-> "down"]
  /\ trade' = NoTrade /\ grace' = {}
  /\ \/ engine.stage = "up" /\ UNCHANGED <<cache, untold>>
     \/ /\ engine.stage = "logged"
        /\ cache' \in {cache, NoPayload}
        /\ untold' = TRUE
  /\ UNCHANGED <<file, history, saved, settled, outcomes, now, edits, reused>>

-----------------------------------------------------------------------------
(* The trader.                                                             *)

Running == engine.stage = "up"

\* _check_new_entry: the order locks the active profile.
LockAtEntry ==
  /\ Running /\ trade = NoTrade
  /\ \E m \in Minutes :
       trade' = [stage |-> "pending", owner |-> ActiveProfile(m).name, lock |-> Lock(ActiveProfile(m))]
  /\ UNCHANGED <<configVars, engine, grace, saved, settled, outcomes, now, untold>>

FillPending ==
  /\ Running /\ trade.stage = "pending"
  /\ trade' = [trade EXCEPT !.stage = "held"]
  /\ UNCHANGED <<configVars, engine, grace, saved, settled, outcomes, now, untold>>

\* _cancel_order: the profile is noted for a late fill, then the lock cleared.
CancelPending ==
  /\ Running /\ trade.stage = "pending"
  /\ grace' = grace \cup {trade.lock.name}
  /\ trade' = NoTrade
  /\ UNCHANGED <<configVars, engine, saved, settled, outcomes, now, untold>>

\* Mutant: a late fill locks the profile of the clock.
LateFill_Clock(name) ==
  /\ Running
  /\ \E m \in Minutes :
       trade' = IF trade # NoTrade THEN trade
                ELSE [stage |-> "held", owner |-> name, lock |-> Lock(ActiveProfile(m))]
  /\ grace' = grace \ {name}
  /\ UNCHANGED <<configVars, engine, saved, settled, outcomes, now, untold>>

\* _apply_post_cancel_grace_fill: adopted, or ignored if the trader is not flat.
LateFill(name) ==
  /\ Running
  /\ \E m \in Minutes :
       trade' = IF trade # NoTrade THEN trade
                ELSE [stage |-> "held", owner |-> name, lock |-> LockOf(name, m)]
  /\ grace' = grace \ {name}
  /\ UNCHANGED <<configVars, engine, saved, settled, outcomes, now, untold>>

GraceEnds(name) ==
  /\ Running /\ grace' = grace \ {name}
  /\ UNCHANGED <<configVars, engine, trade, saved, settled, outcomes, now, untold>>

\* An exit clears the lock and logs the settlement with the profile that was
\* locked, the version of this run, and the values it was judged by.
Settle ==
  /\ Running /\ trade.stage = "held" /\ now < MaxTime
  /\ settled' = settled \cup
       {[at |-> now + 1, version |-> engine.payload.version,
         name |-> trade.lock.name, value |-> trade.lock.value]}
  /\ trade' = NoTrade
  /\ now' = now + 1
  /\ UNCHANGED <<configVars, engine, grace, saved, outcomes, untold>>

\* active_profile_name is the locked one; that of the clock is saved with no
\* position, and not read again.
SaveLiveState ==
  /\ Running
  /\ saved' = IF trade = NoTrade THEN NoTrade
              ELSE [stage |-> trade.stage, owner |-> trade.owner, name |-> trade.lock.name]
  /\ UNCHANGED <<configVars, engine, trade, grace, settled, outcomes, now, untold>>

-----------------------------------------------------------------------------
(* build_change_outcomes.py.                                               *)

\* _extract_profile_changes: an entry without a previous version is left out.
Changes ==
  UNION {{[at |-> e.at, name |-> n, version |-> e.version, previous |-> e.previous]
            : n \in e.names} : e \in {h \in history : h.previous # NoVersion}}

EarlierChanges(c) == {d.at : d \in {x \in Changes : x.name = c.name /\ x.at < c.at}}
LaterChanges(c) == {d.at : d \in {x \in Changes : x.name = c.name /\ x.at > c.at}}

Window(c, version, first, last) ==
  {r \in settled : r.name = c.name /\ r.version = version /\ first <= r.at /\ r.at <= last}

\* Mutant: settlements of every version are counted.
Evaluation_AnyVersion(c, kind, last, days) ==
  LET first == Max({c.at - days} \cup EarlierChanges(c)) IN
  [at |-> c.at, name |-> c.name, kind |-> kind,
   before |-> {r.value : r \in UNION {Window(c, v, first, c.at) : v \in 0..MaxEdits}},
   after |-> {r.value : r \in UNION {Window(c, v, c.at, last) : v \in 0..MaxEdits}}]

\* _build_evaluation: the values of the settlements that are compared.
Evaluation(c, kind, last, days) ==
  LET first == Max({c.at - days} \cup EarlierChanges(c)) IN
  [at |-> c.at, name |-> c.name, kind |-> kind,
   before |-> {r.value : r \in Window(c, c.previous, first, c.at)},
   after |-> {r.value : r \in Window(c, c.version, c.at, last)}]

\* The next change of the profile ends the final window, else its length.
FinalEnd(c) == IF LaterChanges(c) # {} THEN Min(LaterChanges(c)) ELSE c.at + Long

Due(c) ==
  (IF now >= c.at + Short THEN {Evaluation(c, "provisional", c.at + Short, Short)} ELSE {})
  \cup
  (IF now >= FinalEnd(c)
     THEN {Evaluation(c, "final", FinalEnd(c), Max({1, FinalEnd(c) - c.at}))} ELSE {})

\* _merge_outcomes: an evaluation that was made once is kept.
BuildOutcomes ==
  LET Same(o, d) == o.at = d.at /\ o.name = d.name /\ o.kind = d.kind
      due == UNION {Due(c) : c \in Changes} IN
  /\ outcomes' = outcomes \cup {d \in due : \A o \in outcomes : ~Same(o, d)}
  /\ UNCHANGED <<configVars, engine, tradeVars, now, untold>>

ProfilesNext ==
  \/ WriteProfiles \/ ReplaceFile \/ Load \/ Remember \/ Die
  \/ LockAtEntry \/ FillPending \/ CancelPending \/ Settle
  \/ \E name \in grace : LateFill(name) \/ GraceEnds(name)
  \/ SaveLiveState \/ BuildOutcomes

ProfilesSpec == ProfilesInit /\ [][ProfilesNext]_profileVars

-----------------------------------------------------------------------------

\* What config.json may hold.
Contents == Lists \cup {FirstList, FullDay(DefaultValue), FullDay(FlatValue)}
Names == UNION {NamesOf(list) : list \in Contents}
Locks == [name : Names, value : Nat]

ProfilesTypeOK ==
  /\ file.form \in {"missing", "broken", "flat", "profiles"}
  /\ cache.readable \in BOOLEAN
  /\ engine.stage \in {"down", "logged", "up"}
  /\ trade = NoTrade \/ (trade.stage \in {"pending", "held"} /\ trade.lock \in Locks)
  /\ \A r \in settled : r.at \in 1..MaxTime /\ r.version \in 0..MaxEdits
  /\ now \in 0..MaxTime /\ edits \in 0..MaxEdits

(***************************************************************************)
(* While an order or a position is open, it is judged by the profile that  *)
(* placed it, whatever profile the clock has reached: after a fill that    *)
(* arrives late for a cancelled order, and after a restart, where that     *)
(* name has the values of the new config.json, or is gone from it.         *)
(***************************************************************************)
LockedWhileHeld ==
  trade # NoTrade =>
    LET own == Named(engine.payload.list, trade.owner) IN
    own # {} => \E p \in own : trade.lock = [name |-> p.name, value |-> p.value]

(***************************************************************************)
(* An evaluation of a change compares settlements that were judged by the  *)
(* value before it with settlements that were judged by the value after    *)
(* it, and counts no others, over restarts, edits, profiles that come and  *)
(* go, and starts that die between history and cache.  It may fail only if *)
(* a version was given to two contents: for a provisional evaluation then  *)
(* at once, for a final one if, besides, a start did not tell its change.  *)
(***************************************************************************)
EvaluationsExact ==
  \A o \in outcomes : \A e \in history :
    o.at = e.at =>
      \/ reused /\ (untold \/ o.kind = "provisional")
      \/ /\ o.before \subseteq {p.value : p \in Named(e.from, o.name)}
         /\ o.after \subseteq {p.value : p \in Named(e.to, o.name)}
=============================================================================
