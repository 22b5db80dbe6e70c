--------------------------- MODULE Profiles_proofs ---------------------------
(***************************************************************************)
(* Proofs about Profiles for any day, profile lists, windows and bounds,   *)
(* and the types of the specification that checks it with Ledger.          *)
(***************************************************************************)
EXTENDS MCLedger, Ledger_proofs, WellFoundedInduction

Versions == 0..MaxEdits
Times == 1..MaxTime
Payloads == [readable : {TRUE}, version : Versions, list : Contents]
Files ==
  {[form |-> "broken"], [form |-> "missing"]}
    \cup [form : {"flat"}, version : Versions, value : {FlatValue}]
    \cup [form : {"profiles"}, payload : Payloads]
Entries ==
  [at : Times, version : Versions, previous : Versions \cup {NoVersion},
   names : SUBSET Names, from : Contents, to : Contents]
Settlements == [at : Times, version : Versions, name : Names, value : Nat]
Opened == [stage : {"pending", "held"}, owner : Names, lock : Locks]

TypesInv ==
  /\ file \in Files /\ cache \in Payloads \cup {NoPayload}
  /\ history \subseteq Entries
  /\ engine \in {[stage |-> "down"]} \cup [stage : {"logged", "up"}, payload : Payloads]
  /\ trade \in {NoTrade} \cup Opened
  /\ grace \subseteq Names
  /\ saved \in {NoTrade} \cup [stage : {"pending", "held"}, owner : Names, name : Names]
  /\ settled \subseteq Settlements
  /\ now \in 0..MaxTime /\ edits \in Versions /\ untold \in BOOLEAN /\ reused \in BOOLEAN

\* A lock comes from the list the engine runs by.
LockInv ==
  /\ engine.stage # "down" => ValidList(engine.payload.list)
  /\ trade # NoTrade =>
       /\ engine.stage = "up" /\ trade.owner = trade.lock.name
       /\ \E p \in engine.payload.list : trade.lock = Lock(p)
  /\ saved # NoTrade => saved.owner = saved.name
  /\ grace # {} => engine.stage = "up" /\ grace \subseteq NamesOf(engine.payload.list)

ValuesOf(list, n) == {p.value : p \in Named(list, n)}

\* Starts and settlements have times of their own, up to now.
Stamped ==
  /\ \A e \in history : e.at <= now
  /\ \A r \in settled : r.at <= now /\ \A e \in history : r.at # e.at
  /\ \A d, e \in history : d.at = e.at => d = e

\* The content each version was given to.
Versioned(c) ==
  /\ file.form # "missing"
  /\ file.form = "profiles" =>
       file.payload.version <= edits /\ c[file.payload.version] = file.payload.list
  /\ file.form = "flat" => file.version <= edits /\ c[file.version] = FullDay(file.value)
  /\ cache.readable => cache.version <= edits /\ c[cache.version] = cache.list
  /\ engine.stage # "down" =>
       engine.payload.version <= edits /\ c[engine.payload.version] = engine.payload.list
  /\ \A e \in history :
       /\ e.version <= edits /\ c[e.version] = e.to
       /\ e.previous # NoVersion => e.previous <= edits /\ c[e.previous] = e.from
  /\ \A r \in settled : r.version <= edits /\ r.value \in ValuesOf(c[r.version], r.name)

VersionInv == ~reused => \E c \in [Versions -> Contents] : Versioned(c)

\* A change of the profile that the outcomes can see, after a and up to b.
Told(n, a, b) ==
  \E e \in history : n \in e.names /\ e.previous # NoVersion /\ a < e.at /\ e.at <= b

\* What the last start ran by.
Content == IF engine.stage = "down" THEN cache.list ELSE engine.payload.list

\* Between a settlement or a start and a later one the values of a profile
\* are the same, or a change was told.
ToldI ==
  /\ engine.stage = "up" => cache = engine.payload
  /\ ~cache.readable => settled = {} /\ (engine.stage = "down" => history = {})
  /\ cache.readable \/ engine.stage # "down" =>
       /\ \A r \in settled : Told(r.name, r.at, now) \/ r.value \in ValuesOf(Content, r.name)
       /\ \A e \in history : \A n \in Names :
            Told(n, e.at, now) \/ Named(e.to, n) = Named(Content, n)
  /\ \A r \in settled, e \in history :
       /\ e.at < r.at => Told(r.name, e.at, r.at) \/ r.value \in ValuesOf(e.to, r.name)
       /\ r.at < e.at /\ e.previous # NoVersion =>
            Told(r.name, r.at, e.at - 1) \/ r.value \in ValuesOf(e.from, r.name)

ToldInv == ~untold => ToldI

OutcomesInv == EvaluationsExact /\ \A o \in outcomes : o.at \in Nat /\ o.at <= now

PInv == TypesInv /\ LockInv /\ Stamped /\ VersionInv /\ ToldInv /\ OutcomesInv

-----------------------------------------------------------------------------
(* Least and greatest elements.                                            *)

LEMMA LeastOf ==
  ASSUME NEW S \in SUBSET Nat, S # {}
  PROVE  \E m \in S : \A x \in S : m <= x
<1>1. PICK m \in S : \A x \in S : <<x, m>> \notin OpToRel(<, Nat)
  BY WFMin, NatLessThanWellFounded
<1>2. \A x \in S : ~(x < m)
  BY <1>1, Zenon DEF OpToRel
<1> QED
  BY <1>2

LEMMA MinIs ==
  ASSUME NEW S \in SUBSET Nat, S # {}
  PROVE  Min(S) \in S /\ \A x \in S : Min(S) <= x
BY LeastOf DEF Min

LEMMA MaxIs ==
  ASSUME NEW S \in SUBSET Int, S # {}, NEW b \in Int, \A x \in S : x <= b
  PROVE  Max(S) \in S /\ \A x \in S : x <= Max(S)
<1> DEFINE D == {b - x : x \in S}
<1>1. \A x \in S : b - x \in Nat
  OBVIOUS
<1>2. D \in SUBSET Nat
  BY <1>1
<1>3. D # {}
  OBVIOUS
<1>4. PICK m \in D : \A y \in D : m <= y
  <2> HIDE DEF D
  <2> QED BY <1>2, <1>3, LeastOf
<1>5. PICK top \in S : m = b - top
  BY <1>4
<1>6. \A x \in S : b - x \in D
  OBVIOUS
<1>7. \A x \in S : m <= b - x
  <2> HIDE DEF D
  <2> QED BY <1>4, <1>6
<1>8. \A x \in S : x <= top
  BY <1>5, <1>7
<1> QED
  BY <1>8 DEF Max

-----------------------------------------------------------------------------
(* The contents of config.json.                                            *)

LEMMA Bounds ==
  /\ MaxEdits \in Nat /\ MaxTime \in Nat /\ DefaultValue \in Nat /\ FlatValue \in Nat
  /\ Long \in Nat /\ Short \in Nat
  /\ NoVersion \in Int /\ NoVersion \notin Versions /\ DefaultVersion \in Versions
  /\ Versions \subseteq Nat /\ Times \subseteq Nat
BY ProfilesAssumption DEF FlatValue, NoVersion, DefaultVersion, Versions, Times

\* Profiles have a name of Names and a natural value.
LEMMA ProfileIs ==
  ASSUME NEW list \in Contents, NEW p \in list
  PROVE  p.name \in Names /\ p.value \in Nat /\ Lock(p) \in Locks
<1>1. p.name \in Names
  BY DEF Names, NamesOf
<1>2. p.value \in Nat
  <2>1. CASE list \in Lists \cup {FirstList}
    BY <2>1, ProfilesAssumption
  <2>2. CASE list \in {FullDay(DefaultValue), FullDay(FlatValue)}
    BY <2>2, Bounds DEF FullDay
  <2> QED
    BY <2>1, <2>2 DEF Contents
<1> QED
  BY <1>1, <1>2 DEF Lock, Locks

LEMMA PayloadIs ==
  ASSUME NEW v \in Versions, NEW list \in Contents
  PROVE  /\ Payload(v, list) \in Payloads
         /\ Payload(v, list).version = v /\ Payload(v, list).list = list
         /\ Payload(v, list).readable
BY DEF Payload, Payloads

LEMMA PayloadParts ==
  ASSUME NEW p \in Payloads
  PROVE  p.version \in Versions /\ p.list \in Contents /\ p.readable /\ p # NoPayload
<1>1. p.readable = TRUE /\ p.version \in Versions /\ p.list \in Contents
  BY DEF Payloads
<1>2. NoPayload.readable = FALSE
  BY DEF NoPayload
<1> QED
  BY <1>1, <1>2

LEMMA DefaultIs ==
  /\ DefaultPayload \in Payloads /\ DefaultPayload.list = FullDay(DefaultValue)
  /\ DefaultPayload.version = DefaultVersion
BY PayloadIs, Bounds DEF DefaultPayload, Contents

LEMMA LoadedIs ==
  ASSUME TypesInv, file.form # "broken"
  PROVE  LoadedPayload \in Payloads
<1>1. CASE file.form = "missing"
  BY <1>1, DefaultIs DEF LoadedPayload
<1>2. CASE file.form = "flat"
  <2>1. file.version \in Versions /\ file.value = FlatValue
    BY <1>2 DEF TypesInv, Files
  <2> QED
    BY <1>2, <2>1, PayloadIs DEF LoadedPayload, Contents
<1>3. CASE file.form \notin {"missing", "flat"}
  <2>1. file.payload \in Payloads
    BY <1>3 DEF TypesInv, Files
  <2> QED
    BY <1>3, <2>1 DEF LoadedPayload
<1> QED
  BY <1>1, <1>2, <1>3

\* The previous profiles of an entry, and its fields.
LEMMA EntryIs ==
  ASSUME TypesInv, NEW payload \in Payloads, NEW migrated \in BOOLEAN, now < MaxTime
  PROVE  /\ EntryOf(payload, migrated) \in Entries
         /\ EntryOf(payload, migrated).at = now + 1
         /\ EntryOf(payload, migrated).version = payload.version
         /\ EntryOf(payload, migrated).to = payload.list
         /\ cache.readable => /\ EntryOf(payload, migrated).previous = cache.version
                              /\ EntryOf(payload, migrated).from = cache.list
         /\ ~cache.readable => EntryOf(payload, migrated).previous = NoVersion
         /\ \A n \in Names \ Differ(EntryOf(payload, migrated).from, payload.list) :
              Named(EntryOf(payload, migrated).from, n) = Named(payload.list, n)
         /\ ~migrated => EntryOf(payload, migrated).names
                           = Differ(EntryOf(payload, migrated).from, payload.list)
<1> DEFINE base == IF cache.readable THEN cache ELSE DefaultPayload
           entry == EntryOf(payload, migrated)
<1>1. base \in Payloads
  BY DefaultIs DEF TypesInv, NoPayload
<1>2. base.list \in Contents /\ payload.list \in Contents /\ payload.version \in Versions
  BY <1>1, PayloadParts
<1>3. Differ(base.list, payload.list) \subseteq Names
  BY <1>2 DEF Differ, Names
<1>4. /\ entry.at = now + 1 /\ entry.version = payload.version
      /\ entry.previous = IF cache.readable THEN cache.version ELSE NoVersion
      /\ entry.names = IF migrated THEN {} ELSE Differ(base.list, payload.list)
      /\ entry.from = base.list /\ entry.to = payload.list
  BY DEF EntryOf
<1>5. now + 1 \in Times
  BY Bounds DEF TypesInv, Times
<1>6. entry.previous \in Versions \cup {NoVersion}
  BY <1>1, <1>4, PayloadParts
<1>7. entry \in Entries
  <2> DEFINE a == now + 1
             v == IF cache.readable THEN cache.version ELSE NoVersion
             t == IF migrated THEN {} ELSE Differ(base.list, payload.list)
             f == base.list
             g == payload.list
             h == payload.version
  <2>1. entry = [at |-> a, version |-> h, previous |-> v, names |-> t, from |-> f, to |-> g]
    BY DEF EntryOf
  <2>2. /\ a \in Times /\ h \in Versions /\ v \in Versions \cup {NoVersion}
        /\ t \in SUBSET Names /\ f \in Contents /\ g \in Contents
    BY <1>2, <1>3, <1>4, <1>5, <1>6
  <2> HIDE DEF a, v, t, f, g, h, entry
  <2> QED
    BY <2>1, <2>2 DEF Entries
<1>8. \A n : n \notin NamesOf(base.list) => Named(base.list, n) = {}
  BY DEF Named, NamesOf
<1>9. \A n : n \notin NamesOf(payload.list) => Named(payload.list, n) = {}
  BY DEF Named, NamesOf
<1>10. \A n \in Names \ Differ(base.list, payload.list) :
         Named(base.list, n) = Named(payload.list, n)
  BY <1>8, <1>9 DEF Differ
<1> HIDE DEF entry
<1>11. cache.readable => base = cache
  OBVIOUS
<1> HIDE DEF base
<1>12. /\ cache.readable => entry.previous = cache.version /\ entry.from = cache.list
       /\ ~cache.readable => entry.previous = NoVersion
  BY <1>4, <1>11
<1>13. ~migrated => entry.names = Differ(entry.from, payload.list)
  BY <1>4
<1>14. \A n \in Names \ Differ(entry.from, payload.list) :
         Named(entry.from, n) = Named(payload.list, n)
  BY <1>4, <1>10
<1> QED
  BY <1>4, <1>7, <1>12, <1>13, <1>14 DEF entry

-----------------------------------------------------------------------------
(* Types and locks.                                                        *)

LEMMA TypesStart == ProfilesInit => TypesInv /\ LockInv /\ Stamped
<1> SUFFICES ASSUME ProfilesInit PROVE TypesInv /\ LockInv /\ Stamped
  OBVIOUS
<1>1. file = [form |-> "profiles", payload |-> Payload(DefaultVersion, FirstList)]
  BY DEF ProfilesInit
<1>2. Payload(DefaultVersion, FirstList) \in Payloads
  BY PayloadIs, Bounds DEF Contents
<1>3. file \in Files
  BY <1>1, <1>2 DEF Files
<1>4. /\ engine = [stage |-> "down"] /\ trade = NoTrade /\ saved = NoTrade /\ grace = {}
      /\ history = {} /\ settled = {} /\ cache = NoPayload /\ now = 0 /\ edits = 0
      /\ untold = FALSE /\ reused = FALSE
  BY DEF ProfilesInit
<1>5. 0 \in 0..MaxTime /\ 0 \in Versions
  BY Bounds DEF Versions
<1>6. TypesInv
  BY <1>3, <1>4, <1>5 DEF TypesInv
<1> QED
  BY <1>4, <1>6 DEF LockInv, Stamped

LEMMA FileStep ==
  ASSUME TypesInv, WriteProfiles \/ ReplaceFile
  PROVE  file' \in Files /\ edits' \in Versions /\ reused' \in BOOLEAN
<1>1. edits' = edits + 1 /\ edits' \in Versions
  <2>1. edits' = edits + 1 /\ edits < MaxEdits
    BY DEF WriteProfiles, ReplaceFile
  <2> QED
    BY <2>1, Bounds DEF TypesInv, Versions
<1>2. CASE WriteProfiles
  <2>1. PICK list \in Lists :
          \/ /\ file' = [file EXCEPT !.payload = Payload(edits', list)]
             /\ UNCHANGED reused
          \/ /\ file' = [file EXCEPT !.payload.list = list]
             /\ reused' = TRUE
    BY <1>2 DEF WriteProfiles
  <2>2. list \in Contents /\ file.form = "profiles"
    BY <1>2 DEF Contents, WriteProfiles
  <2>3. file \in [form : {"profiles"}, payload : Payloads]
    BY <2>2 DEF TypesInv, Files
  <2>4. Payload(edits', list) \in Payloads
    BY <1>1, <2>2, PayloadIs
  <2>5. [file.payload EXCEPT !.list = list] \in Payloads
    BY <2>2, <2>3 DEF Payloads
  <2>6. file' \in [form : {"profiles"}, payload : Payloads]
    BY <2>1, <2>3, <2>4, <2>5
  <2> QED
    BY <1>1, <2>1, <2>6 DEF TypesInv, Files
<1>3. CASE ReplaceFile
  <2>1. \A list \in Lists : Payload(edits', list) \in Payloads
    BY <1>1, PayloadIs DEF Contents
  <2>2. file' \in Files
    BY <1>1, <1>3, <2>1, Bounds DEF ReplaceFile, Files
  <2>3. reused' \in BOOLEAN
    BY <1>3 DEF ReplaceFile, TypesInv
  <2> QED
    BY <1>1, <2>2, <2>3
<1> QED
  BY <1>2, <1>3

\* The profile that covers a minute is one of the list.
LEMMA ActiveIs ==
  ASSUME TypesInv, LockInv, engine.stage # "down", NEW m \in Minutes
  PROVE  ActiveProfile(m) \in engine.payload.list
BY DEF LockInv, ValidList, ActiveProfile

\* The lock of a name is a profile of the list, and of that name unless it is
\* gone.
LEMMA LockOfIs ==
  ASSUME TypesInv, LockInv, engine.stage # "down", NEW m \in Minutes, NEW name
  PROVE  /\ \E p \in engine.payload.list : LockOf(name, m) = Lock(p)
         /\ Named(engine.payload.list, name) # {} => LockOf(name, m).name = name
<1>1. CASE Named(engine.payload.list, name) # {}
  <2> DEFINE p == CHOOSE p \in Named(engine.payload.list, name) : TRUE
  <2>1. p \in Named(engine.payload.list, name)
    BY <1>1
  <2>2. p \in engine.payload.list /\ p.name = name
    BY <2>1 DEF Named
  <2>3. LockOf(name, m) = Lock(p)
    BY <1>1 DEF LockOf
  <2> HIDE DEF p
  <2> QED
    BY <2>2, <2>3 DEF Lock
<1>2. CASE Named(engine.payload.list, name) = {}
  BY <1>2, ActiveIs DEF LockOf
<1> QED
  BY <1>1, <1>2

LEMMA LocksTyped ==
  ASSUME TypesInv, engine.stage # "down", NEW p \in engine.payload.list
  PROVE  Lock(p) \in Locks /\ Lock(p).name = p.name /\ p.name \in Names /\ p.value \in Nat
<1>1. engine.payload \in Payloads
  BY DEF TypesInv
<1> QED
  BY <1>1, PayloadParts, ProfileIs DEF Lock

LEMMA OpenedIs ==
  ASSUME NEW stage \in {"pending", "held"}, NEW owner \in Names, NEW lock \in Locks
  PROVE  [stage |-> stage, lock |-> lock, owner |-> owner] \in Opened
BY DEF Opened

LEMMA TypesStep ==
  ASSUME TypesInv, LockInv, ProfilesNext
  PROVE  TypesInv'
<1> USE DEF configVars, tradeVars
<1>1. CASE WriteProfiles \/ ReplaceFile
  <2>1. UNCHANGED <<cache, history, engine, trade, grace, saved, settled, outcomes, now, untold>>
    BY <1>1 DEF WriteProfiles, ReplaceFile
  <2> QED
    BY <1>1, <2>1, FileStep DEF TypesInv
<1>2. CASE Load
  <2> DEFINE payload == LoadedPayload
             entry == EntryOf(payload, file.form = "flat")
  <2>1. file.form # "broken" /\ now < MaxTime /\ now' = now + 1
    BY <1>2 DEF Load
  <2>2. payload \in Payloads
    BY <2>1, LoadedIs
  <2>3. entry \in Entries
    BY <2>1, <2>2, EntryIs
  <2>4. /\ file' = [form |-> "profiles", payload |-> payload]
        /\ history' \in {history, history \cup {entry}}
        /\ engine' = [stage |-> "logged", payload |-> payload]
        /\ untold' \in BOOLEAN
    BY <1>2 DEF Load, TypesInv
  <2> HIDE DEF payload, entry
  <2>5. file' \in Files /\ history' \subseteq Entries
    BY <2>2, <2>3, <2>4 DEF Files, TypesInv
  <2>6. engine' \in [stage : {"logged", "up"}, payload : Payloads]
    BY <2>2, <2>4
  <2>7. now' \in 0..MaxTime
    BY <2>1, Bounds DEF TypesInv
  <2>8. UNCHANGED <<cache, trade, grace, saved, settled, outcomes, edits, reused>>
    BY <1>2 DEF Load
  <2> QED
    BY <2>4, <2>5, <2>6, <2>7, <2>8 DEF TypesInv
<1>3. CASE Remember
  <2>1. /\ engine.stage = "logged" /\ engine' = [engine EXCEPT !.stage = "up"]
        /\ cache' = engine.payload
        /\ UNCHANGED <<file, history, grace, saved, settled, outcomes, now, edits, untold, reused>>
    BY <1>3 DEF Remember
  <2>2. engine \in [stage : {"logged", "up"}, payload : Payloads]
    BY <2>1 DEF TypesInv
  <2>3. engine' \in [stage : {"logged", "up"}, payload : Payloads] /\ cache' \in Payloads
    BY <2>1, <2>2
  <2>4. PICK m \in Minutes :
          trade' = IF saved = NoTrade THEN NoTrade
                   ELSE [stage |-> saved.stage, lock |-> LockOf(saved.name, m),
                         owner |-> IF Named(engine.payload.list, saved.owner) = {}
                                     THEN LockOf(saved.name, m).name ELSE saved.owner]
    BY <1>3 DEF Remember
  <2> DEFINE lock == LockOf(saved.name, m)
             owner == IF Named(engine.payload.list, saved.owner) = {} THEN lock.name ELSE saved.owner
  <2>5. lock \in Locks /\ lock.name \in Names
    BY <2>1, LockOfIs, LocksTyped DEF Locks
  <2> HIDE DEF lock
  <2>6. saved # NoTrade => saved.stage \in {"pending", "held"} /\ owner \in Names
    BY <2>5 DEF TypesInv
  <2>7. trade' = IF saved = NoTrade THEN NoTrade
                 ELSE [stage |-> saved.stage, lock |-> lock, owner |-> owner]
    BY <2>4 DEF lock
  <2> HIDE DEF owner
  <2>8. trade' \in {NoTrade} \cup Opened
    BY <2>5, <2>6, <2>7, OpenedIs
  <2> QED
    BY <2>1, <2>3, <2>8 DEF TypesInv
<1>4. CASE Die
  <2>1. /\ engine' = [stage |-> "down"] /\ trade' = NoTrade /\ grace' = {}
        /\ cache' \in {cache, NoPayload} /\ untold' \in {untold, TRUE}
        /\ UNCHANGED <<file, history, saved, settled, outcomes, now, edits, reused>>
    BY <1>4 DEF Die
  <2> QED
    BY <2>1 DEF TypesInv
<1>5. CASE LockAtEntry
  <2>1. PICK m \in Minutes :
          trade' = [stage |-> "pending", owner |-> ActiveProfile(m).name, lock |-> Lock(ActiveProfile(m))]
    BY <1>5 DEF LockAtEntry
  <2>2. engine.stage # "down"
    BY <1>5 DEF LockAtEntry, Running
  <2>3. ActiveProfile(m).name \in Names /\ Lock(ActiveProfile(m)) \in Locks
    BY <2>2, ActiveIs, LocksTyped
  <2>4. trade' \in Opened
    BY <2>1, <2>3, OpenedIs
  <2>5. UNCHANGED <<configVars, engine, grace, saved, settled, outcomes, now, untold>>
    BY <1>5 DEF LockAtEntry
  <2> QED
    BY <2>4, <2>5 DEF TypesInv
<1>6. CASE FillPending
  <2>1. trade \in Opened
    BY <1>6 DEF FillPending, TypesInv, NoTrade
  <2>2. trade' \in Opened
    BY <1>6, <2>1 DEF FillPending, Opened
  <2>3. UNCHANGED <<configVars, engine, grace, saved, settled, outcomes, now, untold>>
    BY <1>6 DEF FillPending
  <2> QED
    BY <2>2, <2>3 DEF TypesInv
<1>7. CASE CancelPending
  <2>1. trade \in Opened
    BY <1>7 DEF CancelPending, TypesInv, NoTrade
  <2>2. trade.lock.name \in Names
    BY <2>1 DEF Opened, Locks
  <2>3. /\ grace' = grace \cup {trade.lock.name} /\ trade' = NoTrade
        /\ UNCHANGED <<configVars, engine, saved, settled, outcomes, now, untold>>
    BY <1>7 DEF CancelPending
  <2> QED
    BY <2>2, <2>3 DEF TypesInv
<1>8. ASSUME NEW name \in grace, LateFill(name)
      PROVE  TypesInv'
  <2>1. PICK m \in Minutes :
          trade' = IF trade # NoTrade THEN trade
                   ELSE [stage |-> "held", owner |-> name, lock |-> LockOf(name, m)]
    BY <1>8 DEF LateFill
  <2>2. engine.stage # "down"
    BY <1>8 DEF LateFill, Running
  <2>3. LockOf(name, m) \in Locks /\ name \in Names
    BY <2>2, LockOfIs, LocksTyped DEF TypesInv
  <2>4. trade' \in {NoTrade} \cup Opened
    BY <2>1, <2>3, OpenedIs DEF TypesInv
  <2>5. grace' = grace \ {name} /\ UNCHANGED <<configVars, engine, saved, settled, outcomes, now, untold>>
    BY <1>8 DEF LateFill
  <2> QED
    BY <2>4, <2>5 DEF TypesInv
<1>9. ASSUME NEW name \in grace, GraceEnds(name)
      PROVE  TypesInv'
  BY <1>9 DEF GraceEnds, TypesInv
<1>10. CASE Settle
  <2>1. /\ engine.stage = "up" /\ trade \in Opened /\ now < MaxTime /\ now' = now + 1
        /\ trade' = NoTrade
        /\ UNCHANGED <<configVars, engine, grace, saved, outcomes, untold>>
    BY <1>10 DEF Settle, Running, TypesInv, NoTrade
  <2>2. trade.lock.name \in Names /\ trade.lock.value \in Nat
    BY <2>1 DEF Opened, Locks
  <2>3. engine.payload.version \in Versions
    BY <2>1, PayloadParts DEF TypesInv
  <2>4. now + 1 \in Times /\ now' \in 0..MaxTime
    BY <2>1, Bounds DEF TypesInv, Times
  <2>5. settled' \subseteq Settlements
    BY <1>10, <2>2, <2>3, <2>4 DEF Settle, Settlements, TypesInv
  <2> QED
    BY <2>1, <2>4, <2>5 DEF TypesInv
<1>11. CASE SaveLiveState
  <2>1. saved' = IF trade = NoTrade THEN NoTrade
                 ELSE [stage |-> trade.stage, owner |-> trade.owner, name |-> trade.lock.name]
    BY <1>11 DEF SaveLiveState
  <2>2. trade # NoTrade =>
          trade.stage \in {"pending", "held"} /\ trade.owner \in Names /\ trade.lock.name \in Names
    BY DEF TypesInv, Opened, Locks
  <2>3. saved' \in {NoTrade} \cup [stage : {"pending", "held"}, owner : Names, name : Names]
    BY <2>1, <2>2
  <2>4. UNCHANGED <<configVars, engine, trade, grace, settled, outcomes, now, untold>>
    BY <1>11 DEF SaveLiveState
  <2> QED
    BY <2>3, <2>4 DEF TypesInv
<1>12. CASE BuildOutcomes
  BY <1>12 DEF BuildOutcomes, TypesInv
<1> QED
  BY <1>1, <1>2, <1>3, <1>4, <1>5, <1>6, <1>7, <1>8, <1>9, <1>10, <1>11, <1>12 DEF ProfilesNext

LEMMA LockStep ==
  ASSUME TypesInv, LockInv, ProfilesNext
  PROVE  LockInv'
<1> USE DEF configVars, tradeVars
<1>1. CASE WriteProfiles \/ ReplaceFile
  <2>1. UNCHANGED <<engine, trade, grace, saved>>
    BY <1>1 DEF WriteProfiles, ReplaceFile
  <2> QED
    BY <2>1 DEF LockInv, ValidList
<1>2. CASE Load
  <2>1. /\ engine.stage = "down" /\ ValidList(LoadedPayload.list)
        /\ engine' = [stage |-> "logged", payload |-> LoadedPayload]
        /\ UNCHANGED <<trade, grace, saved>>
    BY <1>2 DEF Load
  <2>2. trade' = NoTrade /\ grace' = {}
    BY <2>1 DEF LockInv
  <2>3. engine'.payload.list = LoadedPayload.list
    BY <2>1
  <2> QED
    BY <2>1, <2>2, <2>3 DEF LockInv, ValidList
<1>3. CASE Remember
  <2>1. /\ engine.stage = "logged" /\ engine' = [engine EXCEPT !.stage = "up"]
        /\ UNCHANGED <<grace, saved>>
    BY <1>3 DEF Remember
  <2>2. engine'.payload = engine.payload /\ engine'.stage = "up"
    BY <2>1 DEF TypesInv
  <2>3. PICK m \in Minutes :
          trade' = IF saved = NoTrade THEN NoTrade
                   ELSE [stage |-> saved.stage, lock |-> LockOf(saved.name, m),
                         owner |-> IF Named(engine.payload.list, saved.owner) = {}
                                     THEN LockOf(saved.name, m).name ELSE saved.owner]
    BY <1>3 DEF Remember
  <2>4. trade' # NoTrade =>
          trade'.owner = trade'.lock.name /\ trade'.lock = LockOf(saved.name, m)
    BY <2>1, <2>3, LockOfIs DEF LockInv
  <2>5. \E p \in engine.payload.list : LockOf(saved.name, m) = Lock(p)
    BY <2>1, LockOfIs
  <2> QED
    BY <2>1, <2>2, <2>4, <2>5 DEF LockInv, ValidList
<1>4. CASE Die
  <2>1. /\ engine' = [stage |-> "down"] /\ trade' = NoTrade /\ grace' = {} /\ saved' = saved
    BY <1>4 DEF Die
  <2> QED
    BY <2>1 DEF LockInv
<1>5. CASE LockAtEntry
  <2>1. PICK m \in Minutes :
          trade' = [stage |-> "pending", owner |-> ActiveProfile(m).name, lock |-> Lock(ActiveProfile(m))]
    BY <1>5 DEF LockAtEntry
  <2>2. engine.stage = "up" /\ UNCHANGED <<engine, grace, saved>>
    BY <1>5 DEF LockAtEntry, Running
  <2>3. ActiveProfile(m) \in engine.payload.list
    BY <2>2, ActiveIs
  <2>4. trade'.owner = trade'.lock.name /\ trade'.lock = Lock(ActiveProfile(m))
    BY <2>1 DEF Lock
  <2> QED
    BY <2>2, <2>3, <2>4 DEF LockInv, ValidList
<1>6. CASE FillPending
  <2>1. trade \in Opened /\ trade # NoTrade
    BY <1>6 DEF FillPending, TypesInv, NoTrade
  <2>2. trade'.owner = trade.owner /\ trade'.lock = trade.lock
    BY <1>6, <2>1 DEF FillPending, Opened
  <2>3. UNCHANGED <<engine, grace, saved>>
    BY <1>6 DEF FillPending
  <2> QED
    BY <2>1, <2>2, <2>3 DEF LockInv, ValidList
<1>7. CASE CancelPending
  <2>1. trade # NoTrade /\ engine.stage = "up" /\ trade' = NoTrade
        /\ grace' = grace \cup {trade.lock.name} /\ UNCHANGED <<engine, saved>>
    BY <1>7 DEF CancelPending, Running, NoTrade
  <2>2. trade.lock.name \in NamesOf(engine.payload.list)
    BY <2>1, LocksTyped DEF LockInv, NamesOf
  <2> QED
    BY <2>1, <2>2 DEF LockInv, ValidList
<1>8. ASSUME NEW name \in grace, LateFill(name)
      PROVE  LockInv'
  <2>1. PICK m \in Minutes :
          trade' = IF trade # NoTrade THEN trade
                   ELSE [stage |-> "held", owner |-> name, lock |-> LockOf(name, m)]
    BY <1>8 DEF LateFill
  <2>2. /\ engine.stage = "up" /\ grace' = grace \ {name}
        /\ UNCHANGED <<engine, saved>>
    BY <1>8 DEF LateFill, Running
  <2>3. Named(engine.payload.list, name) # {}
    BY DEF LockInv, Named, NamesOf
  <2>4. trade = NoTrade => trade'.owner = trade'.lock.name /\ trade'.lock = LockOf(name, m)
    BY <2>1, <2>2, <2>3, LockOfIs
  <2>5. \E p \in engine.payload.list : LockOf(name, m) = Lock(p)
    BY <2>2, LockOfIs
  <2> QED
    BY <2>1, <2>2, <2>4, <2>5 DEF LockInv, ValidList
<1>9. ASSUME NEW name \in grace, GraceEnds(name)
      PROVE  LockInv'
  BY <1>9 DEF GraceEnds, LockInv, ValidList
<1>10. CASE Settle
  <2>1. trade' = NoTrade /\ UNCHANGED <<engine, grace, saved>>
    BY <1>10 DEF Settle
  <2> QED
    BY <2>1 DEF LockInv, ValidList
<1>11. CASE SaveLiveState
  <2>1. saved' = IF trade = NoTrade THEN NoTrade
                 ELSE [stage |-> trade.stage, owner |-> trade.owner, name |-> trade.lock.name]
    BY <1>11 DEF SaveLiveState
  <2>2. UNCHANGED <<engine, trade, grace>>
    BY <1>11 DEF SaveLiveState
  <2> QED
    BY <2>1, <2>2 DEF LockInv, ValidList
<1>12. CASE BuildOutcomes
  BY <1>12 DEF BuildOutcomes, LockInv, ValidList
<1> QED
  BY <1>1, <1>2, <1>3, <1>4, <1>5, <1>6, <1>7, <1>8, <1>9, <1>10, <1>11, <1>12 DEF ProfilesNext

-----------------------------------------------------------------------------
(* Times and versions.                                                     *)

\* The steps that neither start nor settle nor write config.json.
Quiet ==
  /\ UNCHANGED <<file, history, settled, now, edits, reused>>
  /\ \/ UNCHANGED <<cache, engine, untold>>
     \/ /\ engine.stage = "logged" /\ engine' = [engine EXCEPT !.stage = "up"]
        /\ cache' = engine.payload /\ untold' = untold
     \/ /\ engine.stage # "down" /\ engine' = [stage |-> "down"]
        /\ \/ engine.stage = "up" /\ UNCHANGED <<cache, untold>>
           \/ cache' \in {cache, NoPayload} /\ untold' = TRUE

LEMMA Steps ==
  ASSUME TypesInv, ProfilesNext
  PROVE  WriteProfiles \/ ReplaceFile \/ Load \/ Settle \/ Quiet
<1> USE DEF configVars, tradeVars
<1>1. CASE Remember
  BY <1>1 DEF Remember, Quiet
<1>2. CASE Die
  BY <1>2 DEF Die, Quiet
<1>3. CASE LockAtEntry \/ FillPending \/ CancelPending \/ SaveLiveState \/ BuildOutcomes
  BY <1>3 DEF LockAtEntry, FillPending, CancelPending, SaveLiveState, BuildOutcomes, Quiet
<1>4. ASSUME NEW name \in grace, LateFill(name) \/ GraceEnds(name)
      PROVE  Quiet
  BY <1>4 DEF LateFill, GraceEnds, Quiet
<1> QED
  BY <1>1, <1>2, <1>3, <1>4 DEF ProfilesNext

\* What a write, a start and a settlement do to the records.
LEMMA WriteIs ==
  ASSUME WriteProfiles \/ ReplaceFile
  PROVE  UNCHANGED <<cache, history, engine, settled, outcomes, now, untold>>
         /\ edits' = edits + 1 /\ (reused => reused')
<1> USE DEF configVars, tradeVars
<1>1. CASE WriteProfiles
  <2>1. UNCHANGED <<cache, history, engine, settled, outcomes, now, untold>> /\ edits' = edits + 1
    BY <1>1 DEF WriteProfiles
  <2>2. reused' = reused \/ reused' = TRUE
    BY <1>1 DEF WriteProfiles
  <2> QED
    BY <2>1, <2>2
<1>2. CASE ReplaceFile
  BY <1>2 DEF ReplaceFile
<1> QED
  BY <1>1, <1>2

\* A start with this payload, and the entry it makes of it.
Started(payload, entry) ==
  /\ payload = LoadedPayload
  /\ engine.stage = "down" /\ engine' = [stage |-> "logged", payload |-> payload]
  /\ file.form # "broken" /\ file' = [form |-> "profiles", payload |-> payload]
  /\ now' = now + 1
  /\ entry.at = now + 1 /\ entry.version = payload.version /\ entry.to = payload.list
  /\ cache.readable => entry.previous = cache.version /\ entry.from = cache.list
  /\ ~cache.readable => entry.previous = NoVersion
  /\ history' = history \cup {entry} \/ (history' = history /\ entry.names = {})
  /\ untold => untold'
  /\ ~untold' => \A n \in Names \ entry.names :
                   Named(entry.from, n) = Named(payload.list, n)
  /\ UNCHANGED <<cache, settled, outcomes, edits, reused>>

LEMMA LoadIs ==
  ASSUME TypesInv, Load
  PROVE  \E payload \in Payloads, entry \in Entries : Started(payload, entry)
<1> DEFINE migrated == file.form = "flat"
           payload == LoadedPayload
           entry == EntryOf(payload, migrated)
<1>1. /\ engine.stage = "down" /\ file.form # "broken" /\ now < MaxTime /\ now' = now + 1
      /\ file' = [form |-> "profiles", payload |-> payload]
      /\ history' = IF migrated \/ entry.names # {} THEN history \cup {entry} ELSE history
      /\ engine' = [stage |-> "logged", payload |-> payload]
      /\ untold' = (untold \/ (migrated /\ Differ(entry.from, entry.to) # {}))
  BY DEF Load
<1>2. UNCHANGED <<cache, settled, outcomes, edits, reused>>
  BY DEF Load, tradeVars
<1>3. payload \in Payloads /\ migrated \in BOOLEAN
  BY <1>1, LoadedIs
<1>4. /\ entry \in Entries
      /\ entry.at = now + 1 /\ entry.version = payload.version /\ entry.to = payload.list
      /\ cache.readable => entry.previous = cache.version /\ entry.from = cache.list
      /\ ~cache.readable => entry.previous = NoVersion
      /\ \A n \in Names \ Differ(entry.from, payload.list) :
           Named(entry.from, n) = Named(payload.list, n)
      /\ ~migrated => entry.names = Differ(entry.from, payload.list)
  <2> HIDE DEF payload, migrated
  <2> QED
    BY <1>1, <1>3, EntryIs
<1>5. payload = LoadedPayload
  OBVIOUS
<1> HIDE DEF payload, entry, migrated
<1>6. ~untold' => \A n \in Names \ entry.names :
                    Named(entry.from, n) = Named(payload.list, n)
  BY <1>1, <1>4
<1>7. payload \in Payloads /\ entry \in Entries
  BY <1>3, <1>4
<1>8. Started(payload, entry)
  BY <1>1, <1>2, <1>4, <1>5, <1>6 DEF Started
<1> QED
  BY <1>7, <1>8

LEMMA SettleIs ==
  ASSUME TypesInv, LockInv, Settle
  PROVE  \E r \in Settlements :
           /\ settled' = settled \cup {r} /\ r.at = now + 1 /\ now' = now + 1
           /\ engine.stage = "up" /\ r.version = engine.payload.version
           /\ r.value \in ValuesOf(engine.payload.list, r.name)
           /\ UNCHANGED <<file, cache, history, edits, reused, engine, outcomes, untold>>
<1> DEFINE r == [at |-> now + 1, version |-> engine.payload.version,
                 name |-> trade.lock.name, value |-> trade.lock.value]
<1>1. /\ engine.stage = "up" /\ trade \in Opened /\ now < MaxTime /\ now' = now + 1
      /\ trade # NoTrade /\ settled' = settled \cup {r}
      /\ UNCHANGED <<file, cache, history, edits, reused, engine, outcomes, untold>>
  BY DEF Settle, Running, TypesInv, NoTrade, configVars
<1>2. trade.lock.name \in Names /\ trade.lock.value \in Nat
  BY <1>1 DEF Opened, Locks
<1>3. engine.payload.version \in Versions
  BY <1>1, PayloadParts DEF TypesInv
<1>4. now + 1 \in Times
  BY <1>1, Bounds DEF TypesInv, Times
<1>5. r \in Settlements
  BY <1>2, <1>3, <1>4 DEF Settlements
<1>6. PICK p \in engine.payload.list : trade.lock = Lock(p)
  BY <1>1 DEF LockInv
<1>7. trade.lock.name = p.name /\ trade.lock.value = p.value
  BY <1>6 DEF Lock
<1>8. r.at = now + 1 /\ r.version = engine.payload.version /\ r.name = p.name /\ r.value = p.value
  BY <1>7
<1> HIDE DEF r
<1>9. r.value \in ValuesOf(engine.payload.list, r.name)
  BY <1>8 DEF ValuesOf, Named
<1> WITNESS r \in Settlements
<1> QED
  BY <1>1, <1>8, <1>9

LEMMA StampedStep ==
  ASSUME TypesInv, LockInv, Stamped, ProfilesNext
  PROVE  Stamped'
<1>1. now \in Nat
  BY Bounds DEF TypesInv
<1>2. /\ \A e \in history : e.at \in Nat
      /\ \A r \in settled : r.at \in Nat
  BY Bounds DEF TypesInv, Entries, Settlements
<1>3. CASE Quiet \/ WriteProfiles \/ ReplaceFile
  BY <1>3, WriteIs DEF Quiet, Stamped
<1>4. CASE Load
  <2>1. PICK entry \in Entries :
          /\ now' = now + 1 /\ entry.at = now + 1 /\ settled' = settled
          /\ history' = history \cup {entry} \/ history' = history
    BY <1>4, LoadIs DEF Started
  <2> QED
    BY <1>1, <1>2, <2>1 DEF Stamped
<1>5. CASE Settle
  <2>1. PICK r \in Settlements :
          /\ settled' = settled \cup {r} /\ r.at = now + 1 /\ now' = now + 1
          /\ history' = history
    BY <1>5, SettleIs
  <2> QED
    BY <1>1, <1>2, <2>1 DEF Stamped
<1> QED
  BY <1>3, <1>4, <1>5, Steps

-----------------------------------------------------------------------------
(* A version stands for one content, unless it was given to two.           *)

LEMMA VersionStart == ProfilesInit => VersionInv
<1> SUFFICES ASSUME ProfilesInit PROVE \E c \in [Versions -> Contents] : Versioned(c)
  BY DEF VersionInv
<1> DEFINE c == [v \in Versions |-> FirstList]
<1>1. c \in [Versions -> Contents] /\ c[DefaultVersion] = FirstList
  BY Bounds DEF Contents
<1>2. /\ file.form = "profiles" /\ file.payload = Payload(DefaultVersion, FirstList)
      /\ ~cache.readable /\ engine.stage = "down" /\ history = {} /\ settled = {} /\ edits = 0
  BY DEF ProfilesInit, NoPayload
<1>3. file.payload.version = DefaultVersion /\ file.payload.list = FirstList
  BY <1>2, PayloadIs, Bounds DEF Contents
<1> HIDE DEF c
<1>4. Versioned(c)
  BY <1>1, <1>2, <1>3 DEF Versioned, DefaultVersion
<1> QED
  BY <1>1, <1>4

\* A write gives the next version to what it writes.
LEMMA WriteVersions ==
  ASSUME TypesInv, WriteProfiles \/ ReplaceFile, ~reused',
         NEW c \in [Versions -> Contents], Versioned(c)
  PROVE  \E d \in [Versions -> Contents] : Versioned(d)'
<1>1. /\ UNCHANGED <<cache, history, engine, settled>>
      /\ edits' = edits + 1 /\ edits' \in Versions /\ edits \in Nat
  BY WriteIs, FileStep, Bounds DEF TypesInv, Versions
<1>2. \E content \in Contents :
        \/ file'.form = "broken"
        \/ file'.form = "flat" /\ file'.version = edits' /\ file'.value = FlatValue
           /\ content = FullDay(FlatValue)
        \/ file'.form = "profiles" /\ file'.payload.version = edits'
           /\ file'.payload.list = content
  <2>1. CASE WriteProfiles
    <3>1. PICK list \in Lists : file' = [file EXCEPT !.payload = Payload(edits', list)]
      BY <2>1 DEF WriteProfiles
    <3>2. file \in [form : {"profiles"}, payload : Payloads]
      BY <2>1 DEF WriteProfiles, TypesInv, Files
    <3>3. list \in Contents
      BY DEF Contents
    <3>4. file'.form = "profiles" /\ file'.payload = Payload(edits', list)
      BY <3>1, <3>2
    <3> QED
      BY <1>1, <3>3, <3>4, PayloadIs
  <2>2. CASE ReplaceFile
    <3>1. \/ file' = [form |-> "broken"]
          \/ file' = [form |-> "flat", version |-> edits', value |-> FlatValue]
          \/ \E list \in Lists : file' = [form |-> "profiles", payload |-> Payload(edits', list)]
      BY <2>2 DEF ReplaceFile
    <3>2. CASE file' = [form |-> "broken"]
      BY <3>2 DEF Contents
    <3>3. CASE file' = [form |-> "flat", version |-> edits', value |-> FlatValue]
      BY <3>3 DEF Contents
    <3>4. ASSUME NEW list \in Lists, file' = [form |-> "profiles", payload |-> Payload(edits', list)]
          PROVE  file'.form = "profiles" /\ file'.payload.version = edits'
                 /\ file'.payload.list = list /\ list \in Contents
      <4>1. list \in Contents
        BY DEF Contents
      <4> QED
        BY <1>1, <3>4, <4>1, PayloadIs
    <3> QED
      BY <3>1, <3>2, <3>3, <3>4
  <2> QED
    BY <2>1, <2>2
<1>3. PICK content \in Contents :
        \/ file'.form = "broken"
        \/ file'.form = "flat" /\ file'.version = edits' /\ file'.value = FlatValue
           /\ content = FullDay(FlatValue)
        \/ file'.form = "profiles" /\ file'.payload.version = edits'
           /\ file'.payload.list = content
  BY <1>2
<1>4. /\ [c EXCEPT ![edits'] = content] \in [Versions -> Contents]
      /\ [c EXCEPT ![edits'] = content][edits'] = content
      /\ \A v \in Versions : v <= edits => [c EXCEPT ![edits'] = content][v] = c[v]
  BY <1>1, Bounds
<1>5. PICK d \in [Versions -> Contents] :
        d[edits'] = content /\ \A v \in Versions : v <= edits => d[v] = c[v]
  BY <1>4
<1>6. /\ cache.readable => cache.version \in Versions
      /\ engine.stage # "down" => engine.payload.version \in Versions
      /\ \A e \in history : e.version \in Versions
      /\ \A e \in history : e.previous # NoVersion => e.previous \in Versions
      /\ \A r \in settled : r.version \in Versions
  <2>1. cache.readable => cache.version \in Versions
    BY PayloadParts DEF TypesInv, NoPayload
  <2>2. engine.stage # "down" => engine.payload.version \in Versions
    BY PayloadParts DEF TypesInv
  <2> QED
    BY <2>1, <2>2 DEF TypesInv, Entries, Settlements
<1>7. \A v \in Versions : v <= edits => v <= edits'
  BY <1>1, Bounds
<1>8. Versioned(d)'
  <2>1. file'.form # "missing"
    BY <1>3
  <2>2. file'.form = "profiles" =>
          file'.payload.version <= edits' /\ d[file'.payload.version] = file'.payload.list
    BY <1>1, <1>3, <1>5
  <2>3. file'.form = "flat" => file'.version <= edits' /\ d[file'.version] = FullDay(file'.value)
    BY <1>1, <1>3, <1>5
  <2>4. cache.readable => cache.version <= edits' /\ d[cache.version] = cache.list
    BY <1>5, <1>6, <1>7 DEF Versioned
  <2>5. engine.stage # "down" =>
          engine.payload.version <= edits' /\ d[engine.payload.version] = engine.payload.list
    BY <1>5, <1>6, <1>7 DEF Versioned
  <2>6. \A e \in history :
          /\ e.version <= edits' /\ d[e.version] = e.to
          /\ e.previous # NoVersion => e.previous <= edits' /\ d[e.previous] = e.from
    BY <1>5, <1>6, <1>7 DEF Versioned
  <2>7. \A r \in settled : r.version <= edits' /\ r.value \in ValuesOf(d[r.version], r.name)
    BY <1>5, <1>6, <1>7 DEF Versioned
  <2>8. (\A r \in settled : r.version <= edits /\ r.value \in ValuesOf(d[r.version], r.name))'
    BY <1>1, <2>7 DEF ValuesOf
  <2> QED
    BY <1>1, <2>1, <2>2, <2>3, <2>4, <2>5, <2>6, <2>8 DEF Versioned, FullDay
<1> QED
  BY <1>4, <1>8

LEMMA LoadVersions ==
  ASSUME TypesInv, Load, NEW c \in [Versions -> Contents], Versioned(c)
  PROVE  Versioned(c)'
<1>1. PICK payload \in Payloads, entry \in Entries : Started(payload, entry)
  BY LoadIs
<1>2. /\ payload = LoadedPayload
      /\ engine' = [stage |-> "logged", payload |-> payload]
      /\ file.form # "broken" /\ file' = [form |-> "profiles", payload |-> payload]
      /\ entry.version = payload.version /\ entry.to = payload.list
      /\ cache.readable => entry.previous = cache.version /\ entry.from = cache.list
      /\ ~cache.readable => entry.previous = NoVersion
      /\ history' \subseteq history \cup {entry}
      /\ UNCHANGED <<cache, settled, edits>>
  BY <1>1 DEF Started
<1>3. payload.version <= edits /\ c[payload.version] = payload.list
  <2>1. file.form # "missing"
    BY DEF Versioned
  <2>2. CASE file.form = "flat"
    <3>1. payload = Payload(file.version, FullDay(file.value))
      BY <1>2, <2>2 DEF LoadedPayload
    <3>2. payload.version = file.version /\ payload.list = FullDay(file.value)
      BY <3>1 DEF Payload
    <3> QED
      BY <2>2, <3>2 DEF Versioned
  <2>3. CASE file.form # "flat"
    <3>1. payload = file.payload /\ file.form = "profiles"
      BY <1>2, <2>1, <2>3 DEF LoadedPayload, TypesInv, Files
    <3> QED
      BY <3>1 DEF Versioned
  <2> QED
    BY <2>2, <2>3
<1>4. /\ cache.readable => cache.version <= edits /\ c[cache.version] = cache.list
      /\ \A e \in history :
           /\ e.version <= edits /\ c[e.version] = e.to
           /\ e.previous # NoVersion => e.previous <= edits /\ c[e.previous] = e.from
      /\ \A r \in settled : r.version <= edits /\ r.value \in ValuesOf(c[r.version], r.name)
  BY DEF Versioned
<1>5. /\ entry.version <= edits /\ c[entry.version] = entry.to
      /\ entry.previous # NoVersion => entry.previous <= edits /\ c[entry.previous] = entry.from
  BY <1>2, <1>3, <1>4
<1>6. \A e \in history' :
        /\ e.version <= edits /\ c[e.version] = e.to
        /\ e.previous # NoVersion => e.previous <= edits /\ c[e.previous] = e.from
  BY <1>2, <1>4, <1>5
<1>7. file'.form = "profiles" /\ file'.payload = payload /\ engine'.payload = payload
  BY <1>2
<1> QED
  BY <1>2, <1>3, <1>4, <1>6, <1>7 DEF Versioned, ValuesOf, Named

LEMMA VersionStep ==
  ASSUME TypesInv, LockInv, VersionInv, ProfilesNext
  PROVE  VersionInv'
<1> SUFFICES ASSUME ~reused'
             PROVE  \E d \in [Versions -> Contents] : Versioned(d)'
  BY DEF VersionInv
<1>1. ~reused
  <2>1. CASE Load
    BY <2>1, LoadIs DEF Started
  <2>2. CASE Settle
    BY <2>2, SettleIs
  <2> QED
    BY <2>1, <2>2, WriteIs, Steps DEF Quiet
<1>2. PICK c \in [Versions -> Contents] : Versioned(c)
  BY <1>1 DEF VersionInv
<1>3. CASE WriteProfiles \/ ReplaceFile
  BY <1>2, <1>3, WriteVersions
<1>4. CASE Load
  BY <1>2, <1>4, LoadVersions
<1>5. CASE Settle
  <2>1. PICK r \in Settlements :
          /\ settled' = settled \cup {r}
          /\ engine.stage = "up" /\ r.version = engine.payload.version
          /\ r.value \in ValuesOf(engine.payload.list, r.name)
          /\ UNCHANGED <<file, cache, history, edits, reused, engine>>
    BY <1>5, SettleIs
  <2>2. r.version <= edits /\ r.value \in ValuesOf(c[r.version], r.name)
    BY <1>2, <2>1 DEF Versioned
  <2>3. \A x \in settled' : x.version <= edits /\ x.value \in ValuesOf(c[x.version], x.name)
    BY <1>2, <2>1, <2>2 DEF Versioned
  <2>4. Versioned(c)'
    BY <1>2, <2>1, <2>3 DEF Versioned, ValuesOf, Named, FullDay
  <2> QED
    BY <2>4
<1>6. CASE Quiet
  <2>1. \/ UNCHANGED <<cache, engine>>
        \/ engine.stage = "logged" /\ cache' = engine.payload /\ engine' = [engine EXCEPT !.stage = "up"]
        \/ engine' = [stage |-> "down"] /\ cache' \in {cache, NoPayload}
    BY <1>6 DEF Quiet
  <2>2. cache'.readable => cache'.version <= edits /\ c[cache'.version] = cache'.list
    BY <1>2, <2>1 DEF Versioned, NoPayload
  <2>3. engine'.stage # "down" =>
          engine'.payload.version <= edits /\ c[engine'.payload.version] = engine'.payload.list
    BY <1>2, <2>1 DEF Versioned, TypesInv
  <2>4. UNCHANGED <<file, history, settled, edits>>
    BY <1>6 DEF Quiet
  <2>5. Versioned(c)'
    BY <1>2, <2>2, <2>3, <2>4 DEF Versioned, ValuesOf, Named, FullDay
  <2> QED
    BY <2>5
<1> QED
  BY <1>3, <1>4, <1>5, <1>6, Steps

-----------------------------------------------------------------------------
(* Between two records of a profile its values stay, or the history tells. *)

LEMMA ToldStart == ProfilesInit => ToldInv /\ OutcomesInv
BY DEF ProfilesInit, ToldInv, ToldI, NoPayload, OutcomesInv, EvaluationsExact

\* What was told stays told.
LEMMA ToldGrows ==
  ASSUME history \subseteq history', NEW n, NEW a, NEW b \in Int, NEW d \in Int, b <= d,
         \A e \in history : e.at \in Int, Told(n, a, b)
  PROVE  \E e \in history' : n \in e.names /\ e.previous # NoVersion /\ a < e.at /\ e.at <= d
BY DEF Told

LEMMA ValuesSame ==
  ASSUME NEW list, NEW other, NEW n, Named(list, n) = Named(other, n)
  PROVE  ValuesOf(list, n) = ValuesOf(other, n)
BY DEF ValuesOf

LEMMA TimesAre ==
  ASSUME TypesInv
  PROVE  /\ now \in Nat
         /\ \A e \in history : e.at \in Nat
         /\ \A r \in settled : r.at \in Nat /\ r.name \in Names
<1>1. now \in Nat
  BY Bounds DEF TypesInv
<1>2. \A e \in history : e.at \in Nat
  BY Bounds DEF TypesInv, Entries
<1>3. \A r \in settled : r.at \in Nat /\ r.name \in Names
  BY Bounds DEF TypesInv, Settlements
<1> QED
  BY <1>1, <1>2, <1>3

LEMMA ToldSettle ==
  ASSUME TypesInv, LockInv, Stamped, ToldI, Settle
  PROVE  ToldI'
<1>1. PICK r \in Settlements :
        /\ settled' = settled \cup {r} /\ r.at = now + 1 /\ now' = now + 1
        /\ engine.stage = "up"
        /\ r.value \in ValuesOf(engine.payload.list, r.name)
        /\ UNCHANGED <<cache, history, engine>>
  BY SettleIs
<1>2. now \in Int /\ \A e \in history : e.at \in Int
  BY TimesAre
<1>3. \A s \in settled : s.at \in Int
  BY TimesAre
<1>4. cache.readable /\ cache = engine.payload /\ r.name \in Names
  BY <1>1, PayloadParts DEF TypesInv, ToldI, Settlements
<1>5. \A n, a : Told(n, a, now) => Told(n, a, now + 1)
  BY <1>1, <1>2, ToldGrows DEF Told
<1>6. \A s \in settled' : Told(s.name, s.at, now + 1) \/ s.value \in ValuesOf(engine.payload.list, s.name)
  BY <1>1, <1>4, <1>5 DEF ToldI, Content
<1>7. \A e \in history : \A n \in Names :
        Told(n, e.at, now + 1) \/ Named(e.to, n) = Named(engine.payload.list, n)
  BY <1>1, <1>4, <1>5 DEF ToldI, Content
<1>8. ASSUME NEW e \in history
      PROVE  /\ e.at < r.at => Told(r.name, e.at, r.at) \/ r.value \in ValuesOf(e.to, r.name)
             /\ ~(r.at < e.at)
  BY <1>1, <1>2, <1>4, <1>7, ValuesSame DEF Stamped
<1>9. \A s \in settled', e \in history :
       /\ e.at < s.at => Told(s.name, e.at, s.at) \/ s.value \in ValuesOf(e.to, s.name)
       /\ s.at < e.at /\ e.previous # NoVersion =>
            Told(s.name, s.at, e.at - 1) \/ s.value \in ValuesOf(e.from, s.name)
  BY <1>1, <1>8 DEF ToldI
<1> QED
  BY <1>1, <1>4, <1>6, <1>7, <1>9 DEF ToldI, Content, Told, ValuesOf, Named

LEMMA ToldLoad ==
  ASSUME TypesInv, LockInv, Stamped, ToldI, ~untold', Load
  PROVE  ToldI'
<1>1. PICK payload \in Payloads, entry \in Entries : Started(payload, entry)
  BY LoadIs
<1>2. /\ engine.stage = "down" /\ engine' = [stage |-> "logged", payload |-> payload]
      /\ now' = now + 1 /\ entry.at = now + 1 /\ entry.to = payload.list
      /\ cache.readable => entry.previous = cache.version /\ entry.from = cache.list
      /\ ~cache.readable => entry.previous = NoVersion
      /\ history' = history \cup {entry} \/ (history' = history /\ entry.names = {})
      /\ \A n \in Names \ entry.names : Named(entry.from, n) = Named(payload.list, n)
      /\ UNCHANGED <<cache, settled>>
  BY <1>1 DEF Started
<1>3. now \in Int /\ \A e \in history : e.at \in Int
  BY TimesAre
<1>4. \A s \in settled : s.at \in Int /\ s.name \in Names /\ s.at <= now
  BY TimesAre DEF Stamped
<1>5. engine'.stage = "logged" /\ engine'.payload = payload
  BY <1>2
<1>6. \A n, a, b : Told(n, a, b) => Told(n, a, b)'
  BY <1>2 DEF Told
<1>7. \A n, a : Told(n, a, now) => Told(n, a, now)'
  BY <1>2, <1>3 DEF Told
<1>8. CASE ~cache.readable
  <2>1. settled = {} /\ history' \subseteq {entry}
    BY <1>2, <1>8 DEF ToldI
  <2> QED
    BY <1>2, <1>5, <1>8, <2>1 DEF ToldI, Content, Named
<1>9. CASE cache.readable
  <2>1. /\ \A r \in settled : Told(r.name, r.at, now) \/ r.value \in ValuesOf(entry.from, r.name)
        /\ \A e \in history : \A n \in Names :
             Told(n, e.at, now) \/ Named(e.to, n) = Named(entry.from, n)
    BY <1>2, <1>9 DEF ToldI, Content
  <2>2. entry.previous # NoVersion
    BY <1>2, <1>9, PayloadParts, Bounds DEF TypesInv, NoPayload
  <2>3. ASSUME NEW n \in entry.names, NEW a \in Int, a <= now
        PROVE  Told(n, a, now)'
    <3>1. entry \in history'
      BY <1>2
    <3>2. entry.at = now + 1 /\ now' = now + 1
      BY <1>2
    <3>3. a < entry.at /\ entry.at <= now + 1
      BY <1>3, <2>3, <3>2
    <3> QED
      BY <2>2, <3>1, <3>2, <3>3 DEF Told
  <2>4. ASSUME NEW r \in settled
        PROVE  Told(r.name, r.at, now)' \/ r.value \in ValuesOf(payload.list, r.name)
    <3>1. CASE Told(r.name, r.at, now)
      BY <1>7, <3>1
    <3>2. CASE r.value \in ValuesOf(entry.from, r.name)
      BY <1>2, <1>4, <2>3, <3>2, ValuesSame
    <3> QED
      BY <2>1, <3>1, <3>2
  <2>5. ASSUME NEW e \in history, NEW n \in Names
        PROVE  Told(n, e.at, now)' \/ Named(e.to, n) = Named(payload.list, n)
    <3>1. e.at <= now /\ e.at \in Int
      BY <1>3 DEF Stamped
    <3>2. CASE Told(n, e.at, now)
      BY <1>7, <3>2
    <3>3. CASE Named(e.to, n) = Named(entry.from, n)
      BY <1>2, <2>3, <3>1, <3>3
    <3> QED
      BY <2>1, <3>2, <3>3
  <2>6. ASSUME NEW r \in settled
        PROVE  /\ ~(entry.at < r.at)
               /\ Told(r.name, r.at, entry.at - 1) \/ r.value \in ValuesOf(entry.from, r.name)
    BY <1>2, <1>3, <1>4, <2>1
  <2>7. ASSUME NEW e \in history', NEW r \in settled
        PROVE  /\ e.at < r.at => Told(r.name, e.at, r.at)' \/ r.value \in ValuesOf(e.to, r.name)
               /\ r.at < e.at /\ e.previous # NoVersion =>
                    Told(r.name, r.at, e.at - 1)' \/ r.value \in ValuesOf(e.from, r.name)
    <3>1. CASE e \in history
      BY <1>6, <3>1 DEF ToldI
    <3>2. CASE e = entry
      BY <1>6, <2>6, <3>2
    <3> QED
      BY <1>2, <3>1, <3>2
  <2>8. \A e \in history', n \in Names :
          Told(n, e.at, now)' \/ Named(e.to, n) = Named(payload.list, n)
    BY <1>2, <2>5
  <2>9. Content' = payload.list
    BY <1>5 DEF Content
  <2>10. \A r \in settled' : Told(r.name, r.at, now)' \/ r.value \in ValuesOf(Content, r.name)'
    BY <1>2, <2>4, <2>9 DEF Told, ValuesOf, Named
  <2>11. \A e \in history', n \in Names :
           Told(n, e.at, now)' \/ Named(e.to, n) = Named(Content, n)'
    BY <1>2, <2>8, <2>9 DEF Told, Named
  <2>12. \A r \in settled', e \in history' :
           /\ e.at < r.at => Told(r.name, e.at, r.at)' \/ r.value \in ValuesOf(e.to, r.name)'
           /\ r.at < e.at /\ e.previous # NoVersion =>
                Told(r.name, r.at, e.at - 1)' \/ r.value \in ValuesOf(e.from, r.name)'
    BY <1>2, <2>7 DEF Told, ValuesOf, Named
  <2> QED
    BY <1>2, <1>5, <1>9, <2>10, <2>11, <2>12 DEF ToldI, Told, ValuesOf, Named
<1> QED
  BY <1>8, <1>9

LEMMA ToldStep ==
  ASSUME TypesInv, LockInv, Stamped, ToldInv, ProfilesNext
  PROVE  ToldInv'
<1> SUFFICES ASSUME ~untold' PROVE ToldI'
  BY DEF ToldInv
<1>1. CASE WriteProfiles \/ ReplaceFile
  <2>1. UNCHANGED <<cache, history, engine, settled, now, untold>>
    BY <1>1, WriteIs
  <2> QED
    BY <2>1 DEF ToldInv, ToldI, Content, Told, ValuesOf, Named
<1>2. CASE Load
  <2>1. ~untold
    BY <1>2, LoadIs DEF Started
  <2> QED
    BY <1>2, <2>1, ToldLoad DEF ToldInv
<1>3. CASE Settle
  <2>1. ~untold
    BY <1>3, SettleIs
  <2> QED
    BY <1>3, <2>1, ToldSettle DEF ToldInv
<1>4. CASE Quiet
  <2>1. UNCHANGED <<history, settled, now>>
    BY <1>4 DEF Quiet
  <2>2. \/ UNCHANGED <<cache, engine>> /\ ~untold
        \/ /\ engine.stage = "logged" /\ engine' = [engine EXCEPT !.stage = "up"]
           /\ cache' = engine.payload /\ ~untold
        \/ engine.stage = "up" /\ engine' = [stage |-> "down"] /\ cache' = cache /\ ~untold
    BY <1>4 DEF Quiet
  <2>3. ToldI
    BY <2>2 DEF ToldInv
  <2>4. CASE UNCHANGED <<cache, engine>>
    BY <2>1, <2>3, <2>4 DEF ToldI, Content, Told, ValuesOf, Named
  <2>5. CASE /\ engine.stage = "logged" /\ engine' = [engine EXCEPT !.stage = "up"]
             /\ cache' = engine.payload
    <3>1. engine.payload \in Payloads /\ engine'.payload = engine.payload /\ engine'.stage = "up"
      BY <2>5 DEF TypesInv
    <3>2. cache'.readable /\ Content' = Content
      BY <2>5, <3>1, PayloadParts DEF Content
    <3> QED
      BY <2>1, <2>3, <2>5, <3>1, <3>2 DEF ToldI, Told, ValuesOf, Named
  <2>6. CASE engine.stage = "up" /\ engine' = [stage |-> "down"] /\ cache' = cache
    <3>1. engine.payload \in Payloads /\ cache = engine.payload /\ engine'.stage = "down"
      BY <2>3, <2>6 DEF TypesInv, ToldI
    <3>2. cache.readable /\ Content' = Content
      BY <2>6, <3>1, PayloadParts DEF Content
    <3> QED
      BY <2>1, <2>3, <2>6, <3>1, <3>2 DEF ToldI, Told, ValuesOf, Named
  <2> QED
    BY <2>2, <2>4, <2>5, <2>6
<1> QED
  BY <1>1, <1>2, <1>3, <1>4, Steps

-----------------------------------------------------------------------------
(* The outcomes.                                                           *)

\* What EvaluationsExact asks of an outcome and the entry of its change.
Exact(o, e) ==
  \/ reused /\ (untold \/ o.kind = "provisional")
  \/ o.before \subseteq ValuesOf(e.from, o.name) /\ o.after \subseteq ValuesOf(e.to, o.name)

LEMMA ExactIs == EvaluationsExact <=> \A o \in outcomes, e \in history : o.at = e.at => Exact(o, e)
BY DEF EvaluationsExact, Exact, ValuesOf

\* A change is one name of an entry of the history.
LEMMA ChangeIs ==
  ASSUME TypesInv, NEW c \in Changes
  PROVE  \E e \in history :
           /\ c.at = e.at /\ c.name \in e.names /\ c.name \in Names
           /\ c.version = e.version /\ c.previous = e.previous /\ e.previous # NoVersion
<1>1. PICK e \in {h \in history : h.previous # NoVersion} :
        \E n \in e.names :
          c = [at |-> e.at, name |-> n, version |-> e.version, previous |-> e.previous]
  BY DEF Changes
<1>2. e.names \subseteq Names
  BY DEF TypesInv, Entries
<1> QED
  BY <1>1, <1>2

LEMMA ChangesOf ==
  ASSUME TypesInv, NEW e \in history, e.previous # NoVersion, NEW n \in e.names
  PROVE  \E c \in Changes : c.at = e.at /\ c.name = n
<1> DEFINE c == [at |-> e.at, name |-> n, version |-> e.version, previous |-> e.previous]
<1>1. c \in Changes
  BY DEF Changes
<1> QED
  BY <1>1

LEMMA ChangeTimes ==
  ASSUME TypesInv, NEW c \in Changes
  PROVE  c.at \in Nat /\ EarlierChanges(c) \subseteq Nat /\ LaterChanges(c) \subseteq Nat
         /\ (\A x \in EarlierChanges(c) : x < c.at) /\ (\A x \in LaterChanges(c) : x > c.at)
<1>1. \A d \in Changes : d.at \in Nat
  BY ChangeIs, TimesAre
<1> QED
  BY <1>1 DEF EarlierChanges, LaterChanges

\* The earlier window starts at no change before it, the final one ends at none
\* after it.
LEMMA FirstIs ==
  ASSUME TypesInv, NEW c \in Changes, NEW days \in Int
  PROVE  /\ Max({c.at - days} \cup EarlierChanges(c)) \in Int
         /\ \A x \in EarlierChanges(c) : x <= Max({c.at - days} \cup EarlierChanges(c))
<1> DEFINE S == {c.at - days} \cup EarlierChanges(c)
           b == IF c.at - days <= c.at THEN c.at ELSE c.at - days
<1>1. c.at \in Nat /\ S \subseteq Int /\ S # {} /\ b \in Int
  BY ChangeTimes
<1>2. \A x \in S : x <= b
  BY ChangeTimes
<1> HIDE DEF b
<1>3. EarlierChanges(c) \subseteq S
  OBVIOUS
<1> HIDE DEF S
<1>4. Max(S) \in S /\ \A x \in S : x <= Max(S)
  BY <1>1, <1>2, MaxIs
<1>5. Max(S) \in Int /\ \A x \in EarlierChanges(c) : x <= Max(S)
  BY <1>1, <1>3, <1>4
<1> QED
  BY <1>5 DEF S

LEMMA FinalEndIs ==
  ASSUME TypesInv, NEW c \in Changes
  PROVE  FinalEnd(c) \in Int /\ \A x \in LaterChanges(c) : FinalEnd(c) <= x
<1>1. c.at \in Nat /\ LaterChanges(c) \subseteq Nat
  BY ChangeTimes
<1>2. CASE LaterChanges(c) = {}
  BY <1>1, <1>2, Bounds DEF FinalEnd
<1>3. CASE LaterChanges(c) # {}
  BY <1>1, <1>3, MinIs DEF FinalEnd
<1> QED
  BY <1>2, <1>3

\* A version that stands for one content counts the right settlements.
LEMMA ByVersion ==
  ASSUME TypesInv, VersionInv, ~reused, NEW e \in history, NEW r \in settled
  PROVE  /\ r.version = e.version => r.value \in ValuesOf(e.to, r.name)
         /\ e.previous # NoVersion /\ r.version = e.previous => r.value \in ValuesOf(e.from, r.name)
BY DEF VersionInv, Versioned

\* So do windows without a change in them.
LEMMA BeforeExact ==
  ASSUME TypesInv, Stamped, VersionInv, ToldInv, ~reused \/ ~untold,
         NEW c \in Changes, NEW e \in history, c.at = e.at, e.previous # NoVersion,
         c.previous = e.previous, NEW days \in Int,
         NEW r \in Window(c, c.previous, Max({c.at - days} \cup EarlierChanges(c)), c.at)
  PROVE  r.value \in ValuesOf(e.from, c.name)
<1> DEFINE first == Max({c.at - days} \cup EarlierChanges(c))
<1>1. /\ r \in settled /\ r.name = c.name /\ r.version = c.previous
      /\ first <= r.at /\ r.at <= c.at
  BY DEF Window
<1>2. first \in Int /\ \A x \in EarlierChanges(c) : x <= first
  BY FirstIs
<1> HIDE DEF first
<1>3. CASE ~reused
  BY <1>1, <1>3, ByVersion
<1>4. CASE ~untold
  <2>1. r.at \in Nat /\ e.at \in Nat /\ r.at # e.at
    BY <1>1, TimesAre DEF Stamped
  <2>2. r.at < e.at
    BY <1>1, <2>1
  <2>3. Told(r.name, r.at, e.at - 1) \/ r.value \in ValuesOf(e.from, r.name)
    BY <1>1, <1>4, <2>2 DEF ToldInv, ToldI
  <2>4. ~Told(r.name, r.at, e.at - 1)
    <3> SUFFICES ASSUME NEW x \in history, r.name \in x.names, x.previous # NoVersion,
                        r.at < x.at, x.at <= e.at - 1
                 PROVE  FALSE
      BY DEF Told
    <3>1. x.at \in Nat
      BY TimesAre
    <3>2. PICK d \in Changes : d.at = x.at /\ d.name = r.name
      BY ChangesOf
    <3>3. x.at \in EarlierChanges(c)
      BY <1>1, <2>1, <3>1, <3>2 DEF EarlierChanges
    <3> QED
      BY <1>1, <1>2, <2>1, <3>1, <3>3
  <2> QED
    BY <1>1, <2>3, <2>4
<1> QED
  BY <1>3, <1>4

LEMMA AfterExact ==
  ASSUME TypesInv, Stamped, VersionInv, ToldInv,
         NEW c \in Changes, NEW e \in history, c.at = e.at, c.version = e.version,
         NEW last \in Int, ~reused \/ (~untold /\ last = FinalEnd(c)),
         NEW r \in Window(c, c.version, c.at, last)
  PROVE  r.value \in ValuesOf(e.to, c.name)
<1>1. /\ r \in settled /\ r.name = c.name /\ r.version = c.version
      /\ c.at <= r.at /\ r.at <= last
  BY DEF Window
<1>2. CASE ~reused
  BY <1>1, <1>2, ByVersion
<1>3. CASE ~untold /\ last = FinalEnd(c)
  <2>1. r.at \in Nat /\ e.at \in Nat /\ r.at # e.at
    BY <1>1, TimesAre DEF Stamped
  <2>2. e.at < r.at
    BY <1>1, <2>1
  <2>3. Told(r.name, e.at, r.at) \/ r.value \in ValuesOf(e.to, r.name)
    BY <1>1, <1>3, <2>2 DEF ToldInv, ToldI
  <2>4. ~Told(r.name, e.at, r.at)
    <3> SUFFICES ASSUME NEW x \in history, r.name \in x.names, x.previous # NoVersion,
                        e.at < x.at, x.at <= r.at
                 PROVE  FALSE
      BY DEF Told
    <3>1. x.at \in Nat /\ r.at # x.at
      BY <1>1, TimesAre DEF Stamped
    <3>2. PICK d \in Changes : d.at = x.at /\ d.name = r.name
      BY ChangesOf
    <3>3. x.at \in LaterChanges(c)
      BY <1>1, <2>1, <3>1, <3>2 DEF LaterChanges
    <3>4. FinalEnd(c) <= x.at
      BY <3>3, FinalEndIs
    <3> QED
      BY <1>1, <1>3, <2>1, <3>1, <3>4
  <2> QED
    BY <1>1, <2>3, <2>4
<1> QED
  BY <1>2, <1>3

LEMMA DueExact ==
  ASSUME TypesInv, Stamped, VersionInv, ToldInv,
         NEW c \in Changes, NEW o \in Due(c), NEW e \in history, o.at = e.at
  PROVE  Exact(o, e)
<1>1. PICK h \in history :
        /\ c.at = h.at /\ c.name \in h.names /\ c.name \in Names
        /\ c.version = h.version /\ c.previous = h.previous /\ h.previous # NoVersion
  BY ChangeIs
<1>2. c.at \in Nat /\ c.at + Short \in Int /\ FinalEnd(c) \in Int
  BY ChangeTimes, FinalEndIs, Bounds
<1>3. PICK kind \in {"provisional", "final"}, last \in Int, days \in Int :
        /\ o = Evaluation(c, kind, last, days)
        /\ kind = "final" => last = FinalEnd(c)
  <2>1. CASE o = Evaluation(c, "provisional", c.at + Short, Short)
    BY <1>2, <2>1, Bounds
  <2>2. CASE o = Evaluation(c, "final", FinalEnd(c), Max({1, FinalEnd(c) - c.at}))
    <3> DEFINE days == Max({1, FinalEnd(c) - c.at})
               b == IF 1 <= FinalEnd(c) - c.at THEN FinalEnd(c) - c.at ELSE 1
    <3>1. {1, FinalEnd(c) - c.at} \subseteq Int /\ b \in Int
      BY <1>2
    <3>2. \A x \in {1, FinalEnd(c) - c.at} : x <= b
      BY <1>2
    <3> HIDE DEF b
    <3>3. days \in Int
      BY <3>1, <3>2, MaxIs
    <3> HIDE DEF days
    <3> QED
      BY <1>2, <2>2, <3>3 DEF days
  <2> QED
    BY <2>1, <2>2 DEF Due
<1> DEFINE first == Max({c.at - days} \cup EarlierChanges(c))
<1>4. /\ o.at = c.at /\ o.name = c.name /\ o.kind = kind
      /\ o.before = {s.value : s \in Window(c, c.previous, first, c.at)}
      /\ o.after = {s.value : s \in Window(c, c.version, c.at, last)}
  BY <1>3 DEF Evaluation
<1>5. e = h
  BY <1>1, <1>4 DEF Stamped
<1>6. CASE reused /\ (untold \/ kind = "provisional")
  BY <1>4, <1>6 DEF Exact
<1>7. CASE ~reused \/ (~untold /\ kind = "final")
  <2>1. \A r \in Window(c, c.previous, first, c.at) : r.value \in ValuesOf(e.from, c.name)
    BY <1>1, <1>5, <1>7, BeforeExact
  <2>2. \A r \in Window(c, c.version, c.at, last) : r.value \in ValuesOf(e.to, c.name)
    BY <1>1, <1>3, <1>5, <1>7, AfterExact
  <2> HIDE DEF first
  <2>3. o.before \subseteq ValuesOf(e.from, o.name) /\ o.after \subseteq ValuesOf(e.to, o.name)
    BY <1>4, <2>1, <2>2
  <2> QED
    BY <2>3 DEF Exact
<1> QED
  BY <1>6, <1>7

LEMMA OutcomesStep ==
  ASSUME PInv, ProfilesNext
  PROVE  OutcomesInv'
<1>1. now \in Nat /\ \A e \in history : e.at \in Nat
  BY TimesAre DEF PInv
<1>2. \A o \in outcomes, e \in history : o.at = e.at => Exact(o, e)
  BY ExactIs DEF PInv, OutcomesInv
<1>3. \A o \in outcomes : o.at \in Nat /\ o.at <= now
  BY DEF PInv, OutcomesInv
<1>4. CASE BuildOutcomes
  <2>1. UNCHANGED <<history, now, reused, untold>>
    BY <1>4 DEF BuildOutcomes, configVars
  <2>2. \A o \in outcomes' : o \in outcomes \/ \E c \in Changes : o \in Due(c)
    BY <1>4 DEF BuildOutcomes
  <2>3. \A c \in Changes : \A o \in Due(c) : o.at \in Nat /\ o.at <= now
    <3> SUFFICES ASSUME NEW c \in Changes, NEW o \in Due(c)
                 PROVE  o.at \in Nat /\ o.at <= now
      OBVIOUS
    <3>1. o.at = c.at
      BY DEF Due, Evaluation
    <3> QED
      BY <3>1, ChangeIs, TimesAre DEF PInv, Stamped
  <2>4. \A o \in outcomes', e \in history : o.at = e.at => Exact(o, e)
    BY <1>2, <2>2, DueExact DEF PInv
  <2>5. \A o \in outcomes' : o.at \in Nat /\ o.at <= now
    BY <1>3, <2>2, <2>3
  <2> QED
    BY <2>1, <2>4, <2>5 DEF OutcomesInv, EvaluationsExact, Exact, ValuesOf, Named
<1>5. CASE outcomes' = outcomes
  <2>1. /\ \A e \in history' : e \in history \/ e.at = now + 1
        /\ now' \in {now, now + 1} /\ (reused => reused') /\ (untold => untold')
    <3>1. CASE WriteProfiles \/ ReplaceFile
      BY <3>1, WriteIs
    <3>2. CASE Load
      BY <3>2, LoadIs DEF Started, PInv
    <3>3. CASE Settle
      BY <3>3, SettleIs DEF PInv
    <3>4. CASE Quiet
      BY <3>4 DEF Quiet
    <3> QED
      BY <3>1, <3>2, <3>3, <3>4, Steps DEF PInv
  <2>3. \A o \in outcomes, e \in history' : o.at = e.at => e \in history
    BY <1>1, <1>3, <2>1
  <2>4. \A o \in outcomes, e \in history' : o.at = e.at => Exact(o, e)'
    <3> SUFFICES ASSUME NEW o \in outcomes, NEW e \in history', o.at = e.at
                 PROVE  Exact(o, e)'
      OBVIOUS
    <3>1. Exact(o, e)
      BY <1>2, <2>3
    <3>2. CASE reused /\ (untold \/ o.kind = "provisional")
      BY <2>1, <3>2 DEF Exact
    <3>3. CASE /\ o.before \subseteq ValuesOf(e.from, o.name)
               /\ o.after \subseteq ValuesOf(e.to, o.name)
      BY <3>3 DEF Exact, ValuesOf, Named
    <3> QED
      BY <3>1, <3>2, <3>3 DEF Exact
  <2>5. \A o \in outcomes : o.at \in Nat /\ o.at <= now'
    BY <1>1, <1>3, <2>1
  <2> QED
    BY <1>5, <2>4, <2>5 DEF OutcomesInv, EvaluationsExact, Exact, ValuesOf, Named
<1>6. ProfilesNext => BuildOutcomes \/ outcomes' = outcomes
  BY DEF ProfilesNext, WriteProfiles, ReplaceFile, Load, Remember, Die, LockAtEntry, FillPending,
     CancelPending, Settle, LateFill, GraceEnds, SaveLiveState
<1> QED
  BY <1>4, <1>5, <1>6

-----------------------------------------------------------------------------

LEMMA ProfilesStart == ProfilesInit => PInv
BY TypesStart, VersionStart, ToldStart DEF PInv

LEMMA ProfilesStep == ASSUME PInv, [ProfilesNext]_profileVars PROVE PInv'
<1>1. CASE ProfilesNext
  <2>1. TypesInv' /\ LockInv' /\ Stamped'
    BY <1>1, TypesStep, LockStep, StampedStep DEF PInv
  <2>2. VersionInv' /\ ToldInv'
    BY <1>1, VersionStep, ToldStep DEF PInv
  <2>3. OutcomesInv'
    BY <1>1, OutcomesStep
  <2> QED
    BY <2>1, <2>2, <2>3 DEF PInv
<1>2. CASE UNCHANGED profileVars
  <2>1. Quiet /\ UNCHANGED <<file, cache, history, engine, trade, grace, saved, settled, outcomes,
                             now, edits, untold, reused>>
    BY <1>2 DEF Quiet, profileVars
  <2>2. TypesInv'
    BY <2>1 DEF PInv, TypesInv
  <2>3. LockInv' /\ Stamped'
    BY <2>1 DEF PInv, LockInv, ValidList, Stamped
  <2>4. \A c : Versioned(c) => Versioned(c)'
    BY <2>1 DEF Versioned, ValuesOf, Named, FullDay
  <2>5. VersionInv'
    BY <2>1, <2>4 DEF PInv, VersionInv
  <2>6. ToldInv'
    BY <2>1 DEF PInv, ToldInv, ToldI, Content, Told, ValuesOf, Named
  <2>7. OutcomesInv'
    BY <2>1 DEF PInv, OutcomesInv, EvaluationsExact, Named
  <2> QED
    BY <2>2, <2>3, <2>5, <2>6, <2>7 DEF PInv
<1> QED
  BY <1>1, <1>2

LEMMA ProfilesInvariant == ProfilesSpec => []PInv
<1>1. ProfilesInit => PInv
  BY ProfilesStart
<1>2. PInv /\ [ProfilesNext]_profileVars => PInv'
  BY ProfilesStep
<1> QED
  BY <1>1, <1>2, PTL DEF ProfilesSpec

(***************************************************************************)
(* An order or a position is judged by the values that its own profile has *)
(* in the list of this run, while that list has it: over entries, fills    *)
(* that arrive after the cancel, and restarts with another config.json     *)
(* (_lock_profile_for_restored_position, _apply_post_cancel_grace_fill).   *)
(***************************************************************************)
THEOREM JudgedByItsProfile == ProfilesSpec => []LockedWhileHeld
<1>1. PInv => LockedWhileHeld
  <2> SUFFICES ASSUME PInv, trade # NoTrade
               PROVE  \E p \in Named(engine.payload.list, trade.owner) :
                        trade.lock = [name |-> p.name, value |-> p.value]
    BY DEF LockedWhileHeld
  <2>1. trade.owner = trade.lock.name
    BY DEF PInv, LockInv
  <2>2. PICK p \in engine.payload.list : trade.lock = Lock(p)
    BY DEF PInv, LockInv
  <2>3. trade.lock = [name |-> p.name, value |-> p.value] /\ trade.lock.name = p.name
    BY <2>2 DEF Lock
  <2>4. p \in Named(engine.payload.list, trade.owner)
    BY <2>1, <2>3 DEF Named
  <2> QED
    BY <2>3, <2>4
<1> QED
  BY <1>1, ProfilesInvariant, PTL

(***************************************************************************)
(* The outcomes compare what was judged before a change with what was      *)
(* judged after it, for any profiles, windows, restarts and deaths of a    *)
(* start: every evaluation unless a version was given to two contents, and *)
(* then still every final one as long as each start told its change        *)
(* (_build_evaluation, _log_config_history_if_changed).                    *)
(***************************************************************************)
THEOREM OutcomesCompareLikeWithLike == ProfilesSpec => []EvaluationsExact
<1>1. PInv => EvaluationsExact
  BY DEF PInv, OutcomesInv
<1> QED
  BY <1>1, ProfilesInvariant, PTL

-----------------------------------------------------------------------------
(* The specification that TLC checks runs either Ledger or Profiles.       *)

\* Every step of it is one of Ledger's, or leaves Ledger alone; and likewise
\* for Profiles.
LEMMA PartsAre == PartsSpec => LedgerSpec /\ ProfilesSpec
<1>1. PartsInit => LedgerInit /\ ProfilesInit
  BY DEF PartsInit
<1>2. [PartsNext]_<<part, ledgerVars, profileVars>> =>
        [LedgerNext]_ledgerVars /\ [ProfilesNext]_profileVars
  BY DEF PartsNext
<1> QED
  BY <1>1, <1>2, PTL DEF PartsSpec, LedgerSpec, ProfilesSpec

\* The cash that pays for a LONG was there.
FundedInv ==
  /\ position.side = "LONG" => ledger.cash >= 0
  /\ row.position.side = "LONG" => row.ledger.cash >= 0
  /\ up \in BOOLEAN
  /\ starts \in 0..MaxStarts /\ (~up => starts < MaxStarts)

LEMMA FundedStart == ASSUME LedgerInit PROVE FundedInv
BY LedgerAssumption DEF LedgerInit, FundedInv, NoRow, Flat

LEMMA FundedBoard ==
  ASSUME IInv, FundedInv, Board
  PROVE  position'.side = "LONG" => ledger'.cash >= 0
<1>1. /\ ledger \in Ledgers /\ position \in Positions
  BY DEF IInv, TypesOK
<1>2. PICK b \in Boards, window \in Windows :
        \/ MakeSafe(b) \/ Fill(b) \/ Watch \/ Hold(b) \/ Enter(b)
  BY DEF Board
<1>3. CASE position' = Flat
  BY <1>3 DEF Flat
<1>4. CASE MakeSafe(b) \/ Watch \/ Hold(b)
  <2>1. position' = Flat
    BY <1>4 DEF MakeSafe, Watch, Hold, Cancel, Exit
  <2> QED
    BY <1>3, <2>1
<1>5. CASE Fill(b)
  BY <1>5 DEF Fill, FundedInv
<1>6. CASE Enter(b)
  <2>1. PICK side \in {"LONG", "SHORT"} :
          \/ TooMany
          \/ /\ side = "LONG" => ledger.cash >= EntryPrice(side, b)
             /\ Place(side, EntryPrice(side, b))
    BY <1>6 DEF Enter
  <2>2. CASE TooMany
    BY <2>2 DEF TooMany, traderVars, FundedInv
  <2>3. CASE /\ side = "LONG" => ledger.cash >= EntryPrice(side, b)
             /\ Place(side, EntryPrice(side, b))
    <3> DEFINE price == EntryPrice(side, b)
    <3>1. position'.side = side
      BY <2>3 DEF Place
    <3>2. side = "LONG" => price \in Int
      <4>1. b.bid \in Int /\ Offset \in Int
        BY Numbers DEF Boards
      <4>2. side = "LONG" => price = b.bid + Offset
        BY DEF EntryPrice
      <4> QED
        BY <4>1, <4>2
    <3>3. side = "LONG" => ledger'.cash = ledger.cash - price
      BY <1>1, <2>3 DEF Place, Ledgers
    <3> HIDE DEF price
    <3>4. ledger.cash \in Int /\ (side = "LONG" => ledger.cash >= price)
      BY <1>1, <2>3 DEF Ledgers, price
    <3> QED
      BY <3>1, <3>2, <3>3, <3>4
  <2> QED
    BY <2>1, <2>2, <2>3
<1> QED
  BY <1>2, <1>4, <1>5, <1>6

LEMMA FundedStep ==
  ASSUME IInv, FundedInv, [LedgerNext]_ledgerVars
  PROVE  FundedInv'
<1>1. /\ ledger \in Ledgers /\ row.ledger \in Ledgers /\ InitialCash \in Nat
      /\ starts \in Nat /\ MaxStarts \in Nat
  BY LedgerAssumption DEF IInv, TypesOK, FundedInv
<1>2. CASE Board
  <2>1. UNCHANGED <<up, row, starts>>
    BY <1>2 DEF Board
  <2> QED
    BY <1>2, <2>1, FundedBoard DEF FundedInv
<1>3. CASE SaveRow
  <2>1. /\ row' = [position |-> position, ledger |-> ledger, exits |-> exits]
        /\ UNCHANGED <<ledger, position, up, starts>>
    BY <1>3 DEF SaveRow, traderVars
  <2>2. row'.position = position /\ row'.ledger = ledger
    BY <2>1
  <2> QED
    BY <2>1, <2>2 DEF FundedInv
<1>4. CASE Rollover
  <2>1. /\ ledger' = [ledger EXCEPT !.day = today, !.dayStart = ledger.cash, !.dayProfit = 0]
        /\ UNCHANGED <<position, up, row, starts>>
    BY <1>4 DEF Rollover
  <2>2. ledger'.cash = ledger.cash
    BY <1>1, <2>1 DEF Ledgers
  <2> QED
    BY <2>1, <2>2 DEF FundedInv
<1>5. CASE Down
  BY <1>1, <1>5 DEF Down, traderVars, FundedInv
<1>6. CASE Start
  <2>1. ~up /\ up' = TRUE /\ starts' = starts + 1 /\ row' = row
    BY <1>6 DEF Start
  <2>2. \/ ledger' = Restored /\ position' = row.position
        \/ position' = Flat
    BY <1>6 DEF Start
  <2>3. Restored.cash = row.ledger.cash
    BY <1>1 DEF Restored, OfToday, Ledgers
  <2>4. starts' \in 0..MaxStarts
    BY <1>1, <2>1 DEF FundedInv
  <2> QED
    BY <2>1, <2>2, <2>3, <2>4 DEF FundedInv, Flat
<1>7. CASE Operator \/ NewDay \/ Age \/ UNCHANGED ledgerVars
  <2>1. UNCHANGED <<ledger, position, up, row, starts>>
    BY <1>7 DEF Operator, NewDay, Age, ledgerVars, traderVars
  <2> QED
    BY <2>1 DEF FundedInv
<1> QED
  BY <1>2, <1>3, <1>4, <1>5, <1>6, <1>7 DEF LedgerNext

LEMMA LedgerTyped == LedgerSpec => []LedgerTypeOK
<1>1. LedgerInit => FundedInv
  BY FundedStart
<1>2. IInv /\ FundedInv /\ [LedgerNext]_ledgerVars => FundedInv'
  BY FundedStep
<1>3. IInv /\ FundedInv => LedgerTypeOK
  <2> SUFFICES ASSUME IInv, FundedInv PROVE LedgerTypeOK
    OBVIOUS
  <2>1. recent \in 0..RateLimit + 1
    BY Numbers DEF IInv, TypesOK, RateInv
  <2> QED
    BY <2>1 DEF IInv, TypesOK, FundedInv, LedgerTypeOK
<1> QED
  BY <1>1, <1>2, <1>3, Inductive, PTL DEF LedgerSpec

LEMMA ProfilesTyped == ProfilesSpec => []ProfilesTypeOK
<1>1. PInv => ProfilesTypeOK
  <2> SUFFICES ASSUME PInv PROVE ProfilesTypeOK
    OBVIOUS
  <2>1. file.form \in {"missing", "broken", "flat", "profiles"}
    BY DEF PInv, TypesInv, Files
  <2>2. cache.readable \in BOOLEAN
    <3>1. cache \in Payloads \/ cache = NoPayload
      BY DEF PInv, TypesInv
    <3>2. cache \in Payloads => cache.readable = TRUE
      BY DEF Payloads
    <3>3. NoPayload.readable = FALSE
      BY DEF NoPayload
    <3> QED
      BY <3>1, <3>2, <3>3
  <2>3. engine.stage \in {"down", "logged", "up"}
    BY DEF PInv, TypesInv
  <2>4. trade = NoTrade \/ (trade.stage \in {"pending", "held"} /\ trade.lock \in Locks)
    BY DEF PInv, TypesInv, Opened
  <2>5. \A r \in settled : r.at \in 1..MaxTime /\ r.version \in 0..MaxEdits
    BY DEF PInv, TypesInv, Settlements, Times, Versions
  <2>6. now \in 0..MaxTime /\ edits \in 0..MaxEdits
    BY DEF PInv, TypesInv, Versions
  <2> QED
    BY <2>1, <2>2, <2>3, <2>4, <2>5, <2>6 DEF ProfilesTypeOK
<1> QED
  BY <1>1, ProfilesInvariant, PTL

(***************************************************************************)
(* The states of the ledger and of the profiles have their types; with it, *)
(* a LONG is only ever bought with cash that is there (_enter_long), after *)
(* any restart.                                                            *)
(***************************************************************************)
THEOREM PartsTyped == PartsSpec => []PartsTypeOK
<1>1. LedgerTypeOK /\ ProfilesTypeOK => PartsTypeOK
  BY DEF PartsTypeOK
<1> QED
  BY <1>1, PartsAre, LedgerTyped, ProfilesTyped, PTL
=============================================================================
