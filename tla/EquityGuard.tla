----------------------------- MODULE EquityGuard -----------------------------
(***************************************************************************)
(* The equity guard: the file runtime/equity_guard.json that says whether  *)
(* new entries are stopped, shared by the threads of the engine, which     *)
(* evaluate the account and ask before each entry, and the command line,   *)
(* by which the operator alone releases a stop.                            *)
(*                                                                         *)
(* Writers read the file, decide and replace it inside a critical section: *)
(* a mutex among the threads of the engine (they share one EquityGuard)    *)
(* and an flock between processes, which is given up when it fails.  The   *)
(* question is_stopped takes the mutex only and reads a cache that is      *)
(* valid as long as the modification time of the file is the one seen.     *)
(*                                                                         *)
(* The equity is fetched before the section; which value it is does not    *)
(* matter until it is compared, so it is chosen there.  Writing the        *)
(* temporary file is one step and renaming it another; a document torn by  *)
(* two writers without the flock is a case of "damage".                    *)
(***************************************************************************)
EXTENDS Integers

CONSTANTS
  Thread,     \* threads of the engine that use the guard
  Operator,   \* runs of the command line
  Equity,     \* observed values of the account
  Drawdown,   \* equity_guard_drawdown_jpy
  Nobody,
  Fault       \* subset of Faults

Faults ==
  { "kill",       \* the engine or the command line dies
    "no_flock",   \* flock fails: go on without it
    "damage",     \* the file is removed or made unreadable from outside
    "coarse",     \* two writes within one tick of the file system's clock
    "both" }      \* such a tick while the flock is given up

Process == Thread \cup Operator

ASSUME GuardAssumption ==
  /\ Thread \cap Operator = {}
  /\ Nobody \notin Process
  /\ Equity \subseteq Int
  /\ Drawdown \in Int
  /\ Fault \subseteq Faults

VARIABLES
  file,    \* equity_guard.json
  tmp,     \* equity_guard.json.tmp, the same for every writer
  cache,   \* _cached_state of the engine
  key,     \* _cache_key: does it "match" the file's modification time?
  seen,    \* the same for the time that a look at the file began with
  mutex,   \* the thread that holds _lock
  flock,   \* the process that holds equity_guard.json.lock
  pc,      \* where each process is
  op,      \* what it does
  copy,    \* what it has read, then what it has written
  bare     \* history: a section that runs, or overlapped it, has no flock

vars == <<file, tmp, cache, key, seen, mutex, flock, pc, op, copy, bare>>

Doc == [st : {"armed", "stopped"}, base : Equity]
NoDoc(why) == [st |-> why, base |-> 0]
Absent == NoDoc("absent")
Invalid == NoDoc("invalid")
File == Doc \cup {Absent, Invalid}

Armed(e) == [st |-> "armed", base |-> e]

TypeOK ==
  /\ file \in File /\ tmp \in Doc \cup {Absent}
  /\ cache \in Doc \cup {Absent}
  /\ key \in {"match", "differs"} /\ seen \in {"match", "differs"}
  /\ mutex \in Thread \cup {Nobody}
  /\ flock \in Process \cup {Nobody}
  /\ pc \in [Process -> {"idle", "look", "flock", "read", "save", "rename", "stat"}]
  /\ op \in [Process -> {"evaluate", "clear", "rebaseline"}]
  /\ copy \in [Process -> File]
  /\ \A p \in Process : pc[p] = "rename" => copy[p] \in Doc
  /\ bare \in BOOLEAN

\* The processes between the flock and its release.
Section == {p \in Process : pc[p] \in {"read", "save", "rename", "stat"}}

Init ==
  /\ file = Absent /\ tmp = Absent /\ cache = Absent
  /\ key = "differs" /\ seen = "differs"
  /\ mutex = Nobody /\ flock = Nobody
  /\ pc = [p \in Process |-> "idle"]
  /\ op = [p \in Process |-> "evaluate"]
  /\ copy = [p \in Process |-> Absent]
  /\ bare = FALSE

-----------------------------------------------------------------------------
\* The next step of p is c.
Goto(p, c) == pc' = [pc EXCEPT ![p] = c]

\* The processes P return, with what they hold and know.
Stopped(P) ==
  /\ pc' = [p \in Process |-> IF p \in P THEN "idle" ELSE pc[p]]
  /\ op' = [p \in Process |-> IF p \in P THEN "evaluate" ELSE op[p]]
  /\ copy' = [p \in Process |-> IF p \in P THEN Absent ELSE copy[p]]
  /\ mutex' = IF mutex \in P THEN Nobody ELSE mutex
  /\ flock' = IF flock \in P THEN Nobody ELSE flock
  /\ bare' = (bare /\ Section \ P # {})

Leave(p) == Stopped({p})

\* _current_state of is_stopped and state_snapshot: stat, and if the time is
\* another one than that of the cache, read.
Look(t) ==
  /\ pc[t] = "idle" /\ mutex = Nobody /\ key # "match"
  /\ mutex' = t
  /\ seen' = "match"
  /\ Goto(t, "look")
  /\ UNCHANGED <<file, tmp, cache, key, flock, op, copy, bare>>

LookRead(t) ==
  /\ pc[t] = "look"
  /\ cache' = IF file \in Doc THEN file ELSE Absent
  /\ key' = seen /\ seen' = "differs"
  /\ Leave(t)
  /\ UNCHANGED <<file, tmp>>

\* A call of evaluate, clear or rebaseline; a command has a process, and so
\* an EquityGuard, of its own.
Begin(p, o) ==
  /\ pc[p] = "idle"
  /\ IF p \in Thread THEN mutex = Nobody /\ mutex' = p ELSE UNCHANGED mutex
  /\ o \in IF p \in Thread THEN {"evaluate"} ELSE {"clear", "rebaseline"}
  /\ op' = [op EXCEPT ![p] = o]
  /\ Goto(p, "flock")
  /\ UNCHANGED <<file, tmp, cache, key, seen, flock, copy, bare>>

\* Mutant: the processes do not exclude each other.
Lock_Skipped(p) ==
  /\ pc[p] = "flock"
  /\ Goto(p, "read")
  /\ UNCHANGED <<file, tmp, cache, key, seen, mutex, flock, op, copy, bare>>

\* _file_lock
Lock(p) ==
  /\ pc[p] = "flock"
  /\ \/ flock = Nobody /\ flock' = p /\ UNCHANGED bare
     \/ "no_flock" \in Fault /\ bare' = TRUE /\ UNCHANGED flock
  /\ Goto(p, "read")
  /\ UNCHANGED <<file, tmp, cache, key, seen, mutex, op, copy>>

\* _read_file
Read(p) ==
  /\ pc[p] = "read"
  /\ copy' = [copy EXCEPT ![p] = file]
  /\ Goto(p, "save")
  /\ UNCHANGED <<file, tmp, cache, key, seen, mutex, flock, op, bare>>

\* _save_state, first the temporary file ...
Save(p, doc) ==
  /\ tmp' = doc
  /\ copy' = [copy EXCEPT ![p] = doc]
  /\ Goto(p, "rename")
  /\ UNCHANGED <<file, cache, key, seen, mutex, flock, op, bare>>

\* A time that described the file, after the file is written again.
Coarse == "coarse" \in Fault /\ (bare => "both" \in Fault)

Overtaken(time) ==
  {"differs"} \cup (IF Coarse /\ file # Absent THEN {time} ELSE {})

\* Mutant: the cache is left to the next look.
Rename_CacheLater(p) ==
  /\ pc[p] = "rename" /\ tmp # Absent
  /\ file' = tmp /\ tmp' = Absent
  /\ key' \in Overtaken(key) /\ seen' \in Overtaken(seen)
  /\ Goto(p, "stat")
  /\ UNCHANGED <<cache, mutex, flock, op, copy, bare>>

\* ... then the rename, and the document is remembered.
Rename(p) ==
  /\ pc[p] = "rename" /\ tmp # Absent
  /\ file' = tmp /\ tmp' = Absent
  /\ key' \in Overtaken(key) /\ seen' \in Overtaken(seen)
  /\ cache' = IF p \in Thread THEN copy[p] ELSE cache
  /\ Goto(p, "stat")
  /\ UNCHANGED <<mutex, flock, op, copy, bare>>

\* Another writer has renamed the temporary file: the rename raises.
RenameFails(p) ==
  /\ pc[p] = "rename" /\ tmp = Absent
  /\ Leave(p)
  /\ UNCHANGED <<file, tmp, cache, key, seen>>

\* The time of the file as it is now, and the end of the section.
Stat(p) ==
  /\ pc[p] = "stat"
  /\ key' = IF p \in Operator THEN key ELSE IF file = Absent THEN "differs" ELSE "match"
  /\ Leave(p)
  /\ UNCHANGED <<file, tmp, cache, seen>>

\* Nothing is written: the file is invalid, or there is nothing to clear.
Unwritten(p) == Leave(p) /\ UNCHANGED <<file, tmp, cache, key, seen>>

\* Mutant: the guard resumes by itself when the account has recovered.
Evaluated_Resumes(doc, e) ==
  IF doc = Absent THEN Armed(e)
  ELSE [doc EXCEPT !.st = IF e <= doc.base - Drawdown THEN "stopped" ELSE "armed"]

\* The document after an evaluation that finds the equity e.
Evaluated(doc, e) ==
  IF doc = Absent THEN Armed(e)
  ELSE [doc EXCEPT !.st = IF e <= doc.base - Drawdown THEN "stopped" ELSE @]

\* Mutant: a document that does not change is not written.
Evaluate_OnChange(p) ==
  /\ pc[p] = "save" /\ op[p] = "evaluate"
  /\ \/ copy[p] = Invalid /\ Unwritten(p)
     \/ copy[p] # Invalid /\ \E e \in Equity :
          IF Evaluated(copy[p], e) = copy[p] THEN Unwritten(p)
          ELSE Save(p, Evaluated(copy[p], e))

\* Mutant: an invalid document is evaluated like any other.
Evaluate_AnyDocument(p) ==
  /\ pc[p] = "save" /\ op[p] = "evaluate"
  /\ \E e \in Equity : Save(p, Evaluated(copy[p], e))

Evaluate(p) ==
  /\ pc[p] = "save" /\ op[p] = "evaluate"
  /\ \/ copy[p] = Invalid /\ Unwritten(p)
     \/ copy[p] # Invalid /\ \E e \in Equity : Save(p, Evaluated(copy[p], e))

Clear(p) ==
  /\ pc[p] = "save" /\ op[p] = "clear"
  /\ \/ copy[p].st # "stopped" /\ Unwritten(p)
     \/ copy[p].st = "stopped" /\ Save(p, Armed(copy[p].base))

Rebaseline(p) ==
  /\ pc[p] = "save" /\ op[p] = "rebaseline"
  /\ \/ copy[p] = Invalid /\ Unwritten(p)
     \/ copy[p] # Invalid /\ \E e \in Equity : Save(p, Armed(e))

\* The engine dies and starts again with an empty cache.
KillEngine ==
  /\ "kill" \in Fault
  /\ Stopped(Thread)
  /\ cache' = Absent /\ key' = "differs" /\ seen' = "differs"
  /\ UNCHANGED <<file, tmp>>

KillOperator(p) ==
  /\ "kill" \in Fault /\ pc[p] # "idle"
  /\ Leave(p)
  /\ UNCHANGED <<file, tmp, cache, key, seen>>

Damage ==
  /\ "damage" \in Fault
  /\ file' \in {Absent, Invalid}
  /\ key' = "differs" /\ seen' = "differs"
  /\ UNCHANGED <<tmp, cache, mutex, flock, pc, op, copy, bare>>

Step(p) ==
  \/ Lock(p) \/ Read(p) \/ Evaluate(p) \/ Clear(p) \/ Rebaseline(p)
  \/ Rename(p) \/ RenameFails(p) \/ Stat(p)

Next ==
  \/ \E t \in Thread : Look(t) \/ LookRead(t)
  \/ \E p \in Process, o \in {"evaluate", "clear", "rebaseline"} : Begin(p, o)
  \/ \E p \in Process : Step(p)
  \/ KillEngine \/ (\E p \in Operator : KillOperator(p)) \/ Damage

Spec == Init /\ [][Next]_vars

(* Fairness.  A call that has begun goes on, as all it waits for is a mutex *)
(* and an flock that are free now and then, and the main loop evaluates the *)
(* account every five minutes.                                              *)
Fairness ==
  /\ \A p \in Process : SF_vars(Step(p))
  /\ \A t \in Thread : WF_vars(LookRead(t))
  /\ SF_vars(\E t \in Thread : Begin(t, "evaluate"))

LiveSpec == Spec /\ Fairness

-----------------------------------------------------------------------------
(***************************************************************************)
(* The engine never takes an old answer for "go on": when its cache counts *)
(* as valid, a stop that stands in the file is in the cache, although the  *)
(* engine may die between rename and stat, and is_stopped does not take    *)
(* the flock; and although the time stamp of the file may stay the same    *)
(* over two writes, and the flock may fail.  (When both happen at once, an *)
(* old answer stands until the next evaluation: the fault "both".)         *)
(***************************************************************************)
StopVisible ==
  mutex = Nobody /\ key = "match" /\ file.st = "stopped" => cache.st = "stopped"

(***************************************************************************)
(* "Restart is manual only": a stop in the file becomes armed by the       *)
(* rename of an operator's command and by nothing else, not by an          *)
(* evaluation that read the file before or whose document was lost in a    *)
(* crash.  Sections that went on without the flock are excepted: they      *)
(* share the temporary file.                                               *)
(***************************************************************************)
ReleasedByOperator ==
  [][~bare /\ file.st = "stopped" /\ file'.st = "armed" =>
       \E p \in Operator : pc[p] = "rename" /\ pc'[p] = "stat"]_vars

(***************************************************************************)
(* No command and no evaluation is undone by a write that is based on what *)
(* was there before it: whoever is about to save has read the file as it   *)
(* is, and what it renames is what it wrote.  Excepted are sections that   *)
(* went on without the flock, and a file that was damaged in the meantime. *)
(***************************************************************************)
NoLostUpdate ==
  ~bare => \A p \in Process :
    /\ pc[p] = "save" => copy[p] = file \/ file \in {Absent, Invalid}
    /\ pc[p] = "rename" => tmp = copy[p]

(***************************************************************************)
(* A stop that was released is released for the engine too, in the end:    *)
(* the cache does not keep answering "stopped" when the command wrote the  *)
(* file within the same tick of the clock as the engine, or between its    *)
(* rename and its stat, once the flock works again.                        *)
(***************************************************************************)
ReleaseSeen ==
  <>[](file.st = "armed" /\ ~bare) => <>[]~(key = "match" /\ cache.st = "stopped")
=============================================================================
