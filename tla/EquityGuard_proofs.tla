--------------------------- MODULE EquityGuard_proofs ---------------------------
(***************************************************************************)
(* What the file, the cache and the temporary file of the equity guard     *)
(* keep for any number of threads and commands, any values of the account  *)
(* and any faults.                                                         *)
(***************************************************************************)
EXTENDS EquityGuard, TLAPS

\* The mutex of the engine is held by the one thread that is in a call.
MutexHeld == \A t \in Thread : pc[t] # "idle" => mutex = t

\* Without a section that has gone on bare, who is in a section has the flock.
FlockHeld ==
  /\ ~bare => \A p \in Process : p \in Section => flock = p
  /\ bare => "no_flock" \in Fault

\* Threads evaluate, commands of the operator write no stop.
WritersKnown ==
  /\ \A t \in Thread : op[t] = "evaluate"
  /\ \A p \in Operator :
       /\ pc[p] \in {"flock", "read", "save"} => op[p] # "evaluate"
       /\ pc[p] = "rename" => copy[p].st = "armed"

\* What a thread is about to rename keeps a stop that stands in the file.
StopKept ==
  ~bare => \A t \in Thread :
    pc[t] = "rename" /\ file.st = "stopped" => copy[t].st = "stopped"

\* A stop in the temporary file is that of the thread in a call, if any.
StopWritten ==
  \A t \in Thread :
    /\ pc[t] = "rename" /\ tmp.st = "stopped" => copy[t].st = "stopped"
    /\ pc[t] = "stat" => tmp.st # "stopped"

\* A stop in the file is in the cache before the key says so, and then.
StopCached ==
  /\ \A t \in Thread : pc[t] = "stat" /\ file.st = "stopped" => cache.st = "stopped"
  /\ key = "match" /\ file.st = "stopped" => cache.st = "stopped"

Sections == TypeOK /\ MutexHeld /\ FlockHeld /\ WritersKnown /\ NoLostUpdate
IInv == Sections /\ StopKept /\ StopWritten

-----------------------------------------------------------------------------
(* An evaluation, a clear or a rebaseline writes nothing, or writes a       *)
(* document: the evaluation keeps a stop, the commands write none.          *)
Writes(p, doc) ==
  /\ pc[p] = "save" /\ Save(p, doc)
  /\ op[p] = "evaluate" /\ copy[p].st = "stopped" => doc.st = "stopped"
  /\ op[p] # "evaluate" => doc.st = "armed"

LEMMA DocType ==
  ASSUME NEW e \in Equity
  PROVE  Armed(e) \in Doc /\ Armed(e).st = "armed"
  BY DEF Armed, Doc

LEMMA EvaluatedType ==
  ASSUME NEW e \in Equity, NEW doc \in File, doc # Invalid
  PROVE  /\ Evaluated(doc, e) \in Doc
         /\ doc.st = "stopped" => Evaluated(doc, e).st = "stopped"
<1>1. CASE doc = Absent
  BY <1>1, DocType DEF Evaluated, Absent, NoDoc
<1>2. CASE doc \in Doc
  <2>1. doc # Absent
    BY <1>2 DEF Doc, Absent, NoDoc
  <2> QED
    BY <1>2, <2>1 DEF Evaluated, Doc
<1> QED
  BY <1>1, <1>2 DEF File

LEMMA ClearedType ==
  ASSUME NEW doc \in File, doc.st = "stopped"
  PROVE  doc.base \in Equity
  BY DEF File, Doc, Absent, Invalid, NoDoc

LEMMA SaveCases ==
  ASSUME TypeOK, NEW p \in Process, Evaluate(p) \/ Clear(p) \/ Rebaseline(p)
  PROVE  (pc[p] = "save" /\ Unwritten(p)) \/ \E doc \in Doc : Writes(p, doc)
<1>0. copy[p] \in File
  BY DEF TypeOK
<1>1. CASE Evaluate(p)
  BY <1>0, <1>1, EvaluatedType DEF Evaluate, Writes
<1>2. CASE Clear(p)
  BY <1>0, <1>2, ClearedType, DocType DEF Clear, Writes
<1>3. CASE Rebaseline(p)
  BY <1>3, DocType DEF Rebaseline, Writes
<1> QED
  BY <1>1, <1>2, <1>3

\* The steps, as the proofs below distinguish them.
Moves ==
  \/ \E t \in Thread : Look(t) \/ LookRead(t)
  \/ \E p \in Process, o \in {"evaluate", "clear", "rebaseline"} : Begin(p, o)
  \/ \E p \in Process : Lock(p) \/ Read(p) \/ Rename(p) \/ Stat(p)
  \/ \E p \in Process : Unwritten(p)
  \/ \E p \in Process, doc \in Doc : Writes(p, doc)
  \/ KillEngine \/ Damage

LEMMA NextMoves == TypeOK /\ [Next]_vars => Moves \/ UNCHANGED vars
<1> SUFFICES ASSUME TypeOK, Next PROVE Moves
  OBVIOUS
<1>1. ASSUME NEW p \in Process, Evaluate(p) \/ Clear(p) \/ Rebaseline(p) PROVE Moves
  BY <1>1, SaveCases DEF Moves
<1>2. ASSUME NEW p \in Process, RenameFails(p) PROVE Moves
  BY <1>2 DEF Moves, RenameFails, Unwritten
<1>3. ASSUME NEW p \in Operator, KillOperator(p) PROVE Moves
  BY <1>3 DEF Moves, KillOperator, Unwritten, Process
<1> QED
  BY <1>1, <1>2, <1>3 DEF Next, Step, Moves

-----------------------------------------------------------------------------
LEMMA InitTypeOK == Init => TypeOK
  BY DEF Init, TypeOK, File

LEMMA StoppedType ==
  ASSUME TypeOK, NEW P, Stopped(P)
  PROVE  /\ mutex' \in Thread \cup {Nobody} /\ flock' \in Process \cup {Nobody}
         /\ pc' \in [Process -> {"idle", "look", "flock", "read", "save", "rename", "stat"}]
         /\ op' \in [Process -> {"evaluate", "clear", "rebaseline"}]
         /\ copy' \in [Process -> File]
         /\ \A p \in Process : pc'[p] = "rename" => copy'[p] \in Doc
         /\ bare' \in BOOLEAN
<1>1. bare' \in BOOLEAN
  BY DEF Stopped
<1>2. copy' \in [Process -> File]
  BY DEF Stopped, TypeOK, File
<1> QED
  BY <1>1, <1>2 DEF Stopped, TypeOK

LEMMA NextTypeOK == TypeOK /\ [Next]_vars => TypeOK'
<1> SUFFICES ASSUME TypeOK, Moves \/ UNCHANGED vars PROVE TypeOK'
  BY NextMoves
<1>1. ASSUME NEW t \in Thread, Look(t) PROVE TypeOK'
  BY <1>1 DEF TypeOK, Look, Goto, Process
<1>2. ASSUME NEW t \in Thread, LookRead(t) PROVE TypeOK'
  BY <1>2, StoppedType DEF TypeOK, LookRead, Leave
<1>3. ASSUME NEW p \in Process, NEW o \in {"evaluate", "clear", "rebaseline"}, Begin(p, o)
      PROVE  TypeOK'
  BY <1>3 DEF TypeOK, Begin, Goto
<1>4. ASSUME NEW p \in Process, Lock(p) PROVE TypeOK'
  BY <1>4 DEF TypeOK, Lock, Goto
<1>5. ASSUME NEW p \in Process, Read(p) PROVE TypeOK'
  BY <1>5 DEF TypeOK, Read, Goto
<1>6. ASSUME NEW p \in Process, Rename(p) PROVE TypeOK'
  <2>1. key' \in {"match", "differs"} /\ seen' \in {"match", "differs"}
    BY <1>6 DEF Rename, Overtaken, TypeOK
  <2>2. cache' \in Doc \cup {Absent}
    BY <1>6 DEF Rename, TypeOK
  <2> QED
    BY <1>6, <2>1, <2>2 DEF TypeOK, Rename, Goto, File
<1>7. ASSUME NEW p \in Process, Stat(p) PROVE TypeOK'
  BY <1>7, StoppedType DEF TypeOK, Stat, Leave
<1>8. ASSUME NEW p \in Process, Unwritten(p) PROVE TypeOK'
  BY <1>8, StoppedType DEF TypeOK, Unwritten, Leave
<1>9. ASSUME NEW p \in Process, NEW doc \in Doc, Writes(p, doc) PROVE TypeOK'
  BY <1>9 DEF TypeOK, Writes, Save, Goto, File
<1>10. CASE KillEngine
  BY <1>10, StoppedType DEF TypeOK, KillEngine
<1>11. CASE Damage
  BY <1>11 DEF TypeOK, Damage, File
<1>12. CASE UNCHANGED vars
  BY <1>12 DEF TypeOK, vars
<1> QED
  BY <1>1, <1>2, <1>3, <1>4, <1>5, <1>6, <1>7, <1>8, <1>9, <1>10, <1>11, <1>12 DEF Moves
-----------------------------------------------------------------------------

LEMMA NextMutexHeld == TypeOK /\ MutexHeld /\ [Next]_vars => MutexHeld'
<1> SUFFICES ASSUME TypeOK, MutexHeld, Moves \/ UNCHANGED vars PROVE MutexHeld'
  BY NextMoves
<1> USE GuardAssumption DEF TypeOK, MutexHeld, Process
<1>1. ASSUME NEW t \in Thread, Look(t) PROVE MutexHeld'
  BY <1>1 DEF Look, Goto
<1>2. ASSUME NEW t \in Thread, LookRead(t) PROVE MutexHeld'
  BY <1>2 DEF LookRead, Leave, Stopped
<1>3. ASSUME NEW p \in Process, NEW o \in {"evaluate", "clear", "rebaseline"}, Begin(p, o)
      PROVE  MutexHeld'
  BY <1>3 DEF Begin, Goto
<1>4. ASSUME NEW p \in Process, Lock(p) PROVE MutexHeld'
  BY <1>4 DEF Lock, Goto
<1>5. ASSUME NEW p \in Process, Read(p) PROVE MutexHeld'
  BY <1>5 DEF Read, Goto
<1>6. ASSUME NEW p \in Process, Rename(p) PROVE MutexHeld'
  BY <1>6 DEF Rename, Goto
<1>7. ASSUME NEW p \in Process, Stat(p) PROVE MutexHeld'
  BY <1>7 DEF Stat, Leave, Stopped
<1>8. ASSUME NEW p \in Process, Unwritten(p) PROVE MutexHeld'
  BY <1>8 DEF Unwritten, Leave, Stopped
<1>9. ASSUME NEW p \in Process, NEW doc \in Doc, Writes(p, doc) PROVE MutexHeld'
  BY <1>9 DEF Writes, Save, Goto
<1>10. CASE KillEngine
  BY <1>10 DEF KillEngine, Stopped
<1>11. CASE Damage
  BY <1>11 DEF Damage
<1>12. CASE UNCHANGED vars
  BY <1>12 DEF vars
<1> QED
  BY <1>1, <1>2, <1>3, <1>4, <1>5, <1>6, <1>7, <1>8, <1>9, <1>10, <1>11, <1>12 DEF Moves

LEMMA NextFlockHeld == TypeOK /\ FlockHeld /\ [Next]_vars => FlockHeld'
<1> SUFFICES ASSUME TypeOK, FlockHeld, Moves \/ UNCHANGED vars PROVE FlockHeld'
  BY NextMoves
<1> USE GuardAssumption DEF TypeOK, FlockHeld, Section
<1>1. ASSUME NEW t \in Thread, Look(t) PROVE FlockHeld'
  BY <1>1 DEF Look, Goto
<1>2. ASSUME NEW t \in Thread, LookRead(t) PROVE FlockHeld'
  BY <1>2 DEF LookRead, Leave, Stopped
<1>3. ASSUME NEW p \in Process, NEW o \in {"evaluate", "clear", "rebaseline"}, Begin(p, o)
      PROVE  FlockHeld'
  BY <1>3 DEF Begin, Goto
<1>4. ASSUME NEW p \in Process, Lock(p) PROVE FlockHeld'
  BY <1>4 DEF Lock, Goto
<1>5. ASSUME NEW p \in Process, Read(p) PROVE FlockHeld'
  BY <1>5 DEF Read, Goto
<1>6. ASSUME NEW p \in Process, Rename(p) PROVE FlockHeld'
  BY <1>6 DEF Rename, Goto
<1>7. ASSUME NEW p \in Process, Stat(p) PROVE FlockHeld'
  BY <1>7 DEF Stat, Leave, Stopped
<1>8. ASSUME NEW p \in Process, Unwritten(p) PROVE FlockHeld'
  BY <1>8 DEF Unwritten, Leave, Stopped
<1>9. ASSUME NEW p \in Process, NEW doc \in Doc, Writes(p, doc) PROVE FlockHeld'
  BY <1>9 DEF Writes, Save, Goto
<1>10. CASE KillEngine
  BY <1>10 DEF KillEngine, Stopped
<1>11. CASE Damage
  BY <1>11 DEF Damage
<1>12. CASE UNCHANGED vars
  BY <1>12 DEF vars
<1> QED
  BY <1>1, <1>2, <1>3, <1>4, <1>5, <1>6, <1>7, <1>8, <1>9, <1>10, <1>11, <1>12 DEF Moves

LEMMA NextWritersKnown == TypeOK /\ WritersKnown /\ [Next]_vars => WritersKnown'
<1> SUFFICES ASSUME TypeOK, WritersKnown, Moves \/ UNCHANGED vars PROVE WritersKnown'
  BY NextMoves
<1> USE GuardAssumption DEF TypeOK, WritersKnown, Process
<1>1. ASSUME NEW t \in Thread, Look(t) PROVE WritersKnown'
  BY <1>1 DEF Look, Goto
<1>2. ASSUME NEW t \in Thread, LookRead(t) PROVE WritersKnown'
  BY <1>2 DEF LookRead, Leave, Stopped
<1>3. ASSUME NEW p \in Process, NEW o \in {"evaluate", "clear", "rebaseline"}, Begin(p, o)
      PROVE  WritersKnown'
  BY <1>3 DEF Begin, Goto
<1>4. ASSUME NEW p \in Process, Lock(p) PROVE WritersKnown'
  BY <1>4 DEF Lock, Goto
<1>5. ASSUME NEW p \in Process, Read(p) PROVE WritersKnown'
  BY <1>5 DEF Read, Goto
<1>6. ASSUME NEW p \in Process, Rename(p) PROVE WritersKnown'
  BY <1>6 DEF Rename, Goto
<1>7. ASSUME NEW p \in Process, Stat(p) PROVE WritersKnown'
  BY <1>7 DEF Stat, Leave, Stopped
<1>8. ASSUME NEW p \in Process, Unwritten(p) PROVE WritersKnown'
  BY <1>8 DEF Unwritten, Leave, Stopped
<1>9. ASSUME NEW p \in Process, NEW doc \in Doc, Writes(p, doc) PROVE WritersKnown'
  BY <1>9 DEF Writes, Save, Goto
<1>10. CASE KillEngine
  BY <1>10 DEF KillEngine, Stopped
<1>11. CASE Damage
  BY <1>11 DEF Damage
<1>12. CASE UNCHANGED vars
  BY <1>12 DEF vars
<1> QED
  BY <1>1, <1>2, <1>3, <1>4, <1>5, <1>6, <1>7, <1>8, <1>9, <1>10, <1>11, <1>12 DEF Moves

LEMMA NextNoLostUpdate == TypeOK /\ FlockHeld /\ NoLostUpdate /\ [Next]_vars => NoLostUpdate'
<1> SUFFICES ASSUME TypeOK, FlockHeld, NoLostUpdate, Moves \/ UNCHANGED vars PROVE NoLostUpdate'
  BY NextMoves
<1> USE GuardAssumption DEF TypeOK, FlockHeld, NoLostUpdate, Section
<1>1. ASSUME NEW t \in Thread, Look(t) PROVE NoLostUpdate'
  BY <1>1 DEF Look, Goto
<1>2. ASSUME NEW t \in Thread, LookRead(t) PROVE NoLostUpdate'
  BY <1>2 DEF LookRead, Leave, Stopped
<1>3. ASSUME NEW p \in Process, NEW o \in {"evaluate", "clear", "rebaseline"}, Begin(p, o)
      PROVE  NoLostUpdate'
  BY <1>3 DEF Begin, Goto
<1>4. ASSUME NEW p \in Process, Lock(p) PROVE NoLostUpdate'
  BY <1>4 DEF Lock, Goto
<1>5. ASSUME NEW p \in Process, Read(p) PROVE NoLostUpdate'
  BY <1>5 DEF Read, Goto
<1>6. ASSUME NEW p \in Process, Rename(p) PROVE NoLostUpdate'
  BY <1>6 DEF Rename, Goto
<1>7. ASSUME NEW p \in Process, Stat(p) PROVE NoLostUpdate'
  BY <1>7 DEF Stat, Leave, Stopped
<1>8. ASSUME NEW p \in Process, Unwritten(p) PROVE NoLostUpdate'
  BY <1>8 DEF Unwritten, Leave, Stopped
<1>9. ASSUME NEW p \in Process, NEW doc \in Doc, Writes(p, doc) PROVE NoLostUpdate'
  BY <1>9 DEF Writes, Save, Goto
<1>10. CASE KillEngine
  BY <1>10 DEF KillEngine, Stopped
<1>11. CASE Damage
  BY <1>11 DEF Damage
<1>12. CASE UNCHANGED vars
  BY <1>12 DEF vars
<1> QED
  BY <1>1, <1>2, <1>3, <1>4, <1>5, <1>6, <1>7, <1>8, <1>9, <1>10, <1>11, <1>12 DEF Moves

LEMMA NextStopKept == TypeOK /\ FlockHeld /\ WritersKnown /\ NoLostUpdate /\ StopKept /\ [Next]_vars => StopKept'
<1> SUFFICES ASSUME TypeOK, FlockHeld, WritersKnown, NoLostUpdate, StopKept, Moves \/ UNCHANGED vars PROVE StopKept'
  BY NextMoves
<1> USE GuardAssumption DEF TypeOK, FlockHeld, WritersKnown, NoLostUpdate, StopKept, Section, Process, Absent, Invalid, NoDoc
<1>1. ASSUME NEW t \in Thread, Look(t) PROVE StopKept'
  BY <1>1 DEF Look, Goto
<1>2. ASSUME NEW t \in Thread, LookRead(t) PROVE StopKept'
  BY <1>2 DEF LookRead, Leave, Stopped
<1>3. ASSUME NEW p \in Process, NEW o \in {"evaluate", "clear", "rebaseline"}, Begin(p, o)
      PROVE  StopKept'
  BY <1>3 DEF Begin, Goto
<1>4. ASSUME NEW p \in Process, Lock(p) PROVE StopKept'
  BY <1>4 DEF Lock, Goto
<1>5. ASSUME NEW p \in Process, Read(p) PROVE StopKept'
  BY <1>5 DEF Read, Goto
<1>6. ASSUME NEW p \in Process, Rename(p) PROVE StopKept'
  BY <1>6 DEF Rename, Goto
<1>7. ASSUME NEW p \in Process, Stat(p) PROVE StopKept'
  BY <1>7 DEF Stat, Leave, Stopped
<1>8. ASSUME NEW p \in Process, Unwritten(p) PROVE StopKept'
  BY <1>8 DEF Unwritten, Leave, Stopped
<1>9. ASSUME NEW p \in Process, NEW doc \in Doc, Writes(p, doc) PROVE StopKept'
  BY <1>9 DEF Writes, Save, Goto
<1>10. CASE KillEngine
  BY <1>10 DEF KillEngine, Stopped
<1>11. CASE Damage
  BY <1>11 DEF Damage
<1>12. CASE UNCHANGED vars
  BY <1>12 DEF vars
<1> QED
  BY <1>1, <1>2, <1>3, <1>4, <1>5, <1>6, <1>7, <1>8, <1>9, <1>10, <1>11, <1>12 DEF Moves

LEMMA NextStopWritten == TypeOK /\ MutexHeld /\ WritersKnown /\ StopWritten /\ [Next]_vars => StopWritten'
<1> SUFFICES ASSUME TypeOK, MutexHeld, WritersKnown, StopWritten, Moves \/ UNCHANGED vars PROVE StopWritten'
  BY NextMoves
<1> USE GuardAssumption DEF TypeOK, MutexHeld, WritersKnown, StopWritten, Process, Absent, NoDoc
<1>1. ASSUME NEW t \in Thread, Look(t) PROVE StopWritten'
  BY <1>1 DEF Look, Goto
<1>2. ASSUME NEW t \in Thread, LookRead(t) PROVE StopWritten'
  BY <1>2 DEF LookRead, Leave, Stopped
<1>3. ASSUME NEW p \in Process, NEW o \in {"evaluate", "clear", "rebaseline"}, Begin(p, o)
      PROVE  StopWritten'
  BY <1>3 DEF Begin, Goto
<1>4. ASSUME NEW p \in Process, Lock(p) PROVE StopWritten'
  BY <1>4 DEF Lock, Goto
<1>5. ASSUME NEW p \in Process, Read(p) PROVE StopWritten'
  BY <1>5 DEF Read, Goto
<1>6. ASSUME NEW p \in Process, Rename(p) PROVE StopWritten'
  BY <1>6 DEF Rename, Goto
<1>7. ASSUME NEW p \in Process, Stat(p) PROVE StopWritten'
  BY <1>7 DEF Stat, Leave, Stopped
<1>8. ASSUME NEW p \in Process, Unwritten(p) PROVE StopWritten'
  BY <1>8 DEF Unwritten, Leave, Stopped
<1>9. ASSUME NEW p \in Process, NEW doc \in Doc, Writes(p, doc) PROVE StopWritten'
  BY <1>9 DEF Writes, Save, Goto
<1>10. CASE KillEngine
  BY <1>10 DEF KillEngine, Stopped
<1>11. CASE Damage
  BY <1>11 DEF Damage
<1>12. CASE UNCHANGED vars
  BY <1>12 DEF vars
<1> QED
  BY <1>1, <1>2, <1>3, <1>4, <1>5, <1>6, <1>7, <1>8, <1>9, <1>10, <1>11, <1>12 DEF Moves

\* The two failures that together hide a stop do not happen at once.
OneFailure == "both" \notin Fault

LEMMA NextStopCached ==
  ASSUME OneFailure, IInv, StopCached, [Next]_vars
  PROVE  StopCached'
<1> TypeOK /\ (Moves \/ UNCHANGED vars)
  BY NextMoves DEF IInv, Sections
<1> USE GuardAssumption
    DEF OneFailure, IInv, Sections, TypeOK, MutexHeld, WritersKnown, StopWritten,
        StopCached, Process, Absent, Invalid, NoDoc, File
<1>1. ASSUME NEW t \in Thread, Look(t) PROVE StopCached'
  BY <1>1 DEF Look, Goto
<1>2. ASSUME NEW t \in Thread, LookRead(t) PROVE StopCached'
  BY <1>2 DEF LookRead, Leave, Stopped
<1>3. ASSUME NEW p \in Process, NEW o \in {"evaluate", "clear", "rebaseline"}, Begin(p, o)
      PROVE  StopCached'
  BY <1>3 DEF Begin, Goto
<1>4. ASSUME NEW p \in Process, Lock(p) PROVE StopCached'
  BY <1>4 DEF Lock, Goto
<1>5. ASSUME NEW p \in Process, Read(p) PROVE StopCached'
  BY <1>5 DEF Read, Goto
<1>6. ASSUME NEW p \in Process, Rename(p) PROVE StopCached'
  <2>1. CASE bare
    BY <1>6, <2>1 DEF Rename, Goto, Overtaken, Coarse
  <2>2. CASE ~bare
    BY <1>6, <2>2 DEF Rename, Goto, Overtaken, NoLostUpdate
  <2> QED
    BY <2>1, <2>2
<1>7. ASSUME NEW p \in Process, Stat(p) PROVE StopCached'
  BY <1>7 DEF Stat, Leave, Stopped
<1>8. ASSUME NEW p \in Process, Unwritten(p) PROVE StopCached'
  BY <1>8 DEF Unwritten, Leave, Stopped
<1>9. ASSUME NEW p \in Process, NEW doc \in Doc, Writes(p, doc) PROVE StopCached'
  BY <1>9 DEF Writes, Save, Goto
<1>10. CASE KillEngine
  BY <1>10 DEF KillEngine, Stopped
<1>11. CASE Damage
  BY <1>11 DEF Damage
<1>12. CASE UNCHANGED vars
  BY <1>12 DEF vars
<1> QED
  BY <1>1, <1>2, <1>3, <1>4, <1>5, <1>6, <1>7, <1>8, <1>9, <1>10, <1>11, <1>12 DEF Moves

-----------------------------------------------------------------------------
LEMMA InitIInv == Init => IInv /\ StopCached
<1> SUFFICES ASSUME Init PROVE IInv /\ StopCached
  OBVIOUS
<1>1. TypeOK
  BY InitTypeOK
<1>2. MutexHeld /\ FlockHeld /\ WritersKnown /\ NoLostUpdate
  BY GuardAssumption DEF Init, MutexHeld, FlockHeld, Section, WritersKnown, NoLostUpdate, Process
<1>3. StopKept /\ StopWritten /\ StopCached
  BY DEF Init, StopKept, StopWritten, StopCached, Process
<1> QED
  BY <1>1, <1>2, <1>3 DEF IInv, Sections

LEMMA NextIInv == IInv /\ [Next]_vars => IInv'
  BY NextTypeOK, NextMutexHeld, NextFlockHeld, NextWritersKnown, NextNoLostUpdate,
     NextStopKept, NextStopWritten DEF IInv, Sections

(***************************************************************************)
(* The types, and with them: only documents with all their fields are ever *)
(* written.                                                                *)
(***************************************************************************)
THEOREM GuardTypeCorrect == Spec => []TypeOK
  BY InitTypeOK, NextTypeOK, PTL DEF Spec

(***************************************************************************)
(* No write of a section under the flock undoes another.                   *)
(***************************************************************************)
THEOREM NothingLost == Spec => []NoLostUpdate
<1>1. IInv => NoLostUpdate
  BY DEF IInv, Sections
<1> QED
  BY <1>1, InitIInv, NextIInv, PTL DEF Spec

(***************************************************************************)
(* A valid cache never hides a stop, unless the flock is given up and two  *)
(* writes get the same time stamp at once.                                 *)
(***************************************************************************)
THEOREM StopNeverHidden ==
  ASSUME OneFailure
  PROVE  Spec => []StopVisible
<1>1. IInv /\ StopCached /\ [Next]_vars => (IInv /\ StopCached)'
  BY NextIInv, NextStopCached
<1>2. StopCached => StopVisible
  BY DEF StopCached, StopVisible
<1> QED
  BY <1>1, <1>2, InitIInv, PTL DEF Spec

LEMMA StepReleases ==
  ASSUME IInv, [Next]_vars, ~bare, file.st = "stopped", file'.st = "armed"
  PROVE  \E p \in Operator : pc[p] = "rename" /\ pc'[p] = "stat"
<1>0. TypeOK /\ (Moves \/ UNCHANGED vars)
  BY NextMoves DEF IInv, Sections
<1>1. file' # file
  OBVIOUS
<1>2. ~ Damage
  BY DEF Damage, Absent, Invalid, NoDoc
<1>3. PICK p \in Process : Rename(p)
  BY <1>0, <1>1, <1>2
  DEF Moves, Look, LookRead, Begin, Lock, Read, Stat, Unwritten, Writes, Save, KillEngine, vars
<1>4. tmp = copy[p] /\ file' = copy[p]
  BY <1>3 DEF IInv, Sections, NoLostUpdate, Rename
<1>5. p \notin Thread
  BY <1>3, <1>4 DEF IInv, StopKept, Rename
<1>6. pc[p] = "rename" /\ pc'[p] = "stat"
  BY <1>0, <1>3 DEF Rename, Goto, TypeOK
<1> QED
  BY <1>5, <1>6 DEF Process

(***************************************************************************)
(* Restart is manual only: under the flock nothing but the rename of an    *)
(* operator's command arms a guard that is stopped.                        *)
(***************************************************************************)
THEOREM RestartIsManual == Spec => ReleasedByOperator
<1>1. IInv /\ [Next]_vars =>
        [~bare /\ file.st = "stopped" /\ file'.st = "armed" =>
           \E p \in Operator : pc[p] = "rename" /\ pc'[p] = "stat"]_vars
  BY StepReleases
<1> QED
  BY <1>1, InitIInv, NextIInv, PTL DEF Spec, ReleasedByOperator
=============================================================================
