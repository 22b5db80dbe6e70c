--------------------------- MODULE Services_proofs ---------------------------
(***************************************************************************)
(* Proofs about the parts of Services: the board streams and their safe    *)
(* mode for any number of managers and outages, the private stream for any *)
(* number of tokens, sessions and errors, the monitors' shared file for    *)
(* any set of monitors, runs and kills.                                    *)
(***************************************************************************)
EXTENDS Services, TradeKeyLock_proofs, TickRecorder_proofs

-----------------------------------------------------------------------------
(* BoardStream.                                                            *)

\* What the safe mode remembers of the last maintenance error.
SafeInv ==
    /\ alert \in [Managers -> BOOLEAN]
    /\ flag \in BOOLEAN /\ waiting \in BOOLEAN /\ heard \in BOOLEAN /\ rested \in BOOLEAN
    /\ cooldown \in {"none", "running", "past"}
    /\ ~waiting => heard
    /\ cooldown # "running" => rested
    /\ cooldown = "none" => ~waiting
    /\ entry => heard /\ rested

LEMMA SafeStart == BoardInit => SafeInv
BY DEF BoardInit, SafeInv

\* Steps that neither report an error nor see a board.
LEMMA SafeUntouched ==
    ASSUME SafeInv, flag' \in BOOLEAN, entry' \in {FALSE, entry},
           UNCHANGED <<alert, cooldown, waiting, heard, rested>>
    PROVE  SafeInv'
<1>1. entry' => heard /\ rested
  <2>1. CASE entry' = FALSE
    BY <2>1
  <2>2. CASE entry' = entry
    BY <2>2 DEF SafeInv
  <2> QED BY <2>1, <2>2
<1> QED
  BY <1>1 DEF SafeInv

LEMMA BoardKeeps == ASSUME SafeInv, NEW m \in Managers, Board(m) PROVE SafeInv'
<1>1. /\ alert[m] \in BOOLEAN /\ alert' \in [Managers -> BOOLEAN]
      /\ waiting' = (waiting /\ ~alert[m]) /\ heard' = (heard \/ alert[m])
      /\ cooldown' = IF cooldown = "past" /\ ~waiting' THEN "none" ELSE cooldown
      /\ entry' = ~(SafeModeActive(cooldown', waiting') \/ flag)
      /\ UNCHANGED <<flag, rested>>
  BY DEF Board, SafeInv, Evaluate
<1>2. /\ waiting' \in BOOLEAN /\ heard' \in BOOLEAN
      /\ ~waiting' => heard'
      /\ cooldown' \in {"none", "running", "past"}
      /\ cooldown' # "running" => rested'
      /\ cooldown' = "none" => ~waiting'
  BY <1>1 DEF SafeInv
<1>3. entry' => ~waiting' /\ cooldown' # "running"
  BY <1>1, <1>2 DEF SafeModeActive
<1> QED
  BY <1>1, <1>2, <1>3 DEF SafeInv

LEMMA LostKeeps == ASSUME SafeInv, NEW m \in Managers, Lost(m) PROVE SafeInv'
<1>1. /\ ReportError(m, "maintenance") \/ ReportError(m, "other")
      /\ entry' = FALSE /\ UNCHANGED flag
  BY DEF Lost
<1>2. CASE alert' = [alert EXCEPT ![m] = TRUE] /\ MaintenanceDetected
  BY <1>1, <1>2 DEF SafeInv, MaintenanceDetected
<1>3. CASE UNCHANGED <<alert, cooldown, waiting, heard, rested>>
  BY <1>1, <1>3, SafeUntouched DEF SafeInv
<1> QED
  BY <1>1, <1>2, <1>3 DEF ReportError, safeVars

LEMMA SafeStep == ASSUME SafeInv, [BoardNext]_boardVars PROVE SafeInv'
<1>1. ASSUME NEW m \in Managers, LoopStep(m) PROVE SafeInv'
  <2>1. entry' = FALSE /\ UNCHANGED <<flag, alert, cooldown, waiting, heard, rested>>
    BY <1>1 DEF LoopStep, FirstTest, Retest, BackOff, Connect, Closed, safeVars
  <2> QED BY <2>1, SafeUntouched DEF SafeInv
<1>2. CASE CooldownOver
  BY <1>2 DEF CooldownOver, SafeInv, managerVars
<1>3. CASE Pause \/ Resume \/ Shutdown \/ Exchange
  <2>1. entry' = FALSE /\ UNCHANGED <<flag, alert, cooldown, waiting, heard, rested>>
    BY <1>3 DEF Pause, Resume, Shutdown, Exchange, safeVars, managerVars
  <2> QED BY <2>1, SafeUntouched DEF SafeInv
<1>4. CASE SetFlag
  BY <1>4, SafeUntouched DEF SetFlag, SafeInv, safeVars, managerVars
<1>5. CASE UNCHANGED boardVars
  BY <1>5, SafeUntouched DEF boardVars, SafeInv
<1> QED
  BY <1>1, <1>2, <1>3, <1>4, <1>5, BoardKeeps, LostKeeps DEF BoardNext

(***************************************************************************)
(* For any number of managers, running side by side, and any outages, the  *)
(* trader considers an entry only after the cooldown and the recovery that *)
(* follow the last maintenance error.                                      *)
(***************************************************************************)
THEOREM RecoveryFirst == BoardSpec => []EntryAfterRecovery
<1>1. SafeInv => EntryAfterRecovery
  BY DEF SafeInv, EntryAfterRecovery
<1> QED
  BY <1>1, SafeStart, SafeStep, PTL DEF BoardSpec

-----------------------------------------------------------------------------
(* PrivateStream.                                                          *)

RenewerStages == {"none", "test", "sleep", "put", "over"}

\* A later renewer has a later generation, and none is of the future.
GenerationInv ==
    /\ generation \in Nat /\ issued \in Nat /\ token \in Nat
    /\ renew \in [Renewers -> [pc : RenewerStages, generation : Nat, bound : Nat]]
    /\ \A r \in Started : renew[r].generation <= generation
    /\ \A r, s \in Started : r < s => renew[r].generation < renew[s].generation

LEMMA PrivateStart == PrivateInit => GenerationInv
BY DEF PrivateInit, GenerationInv, Started, RenewerStages

\* A new generation without a renewer.
LEMMA NextGeneration ==
    ASSUME GenerationInv, generation' = generation + 1, UNCHANGED renew,
           issued' \in Nat, token' \in Nat
    PROVE  GenerationInv'
BY DEF GenerationInv, Started

LEMMA RenewKept ==
    ASSUME GenerationInv, UNCHANGED <<generation, renew>>, issued' \in Nat, token' \in Nat
    PROVE  GenerationInv'
BY DEF GenerationInv, Started

LEMMA OpenedKeeps == ASSUME GenerationInv, Opened PROVE GenerationInv'
<1>1. generation' = generation + 1 /\ UNCHANGED <<token, issued>> /\ StartRenewer
  BY DEF Opened, StartRenewer, gmoVars
<1>2. CASE token = 0
  BY <1>1, <1>2, NextGeneration DEF StartRenewer, GenerationInv
<1>3. CASE token # 0
  <2>1. PICK r \in Renewers :
          /\ Started = 1..(r - 1)
          /\ renew' = [renew EXCEPT ![r] = [pc |-> "test", generation |-> generation',
                                            bound |-> token]]
    BY <1>1, <1>3 DEF StartRenewer
  <2>2. r \in Nat
    BY DEF Renewers
  <2>3. renew' \in [Renewers -> [pc : RenewerStages, generation : Nat, bound : Nat]]
    BY <1>1, <2>1 DEF GenerationInv, RenewerStages
  <2>4. /\ renew'[r].pc = "test" /\ renew'[r].generation = generation + 1
        /\ \A s \in Renewers \ {r} : renew'[s] = renew[s]
    BY <1>1, <2>1 DEF GenerationInv
  <2>5. Started' = Started \cup {r} /\ \A s \in Started : s < r
    BY <2>1, <2>2, <2>4 DEF Started
  <2>6. \A s \in Started : renew[s].generation \in Nat /\ renew[s].generation <= generation
    BY DEF GenerationInv, Started
  <2>7. \A s \in Started' : renew'[s].generation <= generation'
    BY <1>1, <2>4, <2>5, <2>6 DEF GenerationInv, Started
  <2>8. ASSUME NEW s \in Started', NEW t \in Started', s < t
        PROVE  renew'[s].generation < renew'[t].generation
    <3>1. s \in Started
      BY <2>2, <2>5, <2>8 DEF Renewers, Started
    <3>2. s # r /\ s \in Renewers
      BY <2>2, <2>5, <3>1 DEF Renewers, Started
    <3>3. CASE t = r
      BY <2>4, <2>6, <3>1, <3>2, <3>3 DEF GenerationInv
    <3>4. CASE t # r
      BY <2>4, <2>5, <2>8, <3>1, <3>2, <3>4 DEF GenerationInv, Started
    <3> QED BY <3>3, <3>4
  <2> QED
    BY <1>1, <2>3, <2>7, <2>8 DEF GenerationInv
<1> QED
  BY <1>2, <1>3

LEMMA RenewKeeps == ASSUME GenerationInv, NEW r \in Renewers, RenewStep(r) PROVE GenerationInv'
<1>1. PICK stage \in RenewerStages \ {"none"} : renew' = [renew EXCEPT ![r].pc = stage]
  BY DEF RenewStep, RenewTest, RenewWake, RenewAnswer, Become, RenewerStages
<1>2. renew[r].pc # "none"
  BY DEF RenewStep, RenewTest, RenewWake, RenewAnswer
<1>3. token' \in Nat /\ UNCHANGED <<generation, issued>>
  BY DEF RenewStep, RenewTest, RenewWake, RenewAnswer, gmoVars, GenerationInv
<1>4. renew' \in [Renewers -> [pc : RenewerStages, generation : Nat, bound : Nat]]
  BY <1>1 DEF GenerationInv, RenewerStages
<1>5. \A s \in Renewers : /\ renew'[s].generation = renew[s].generation
                           /\ renew'[s].pc = IF s = r THEN stage ELSE renew[s].pc
  BY <1>1 DEF GenerationInv
<1>6. Started' = Started
  BY <1>1, <1>2, <1>5 DEF Started
<1> QED
  BY <1>3, <1>4, <1>5, <1>6 DEF GenerationInv, Started

LEMMA PrivateStep == ASSUME GenerationInv, [PrivateNext]_privateVars PROVE GenerationInv'
<1>1. CASE StartStream \/ LoopTest \/ StopCloses \/ Expire \/ UNCHANGED privateVars
  BY <1>1, RenewKept DEF StartStream, LoopTest, StopCloses, Expire, privateVars, threadVars,
                         gmoVars, GenerationInv
<1>2. CASE PostAnswer \/ Rejoined \/ StopDeletes
  BY <1>2, RenewKept DEF PostAnswer, Rejoined, StopDeletes, Invalidated, threadVars,
                         gmoVars, GenerationInv
<1>3. CASE Ended \/ StopBegins
  BY <1>3, NextGeneration DEF Ended, StopBegins, StopRenewer, gmoVars, GenerationInv
<1> QED
  BY <1>1, <1>2, <1>3, OpenedKeeps, RenewKeeps DEF PrivateNext, SessionStep, StopStep

LEMMA GenerationsGrow == PrivateSpec => []GenerationInv
BY PrivateStart, PrivateStep, PTL DEF PrivateSpec

(***************************************************************************)
(* For any number of sessions and errors, a renewer that outlived its      *)
(* session never extends a token: the one that begins a PUT is the latest, *)
(* and its token the present one.                                          *)
(***************************************************************************)
THEOREM LatestRenews == PrivateSpec => OldRenewerSilent
<1> DEFINE Latest == \A r \in Renewers :
                       renew[r].pc = "sleep" /\ renew'[r].pc = "put" =>
                         /\ \A s \in Started : s <= r
                         /\ token = renew[r].bound
<1>1. ASSUME GenerationInv, [PrivateNext]_privateVars PROVE [Latest]_privateVars
  <2>1. SUFFICES ASSUME NEW r \in Renewers, renew[r].pc = "sleep", renew'[r].pc = "put"
                 PROVE  (\A s \in Started : s <= r) /\ token = renew[r].bound
    OBVIOUS
  <2>2. renew' # renew
    BY <2>1
  <2>3. CASE Opened
    <3>1. PICK q \in Renewers : \E new : new.pc = "test" /\ renew' = [renew EXCEPT ![q] = new]
      BY <2>2, <2>3 DEF Opened, StartRenewer
    <3> QED BY <2>1, <3>1, <1>1 DEF GenerationInv
  <2>4. ASSUME NEW q \in Renewers, RenewStep(q)
        PROVE  (\A s \in Started : s <= r) /\ token = renew[r].bound
    <3>1. PICK stage \in RenewerStages : renew' = [renew EXCEPT ![q].pc = stage]
      BY <2>4 DEF RenewStep, RenewTest, RenewWake, RenewAnswer, Become, RenewerStages
    <3>2. q = r
      BY <1>1, <2>1, <3>1 DEF GenerationInv
    <3>3. RenewWake(r) /\ renew'[r].pc = "put"
      BY <2>1, <2>4, <3>2 DEF RenewStep, RenewTest, RenewAnswer
    <3>4. renew[r].generation = generation /\ token = renew[r].bound
      <4>1. renew' = [renew EXCEPT ![r].pc =
                        IF Retired(r) \/ token # renew[r].bound THEN "over" ELSE "put"]
            \/ renew' = [renew EXCEPT ![r].pc = "over"]
        BY <3>3 DEF RenewWake, Become
      <4>2. ~(Retired(r) \/ token # renew[r].bound)
        BY <1>1, <2>1, <4>1 DEF GenerationInv
      <4> QED BY <4>2 DEF Retired
    <3>5. ASSUME NEW s \in Started PROVE s <= r
      <4>1. r \in Started /\ r \in Nat /\ s \in Nat
        BY <2>1 DEF Started, Renewers
      <4>2. ~(r < s)
        BY <1>1, <3>4, <4>1 DEF GenerationInv, Started
      <4> QED BY <4>1, <4>2
    <3> QED BY <3>4, <3>5
  <2>5. Opened \/ \E q \in Renewers : RenewStep(q)
    BY <1>1, <2>2 DEF PrivateNext, SessionStep, StopStep, StartStream, LoopTest, PostAnswer,
         Ended, Rejoined, StopBegins, StopCloses, StopDeletes, StopRenewer, Expire,
         privateVars, threadVars
  <2> QED
    BY <2>3, <2>4, <2>5
<1> QED
  BY <1>1, GenerationsGrow, PTL DEF PrivateSpec, OldRenewerSilent

-----------------------------------------------------------------------------
(* Heartbeats.                                                             *)

MonitorStages == {"idle", "record", "read", "write"}

\* The lock belongs to the one monitor between its read and its write, and
\* what that one has read is still in the file.
FileLockInv ==
    /\ run \in [Monitors -> MonitorStages]
    /\ beat \in [Monitors -> Nat] /\ copy \in [Monitors -> [Monitors -> Nat]]
    /\ file = beat
    /\ \A k \in Monitors :
         /\ run[k] \in {"read", "write"} => lock = k
         /\ run[k] = "write" => copy[k] = file

LEMMA HeartStart == HeartInit => FileLockInv
<1> SUFFICES ASSUME HeartInit PROVE FileLockInv
  OBVIOUS
<1>1. /\ run = [k \in Monitors |-> "idle"] /\ file = [k \in Monitors |-> 0]
      /\ copy = [k \in Monitors |-> file] /\ beat = file
  BY DEF HeartInit, None
<1>2. beat \in [Monitors -> Nat]
  BY <1>1
<1>3. copy \in [Monitors -> [Monitors -> Nat]]
  BY <1>1, <1>2
<1>4. run \in [Monitors -> MonitorStages] /\ \A k \in Monitors : run[k] = "idle"
  BY <1>1 DEF MonitorStages
<1> QED
  BY <1>1, <1>2, <1>3, <1>4 DEF FileLockInv

LEMMA HeartUntouched ==
    ASSUME FileLockInv, UNCHANGED <<run, file, lock, copy, beat>>
    PROVE  FileLockInv'
BY DEF FileLockInv

\* A monitor that holds the lock or lets it go changes nothing of the others.
LEMMA HeartStep == ASSUME FileLockInv, [HeartNext]_heartVars PROVE FileLockInv'
<1> USE DEF FileLockInv, MonitorStages, Runs
<1>1. ASSUME NEW k \in Monitors, Start(k) PROVE FileLockInv'
  BY <1>1 DEF Start, beatVars
<1>2. ASSUME NEW k \in Monitors, Dies(k) PROVE FileLockInv'
  <2>1. /\ run' = [run EXCEPT ![k] = "idle"] /\ lock' = IF lock = k THEN NoOne ELSE lock
        /\ UNCHANGED <<file, copy, beat>>
    BY <1>2 DEF Dies
  <2>2. ASSUME NEW j \in Monitors, run'[j] \in {"read", "write"}
        PROVE  lock' = j /\ (run'[j] = "write" => copy'[j] = file')
    BY <2>1, <2>2
  <2> QED BY <2>1, <2>2
<1>3. ASSUME NEW k \in Monitors, Lock(k) PROVE FileLockInv'
  BY <1>3, HeartbeatAssumption DEF Lock
<1>4. ASSUME NEW k \in Monitors, Read(k) PROVE FileLockInv'
  BY <1>4 DEF Read
<1>5. ASSUME NEW k \in Monitors, Replace(k) PROVE FileLockInv'
  <2>1. /\ run' = [run EXCEPT ![k] = "idle"] /\ run[k] = "write"
        /\ beat' = [beat EXCEPT ![k] = @ + 1]
        /\ file' = [copy[k] EXCEPT ![k] = beat'[k]]
        /\ copy' = [copy EXCEPT ![k] = [j \in Monitors |-> None]]
    BY <1>5 DEF Replace
  <2>2. copy[k] = beat /\ beat' \in [Monitors -> Nat]
    BY <2>1
  <2>3. file' = beat'
    BY <2>1, <2>2
  <2>4. [j \in Monitors |-> None] \in [Monitors -> Nat]
    BY DEF None
  <2>5. copy' \in [Monitors -> [Monitors -> Nat]] /\ run' \in [Monitors -> MonitorStages]
    BY <2>1, <2>4
  <2>6. ASSUME NEW j \in Monitors PROVE run'[j] \notin {"read", "write"}
    BY <2>1
  <2> QED BY <2>2, <2>3, <2>5, <2>6
<1>6. ASSUME NEW k \in Monitors, Expires(k) PROVE FileLockInv'
  BY <1>6, HeartUntouched DEF Expires, beatVars
<1>7. CASE Checking
  BY <1>7, HeartUntouched DEF Checking, CheckBegins, CheckOne, beatVars
<1>8. CASE UNCHANGED heartVars
  BY <1>8, HeartUntouched DEF heartVars
<1> QED
  BY <1>1, <1>2, <1>3, <1>4, <1>5, <1>6, <1>7, <1>8 DEF HeartNext, Recording

(***************************************************************************)
(* For any monitors, recording at the same minute, failing and killed at   *)
(* any step, monitor_heartbeats.json holds the last beat of each.          *)
(***************************************************************************)
THEOREM HeartbeatsKept == HeartSpec => []NoHeartbeatLost
<1>1. FileLockInv => NoHeartbeatLost
  BY DEF FileLockInv, NoHeartbeatLost
<1> QED
  BY <1>1, HeartStart, HeartStep, PTL DEF HeartSpec

-----------------------------------------------------------------------------
(* Types of the streams.                                                   *)

\* A bounded counter stays within its bound.
LEMMA BoundReached ==
    ASSUME NEW n \in Nat, NEW k \in 0..n
    PROVE  k \in Nat /\ 0 \in 0..n /\ (k < n => k + 1 \in 0..n)
OBVIOUS

LEMMA BoardTyped == BoardSpec => []BoardTypeOK
<1>1. BoardInit => BoardTypeOK
  <2>1. 1 \in Managers /\ 0 \in 0..MaxOutages
    BY BoardAssumption DEF Managers
  <2> QED
    BY <2>1 DEF BoardInit, BoardTypeOK
<1>2. ASSUME BoardTypeOK, [BoardNext]_boardVars PROVE BoardTypeOK'
  <2>1. ASSUME NEW m \in Managers, LoopStep(m) \/ Lost(m) PROVE BoardTypeOK'
    <3>1. /\ \E to \in {"over", "connect", "wait", "session", "retest"} : loop' = [loop EXCEPT ![m] = to]
          /\ entry' = FALSE
          /\ UNCHANGED <<mode, flag, current, stopped, closing, gmo>>
      BY <2>1 DEF LoopStep, FirstTest, Retest, BackOff, Connect, Closed, Lost, ToLoop
    <3>2. /\ \/ UNCHANGED <<alert, cooldown, waiting, heard, rested>>
             \/ alert' = [alert EXCEPT ![m] = TRUE] /\ MaintenanceDetected
          /\ outages' = outages \/ (outages < MaxOutages /\ outages' = outages + 1)
      BY <2>1 DEF LoopStep, FirstTest, Retest, BackOff, Connect, Closed, Lost, ReportError, safeVars
    <3>3. /\ alert' \in [Managers -> BOOLEAN] /\ cooldown' \in {"none", "running", "past"}
          /\ waiting' \in BOOLEAN /\ heard' \in BOOLEAN /\ rested' \in BOOLEAN
      BY <3>2, <1>2 DEF BoardTypeOK, MaintenanceDetected
    <3>4. outages' \in 0..MaxOutages
      BY <3>2, <1>2, BoardAssumption DEF BoardTypeOK
    <3>5. loop' \in [Managers -> {"none", "test", "connect", "session", "retest", "wait", "over"}]
      BY <3>1, <1>2 DEF BoardTypeOK
    <3> QED
      BY <3>1, <3>3, <3>4, <3>5, <1>2 DEF BoardTypeOK
  <2>2. ASSUME NEW m \in Managers, Board(m) PROVE BoardTypeOK'
    BY <1>2, <2>2 DEF Board, Evaluate, BoardTypeOK
  <2>3. CASE Pause \/ Shutdown
    <3>1. /\ mode' \in {"paused", "ended"} /\ StopManager(current) /\ entry' = FALSE
          /\ UNCHANGED <<flag, current, loop, alert, safeVars, gmo, outages, heard, rested>>
      BY <2>3 DEF Pause, Shutdown
    <3>2. stopped' \in [Managers -> BOOLEAN] /\ closing' \in [Managers -> BOOLEAN]
      <4>1. \E closed \in BOOLEAN : closing' = [closing EXCEPT ![current] = closed]
        <5>1. PICK found \in BOOLEAN :
                closing' = [closing EXCEPT ![current] = \/ closing[current] \/ loop[current] = "session"
                                                        \/ loop[current] = "connect" /\ found]
          BY <3>1 DEF StopManager
        <5> QED
          BY <5>1
      <4> QED
        BY <1>2, <3>1, <4>1 DEF StopManager, BoardTypeOK
    <3> QED
      BY <1>2, <3>1, <3>2 DEF BoardTypeOK, safeVars
  <2>4. CASE Resume
    <3>1. current + 1 \in Managers
      BY <1>2, <2>4, BoardAssumption DEF Resume, BoardTypeOK, Managers
    <3>2. loop' \in [Managers -> {"none", "test", "connect", "session", "retest", "wait", "over"}]
      BY <1>2, <2>4 DEF Resume, ToLoop, BoardTypeOK
    <3> QED
      BY <1>2, <2>4, <3>1, <3>2 DEF Resume, BoardTypeOK, safeVars
  <2>5. CASE CooldownOver \/ SetFlag \/ UNCHANGED boardVars
    BY <1>2, <2>5 DEF CooldownOver, SetFlag, boardVars, managerVars, safeVars, BoardTypeOK
  <2>6. CASE Exchange
    <3>1. outages' \in 0..MaxOutages
      BY <1>2, <2>6, BoardAssumption, BoundReached DEF Exchange, BoardTypeOK
    <3>2. gmo' \in {"open", "closed"} /\ entry' = FALSE
          /\ UNCHANGED <<mode, flag, current, managerVars, safeVars, heard, rested>>
      BY <2>6 DEF Exchange
    <3> QED
      BY <1>2, <3>1, <3>2 DEF managerVars, safeVars, BoardTypeOK
  <2> QED
    BY <1>2, <2>1, <2>2, <2>3, <2>4, <2>5, <2>6 DEF BoardNext
<1> QED
  BY <1>1, <1>2, PTL DEF BoardSpec

RenewersTyped ==
    renew \in [Renewers -> [pc : {"none", "test", "sleep", "put", "over"},
                            generation : Nat, bound : 0..MaxTokens]]

\* What the steps leave alone but their own variables.
SessionTyped ==
    /\ session \in {"none", "test", "wait", "post", "connect", "session", "join",
                    "joinToken", "retest", "over"}
    /\ token \in 0..MaxTokens /\ held \in 0..MaxTokens
    /\ halt \in BOOLEAN /\ told \in BOOLEAN /\ quit \in BOOLEAN
    /\ generation \in Nat /\ renewer \in 0..MaxSessions
    /\ joined \in 0..MaxSessions /\ mainJoined \in 0..MaxSessions
    /\ main \in {"running", "joining", "closing", "stopped"}

TokensTyped ==
    issued \in 0..MaxTokens /\ valid \subseteq 1..issued /\ errors \in 0..MaxErrors

LEMMA PrivateParts == PrivateTypeOK <=> SessionTyped /\ RenewersTyped /\ TokensTyped
BY DEF PrivateTypeOK, SessionTyped, RenewersTyped, TokensTyped

LEMMA FaultTyped == ASSUME errors \in 0..MaxErrors, Fault PROVE errors' \in 0..MaxErrors
BY PrivateAssumption, BoundReached DEF Fault

LEMMA NextTyped == ASSUME generation \in Nat, generation' = generation + 1 PROVE generation' \in Nat
OBVIOUS

LEMMA ZeroTyped == 0 \in 0..MaxTokens /\ 0 \in 0..MaxSessions /\ 0 \in 0..MaxErrors
<1>1. MaxSessions \in Nat /\ MaxTokens \in Nat /\ MaxErrors \in Nat
  BY PrivateAssumption
<1> QED
  BY <1>1

LEMMA IssueTyped ==
    ASSUME TokensTyped, issued < MaxTokens, issued' = issued + 1, valid' = valid \cup {issued'},
           UNCHANGED errors
    PROVE  TokensTyped' /\ issued' \in 0..MaxTokens
<1>1. issued \in Nat /\ MaxTokens \in Nat /\ issued' \in 0..MaxTokens
  BY PrivateAssumption DEF TokensTyped
<1>2. 1..issued \subseteq 1..issued' /\ issued' \in 1..issued'
  BY <1>1
<1> QED
  BY <1>1, <1>2 DEF TokensTyped

LEMMA OpenedTyped ==
    ASSUME SessionTyped, RenewersTyped, StartRenewer
    PROVE  /\ RenewersTyped'
           /\ generation' \in Nat /\ quit' \in BOOLEAN /\ renewer' \in 0..MaxSessions
<1>1. generation' = generation + 1 /\ generation' \in Nat
  BY NextTyped DEF StartRenewer, SessionTyped
<1>2. CASE token = 0
  BY <1>1, <1>2, ZeroTyped DEF StartRenewer, RenewersTyped
<1>3. CASE token # 0
  <2>1. PICK r \in Renewers :
          /\ quit' = FALSE /\ renewer' = r
          /\ renew' = [renew EXCEPT ![r] = [pc |-> "test", generation |-> generation', bound |-> token]]
    BY <1>3 DEF StartRenewer
  <2>2. r \in 0..MaxSessions
    BY DEF Renewers
  <2>3. [pc |-> "test", generation |-> generation', bound |-> token]
          \in [pc : {"none", "test", "sleep", "put", "over"}, generation : Nat, bound : 0..MaxTokens]
    BY <1>1 DEF SessionTyped
  <2>4. RenewersTyped'
    BY <2>1, <2>3 DEF RenewersTyped
  <2> QED
    BY <1>1, <2>1, <2>2, <2>4
<1> QED
  BY <1>2, <1>3

LEMMA RenewTyped ==
    ASSUME SessionTyped, RenewersTyped, TokensTyped, NEW r \in Renewers, RenewStep(r)
    PROVE  SessionTyped' /\ RenewersTyped' /\ TokensTyped'
<1>1. \E stage \in {"test", "sleep", "put", "over"} : renew' = [renew EXCEPT ![r].pc = stage]
  BY DEF RenewStep, RenewTest, RenewWake, RenewAnswer, Become
<1>2. RenewersTyped'
  BY <1>1 DEF RenewersTyped
<1>3. /\ told' \in {told, told \/ session = "session", told \/ session \in {"connect", "session"}}
      /\ token' \in {token, 0}
      /\ UNCHANGED errors \/ Fault
      /\ UNCHANGED <<session, held, generation, quit, renewer, joined, stopVars, issued, valid>>
  BY DEF RenewStep, RenewTest, RenewWake, RenewAnswer, CloseFound, gmoVars
<1>4. SessionTyped'
  BY <1>3, ZeroTyped DEF SessionTyped, stopVars
<1>5. errors' \in 0..MaxErrors
  BY <1>3, FaultTyped DEF TokensTyped
<1>6. TokensTyped'
  BY <1>3, <1>5 DEF TokensTyped
<1> QED
  BY <1>2, <1>4, <1>6

LEMMA PrivateTyped == PrivateSpec => []PrivateTypeOK
<1> DEFINE Typed == SessionTyped /\ RenewersTyped /\ TokensTyped
<1>1. PrivateInit => Typed
  <2> SUFFICES ASSUME PrivateInit PROVE Typed
    OBVIOUS
  <2>1. SessionTyped /\ TokensTyped
    BY ZeroTyped DEF PrivateInit, SessionTyped, TokensTyped
  <2>2. RenewersTyped
    BY ZeroTyped DEF PrivateInit, RenewersTyped
  <2> QED
    BY <2>1, <2>2
<1>2. ASSUME Typed, [PrivateNext]_privateVars PROVE Typed'
  <2>1. CASE StartStream \/ LoopTest \/ UNCHANGED privateVars
    <3>1. /\ session' \in {session, "test", "over", "wait", "post", "connect"}
          /\ held' \in {held, token} /\ told' \in {told, FALSE}
          /\ UNCHANGED <<token, threadVars, joined, stopVars, gmoVars>>
      BY <2>1 DEF StartStream, LoopTest, Token, privateVars, threadVars, stopVars, gmoVars
    <3> QED
      BY <1>2, <3>1 DEF SessionTyped, RenewersTyped, TokensTyped, threadVars, stopVars, gmoVars
  <2>2. CASE PostAnswer
    <3>1. UNCHANGED <<halt, told, threadVars, joined, main, mainJoined>>
      BY <2>2 DEF PostAnswer
    <3>2. /\ session' \in {"connect", "retest"} /\ TokensTyped'
          /\ token' \in 0..MaxTokens /\ held' \in 0..MaxTokens
      <4>1. CASE Fault /\ session' = "retest" /\ UNCHANGED <<token, held, issued, valid>>
        BY <1>2, <4>1, FaultTyped DEF SessionTyped, TokensTyped
      <4>2. CASE /\ issued < MaxTokens /\ issued' = issued + 1 /\ valid' = valid \cup {issued'}
                 /\ token' = issued' /\ held' = issued' /\ session' = "connect" /\ UNCHANGED errors
        BY <1>2, <4>2, IssueTyped
      <4> QED
        BY <2>2, <4>1, <4>2 DEF PostAnswer
    <3> QED
      BY <1>2, <3>1, <3>2 DEF SessionTyped, RenewersTyped, threadVars
  <2>3. CASE Opened
    <3>1. /\ StartRenewer /\ session' = "session"
          /\ UNCHANGED <<token, held, told, joined, stopVars, gmoVars>>
      BY <2>3 DEF Opened
    <3>2. RenewersTyped' /\ generation' \in Nat /\ quit' \in BOOLEAN /\ renewer' \in 0..MaxSessions
      BY <1>2, <3>1, OpenedTyped
    <3> QED
      BY <1>2, <3>1, <3>2 DEF SessionTyped, TokensTyped, stopVars, gmoVars
  <2>4. CASE Ended \/ StopBegins
    <3>1. StopRenewer /\ UNCHANGED <<token, held, told, issued, valid>>
      BY <2>4 DEF Ended, StopBegins, gmoVars
    <3>2. /\ generation' \in Nat /\ quit' = TRUE /\ renewer' = 0 /\ UNCHANGED renew
      BY <1>2, <3>1, NextTyped DEF StopRenewer, SessionTyped
    <3>3. /\ session' \in {session, "join", "joinToken"} /\ halt' \in {halt, TRUE}
          /\ joined' \in {joined, renewer} /\ mainJoined' \in {mainJoined, renewer}
          /\ main' \in {main, "joining"}
          /\ UNCHANGED errors \/ Fault
      BY <2>4 DEF Ended, StopBegins, stopVars, gmoVars
    <3>4. errors' \in 0..MaxErrors
      BY <1>2, <3>3, FaultTyped DEF TokensTyped
    <3> QED
      BY <1>2, <3>1, <3>2, <3>3, <3>4, ZeroTyped DEF SessionTyped, RenewersTyped, TokensTyped
  <2>5. CASE Rejoined \/ StopCloses
    <3>1. /\ session' \in {session, "retest"} /\ token' \in {token, 0} /\ joined' \in {joined, 0}
          /\ told' \in {told, told \/ session = "session", told \/ session \in {"connect", "session"}}
          /\ main' \in {main, "closing"}
          /\ UNCHANGED <<held, halt, threadVars, mainJoined, gmoVars>>
      BY <2>5 DEF Rejoined, StopCloses, CloseFound, Invalidated, stopVars
    <3> QED
      <4>1. told' \in BOOLEAN
        BY <1>2, <3>1 DEF SessionTyped
      <4>2. SessionTyped'
        BY <1>2, <3>1, <4>1, ZeroTyped DEF SessionTyped, threadVars
      <4> QED
        BY <1>2, <3>1, <4>2 DEF RenewersTyped, TokensTyped, threadVars, gmoVars
  <2>6. CASE StopDeletes \/ Expire
    <3>1. /\ main' \in {main, "stopped"} /\ token' \in {token, 0} /\ valid' \subseteq valid
          /\ UNCHANGED errors \/ Fault
          /\ UNCHANGED <<session, held, halt, told, threadVars, joined, mainJoined, issued>>
      BY <2>6 DEF StopDeletes, Expire, Fault
    <3>2. errors' \in 0..MaxErrors
      BY <1>2, <3>1, FaultTyped DEF TokensTyped
    <3> QED
      BY <1>2, <3>1, <3>2, ZeroTyped DEF SessionTyped, RenewersTyped, TokensTyped, threadVars
  <2> QED
    BY <1>2, <2>1, <2>2, <2>3, <2>4, <2>5, <2>6, RenewTyped DEF PrivateNext, SessionStep, StopStep
<1> QED
  BY <1>1, <1>2, PrivateParts, PTL DEF PrivateSpec

-----------------------------------------------------------------------------
(* Types of the monitors and of the review.                                *)

LEMMA KeeperTyped == KeeperSpec => []KeeperTypeOK
<1>1. KeeperInit => KeeperTypeOK
  <2>1. 1 \in 0..MaxEngines /\ 0 \in 0..MaxFaults
    BY KeeperAssumption DEF MaxEngines
  <2> QED
    BY <2>1 DEF KeeperInit, KeeperTypeOK
<1>2. ASSUME KeeperTypeOK, [KeeperNext]_keeperVars PROVE KeeperTypeOK'
  <2>1. /\ engines' \in {engines, 0} \/ (engines # MaxEngines /\ engines' = engines + 1)
           \/ (engines > 0 /\ engines' = engines - 1)
        /\ UNCHANGED faults \/ Fail
        /\ manual' \in {manual, ~manual} /\ cooling' \in BOOLEAN /\ reported' \in BOOLEAN
    <3> USE <1>2 DEF KeeperTypeOK
    <3>1. CASE DashboardEnsures \/ RestartBegins \/ UNCHANGED keeperVars
      BY <3>1 DEF DashboardEnsures, RestartBegins, keeperVars
    <3>2. CASE KillEngines
      BY <3>2 DEF KillEngines
    <3>3. ASSUME NEW s \in Starters, TestFlag(s) \/ CountEngines(s) \/ HealthOver(s)
          PROVE  UNCHANGED <<engines, manual, cooling, faults, reported>>
      BY <3>3 DEF TestFlag, CountEngines, HealthOver
    <3>4. ASSUME NEW s \in Starters, StartEngine(s)
          PROVE  /\ engines' = engines \/ (engines # MaxEngines /\ engines' = engines + 1)
                 /\ reported' \in BOOLEAN /\ UNCHANGED <<manual, cooling, faults>>
      BY <3>4 DEF StartEngine
    <3>5. CASE EnumerationFails \/ FailureAlert
      BY <3>5 DEF EnumerationFails, FailureAlert
    <3>6. CASE WatchBegins \/ WatchCounts \/ GraceOver \/ WatchRecounts \/ EnsureReturns
      BY <3>6 DEF WatchBegins, WatchCounts, GraceOver, WatchRecounts, EnsureReturns
    <3>7. CASE DownAlert
      BY <3>7 DEF DownAlert
    <3>8. CASE CooldownEnds \/ EngineEnds \/ ManualStop
      BY <3>8 DEF CooldownEnds, EngineEnds, ManualStop
    <3> QED
      BY <3>1, <3>2, <3>3, <3>4, <3>5, <3>6, <3>7, <3>8 DEF KeeperNext, WatchStep
  <2>2. /\ \/ UNCHANGED starter
           \/ \E s \in Starters : \E to \in {"idle", "kill", "flag", "count", "start", "health"} :
                 starter' = [starter EXCEPT ![s] = to]
        /\ watch' \in {watch, "idle", "count", "grace", "recount", "ensure", "alert", "failed"}
    <3>1. CASE UNCHANGED keeperVars \/ CooldownEnds \/ EngineEnds \/ ManualStop
      BY <3>1 DEF keeperVars, CooldownEnds, EngineEnds, ManualStop
    <3>2. CASE DashboardEnsures \/ RestartBegins \/ KillEngines
      BY <3>2 DEF DashboardEnsures, RestartBegins, KillEngines, Begin, Goes, Starters, Ensurers
    <3>3. ASSUME NEW s \in Starters, TestFlag(s) \/ CountEngines(s) \/ StartEngine(s) \/ HealthOver(s)
          PROVE  /\ \E to \in {"idle", "start", "count", "health"} : starter' = [starter EXCEPT ![s] = to]
                 /\ UNCHANGED watch
      BY <3>3 DEF TestFlag, CountEngines, StartEngine, HealthOver, Goes
    <3>4. CASE EnumerationFails \/ WatchStep
      BY <3>4 DEF EnumerationFails, WatchStep, WatchBegins, WatchCounts, GraceOver, WatchRecounts,
                  EnsureReturns, DownAlert, FailureAlert, Watches, Begin, Goes, Starters, Ensurers
    <3> QED
      BY <1>2, <3>1, <3>2, <3>3, <3>4 DEF KeeperNext
  <2>3. engines' \in 0..MaxEngines
    <3>1. engines \in 0..2
      BY <1>2 DEF KeeperTypeOK, MaxEngines
    <3> QED
      BY <2>1, <3>1 DEF MaxEngines
  <2>4. faults' \in 0..MaxFaults
    BY <1>2, <2>1, KeeperAssumption, BoundReached DEF Fail, KeeperTypeOK
  <2>5. starter' \in [Starters -> {"idle", "kill", "flag", "count", "start", "health"}]
    BY <1>2, <2>2 DEF KeeperTypeOK
  <2>6. manual' \in BOOLEAN
    BY <1>2, <2>1 DEF KeeperTypeOK
  <2> QED
    BY <1>2, <2>1, <2>2, <2>3, <2>4, <2>5, <2>6 DEF KeeperTypeOK
<1> QED
  BY <1>1, <1>2, PTL DEF KeeperSpec

LEMMA CrashTyped == CrashSpec => []CrashTypeOK
<1>1. CrashInit => CrashTypeOK
  BY CrashAssumption DEF CrashInit, CrashTypeOK, States
<1>2. ASSUME CrashTypeOK, [CrashNext]_crashVars PROVE CrashTypeOK'
  <2>1. /\ UNCHANGED service
           \/ \E s \in TargetServices : \E to \in States : service' = [service EXCEPT ![s] = to]
        /\ UNCHANGED crashed
           \/ \E s \in TargetServices : \E mark \in BOOLEAN : crashed' = [crashed EXCEPT ![s] = mark]
        /\ UNCHANGED noticed
           \/ \E s \in TargetServices : \E mark \in BOOLEAN : noticed' = [noticed EXCEPT ![s] = mark]
        /\ shown' \in {shown, service}
        /\ asked' = TargetServices \/ asked' \subseteq asked
        /\ UNCHANGED losses \/ Loss
    <3>1. CASE Ask \/ UNCHANGED crashVars
      BY <3>1 DEF Ask, crashVars
    <3>2. ASSUME NEW s \in TargetServices, SeenRunning(s) \/ SeenOther(s)
          PROVE  /\ UNCHANGED <<service, shown, noticed, losses>> /\ asked' \subseteq asked
                 /\ UNCHANGED crashed \/ crashed' = [crashed EXCEPT ![s] = FALSE]
      BY <3>2 DEF SeenRunning, SeenOther
    <3>3. ASSUME NEW s \in TargetServices, SeenExited(s)
          PROVE  /\ UNCHANGED <<service, shown>> /\ asked' \subseteq asked
                 /\ UNCHANGED crashed \/ crashed' = [crashed EXCEPT ![s] = TRUE]
                 /\ UNCHANGED noticed \/ noticed' = [noticed EXCEPT ![s] = TRUE]
                 /\ UNCHANGED losses \/ Loss
      BY <3>3 DEF SeenExited
    <3>4. ASSUME NEW s \in TargetServices, Container(s)
          PROVE  /\ UNCHANGED <<asked, shown, crashed, losses>>
                 /\ UNCHANGED noticed \/ noticed' = [noticed EXCEPT ![s] = FALSE]
                 /\ \E to \in States : service' = [service EXCEPT ![s] = to]
      BY <3>4 DEF Container, States
    <3> QED
      BY <1>2, <3>1, <3>2, <3>3, <3>4 DEF CrashNext, Checks
  <2>2. /\ service' \in [TargetServices -> States]
        /\ crashed' \in [TargetServices -> BOOLEAN] /\ noticed' \in [TargetServices -> BOOLEAN]
    BY <1>2, <2>1 DEF CrashTypeOK
  <2>3. losses' \in 0..MaxLosses
    BY <1>2, <2>1, CrashAssumption, BoundReached DEF Loss, CrashTypeOK
  <2> QED
    BY <1>2, <2>1, <2>2, <2>3 DEF CrashTypeOK
<1> QED
  BY <1>1, <1>2, PTL DEF CrashSpec

\* A monitor that runs has a beat left to record.
BeatLeft == \A k \in Monitors : run[k] # "idle" => beat[k] < MaxBeats

LEMMA HeartTyped == HeartSpec => []HeartTypeOK
<1>1. HeartInit => HeartTypeOK /\ BeatLeft
  BY HeartbeatAssumption DEF HeartInit, HeartTypeOK, BeatLeft, Beats, None
<1>2. ASSUME HeartTypeOK, BeatLeft, [HeartNext]_heartVars PROVE HeartTypeOK' /\ BeatLeft'
  <2> USE <1>2, HeartbeatAssumption DEF HeartTypeOK, BeatLeft, Trouble, Runs
  <2>1. ASSUME NEW k \in Monitors, Start(k) \/ Dies(k) \/ Lock(k) \/ Read(k)
        PROVE  HeartTypeOK' /\ BeatLeft'
    <3>1. /\ \E stage \in {"idle", "record", "read", "write"} : run' = [run EXCEPT ![k] = stage]
          /\ beat[k] < MaxBeats /\ UNCHANGED <<file, beat, expired, checkVars>>
      BY <2>1 DEF Start, Dies, Lock, Read, beatVars
    <3>2. /\ lock' \in Monitors \cup {NoOne} /\ copy' \in [Monitors -> [Monitors -> Beats]]
      BY <2>1 DEF Start, Dies, Lock, Read, beatVars
    <3>3. troubles' \in 0..MaxTroubles
      BY <2>1 DEF Start, Dies, Lock, Read
    <3> QED
      BY <3>1, <3>2, <3>3 DEF checkVars
  <2>2. ASSUME NEW k \in Monitors, Replace(k) PROVE HeartTypeOK' /\ BeatLeft'
    <3>1. /\ beat' = [beat EXCEPT ![k] = @ + 1] /\ file' = [copy[k] EXCEPT ![k] = beat'[k]]
          /\ lock' = NoOne /\ copy' = [copy EXCEPT ![k] = [j \in Monitors |-> None]]
          /\ run' = [run EXCEPT ![k] = "idle"] /\ run[k] = "write"
          /\ UNCHANGED <<expired, checkVars, troubles>>
      BY <2>2 DEF Replace
    <3>2. beat[k] + 1 \in Beats
      BY <3>1 DEF Beats
    <3>3. beat' \in [Monitors -> Beats] /\ beat'[k] \in Beats
      BY <3>1, <3>2
    <3>4. file' \in [Monitors -> Beats]
      BY <3>1, <3>3
    <3>5. [j \in Monitors |-> None] \in [Monitors -> Beats]
      BY DEF Beats, None
    <3>6. copy' \in [Monitors -> [Monitors -> Beats]]
      BY <3>1, <3>5
    <3>7. BeatLeft'
      BY <3>1
    <3> QED
      BY <3>1, <3>3, <3>4, <3>6, <3>7 DEF checkVars
  <2>3. ASSUME NEW k \in Monitors, Expires(k) PROVE HeartTypeOK' /\ BeatLeft'
    BY <2>3 DEF Expires, beatVars, checkVars
  <2>4. CASE CheckBegins \/ UNCHANGED heartVars
    BY <2>4 DEF CheckBegins, heartVars, beatVars
  <2>5. ASSUME NEW k \in Monitors, CheckOne(k) PROVE HeartTypeOK' /\ BeatLeft'
    <3>1. /\ check' = check \ {k} /\ UNCHANGED <<run, beatVars, expired, loaded>>
          /\ seen' \in {seen, [seen EXCEPT ![k] = loaded[k]]}
          /\ marked' \in {marked, [marked EXCEPT ![k] = TRUE], [marked EXCEPT ![k] = FALSE]}
          /\ notified' \in {notified, [notified EXCEPT ![k] = loaded[k]]}
          /\ troubles' = troubles \/ Trouble
      BY <2>5 DEF CheckOne
    <3>2. /\ seen' \in [Monitors -> Beats] /\ notified' \in [Monitors -> Beats]
          /\ marked' \in [Monitors -> BOOLEAN]
      BY <3>1
    <3>3. troubles' \in 0..MaxTroubles
      BY <3>1, BoundReached
    <3>4. BeatLeft'
      BY <3>1 DEF beatVars
    <3> QED
      BY <3>1, <3>2, <3>3, <3>4 DEF beatVars
  <2> QED
    BY <2>1, <2>2, <2>3, <2>4, <2>5 DEF HeartNext, Recording, Checking
<1> QED
  BY <1>1, <1>2, PTL DEF HeartSpec

-----------------------------------------------------------------------------
(* Types of the nightly review.                                            *)

\* What a write leaves in config.json is within the absolute bounds.
LEMMA WithinBounds == ASSUME NEW v \in Int PROVE Within(v) \in Lower..Upper
<1>1. Lower \in Int /\ Upper \in Int /\ Lower <= Upper
  BY ReviewAssumption
<1>2. PICK low \in {v, Upper} : \A y \in {v, Upper} : low <= y
  BY <1>1
<1>3. Min({v, Upper}) \in {v, Upper} /\ Min({v, Upper}) <= Upper
  BY <1>2 DEF Min
<1> DEFINE least == Min({v, Upper})
<1>4. least \in Int /\ least <= Upper
  BY <1>1, <1>3
<1> HIDE DEF least
<1>5. PICK high \in {Lower, least} : \A y \in {Lower, least} : high >= y
  BY <1>1, <1>4
<1>6. Max({Lower, least}) \in {Lower, least} /\ Max({Lower, least}) >= Lower
  BY <1>5 DEF Max
<1>7. Max({Lower, least}) \in Lower..Upper
  BY <1>1, <1>4, <1>6
<1> QED
  BY <1>7 DEF Within, least

LEMMA AllowedBounds ==
    ASSUME NEW was \in Int, NEW new \in Int PROVE Allowed(was, new) \in Lower..Upper
BY WithinBounds DEF Allowed

LEMMA ReviewNumbers ==
    /\ Lower..Upper \subseteq Nat /\ NoTarget \in Nat
    /\ \A d \in Deltas : d \in Int
<1>1. Lower \in Nat /\ Upper \in Nat
  BY ReviewAssumption
<1>2. \A n \in Lower..Upper : n \in Nat
  BY <1>1
<1>3. \A d \in Rises \cup Falls : d \in Int /\ -d \in Int
  BY ReviewAssumption
<1> QED
  BY <1>2, <1>3 DEF NoTarget, Deltas

Begun == [status : {"in_progress", "reverted"}, start : Nat, target : Nat, day : 1..2]

LEMMA EntriesAre == Entries = {NoRollout} \cup Begun
BY DEF Entries, Begun

\* A part of an integer difference is an integer.
LEMMA TenthsInt ==
    ASSUME NEW a \in Int, NEW n \in 1..10 PROVE (a * n) \div 10 \in Int
<1>1. a * n \in Int
  OBVIOUS
<1> QED
  BY <1>1

LEMMA TargetInt == ASSUME NEW e \in Begun, NEW day \in Nat PROVE Target(e, day) \in Int
<1> DEFINE tenths == Tenths(IF day >= Total THEN Total ELSE day)
<1>1. tenths \in 1..10
  BY DEF Tenths
<1>2. e.start \in Int /\ e.target \in Int /\ e.target - e.start \in Int
  BY DEF Begun
<1> HIDE DEF tenths
<1>3. ((e.target - e.start) * tenths) \div 10 \in Int
  BY <1>1, <1>2, TenthsInt
<1>4. e.start + (((e.target - e.start) * tenths) \div 10) \in Int
  BY <1>2, <1>3
<1> QED
  BY <1>4 DEF Target, tenths

LEMMA SteppedTyped == ASSUME NEW e \in Begun, NEW was \in Int PROVE Stepped(e, was) \in Entries
<1>1. [e EXCEPT !.status = "reverted"] \in Begun
  BY DEF Begun
<1>2. ~(e.day + 1 >= Total) => [e EXCEPT !.day = e.day + 1] \in Begun
  BY DEF Begun, Total
<1> QED
  BY <1>1, <1>2, EntriesAre DEF Stepped

\* A night applies rollouts only when there is one.
NightInv == night = "rollouts" => pending # NoRollout

LEMMA ProposeTyped ==
    ASSUME ReviewTypeOK, NEW d \in Deltas, Propose(d)
    PROVE  ReviewTypeOK' /\ NightInv'
<1>1. /\ mine.value + d > 0 /\ night' = "day" /\ UNCHANGED <<mine, rolled>>
  BY DEF Propose
<1>2. mine.value \in Nat /\ d \in Int /\ mine.value + d \in Nat
  BY <1>1, ReviewNumbers DEF ReviewTypeOK
<1>3. PICK outlier \in BOOLEAN, gated \in BOOLEAN :
        LET slow == outlier /\ Abs(d) >= MinStep
            tonight == mine.value + (IF slow THEN (d * Tenths(1)) \div 10 ELSE d) IN
          /\ value' = IF gated THEN Within(mine.value) ELSE Allowed(mine.value, tonight)
          /\ pending' = IF slow THEN Rollout(d) ELSE mine.pending
          /\ refused' = IF gated THEN mine.value + d ELSE NoTarget
  BY DEF Propose
<1> DEFINE slow == outlier /\ Abs(d) >= MinStep
           tonight == mine.value + (IF slow THEN (d * Tenths(1)) \div 10 ELSE d)
<1>4. tonight \in Int
  <2>1. (d * Tenths(1)) \div 10 \in Int
    BY <1>2, TenthsInt DEF Tenths
  <2> QED
    BY <1>2, <2>1
<1>5. value' = Within(mine.value) \/ value' = Allowed(mine.value, tonight)
  BY <1>3
<1>6. value' \in Lower..Upper
  <2> HIDE DEF tonight
  <2>1. mine.value \in Int
    BY <1>2
  <2>2. Within(mine.value) \in Lower..Upper
    BY <2>1, WithinBounds
  <2>3. Allowed(mine.value, tonight) \in Lower..Upper
    BY <1>4, <2>1, AllowedBounds
  <2> QED
    BY <1>5, <2>2, <2>3
<1>7. Rollout(d) \in Entries
  BY <1>2, EntriesAre DEF Rollout, Begun
<1>8. pending' \in Entries
  BY <1>3, <1>7 DEF ReviewTypeOK
<1>9. refused' \in Nat
  BY <1>2, <1>3, ReviewNumbers
<1> QED
  BY <1>1, <1>6, <1>8, <1>9 DEF ReviewTypeOK, NightInv

LEMMA ReviewTyped == ReviewInit /\ [][ReviewNext]_reviewVars => []ReviewTypeOK
<1>1. ReviewInit => ReviewTypeOK /\ NightInv
  BY ReviewAssumption, EntriesAre, ReviewNumbers DEF ReviewInit, ReviewTypeOK, NightInv
<1>2. ASSUME ReviewTypeOK, NightInv, [ReviewNext]_reviewVars PROVE ReviewTypeOK' /\ NightInv'
  <2>1. CASE BeginNight
    <3>1. /\ night' \in {"discussion", "rollouts"} /\ (night' = "rollouts" => pending # NoRollout)
          /\ mine'.value = value /\ mine'.pending = pending
          /\ UNCHANGED <<value, pending, rolled, refused>>
      BY <2>1 DEF BeginNight
    <3> QED
      BY <1>2, <3>1 DEF ReviewTypeOK, NightInv
  <2>2. CASE ApplyRollout
    <3>1. pending \in Begun /\ value \in Int /\ pending.day + 1 \in Nat
      <4>1. pending \in Begun
        BY <1>2, <2>2, EntriesAre DEF ApplyRollout, NightInv, ReviewTypeOK
      <4>2. pending.day \in 1..2
        BY <4>1 DEF Begun
      <4> QED
        BY <1>2, <4>1, <4>2, ReviewNumbers DEF ReviewTypeOK
    <3>2. value' \in Lower..Upper /\ rolled' \in Entries
      BY <2>2, <3>1, TargetInt, AllowedBounds, SteppedTyped DEF ApplyRollout
    <3> QED
      BY <1>2, <2>2, <3>2 DEF ApplyRollout, ReviewTypeOK, NightInv
  <2>3. CASE SavePending
    <3>1. /\ pending' = rolled /\ mine'.value = value /\ mine'.pending = rolled
          /\ night' = "discussion" /\ UNCHANGED <<value, rolled, refused>>
      BY <2>3 DEF SavePending
    <3> QED
      BY <1>2, <3>1 DEF ReviewTypeOK, NightInv
  <2>4. CASE RolloutsFail \/ NoProposal \/ NightKilled \/ UNCHANGED reviewVars
    <3>1. night' \in {night, "discussion", "day"} /\ UNCHANGED <<value, pending, mine, rolled, refused>>
      BY <2>4 DEF RolloutsFail, NoProposal, NightKilled, reviewVars
    <3> QED
      BY <1>2, <3>1 DEF ReviewTypeOK, NightInv
  <2> QED
    BY <1>2, <2>1, <2>2, <2>3, <2>4, ProposeTyped DEF ReviewNext
<1> QED
  BY <1>1, <1>2, PTL

-----------------------------------------------------------------------------
(* The parts together.                                                     *)

\* A behavior of the services is one of every part: the parts that do not
\* move stutter.
LEMMA ServicesAre ==
    ServicesSpec => /\ BoardSpec /\ PrivateSpec /\ TickSpec /\ KeeperSpec /\ HeartSpec /\ CrashSpec
                    /\ ReviewInit /\ [][ReviewNext]_reviewVars /\ Spec
<1>1. ServicesInit => /\ BoardInit /\ PrivateInit /\ TickInit /\ KeeperInit /\ HeartInit
                      /\ CrashInit /\ ReviewInit /\ Init
  BY DEF ServicesInit
<1>2. [ServicesNext]_servicesVars =>
        /\ [BoardNext]_boardVars /\ [PrivateNext]_privateVars /\ [TickNext]_tickVars
        /\ [KeeperNext]_keeperVars /\ [HeartNext]_heartVars /\ [CrashNext]_crashVars
        /\ [ReviewNext]_reviewVars /\ [Next]_vars
  BY DEF ServicesNext, servicesVars
<1> QED
  BY <1>1, <1>2, PTL
     DEF ServicesSpec, BoardSpec, PrivateSpec, TickSpec, KeeperSpec, HeartSpec, CrashSpec, Spec

(***************************************************************************)
(* The state of every service keeps its type for any number of managers,   *)
(* tokens, rows, monitors, services, processes and nights.                 *)
(***************************************************************************)
THEOREM ServicesTyped == ServicesSpec => []ServicesTypeOK
<1>1. BoardTypeOK /\ PrivateTypeOK /\ TickTypeOK /\ KeeperTypeOK /\ HeartTypeOK /\ CrashTypeOK
        /\ ReviewTypeOK /\ TypeOK => ServicesTypeOK
  BY DEF ServicesTypeOK
<1> QED
  BY <1>1, ServicesAre, BoardTyped, PrivateTyped, TickTyped, KeeperTyped, HeartTyped, CrashTyped,
     ReviewTyped, LockTypeCorrect, PTL
=============================================================================
