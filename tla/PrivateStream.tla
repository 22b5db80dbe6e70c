--------------------------- MODULE PrivateStream ---------------------------
(***************************************************************************)
(* The private stream: PrivateWebSocketManager (websocket_manager.py).     *)
(* Its reconnection thread gets a ws-auth token and keeps a session, a     *)
(* renewer thread per session extends the token, and stop() is called by   *)
(* the main thread.  Tokens and renewers are numbered from 1; 0 is None.   *)
(* GMO decides which tokens are valid, and may end one at any time.        *)
(***************************************************************************)
EXTENDS Naturals

CONSTANTS
    MaxTokens,   \* bound: tokens issued
    MaxSessions, \* bound: sessions, each with its renewer
    MaxErrors    \* bound: calls that fail and connections that are lost

\* An error ends one session, and every renewer started before it may close
\* one more, so that the bounds on tokens and sessions are never reached.
ASSUME PrivateAssumption ==
    /\ MaxErrors \in Nat
    /\ MaxTokens \in Nat /\ MaxTokens > 2 * MaxErrors
    /\ MaxSessions \in Nat /\ MaxSessions >= 2 ^ (MaxErrors + 1)

Renewers == 1..MaxSessions

VARIABLES
    session,    \* what the reconnection thread does
    token,      \* _token
    held,       \* the token _connect_once was called with
    halt,       \* _stop_event
    told,       \* whether the session was told to close
    generation, \* _renew_generation
    quit,       \* _renew_stop_event
    renewer,    \* _renew_thread
    renew,      \* per renewer: what it does, its generation and its token
    joined,     \* the renewer the reconnection thread waits for
    main,       \* stop(): "running", "joining", "closing" or "stopped"
    mainJoined, \* the renewer stop() waits for
    issued,     \* tokens issued by GMO
    valid,      \* those GMO still accepts
    errors      \* failures so far

privateVars == <<session, token, held, halt, told, generation, quit, renewer,
                 renew, joined, main, mainJoined, issued, valid, errors>>
threadVars == <<generation, quit, renewer, renew>>
stopVars == <<halt, main, mainJoined>>
gmoVars == <<issued, valid, errors>>

PrivateTypeOK ==
    /\ session \in {"none", "test", "wait", "post", "connect", "session", "join",
                    "joinToken", "retest", "over"}
    /\ token \in 0..MaxTokens /\ held \in 0..MaxTokens
    /\ halt \in BOOLEAN /\ told \in BOOLEAN /\ quit \in BOOLEAN
    /\ generation \in Nat
    /\ renewer \in 0..MaxSessions
    /\ renew \in [Renewers -> [pc : {"none", "test", "sleep", "put", "over"},
                               generation : Nat, bound : 0..MaxTokens]]
    /\ joined \in 0..MaxSessions /\ mainJoined \in 0..MaxSessions
    /\ main \in {"running", "joining", "closing", "stopped"}
    /\ issued \in 0..MaxTokens
    /\ valid \subseteq 1..issued
    /\ errors \in 0..MaxErrors

PrivateInit ==
    /\ session = "none"
    /\ token = 0 /\ held = 0
    /\ halt = FALSE /\ told = FALSE
    /\ generation = 0 /\ quit = FALSE /\ renewer = 0
    /\ renew = [r \in Renewers |-> [pc |-> "none", generation |-> 0, bound |-> 0]]
    /\ joined = 0
    /\ main = "running" /\ mainJoined = 0
    /\ issued = 0 /\ valid = {} /\ errors = 0

Started == {r \in Renewers : renew[r].pc # "none"}

\* A bounded failure of a call or of a connection.
Fault == errors < MaxErrors /\ errors' = errors + 1

----------------------------------------------------------------------------
(* The reconnection thread.                                                *)

\* start().
StartStream ==
    /\ session = "none"
    /\ session' = "test"
    /\ UNCHANGED <<token, held, told, threadVars, joined, stopVars, gmoVars>>

\* The loop test: without a token a POST begins, with one it connects.
Token == IF token = 0 THEN "post" ELSE "connect"

LoopTest ==
    /\ session \in {"test", "retest", "wait"}
    /\ session' = CASE halt -> "over"
                    [] ~halt /\ session = "retest" -> "wait"
                    [] OTHER -> Token
    /\ held' = IF session' = "connect" THEN token ELSE held
    /\ told' = FALSE
    /\ UNCHANGED <<token, threadVars, joined, stopVars, gmoVars>>

\* Mutant: a failed POST ends the thread.
PostAnswer_Uncaught ==
    /\ session = "post"
    /\ \/ /\ issued < MaxTokens
          /\ issued' = issued + 1
          /\ valid' = valid \cup {issued'}
          /\ token' = issued' /\ held' = issued'
          /\ session' = "connect"
          /\ UNCHANGED errors
       \/ Fault /\ session' = "over" /\ UNCHANGED <<token, held, issued, valid>>
    /\ UNCHANGED <<halt, told, threadVars, joined, main, mainJoined>>

\* _create_token without the lock: an answer stores the new token even if
\* stop() has deleted the old one meanwhile.
PostAnswer ==
    /\ session = "post"
    /\ \/ /\ issued < MaxTokens
          /\ issued' = issued + 1
          /\ valid' = valid \cup {issued'}
          /\ token' = issued' /\ held' = issued'
          /\ session' = "connect"
          /\ UNCHANGED errors
       \/ Fault /\ session' = "retest" /\ UNCHANGED <<token, held, issued, valid>>
    /\ UNCHANGED <<halt, told, threadVars, joined, main, mainJoined>>

\* _on_open: _start_token_renewer binds a new renewer to the present token.
StartRenewer ==
    /\ generation' = generation + 1
    /\ IF token = 0
         THEN quit' = TRUE /\ renewer' = 0 /\ UNCHANGED renew
         ELSE \E r \in Renewers :
                /\ Started = 1..(r - 1)
                /\ quit' = FALSE
                /\ renewer' = r
                /\ renew' = [renew EXCEPT ![r] = [pc |-> "test", generation |-> generation',
                                                  bound |-> token]]

Opened ==
    /\ session = "connect"
    /\ held \in valid
    /\ StartRenewer
    /\ session' = "session"
    /\ UNCHANGED <<token, held, told, joined, stopVars, gmoVars>>

\* _stop_token_renewer: the caller then waits for the thread it has found.
StopRenewer ==
    /\ generation' = generation + 1
    /\ quit' = TRUE
    /\ renewer' = 0
    /\ UNCHANGED renew

\* _on_error, _on_close and the finally of _connect_once: the renewer is
\* stopped, and the token dropped when the text speaks of it.  GMO refuses a
\* dead token with such a text.
Ended ==
    /\ session \in {"connect", "session"}
    /\ \/ held \notin valid /\ session' = "joinToken" /\ UNCHANGED errors
       \/ session = "session" /\ told /\ session' = "join" /\ UNCHANGED errors
       \/ Fault /\ session' \in {"join", "joinToken"}
    /\ joined' = renewer
    /\ StopRenewer
    /\ UNCHANGED <<token, held, told, stopVars, issued, valid>>

\* A join ends with the thread, or after 12 s while its PUT still hangs.
JoinOver(r) == r # 0 => renew[r].pc \in {"put", "over"}

Invalidated(text) == IF text = "joinToken" THEN 0 ELSE token

Rejoined ==
    /\ session \in {"join", "joinToken"}
    /\ JoinOver(joined)
    /\ token' = Invalidated(session)
    /\ joined' = 0
    /\ session' = "retest"
    /\ UNCHANGED <<held, told, threadVars, stopVars, gmoVars>>

\* _ws_app.close(): a session is told to close; a connection in the making
\* may be missed.
CloseFound == told' \in {told \/ session = "session",
                        told \/ session \in {"connect", "session"}}

----------------------------------------------------------------------------
(* A renewer thread.                                                       *)

Become(r, pc) == renew' = [renew EXCEPT ![r].pc = pc]

\* Mutant: renewers have no generation.
Retired_NoGeneration(r) == halt

\* The generation tells a renewer that outlived its session from the present one.
Retired(r) == halt \/ renew[r].generation # generation

RenewTest(r) ==
    /\ renew[r].pc = "test"
    /\ Become(r, IF quit \/ Retired(r) THEN "over" ELSE "sleep")
    /\ UNCHANGED <<session, token, held, told, generation, quit, renewer, joined,
                   stopVars, gmoVars>>

\* The 45 minutes pass, or the stop event ends the wait.
RenewWake(r) ==
    /\ renew[r].pc = "sleep"
    /\ \/ quit /\ Become(r, "over")
       \/ Become(r, IF Retired(r) \/ token # renew[r].bound THEN "over" ELSE "put")
    /\ UNCHANGED <<session, token, held, told, generation, quit, renewer, joined,
                   stopVars, gmoVars>>

\* The answer to the PUT.  After a failure the token is dropped if it is
\* still the same, and whatever session there is is closed.
RenewAnswer(r) ==
    /\ renew[r].pc = "put"
    /\ \/ /\ renew[r].bound \in valid
          /\ Become(r, "test")
          /\ UNCHANGED <<token, told, errors>>
       \/ /\ (renew[r].bound \notin valid /\ UNCHANGED errors) \/ Fault
          /\ token' = IF token = renew[r].bound THEN 0 ELSE token
          /\ CloseFound
          /\ Become(r, "over")
    /\ UNCHANGED <<session, held, generation, quit, renewer, joined, stopVars,
                   issued, valid>>

----------------------------------------------------------------------------
(* stop(), called by the main thread, and GMO.                             *)

StopBegins ==
    /\ main = "running"
    /\ session # "none"
    /\ main' = "joining"
    /\ halt' = TRUE
    /\ mainJoined' = renewer
    /\ StopRenewer
    /\ UNCHANGED <<session, token, held, told, joined, gmoVars>>

StopCloses ==
    /\ main = "joining"
    /\ JoinOver(mainJoined)
    /\ main' = "closing"
    /\ CloseFound
    /\ UNCHANGED <<session, token, held, halt, threadVars, joined, mainJoined, gmoVars>>

StopDeletes ==
    /\ main = "closing"
    /\ main' = "stopped"
    /\ token' = 0
    /\ valid' \in {valid, valid \ {token}}
    /\ UNCHANGED <<session, held, halt, told, threadVars, joined, mainJoined,
                   issued, errors>>

\* GMO ends a token.
Expire ==
    /\ errors < MaxErrors
    /\ errors' = errors + 1
    /\ \E t \in valid : valid' = valid \ {t}
    /\ UNCHANGED <<session, token, held, halt, told, threadVars, joined, main,
                   mainJoined, issued>>

RenewStep(r) == RenewTest(r) \/ RenewWake(r) \/ RenewAnswer(r)
SessionStep == StartStream \/ LoopTest \/ PostAnswer \/ Opened \/ Ended \/ Rejoined
StopStep == StopBegins \/ StopCloses \/ StopDeletes

PrivateNext == SessionStep \/ StopStep \/ Expire \/ \E r \in Renewers : RenewStep(r)

PrivateSpec == PrivateInit /\ [][PrivateNext]_privateVars

(* Fairness: the threads run, every call of urlopen returns (it has a       *)
(* timeout), and GMO answers a connection with a session or an error.       *)
PrivateFairness ==
    /\ WF_privateVars(LoopTest \/ PostAnswer \/ Rejoined)
    /\ WF_privateVars(session = "connect" /\ (Opened \/ Ended))
    /\ \A r \in Renewers : WF_privateVars(RenewStep(r))

PrivateLiveSpec == PrivateSpec /\ PrivateFairness

----------------------------------------------------------------------------
(* Properties.                                                             *)

\* Only the renewer of the latest session extends a token, and the present
\* one, also when a join gave up on an older renewer whose PUT hung
\* (websocket_manager.py:390, the comment on the generation).
OldRenewerSilent ==
    [][\A r \in Renewers :
         renew[r].pc = "sleep" /\ renew'[r].pc = "put" =>
             /\ \A s \in Started : s <= r
             /\ token = renew[r].bound]_privateVars

\* A lost private stream comes back unless it is stopped, whatever became of
\* its token (websocket_manager.py:562).
PrivateComesBack ==
    session \notin {"none", "session"} /\ ~halt ~> session = "session" \/ halt
=============================================================================
