------------------------------ MODULE Services ------------------------------
(***************************************************************************)
(* The parts that run beside the trader and share no state with each other *)
(* in these models: the two streams, the tick recorder, the scripts that   *)
(* keep the engine alive and watch it, the lock that keeps two engines     *)
(* apart, and the nightly review.  A behavior is one of one part, chosen   *)
(* in the initial state, so that one run checks all of them.               *)
(***************************************************************************)
EXTENDS BoardStream, PrivateStream, TickRecorder, EngineKeeper, Heartbeats, CrashLoop,
        TradeKeyLock, Review

VARIABLE part \* the part that moves

servicesVars == <<part, boardVars, privateVars, tickVars, keeperVars, heartVars, crashVars,
                  reviewVars, vars>>

ServicesTypeOK == /\ BoardTypeOK /\ PrivateTypeOK /\ TickTypeOK
                  /\ KeeperTypeOK /\ HeartTypeOK /\ CrashTypeOK /\ ReviewTypeOK /\ TypeOK

ServicesInit ==
    /\ part \in {"board", "private", "tick", "keeper", "heart", "crash", "review", "lock"}
    /\ BoardInit /\ PrivateInit /\ TickInit /\ KeeperInit /\ HeartInit /\ CrashInit
    /\ ReviewInit /\ Init

ServicesNext ==
    \/ /\ part = "board" /\ BoardNext
       /\ UNCHANGED <<part, privateVars, tickVars, keeperVars, heartVars, crashVars,
                      reviewVars, vars>>
    \/ /\ part = "private" /\ PrivateNext
       /\ UNCHANGED <<part, boardVars, tickVars, keeperVars, heartVars, crashVars,
                      reviewVars, vars>>
    \/ /\ part = "tick" /\ TickNext
       /\ UNCHANGED <<part, boardVars, privateVars, keeperVars, heartVars, crashVars,
                      reviewVars, vars>>
    \/ /\ part = "keeper" /\ KeeperNext
       /\ UNCHANGED <<part, boardVars, privateVars, tickVars, heartVars, crashVars,
                      reviewVars, vars>>
    \/ /\ part = "heart" /\ HeartNext
       /\ UNCHANGED <<part, boardVars, privateVars, tickVars, keeperVars, crashVars,
                      reviewVars, vars>>
    \/ /\ part = "crash" /\ CrashNext
       /\ UNCHANGED <<part, boardVars, privateVars, tickVars, keeperVars, heartVars,
                      reviewVars, vars>>
    \/ /\ part = "review" /\ ReviewNext
       /\ UNCHANGED <<part, boardVars, privateVars, tickVars, keeperVars, heartVars, crashVars,
                      vars>>
    \/ /\ part = "lock" /\ Next
       /\ UNCHANGED <<part, boardVars, privateVars, tickVars, keeperVars, heartVars, crashVars,
                      reviewVars>>

(* Fairness: that of each part, when it is the one that moves.             *)
Moves(p) == part = p

ServicesFairness ==
    /\ \A m \in Managers : /\ WF_boardVars(Moves("board") /\ LoopStep(m))
                            /\ WF_boardVars(Moves("board") /\ Board(m))
    /\ WF_boardVars(Moves("board") /\ gmo = "closed" /\ Exchange)
    /\ WF_privateVars(Moves("private") /\ (LoopTest \/ PostAnswer \/ Rejoined))
    /\ WF_privateVars(Moves("private") /\ session = "connect" /\ (Opened \/ Ended))
    /\ \A r \in Renewers : WF_privateVars(Moves("private") /\ RenewStep(r))
    /\ WF_keeperVars(Moves("keeper") /\ WatchStep)
    /\ WF_keeperVars(Moves("keeper") /\ CooldownEnds)
    /\ WF_heartVars(Moves("heart") /\ Checking)
    /\ WF_crashVars(Moves("crash") /\ Checks)
    /\ WF_reviewVars(Moves("review") /\ ReviewStep)

ServicesSpec == ServicesInit /\ [][ServicesNext]_servicesVars /\ ServicesFairness
=============================================================================
