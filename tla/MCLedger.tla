------------------------------ MODULE MCLedger ------------------------------
(* The ledger and the profiles with small bounds, see Ledger.cfg.  The two *)
(* share no state in these models; a behavior is one of one of them.       *)
EXTENDS Ledger, Profiles

VARIABLE part

Split(v) == {[name |-> "a", start |-> 0, end |-> 1, value |-> v],
             [name |-> "b", start |-> 1, end |-> 2, value |-> 3]}
Overlap == {[name |-> "a", start |-> 0, end |-> 2, value |-> 1],
            [name |-> "b", start |-> 1, end |-> 2, value |-> 1]}
MCFirstList == Split(1)
MCLists == {Split(1), Split(2), Overlap}

PartsInit == part \in {"ledger", "profiles"} /\ LedgerInit /\ ProfilesInit
PartsNext == \/ part = "ledger" /\ LedgerNext /\ UNCHANGED <<part, profileVars>>
             \/ part = "profiles" /\ ProfilesNext /\ UNCHANGED <<part, ledgerVars>>
PartsSpec == PartsInit /\ [][PartsNext]_<<part, ledgerVars, profileVars>>

PartsTypeOK == LedgerTypeOK /\ ProfilesTypeOK
=============================================================================
