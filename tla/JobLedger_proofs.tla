--------------------------- MODULE JobLedger_proofs ---------------------------
(***************************************************************************)
(* What any implementation of JobLedger inherits.                          *)
(***************************************************************************)
EXTENDS JobLedger, TLAPS

(***************************************************************************)
(* The stages and the counts of announcements stay in their types.         *)
(***************************************************************************)
THEOREM LedgerTypeCorrect == Spec => []TypeOK
<1> USE DEF TypeOK, Stages
<1>1. Init => TypeOK
  BY DEF Init
<1>2. TypeOK /\ [Next]_vars => TypeOK'
  BY DEF Next, vars, Register, Retire, Announce, Lose
<1> QED
  BY <1>1, <1>2, PTL DEF Spec

(***************************************************************************)
(* ToldOnce: the ended ids are those announced, once each.                 *)
(***************************************************************************)
THEOREM ToldOnceHolds == Spec => []ToldOnce
<1> USE DEF ToldOnce
<1>1. Init => ToldOnce
  BY DEF Init
<1>2. TypeOK /\ ToldOnce /\ [Next]_vars => ToldOnce'
  <2> SUFFICES ASSUME TypeOK, ToldOnce, [Next]_vars
               PROVE  ToldOnce'
    OBVIOUS
  <2> USE DEF TypeOK, Stages
  <2>1. ASSUME NEW j \in Jobs, Register(j) \/ Retire(j)
        PROVE  ToldOnce'
    BY <2>1 DEF Register, Retire
  <2>2. ASSUME NEW j \in Jobs, Announce(j)
        PROVE  ToldOnce'
    BY <2>2 DEF Announce
  <2>3. ASSUME NEW K \in SUBSET Jobs, Lose(K)
        PROVE  ToldOnce'
    BY <2>3 DEF Lose
  <2>4. CASE UNCHANGED vars
    BY <2>4 DEF vars
  <2> QED
    BY <2>1, <2>2, <2>3, <2>4 DEF Next
<1> QED
  BY <1>1, <1>2, LedgerTypeCorrect, PTL DEF Spec

(***************************************************************************)
(* NoReturn: an id never becomes live a second time.                       *)
(***************************************************************************)
THEOREM NoReturnHolds == Spec => NoReturn
<1>1. TypeOK /\ [Next]_vars =>
        [\A j \in Jobs : ledger[j] \in {"ending", "ended", "lost"}
                           => ledger'[j] # "live"]_vars
  BY DEF TypeOK, Stages, Next, Register, Retire, Announce, Lose, vars
<1> QED
  BY <1>1, LedgerTypeCorrect, PTL DEF Spec, NoReturn
=============================================================================
