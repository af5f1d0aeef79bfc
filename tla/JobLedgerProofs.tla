-------------------------- MODULE JobLedgerProofs --------------------------
(***************************************************************************)
(* What follows from the ledger alone, and so holds of everything that     *)
(* implements it.                                                          *)
(***************************************************************************)
EXTENDS JobLedger, TLAPS

\* Nothing is assumed of the keys but that every pod has one.
LedgerAssumption ==
  /\ KeyOf \in [Pods -> Keys]
  /\ NoJob \notin Jobs
  /\ NoPod \notin Pods

\* A job that somebody still has to do with was submitted for a pod.
PlacedOwned == \A j \in Jobs : place[j] # "unused" => owner[j] \in Pods

LedgerInv == LedgerTypeOK /\ PlacedOwned /\ Balanced

LEMMA LedgerInvInit ==
  ASSUME LedgerAssumption, LedgerInit
  PROVE  LedgerInv
  BY DEF LedgerAssumption, LedgerInit, LedgerInv, LedgerTypeOK, PlacedOwned, Balanced, Places

LEMMA LedgerInvNext ==
  ASSUME LedgerAssumption, LedgerInv, [LedgerNext]_ledgerVars
  PROVE  LedgerInv'
  <1> USE DEF LedgerAssumption, LedgerInv, LedgerTypeOK, PlacedOwned, Balanced, Places, Move
  <1>1. ASSUME NEW j \in Jobs, NEW p \in Pods, Submit(j, p)
        PROVE  LedgerInv'
    BY <1>1 DEF Submit
  <1>2. ASSUME NEW j \in Jobs, Enter(j)
        PROVE  LedgerInv'
    <2>1. KeyOf[owner[j]] \in Keys
      BY <1>2 DEF Enter
    <2> QED
      BY <1>2, <2>1 DEF Enter
  <1>3. ASSUME NEW j \in Jobs, Refuse(j)
        PROVE  LedgerInv'
    BY <1>3 DEF Refuse
  <1>4. ASSUME NEW j \in Jobs, Discard(j)
        PROVE  LedgerInv'
    BY <1>4 DEF Discard
  <1>5. ASSUME NEW j \in Jobs, Close(j)
        PROVE  LedgerInv'
    BY <1>5 DEF Close
  <1>6. ASSUME NEW k \in Keys, Strike(k)
        PROVE  LedgerInv'
    BY <1>6 DEF Strike
  <1>7. CASE Burn
    BY <1>7 DEF Burn
  <1>8. CASE UNCHANGED ledgerVars
    BY <1>8 DEF ledgerVars
  <1> QED
    BY <1>1, <1>2, <1>3, <1>4, <1>5, <1>6, <1>7, <1>8 DEF LedgerNext

\* In every ledger the book and the places of the jobs agree: one entry per
\* key, of that key, and never of a job that was lost (nersc.go:33, 246-262).
THEOREM LedgerBalances ==
  ASSUME LedgerAssumption
  PROVE  LedgerSpec => []Balanced
  <1>1. LedgerInit => LedgerInv
    BY LedgerInvInit
  <1>2. LedgerInv /\ [LedgerNext]_ledgerVars => LedgerInv'
    BY LedgerInvNext
  <1>3. LedgerInv => Balanced
    BY DEF LedgerInv
  <1> QED
    BY <1>1, <1>2, <1>3, PTL DEF LedgerSpec
=============================================================================
