----------------------------- MODULE JobLedger -----------------------------
(***************************************************************************)
(* What the provider promises about the jobs it submits, without its       *)
(* threads, calls and retries: a ledger.  Every job is in one place at a   *)
(* time, the book has one entry per pod key, and a job leaves the ledger   *)
(* either closed, with its cancellation acknowledged, or lost, when a call *)
(* failed or the process died.  PodLifecycle implements it (see            *)
(* ImplementsLedger there).                                                *)
(***************************************************************************)

CONSTANTS Pods, Keys, KeyOf, Jobs, NoPod, NoJob

VARIABLES
  owner,  \* owner[j]: the pod job j was submitted for
  place,  \* place[j]: where job j is
  book    \* book[k]: the job entered under key k

ledgerVars == <<owner, place, book>>

\* held: submitted and not yet entered; double: refused an entry and to be
\* cancelled; closed and lost: nobody needs its reference any more.
Places == {"unused", "held", "booked", "double", "closed", "lost"}

LedgerTypeOK ==
  /\ owner \in [Jobs -> Pods \cup {NoPod}]
  /\ place \in [Jobs -> Places]
  /\ book \in [Keys -> Jobs \cup {NoJob}]

LedgerInit ==
  /\ owner = [j \in Jobs |-> NoPod]
  /\ place = [j \in Jobs |-> "unused"]
  /\ book = [k \in Keys |-> NoJob]

Move(j, from, to) ==
  /\ place[j] = from
  /\ place' = [place EXCEPT ![j] = to]

-----------------------------------------------------------------------------

\* A job is submitted; when the reply is lost, so is the job.
Submit(j, p) ==
  /\ Move(j, "unused", "held") \/ Move(j, "unused", "lost")
  /\ owner' = [owner EXCEPT ![j] = p]
  /\ UNCHANGED book

\* Only a free key takes an entry: no entry is ever overwritten.
Enter(j) ==
  /\ Move(j, "held", "booked")
  /\ book[KeyOf[owner[j]]] = NoJob
  /\ book' = [book EXCEPT ![KeyOf[owner[j]]] = j]
  /\ UNCHANGED owner

\* Only a taken key makes a job a double.
Refuse(j) ==
  /\ Move(j, "held", "double")
  /\ book[KeyOf[owner[j]]] # NoJob
  /\ UNCHANGED <<owner, book>>

Discard(j) ==
  /\ Move(j, "double", "closed") \/ Move(j, "double", "lost")
  /\ UNCHANGED <<owner, book>>

Close(j) ==
  /\ Move(j, "booked", "closed")
  /\ UNCHANGED <<owner, book>>

\* The entry of a closed job, and no other, is struck out.
Strike(k) ==
  /\ book[k] # NoJob
  /\ place[book[k]] = "closed"
  /\ book' = [book EXCEPT ![k] = NoJob]
  /\ UNCHANGED <<owner, place>>

\* The book is gone, and every open job with it.
Burn ==
  /\ book' = [k \in Keys |-> NoJob]
  /\ place' = [j \in Jobs |->
                 IF place[j] \in {"unused", "closed"} THEN place[j] ELSE "lost"]
  /\ UNCHANGED owner

LedgerNext ==
  \/ \E j \in Jobs : \/ \E p \in Pods : Submit(j, p)
                     \/ Enter(j) \/ Refuse(j) \/ Discard(j) \/ Close(j)
  \/ \E k \in Keys : Strike(k)
  \/ Burn

LedgerSpec == LedgerInit /\ [][LedgerNext]_ledgerVars

-----------------------------------------------------------------------------

\* The book and the places agree: a booked job is the entry of its own key,
\* and an entry is a booked job or one just closed.
Balanced ==
  /\ \A j \in Jobs : place[j] = "booked" => book[KeyOf[owner[j]]] = j
  /\ \A k \in Keys : book[k] # NoJob => /\ place[book[k]] \in {"booked", "closed"}
                                        /\ KeyOf[owner[book[k]]] = k
=============================================================================
