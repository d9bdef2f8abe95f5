------------------------------ MODULE JobLedger ------------------------------
(***************************************************************************)
(* What the job dispatcher promises about each job, with no tables, no     *)
(* statements and no concurrency: a job is added once, is leased by at     *)
(* most one leaser at a time, goes back to the queue only when its lease   *)
(* fails, and is over for good when its lease is finished.  Jobs of a      *)
(* deleted entity are withdrawn.                                           *)
(*                                                                         *)
(* Two steps are weaker than a reader would wish, because the service is:  *)
(* a withdrawn job may come back (Revive) or be reported finished, when    *)
(* the call that ends its lease raced the withdrawal.                      *)
(***************************************************************************)

CONSTANTS
  Jobs,     (* The job identifiers (uuids).                                *)
  Leasers,  (* The leaser identifiers the workers present.                 *)
  None      (* No leaser.                                                  *)

VARIABLES
  status,   (* Where each job is in its life.                              *)
  owner     (* The leaser of each leased job.                              *)

ledger == <<status, owner>>

Status == {"unborn", "pending", "leased", "finished", "withdrawn"}

LedgerInit ==
  /\ status = [j \in Jobs |-> "unborn"]
  /\ owner = [j \in Jobs |-> None]

(* Job j leaves one of the states From for the state to, with no owner.    *)
Move(j, From, to) ==
  /\ status[j] \in From
  /\ status' = [status EXCEPT ![j] = to]
  /\ owner' = [owner EXCEPT ![j] = None]

Add(j) == Move(j, {"unborn"}, "pending")

Lease(j, l) ==
  /\ status[j] = "pending"
  /\ status' = [status EXCEPT ![j] = "leased"]
  /\ owner' = [owner EXCEPT ![j] = l]

Return(j) == Move(j, {"leased"}, "pending")

Revive(j) == Move(j, {"withdrawn"}, "pending")

Finish(j) == Move(j, {"leased", "withdrawn"}, "finished")

Withdraw(S) ==
  /\ \A j \in S : status[j] \in {"pending", "leased"}
  /\ status' = [j \in Jobs |-> IF j \in S THEN "withdrawn" ELSE status[j]]
  /\ owner' = [j \in Jobs |-> IF j \in S THEN None ELSE owner[j]]

LedgerNext ==
  \/ \E j \in Jobs :
       \/ Add(j)
       \/ Return(j)
       \/ Revive(j)
       \/ Finish(j)
       \/ \E l \in Leasers : Lease(j, l)
  \/ \E S \in SUBSET Jobs : Withdraw(S)

LedgerSpec == LedgerInit /\ [][LedgerNext]_ledger
=============================================================================
