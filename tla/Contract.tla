------------------------------ MODULE Contract ------------------------------
(***************************************************************************)
(* What one run of tables-to-go promises, without saying how: it lists     *)
(* the tables of the database, settles each of them (a struct is written,  *)
(* or the failure is reported) and says "done!" only when no table is      *)
(* left open.  Without -f nothing is skipped, so "done!" then means that   *)
(* every listed table was written.                                         *)
(***************************************************************************)
CONSTANT Table

VARIABLES
  force,    \* settings.Force: report and skip the tables that fail
  listed,   \* the tables the run answers for
  outcome,  \* what became of every table
  result    \* "none" while running, then "ok" or "failed"

vars == <<force, listed, outcome, result>>

Outcomes == {"open", "written", "reported"}

TypeOK ==
  /\ force \in BOOLEAN
  /\ listed \subseteq Table
  /\ outcome \in [Table -> Outcomes]
  /\ result \in {"none", "ok", "failed"}

Init ==
  /\ force \in BOOLEAN
  /\ listed = {}
  /\ outcome = [t \in Table |-> "open"]
  /\ result = "none"

(* The tables are found, once, before anything is settled. *)
List ==
  /\ result = "none"
  /\ listed = {}
  /\ listed' \in SUBSET Table
  /\ UNCHANGED <<force, outcome, result>>

(* A listed table is settled once and for all; only -f may report and skip. *)
Settle(t, how) ==
  /\ result = "none"
  /\ t \in listed
  /\ outcome[t] = "open"
  /\ how = "written" \/ (how = "reported" /\ force)
  /\ outcome' = [outcome EXCEPT ![t] = how]
  /\ UNCHANGED <<force, listed, result>>

(* "done!": every table the run answers for is settled. *)
Done ==
  /\ result = "none"
  /\ \A t \in listed : outcome[t] # "open"
  /\ result' = "ok"
  /\ UNCHANGED <<force, listed, outcome>>

(* An error ends the run early. *)
Fail ==
  /\ result = "none"
  /\ result' = "failed"
  /\ UNCHANGED <<force, listed, outcome>>

Next ==
  \/ List
  \/ \E t \in Table, how \in {"written", "reported"} : Settle(t, how)
  \/ Done
  \/ Fail

Spec == Init /\ [][Next]_vars

(* The run also comes to an end. *)
FairSpec == Spec /\ WF_vars(Done \/ Fail)
=============================================================================
