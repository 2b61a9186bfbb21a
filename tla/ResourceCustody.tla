--------------------------- MODULE ResourceCustody ---------------------------
(***************************************************************************)
(* What the controller promises about the memory of a grant, without its   *)
(* tables: memory exists only behind a charged claim, a claim in use is    *)
(* never given up, a claim whose memory exists is given up only together   *)
(* with it, a lost one (its outcome is uncertain) never, and a new grant   *)
(* starts from nothing.                                                    *)
(***************************************************************************)
EXTENDS Integers

CONSTANT Claim   \* identities a claim may have

VARIABLES
  open,      \* new claims and new uses are accepted
  charged,   \* claims accounted for now
  memory,    \* claims behind which memory may exist
  lost,      \* claims whose memory has an uncertain fate
  users      \* claim |-> the number of uses that pin it

vars == <<open, charged, memory, lost, users>>

Init ==
  /\ open = TRUE
  /\ charged = {} /\ memory = {} /\ lost = {}
  /\ users = [i \in Claim |-> 0]

New == charged' \ charged
Gone == charged \ charged'

(* New claims, on paper or with physical work starting at once. *)
Charge ==
  /\ open
  /\ charged \subseteq charged' /\ New \subseteq Claim
  /\ memory' \in {memory, memory \cup New}
  /\ UNCHANGED <<open, lost, users>>

Occupy ==
  /\ open
  /\ \E i \in charged \ memory : memory' = memory \cup {i}
  /\ UNCHANGED <<open, charged, lost, users>>

(* A use pins a claim and may bring claims of its own. *)
Begin ==
  /\ open
  /\ \E i \in memory \ lost : users' = [users EXCEPT ![i] = @ + 1]
  /\ charged \subseteq charged' /\ New \subseteq Claim
  /\ memory' = memory \cup New
  /\ UNCHANGED <<open, lost>>

(* Claims that may be given up along with their memory. *)
Vacatable == {i \in memory \ lost : users[i] = 0}

End ==
  /\ \E i \in charged : users[i] > 0 /\ users' = [users EXCEPT ![i] = @ - 1]
  /\ charged' \subseteq charged /\ Gone \subseteq Vacatable
  /\ memory' = memory \ Gone
  /\ UNCHANGED <<open, lost>>

Vacate ==
  /\ \E i \in Vacatable : charged' = charged \ {i} /\ memory' = memory \ {i}
  /\ UNCHANGED <<open, lost, users>>

Cancel ==
  /\ \E i \in charged \ memory : charged' = charged \ {i}
  /\ UNCHANGED <<open, memory, lost, users>>

Lose ==
  /\ lost \subseteq lost' /\ lost' \subseteq memory
  /\ UNCHANGED <<open, charged, memory, users>>

Close == open' = FALSE /\ UNCHANGED <<charged, memory, lost, users>>

Renew ==
  /\ ~open /\ charged = {}
  /\ open' = TRUE
  /\ UNCHANGED <<charged, memory, lost, users>>

Next ==
  \/ Charge \/ Occupy \/ Begin \/ End \/ Vacate \/ Cancel \/ Lose \/ Close \/ Renew

Spec == Init /\ [][Next]_vars
==============================================================================
