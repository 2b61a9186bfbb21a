---------------------------- MODULE EvictionOrder ----------------------------
(***************************************************************************)
(* Scheduler with a history variable: who was sent to eviction while       *)
(* somebody else already waited for it.  The drain cursor exists so that a *)
(* resident whose eviction keeps failing does not keep the others from     *)
(* being tried.                                                            *)
(***************************************************************************)
EXTENDS Scheduler

VARIABLE overtaken   \* <<x, y>>: x was sent to eviction once since y waits

SentToEviction ==
  {operations'[o].adm :
     o \in {p \in DOMAIN operations' \ DOMAIN operations : operations'[p].kind = "evict"}}

OrderInit == Init /\ overtaken = {}

OrderNext ==
  /\ Next
  /\ overtaken' = {xy \in overtaken \cup (SentToEviction \X Evictable) :
                     xy[2] \in Evictable'}

OrderSpec == OrderInit /\ [][OrderNext]_<<vars, overtaken>>
FairOrderSpec == OrderSpec /\ Fairness

(* With one command outstanding at a time no resident is sent to eviction  *)
(* twice while another one waits: a failed eviction goes to the back.      *)
NobodyIsOvertakenTwice ==
  [][\A x \in SentToEviction, y \in Evictable : <<x, y>> \notin overtaken]_<<vars, overtaken>>
==============================================================================
