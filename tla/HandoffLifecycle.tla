--------------------------- MODULE HandoffLifecycle ---------------------------
(***************************************************************************)
(* What a handoff promises, whatever number of requests race for it.       *)
(*                                                                         *)
(* One session has at most one handoff, for ever.  It is created pending   *)
(* or assigned, is accepted by one human agent, and is completed or        *)
(* cancelled once.  HandoffOrchestrator implements this specification.     *)
(***************************************************************************)
CONSTANTS Agents,      \* the human agents that may accept
          NoAgent      \* nobody has accepted

VARIABLES status,      \* HandoffStatus of the committed row, or "none"
          owner        \* the agent that accepted it

lvars == <<status, owner>>

(* HandoffStatus; "none" stands for "no row".                              *)
Unclaimed == {"pending", "assigned"}
OpenStatus == Unclaimed \cup {"active"}
TerminalHandoff == {"completed", "cancelled"}
HandoffStatus == {"none"} \cup OpenStatus \cup TerminalHandoff

LInit == status = "none" /\ owner = NoAgent

Create ==
  /\ status = "none"
  /\ status' \in Unclaimed
  /\ UNCHANGED owner

Accept(a) ==
  /\ status \in Unclaimed
  /\ status' = "active"
  /\ owner' = a

Close ==
  /\ status \in OpenStatus
  /\ status' \in TerminalHandoff
  /\ UNCHANGED owner

LNext == Create \/ (\E a \in Agents : Accept(a)) \/ Close

LSpec == LInit /\ [][LNext]_lvars
=============================================================================
