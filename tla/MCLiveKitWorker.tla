-------------------------- MODULE MCLiveKitWorker ---------------------------
EXTENDS LiveKitWorker

Busy(j) ==
  \/ job[j].queue > 0 \/ job[j].irq \/ job[j].open
  \/ job[j].ear = "barge" \/ job[j].listen \in {"think", "speak"}

Hit(j) == job[j].pc = "dead" \/ job[j].endFailed \/ job[j].open

Stops(j) == job[j].timers + IF job[j].stop THEN 1 ELSE 0

(* Bound: the participant's audio keeps at most one of the jobs busy, at most
   one of them dies, fails to end the session or has an open transaction, and
   two stops are due or under way, of one job or of both. *)
FewAtOnce ==
  /\ \A j, k \in Jobs : (Busy(j) /\ Busy(k)) \/ (Hit(j) /\ Hit(k)) => j = k
  /\ \A j, k \in Jobs : j # k => Stops(j) + Stops(k) <= 2
=============================================================================
