------------------------------ MODULE CostModel ------------------------------
(***************************************************************************)
(* The analytic cost model of schedule/cost_model.py: the predicted        *)
(* latency of a program is its longest path through the dependencies and   *)
(* the serial queues of its pinned SMs, raised to work / num_sms when no   *)
(* task is pinned.  Times are integers here; latencies are multiplied by   *)
(* num_sms so that the division leaves no rest.                            *)
(***************************************************************************)
EXTENDS Schedule, SequencesExt

CONSTANT TaskTime(_)   \* task_time_us: roofline time plus the fixed overhead

TotalWork(p) ==
  LET sum[k \in 0 .. Len(p.tasks)] == IF k = 0 THEN 0 ELSE sum[k - 1] + TaskTime(p.tasks[k])
  IN  sum[Len(p.tasks)]

PinnedTasks(p) == {t \in TaskIds(p) : p.tasks[t].sm # NoSM}

(* What t comes after: its producers, and the task before it in its queue. *)
After(p, t) ==
  Pred(p, t) \cup
    {u \in PinnedTasks(p) : /\ t \in PinnedTasks(p) /\ u < t /\ p.tasks[u].sm = p.tasks[t].sm
                       /\ \A v \in (u + 1) .. (t - 1) : p.tasks[v].sm # p.tasks[t].sm}

(* Mutant: the chain goes through the first predecessor only.              *)
StartAfterFirst(finish, before) ==
  IF before = {} THEN 0 ELSE finish[CHOOSE u \in before : \A v \in before : u <= v]

Start(finish, before) ==
  IF before = {} THEN 0 ELSE finish[CHOOSE u \in before : \A v \in before : finish[v] <= finish[u]]

(* The longest-path table of the first k tasks, for a program listed in    *)
(* topological order.                                                      *)
Finish(p) ==
  LET finish[k \in 0 .. Len(p.tasks)] ==
        IF k = 0 THEN <<>>
        ELSE LET before == finish[k - 1]
             IN  Append(before, Start(before, After(p, k)) + TaskTime(p.tasks[k]))
  IN  finish[Len(p.tasks)]

CriticalPath(p) ==
  LET finish == Finish(p)
  IN  finish[CHOOSE t \in TaskIds(p) : \A u \in TaskIds(p) : finish[u] <= finish[t]]

(* predicted_us * num_sms.                                                 *)
Predicted(p) ==
  IF PinnedTasks(p) = {} /\ TotalWork(p) > CriticalPath(p) * p.num_sms
  THEN TotalWork(p) ELSE CriticalPath(p) * p.num_sms
=============================================================================
