----------------------------- MODULE Escalation -----------------------------
(***************************************************************************)
(* One issue parked for a human or an operator, and everybody who moves    *)
(* it.  state.json holds the truth (the issue's entry), GitHub the labels  *)
(* a person sees; no lock covers both.  Three processes work on the pair:  *)
(*                                                                         *)
(*   "pass"      the supervised pass: reconcile's label convergence, the   *)
(*               de-escalation sweep, a rework lane, the label repair;     *)
(*   "operator"  charlie unescalate;                                       *)
(*   "verdict"   charlie verdict (record_review).                          *)
(*                                                                         *)
(* Every one reads the entry under state_lock, talks to GitHub without it, *)
(* writes the entry under a second hold, and changes the labels after the  *)
(* write, an add first and then each removal, any of which may fail.       *)
(* Reconcile alone keeps state_lock over both.                             *)
(*                                                                         *)
(* The label "active" stands for every label of labels.active.  Bounds:    *)
(* MaxLane rework-lane writes, MaxRearms unescalates, MaxVerdicts verdicts *)
(* and MaxFaults failed label writes or GitHub reads.  anew is a history   *)
(* variable: no action reads it.                                           *)
(***************************************************************************)
EXTENDS Naturals

CONSTANTS Mechanical,   \* reasons a rework lane escalates with
          MaxAuto,      \* deescalation.max_auto_deescalations
          MaxCycles,    \* review.max_rework_cycles
          MaxLane, MaxRearms, MaxVerdicts, MaxFaults

VARIABLES issue,     \* the issue's entry in state.json
          labels,    \* its labels on GitHub
          prOpen,    \* whether its pull request is open on GitHub
          at,        \* where each process is
          snap,      \* the entry the pass last read and still uses
          edge,      \* the label transition each process is making
          cycles,    \* request_changes_count of its pull request
          anew,      \* whether a verdict escalated since the sweep's read
          clears,    \* automatic clears since the last unescalate
          spent      \* what is used up of each bound

review == <<cycles, anew>>
vars == <<issue, labels, prOpen, at, snap, edge, review, clears, spent>>

\* The null value is no reason, nor are the verdict's own; the bounds are numbers.
ASSUME EscalationAssumption ==
  /\ "none" \notin Mechanical
  /\ Mechanical \cap {"review_blocked", "max_rework_cycles_exceeded"} = {}
  /\ {MaxAuto, MaxCycles, MaxLane, MaxRearms, MaxVerdicts, MaxFaults} \subseteq Nat

Procs == {"pass", "operator", "verdict"}
Reasons == Mechanical \cup {"review_blocked", "max_rework_cycles_exceeded"}
Classes == {"mechanical", "judgment"}
Parked == {"human_needed", "operator_queue"}
Labels == Parked \cup {"active"}

Entry == [status : {"none", "open", "rework", "escalated", "blocked"},
          reason : Reasons \cup {"none"}, cls : Classes \cup {"none"},
          seen : SUBSET Reasons,
          label_error : {"absent", "ok", "failed"},
          count : Nat, notified : BOOLEAN,
          cleared : Reasons \cup {"none"}, recent : BOOLEAN]

NoEdge(ok) == [add |-> {}, remove |-> {}, ok |-> ok, then |-> "idle"]
Idle == NoEdge(TRUE)

Fresh == [status |-> "open", reason |-> "none", cls |-> "none", seen |-> {},
          label_error |-> "absent", count |-> 0, notified |-> FALSE,
          cleared |-> "none", recent |-> FALSE]

Places == {"reconcile", "sweep", "promote", "cap", "view", "clear", "note",
           "lane", "route", "repair", "look", "outcome", "edge",
           "idle", "apply", "judge"}

\* The entry, the labels and what each process holds of them are well formed.
TypeOK ==
  /\ issue \in Entry /\ labels \subseteq Labels /\ prOpen \in BOOLEAN
  /\ at \in [Procs -> Places]
  /\ snap \in Entry
  /\ edge \in [Procs -> [add : SUBSET Labels, remove : SUBSET Labels,
                         ok : BOOLEAN, then : Places]]
  /\ cycles \in Nat /\ anew \in BOOLEAN
  /\ clears \in Nat
  /\ spent \in [{"lane", "rearm", "verdict", "fault"} -> Nat]

Init ==
  /\ issue = Fresh /\ snap = Fresh
  /\ labels = {"active"} /\ prOpen = TRUE
  /\ at = [p \in Procs |-> IF p = "pass" THEN "reconcile" ELSE "idle"]
  /\ edge = [p \in Procs |-> Idle]
  /\ cycles = 0 /\ anew = FALSE
  /\ clears = 0
  /\ spent = [b \in {"lane", "rearm", "verdict", "fault"} |-> 0]

-----------------------------------------------------------------------------
\* Vocabulary

Sink(e) == e.status \in {"escalated", "blocked"}

\* The label a parked entry should show.  An entry the sweep has given up on
\* is a human's whatever its class says.
Expected(e) ==
  IF e.cls = "mechanical" /\ ~e.notified /\ e.status = "escalated"
    THEN "operator_queue" ELSE "human_needed"

\* The sweep has read the entry and not yet written it.
Sweeping == at["pass"] \in {"view", "clear"}

\* Reconcile holds state_lock from its reads to its last label write.
Converging == at["pass"] = "edge" /\ edge["pass"].then = "sweep"
StateFree == ~Converging

Go(p, place) == at' = [at EXCEPT ![p] = place]
Read == snap' = issue
Forget == snap' = Fresh
Spend(b, max) == spent[b] < max /\ spent' = [spent EXCEPT ![b] = @ + 1]

\* Go on with the label transition e, or past it once nothing is left of it;
\* only a place that records the outcome still knows whether it failed.
Proceed(p, e) ==
  IF e.add = {} /\ e.remove = {}
    THEN /\ Go(p, e.then)
         /\ edge' = [edge EXCEPT ![p] =
              IF e.then \in {"note", "outcome"} THEN NoEdge(e.ok) ELSE Idle]
    ELSE Go(p, "edge") /\ edge' = [edge EXCEPT ![p] = e]

Transition(p, add, remove, place) ==
  Proceed(p, [add |-> add, remove |-> remove, ok |-> TRUE, then |-> place])

\* The named edges of labels.py: one label in, every other workflow label out.
ShowOnly(p, label, place) == Transition(p, {label}, Labels \ {label}, place)

(* Mutant: class and status change places. *)
EscalateSwapped(e, why, class, status) ==
  [e EXCEPT !.status = class, !.reason = why, !.cls = status,
            !.seen = @ \cup {why}]

Escalate(e, why, class, status) ==
  [e EXCEPT !.status = status, !.reason = why, !.cls = class,
            !.seen = @ \cup {why}]

ClearEscalation(e) ==
  [e EXCEPT !.reason = "none", !.cls = "none", !.seen = {}]

-----------------------------------------------------------------------------
\* A label transition: the add, then the removals, each of which may fail.
\* The removals are one step: what comes between two of them concerns another
\* label than theirs.

AddLabel(p) ==
  /\ at[p] = "edge" /\ edge[p].add # {}
  /\ \/ /\ labels' = labels \cup edge[p].add /\ UNCHANGED spent
        /\ Proceed(p, [edge[p] EXCEPT !.add = {}])
     \/ /\ Spend("fault", MaxFaults) /\ UNCHANGED labels
        /\ Proceed(p, [edge[p] EXCEPT !.add = {}, !.ok = FALSE])
  /\ UNCHANGED <<issue, prOpen, snap, clears, review>>

RemoveLabels(p) ==
  /\ at[p] = "edge" /\ edge[p].add = {}
  /\ \E kept \in SUBSET edge[p].remove :
        /\ labels' = labels \ (edge[p].remove \ kept)
        /\ IF kept = {} THEN UNCHANGED spent ELSE Spend("fault", MaxFaults)
        /\ Proceed(p, [edge[p] EXCEPT !.remove = {}, !.ok = IF kept = {} THEN @ ELSE FALSE])
  /\ UNCHANGED <<issue, prOpen, snap, clears, review>>

-----------------------------------------------------------------------------
\* The pass: reconcile, the sweep, a rework lane, the repair, and again.

(* Mutant: parked issues are passed over. *)
ReconcileSkipsParked ==
  /\ at["pass"] = "reconcile" /\ ~Sink(issue)
  /\ Go("pass", "sweep")
  /\ UNCHANGED <<issue, labels, prOpen, snap, edge, clears, spent, review>>

\* A parked issue is shown as parked; any other is left alone once it carries
\* a parked label, and healed to "active" while its pull request is open
\* and no rework lane holds it.
Reconcile ==
  /\ at["pass"] = "reconcile"
  /\ LET parked == Sink(issue)
         heal == /\ ~parked /\ issue.status # "rework"
                 /\ labels \cap Parked = {} /\ prOpen /\ "active" \notin labels
     IN  /\ Transition("pass",
              IF parked THEN {Expected(issue)} \ labels
                ELSE IF heal THEN {"active"} ELSE {},
              IF labels \cap Parked # {} \/ parked
                THEN labels \cap {"active"} ELSE {},
              "sweep")
         /\ issue' = IF heal THEN [issue EXCEPT !.status = "open"] ELSE issue
  /\ UNCHANGED <<labels, prOpen, snap, clears, spent, review>>

NotDue ==
  /\ at["pass"] \in {"reconcile", "sweep", "lane"}
  /\ Go("pass", CASE at["pass"] = "reconcile" -> "sweep"
                  [] at["pass"] = "sweep" -> "lane"
                  [] OTHER -> "repair")
  /\ UNCHANGED <<issue, labels, prOpen, snap, edge, clears, spent, review>>

(* Mutants: one clear too many; the recurrence looked at after the cap. *)
SweepReadsLate ==
  /\ at["pass"] = "sweep" /\ Sink(issue) /\ issue.cls = "mechanical"
  /\ Read /\ anew' = FALSE
  /\ Go("pass", IF issue.recent /\ issue.cleared = issue.reason THEN "promote"
                  ELSE IF issue.count <= MaxAuto THEN "view"
                  ELSE IF issue.notified THEN "lane" ELSE "cap")
  /\ UNCHANGED <<issue, labels, prOpen, edge, clears, spent, cycles>>

SweepReadsCapFirst ==
  /\ at["pass"] = "sweep" /\ Sink(issue) /\ issue.cls = "mechanical"
  /\ Read /\ anew' = FALSE
  /\ Go("pass", IF issue.count < MaxAuto THEN "view"
                  ELSE IF issue.recent /\ issue.cleared = issue.reason
                         THEN "promote"
                  ELSE IF issue.notified THEN "lane" ELSE "cap")
  /\ UNCHANGED <<issue, labels, prOpen, edge, clears, spent, cycles>>

\* What the sweep decides on the entry it has read: the recurrence first, then
\* the cap, then the pull request.
SweepReads ==
  /\ at["pass"] = "sweep" /\ Sink(issue) /\ issue.cls = "mechanical"
  /\ Read /\ anew' = FALSE
  /\ Go("pass", IF issue.recent /\ issue.cleared = issue.reason THEN "promote"
                  ELSE IF issue.count < MaxAuto THEN "view"
                  ELSE IF issue.notified THEN "lane" ELSE "cap")
  /\ UNCHANGED <<issue, labels, prOpen, edge, clears, spent, cycles>>

Promote ==
  /\ at["pass"] = "promote"
  /\ IF Sink(issue) /\ issue.cls = "mechanical"
        /\ issue.reason = snap.cleared
        /\ issue.cleared = snap.cleared
       THEN issue' = [issue EXCEPT !.cls = "judgment"]
            /\ ShowOnly("pass", "human_needed", "note")
       ELSE Go("pass", "lane") /\ UNCHANGED <<issue, edge>>
  /\ Forget
  /\ UNCHANGED <<labels, prOpen, clears, spent, review>>

\* The cap branch looks again at the marker only, and records no label error.
CapExhausted ==
  /\ at["pass"] = "cap"
  /\ IF issue.notified
       THEN Go("pass", "lane") /\ UNCHANGED <<issue, edge>>
       ELSE issue' = [issue EXCEPT !.notified = TRUE]
            /\ ShowOnly("pass", "human_needed", "lane")
  /\ Forget
  /\ UNCHANGED <<labels, prOpen, clears, spent, review>>

\* A live worker, an unsafe worktree or an unhealthy pull request end here.
SweepViews ==
  /\ at["pass"] = "view"
  /\ \/ prOpen /\ Go("pass", "clear") /\ UNCHANGED <<snap, anew>>
     \/ Go("pass", "lane") /\ Forget /\ anew' = FALSE
  /\ UNCHANGED <<issue, labels, prOpen, edge, cycles, clears, spent>>

(* Mutant: the class is not looked at again. *)
SweepClearsAnyClass ==
  /\ at["pass"] = "clear"
  /\ IF Sink(issue)
       THEN /\ issue' = [ClearEscalation(issue) EXCEPT
                           !.status = "open", !.label_error = "absent",
                           !.count = snap.count + 1]
            /\ cycles' = IF issue.reason = "max_rework_cycles_exceeded" THEN 0 ELSE cycles
            /\ clears' = clears + 1
            /\ ShowOnly("pass", "active", "note")
       ELSE Go("pass", "lane") /\ UNCHANGED <<issue, cycles, clears, edge>>
  /\ Forget /\ anew' = FALSE
  /\ UNCHANGED <<labels, prOpen, spent>>

SweepClears ==
  /\ at["pass"] = "clear"
  /\ IF Sink(issue) /\ issue.cls = "mechanical"
       THEN /\ issue' = [ClearEscalation(issue) EXCEPT
                           !.status = "open", !.label_error = "absent",
                           !.count = snap.count + 1]
            /\ cycles' = IF issue.reason = "max_rework_cycles_exceeded" THEN 0 ELSE cycles
            /\ clears' = clears + 1
            /\ ShowOnly("pass", "active", "note")
       ELSE Go("pass", "lane") /\ UNCHANGED <<issue, cycles, clears, edge>>
  /\ Forget /\ anew' = FALSE
  /\ UNCHANGED <<labels, prOpen, spent>>

\* A failed transition is noted on whatever entry is there by then.
NoteLabelError(p) ==
  /\ at[p] = "note" /\ StateFree
  /\ issue' = IF edge[p].ok THEN issue
                ELSE [issue EXCEPT !.label_error = "failed"]
  /\ Go(p, IF p = "pass" THEN "lane" ELSE "idle")
  /\ edge' = [edge EXCEPT ![p] = Idle]
  /\ UNCHANGED <<labels, prOpen, snap, clears, spent, review>>

\* A janitor or rework lane whose own reason is not in the episode's history
\* goes on even on an escalated issue.  Only what it writes counts for the bound.
LaneReads ==
  /\ at["pass"] = "lane" /\ prOpen
  /\ spent["lane"] < MaxLane \/ Mechanical \subseteq issue.seen
  /\ Read /\ Go("pass", "route")
  /\ UNCHANGED <<issue, labels, prOpen, edge, clears, spent, review>>

\* Past its cap it escalates, below it it requests rework: neither write
\* looks at the entry again.
LaneEscalates(why) ==
  /\ at["pass"] = "route" /\ why \notin snap.seen
  /\ Spend("lane", MaxLane)
  /\ issue' = Escalate(issue, why, "mechanical", "escalated")
  /\ ShowOnly("pass", "operator_queue", "repair")
  /\ Forget
  /\ UNCHANGED <<labels, prOpen, clears, review>>

LaneReworks(why) ==
  /\ at["pass"] = "route" /\ why \notin snap.seen
  /\ Spend("lane", MaxLane)
  /\ issue' = [issue EXCEPT !.status = "rework"]
  /\ ShowOnly("pass", "active", "repair")
  /\ Forget
  /\ UNCHANGED <<labels, prOpen, clears, review>>

LaneRefuses ==
  /\ at["pass"] = "route" /\ Mechanical \subseteq snap.seen
  /\ Go("pass", "repair")
  /\ Forget
  /\ UNCHANGED <<issue, labels, prOpen, edge, clears, spent, review>>

NeedsRepair(e) == Sink(e) /\ e.label_error # "ok"

RepairReads ==
  /\ at["pass"] = "repair"
  /\ IF NeedsRepair(issue) THEN Read /\ Go("pass", "look")
       ELSE Forget /\ Go("pass", "reconcile")
  /\ UNCHANGED <<issue, labels, prOpen, edge, clears, spent, review>>

RepairLooks ==
  /\ at["pass"] = "look"
  /\ LET expected == Expected(snap)
     IN  IF expected \in labels
           THEN /\ edge' = [edge EXCEPT !["pass"] = Idle]
                /\ Go("pass", "outcome")
           ELSE ShowOnly("pass", expected, "outcome")
  /\ Forget
  /\ UNCHANGED <<issue, labels, prOpen, clears, spent, review>>

RepairRaises ==
  /\ at["pass"] = "look" /\ Spend("fault", MaxFaults)
  /\ Go("pass", "reconcile")
  /\ Forget
  /\ UNCHANGED <<issue, labels, prOpen, edge, clears, review>>

RepairWrites ==
  /\ at["pass"] = "outcome"
  /\ issue' = [issue EXCEPT !.label_error =
                 IF edge["pass"].ok THEN "ok" ELSE "failed"]
  /\ Go("pass", "reconcile")
  /\ edge' = [edge EXCEPT !["pass"] = Idle]
  /\ UNCHANGED <<labels, prOpen, snap, clears, spent, review>>

-----------------------------------------------------------------------------
\* charlie unescalate

\* A live worker or an unsafe worktree make it refuse, which is not starting;
\* else GitHub's view of the pull request decides: an open one is re-armed,
\* without one the issue is dropped to the never-dispatched baseline.
UnescalateReads ==
  /\ at["operator"] = "idle" /\ Sink(issue) /\ StateFree
  /\ Spend("rearm", MaxRearms)
  /\ Go("operator", "apply")
  /\ edge' = [edge EXCEPT !["operator"] =
                [add |-> IF prOpen THEN {"active"} ELSE {},
                 remove |-> IF prOpen THEN Parked ELSE Labels,
                 ok |-> TRUE, then |-> "note"]]
  /\ UNCHANGED <<issue, labels, prOpen, snap, clears, review>>

\* The reset is applied to the entry of now, whatever its status has become.
UnescalateApplies ==
  /\ at["operator"] = "apply" /\ StateFree
  /\ issue' = [ClearEscalation(issue) EXCEPT
                 !.status = IF edge["operator"].add = {} THEN "none" ELSE "open",
                 !.label_error = "absent", !.count = 0, !.notified = FALSE,
                 !.cleared = issue.reason, !.recent = issue.reason # "none"]
  /\ cycles' = IF edge["operator"].add = {} THEN cycles ELSE 0
  /\ clears' = 0
  /\ Go("operator", "edge")
  /\ UNCHANGED <<labels, prOpen, snap, edge, spent, anew>>

-----------------------------------------------------------------------------
\* charlie verdict

\* The guard is a hold of its own and refuses "escalated" only.
VerdictGuard ==
  /\ at["verdict"] = "idle" /\ prOpen /\ StateFree
  /\ issue.status # "escalated"
  /\ Spend("verdict", MaxVerdicts)
  /\ Go("verdict", "judge")
  /\ UNCHANGED <<issue, labels, prOpen, snap, edge, clears, review>>

VerdictApproves ==
  /\ at["verdict"] = "judge" /\ StateFree
  /\ issue' = [ClearEscalation(issue) EXCEPT !.status = "open"]
  /\ ShowOnly("verdict", "active", "idle")
  /\ UNCHANGED <<labels, prOpen, snap, clears, spent, review>>

\* A verdict on a head the last one has not seen counts a cycle, and past the
\* cap escalates instead of requesting rework.
VerdictRequestsChanges ==
  /\ at["verdict"] = "judge" /\ StateFree
  /\ \E advanced \in BOOLEAN :
        /\ ~(advanced /\ cycles >= MaxCycles)
        /\ cycles' = IF advanced THEN cycles + 1 ELSE cycles
  /\ issue' = [ClearEscalation(issue) EXCEPT !.status = "rework"]
  /\ ShowOnly("verdict", "active", "idle")
  /\ UNCHANGED <<labels, prOpen, snap, anew, clears, spent>>

VerdictEscalates ==
  /\ at["verdict"] = "judge" /\ StateFree
  /\ cycles >= MaxCycles
  /\ issue' = Escalate(issue, "max_rework_cycles_exceeded", "mechanical", "escalated")
  /\ anew' = Sweeping
  /\ ShowOnly("verdict", "operator_queue", "idle")
  /\ UNCHANGED <<labels, prOpen, snap, cycles, clears, spent>>

VerdictBlocks ==
  /\ at["verdict"] = "judge" /\ StateFree
  /\ issue' = Escalate(issue, "review_blocked", "judgment", "blocked")
  /\ anew' = Sweeping
  /\ ShowOnly("verdict", "human_needed", "idle")
  /\ UNCHANGED <<labels, prOpen, snap, clears, spent, cycles>>

-----------------------------------------------------------------------------
\* The world: the pull request closes, the recurrence window runs out.

PrCloses ==
  /\ prOpen /\ prOpen' = FALSE
  /\ UNCHANGED <<issue, labels, at, snap, edge, clears, spent, review>>

WindowElapses ==
  /\ issue.recent /\ StateFree
  /\ issue' = [issue EXCEPT !.recent = FALSE]
  /\ UNCHANGED <<labels, prOpen, at, snap, edge, clears, spent, review>>

Pass ==
  \/ Reconcile \/ NotDue
  \/ SweepReads \/ Promote \/ CapExhausted \/ SweepViews \/ SweepClears
  \/ LaneReads \/ LaneRefuses
  \/ \E why \in Mechanical : LaneEscalates(why) \/ LaneReworks(why)
  \/ RepairReads \/ RepairLooks \/ RepairRaises \/ RepairWrites
  \/ AddLabel("pass") \/ RemoveLabels("pass")
  \/ NoteLabelError("pass")

Command(p) ==
  \/ AddLabel(p) \/ RemoveLabels(p)
  \/ p = "operator" /\ (UnescalateApplies \/ NoteLabelError(p))
  \/ /\ p = "verdict"
     /\ \/ VerdictApproves \/ VerdictRequestsChanges
        \/ VerdictEscalates \/ VerdictBlocks

Next ==
  \/ Pass \/ UnescalateReads \/ VerdictGuard
  \/ Command("operator") \/ Command("verdict")
  \/ PrCloses \/ WindowElapses

Spec == Init /\ [][Next]_vars

\* The supervised pass goes round and reconcile comes due again and again; a
\* command may stop anywhere.
FairSpec == Spec /\ WF_vars(Pass) /\ SF_vars(Reconcile)

-----------------------------------------------------------------------------
\* Properties

\* The sweep clears an issue at most MaxAuto times between two unescalates,
\* however many episodes, verdicts and operators come in between.
ClearsBounded == clears <= MaxAuto

\* The sweep never clears what a human has to decide, although it decided on
\* an entry it read before its GitHub calls.
SweepSparesJudgment ==
  [][clears' > clears => Sink(issue) /\ issue.cls = "mechanical"]_vars

\* A reason that comes back within the window after an unescalate cleared that
\* very reason is never cleared automatically, unless a verdict brought it back
\* after the sweep had read the entry: the sweep looks at status and class again
\* before it clears, and at nothing else.
RecurrenceSticks ==
  [][clears' > clears => anew \/ ~(issue.recent /\ issue.cleared = issue.reason)]_vars

\* A parked issue is eventually shown as parked, with the right label, through
\* failed label writes, re-escalations and changes of class: unless somebody
\* takes it out of the sink.
ParkedIsShown ==
  [](Sink(issue) => <>(~Sink(issue) \/ Expected(issue) \in labels))

\* escalation.py: a repair must not "silently re-escalate the issue the
\* unescalate had just released".
ReleasedIsReleased ==
  [](~Sink(issue) => <>(Sink(issue) \/ labels \cap Parked = {}))

=============================================================================
