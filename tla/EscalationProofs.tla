-------------------------- MODULE EscalationProofs --------------------------
(***************************************************************************)
(* What holds of Escalation for every set of reasons and every bound.      *)
(***************************************************************************)
EXTENDS Escalation, TLAPS

\* The escalation protocol is type correct.
LEMMA TypeInit == Init => TypeOK
  <1>1. Fresh \in Entry
    BY DEF Fresh, Entry
  <1>2. Idle \in [add : SUBSET Labels, remove : SUBSET Labels,
                 ok : BOOLEAN, then : Places]
    BY DEF Idle, NoEdge, Places
  <1>3. "idle" \in Places /\ "reconcile" \in Places /\ {"active"} \subseteq Labels
    BY DEF Places, Labels
  <1> SUFFICES ASSUME Init  PROVE TypeOK
    OBVIOUS
  <1>4. at \in [Procs -> Places]
    BY <1>3 DEF Init
  <1>5. spent \in [{"lane", "rearm", "verdict", "fault"} -> Nat]
    BY DEF Init
  <1> QED
    BY <1>1, <1>2, <1>3, <1>4, <1>5 DEF Init, TypeOK

\* A transition that is started or continued keeps its place and its labels
\* within their types.
LEMMA ProceedTypes ==
  ASSUME TypeOK, NEW p \in Procs,
         NEW e \in [add : SUBSET Labels, remove : SUBSET Labels,
                    ok : BOOLEAN, then : Places],
         Proceed(p, e)
  PROVE  /\ at' \in [Procs -> Places]
         /\ edge' \in [Procs -> [add : SUBSET Labels, remove : SUBSET Labels,
                                 ok : BOOLEAN, then : Places]]
  <1> DEFINE E == [add : SUBSET Labels, remove : SUBSET Labels,
                   ok : BOOLEAN, then : Places]
  <1>1. "edge" \in Places  BY DEF Places
  <1>2. Idle \in E  BY DEF Idle, NoEdge, Places
  <1>3. NoEdge(e.ok) \in E
    <2>1. e.ok \in BOOLEAN  OBVIOUS
    <2> QED  BY <2>1 DEF NoEdge, Places
  <1>4. CASE e.add = {} /\ e.remove = {}
    BY <1>2, <1>3, <1>4 DEF Proceed, Go, TypeOK
  <1>5. CASE ~(e.add = {} /\ e.remove = {})
    BY <1>1, <1>5 DEF Proceed, Go, TypeOK
  <1> QED  BY <1>4, <1>5

LEMMA TransitionTypes ==
  ASSUME TypeOK, NEW p \in Procs,
         NEW add \in SUBSET Labels, NEW remove \in SUBSET Labels,
         NEW place \in Places,
         Transition(p, add, remove, place)
  PROVE  /\ at' \in [Procs -> Places]
         /\ edge' \in [Procs -> [add : SUBSET Labels, remove : SUBSET Labels,
                                 ok : BOOLEAN, then : Places]]
  BY ProceedTypes DEF Transition

LEMMA ShowOnlyTypes ==
  ASSUME TypeOK, NEW p \in Procs, NEW label \in Labels, NEW place \in Places,
         ShowOnly(p, label, place)
  PROVE  /\ at' \in [Procs -> Places]
         /\ edge' \in [Procs -> [add : SUBSET Labels, remove : SUBSET Labels,
                                 ok : BOOLEAN, then : Places]]
  BY TransitionTypes DEF ShowOnly

\* What is left of a transition is a transition.
LEMMA EdgeTypes ==
  ASSUME NEW e \in [add : SUBSET Labels, remove : SUBSET Labels,
                    ok : BOOLEAN, then : Places]
  PROVE  \A ok \in BOOLEAN :
           {[e EXCEPT !.add = {}], [e EXCEPT !.add = {}, !.ok = FALSE],
            [e EXCEPT !.remove = {}, !.ok = ok]}
             \subseteq [add : SUBSET Labels, remove : SUBSET Labels,
                        ok : BOOLEAN, then : Places]
  OBVIOUS

\* The two edges of the state machine of an entry keep it an entry.
LEMMA EscalateTypes ==
  ASSUME NEW e \in Entry, NEW why \in Reasons, NEW class \in Classes,
         NEW status \in {"escalated", "blocked"}
  PROVE  Escalate(e, why, class, status) \in Entry
  BY DEF Escalate, Entry, Classes

LEMMA ClearTypes ==
  ASSUME NEW e \in Entry
  PROVE  ClearEscalation(e) \in Entry
  BY DEF ClearEscalation, Entry

\* Every step keeps the types.
LEMMA TypeNext == TypeOK /\ [Next]_vars => TypeOK'
  <1> SUFFICES ASSUME TypeOK, [Next]_vars  PROVE TypeOK'
    OBVIOUS
  <1> USE EscalationAssumption DEF review
  <1> DEFINE E == [add : SUBSET Labels, remove : SUBSET Labels,
                   ok : BOOLEAN, then : Places]
             Pending == /\ at' \in [Procs -> Places]
                        /\ edge' \in [Procs -> E]
  <1>1. /\ Procs = {"pass", "operator", "verdict"}
        /\ Fresh \in Entry
        /\ Labels = {"human_needed", "operator_queue", "active"}
        /\ \A b, max : Spend(b, max) =>
              spent' \in [{"lane", "rearm", "verdict", "fault"} -> Nat]
    BY DEF Procs, Fresh, Entry, Classes, Labels, Parked, Spend, TypeOK
  <1>2. \A p \in Procs, place \in Places :
           Go(p, place) => at' \in [Procs -> Places]
    BY DEF Go, TypeOK
  <1>3. CASE UNCHANGED vars
    BY <1>3 DEF vars, TypeOK
  <1>4. ASSUME NEW p \in Procs, AddLabel(p)  PROVE TypeOK'
    <2>1. edge[p] \in E
      BY DEF TypeOK
    <2>2. Pending
      <3>1. {[edge[p] EXCEPT !.add = {}], [edge[p] EXCEPT !.add = {}, !.ok = FALSE]}
              \subseteq E
        BY <2>1, EdgeTypes
      <3> QED
        BY <1>4, <3>1, ProceedTypes DEF AddLabel
    <2>3. labels' \subseteq Labels
      BY <1>4 DEF AddLabel, TypeOK
    <2> QED
      BY <1>1, <1>4, <2>2, <2>3 DEF AddLabel, TypeOK
  <1>5. ASSUME NEW p \in Procs, RemoveLabels(p)  PROVE TypeOK'
    <2>1. edge[p] \in E /\ edge[p].ok \in BOOLEAN
      BY DEF TypeOK
    <2>2. PICK kept \in SUBSET edge[p].remove :
             Proceed(p, [edge[p] EXCEPT !.remove = {},
                                        !.ok = IF kept = {} THEN @ ELSE FALSE])
      BY <1>5 DEF RemoveLabels
    <2>3. Pending
      <3>1. (IF kept = {} THEN edge[p].ok ELSE FALSE) \in BOOLEAN
        BY <2>1
      <3>2. [edge[p] EXCEPT !.remove = {}, !.ok = IF kept = {} THEN @ ELSE FALSE]
              \in E
        BY <2>1, <3>1, EdgeTypes
      <3> QED
        BY <2>2, <3>2, ProceedTypes
    <2> QED
      BY <1>1, <1>5, <2>3 DEF RemoveLabels, TypeOK
  <1>6. CASE Reconcile
    <2>1. /\ Expected(issue) \in Labels
          /\ "sweep" \in Places /\ "pass" \in Procs
      BY <1>1 DEF Expected, Places
    <2>2. Pending
      BY <1>6, <1>1, <2>1, TransitionTypes DEF Reconcile
    <2>3. issue' \in Entry
      BY <1>6 DEF Reconcile, TypeOK, Entry
    <2> QED
      BY <1>6, <2>2, <2>3 DEF Reconcile, TypeOK
  <1>7. CASE NotDue
    BY <1>7, <1>1, <1>2 DEF NotDue, TypeOK, Places
  <1>8. CASE SweepReads
    BY <1>8, <1>1, <1>2 DEF SweepReads, Read, TypeOK, Places
  <1>9. CASE Promote
    <2>1. Pending
      <3>1. CASE ShowOnly("pass", "human_needed", "note")
        BY <1>1, <3>1, ShowOnlyTypes DEF Places
      <3>2. CASE Go("pass", "lane") /\ UNCHANGED <<issue, edge>>
        BY <1>1, <1>2, <3>2 DEF TypeOK, Places
      <3> QED
        BY <1>9, <3>1, <3>2 DEF Promote
    <2>2. issue' \in Entry
      BY <1>9 DEF Promote, TypeOK, Entry, Classes
    <2> QED
      BY <1>9, <1>1, <2>1, <2>2 DEF Promote, Forget, TypeOK
  <1>10. CASE CapExhausted
    <2>1. Pending
      <3>1. CASE ShowOnly("pass", "human_needed", "lane")
        BY <1>1, <3>1, ShowOnlyTypes DEF Places
      <3>2. CASE Go("pass", "lane") /\ UNCHANGED <<issue, edge>>
        BY <1>1, <1>2, <3>2 DEF TypeOK, Places
      <3> QED
        BY <1>10, <3>1, <3>2 DEF CapExhausted
    <2>2. issue' \in Entry
      BY <1>10 DEF CapExhausted, TypeOK, Entry
    <2> QED
      BY <1>10, <1>1, <2>1, <2>2 DEF CapExhausted, Forget, TypeOK
  <1>11. CASE SweepViews
    BY <1>11, <1>1, <1>2 DEF SweepViews, Forget, TypeOK, Places
  <1>12. CASE SweepClears
    <2>1. Pending
      <3>1. CASE ShowOnly("pass", "active", "note")
        BY <1>1, <3>1, ShowOnlyTypes DEF Places
      <3>2. CASE Go("pass", "lane") /\ UNCHANGED <<issue, clears, edge>>
        BY <1>1, <1>2, <3>2 DEF TypeOK, Places
      <3> QED
        BY <1>12, <3>1, <3>2 DEF SweepClears
    <2>2. issue' \in Entry /\ clears' \in Nat
      <3> DEFINE cleared == ClearEscalation(issue)
      <3>1. cleared \in Entry /\ snap.count + 1 \in Nat
        BY ClearTypes DEF TypeOK, Entry
      <3> HIDE DEF cleared
      <3>2. [cleared EXCEPT !.status = "open", !.label_error = "absent",
                            !.count = snap.count + 1] \in Entry
        BY <3>1 DEF Entry
      <3> QED
        BY <1>12, <3>2 DEF SweepClears, cleared, TypeOK
    <2>3. cycles' \in Nat
      BY <1>12 DEF SweepClears, TypeOK
    <2> QED
      BY <1>12, <1>1, <2>1, <2>2, <2>3 DEF SweepClears, Forget, TypeOK
  <1>13. ASSUME NEW p \in Procs, NoteLabelError(p)  PROVE TypeOK'
    <2>1. Idle \in E
      BY DEF Idle, NoEdge, Places
    <2>2. issue' \in Entry
      BY <1>13 DEF NoteLabelError, TypeOK, Entry
    <2> QED
      BY <1>13, <1>2, <2>1, <2>2 DEF NoteLabelError, TypeOK, Places
  <1>14. CASE LaneReads
    BY <1>14, <1>1, <1>2 DEF LaneReads, Read, TypeOK, Places
  <1>15. ASSUME NEW why \in Mechanical, LaneEscalates(why)  PROVE TypeOK'
    <2>1. Pending
      BY <1>15, <1>1, ShowOnlyTypes DEF LaneEscalates, Places
    <2>2. issue' \in Entry
      BY <1>15, EscalateTypes DEF LaneEscalates, TypeOK, Reasons, Classes
    <2> QED
      BY <1>15, <1>1, <2>1, <2>2 DEF LaneEscalates, Forget, TypeOK
  <1>16. ASSUME NEW why \in Mechanical, LaneReworks(why)  PROVE TypeOK'
    <2>1. Pending
      BY <1>16, <1>1, ShowOnlyTypes DEF LaneReworks, Places
    <2>2. issue' \in Entry
      BY <1>16 DEF LaneReworks, TypeOK, Entry
    <2> QED
      BY <1>16, <1>1, <2>1, <2>2 DEF LaneReworks, Forget, TypeOK
  <1>17. CASE LaneRefuses
    BY <1>17, <1>1, <1>2 DEF LaneRefuses, Forget, TypeOK, Places
  <1>18. CASE RepairReads
    BY <1>18, <1>1, <1>2 DEF RepairReads, Read, Forget, TypeOK, Places
  <1>19. CASE RepairLooks
    <2>1. Expected(snap) \in Labels /\ Idle \in E
      BY <1>1 DEF Expected, Idle, NoEdge, Places
    <2>2. Pending
      <3>1. CASE ShowOnly("pass", Expected(snap), "outcome")
        BY <1>1, <2>1, <3>1, ShowOnlyTypes DEF Places
      <3>2. CASE /\ edge' = [edge EXCEPT !["pass"] = Idle]
                 /\ Go("pass", "outcome")
        BY <1>1, <1>2, <2>1, <3>2 DEF TypeOK, Places
      <3> QED
        BY <1>19, <3>1, <3>2 DEF RepairLooks
    <2> QED
      BY <1>19, <1>1, <2>2 DEF RepairLooks, Forget, TypeOK
  <1>20. CASE RepairRaises
    BY <1>20, <1>1, <1>2 DEF RepairRaises, Forget, TypeOK, Places
  <1>21. CASE RepairWrites
    <2>1. Idle \in E
      BY DEF Idle, NoEdge, Places
    <2>2. issue' \in Entry
      BY <1>21 DEF RepairWrites, TypeOK, Entry
    <2> QED
      BY <1>21, <1>1, <1>2, <2>1, <2>2 DEF RepairWrites, TypeOK, Places
  <1>22. CASE UnescalateReads
    <2>1. /\ (IF prOpen THEN {"active"} ELSE {}) \subseteq Labels
          /\ (IF prOpen THEN Parked ELSE Labels) \subseteq Labels
          /\ "note" \in Places /\ "apply" \in Places
      BY <1>1 DEF Parked, Places
    <2>2. Pending
      BY <1>22, <1>1, <1>2, <2>1 DEF UnescalateReads, TypeOK
    <2> QED
      BY <1>22, <1>1, <2>2 DEF UnescalateReads, TypeOK
  <1>23. CASE UnescalateApplies
    <2>1. issue' \in Entry
      <3> DEFINE cleared == ClearEscalation(issue)
      <3>1. cleared \in Entry /\ issue.reason \in Reasons \cup {"none"}
        BY ClearTypes DEF TypeOK, Entry
      <3> HIDE DEF cleared
      <3>2. \A status \in {"none", "open"}, recent \in BOOLEAN :
               [cleared EXCEPT !.status = status, !.label_error = "absent",
                               !.count = 0, !.notified = FALSE,
                               !.cleared = issue.reason, !.recent = recent]
                 \in Entry
        BY <3>1 DEF Entry
      <3>3. (issue.reason # "none") \in BOOLEAN
        OBVIOUS
      <3>4. (IF edge["operator"].add = {} THEN "none" ELSE "open")
              \in {"none", "open"}
        OBVIOUS
      <3> QED
        BY <1>23, <3>2, <3>3, <3>4 DEF UnescalateApplies, cleared
    <2> QED
      BY <1>23, <1>1, <1>2, <2>1 DEF UnescalateApplies, TypeOK, Places
  <1>24. CASE VerdictGuard
    BY <1>24, <1>1, <1>2 DEF VerdictGuard, TypeOK, Places
  <1>25. CASE VerdictApproves
    <2>1. Pending
      BY <1>25, <1>1, ShowOnlyTypes DEF VerdictApproves, Places
    <2>2. issue' \in Entry
      <3> DEFINE cleared == ClearEscalation(issue)
      <3>1. cleared \in Entry
        BY ClearTypes DEF TypeOK
      <3> HIDE DEF cleared
      <3>2. [cleared EXCEPT !.status = "open"] \in Entry
        BY <3>1 DEF Entry
      <3> QED
        BY <1>25, <3>2 DEF VerdictApproves, cleared
    <2> QED
      BY <1>25, <2>1, <2>2 DEF VerdictApproves, TypeOK
  <1>26. CASE VerdictBlocks
    <2>1. Pending
      BY <1>26, <1>1, ShowOnlyTypes DEF VerdictBlocks, Places
    <2>2. issue' \in Entry
      BY <1>26, EscalateTypes DEF VerdictBlocks, TypeOK, Reasons, Classes
    <2> QED
      BY <1>26, <2>1, <2>2 DEF VerdictBlocks, Sweeping, TypeOK
  <1>27. CASE VerdictRequestsChanges
    <2>1. Pending
      BY <1>27, <1>1, ShowOnlyTypes DEF VerdictRequestsChanges, Places
    <2>2. issue' \in Entry
      <3> DEFINE cleared == ClearEscalation(issue)
      <3>1. cleared \in Entry
        BY ClearTypes DEF TypeOK
      <3> HIDE DEF cleared
      <3>2. [cleared EXCEPT !.status = "rework"] \in Entry
        BY <3>1 DEF Entry
      <3> QED
        BY <1>27, <3>2 DEF VerdictRequestsChanges, cleared
    <2>3. cycles' \in Nat
      BY <1>27 DEF VerdictRequestsChanges, TypeOK
    <2> QED
      BY <1>27, <2>1, <2>2, <2>3 DEF VerdictRequestsChanges, TypeOK
  <1>28. CASE VerdictEscalates
    <2>1. Pending
      BY <1>28, <1>1, ShowOnlyTypes DEF VerdictEscalates, Places
    <2>2. issue' \in Entry
      BY <1>28, EscalateTypes DEF VerdictEscalates, TypeOK, Reasons, Classes
    <2> QED
      BY <1>28, <2>1, <2>2 DEF VerdictEscalates, Sweeping, TypeOK
  <1>29. CASE PrCloses
    BY <1>29 DEF PrCloses, TypeOK
  <1>30. CASE WindowElapses
    <2>1. \A e \in Entry : [e EXCEPT !.recent = FALSE] \in Entry
      BY DEF Entry
    <2> QED
      BY <1>30, <2>1 DEF WindowElapses, TypeOK
  <1> QED
    BY <1>1, <1>3, <1>4, <1>5, <1>6, <1>7, <1>8, <1>9, <1>10, <1>11, <1>12, <1>13,
       <1>14, <1>15, <1>16, <1>17, <1>18, <1>19, <1>20, <1>21, <1>22, <1>23, <1>24, <1>25,
       <1>26, <1>27, <1>28, <1>29, <1>30
    DEF Next, Pass, Command

\* The escalation protocol is type correct, whatever the reasons and the bounds.
THEOREM Typing == Spec => []TypeOK
  <1>1. Init => TypeOK
    BY TypeInit
  <1>2. TypeOK /\ [Next]_vars => TypeOK'
    BY TypeNext
  <1> QED
    BY <1>1, <1>2, PTL DEF Spec

-----------------------------------------------------------------------------
\* The sweep and its counter.  Between its read and its write the sweep works
\* on a copy of the entry; what it has found out about the copy must still be
\* enough when it writes.

\* The counter never falls behind the clears, neither in the entry nor in the
\* copy, and the copy the sweep goes on with is below the cap.
Counted ==
  /\ clears <= issue.count
  /\ Sweeping => clears <= snap.count /\ snap.count < MaxAuto
  /\ clears <= MaxAuto

\* While the sweep goes on, the entry is not a recurrence it should stop at,
\* unless a verdict has made it one.
NoRecurrence ==
  Sweeping => \/ anew
              \/ ~(/\ Sink(issue) /\ issue.cls = "mechanical"
                   /\ issue.recent /\ issue.cleared = issue.reason)

\* No label transition ends inside the sweep.
Targets == \A p \in Procs : edge[p].then \notin {"view", "clear"}

SweepInv == TypeOK /\ Targets /\ Counted /\ NoRecurrence

\* A transition that is started or continued puts its process on an edge or at
\* the place the transition was for.
LEMMA ProceedPlaces ==
  ASSUME TypeOK, Targets, NEW p \in Procs,
         NEW e \in [add : SUBSET Labels, remove : SUBSET Labels,
                    ok : BOOLEAN, then : Places],
         e.then \notin {"view", "clear"},
         Proceed(p, e)
  PROVE  /\ Targets'
         /\ at'["pass"] = at["pass"] \/ ~Sweeping'
  <1>1. at'[p] \notin {"view", "clear"} /\ \A q \in Procs \ {p} : at'[q] = at[q]
    BY DEF Proceed, Go, TypeOK
  <1>2. edge'[p].then \notin {"view", "clear"}
    BY DEF Proceed, TypeOK, Idle, NoEdge
  <1>3. \A q \in Procs \ {p} : edge'[q] = edge[q]
    BY DEF Proceed, TypeOK
  <1> QED
    BY <1>1, <1>2, <1>3 DEF Targets, Sweeping, Procs

LEMMA ShowOnlyPlaces ==
  ASSUME TypeOK, Targets, NEW p \in Procs, NEW label \in Labels,
         NEW place \in Places \ {"view", "clear"},
         ShowOnly(p, label, place)
  PROVE  /\ Targets'
         /\ at'["pass"] = at["pass"] \/ ~Sweeping'
         /\ at'[p] = "edge"
  <1> DEFINE e == [add |-> {label}, remove |-> Labels \ {label}, ok |-> TRUE,
                   then |-> place]
  <1>1. e \in [add : SUBSET Labels, remove : SUBSET Labels,
               ok : BOOLEAN, then : Places] /\ e.then \notin {"view", "clear"}
    OBVIOUS
  <1>2. Proceed(p, e)
    BY DEF ShowOnly, Transition
  <1>3. at'[p] = "edge"
    BY <1>2 DEF Proceed, Go, TypeOK
  <1> HIDE DEF e
  <1> QED
    BY <1>1, <1>2, <1>3, ProceedPlaces

\* Only the sweep's own three steps keep the pass in the sweep or bring it
\* there, and nobody starts a transition that ends in it.
LEMMA Moves ==
  ASSUME TypeOK, Targets, [Next]_vars
  PROVE  /\ Targets'
         /\ \/ ~Sweeping'
            \/ SweepReads \/ SweepViews
            \/ Sweeping /\ UNCHANGED snap
  <1> DEFINE E == [add : SUBSET Labels, remove : SUBSET Labels,
                   ok : BOOLEAN, then : Places]
             Goal == /\ Targets'
                     /\ \/ ~Sweeping'
                        \/ SweepReads \/ SweepViews
                        \/ Sweeping /\ UNCHANGED snap
  <1>1. /\ Procs = {"pass", "operator", "verdict"}
        /\ Labels = {"human_needed", "operator_queue", "active"}
        /\ {"sweep", "note", "lane", "repair", "outcome", "idle"}
              \subseteq Places \ {"view", "clear"}
        /\ Idle \in E /\ Idle.then = "idle"
    BY DEF Procs, Labels, Parked, Places, Idle, NoEdge
  <1>2. UNCHANGED edge => Targets'
    BY DEF Targets
  <1>3. CASE UNCHANGED vars
    BY <1>2, <1>3 DEF vars, Sweeping
  <1>4. ASSUME NEW p \in Procs, AddLabel(p) \/ RemoveLabels(p)  PROVE Goal
    <2>1. edge[p] \in E /\ edge[p].then \notin {"view", "clear"}
      BY DEF TypeOK, Targets
    <2>2. \A ok \in BOOLEAN :
            {[edge[p] EXCEPT !.add = {}], [edge[p] EXCEPT !.add = {}, !.ok = FALSE],
                [edge[p] EXCEPT !.remove = {}, !.ok = ok]} \subseteq E
      BY <2>1, EdgeTypes
    <2>3. \A ok \in BOOLEAN :
            /\ [edge[p] EXCEPT !.add = {}].then = edge[p].then
            /\ [edge[p] EXCEPT !.add = {}, !.ok = FALSE].then = edge[p].then
            /\ [edge[p] EXCEPT !.remove = {}, !.ok = ok].then = edge[p].then
      BY <2>1
    <2>4. \A kept \in SUBSET edge[p].remove :
            (IF kept = {} THEN edge[p].ok ELSE FALSE) \in BOOLEAN
      BY <2>1
    <2>5. UNCHANGED snap
      BY <1>4 DEF AddLabel, RemoveLabels
    <2>6. PICK e \in E : e.then \notin {"view", "clear"} /\ Proceed(p, e)
      <3>1. CASE AddLabel(p)
        BY <2>1, <2>2, <2>3, <3>1 DEF AddLabel
      <3>2. CASE RemoveLabels(p)
        BY <2>1, <2>2, <2>4, <2>3, <3>2 DEF RemoveLabels
      <3> QED
        BY <1>4, <3>1, <3>2
    <2> QED
      BY <2>5, <2>6, ProceedPlaces DEF Sweeping
  <1>5. CASE Reconcile
    <2>1. PICK e \in E : e.then \notin {"view", "clear"} /\ Proceed("pass", e)
      <3>1. Expected(issue) \in Labels
        BY <1>1 DEF Expected
      <3>2. PICK add \in SUBSET Labels, remove \in SUBSET Labels :
               Transition("pass", add, remove, "sweep")
        BY <1>1, <1>5, <3>1 DEF Reconcile
      <3> QED
        BY <1>1, <3>2 DEF Transition
    <2> QED
      BY <1>1, <1>5, <2>1, ProceedPlaces DEF Reconcile, Sweeping
  <1>6. CASE NotDue \/ LaneReads \/ LaneRefuses \/ RepairReads \/ RepairRaises
    BY <1>2, <1>6
    DEF NotDue, LaneReads, LaneRefuses, RepairReads, RepairRaises, Go, Sweeping,
        TypeOK, Procs
  <1>7. CASE SweepReads \/ SweepViews
    BY <1>2, <1>7 DEF SweepReads, SweepViews
  <1>8. CASE Promote \/ CapExhausted \/ SweepClears
    <2>1. CASE \E label \in Labels, place \in Places \ {"view", "clear"} :
                  ShowOnly("pass", label, place)
      BY <1>1, <2>1, ShowOnlyPlaces DEF Sweeping
    <2>2. CASE Go("pass", "lane") /\ UNCHANGED edge
      BY <1>1, <1>2, <2>2 DEF Go, Sweeping, TypeOK
    <2> QED
      BY <1>1, <1>8, <2>1, <2>2 DEF Promote, CapExhausted, SweepClears
  <1>9. ASSUME NEW p \in Procs, NoteLabelError(p)  PROVE Goal
    <2>1. Targets'
      BY <1>1, <1>9 DEF NoteLabelError, Targets, TypeOK
    <2> QED
      BY <1>1, <1>9, <2>1 DEF NoteLabelError, Go, Sweeping, TypeOK
  <1>10. ASSUME NEW why \in Mechanical, LaneEscalates(why) \/ LaneReworks(why)
         PROVE  Goal
    BY <1>1, <1>10, ShowOnlyPlaces DEF LaneEscalates, LaneReworks, Sweeping
  <1>11. CASE RepairLooks
    <2>1. Expected(snap) \in Labels
      BY <1>1 DEF Expected
    <2>2. CASE ShowOnly("pass", Expected(snap), "outcome")
      BY <1>1, <1>11, <2>1, <2>2, ShowOnlyPlaces DEF RepairLooks, Sweeping
    <2>3. CASE edge' = [edge EXCEPT !["pass"] = Idle] /\ Go("pass", "outcome")
      BY <1>1, <2>3 DEF Targets, Go, Sweeping, TypeOK
    <2> QED
      BY <1>11, <2>2, <2>3 DEF RepairLooks
  <1>12. CASE RepairWrites
    <2>1. Targets'
      BY <1>1, <1>12 DEF RepairWrites, Targets, TypeOK
    <2> QED
      BY <1>1, <1>12, <2>1 DEF RepairWrites, Go, Sweeping, TypeOK
  <1>13. CASE UnescalateReads
    <2>1. Targets'
      BY <1>1, <1>13 DEF UnescalateReads, Targets, TypeOK
    <2> QED
      BY <1>1, <1>13, <2>1 DEF UnescalateReads, Go, Sweeping, TypeOK
  <1>14. CASE UnescalateApplies \/ VerdictGuard
    BY <1>1, <1>2, <1>14 DEF UnescalateApplies, VerdictGuard, Go, Sweeping, TypeOK
  <1>15. CASE \/ VerdictApproves \/ VerdictRequestsChanges
              \/ VerdictEscalates \/ VerdictBlocks
    BY <1>1, <1>15, ShowOnlyPlaces
    DEF VerdictApproves, VerdictRequestsChanges, VerdictEscalates, VerdictBlocks, Sweeping
  <1>16. CASE PrCloses \/ WindowElapses
    BY <1>2, <1>16 DEF PrCloses, WindowElapses, Sweeping
  <1> QED
    BY <1>1, <1>3, <1>4, <1>5, <1>6, <1>7, <1>8, <1>9, <1>10, <1>11, <1>12,
       <1>13, <1>14, <1>15, <1>16
    DEF Next, Pass, Command

\* Who counts: the sweep's clear adds one to what its copy counts, unescalate
\* starts again from nothing, and nobody else touches counter or clears.
LEMMA Counting ==
  ASSUME TypeOK, [Next]_vars
  PROVE  \/ issue'.count = issue.count /\ clears' = clears
         \/ /\ SweepClears /\ at["pass"] = "clear"
            /\ Sink(issue) /\ issue.cls = "mechanical"
            /\ issue'.count = snap.count + 1 /\ clears' = clears + 1
         \/ issue'.count = 0 /\ clears' = 0
  <1> DEFINE Quiet == issue'.count = issue.count /\ clears' = clears
  <1>1. issue \in Entry
    BY DEF TypeOK
  <1>2. CASE \/ UNCHANGED vars
             \/ \E p \in Procs : AddLabel(p) \/ RemoveLabels(p)
             \/ NotDue \/ SweepReads \/ SweepViews \/ LaneReads \/ LaneRefuses
             \/ RepairReads \/ RepairLooks \/ RepairRaises
             \/ UnescalateReads \/ VerdictGuard \/ PrCloses
    BY <1>2 DEF vars, AddLabel, RemoveLabels, NotDue, SweepReads, SweepViews,
                LaneReads, LaneRefuses, RepairReads, RepairLooks, RepairRaises,
                UnescalateReads, VerdictGuard, PrCloses
  <1>3. CASE \/ Reconcile \/ Promote \/ CapExhausted \/ RepairWrites
             \/ WindowElapses \/ \E p \in Procs : NoteLabelError(p)
             \/ \E why \in Mechanical : LaneReworks(why)
    BY <1>1, <1>3 DEF Reconcile, Promote, CapExhausted, RepairWrites,
                      WindowElapses, NoteLabelError, LaneReworks, Entry
  <1>4. CASE \E why \in Mechanical : LaneEscalates(why)
    BY <1>1, <1>4 DEF LaneEscalates, Escalate, Entry
  <1>5. CASE SweepClears
    BY <1>1, <1>5 DEF SweepClears, ClearEscalation, Entry
  <1>6. CASE UnescalateApplies
    BY <1>1, <1>6 DEF UnescalateApplies, ClearEscalation, Entry
  <1>7. CASE \/ VerdictApproves \/ VerdictRequestsChanges
             \/ VerdictEscalates \/ VerdictBlocks
    BY <1>1, <1>7
    DEF VerdictApproves, VerdictRequestsChanges, VerdictEscalates, VerdictBlocks,
        ClearEscalation, Escalate, Entry
  <1> QED
    BY <1>2, <1>3, <1>4, <1>5, <1>6, <1>7 DEF Next, Pass, Command, Procs

LEMMA CountedNext ==
  ASSUME SweepInv, [Next]_vars
  PROVE  Counted'
  <1>1. /\ clears \in Nat /\ issue.count \in Nat /\ snap.count \in Nat
        /\ MaxAuto \in Nat
    BY EscalationAssumption DEF SweepInv, TypeOK, Entry
  <1>2. TypeOK /\ Targets /\ Counted
    BY DEF SweepInv
  <1>3. clears' <= issue'.count /\ clears' <= MaxAuto
    BY <1>1, <1>2, Counting DEF Counted, Sweeping
  <1>4. Sweeping' => clears' <= clears
    <2>1. CASE SweepReads \/ SweepViews
      BY <1>1, <2>1 DEF SweepReads, SweepViews
    <2>2. CASE SweepClears
      BY <1>2, <2>2 DEF SweepClears, ShowOnly, Transition, Proceed, Go,
                        Sweeping, TypeOK, Procs
    <2> QED
      BY <1>1, <1>2, <2>1, <2>2, Counting
  <1>5. Sweeping' => clears' <= snap'.count /\ snap'.count < MaxAuto
    <2>1. CASE SweepReads
      <3>1. snap' = issue /\ clears' = clears
        BY <2>1 DEF SweepReads, Read
      <3>2. Sweeping' => issue.count < MaxAuto
        BY <1>2, <2>1 DEF SweepReads, Go, Sweeping, TypeOK, Procs
      <3> QED
        BY <1>2, <3>1, <3>2 DEF Counted
    <2>2. CASE SweepViews
      <3>1. Sweeping' => UNCHANGED snap
        BY <1>2, <2>2 DEF SweepViews, Go, Sweeping, TypeOK, Procs
      <3>2. Sweeping /\ clears' = clears
        BY <2>2 DEF SweepViews, Sweeping
      <3> QED
        BY <1>2, <3>1, <3>2 DEF Counted
    <2>3. CASE Sweeping /\ UNCHANGED snap
      BY <1>1, <1>2, <1>4, <2>3, Counting DEF Counted
    <2> QED
      BY <1>2, <2>1, <2>2, <2>3, Moves
  <1> QED
    BY <1>3, <1>5 DEF Counted

LEMMA NoRecurrenceNext ==
  ASSUME SweepInv, [Next]_vars
  PROVE  NoRecurrence'
  <1> SUFFICES ASSUME Sweeping'
               PROVE  \/ anew'
                      \/ ~(/\ Sink(issue)' /\ issue'.cls = "mechanical"
                           /\ issue'.recent /\ issue'.cleared = issue'.reason)
    BY DEF NoRecurrence
  <1>1. TypeOK /\ Targets /\ NoRecurrence /\ issue \in Entry
    BY DEF SweepInv, TypeOK
  <1>2. CASE SweepReads
    BY <1>1, <1>2 DEF SweepReads, Go, Sweeping, Sink, TypeOK, Procs
  <1>3. CASE SweepViews
    <2>1. Sweeping /\ UNCHANGED <<issue, anew>>
      BY <1>1, <1>3 DEF SweepViews, Go, Sweeping, TypeOK, Procs
    <2> QED
      BY <1>1, <2>1 DEF NoRecurrence, Sink
  <1>4. CASE ~SweepReads /\ ~SweepViews
    <2>1. Sweeping /\ at["pass"] \in {"view", "clear"}
      BY <1>1, <1>4, Moves DEF Sweeping
    <2>2. CASE UNCHANGED <<issue, anew>>
      BY <1>1, <2>1, <2>2 DEF NoRecurrence, Sink
    <2>3. CASE SweepClears
      BY <1>1, <2>3
      DEF SweepClears, ShowOnly, Transition, Proceed, Go, Sweeping, TypeOK, Procs
    <2>4. CASE NoteLabelError("operator")
      BY <1>1, <2>1, <2>4 DEF NoteLabelError, NoRecurrence, Sink, Entry, review
    <2>5. CASE UnescalateApplies
      BY <1>1, <2>5 DEF UnescalateApplies, ClearEscalation, Sink, Entry
    <2>6. CASE VerdictApproves \/ VerdictRequestsChanges
      BY <1>1, <2>6
      DEF VerdictApproves, VerdictRequestsChanges, ClearEscalation, Sink, Entry
    <2>8. CASE VerdictEscalates \/ VerdictBlocks
      BY <2>1, <2>8 DEF VerdictEscalates, VerdictBlocks
    <2>7. CASE WindowElapses
      BY <1>1, <2>7 DEF WindowElapses, Entry, NoRecurrence
    <2> QED
      BY <1>4, <2>1, <2>2, <2>3, <2>4, <2>5, <2>6, <2>7, <2>8
      DEF Next, Pass, Command, vars, review, Reconcile, NotDue, Promote, CapExhausted,
          LaneReads, LaneEscalates, LaneReworks, LaneRefuses, RepairReads,
          RepairLooks, RepairRaises, RepairWrites, AddLabel, RemoveLabels,
          NoteLabelError, UnescalateReads, VerdictGuard, PrCloses
  <1> QED
    BY <1>2, <1>3, <1>4

LEMMA SweepInvHolds == Spec => []SweepInv
  <1>1. Init => SweepInv
    <2> SUFFICES ASSUME Init  PROVE SweepInv
      OBVIOUS
    <2>1. TypeOK
      BY TypeInit
    <2>2. /\ at["pass"] = "reconcile" /\ clears = 0 /\ MaxAuto \in Nat
          /\ issue.count = 0 /\ \A p \in Procs : edge[p].then = "idle"
      BY EscalationAssumption DEF Init, Fresh, Idle, NoEdge, Procs
    <2> QED
      BY <2>1, <2>2 DEF SweepInv, Targets, Counted, NoRecurrence, Sweeping
  <1>2. SweepInv /\ [Next]_vars => SweepInv'
    BY TypeNext, Moves, CountedNext, NoRecurrenceNext DEF SweepInv
  <1> QED
    BY <1>1, <1>2, PTL DEF Spec

\* However many sweeps, episodes, verdicts and unescalates: never more than
\* max_auto_deescalations automatic clears between two unescalates.
THEOREM ClearsAreBounded == Spec => []ClearsBounded
  <1>1. SweepInv => ClearsBounded
    BY DEF SweepInv, Counted, ClearsBounded
  <1> QED
    BY <1>1, SweepInvHolds, PTL

\* The one step that clears automatically, whatever came between the sweep's
\* read and its write.
LEMMA ClearingStep ==
  ASSUME TypeOK, [Next]_vars, clears' > clears
  PROVE  at["pass"] = "clear" /\ Sink(issue) /\ issue.cls = "mechanical"
  <1>1. clears \in Nat
    BY DEF TypeOK
  <1> QED
    BY <1>1, Counting

\* An escalation a human has to decide is never cleared by the sweep, even if
\* it replaced a mechanical one while the sweep was asking GitHub.
THEOREM JudgmentSpared == Spec => SweepSparesJudgment
  <1>1. TypeOK /\ [Next]_vars
        => [clears' > clears => Sink(issue) /\ issue.cls = "mechanical"]_vars
    BY ClearingStep
  <1> QED
    BY <1>1, Typing, PTL DEF Spec, SweepSparesJudgment

\* A reason that has come back within the window after an unescalate cleared it
\* is never cleared again by the sweep, unless a verdict brought it back between
\* the sweep's read and its write.
THEOREM RecurrenceIsKept == Spec => RecurrenceSticks
  <1>1. SweepInv /\ [Next]_vars
        => [clears' > clears => anew \/ ~(issue.recent /\ issue.cleared = issue.reason)]_vars
    BY ClearingStep DEF SweepInv, NoRecurrence, Sweeping
  <1> QED
    BY <1>1, SweepInvHolds, PTL DEF Spec, RecurrenceSticks
=============================================================================
