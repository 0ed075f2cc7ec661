--------------------------- MODULE MergeTripwire ---------------------------
(***************************************************************************)
(* The post-merge tripwire: a supervised pass, or a charlie loop typed by  *)
(* hand, compares what GitHub has merged with the review records on disk   *)
(* and reports a merge that no record covers.                              *)
(*                                                                         *)
(* The records are written meanwhile by commands of their own: a reviewer  *)
(* or charlie verdict (record_review), the packet builder (review), the    *)
(* carry-forward of an approval, and charlie merge authorize.  Every one   *)
(* looks at the pull request first and writes under state_lock later, and  *)
(* in between workers push, the merge queue syncs branches and anybody     *)
(* merges.  A detection reads the list of merges, the records one by one   *)
(* and the baseline in this order, under no common lock, and writes the    *)
(* baseline or the announcement under a second hold.                       *)
(*                                                                         *)
(* Heads are numbers, at most MaxHeads per pull request; MaxCommands       *)
(* bounds the record-writing commands.                                     *)
(***************************************************************************)
EXTENDS Naturals, FiniteSets

CONSTANTS PRs,           \* worker pull requests of this repository
          Passes,        \* passes that run the tripwire; "loop" is supervised
          Writers,       \* whoever runs a command that writes a record
          MaxHeads, MaxCommands

VARIABLES head,        \* GitHub: the head each pull request has, or merged with
          synced,      \* GitHub: heads that are the queue's sync of their predecessor
          merged,      \* GitHub: the merged pull requests
          record,      \* review-decision.json of each pull request
          cmd,         \* what each writer has looked at and is about to write
          commands,    \* commands begun so far
          baseline,    \* state.json: unauthorized_merge_baseline, if armed
          acked,       \* state.json: unauthorized_merge_acknowledged
          detected,    \* state.json: unauthorized_merge_detected
          pass,        \* each pass: where it is and what it has collected
          authorized,  \* history: the head last authorized before the merge
          clean,       \* history: merged while covered
          bypass,      \* history: merged uncovered with the tripwire armed
          excused      \* history: see Excuse below

gh == <<head, synced, merged>>
tripwire == <<baseline, acked, detected>>
history == <<authorized, clean, bypass, excused>>
vars == <<gh, record, cmd, commands, tripwire, pass, history>>

ASSUME MergeTripwireAssumption ==
  /\ "loop" \in Passes
  /\ MaxHeads \in Nat \ {0} /\ MaxCommands \in Nat

NoHead == 0
Heads == 1..MaxHeads
Unarmed == [armed |-> FALSE, prs |-> {}]
Armed == baseline.armed

\* decision, reviewed_head_sha and the sha of authorized_override; a file that
\* merge authorize created holds the override alone.
Record == [decision : {"missing", "pending", "approved", "request_changes"},
           reviewed : Heads \cup {NoHead}, override : Heads \cup {NoHead}]
Terminal == {"approved", "request_changes"}
NoRecord == [decision |-> "missing", reviewed |-> NoHead, override |-> NoHead]

Command == [kind : {"verdict", "packet", "carry", "authorize"}, pr : PRs,
            seen : Heads, was : Record]
NoCommand == [kind |-> "none"]

Resting == [at |-> "idle", todo |-> {}, found |-> {}, shown |-> {}]

\* GitHub, the records, the state file and every process are well formed; what
\* is announced, and what the baseline exempts, has merged: a pull request that
\* was open when the tripwire armed is not exempt (state_unauthorized_merge.py:67).
TypeOK ==
  /\ head \in [PRs -> Heads] /\ merged \subseteq PRs
  /\ synced \subseteq PRs \X Heads
  /\ record \in [PRs -> Record]
  /\ cmd \in [Writers -> Command \cup {NoCommand}]
  /\ commands \in 0..MaxCommands
  /\ baseline \in [armed : BOOLEAN, prs : SUBSET merged]
  /\ acked \subseteq PRs /\ detected \subseteq merged
  /\ pass \in [Passes -> [at : {"idle", "list", "judge", "bound", "arm", "announce"},
                          todo : SUBSET merged, found : SUBSET merged,
                          shown : SUBSET merged]]
  /\ authorized \in [PRs -> Heads \cup {NoHead}]
  /\ clean \subseteq merged /\ bypass \subseteq merged /\ excused \subseteq PRs

Init ==
  /\ head = [p \in PRs |-> 1] /\ synced = {} /\ merged = {}
  /\ record = [p \in PRs |-> NoRecord]
  /\ cmd = [w \in Writers |-> NoCommand] /\ commands = 0
  /\ baseline = Unarmed /\ acked = {} /\ detected = {}
  /\ pass = [a \in Passes |-> Resting]
  /\ authorized = [p \in PRs |-> NoHead]
  /\ clean = {} /\ bypass = {} /\ excused = {}

-----------------------------------------------------------------------------
\* What a record covers

Authorizes(p) == record[p].override = head[p]

\* The merged head is the queue's sync of the approved head with the base: the
\* four conditions of queue_sync_coverage, once GitHub has answered.
QueueSynced(p) ==
  /\ record[p].decision = "approved"
  /\ <<p, head[p]>> \in synced
  /\ record[p].reviewed = head[p] - 1

ApprovedHead(p) ==
  record[p].decision = "approved" /\ record[p].reviewed = head[p]

Covered(p) == ApprovedHead(p) \/ Authorizes(p) \/ QueueSynced(p)

-----------------------------------------------------------------------------
\* GitHub

Push(p) ==
  /\ p \notin merged /\ head[p] < MaxHeads
  /\ head' = [head EXCEPT ![p] = @ + 1]
  /\ UNCHANGED <<synced, merged, record, cmd, commands, tripwire, pass, history>>

\* The queue merges the base into the branch before it lands it.
QueueSync(p) ==
  /\ p \notin merged /\ head[p] < MaxHeads
  /\ head' = [head EXCEPT ![p] = @ + 1]
  /\ synced' = synced \cup {<<p, head[p] + 1>>}
  /\ UNCHANGED <<merged, record, cmd, commands, tripwire, pass, history>>

\* The fleet, the queue, the operator or the worker itself merges what is
\* there: the tripwire sees no difference but the record.
MergeLands(p) ==
  /\ p \notin merged
  /\ merged' = merged \cup {p}
  /\ IF Covered(p) \/ authorized[p] = head[p]
       THEN clean' = clean \cup {p} /\ UNCHANGED bypass
       ELSE /\ UNCHANGED clean
            /\ bypass' = IF Armed THEN bypass \cup {p} ELSE bypass
  /\ UNCHANGED <<head, synced, record, cmd, commands, tripwire, pass,
                 authorized, excused>>

-----------------------------------------------------------------------------
\* The commands that write a record: each looks, and later writes.

Look(w, kind, p) ==
  /\ cmd[w] = NoCommand /\ commands < MaxCommands
  /\ commands' = commands + 1
  /\ cmd' = [cmd EXCEPT ![w] = [kind |-> kind, pr |-> p, seen |-> head[p],
                                was |-> record[p]]]
  /\ UNCHANGED <<gh, record, tripwire, pass, history>>

\* record_review refuses a pull request that is merged when it looks, and
\* review is called for open ones; merge authorize asks for neither.
LookVerdict(w, p) == p \notin merged /\ Look(w, "verdict", p)
LookPacket(w, p) == p \notin merged /\ Look(w, "packet", p)
LookAuthorize(w, p) == Look(w, "authorize", p)

\* The merge path carries an approval of an older head over to a later one.
LookCarry(w, p) ==
  /\ p \notin merged
  /\ record[p].decision = "approved" /\ record[p].reviewed # head[p]
  /\ Look(w, "carry", p)

Writes(w, kind) == cmd[w].kind = kind /\ cmd' = [cmd EXCEPT ![w] = NoCommand]
Put(p, new) == record' = [record EXCEPT ![p] = new]

\* A clean merge may be reported after all if its record was rewritten since,
\* if a packet dropped the operator's authorization, or if GitHub would not
\* say whether the merged head is a sync.
Excuse(p, why) == excused' = IF why THEN excused \cup {p} ELSE excused

(* Mutant: the payload replaces the file, override included. *)
WriteVerdictAlone(w) ==
  LET p == cmd[w].pr IN
  /\ Writes(w, "verdict")
  /\ \E d \in Terminal :
       Put(p, [decision |-> d, reviewed |-> cmd[w].seen, override |-> NoHead])
  /\ Excuse(p, p \in merged /\ ~Authorizes(p))
  /\ UNCHANGED <<gh, commands, tripwire, pass, authorized, clean, bypass>>

\* record_review: a fresh payload, but the override is read again under the
\* lock and carried over.
WriteVerdict(w) ==
  LET p == cmd[w].pr IN
  /\ Writes(w, "verdict")
  /\ \E d \in Terminal :
       Put(p, [decision |-> d, reviewed |-> cmd[w].seen,
               override |-> record[p].override])
  /\ Excuse(p, p \in merged /\ ~Authorizes(p))
  /\ UNCHANGED <<gh, commands, tripwire, pass, authorized, clean, bypass>>

\* review: the placeholder goes where no file is, and over a verdict of another
\* head, or of any with --force-rereview (read under the lock); it is a fresh
\* payload too, and drops the override.
WritePacket(w) ==
  LET p == cmd[w].pr
      Void(force) == \/ record[p] = NoRecord
                     \/ /\ record[p].decision \in Terminal
                        /\ force \/ record[p].reviewed # cmd[w].seen
  IN
  /\ Writes(w, "packet")
  /\ \E force \in BOOLEAN : IF Void(force)
       THEN /\ Put(p, [decision |-> "pending", reviewed |-> cmd[w].seen,
                       override |-> NoHead])
            /\ Excuse(p, p \in merged \/ record[p].override # NoHead)
       ELSE UNCHANGED <<record, excused>>
  /\ UNCHANGED <<gh, commands, tripwire, pass, authorized, clean, bypass>>

\* _update_approval_head: only if decision and reviewed head are as they were.
WriteCarry(w) ==
  LET p == cmd[w].pr IN
  /\ Writes(w, "carry")
  /\ IF /\ record[p].decision = cmd[w].was.decision
        /\ record[p].reviewed = cmd[w].was.reviewed
       THEN Put(p, [record[p] EXCEPT !.reviewed = cmd[w].seen])
       ELSE UNCHANGED record
  /\ UNCHANGED <<gh, commands, tripwire, pass, history>>

\* merge_authorize: the override joins whatever the file holds.
WriteAuthorize(w) ==
  LET p == cmd[w].pr IN
  /\ Writes(w, "authorize")
  /\ Put(p, [record[p] EXCEPT !.override = cmd[w].seen])
  /\ IF p \in merged
       THEN Excuse(p, Authorizes(p) /\ cmd[w].seen # head[p]) /\ UNCHANGED authorized
       ELSE authorized' = [authorized EXCEPT ![p] = cmd[w].seen] /\ UNCHANGED excused
  /\ UNCHANGED <<gh, commands, tripwire, pass, clean, bypass>>

-----------------------------------------------------------------------------
\* charlie tripwire ack, for any number the operator types

Ack(p) ==
  /\ acked' = acked \cup {p} /\ detected' = detected \ {p}
  /\ UNCHANGED <<gh, record, cmd, commands, baseline, pass, history>>

-----------------------------------------------------------------------------
\* A pass over the tripwire

Is(a, place) == pass[a].at = place
Goes(a, new) == pass' = [pass EXCEPT ![a] = new]
Rests(a) == Goes(a, Resting)

Begin(a) ==
  /\ Is(a, "idle") /\ Goes(a, [Resting EXCEPT !.at = "list"])
  /\ UNCHANGED <<gh, record, cmd, commands, tripwire, history>>

(* Mutant: with no issue ready dispatch fetches nothing, and its empty list *)
(* is taken for one without merges.                                         *)
ListOfDispatch(a) ==
  /\ Is(a, "list")
  /\ \E l \in {merged, {}} :
       Goes(a, [Resting EXCEPT !.at = "judge", !.todo = l])
  /\ UNCHANGED <<gh, record, cmd, commands, tripwire, history>>

\* The list dispatch fetched in this pass, or one of the tripwire's own.
List(a) ==
  /\ Is(a, "list") /\ Goes(a, [Resting EXCEPT !.at = "judge", !.todo = merged])
  /\ UNCHANGED <<gh, record, cmd, commands, tripwire, history>>

\* GitHub gives no list, or the pass has no time left: nothing is armed.
NoList(a) ==
  /\ Is(a, "list") /\ Rests(a)
  /\ UNCHANGED <<gh, record, cmd, commands, tripwire, history>>

\* One merge against the record it has now.  Whether it is a sync is asked of
\* GitHub only where that decides, and no answer counts as no.
Judge(a) ==
  \E p \in pass[a].todo :
    LET rest == pass[a].todo \ {p}
        Keep == Goes(a, [pass[a] EXCEPT !.todo = rest, !.found = @ \cup {p}])
        Pass == Goes(a, [pass[a] EXCEPT !.todo = rest])
    IN
    /\ Is(a, "judge")
    /\ \/ Covered(p) /\ Pass /\ UNCHANGED excused
       \/ ~Covered(p) /\ Keep /\ UNCHANGED excused
       \/ /\ QueueSynced(p) /\ ~Authorizes(p)
          /\ Keep /\ Excuse(p, TRUE)
    /\ UNCHANGED <<gh, record, cmd, commands, tripwire, authorized, clean, bypass>>

Judged(a) ==
  /\ Is(a, "judge") /\ pass[a].todo = {}
  /\ Goes(a, [pass[a] EXCEPT !.at = "bound"])
  /\ UNCHANGED <<gh, record, cmd, commands, tripwire, history>>

\* What is neither history nor acknowledged is reported, and then announced.
Report(a) ==
  LET new == (pass[a].found \ baseline.prs) \ acked IN
  IF new = {} THEN Rests(a)
              ELSE Goes(a, [Resting EXCEPT !.at = "announce", !.shown = new])

\* The first read of the state file is under a hold of its own.
Bound(a) ==
  /\ Is(a, "bound")
  /\ IF Armed THEN Report(a) ELSE Goes(a, [pass[a] EXCEPT !.at = "arm"])
  /\ UNCHANGED <<gh, record, cmd, commands, tripwire, history>>

(* Mutant: the baseline is every number up to the highest merged one. *)
ArmWatermark(a) ==
  /\ Is(a, "arm")
  /\ IF Armed
       THEN Report(a) /\ UNCHANGED baseline
       ELSE Rests(a) /\ baseline' = [armed |-> TRUE, prs |-> PRs]
  /\ UNCHANGED <<gh, record, cmd, commands, acked, detected, history>>

\* Arming looks again under the lock: a baseline written since wins.
Arm(a) ==
  /\ Is(a, "arm")
  /\ IF Armed
       THEN Report(a) /\ UNCHANGED baseline
       ELSE Rests(a) /\ baseline' = [armed |-> TRUE, prs |-> pass[a].found]
  /\ UNCHANGED <<gh, record, cmd, commands, acked, detected, history>>

Announce(a) ==
  /\ Is(a, "announce") /\ Rests(a)
  /\ detected' = detected \cup pass[a].shown
  /\ UNCHANGED <<gh, record, cmd, commands, baseline, acked, history>>

\* The state lock is busy or the file cannot be written: the finding is
\* reported, but not put on record, or the pass ends in an error.
Aborts(a) ==
  /\ pass[a].at \in {"bound", "arm", "announce"} /\ Rests(a)
  /\ UNCHANGED <<gh, record, cmd, commands, tripwire, history>>

-----------------------------------------------------------------------------
Looks(w) == \E p \in PRs : \/ LookVerdict(w, p) \/ LookPacket(w, p)
                           \/ LookCarry(w, p) \/ LookAuthorize(w, p)
WritesRecord(w) ==
  WriteVerdict(w) \/ WritePacket(w) \/ WriteCarry(w) \/ WriteAuthorize(w)

Step(a) ==
  \/ Begin(a) \/ List(a) \/ NoList(a) \/ Judge(a) \/ Judged(a)
  \/ Bound(a) \/ Arm(a) \/ Announce(a) \/ Aborts(a)

Next ==
  \/ \E p \in PRs : Push(p) \/ QueueSync(p) \/ MergeLands(p) \/ Ack(p)
  \/ \E w \in Writers : Looks(w) \/ WritesRecord(w)
  \/ \E a \in Passes : Step(a)

Spec == Init /\ [][Next]_vars

\* The supervisor starts pass after pass; what fails in one of them, a list, a
\* hold of the state lock, a write, does not fail in every one.  Nothing is
\* asked of the passes typed by hand, of GitHub, of writers or of the operator.
FairSpec ==
  /\ Spec
  /\ WF_vars(Begin("loop")) /\ WF_vars(Judge("loop")) /\ WF_vars(Judged("loop"))
  /\ SF_vars(List("loop")) /\ SF_vars(Bound("loop")) /\ SF_vars(Arm("loop"))
  /\ SF_vars(Announce("loop"))

-----------------------------------------------------------------------------
\* Properties

\* No false alarm.  A merge that was covered when it landed, by a verdict on
\* its head, by the queue's sync of such a head or by the operator's
\* authorization, is not reported, whatever is pushed, reviewed, carried over
\* or typed around it; the exceptions are those Excuse names.  In particular a
\* verdict, even one that arrives after the merge, leaves the operator's
\* authorization in force (state_record_review.py:602).
CleanMergesQuiet == \A a \in Passes : pass[a].shown \cap clean \subseteq excused

\* No missed alarm.  A merge that lands uncovered once the tripwire is armed is
\* announced, unless the operator has acknowledged it or a record written since
\* covers it: two passes arming at once, a list older than the merge, a pass
\* that failed and a queue with nothing to dispatch do not hide it for good
\* (reap_loop.py:247).
BypassAlarms ==
  \A p \in PRs :
    p \in bypass ~> (p \in detected \/ p \in acked \/ Covered(p))

\* What the comment in merge_authorize promises: the override names the head it
\* authorizes, and only a later head invalidates it, so a merge of that head is
\* never reported.  The packet builder drops the override.
AuthorizationStands ==
  \A a \in Passes : \A p \in pass[a].shown : authorized[p] # head[p]
=============================================================================
