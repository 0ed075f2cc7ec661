------------------------ MODULE MergeTripwireProofs ------------------------
(***************************************************************************)
(* What holds of MergeTripwire for any number of pull requests, passes,    *)
(* writers, heads and commands.                                            *)
(***************************************************************************)
EXTENDS MergeTripwire, TLAPS

Kinds == {"verdict", "packet", "carry", "authorize"}
PassState == [at : {"idle", "list", "judge", "bound", "arm", "announce"},
              todo : SUBSET merged, found : SUBSET merged, shown : SUBSET merged]

-----------------------------------------------------------------------------
(* Type correctness. *)

\* MergeTripwire starts well formed.
LEMMA TypeInit == Init => TypeOK
  BY MergeTripwireAssumption
  DEF Init, TypeOK, Heads, NoHead, NoRecord, Record, Unarmed, Resting

\* A writer that writes has looked.
LEMMA CommandFacts ==
  ASSUME TypeOK, NEW w \in Writers, NEW kind \in Kinds, Writes(w, kind)
  PROVE  /\ cmd[w].kind = kind /\ cmd[w].pr \in PRs /\ cmd[w].seen \in Heads
         /\ cmd[w].was \in Record
         /\ cmd' \in [Writers -> Command \cup {NoCommand}]
<1>1. cmd[w] \in Command \cup {NoCommand} /\ cmd[w].kind \in Kinds
  BY DEF TypeOK, Writes
<1>2. cmd[w] # NoCommand  BY <1>1 DEF NoCommand, Kinds
<1>3. cmd[w] \in Command  BY <1>1, <1>2
<1>4. QED  BY <1>3 DEF TypeOK, Writes, Command

\* Looking keeps the commands well formed.
LEMMA LookTypes ==
  ASSUME TypeOK, NEW w \in Writers, NEW kind \in Kinds, NEW p \in PRs, Look(w, kind, p)
  PROVE  TypeOK'
<1>1. [kind |-> kind, pr |-> p, seen |-> head[p], was |-> record[p]] \in Command
  BY DEF TypeOK, Command, Kinds
<1>2. cmd' \in [Writers -> Command \cup {NoCommand}]  BY <1>1 DEF Look, TypeOK
<1>3. commands' \in 0..MaxCommands  BY MergeTripwireAssumption DEF Look, TypeOK
<1>4. QED
  BY <1>2, <1>3 DEF Look, TypeOK, gh, tripwire, history

\* Whatever a pass does short of the state file keeps its place well formed.
LEMMA GoesTypes ==
  ASSUME TypeOK, NEW a \in Passes, NEW new \in PassState, Goes(a, new),
         UNCHANGED <<gh, record, cmd, commands, acked, authorized, clean, bypass>>,
         baseline' \in [armed : BOOLEAN, prs : SUBSET merged],
         detected' \subseteq merged, excused' \subseteq PRs
  PROVE  TypeOK'
  BY DEF TypeOK, Goes, PassState, gh

LEMMA RestingTypes == Resting \in PassState
  BY DEF Resting, PassState

\* Every step keeps the types.
LEMMA TypeNext == ASSUME TypeOK, [Next]_vars PROVE TypeOK'
<1>1. CASE UNCHANGED vars
  BY <1>1 DEF vars, gh, tripwire, history, TypeOK
<1>2. ASSUME NEW p \in PRs, Push(p) \/ QueueSync(p) PROVE TypeOK'
  <2>1. head' \in [PRs -> Heads] /\ synced' \subseteq PRs \X Heads
    BY <1>2, MergeTripwireAssumption DEF Push, QueueSync, TypeOK, Heads
  <2>2. QED
    BY <1>2, <2>1 DEF Push, QueueSync, TypeOK, tripwire, history
<1>3. ASSUME NEW p \in PRs, MergeLands(p) PROVE TypeOK'
  <2>1. merged' = merged \cup {p} /\ merged' \subseteq PRs  BY <1>3 DEF MergeLands, TypeOK
  <2>2. clean' \subseteq merged' /\ bypass' \subseteq merged'
    BY <1>3, <2>1 DEF MergeLands, TypeOK
  <2>3. pass' \in [Passes -> [at : {"idle", "list", "judge", "bound", "arm", "announce"},
                              todo : SUBSET merged', found : SUBSET merged',
                              shown : SUBSET merged']]
    BY <1>3, <2>1 DEF MergeLands, TypeOK
  <2>4. baseline' \in [armed : BOOLEAN, prs : SUBSET merged']
    BY <1>3, <2>1 DEF MergeLands, TypeOK, tripwire
  <2>5. QED
    BY <1>3, <2>1, <2>2, <2>3, <2>4 DEF MergeLands, TypeOK, tripwire
<1>4. ASSUME NEW p \in PRs, Ack(p) PROVE TypeOK'
  BY <1>4 DEF Ack, TypeOK, gh, history
<1>5. ASSUME NEW w \in Writers, Looks(w) PROVE TypeOK'
  BY <1>5, LookTypes
  DEF Looks, LookVerdict, LookPacket, LookCarry, LookAuthorize, Kinds
<1>6. ASSUME NEW w \in Writers, WritesRecord(w) PROVE TypeOK'
  <2> DEFINE p == cmd[w].pr
  <2>1. PICK kind \in Kinds : Writes(w, kind)
    BY <1>6 DEF WritesRecord, WriteVerdict, WritePacket, WriteCarry, WriteAuthorize, Kinds
  <2>2. /\ p \in PRs /\ cmd[w].seen \in Heads
        /\ cmd' \in [Writers -> Command \cup {NoCommand}]
    BY <2>1, CommandFacts
  <2>3. record[p] \in Record /\ record \in [PRs -> Record]  BY <2>2 DEF TypeOK
  <2>4. \/ record' = record
        \/ \E new \in Record : Put(p, new)
    <3>1. CASE WriteVerdict(w)
      BY <3>1, <2>2, <2>3 DEF WriteVerdict, Record, Terminal
    <3>2. CASE WritePacket(w)
      BY <3>2, <2>2, <2>3 DEF WritePacket, Record, NoHead
    <3>3. CASE WriteCarry(w)
      BY <3>3, <2>2, <2>3 DEF WriteCarry, Record
    <3>4. CASE WriteAuthorize(w)
      BY <3>4, <2>2, <2>3 DEF WriteAuthorize, Record
    <3>5. QED  BY <1>6, <3>1, <3>2, <3>3, <3>4 DEF WritesRecord
  <2>5. record' \in [PRs -> Record]  BY <2>2, <2>3, <2>4 DEF Put
  <2>6. excused' \subseteq PRs /\ authorized' \in [PRs -> Heads \cup {NoHead}]
    BY <1>6, <2>2 DEF WritesRecord, WriteVerdict, WritePacket, WriteCarry, WriteAuthorize,
      Excuse, TypeOK, history
  <2>7. UNCHANGED <<gh, commands, tripwire, pass, clean, bypass>>
    BY <1>6 DEF WritesRecord, WriteVerdict, WritePacket, WriteCarry, WriteAuthorize, history
  <2>8. QED  BY <2>2, <2>5, <2>6, <2>7 DEF TypeOK, gh, tripwire
<1>7. ASSUME NEW a \in Passes, Step(a) PROVE TypeOK'
  <2>1. pass[a] \in PassState  BY DEF TypeOK, PassState
  <2>2. CASE Begin(a) \/ List(a) \/ NoList(a) \/ Judged(a)
    <3>1. /\ [Resting EXCEPT !.at = "list"] \in PassState
          /\ [Resting EXCEPT !.at = "judge", !.todo = merged] \in PassState
          /\ [pass[a] EXCEPT !.at = "bound"] \in PassState
      BY <2>1 DEF PassState, Resting
    <3>2. QED
      BY <2>2, <3>1, RestingTypes, GoesTypes
      DEF Begin, List, NoList, Judged, Rests, tripwire, history, TypeOK
  <2>3. CASE Judge(a)
    <3>1. PICK p \in pass[a].todo :
             /\ \/ Goes(a, [pass[a] EXCEPT !.todo = pass[a].todo \ {p}])
                \/ Goes(a, [pass[a] EXCEPT !.todo = pass[a].todo \ {p},
                                           !.found = @ \cup {p}])
             /\ excused' = excused \/ excused' = excused \cup {p}
      BY <2>3 DEF Judge, Excuse
    <3>2. p \in merged /\ p \in PRs  BY <2>1, <3>1 DEF PassState, TypeOK
    <3>3. /\ [pass[a] EXCEPT !.todo = pass[a].todo \ {p}] \in PassState
          /\ [pass[a] EXCEPT !.todo = pass[a].todo \ {p}, !.found = @ \cup {p}]
               \in PassState
      BY <2>1, <3>2 DEF PassState
    <3>4. UNCHANGED <<gh, record, cmd, commands, tripwire, authorized, clean, bypass>>
      BY <2>3 DEF Judge
    <3>5. QED  BY <3>1, <3>2, <3>3, <3>4, GoesTypes DEF tripwire, TypeOK
  <2>4. ASSUME Report(a) \/ Rests(a),
               UNCHANGED <<gh, record, cmd, commands, acked, history>>,
               baseline' \in [armed : BOOLEAN, prs : SUBSET merged],
               detected' \subseteq merged
        PROVE  TypeOK'
    <3>1. [Resting EXCEPT !.at = "announce",
                          !.shown = (pass[a].found \ baseline.prs) \ acked] \in PassState
      BY <2>1 DEF PassState, Resting
    <3>2. QED
      BY <2>4, <3>1, RestingTypes, GoesTypes DEF Report, Rests, history, TypeOK
  <2>5. CASE Bound(a)
    <3>1. [pass[a] EXCEPT !.at = "arm"] \in PassState  BY <2>1 DEF PassState
    <3>2. QED
      BY <2>4, <2>5, <3>1, GoesTypes DEF Bound, tripwire, history, TypeOK
  <2>6. CASE Arm(a)
    <3>1. [armed |-> TRUE, prs |-> pass[a].found] \in [armed : BOOLEAN, prs : SUBSET merged]
      BY <2>1 DEF PassState
    <3>2. QED  BY <2>4, <2>6, <3>1 DEF Arm, history, TypeOK
  <2>7. CASE Announce(a) \/ Aborts(a)
    BY <2>1, <2>4, <2>7 DEF Announce, Aborts, tripwire, history, TypeOK, PassState
  <2>8. QED  BY <1>7, <2>2, <2>3, <2>5, <2>6, <2>7 DEF Step
<1>8. QED
  BY <1>1, <1>2, <1>3, <1>4, <1>5, <1>6, <1>7 DEF Next

\* MergeTripwire is type correct: what is announced or exempted has merged.
THEOREM Typing == Spec => []TypeOK
<1>1. Init => TypeOK  BY TypeInit
<1>2. TypeOK /\ [Next]_vars => TypeOK'  BY TypeNext
<1>3. QED  BY <1>1, <1>2, PTL DEF Spec

-----------------------------------------------------------------------------
(* No false alarm. *)

\* Nothing is reviewed, or seen by a command, ahead of the branch; a carry has
\* seen an approval of an older head than the one it takes it to.
Ordered ==
  /\ \A p \in PRs : record[p].reviewed <= head[p]
  /\ \A w \in Writers : cmd[w].kind \in Kinds =>
       /\ cmd[w].was.reviewed <= cmd[w].seen /\ cmd[w].seen <= head[cmd[w].pr]
       /\ cmd[w].kind = "carry" =>
            cmd[w].was.decision = "approved" /\ cmd[w].was.reviewed # cmd[w].seen

\* An open pull request's record holds what the operator last authorized.
Remembered == \A p \in PRs \ merged : p \in excused \/ authorized[p] = record[p].override

\* What merged covered stays covered.
StaysCovered == \A p \in clean \ excused : Covered(p)

\* No pass has it in hand.
Unfound == \A a \in Passes : (pass[a].found \cup pass[a].shown) \cap clean \subseteq excused

QuietInv == TypeOK /\ Ordered /\ Remembered /\ StaysCovered /\ Unfound

\* A pass leaves GitHub, the records and the commands alone.
LEMMA PassFrame ==
  ASSUME NEW a \in Passes, Step(a)
  PROVE  /\ UNCHANGED <<head, synced, merged, record, cmd, authorized, clean>>
         /\ excused \subseteq excused'
<1>1. CASE Judge(a)  BY <1>1 DEF Judge, Excuse, gh
<1>2. CASE ~Judge(a)
  BY <1>2 DEF Step, Begin, List, NoList, Judged, Bound, Arm, Announce, Aborts, gh, history
<1>3. QED  BY <1>1, <1>2

\* Everything else leaves the passes alone, and what becomes a clean merge has
\* just merged.
LEMMA OtherFrame ==
  ASSUME \/ \E p \in PRs : Push(p) \/ QueueSync(p) \/ MergeLands(p) \/ Ack(p)
         \/ \E w \in Writers : Looks(w) \/ WritesRecord(w)
  PROVE  pass' = pass /\ excused \subseteq excused' /\ clean' \cap merged \subseteq clean
<1>1. ASSUME NEW p \in PRs, Push(p) \/ QueueSync(p) \/ MergeLands(p) \/ Ack(p)
      PROVE  pass' = pass /\ excused \subseteq excused' /\ clean' \cap merged \subseteq clean
  BY <1>1 DEF Push, QueueSync, MergeLands, Ack, history
<1>2. ASSUME NEW w \in Writers, Looks(w)
      PROVE  pass' = pass /\ excused \subseteq excused' /\ clean' \cap merged \subseteq clean
  BY <1>2 DEF Looks, LookVerdict, LookPacket, LookCarry, LookAuthorize, Look, history
<1>3. ASSUME NEW w \in Writers, WritesRecord(w)
      PROVE  pass' = pass /\ excused \subseteq excused' /\ clean' \cap merged \subseteq clean
  BY <1>3 DEF WritesRecord, WriteVerdict, WritePacket, WriteCarry, WriteAuthorize, Excuse, history
<1>4. QED  BY <1>1, <1>2, <1>3

\* What a write does to a record, and whom it excuses.
LEMMA WriteFrame ==
  ASSUME TypeOK, NEW w \in Writers, WritesRecord(w)
  PROVE  /\ cmd[w].kind \in Kinds /\ cmd[w].pr \in PRs /\ cmd[w].seen \in Heads
         /\ cmd[w].was \in Record /\ cmd' = [cmd EXCEPT ![w] = NoCommand]
         /\ \A p \in PRs : p # cmd[w].pr =>
              record'[p] = record[p] /\ authorized'[p] = authorized[p]
         /\ UNCHANGED <<head, synced, merged, clean>>
<1>1. PICK kind \in Kinds : Writes(w, kind)
  BY DEF WritesRecord, WriteVerdict, WritePacket, WriteCarry, WriteAuthorize, Kinds
<1>2. /\ cmd[w].kind \in Kinds /\ cmd[w].pr \in PRs /\ cmd[w].seen \in Heads
      /\ cmd[w].was \in Record /\ cmd' = [cmd EXCEPT ![w] = NoCommand]
  BY <1>1, CommandFacts DEF Writes
<1>3. UNCHANGED <<head, synced, merged, clean>>
  BY DEF WritesRecord, WriteVerdict, WritePacket, WriteCarry, WriteAuthorize, gh, history
<1>4. \A p \in PRs : p # cmd[w].pr => record'[p] = record[p]
  BY <1>2 DEF WritesRecord, WriteVerdict, WritePacket, WriteCarry, WriteAuthorize, Put, TypeOK
<1>5. \A p \in PRs : p # cmd[w].pr => authorized'[p] = authorized[p]
  BY <1>2 DEF WritesRecord, WriteVerdict, WritePacket, WriteCarry, WriteAuthorize, TypeOK,
    history
<1>6. QED  BY <1>2, <1>3, <1>4, <1>5

\* Heads only grow, and a carry is begun only over an approval left behind.
LEMMA OrderedNext == ASSUME TypeOK, Ordered, [Next]_vars PROVE Ordered'
<1> USE MergeTripwireAssumption
<1>0. /\ head \in [PRs -> Heads] /\ record \in [PRs -> Record]
      /\ cmd \in [Writers -> Command \cup {NoCommand}]
  BY DEF TypeOK
<1>1. CASE UNCHANGED vars  BY <1>1 DEF vars, gh, Ordered
<1>2. ASSUME NEW q \in PRs, Push(q) \/ QueueSync(q) \/ MergeLands(q) \/ Ack(q)
      PROVE  Ordered'
  <2>1. record' = record /\ cmd' = cmd
    BY <1>2 DEF Push, QueueSync, MergeLands, Ack, gh
  <2>2. \A p \in PRs : head'[p] \in Nat /\ head[p] <= head'[p]
    BY <1>0, <1>2 DEF Push, QueueSync, MergeLands, Ack, gh, Heads
  <2>3. \A p \in PRs : record'[p].reviewed <= head'[p]
    BY <1>0, <2>1, <2>2 DEF Ordered, Record, Heads, NoHead
  <2>4. ASSUME NEW w \in Writers, cmd[w].kind \in Kinds PROVE cmd[w].seen <= head'[cmd[w].pr]
    <3>1. cmd[w] \in Command  BY <1>0, <2>4 DEF Kinds, NoCommand
    <3>2. cmd[w].pr \in PRs /\ cmd[w].seen \in Heads  BY <3>1 DEF Command
    <3>3. cmd[w].seen <= head[cmd[w].pr]  BY <2>4 DEF Ordered
    <3>4. QED  BY <1>0, <2>2, <3>2, <3>3 DEF Heads
  <2>5. QED  BY <2>1, <2>3, <2>4 DEF Ordered
<1>3. ASSUME NEW w \in Writers, Looks(w) PROVE Ordered'
  <2>1. PICK p \in PRs, kind \in Kinds :
          Look(w, kind, p) /\ (kind = "carry" => /\ record[p].decision = "approved"
                                                 /\ record[p].reviewed # head[p])
    BY <1>3 DEF Looks, LookVerdict, LookPacket, LookCarry, LookAuthorize, Kinds
  <2>2. record' = record /\ head' = head  BY <2>1 DEF Look, gh
  <2>3. cmd' = [cmd EXCEPT ![w] = [kind |-> kind, pr |-> p, seen |-> head[p],
                                   was |-> record[p]]]
    BY <2>1 DEF Look
  <2>4. head[p] <= head[p]  BY <1>0 DEF Heads
  <2>5. QED  BY <1>0, <2>1, <2>2, <2>3, <2>4 DEF Ordered
<1>4. ASSUME NEW w \in Writers, WritesRecord(w) PROVE Ordered'
  <2> DEFINE q == cmd[w].pr
  <2>1. /\ cmd[w].kind \in Kinds /\ q \in PRs /\ cmd' = [cmd EXCEPT ![w] = NoCommand]
        /\ head' = head
        /\ \A p \in PRs : p # q => record'[p] = record[p]
    BY <1>4, WriteFrame
  <2>2. record'[q].reviewed = record[q].reviewed \/ record'[q].reviewed = cmd[w].seen
    <3>1. CASE WriteVerdict(w)  BY <1>0, <2>1, <3>1 DEF WriteVerdict, Put
    <3>2. CASE WritePacket(w)  BY <1>0, <2>1, <3>2 DEF WritePacket, Put
    <3>3. CASE WriteCarry(w)  BY <1>0, <2>1, <3>3 DEF WriteCarry, Put, Record
    <3>4. CASE WriteAuthorize(w)  BY <1>0, <2>1, <3>4 DEF WriteAuthorize, Put, Record
    <3>5. QED  BY <1>4, <3>1, <3>2, <3>3, <3>4 DEF WritesRecord
  <2>3. record'[q].reviewed <= head[q]  BY <2>1, <2>2 DEF Ordered
  <2>4. NoCommand.kind \notin Kinds  BY DEF NoCommand, Kinds
  <2>5. QED  BY <1>0, <2>1, <2>3, <2>4 DEF Ordered
<1>5. ASSUME NEW a \in Passes, Step(a) PROVE Ordered'
  BY <1>5, PassFrame DEF Ordered
<1>6. QED  BY <1>1, <1>2, <1>3, <1>4, <1>5 DEF Next

\* Only a packet drops the override of an open pull request.
LEMMA RememberedNext == ASSUME TypeOK, Remembered, [Next]_vars PROVE Remembered'
<1>1. CASE UNCHANGED vars  BY <1>1 DEF vars, gh, history, Remembered
<1>2. ASSUME NEW q \in PRs, Push(q) \/ QueueSync(q) \/ MergeLands(q) \/ Ack(q)
      PROVE  Remembered'
  BY <1>2 DEF Push, QueueSync, MergeLands, Ack, gh, history, Remembered
<1>3. ASSUME NEW w \in Writers, Looks(w) PROVE Remembered'
  BY <1>3 DEF Looks, LookVerdict, LookPacket, LookCarry, LookAuthorize, Look, gh, history,
    Remembered
<1>4. ASSUME NEW w \in Writers, WritesRecord(w), NEW p \in PRs, p \notin merged
      PROVE  p \in excused' \/ authorized'[p] = record'[p].override
  <2> DEFINE q == cmd[w].pr
  <2>1. /\ q \in PRs /\ excused \subseteq excused' /\ cmd[w].seen \in Heads
        /\ p # q => record'[p] = record[p] /\ authorized'[p] = authorized[p]
    BY <1>4, WriteFrame, OtherFrame
  <2>2. p \in excused \/ authorized[p] = record[p].override  BY <1>4 DEF Remembered
  <2>3. record \in [PRs -> Record] /\ authorized \in [PRs -> Heads \cup {NoHead}]
    BY DEF TypeOK
  <2>4. CASE WriteVerdict(w)
    BY <2>1, <2>2, <2>3, <2>4 DEF WriteVerdict, Put
  <2>5. CASE WritePacket(w)
    BY <1>4, <2>1, <2>2, <2>3, <2>5 DEF WritePacket, Put, Excuse
  <2>6. CASE WriteCarry(w)
    BY <2>1, <2>2, <2>3, <2>6 DEF WriteCarry, Put, history, Record
  <2>7. CASE WriteAuthorize(w)
    BY <1>4, <2>1, <2>2, <2>3, <2>7 DEF WriteAuthorize, Put, Record
  <2>8. QED  BY <1>4, <2>4, <2>5, <2>6, <2>7 DEF WritesRecord
<1>5. ASSUME NEW a \in Passes, Step(a) PROVE Remembered'
  BY <1>5, PassFrame DEF Remembered
<1>6. ASSUME NEW w \in Writers, WritesRecord(w) PROVE Remembered'
  BY <1>4, <1>6, WriteFrame DEF Remembered
<1>7. QED  BY <1>1, <1>2, <1>3, <1>5, <1>6 DEF Next

\* A write on a merged pull request that uncovers it excuses it.
LEMMA WriteCovers ==
  ASSUME TypeOK, Ordered, NEW w \in Writers, WritesRecord(w), NEW q \in PRs,
         q = cmd[w].pr, q \in merged, Covered(q), q \notin excused'
  PROVE  Covered(q)'
<1>1. /\ cmd[w].seen \in Heads /\ cmd[w].was \in Record
      /\ cmd' = [cmd EXCEPT ![w] = NoCommand]
      /\ UNCHANGED <<head, synced>> /\ cmd[w].kind \in Kinds
  BY WriteFrame
<1>2. record \in [PRs -> Record] /\ head \in [PRs -> Heads]  BY DEF TypeOK
<1> DEFINE old == record[q]
           new == record'[q]
           h == head[q]
           Good(r) == \/ r.decision = "approved" /\ r.reviewed = h
                      \/ r.override = h
                      \/ /\ r.decision = "approved"
                         /\ <<q, h>> \in synced /\ r.reviewed = h - 1
<1>3. Good(old)  BY DEF Covered, ApprovedHead, Authorizes, QueueSynced
<1>4. Good(new) => Covered(q)'  BY <1>1 DEF Covered, ApprovedHead, Authorizes, QueueSynced
<1>5. CASE WriteVerdict(w)
  BY <1>1, <1>2, <1>5, <1>4 DEF WriteVerdict, Put, Excuse, Authorizes
<1>6. CASE WritePacket(w)
  <2>1. record' = record  BY <1>6 DEF WritePacket, Excuse
  <2>2. QED  BY <2>1, <1>3, <1>4
<1>7. CASE WriteCarry(w)
  <2>1. CASE record' = record  BY <2>1, <1>3, <1>4
  <2>2. CASE record' # record
    <3>1. /\ new = [old EXCEPT !.reviewed = cmd[w].seen]
          /\ old.decision = cmd[w].was.decision /\ old.reviewed = cmd[w].was.reviewed
          /\ cmd[w].kind = "carry"
      BY <1>1, <1>2, <1>7, <2>2 DEF WriteCarry, Put, Writes
    <3>2. /\ old.reviewed <= cmd[w].seen /\ cmd[w].seen <= h /\ old.reviewed # cmd[w].seen
          /\ old.decision = "approved"
      BY <1>1, <3>1 DEF Ordered
    <3>3. new.decision = old.decision /\ new.override = old.override
          /\ new.reviewed = cmd[w].seen
      BY <1>1, <1>2, <3>1 DEF Record
    <3>4. h \in Nat /\ cmd[w].seen \in Nat /\ old.reviewed \in Nat
      BY <1>1, <1>2 DEF Record, Heads, NoHead
    <3>5. old.reviewed # h  BY <3>2, <3>4
    <3>6. old.reviewed = h - 1 => new.reviewed = h  BY <3>2, <3>3, <3>4
    <3>7. Good(new)  BY <1>3, <3>2, <3>3, <3>5, <3>6
    <3>8. QED  BY <3>7, <1>4
  <2>3. QED  BY <2>1, <2>2
<1>8. CASE WriteAuthorize(w)
  <2>1. /\ new = [old EXCEPT !.override = cmd[w].seen] /\ ~(old.override = h /\ cmd[w].seen # h)
    BY <1>1, <1>2, <1>8 DEF WriteAuthorize, Put, Excuse, Authorizes
  <2>2. new.decision = old.decision /\ new.reviewed = old.reviewed
        /\ new.override = cmd[w].seen
    BY <1>1, <1>2, <2>1 DEF Record
  <2>3. QED  BY <1>3, <1>4, <2>1, <2>2
<1>9. QED  BY <1>5, <1>6, <1>7, <1>8 DEF WritesRecord

\* What merged covered stays covered, unless it is excused.
LEMMA StaysCoveredNext ==
  ASSUME TypeOK, Ordered, Remembered, StaysCovered, [Next]_vars
  PROVE  StaysCovered'
<1>0. record \in [PRs -> Record] /\ head \in [PRs -> Heads] /\ clean \subseteq merged
      /\ merged \subseteq PRs
  BY DEF TypeOK
<1>1. CASE UNCHANGED vars
  BY <1>1 DEF vars, gh, history, StaysCovered, Covered, ApprovedHead, Authorizes, QueueSynced
<1>2. ASSUME NEW q \in PRs, Push(q) \/ QueueSync(q), NEW p \in clean' \ excused'
      PROVE  Covered(p)'
  <2>1. p \in merged /\ p \in clean \ excused /\ record' = record /\ p # q
        /\ synced \subseteq synced'
    BY <1>0, <1>2 DEF Push, QueueSync, history
  <2>2. head'[p] = head[p]  BY <1>0, <1>2, <2>1 DEF Push, QueueSync
  <2>3. Covered(p)  BY <2>1 DEF StaysCovered
  <2>4. QED  BY <2>1, <2>2, <2>3 DEF Covered, ApprovedHead, Authorizes, QueueSynced
<1>3. ASSUME NEW q \in PRs, MergeLands(q), NEW p \in clean' \ excused'
      PROVE  Covered(p)'
  <2>1. UNCHANGED <<head, synced, record, authorized, excused>>  BY <1>3 DEF MergeLands
  <2>2. Covered(p) => Covered(p)'
    BY <2>1 DEF Covered, ApprovedHead, Authorizes, QueueSynced
  <2>3. CASE p \in clean  BY <2>1, <2>2, <2>3, <1>3 DEF StaysCovered
  <2>4. CASE p \notin clean
    <3>1. p = q /\ q \notin merged /\ (Covered(q) \/ authorized[q] = head[q])
      BY <1>3, <2>4 DEF MergeLands
    <3>2. authorized[q] = record[q].override  BY <1>3, <2>1, <3>1 DEF Remembered
    <3>3. Covered(p)  BY <3>1, <3>2 DEF Covered, Authorizes
    <3>4. QED  BY <2>2, <3>3
  <2>5. QED  BY <2>3, <2>4
<1>4. ASSUME NEW q \in PRs, Ack(q) PROVE StaysCovered'
  BY <1>4 DEF Ack, gh, history, StaysCovered, Covered, ApprovedHead, Authorizes, QueueSynced
<1>5. ASSUME NEW w \in Writers, Looks(w) PROVE StaysCovered'
  BY <1>5 DEF Looks, LookVerdict, LookPacket, LookCarry, LookAuthorize, Look, gh, history,
    StaysCovered, Covered, ApprovedHead, Authorizes, QueueSynced
<1>6. ASSUME NEW w \in Writers, WritesRecord(w), NEW p \in clean' \ excused'
      PROVE  Covered(p)'
  <2>1. UNCHANGED <<head, synced, merged, clean>> /\ excused \subseteq excused'
    BY <1>6, WriteFrame, OtherFrame
  <2>2. p \in clean \ excused /\ p \in merged /\ p \in PRs  BY <1>0, <1>6, <2>1
  <2>3. Covered(p)  BY <2>2 DEF StaysCovered
  <2>4. CASE p = cmd[w].pr  BY <1>6, <2>2, <2>3, <2>4, WriteCovers
  <2>5. CASE p # cmd[w].pr
    <3>1. record'[p] = record[p]  BY <1>6, <2>2, <2>5, WriteFrame
    <3>2. QED  BY <2>1, <2>3, <3>1 DEF Covered, ApprovedHead, Authorizes, QueueSynced
  <2>6. QED  BY <2>4, <2>5
<1>7. ASSUME NEW a \in Passes, Step(a) PROVE StaysCovered'
  BY <1>7, PassFrame DEF StaysCovered, Covered, ApprovedHead, Authorizes, QueueSynced
<1>8. QED  BY <1>1, <1>2, <1>3, <1>4, <1>5, <1>6, <1>7 DEF Next, StaysCovered

\* A pass takes into its hand only what is uncovered, or excused then and there.
LEMMA UnfoundNext ==
  ASSUME TypeOK, StaysCovered, Unfound, [Next]_vars PROVE Unfound'
<1>0. pass \in [Passes -> PassState]  BY DEF TypeOK, PassState
<1>1. CASE UNCHANGED vars  BY <1>1 DEF vars, history, Unfound
<1>2. CASE \/ \E p \in PRs : Push(p) \/ QueueSync(p) \/ MergeLands(p) \/ Ack(p)
           \/ \E w \in Writers : Looks(w) \/ WritesRecord(w)
  <2>1. pass' = pass /\ excused \subseteq excused' /\ clean' \cap merged \subseteq clean
    BY <1>2, OtherFrame
  <2>2. \A b \in Passes : pass[b].found \subseteq merged /\ pass[b].shown \subseteq merged
    BY <1>0 DEF PassState
  <2>3. QED  BY <2>1, <2>2 DEF Unfound
<1>3. ASSUME NEW a \in Passes, Step(a) PROVE Unfound'
  <2>1. clean' = clean /\ excused \subseteq excused'  BY <1>3, PassFrame
  <2>2. /\ \A b \in Passes \ {a} : pass'[b] = pass[b]
        /\ (pass'[a].found \cup pass'[a].shown) \cap clean \subseteq excused'
    <3>1. CASE Judge(a)
      <4>1. PICK p \in pass[a].todo :
              \/ Goes(a, [pass[a] EXCEPT !.todo = pass[a].todo \ {p}])
              \/ /\ Goes(a, [pass[a] EXCEPT !.todo = pass[a].todo \ {p},
                                            !.found = @ \cup {p}])
                 /\ ~Covered(p) \/ p \in excused'
        BY <3>1 DEF Judge, Excuse
      <4>2. p \in clean => p \in excused'
              \/ Goes(a, [pass[a] EXCEPT !.todo = pass[a].todo \ {p}])
        BY <4>1, <2>1 DEF StaysCovered
      <4>3. (pass[a].found \cup pass[a].shown) \cap clean \subseteq excused'
        BY <2>1 DEF Unfound
      <4>4. \/ pass' = [pass EXCEPT ![a] = [pass[a] EXCEPT !.todo = pass[a].todo \ {p}]]
            \/ /\ pass' = [pass EXCEPT ![a] = [pass[a] EXCEPT !.todo = pass[a].todo \ {p},
                                                              !.found = @ \cup {p}]]
               /\ p \in clean => p \in excused'
        BY <4>1, <4>2, <2>1 DEF Goes, StaysCovered
      <4>5. /\ \A b \in Passes \ {a} : pass'[b] = pass[b]
            /\ pass'[a].shown = pass[a].shown
            /\ \/ pass'[a].found = pass[a].found
               \/ /\ pass'[a].found = pass[a].found \cup {p}
                  /\ p \in clean => p \in excused'
        <5> DEFINE judged == [pass[a] EXCEPT !.todo = pass[a].todo \ {p}]
                   kept == [pass[a] EXCEPT !.todo = pass[a].todo \ {p},
                                           !.found = @ \cup {p}]
        <5>1. /\ judged.shown = pass[a].shown /\ judged.found = pass[a].found
              /\ kept.shown = pass[a].shown /\ kept.found = pass[a].found \cup {p}
          <6>1. pass[a] \in PassState  BY <1>0
          <6>2. QED  BY <6>1 DEF PassState
        <5>2. \A b \in Passes \ {a} : pass'[b] = pass[b]  BY <1>0, <4>4
        <5>3. \/ pass'[a] = judged
              \/ pass'[a] = kept /\ (p \in clean => p \in excused')
          <6> HIDE DEF judged, kept
          <6>1. \/ pass' = [pass EXCEPT ![a] = judged]
                \/ /\ pass' = [pass EXCEPT ![a] = kept]
                   /\ p \in clean => p \in excused'
            BY <4>4 DEF judged, kept
          <6>2. QED  BY <1>0, <6>1
        <5>4. QED  BY <5>1, <5>2, <5>3
      <4>6. QED  BY <4>3, <4>5
    <3>2. ASSUME NEW new, Goes(a, new),
                 new.found \cup new.shown \subseteq pass[a].found \cup pass[a].shown
          PROVE  /\ \A b \in Passes \ {a} : pass'[b] = pass[b]
                 /\ (pass'[a].found \cup pass'[a].shown) \cap clean \subseteq excused'
      <4>1. pass'[a] = new /\ \A b \in Passes \ {a} : pass'[b] = pass[b]
        BY <1>0, <3>2 DEF Goes
      <4>2. QED  BY <4>1, <3>2, <2>1 DEF Unfound
    <3>3. CASE Begin(a) \/ List(a) \/ NoList(a) \/ Announce(a) \/ Aborts(a)
      <4>1. /\ Resting.found \cup Resting.shown = {}
            /\ \A f \in {[Resting EXCEPT !.at = "list"],
                         [Resting EXCEPT !.at = "judge", !.todo = merged]} :
                 f.found \cup f.shown = {}
        BY DEF Resting
      <4>2. PICK f \in {Resting, [Resting EXCEPT !.at = "list"],
                        [Resting EXCEPT !.at = "judge", !.todo = merged]} : Goes(a, f)
        BY <3>3 DEF Begin, List, NoList, Announce, Aborts, Rests
      <4>3. f.found \cup f.shown \subseteq pass[a].found \cup pass[a].shown  BY <4>1
      <4>4. QED  BY <3>2, <4>2, <4>3
    <3>4. CASE Rests(a) \/ Report(a)
      <4> DEFINE reported == [Resting EXCEPT !.at = "announce",
                                !.shown = (pass[a].found \ baseline.prs) \ acked]
      <4>1. /\ Resting.found \cup Resting.shown = {}
            /\ reported.found \cup reported.shown \subseteq pass[a].found
        BY DEF Resting
      <4>2. PICK f \in {Resting, reported} : Goes(a, f)
        BY <3>4 DEF Report, Rests
      <4>3. f.found \cup f.shown \subseteq pass[a].found \cup pass[a].shown  BY <4>1, <4>2
      <4>4. QED  BY <3>2, <4>2, <4>3
    <3>5. ASSUME NEW place,
                 Goes(a, [pass[a] EXCEPT !.at = place])
          PROVE  /\ \A b \in Passes \ {a} : pass'[b] = pass[b]
                 /\ (pass'[a].found \cup pass'[a].shown) \cap clean \subseteq excused'
      <4>1. pass[a] \in PassState  BY <1>0
      <4>2. [pass[a] EXCEPT !.at = place].found = pass[a].found
            /\ [pass[a] EXCEPT !.at = place].shown = pass[a].shown
        BY <4>1 DEF PassState
      <4>3. QED  BY <4>2, <3>2, <3>5
    <3>6. CASE Judged(a) \/ Bound(a) \/ Arm(a)
      BY <3>4, <3>5, <3>6 DEF Judged, Bound, Arm
    <3>7. QED  BY <1>3, <3>1, <3>3, <3>6 DEF Step
  <2>3. QED  BY <2>1, <2>2 DEF Unfound
<1>4. QED  BY <1>1, <1>2, <1>3 DEF Next

\* No false alarm: for any number of pull requests, passes and commands, with
\* merges, pushes and queue syncs between a command's look and its write, what
\* a pass reports of the merges covered when they landed has been excused, and
\* no verdict or carried approval takes the cover away (state_record_review.py:602).
THEOREM CleanMergesQuietHolds == Spec => []CleanMergesQuiet
<1>1. Init => QuietInv
  <2>1. Init => Ordered
    BY MergeTripwireAssumption
    DEF Init, Ordered, NoRecord, NoHead, NoCommand, Kinds
  <2>2. Init => Remembered /\ StaysCovered /\ Unfound
    BY DEF Init, Remembered, StaysCovered, Unfound, NoRecord
  <2>3. QED  BY <2>1, <2>2, TypeInit DEF QuietInv
<1>2. QuietInv /\ [Next]_vars => QuietInv'
  BY TypeNext, OrderedNext, RememberedNext, StaysCoveredNext, UnfoundNext DEF QuietInv
<1>3. QuietInv => CleanMergesQuiet  BY DEF QuietInv, Unfound, CleanMergesQuiet
<1>4. QED  BY <1>1, <1>2, <1>3, PTL DEF Spec

-----------------------------------------------------------------------------
(* No missed alarm: what BypassAlarms needs besides fairness. *)

\* What a pass has still to judge, has found, or is about to announce.
Hand(a) == pass[a].todo \cup pass[a].found \cup pass[a].shown

\* No merge that bypassed the armed tripwire is exempt as history, however many
\* passes arm at once and however old the list they arm from.
BypassNeverHistory == bypass \cap baseline.prs = {}

\* An alarm is not lost on its way: a pass that has such a merge in hand keeps it
\* until it is announced, unless the pass fails, the operator acknowledges the
\* merge or a record covers it; and only the operator takes an announcement back.
AlarmCarried ==
  [][\A p \in bypass :
       /\ \A a \in Passes : p \in Hand(a) =>
            \/ p \in Hand(a)' \/ p \in detected'
            \/ p \in acked \/ Covered(p) \/ Aborts(a)
       /\ p \in detected => p \in detected' \/ p \in acked']_vars

\* Where a pass is, it has no more in hand than it needs there.
Stowed ==
  \A a \in Passes :
    /\ pass[a].at \in {"idle", "list"} => pass[a].todo = {} /\ pass[a].found = {}
    /\ pass[a].at \in {"bound", "arm", "announce"} => pass[a].todo = {}
    /\ pass[a].at = "announce" => pass[a].found = {}
    /\ pass[a].at # "announce" => pass[a].shown = {}

ArmedFirst == bypass # {} => Armed

AlarmInv == TypeOK /\ Stowed /\ ArmedFirst /\ BypassNeverHistory

\* A pass that goes on is there with what it took along, and no other pass moves.
LEMMA GoesEffect ==
  ASSUME TypeOK, NEW a \in Passes, NEW new, Goes(a, new)
  PROVE  pass'[a] = new /\ \A b \in Passes \ {a} : pass'[b] = pass[b]
  BY DEF Goes, TypeOK

\* A pass that keeps judging puts one merge aside, or takes it along.
LEMMA JudgeEffect ==
  ASSUME TypeOK, NEW a \in Passes, Judge(a)
  PROVE  /\ pass[a].at = "judge" /\ pass'[a].at = "judge"
         /\ pass'[a].shown = pass[a].shown
         /\ \E p \in pass[a].todo :
              /\ pass'[a].todo = pass[a].todo \ {p}
              /\ \/ pass'[a].found = pass[a].found \cup {p}
                 \/ pass'[a].found = pass[a].found /\ Covered(p)
         /\ \A b \in Passes \ {a} : pass'[b] = pass[b]
<1>1. pass[a] \in PassState  BY DEF TypeOK, PassState
<1>2. PICK p \in pass[a].todo :
        \/ Covered(p) /\ Goes(a, [pass[a] EXCEPT !.todo = pass[a].todo \ {p}])
        \/ Goes(a, [pass[a] EXCEPT !.todo = pass[a].todo \ {p}, !.found = @ \cup {p}])
  BY Zenon DEF Judge
<1> DEFINE put == [pass[a] EXCEPT !.todo = pass[a].todo \ {p}]
           kept == [pass[a] EXCEPT !.todo = pass[a].todo \ {p}, !.found = @ \cup {p}]
<1>3. /\ put.at = pass[a].at /\ put.shown = pass[a].shown /\ put.found = pass[a].found
      /\ put.todo = pass[a].todo \ {p}
      /\ kept.at = pass[a].at /\ kept.shown = pass[a].shown
      /\ kept.found = pass[a].found \cup {p} /\ kept.todo = pass[a].todo \ {p}
  BY <1>1 DEF PassState
<1>4. pass[a].at = "judge"  BY DEF Judge, Is
<1> HIDE DEF put, kept
<1>5. /\ \/ pass'[a] = put /\ Covered(p)
         \/ pass'[a] = kept
      /\ \A b \in Passes \ {a} : pass'[b] = pass[b]
  BY <1>2, GoesEffect DEF put, kept
<1>6. QED  BY <1>3, <1>4, <1>5

\* A pass that reads an armed baseline reports.
Reports(a) == (Bound(a) \/ Arm(a)) /\ Armed

\* A report takes along what is neither history nor acknowledged.
LEMMA ReportEffect ==
  ASSUME TypeOK, NEW a \in Passes, Reports(a)
  PROVE  /\ pass[a].at \in {"bound", "arm"}
         /\ pass'[a].todo = {} /\ pass'[a].found = {}
         /\ \/ /\ pass'[a].at = "idle" /\ pass'[a].shown = {}
               /\ pass[a].found \subseteq baseline.prs \cup acked
            \/ /\ pass'[a].at = "announce"
               /\ pass'[a].shown = (pass[a].found \ baseline.prs) \ acked
         /\ \A b \in Passes \ {a} : pass'[b] = pass[b]
<1> DEFINE new == (pass[a].found \ baseline.prs) \ acked
           reported == [Resting EXCEPT !.at = "announce", !.shown = new]
<1>1. /\ reported.at = "announce" /\ reported.todo = {} /\ reported.found = {}
      /\ reported.shown = new
      /\ Resting.at = "idle" /\ Resting.todo = {} /\ Resting.found = {} /\ Resting.shown = {}
  BY DEF Resting
<1>2. \/ Goes(a, Resting) /\ new = {}
      \/ Goes(a, reported)
  BY DEF Reports, Bound, Arm, Report, Rests
<1> HIDE DEF reported
<1>3. /\ \/ pass'[a] = Resting /\ new = {}
         \/ pass'[a] = reported
      /\ \A b \in Passes \ {a} : pass'[b] = pass[b]
  BY <1>2, GoesEffect
<1>4. pass[a].at \in {"bound", "arm"}  BY DEF Reports, Bound, Arm, Is
<1>5. QED  BY <1>1, <1>3, <1>4

\* Every other step of a pass moves it on with what it has, or ends it.
LEMMA MoveEffect ==
  ASSUME TypeOK, NEW a \in Passes, Step(a), ~Judge(a), ~Reports(a)
  PROVE  /\ \/ /\ pass[a].at = "idle" /\ pass'[a].at = "list"
               /\ pass'[a].todo = {} /\ pass'[a].found = {} /\ pass'[a].shown = {}
            \/ /\ pass[a].at = "list" /\ pass'[a].at = "judge"
               /\ pass'[a].found = {} /\ pass'[a].shown = {}
            \/ /\ <<pass[a].at, pass'[a].at>> \in {<<"judge", "bound">>, <<"bound", "arm">>}
               /\ pass[a].at = "judge" => pass[a].todo = {}
               /\ pass'[a].todo = pass[a].todo /\ pass'[a].found = pass[a].found
               /\ pass'[a].shown = pass[a].shown
            \/ /\ \/ pass[a].at = "list" \/ Aborts(a)
                  \/ pass[a].at = "arm" /\ ~Armed
                  \/ Announce(a)
               /\ pass'[a].at = "idle"
               /\ pass'[a].todo = {} /\ pass'[a].found = {} /\ pass'[a].shown = {}
         /\ \A b \in Passes \ {a} : pass'[b] = pass[b]
<1> DEFINE listing == [Resting EXCEPT !.at = "list"]
           judging == [Resting EXCEPT !.at = "judge", !.todo = merged]
           bound == [pass[a] EXCEPT !.at = "bound"]
           arming == [pass[a] EXCEPT !.at = "arm"]
<1>1. pass[a] \in PassState  BY DEF TypeOK, PassState
<1>2. /\ Resting.at = "idle" /\ Resting.todo = {} /\ Resting.found = {} /\ Resting.shown = {}
      /\ listing.at = "list" /\ listing.todo = {} /\ listing.found = {} /\ listing.shown = {}
      /\ judging.at = "judge" /\ judging.found = {} /\ judging.shown = {}
  BY DEF Resting
<1>3. /\ bound.at = "bound" /\ bound.todo = pass[a].todo /\ bound.found = pass[a].found
      /\ bound.shown = pass[a].shown
      /\ arming.at = "arm" /\ arming.todo = pass[a].todo /\ arming.found = pass[a].found
      /\ arming.shown = pass[a].shown
  BY <1>1 DEF PassState
<1>4. \/ pass[a].at = "idle" /\ Goes(a, listing)
      \/ pass[a].at = "list" /\ Goes(a, judging)
      \/ pass[a].at = "judge" /\ pass[a].todo = {} /\ Goes(a, bound)
      \/ pass[a].at = "bound" /\ Goes(a, arming)
      \/ /\ \/ pass[a].at = "list" \/ Aborts(a)
            \/ pass[a].at = "arm" /\ ~Armed
            \/ Announce(a)
         /\ Goes(a, Resting)
  BY DEF Step, Begin, List, NoList, Judged, Reports, Bound, Arm, Announce, Aborts, Rests, Is
<1> HIDE DEF listing, judging, bound, arming
<1>5. QED  BY <1>2, <1>3, <1>4, GoesEffect

\* The places keep what they may hold.
LEMMA StowedNext == ASSUME TypeOK, Stowed, [Next]_vars PROVE Stowed'
<1>1. CASE UNCHANGED vars  BY <1>1 DEF vars, Stowed
<1>2. CASE \/ \E p \in PRs : Push(p) \/ QueueSync(p) \/ MergeLands(p) \/ Ack(p)
           \/ \E w \in Writers : Looks(w) \/ WritesRecord(w)
  BY <1>2, OtherFrame DEF Stowed
<1>3. ASSUME NEW a \in Passes, Step(a) PROVE Stowed'
  <2>1. CASE Judge(a)  BY <2>1, JudgeEffect DEF Stowed
  <2>2. CASE Reports(a)  BY <2>2, ReportEffect DEF Stowed
  <2>3. CASE ~Judge(a) /\ ~Reports(a)  BY <1>3, <2>3, MoveEffect DEF Stowed
  <2>4. QED  BY <2>1, <2>2, <2>3
<1>4. QED  BY <1>1, <1>2, <1>3 DEF Next

\* Only a merge makes a bypass, only the first arming writes the baseline.
LEMMA BaselineEffect ==
  ASSUME TypeOK, [Next]_vars
  PROVE  /\ \/ bypass' = bypass
            \/ /\ Armed /\ baseline' = baseline
               /\ \E p \in PRs \ merged : bypass' = bypass \cup {p}
         /\ \/ baseline' = baseline
            \/ ~Armed /\ baseline'.armed
<1>1. ASSUME NEW p \in PRs, Push(p) \/ QueueSync(p) \/ MergeLands(p) \/ Ack(p)
      PROVE  /\ baseline' = baseline
             /\ bypass' = bypass \/ (Armed /\ p \notin merged /\ bypass' = bypass \cup {p})
  <2>1. CASE Push(p) \/ QueueSync(p) \/ Ack(p)
    BY <2>1 DEF Push, QueueSync, Ack, tripwire, history
  <2>2. CASE MergeLands(p)  BY <2>2 DEF MergeLands, tripwire
  <2>3. QED  BY <1>1, <2>1, <2>2
<1>2. ASSUME NEW w \in Writers, Looks(w) \/ WritesRecord(w)
      PROVE  bypass' = bypass /\ baseline' = baseline
  BY <1>2 DEF Looks, LookVerdict, LookPacket, LookCarry, LookAuthorize, Look, WritesRecord,
    WriteVerdict, WritePacket, WriteCarry, WriteAuthorize, tripwire, history
<1>3. ASSUME NEW a \in Passes, Step(a)
      PROVE  bypass' = bypass /\ (baseline' = baseline \/ (~Armed /\ baseline'.armed))
  <2>1. CASE Arm(a)
    <3>1. Armed => baseline' = baseline  BY <2>1 DEF Arm
    <3>2. ~Armed => baseline' = [armed |-> TRUE, prs |-> pass[a].found]  BY <2>1 DEF Arm
    <3>3. bypass' = bypass  BY <2>1 DEF Arm, history
    <3>4. QED  BY <3>1, <3>2, <3>3
  <2>2. CASE ~Arm(a)
    <3>1. CASE Judge(a)  BY <3>1 DEF Judge, tripwire
    <3>2. CASE ~Judge(a)
      BY <1>3, <2>2, <3>2
      DEF Step, Begin, List, NoList, Judged, Bound, Announce, Aborts, tripwire, history
    <3>3. QED  BY <3>1, <3>2
  <2>3. QED  BY <2>1, <2>2
<1>4. CASE UNCHANGED vars  BY <1>4 DEF vars, tripwire, history
<1>5. QED  BY <1>1, <1>2, <1>3, <1>4 DEF Next

\* A merge the tripwire missed when armed was open when it armed.
LEMMA HistoryNext ==
  ASSUME TypeOK, ArmedFirst, BypassNeverHistory, [Next]_vars
  PROVE  ArmedFirst' /\ BypassNeverHistory'
<1>1. baseline.prs \subseteq merged  BY DEF TypeOK
<1>2. QED  BY <1>1, BaselineEffect DEF ArmedFirst, BypassNeverHistory, Armed

LEMMA AlarmInvariance == Spec => []AlarmInv
<1>1. Init => AlarmInv
  <2>1. Init => Stowed /\ ArmedFirst /\ BypassNeverHistory
    BY DEF Init, Stowed, ArmedFirst, BypassNeverHistory, Resting
  <2>2. QED  BY <2>1, TypeInit DEF AlarmInv
<1>2. AlarmInv /\ [Next]_vars => AlarmInv'
  BY TypeNext, StowedNext, HistoryNext DEF AlarmInv
<1>3. QED  BY <1>1, <1>2, PTL DEF Spec

\* Arming twice, or from a list older than a merge, exempts no merge that landed
\* uncovered with the tripwire armed (state_unauthorized_merge.py:67).
THEOREM BypassNeverHistoryHolds == Spec => []BypassNeverHistory
<1>1. AlarmInv => BypassNeverHistory  BY DEF AlarmInv
<1>2. QED  BY <1>1, AlarmInvariance, PTL

\* What a step does to a merge a pass has in hand, and to its announcement.
LEMMA CarriedStep ==
  ASSUME AlarmInv, [Next]_vars, NEW p \in bypass
  PROVE  /\ \A a \in Passes : p \in Hand(a) =>
              \/ p \in Hand(a)' \/ p \in detected'
              \/ p \in acked \/ Covered(p) \/ Aborts(a)
         /\ p \in detected => p \in detected' \/ p \in acked'
<1> USE DEF AlarmInv
<1>1. Armed /\ p \notin baseline.prs  BY DEF ArmedFirst, BypassNeverHistory
<1>2. p \in detected => p \in detected' \/ p \in acked'
  <2>1. ASSUME NEW q \in PRs, Push(q) \/ QueueSync(q) \/ MergeLands(q) \/ Ack(q)
        PROVE  detected' = detected \/ detected \ detected' \subseteq acked'
    BY <2>1 DEF Push, QueueSync, MergeLands, Ack, tripwire
  <2>2. ASSUME NEW w \in Writers, Looks(w) \/ WritesRecord(w) PROVE detected' = detected
    BY <2>2 DEF Looks, LookVerdict, LookPacket, LookCarry, LookAuthorize, Look, WritesRecord,
      WriteVerdict, WritePacket, WriteCarry, WriteAuthorize, tripwire
  <2>3. ASSUME NEW a \in Passes, Step(a) PROVE detected \subseteq detected'
    <3>1. CASE Judge(a)  BY <3>1 DEF Judge, tripwire
    <3>2. CASE ~Judge(a)
      BY <2>3, <3>2
      DEF Step, Begin, List, NoList, Judged, Bound, Arm, Announce, Aborts, tripwire
    <3>3. QED  BY <3>1, <3>2
  <2>4. CASE UNCHANGED vars  BY <2>4 DEF vars, tripwire
  <2>5. QED  BY <2>1, <2>2, <2>3, <2>4 DEF Next
<1>3. ASSUME NEW a \in Passes, p \in Hand(a)
      PROVE  \/ p \in Hand(a)' \/ p \in detected'
             \/ p \in acked \/ Covered(p) \/ Aborts(a)
  <2>1. CASE pass'[a] = pass[a]  BY <1>3, <2>1 DEF Hand
  <2>2. CASE Step(a)
    <3>1. CASE Judge(a)  BY <1>3, <3>1, JudgeEffect DEF Hand
    <3>2. CASE Reports(a)
      <4>1. pass[a].at \in {"bound", "arm"}
        BY <3>2, ReportEffect
      <4>2. p \in pass[a].found  BY <1>3, <4>1 DEF Hand, Stowed
      <4>3. QED  BY <1>1, <3>2, <4>2, ReportEffect DEF Hand
    <3>3. CASE ~Judge(a) /\ ~Reports(a)
      <4>1. pass[a].at \notin {"idle", "list"}  BY <1>3 DEF Hand, Stowed
      <4>2. Announce(a) => p \in detected'
        BY <1>3 DEF Announce, Is, Hand, Stowed
      <4>3. QED  BY <1>1, <1>3, <2>2, <3>3, <4>1, <4>2, MoveEffect DEF Hand
    <3>4. QED  BY <3>1, <3>2, <3>3
  <2>3. CASE \E b \in Passes \ {a} : Step(b)
    <3>1. PICK b \in Passes \ {a} : Step(b)  BY <2>3
    <3>2. pass'[a] = pass[a]
      BY <3>1, JudgeEffect, ReportEffect, MoveEffect
    <3>3. QED  BY <2>1, <3>2
  <2>4. QED  BY <2>1, <2>2, <2>3, OtherFrame DEF Next, vars
<1>4. QED  BY <1>2, <1>3

\* No missed alarm, short of fairness: from the list that shows it to the record of
\* the announcement no interleaving of passes, armings and commands drops a merge
\* that bypassed the armed tripwire (reap_loop.py:247).
THEOREM AlarmCarriedHolds == Spec => AlarmCarried
<1> DEFINE Carried == \A p \in bypass :
             /\ \A a \in Passes : p \in Hand(a) =>
                  \/ p \in Hand(a)' \/ p \in detected'
                  \/ p \in acked \/ Covered(p) \/ Aborts(a)
             /\ p \in detected => p \in detected' \/ p \in acked'
<1>1. AlarmInv /\ [Next]_vars => [Carried]_vars  BY CarriedStep
<1>2. Spec => [][Carried]_vars  BY <1>1, AlarmInvariance, PTL DEF Spec
<1>3. QED  BY <1>2 DEF AlarmCarried
=============================================================================
