------------------------------- MODULE Evidence -------------------------------
(***************************************************************************)
(* The evidence ledger and the engine's half of the finding validator      *)
(* (checks V1-V4), packetsage-protocol/src/evidence.rs.                    *)
(*                                                                         *)
(* A ledger maps anchors (the tc ids) to entries [task, method, refs,      *)
(* numbers]: refs are the entities a finding may name through the anchor,  *)
(* numbers the values by field.  A draft is [title, basis, evidence,       *)
(* claims]: evidence a sequence of [anchor, ref] with ref or None, claims  *)
(* a set of [anchor, field, value].  Severity, summaries and times are     *)
(* left out; `title` stands for the wording of a draft.                    *)
(***************************************************************************)
EXTENDS Integers, Sequences, FiniteSets, TLC, Optional

EmptyLedger == <<>>

Issue(ledger, anchor, entry) ==
  [a \in DOMAIN ledger \cup {anchor} |-> IF a = anchor THEN entry ELSE ledger[a]]

IsIssued(ledger, anchor) == anchor \in DOMAIN ledger

\* V1: a finding cites something.
CitesEvidence(draft) == draft.evidence # <<>>

\* V2: every cited anchor was issued, to this task.
CitesIssued(draft, ledger, task) ==
  \A i \in DOMAIN draft.evidence :
    LET a == draft.evidence[i].anchor IN IsIssued(ledger, a) /\ ledger[a].task = task

\* V3: every cited entity is reachable through its anchor.
CitesReachable(draft, ledger) ==
  \A i \in DOMAIN draft.evidence :
    LET e == draft.evidence[i]
    IN  IsIssued(ledger, e.anchor) /\ e.ref # None => e.ref \in ledger[e.anchor].refs

\* V4: every claimed number is the ledger's.
ClaimsHold(draft, ledger) ==
  \A c \in draft.claims :
    /\ IsIssued(ledger, c.anchor) /\ c.field \in DOMAIN ledger[c.anchor].numbers
    /\ ledger[c.anchor].numbers[c.field] = c.value

\* Regression: the entities a draft names are not looked up.
ValidateWithoutV3(draft, ledger, task) ==
  IF ~ (CitesEvidence(draft) /\ CitesIssued(draft, ledger, task))
  THEN [status |-> "rejected", basis |-> draft.basis]
  ELSE IF ClaimsHold(draft, ledger) THEN [status |-> "accepted", basis |-> draft.basis]
  ELSE [status |-> "downgraded", basis |-> "hypothesis"]

\* validate_finding_v1_v4: V1-V3 reject, V4 turns the finding into a hypothesis.
Validate(draft, ledger, task) ==
  IF ~ (CitesEvidence(draft) /\ CitesIssued(draft, ledger, task) /\ CitesReachable(draft, ledger))
  THEN [status |-> "rejected", basis |-> draft.basis]
  ELSE IF ClaimsHold(draft, ledger) THEN [status |-> "accepted", basis |-> draft.basis]
  ELSE [status |-> "downgraded", basis |-> "hypothesis"]

\* Citations of anchors nobody issued, which submit_finding counts by itself.
UnknownAnchors(draft, ledger) ==
  {i \in DOMAIN draft.evidence : ~ IsIssued(ledger, draft.evidence[i].anchor)}
=============================================================================
