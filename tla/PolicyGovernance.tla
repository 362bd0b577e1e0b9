-------------------------- MODULE PolicyGovernance --------------------------
(***************************************************************************)
(* The threshold policies' governance (policy/registry.py, approvals.py),  *)
(* the model registry (models/registry.py) and the CLI commands over them. *)
(* Each command is a process of its own that reads a JSON file whole,      *)
(* changes what it read and writes the file whole; there is no lock, and   *)
(* write_text first truncates.  Nothing a command does when it only fails  *)
(* or prints changes a file: those outcomes are not actions.               *)
(***************************************************************************)
EXTENDS Naturals, FiniteSets, Sequences

CONSTANTS
  Commands,           \* operators' shells, one command at a time each
  Texts,              \* contents of policy files; a text stands for its SHA-256 too
  Versions,           \* the policies' version fields
  VersionOf,          \* [Texts -> Versions]
  Approvers,
  RequiredApprovals,  \* policy_promote_approved's required_approvals
  Models,             \* model versions
  MaxCommands         \* bound: commands started

ASSUME GovernanceAssumption ==
  /\ VersionOf \in [Texts -> Versions]
  /\ IsFiniteSet(Approvers)
  /\ RequiredApprovals \in Nat \ {0}
  /\ MaxCommands \in Nat

PolicyStatus == {"candidate", "active", "disabled"}
ModelStatus == {"candidate", "shadow", "active", "disabled"}

RegisteredPolicy == [version : Versions, text : Texts, status : PolicyStatus]
RegisteredModel == [version : Models, status : ModelStatus]
PolicyApproval == [text : Texts, approver : Approvers]

Files == {"registry", "approvals", "active", "models"}
Whole(items) == [state |-> "whole", items |-> items]
Truncated == [state |-> "truncated", items |-> {}]
Torn == [state |-> "torn", items |-> {}]
Absent == [state |-> "absent", items |-> {}]

VARIABLES
  file,      \* the JSON files; "active" is the policy file the API loads
  pc,        \* where each command is
  todo,      \* the files the command still has to write, in order
  held,      \* what it will write into each of them
  version,   \* the policy version the command is about
  checked,   \* the text registered when it looked the version up
  started,   \* commands started
  promoted,  \* texts written into the registry as active (only properties read it)
  signed,    \* approvals the approvals file has held (only properties read it)
  overtaken  \* commands whose lookup another registry write has followed (only properties read it)

command == <<pc, todo, held, version, checked>>
ghosts == <<promoted, signed, overtaken>>
vars == <<file, command, started, ghosts>>

Nothing == [f \in Files |-> {}]

TypeOK ==
  /\ file \in [Files -> [state : {"whole", "truncated", "torn", "absent"},
       items : SUBSET (RegisteredPolicy \cup RegisteredModel \cup PolicyApproval \cup Texts)]]
  /\ pc \in [Commands -> {"idle", "check", "approve", "promote", "open", "write"}]
  /\ \A c \in Commands : todo[c] \in Seq(Files)
  /\ \A c \in Commands : checked[c] \subseteq Texts /\ version[c] \subseteq Versions
  /\ started \in 0 .. MaxCommands
  /\ promoted \subseteq Texts /\ signed \subseteq PolicyApproval
  /\ overtaken \subseteq Commands

\* What earlier commands left: some candidates, no approval, nothing active.
Init ==
  /\ \E candidates \in SUBSET Texts :
       /\ \A s, t \in candidates : VersionOf[s] = VersionOf[t] => s = t
       /\ file = [f \in Files |->
            IF f = "registry" /\ candidates # {}
            THEN Whole({[version |-> VersionOf[t], text |-> t, status |-> "candidate"] :
                          t \in candidates})
            ELSE Absent]
  /\ pc = [c \in Commands |-> "idle"]
  /\ todo = [c \in Commands |-> <<>>]
  /\ held = [c \in Commands |-> Nothing]
  /\ version = [c \in Commands |-> {}]
  /\ checked = [c \in Commands |-> {}]
  /\ started = 0
  /\ promoted = {} /\ signed = {} /\ overtaken = {}

\* json.loads of a truncated or overlaid file raises.
Readable(f) == file[f].state \in {"whole", "absent"}

ActiveIn(entries) == {e \in entries : e.status = "active"}

Registered(v) == {p \in file["registry"].items : p.version = v}

-----------------------------------------------------------------------------
(* The registries' operations, on the list they read.                      *)

\* Fault: the old active entry keeps its status.
DemoteActive_Kept(entries, demoted) == entries

DemoteActive(entries, demoted) ==
  {IF e.status = "active" THEN [e EXCEPT !.status = demoted] ELSE e : e \in entries}

DemoteActiveModel(entries) == DemoteActive(entries, "shadow")

\* JsonThresholdPolicyRegistry.register: the version's entry is replaced.
AfterRegister(t, status) ==
  LET others == {p \in file["registry"].items : p.version # VersionOf[t]}
  IN (IF status = "active" THEN DemoteActive(others, "candidate") ELSE others)
       \cup {[version |-> VersionOf[t], text |-> t, status |-> status]}

AfterPromote(v) ==
  DemoteActive({p \in file["registry"].items : p.version # v}, "candidate")
    \cup {[p EXCEPT !.status = "active"] : p \in Registered(v)}

\* JsonModelRegistry.register_from_report; set_status and promote.
AfterRegisterModel(m, status) ==
  LET others == {e \in file["models"].items : e.version # m}
  IN (IF status = "active" THEN DemoteActiveModel(others) ELSE others)
       \cup {[version |-> m, status |-> status]}

AfterPromoteModel(m) == AfterRegisterModel(m, "active")

\* JsonPolicyApprovalStore.add: one approval per text and approver.
AfterAdd(t, a) == file["approvals"].items \cup {[text |-> t, approver |-> a]}

\* Faults: approvals of any text count; approvals are not asked for.
VerifiedApprovers_AnyText(t) == {p.approver : p \in file["approvals"].items}

VerifiedApprovers(t) == {p.approver : p \in {q \in file["approvals"].items : q.text = t}}

-----------------------------------------------------------------------------
(* The commands.                                                           *)

Starts(c) ==
  /\ pc[c] = "idle"
  /\ started < MaxCommands
  /\ started' = started + 1

Waits(c, at) == pc' = [pc EXCEPT ![c] = at]

\* The contents are fixed before the first file is opened.
Will(c, files, contents) ==
  /\ Waits(c, "open")
  /\ todo' = [todo EXCEPT ![c] = files]
  /\ held' = [held EXCEPT ![c] = contents]

PolicyRegister(c) ==
  /\ Starts(c)
  /\ Readable("registry")
  /\ \E t \in Texts, status \in PolicyStatus :
       Will(c, <<"registry">>, [Nothing EXCEPT !["registry"] = AfterRegister(t, status)])
  /\ UNCHANGED <<file, version, checked, ghosts>>

\* Fault: the API's file is written before the registry.
PromotionWrites_ActiveFirst == <<"active", "registry">>

PromotionWrites == <<"registry", "active">>

\* registry.promote reads the registry once more, whatever was looked up
\* before; write_active_policy takes the policy it returns.
Promotes(c, v) ==
  /\ Readable("registry")
  /\ Registered(v) # {}
  /\ Will(c, PromotionWrites,
       [Nothing EXCEPT !["registry"] = AfterPromote(v),
                       !["active"] = {p.text : p \in Registered(v)}])

PolicyPromote(c) ==
  /\ Starts(c)
  /\ \E v \in Versions : Promotes(c, v)
  /\ UNCHANGED <<file, version, checked, ghosts>>

\* _registered_policy
LooksUp(c, v) ==
  /\ Readable("registry")
  /\ Registered(v) # {}
  /\ version' = [version EXCEPT ![c] = {v}]
  /\ checked' = [checked EXCEPT ![c] = {p.text : p \in Registered(v)}]
  /\ UNCHANGED <<file, todo, held, ghosts>>

PolicyPromoteApproved(c) ==
  /\ Starts(c)
  /\ \E v \in Versions : LooksUp(c, v)
  /\ Waits(c, "check")

Ends(c) ==
  /\ pc' = [pc EXCEPT ![c] = "idle"]
  /\ todo' = [todo EXCEPT ![c] = <<>>]
  /\ held' = [held EXCEPT ![c] = Nothing]
  /\ version' = [version EXCEPT ![c] = {}]
  /\ checked' = [checked EXCEPT ![c] = {}]

\* The process is killed, or raises on a file that cannot be read.
Killed(c) ==
  /\ pc[c] # "idle"
  /\ Ends(c)
  /\ overtaken' = overtaken \ {c}
  /\ UNCHANGED <<file, started, promoted, signed>>

\* Fault: any approval is enough.
IsApproved_Any(t) == VerifiedApprovers(t) # {}

IsApproved(t) == Cardinality(VerifiedApprovers(t)) >= RequiredApprovals

\* Not approved: the command exits with code 2.
ApprovalStatus(c) ==
  /\ pc[c] = "check"
  /\ IF Readable("approvals") /\ \A t \in checked[c] : IsApproved(t)
     THEN /\ Waits(c, "promote")
          /\ UNCHANGED <<file, todo, held, version, checked, started, ghosts>>
     ELSE Killed(c)

PromoteApproved(c) ==
  /\ pc[c] = "promote"
  /\ \E v \in version[c] : Promotes(c, v)
  /\ UNCHANGED <<file, version, checked, started, ghosts>>

PolicyApprove(c) ==
  /\ Starts(c)
  /\ \E v \in Versions : LooksUp(c, v)
  /\ Waits(c, "approve")

AddApproval(c) ==
  /\ pc[c] = "approve"
  /\ Readable("approvals")
  /\ \E t \in checked[c], a \in Approvers :
       Will(c, <<"approvals">>, [Nothing EXCEPT !["approvals"] = AfterAdd(t, a)])
  /\ UNCHANGED <<file, version, checked, started, ghosts>>

ModelRegister(c) ==
  /\ Starts(c)
  /\ Readable("models")
  /\ \E m \in Models, status \in ModelStatus :
       Will(c, <<"models">>, [Nothing EXCEPT !["models"] = AfterRegisterModel(m, status)])
  /\ UNCHANGED <<file, version, checked, ghosts>>

ModelPromote(c) ==
  /\ Starts(c)
  /\ Readable("models")
  /\ \E m \in {e.version : e \in file["models"].items} :
       Will(c, <<"models">>, [Nothing EXCEPT !["models"] = AfterPromoteModel(m)])
  /\ UNCHANGED <<file, version, checked, ghosts>>

-----------------------------------------------------------------------------
(* Path.write_text.                                                        *)

Open(c) ==
  /\ pc[c] = "open"
  /\ file' = [file EXCEPT ![Head(todo[c])] = Truncated]
  /\ Waits(c, "write")
  /\ UNCHANGED <<todo, held, version, checked, started, ghosts>>

\* Bytes land in a file another command has written since it was opened: they
\* overlay each other, and what was longer keeps its tail.
Written(c, f) ==
  {Whole(held[c][f])} \cup IF file[f].state = "truncated" THEN {} ELSE {Torn}

Write(c) ==
  /\ pc[c] = "write"
  /\ LET f == Head(todo[c])
     IN \E content \in Written(c, f) :
          /\ file' = [file EXCEPT ![f] = content]
          /\ promoted' = promoted \cup
               IF f = "registry" THEN {p.text : p \in ActiveIn(held[c][f])} ELSE {}
          /\ signed' = signed \cup IF f = "approvals" THEN content.items ELSE {}
          /\ overtaken' = (overtaken \ {d \in {c} : Len(todo[c]) = 1}) \cup
               IF f = "registry" THEN {d \in Commands \ {c} : checked[d] # {}} ELSE {}
  /\ IF Len(todo[c]) = 1 THEN Ends(c)
     ELSE /\ Waits(c, "open")
          /\ todo' = [todo EXCEPT ![c] = Tail(@)]
          /\ UNCHANGED <<held, version, checked>>
  /\ UNCHANGED started

Step(c) ==
  \/ PolicyRegister(c) \/ PolicyPromote(c) \/ PolicyPromoteApproved(c)
  \/ ApprovalStatus(c) \/ PromoteApproved(c) \/ PolicyApprove(c) \/ AddApproval(c)
  \/ ModelRegister(c) \/ ModelPromote(c) \/ Open(c) \/ Write(c) \/ Killed(c)

Next == \E c \in Commands : Step(c)

Spec == Init /\ [][Next]_vars

-----------------------------------------------------------------------------
(* Properties.                                                             *)

\* However registrations and promotions interleave, overwrite each other or
\* are killed, no registry file ever holds two active entries
\* (registry.py promote and register, models/registry.py set_status).
AtMostOneActive ==
  \A f \in {"registry", "models"} : Cardinality(ActiveIn(file[f].items)) <= 1

\* The policy file the API loads for each decision only ever holds a policy
\* that was written into the registry as the active one before: a command
\* killed between the two writes leaves an old policy, never an unregistered
\* one (cli/main.py policy_promote, policy_promote_approved).
ServedWasPromoted == file["active"].items \subseteq promoted

\* policy_promote_approved promotes nothing but a text that the required
\* number of distinct approvers has approved - except that a registration
\* between its check and its promotion swaps the text under it.
PromotedAsApproved ==
  \A c \in Commands : pc[c] \in {"open", "write"} /\ c \notin overtaken =>
    \A t \in checked[c] : held[c]["active"] # {} =>
      /\ held[c]["active"] = {t}
      /\ Cardinality({a \in Approvers : [text |-> t, approver |-> a] \in signed})
           >= RequiredApprovals
=============================================================================
