---------------------- MODULE PolicyGovernanceProofs ----------------------
(* The registries, the approvals and the API's policy file, for any number *)
(* of operators, policies, approvers, models and commands.                 *)
EXTENDS PolicyGovernance, FiniteSetTheorems, TLAPS

-----------------------------------------------------------------------------
(* The inductive invariant.                                                *)

Items == RegisteredPolicy \cup RegisteredModel \cup PolicyApproval \cup Texts

\* What a file of each name lists.
ItemsOf(f) ==
  CASE f = "registry" -> RegisteredPolicy
    [] f = "models" -> RegisteredModel
    [] f = "approvals" -> PolicyApproval
    [] f = "active" -> Texts

OneActiveIn(entries) == \A a, b \in ActiveIn(entries) : a = b

UniqueVersions(entries) == \A p, q \in entries : p.version = q.version => p = q

TextsOf(entries) == {p.text : p \in entries}

\* The files a command writes, in order.
Scripts == {<<"registry">>, <<"registry", "active">>, <<"approvals">>, <<"models">>}

\* Lists that a command may write into the files of a script.
Writable(contents) ==
  /\ contents \in [Files -> SUBSET Items]
  /\ \A f \in Files : contents[f] \subseteq ItemsOf(f)
  /\ OneActiveIn(contents["registry"]) /\ OneActiveIn(contents["models"])
  /\ UniqueVersions(contents["registry"])

FilesAreWritable == Writable([f \in Files |-> file[f].items])

HeldIsWritable == \A c \in Commands : Writable(held[c])

\* The policy file holds, and will hold, what the registry had as active.
ServedInOrder ==
  /\ file["active"].items \subseteq promoted
  /\ \A c \in Commands :
       /\ todo[c] = <<"registry", "active">> =>
            held[c]["active"] \subseteq TextsOf(ActiveIn(held[c]["registry"]))
       /\ todo[c] = <<"active">> => held[c]["active"] \subseteq promoted

Shapes ==
  /\ TypeOK
  /\ held \in [Commands -> [Files -> SUBSET Items]]
  /\ todo \in [Commands -> Scripts \cup {<<>>, <<"active">>}]
  /\ version \in [Commands -> SUBSET Versions]
  /\ checked \in [Commands -> SUBSET Texts]
  /\ \A c \in Commands : pc[c] \in {"open", "write"} => todo[c] # <<>>

SignedApprovers(t) == {a \in Approvers : [text |-> t, approver |-> a] \in signed}

HasApprovals(t) == Cardinality(SignedApprovers(t)) >= RequiredApprovals

\* A command that has looked a version up knows the text the registry has,
\* as long as the registry is not written.
LookupHolds(c) ==
  pc[c] \in {"check", "promote", "approve"} =>
    /\ checked[c] # {}
    /\ c \notin overtaken /\ Readable("registry") =>
         \A v \in version[c] : TextsOf(Registered(v)) = checked[c]

ApprovedInOrder ==
  /\ file["approvals"].items \subseteq signed
  /\ \A c \in Commands :
       /\ pc[c] = "idle" => checked[c] = {}
       /\ \A t, u \in checked[c] : t = u
       /\ LookupHolds(c)
       /\ pc[c] = "promote" => \A t \in checked[c] : HasApprovals(t)

GInv ==
  /\ Shapes
  /\ FilesAreWritable
  /\ HeldIsWritable
  /\ ServedInOrder
  /\ ApprovedInOrder
  /\ PromotedAsApproved

-----------------------------------------------------------------------------
(* Lists of registry entries.                                              *)

\* Demoting leaves no entry active, and changes neither versions nor texts.
LEMMA NoneActiveAfterDemotion ==
  ASSUME NEW entries, entries \subseteq RegisteredPolicy \/ entries \subseteq RegisteredModel,
         NEW demoted \in {"candidate", "shadow"}
  PROVE  ActiveIn(DemoteActive(entries, demoted)) = {}
BY DEF ActiveIn, DemoteActive, RegisteredPolicy, RegisteredModel

LEMMA DemotionKeepsPolicies ==
  ASSUME NEW entries \in SUBSET RegisteredPolicy, UniqueVersions(entries)
  PROVE  /\ DemoteActive(entries, "candidate") \subseteq RegisteredPolicy
         /\ UniqueVersions(DemoteActive(entries, "candidate"))
         /\ \A v : (\A p \in entries : p.version # v) =>
                     \A p \in DemoteActive(entries, "candidate") : p.version # v
BY DEF DemoteActive, RegisteredPolicy, UniqueVersions, PolicyStatus

LEMMA DemotionKeepsModels ==
  ASSUME NEW entries \in SUBSET RegisteredModel
  PROVE  DemoteActive(entries, "shadow") \subseteq RegisteredModel
BY DEF DemoteActive, RegisteredModel, ModelStatus

\* register, whatever the status.
LEMMA RegistrationIsWritable ==
  ASSUME GInv, NEW t \in Texts, NEW status \in PolicyStatus
  PROVE  /\ AfterRegister(t, status) \subseteq RegisteredPolicy
         /\ OneActiveIn(AfterRegister(t, status))
         /\ UniqueVersions(AfterRegister(t, status))
<1> DEFINE others == {p \in file["registry"].items : p.version # VersionOf[t]}
           new == [version |-> VersionOf[t], text |-> t, status |-> status]
           kept == IF status = "active" THEN DemoteActive(others, "candidate") ELSE others
<1>1. new \in RegisteredPolicy /\ new.status = status /\ new.version = VersionOf[t]
  BY GovernanceAssumption DEF RegisteredPolicy
<1>2. others \subseteq RegisteredPolicy /\ UniqueVersions(others) /\ OneActiveIn(others)
  BY DEF GInv, FilesAreWritable, Writable, Files, ItemsOf, UniqueVersions, OneActiveIn, ActiveIn
<1>3. kept \subseteq RegisteredPolicy /\ UniqueVersions(kept)
      /\ \A p \in kept : p.version # VersionOf[t]
  BY <1>2, DemotionKeepsPolicies
<1>4. status = "active" => ActiveIn(kept) = {}
  BY <1>2, NoneActiveAfterDemotion
<1>5. OneActiveIn(kept)
  BY <1>2, <1>4 DEF OneActiveIn
<1>6. AfterRegister(t, status) = kept \cup {new}
  BY DEF AfterRegister
<1> HIDE DEF new, kept
<1> QED BY <1>1, <1>3, <1>4, <1>5, <1>6 DEF OneActiveIn, UniqueVersions, ActiveIn

\* promote, and the texts of the entries it makes active.
LEMMA PromotionIsWritable ==
  ASSUME GInv, NEW v \in Versions
  PROVE  /\ AfterPromote(v) \subseteq RegisteredPolicy
         /\ OneActiveIn(AfterPromote(v))
         /\ UniqueVersions(AfterPromote(v))
         /\ TextsOf(Registered(v)) \subseteq TextsOf(ActiveIn(AfterPromote(v)))
         /\ TextsOf(Registered(v)) \subseteq Texts
         /\ \A t, u \in TextsOf(Registered(v)) : t = u
<1> DEFINE others == {p \in file["registry"].items : p.version # v}
           kept == DemoteActive(others, "candidate")
           made == {[p EXCEPT !.status = "active"] : p \in Registered(v)}
<1>1. others \subseteq RegisteredPolicy /\ UniqueVersions(others)
  BY DEF GInv, FilesAreWritable, Writable, Files, ItemsOf, UniqueVersions
<1>2. kept \subseteq RegisteredPolicy /\ UniqueVersions(kept) /\ \A p \in kept : p.version # v
  BY <1>1, DemotionKeepsPolicies
<1>3. ActiveIn(kept) = {}
  BY <1>1, NoneActiveAfterDemotion
<1>4. Registered(v) \subseteq RegisteredPolicy /\ \A p, q \in Registered(v) : p = q
  BY DEF GInv, FilesAreWritable, Writable, Files, ItemsOf, UniqueVersions, Registered
<1>5. made \subseteq RegisteredPolicy /\ \A p, q \in made : p = q
  BY <1>4 DEF RegisteredPolicy, PolicyStatus
<1>6. \A p \in made : p.version = v /\ p.status = "active"
  BY <1>4 DEF RegisteredPolicy, Registered
<1>7. TextsOf(Registered(v)) \subseteq TextsOf(made)
  <2>1. SUFFICES ASSUME NEW p \in Registered(v)
                 PROVE  p.text \in TextsOf(made)
    BY DEF TextsOf
  <2>2. [p EXCEPT !.status = "active"].text = p.text
    BY <1>4 DEF RegisteredPolicy
  <2>3. [p EXCEPT !.status = "active"] \in made
    OBVIOUS
  <2> QED BY <2>2, <2>3 DEF TextsOf
<1>8. AfterPromote(v) = kept \cup made
  BY DEF AfterPromote
<1>9. TextsOf(Registered(v)) \subseteq Texts /\ \A t, u \in TextsOf(Registered(v)) : t = u
  BY <1>4 DEF TextsOf, RegisteredPolicy
<1> HIDE DEF kept, made
<1>10. TextsOf(made) \subseteq TextsOf(ActiveIn(AfterPromote(v)))
  BY <1>6, <1>8 DEF TextsOf, ActiveIn
<1>11. OneActiveIn(AfterPromote(v)) /\ UniqueVersions(AfterPromote(v))
  BY <1>2, <1>3, <1>5, <1>6, <1>8 DEF OneActiveIn, UniqueVersions, ActiveIn
<1> QED BY <1>2, <1>5, <1>7, <1>8, <1>9, <1>10, <1>11

\* The model registry's register and promote.
LEMMA ModelListIsWritable ==
  ASSUME GInv, NEW m \in Models, NEW status \in ModelStatus
  PROVE  /\ AfterRegisterModel(m, status) \subseteq RegisteredModel
         /\ OneActiveIn(AfterRegisterModel(m, status))
<1> DEFINE others == {e \in file["models"].items : e.version # m}
           new == [version |-> m, status |-> status]
           kept == IF status = "active" THEN DemoteActive(others, "shadow") ELSE others
<1>1. new \in RegisteredModel /\ new.status = status
  BY DEF RegisteredModel
<1>2. others \subseteq RegisteredModel /\ OneActiveIn(others)
  BY DEF GInv, FilesAreWritable, Writable, Files, ItemsOf, OneActiveIn, ActiveIn
<1>3. kept \subseteq RegisteredModel
  BY <1>2, DemotionKeepsModels
<1>4. status = "active" => ActiveIn(kept) = {}
  BY <1>2, NoneActiveAfterDemotion
<1>5. OneActiveIn(kept)
  BY <1>2, <1>4 DEF OneActiveIn
<1>6. AfterRegisterModel(m, status) = kept \cup {new}
  BY DEF AfterRegisterModel, DemoteActiveModel
<1> HIDE DEF new, kept
<1> QED BY <1>1, <1>3, <1>4, <1>5, <1>6 DEF OneActiveIn, ActiveIn
-----------------------------------------------------------------------------
(* The steps.                                                              *)

LEMMA ScriptsAreSequences ==
  ASSUME NEW script \in Scripts \cup {<<>>, <<"active">>}
  PROVE  script \in Seq(Files) /\ (script \in Scripts => script # <<>> /\ script # <<"active">>)
<1>1. CASE script = <<>>
  BY <1>1 DEF Scripts
<1>2. CASE script = <<"registry">>
  BY <1>2 DEF Files
<1>3. CASE script = <<"approvals">>
  BY <1>3 DEF Files
<1>4. CASE script = <<"models">>
  BY <1>4 DEF Files
<1>5. CASE script = <<"active">>
  BY <1>5 DEF Files, Scripts
<1>6. CASE script = <<"registry", "active">>
  <2>1. script \in Seq(Files)
    BY <1>6 DEF Files
  <2>2. Len(script) = 2 /\ Len(<<>>) = 0 /\ Len(<<"active">>) = 1
    BY <1>6
  <2>3. script # <<>> /\ script # <<"active">>
    BY <2>2
  <2> QED BY <2>1, <2>3
<1> QED BY <1>1, <1>2, <1>3, <1>4, <1>5, <1>6 DEF Scripts

\* Approvals are never taken back: more of them are still enough.
LEMMA SignaturesAccumulate ==
  ASSUME signed \subseteq signed', NEW t, HasApprovals(t)
  PROVE  HasApprovals(t)'
<1>1. SignedApprovers(t) \subseteq SignedApprovers(t)'
  BY DEF SignedApprovers
<1>2. IsFiniteSet(SignedApprovers(t)')
  BY GovernanceAssumption, FS_Subset DEF SignedApprovers
<1>3. /\ Cardinality(SignedApprovers(t)) <= Cardinality(SignedApprovers(t)')
      /\ Cardinality(SignedApprovers(t)) \in Nat /\ Cardinality(SignedApprovers(t)') \in Nat
  BY <1>1, <1>2, FS_Subset, FS_CardinalityType
<1> QED BY <1>3, GovernanceAssumption DEF HasApprovals

\* What the status command counts has been signed.
LEMMA ApprovedMeansSigned ==
  ASSUME GInv, NEW t \in Texts, IsApproved(t)
  PROVE  HasApprovals(t)
<1>1. VerifiedApprovers(t) \subseteq SignedApprovers(t)
  BY DEF VerifiedApprovers, SignedApprovers, GInv, ApprovedInOrder, FilesAreWritable,
         Writable, Files, ItemsOf, PolicyApproval
<1>2. IsFiniteSet(SignedApprovers(t))
  BY GovernanceAssumption, FS_Subset DEF SignedApprovers
<1>3. /\ Cardinality(VerifiedApprovers(t)) <= Cardinality(SignedApprovers(t))
      /\ Cardinality(VerifiedApprovers(t)) \in Nat /\ Cardinality(SignedApprovers(t)) \in Nat
  BY <1>1, <1>2, FS_Subset, FS_CardinalityType
<1> QED BY <1>3, GovernanceAssumption DEF HasApprovals, IsApproved

LEMMA NothingIsWritable == Writable(Nothing)
BY DEF Writable, Nothing, Files, ItemsOf, OneActiveIn, ActiveIn, UniqueVersions

\* A command's contents are fixed.
LEMMA WillKeeps ==
  ASSUME GInv, NEW c \in Commands, NEW files \in Scripts, NEW contents,
         Writable(contents),
         contents["active"] \subseteq TextsOf(ActiveIn(contents["registry"])),
         Will(c, files, contents),
         UNCHANGED <<file, version, checked, ghosts>>,
         started' \in 0 .. MaxCommands,
         c \notin overtaken => \A t \in checked[c] : contents["active"] # {} =>
           contents["active"] = {t} /\ HasApprovals(t)
  PROVE  GInv'
<1>1. /\ contents \in [Files -> SUBSET Items]
      /\ pc \in [Commands -> {"idle", "check", "approve", "promote", "open", "write"}]
      /\ held \in [Commands -> [Files -> SUBSET Items]]
      /\ todo \in [Commands -> Scripts \cup {<<>>, <<"active">>}]
  BY DEF GInv, Shapes, TypeOK, Writable
<1>2. /\ pc' = [pc EXCEPT ![c] = "open"]
      /\ todo' = [todo EXCEPT ![c] = files]
      /\ held' = [held EXCEPT ![c] = contents]
      /\ UNCHANGED <<file, version, checked, promoted, signed, overtaken>>
  BY DEF Will, Waits, ghosts
<1>3. Shapes'
  <2>1. todo' \in [Commands -> Scripts \cup {<<>>, <<"active">>}]
    BY <1>1, <1>2
  <2>2. \A d \in Commands : todo'[d] \in Seq(Files)
    BY <2>1, ScriptsAreSequences
  <2>3. TypeOK'
    BY <1>1, <1>2, <2>2 DEF TypeOK, GInv, Shapes
  <2>4. files # <<>>
    BY ScriptsAreSequences
  <2> QED BY <1>1, <1>2, <2>1, <2>3, <2>4 DEF Shapes, GInv
<1>4. FilesAreWritable'
  BY <1>2 DEF GInv, FilesAreWritable
<1>5. HeldIsWritable'
  <2>1. ASSUME NEW d \in Commands
        PROVE  held'[d] = IF d = c THEN contents ELSE held[d]
    BY <1>1, <1>2
  <2> QED BY <2>1 DEF GInv, HeldIsWritable
<1>6. ServedInOrder'
  <2>1. files # <<"active">>
    BY ScriptsAreSequences
  <2> QED BY <1>1, <1>2, <2>1 DEF GInv, ServedInOrder
<1>7. ApprovedInOrder'
  <2>1. ASSUME NEW d \in Commands
        PROVE  LookupHolds(d)'
    <3>1. pc'[d] \in {"check", "promote", "approve"} => pc[d] \in {"check", "promote", "approve"}
      BY <1>1, <1>2
    <3> QED BY <1>2, <3>1 DEF GInv, ApprovedInOrder, LookupHolds, Registered, Readable
  <2>2. ASSUME NEW d \in Commands
        PROVE  (pc'[d] = "idle" => pc[d] = "idle") /\ (pc'[d] = "promote" => pc[d] = "promote")
    BY <1>1, <1>2
  <2>3. \A t : HasApprovals(t)' = HasApprovals(t)
    BY <1>2 DEF HasApprovals, SignedApprovers
  <2> QED BY <1>2, <2>1, <2>2, <2>3 DEF GInv, ApprovedInOrder
<1>8. PromotedAsApproved'
  <2>1. SUFFICES ASSUME NEW d \in Commands, pc'[d] \in {"open", "write"}, d \notin overtaken,
                        NEW t \in checked[d], held'[d]["active"] # {}
                 PROVE  held'[d]["active"] = {t} /\ HasApprovals(t)
    BY <1>2 DEF PromotedAsApproved, HasApprovals, SignedApprovers
  <2>2. CASE d = c
    <3>1. held'[d] = contents
      BY <1>1, <1>2, <2>2
    <3> QED BY <2>1, <2>2, <3>1
  <2>3. CASE d # c
    <3>1. held'[d] = held[d] /\ pc'[d] = pc[d]
      BY <1>1, <1>2, <2>3
    <3> QED BY <2>1, <3>1 DEF GInv, PromotedAsApproved, HasApprovals, SignedApprovers
  <2> QED BY <2>2, <2>3
<1> QED BY <1>3, <1>4, <1>5, <1>6, <1>7, <1>8 DEF GInv
\* Commands that write one list.
LEMMA OneListIsWritable ==
  ASSUME NEW f \in {"registry", "approvals", "models"}, NEW list,
         list \subseteq ItemsOf(f),
         f = "registry" => OneActiveIn(list) /\ UniqueVersions(list),
         f = "models" => OneActiveIn(list)
  PROVE  Writable([Nothing EXCEPT ![f] = list]) /\ [Nothing EXCEPT ![f] = list]["active"] = {}
<1>1. list \in SUBSET Items
  BY DEF ItemsOf, Items
<1>2. /\ f \in Files
      /\ Nothing \in [Files -> SUBSET Items]
      /\ \A g \in Files : [Nothing EXCEPT ![f] = list][g] = IF g = f THEN list ELSE {}
  BY DEF Nothing, Files
<1>3. [Nothing EXCEPT ![f] = list] \in [Files -> SUBSET Items]
  BY <1>1, <1>2
<1> HIDE DEF Nothing
<1>4. OneActiveIn({}) /\ UniqueVersions({})
  BY DEF OneActiveIn, ActiveIn, UniqueVersions
<1>5. "registry" \in Files /\ "models" \in Files /\ "active" \in Files
  BY DEF Files
<1> QED BY <1>2, <1>3, <1>4, <1>5 DEF Writable

LEMMA PolicyRegisterKeeps ==
  ASSUME GInv, NEW c \in Commands, PolicyRegister(c)
  PROVE  GInv'
<1>1. PICK t \in Texts, status \in PolicyStatus :
        Will(c, <<"registry">>, [Nothing EXCEPT !["registry"] = AfterRegister(t, status)])
  BY DEF PolicyRegister
<1> DEFINE contents == [Nothing EXCEPT !["registry"] = AfterRegister(t, status)]
<1>2. Writable(contents) /\ contents["active"] = {}
  BY RegistrationIsWritable, OneListIsWritable DEF ItemsOf
<1>3. started' \in 0 .. MaxCommands
  BY GovernanceAssumption DEF PolicyRegister, Starts, GInv, Shapes, TypeOK
<1> QED BY <1>1, <1>2, <1>3, WillKeeps DEF PolicyRegister, Scripts

LEMMA ModelRegisterKeeps ==
  ASSUME GInv, NEW c \in Commands, ModelRegister(c)
  PROVE  GInv'
<1>1. PICK m \in Models, status \in ModelStatus :
        Will(c, <<"models">>, [Nothing EXCEPT !["models"] = AfterRegisterModel(m, status)])
  BY DEF ModelRegister
<1> DEFINE contents == [Nothing EXCEPT !["models"] = AfterRegisterModel(m, status)]
<1>2. Writable(contents) /\ contents["active"] = {}
  BY ModelListIsWritable, OneListIsWritable DEF ItemsOf
<1>3. started' \in 0 .. MaxCommands
  BY GovernanceAssumption DEF ModelRegister, Starts, GInv, Shapes, TypeOK
<1> QED BY <1>1, <1>2, <1>3, WillKeeps DEF ModelRegister, Scripts

LEMMA ModelPromoteKeeps ==
  ASSUME GInv, NEW c \in Commands, ModelPromote(c)
  PROVE  GInv'
<1>1. PICK m \in {e.version : e \in file["models"].items} :
        Will(c, <<"models">>, [Nothing EXCEPT !["models"] = AfterPromoteModel(m)])
  BY DEF ModelPromote
<1> DEFINE contents == [Nothing EXCEPT !["models"] = AfterPromoteModel(m)]
<1>2. m \in Models
  BY DEF GInv, FilesAreWritable, Writable, Files, ItemsOf, RegisteredModel
<1>3. Writable(contents) /\ contents["active"] = {}
  BY <1>2, ModelListIsWritable, OneListIsWritable DEF ItemsOf, AfterPromoteModel, ModelStatus
<1>4. started' \in 0 .. MaxCommands
  BY GovernanceAssumption DEF ModelPromote, Starts, GInv, Shapes, TypeOK
<1> QED BY <1>1, <1>3, <1>4, WillKeeps DEF ModelPromote, Scripts

LEMMA AddApprovalKeeps ==
  ASSUME GInv, NEW c \in Commands, AddApproval(c)
  PROVE  GInv'
<1>1. PICK t \in checked[c], a \in Approvers :
        Will(c, <<"approvals">>, [Nothing EXCEPT !["approvals"] = AfterAdd(t, a)])
  BY DEF AddApproval
<1> DEFINE contents == [Nothing EXCEPT !["approvals"] = AfterAdd(t, a)]
<1>2. AfterAdd(t, a) \subseteq PolicyApproval
  <2>1. file["approvals"].items \subseteq PolicyApproval
    BY DEF GInv, FilesAreWritable, Writable, Files, ItemsOf
  <2>2. t \in Texts
    BY DEF GInv, Shapes
  <2> QED BY <2>1, <2>2 DEF AfterAdd, PolicyApproval
<1>3. Writable(contents) /\ contents["active"] = {}
  BY <1>2, OneListIsWritable DEF ItemsOf
<1>4. started' \in 0 .. MaxCommands
  BY DEF AddApproval, GInv, Shapes, TypeOK
<1> QED BY <1>1, <1>3, <1>4, WillKeeps DEF AddApproval, Scripts

\* A promotion writes the registry, then the text it promoted for the API.
LEMMA PromotesKeeps ==
  ASSUME GInv, NEW c \in Commands, NEW v \in Versions, Promotes(c, v),
         UNCHANGED <<file, version, checked, ghosts>>,
         started' \in 0 .. MaxCommands,
         c \notin overtaken => \A t \in checked[c] :
           TextsOf(Registered(v)) = {t} /\ HasApprovals(t)
  PROVE  GInv'
<1> DEFINE contents == [Nothing EXCEPT !["registry"] = AfterPromote(v),
                                       !["active"] = {p.text : p \in Registered(v)}]
<1>1. /\ contents["registry"] = AfterPromote(v) /\ contents["active"] = TextsOf(Registered(v))
      /\ contents["approvals"] = {} /\ contents["models"] = {}
      /\ contents \in [Files -> {AfterPromote(v), TextsOf(Registered(v)), {}}]
  BY DEF Nothing, Files, TextsOf
<1>2. AfterPromote(v) \in SUBSET Items /\ TextsOf(Registered(v)) \in SUBSET Items
  BY PromotionIsWritable DEF Items
<1>3. Will(c, <<"registry", "active">>, contents)
  BY DEF Promotes, PromotionWrites
<1> HIDE DEF contents
<1>4. contents \in [Files -> SUBSET Items]
  BY <1>1, <1>2
<1>5. \A f \in Files : contents[f] \subseteq ItemsOf(f)
  BY <1>1, PromotionIsWritable DEF Files, ItemsOf
<1>6. OneActiveIn({})
  BY DEF OneActiveIn, ActiveIn
<1>7. Writable(contents)
  BY <1>1, <1>4, <1>5, <1>6, PromotionIsWritable DEF Writable
<1> QED BY <1>1, <1>3, <1>7, PromotionIsWritable, WillKeeps DEF Scripts

LEMMA PolicyPromoteKeeps ==
  ASSUME GInv, NEW c \in Commands, PolicyPromote(c)
  PROVE  GInv'
<1>1. PICK v \in Versions : Promotes(c, v)
  BY DEF PolicyPromote
<1>2. started' \in 0 .. MaxCommands
  BY GovernanceAssumption DEF PolicyPromote, Starts, GInv, Shapes, TypeOK
<1>3. checked[c] = {}
  BY DEF PolicyPromote, Starts, GInv, ApprovedInOrder
<1> QED BY <1>1, <1>2, <1>3, PromotesKeeps DEF PolicyPromote

LEMMA PromoteApprovedKeeps ==
  ASSUME GInv, NEW c \in Commands, PromoteApproved(c)
  PROVE  GInv'
<1>1. PICK v \in version[c] : Promotes(c, v)
  BY DEF PromoteApproved
<1>2. v \in Versions /\ started' \in 0 .. MaxCommands /\ Readable("registry")
  BY <1>1 DEF PromoteApproved, GInv, Shapes, TypeOK, Promotes
<1>3. c \notin overtaken => TextsOf(Registered(v)) = checked[c]
  BY <1>2 DEF PromoteApproved, GInv, ApprovedInOrder, LookupHolds
<1>4. \A t \in checked[c] : checked[c] = {t} /\ HasApprovals(t)
  BY DEF PromoteApproved, GInv, ApprovedInOrder
<1> QED BY <1>1, <1>2, <1>3, <1>4, PromotesKeeps DEF PromoteApproved
\* Looking a version up: the text known is the one registered.
LEMMA LookupKeeps ==
  ASSUME GInv, NEW c \in Commands, Starts(c), NEW v \in Versions, LooksUp(c, v),
         NEW at \in {"check", "approve"}, Waits(c, at)
  PROVE  GInv'
<1>1. /\ pc \in [Commands -> {"idle", "check", "approve", "promote", "open", "write"}]
      /\ version \in [Commands -> SUBSET Versions]
      /\ checked \in [Commands -> SUBSET Texts]
  BY DEF GInv, Shapes, TypeOK
<1>2. /\ pc' = [pc EXCEPT ![c] = at]
      /\ version' = [version EXCEPT ![c] = {v}]
      /\ checked' = [checked EXCEPT ![c] = TextsOf(Registered(v))]
      /\ UNCHANGED <<file, todo, held, promoted, signed, overtaken>>
  BY DEF LooksUp, Waits, ghosts, TextsOf
<1>3. started' \in 0 .. MaxCommands
  BY GovernanceAssumption DEF Starts, GInv, Shapes, TypeOK
<1>4. /\ TextsOf(Registered(v)) \subseteq Texts /\ TextsOf(Registered(v)) # {}
      /\ \A t, u \in TextsOf(Registered(v)) : t = u
  BY PromotionIsWritable DEF LooksUp, TextsOf
<1>5. Shapes'
  <2>1. /\ pc' \in [Commands -> {"idle", "check", "approve", "promote", "open", "write"}]
        /\ version' \in [Commands -> SUBSET Versions]
        /\ checked' \in [Commands -> SUBSET Texts]
    BY <1>1, <1>2, <1>4
  <2>2. \A d \in Commands : pc'[d] \in {"open", "write"} => pc[d] \in {"open", "write"}
    BY <1>1, <1>2
  <2>3. TypeOK'
    BY <1>2, <1>3, <2>1 DEF TypeOK, GInv, Shapes
  <2> QED BY <1>2, <2>1, <2>2, <2>3 DEF Shapes, GInv
<1>6. FilesAreWritable' /\ HeldIsWritable'
  BY <1>2 DEF GInv, FilesAreWritable, HeldIsWritable
<1>7. ServedInOrder'
  BY <1>2 DEF GInv, ServedInOrder
<1>8. ASSUME NEW d \in Commands, d # c
      PROVE  pc'[d] = pc[d] /\ version'[d] = version[d] /\ checked'[d] = checked[d]
  BY <1>1, <1>2, <1>8
<1>9. pc'[c] = at /\ version'[c] = {v} /\ checked'[c] = TextsOf(Registered(v))
  BY <1>1, <1>2
<1>10. \A w, t : Registered(w)' = Registered(w) /\ HasApprovals(t)' = HasApprovals(t)
  BY <1>2 DEF Registered, HasApprovals, SignedApprovers
<1>11. ASSUME NEW d \in Commands
       PROVE  LookupHolds(d)'
  <2>1. CASE d = c
    BY <1>4, <1>9, <1>10, <2>1 DEF LookupHolds
  <2>2. CASE d # c
    BY <1>2, <1>8, <1>10, <2>2 DEF GInv, ApprovedInOrder, LookupHolds, Readable
  <2> QED BY <2>1, <2>2
<1>12. ApprovedInOrder'
  <2>1. ASSUME NEW d \in Commands
        PROVE  /\ pc'[d] = "idle" => checked'[d] = {}
               /\ \A t, u \in checked'[d] : t = u
               /\ pc'[d] = "promote" => \A t \in checked'[d] : HasApprovals(t)
    <3>1. CASE d = c
      BY <1>4, <1>9, <3>1
    <3>2. CASE d # c
      BY <1>8, <3>2 DEF GInv, ApprovedInOrder
    <3> QED BY <3>1, <3>2
  <2> QED BY <1>2, <1>10, <1>11, <2>1 DEF GInv, ApprovedInOrder
<1>13. PromotedAsApproved'
  BY <1>2, <1>8, <1>9 DEF GInv, PromotedAsApproved
<1> QED BY <1>5, <1>6, <1>7, <1>12, <1>13 DEF GInv

\* A command ends without touching a file.
LEMMA KilledKeeps ==
  ASSUME GInv, NEW c \in Commands, Killed(c)
  PROVE  GInv'
<1>1. /\ pc \in [Commands -> {"idle", "check", "approve", "promote", "open", "write"}]
      /\ held \in [Commands -> [Files -> SUBSET Items]]
      /\ todo \in [Commands -> Scripts \cup {<<>>, <<"active">>}]
      /\ version \in [Commands -> SUBSET Versions]
      /\ checked \in [Commands -> SUBSET Texts]
  BY DEF GInv, Shapes, TypeOK
<1>2. /\ pc' = [pc EXCEPT ![c] = "idle"]
      /\ todo' = [todo EXCEPT ![c] = <<>>]
      /\ held' = [held EXCEPT ![c] = Nothing]
      /\ version' = [version EXCEPT ![c] = {}]
      /\ checked' = [checked EXCEPT ![c] = {}]
      /\ overtaken' = overtaken \ {c}
      /\ UNCHANGED <<file, started, promoted, signed>>
  BY DEF Killed, Ends
<1>3. Nothing \in [Files -> SUBSET Items]
  BY DEF Nothing
<1>4. Shapes'
  <2>1. /\ pc' \in [Commands -> {"idle", "check", "approve", "promote", "open", "write"}]
        /\ held' \in [Commands -> [Files -> SUBSET Items]]
        /\ todo' \in [Commands -> Scripts \cup {<<>>, <<"active">>}]
        /\ version' \in [Commands -> SUBSET Versions]
        /\ checked' \in [Commands -> SUBSET Texts]
    BY <1>1, <1>2, <1>3
  <2>2. \A d \in Commands : pc'[d] \in {"open", "write"} => todo'[d] # <<>>
    <3>1. ASSUME NEW d \in Commands, pc'[d] \in {"open", "write"}
          PROVE  todo'[d] = todo[d] /\ pc[d] \in {"open", "write"}
      BY <1>1, <1>2, <3>1
    <3> QED BY <3>1 DEF GInv, Shapes
  <2>3. TypeOK'
    BY <1>2, <2>1, ScriptsAreSequences DEF TypeOK, GInv, Shapes
  <2> QED BY <2>1, <2>2, <2>3 DEF Shapes
<1>5. FilesAreWritable'
  BY <1>2 DEF GInv, FilesAreWritable
<1>6. \A d \in Commands :
        /\ d # c => /\ pc'[d] = pc[d] /\ todo'[d] = todo[d] /\ held'[d] = held[d]
                    /\ version'[d] = version[d] /\ checked'[d] = checked[d]
                    /\ d \notin overtaken' => d \notin overtaken
        /\ d = c => pc'[d] = "idle" /\ todo'[d] = <<>> /\ held'[d] = Nothing /\ checked'[d] = {}
  BY <1>1, <1>2
<1>7. HeldIsWritable'
  BY <1>6, NothingIsWritable DEF GInv, HeldIsWritable
<1>8. ServedInOrder'
  <2>1. <<>> # <<"registry", "active">> /\ <<>> # <<"active">>
    BY ScriptsAreSequences DEF Scripts
  <2> QED BY <1>2, <1>6, <2>1 DEF GInv, ServedInOrder
<1>9. ApprovedInOrder'
  <2>1. \A w, t : Registered(w)' = Registered(w) /\ HasApprovals(t)' = HasApprovals(t)
    BY <1>2 DEF Registered, HasApprovals, SignedApprovers
  <2>2. ASSUME NEW d \in Commands
        PROVE  LookupHolds(d)'
    BY <1>2, <1>6, <2>1 DEF GInv, ApprovedInOrder, LookupHolds, Readable
  <2>3. ASSUME NEW d \in Commands
        PROVE  /\ pc'[d] = "idle" => checked'[d] = {}
               /\ \A t, u \in checked'[d] : t = u
               /\ pc'[d] = "promote" => \A t \in checked'[d] : HasApprovals(t)
    BY <1>6 DEF GInv, ApprovedInOrder
  <2> QED BY <1>2, <2>1, <2>2, <2>3 DEF GInv, ApprovedInOrder
<1>10. PromotedAsApproved'
  <2>1. SUFFICES ASSUME NEW d \in Commands, pc'[d] \in {"open", "write"}, d \notin overtaken',
                        NEW t \in checked'[d], held'[d]["active"] # {}
                 PROVE  held'[d]["active"] = {t} /\ HasApprovals(t)
    BY <1>2 DEF PromotedAsApproved, HasApprovals, SignedApprovers
  <2>2. /\ pc[d] \in {"open", "write"} /\ d \notin overtaken /\ t \in checked[d]
        /\ held'[d] = held[d]
    BY <1>6, <2>1
  <2> QED BY <2>1, <2>2 DEF GInv, PromotedAsApproved, HasApprovals, SignedApprovers
<1> QED BY <1>4, <1>5, <1>7, <1>8, <1>9, <1>10 DEF GInv

\* The approvals were counted: only the command's place changes.
LEMMA ApprovalStatusKeeps ==
  ASSUME GInv, NEW c \in Commands, ApprovalStatus(c)
  PROVE  GInv'
<1>1. CASE Killed(c)
  BY <1>1, KilledKeeps
<1>2. CASE ~Killed(c)
  <2>1. /\ pc[c] = "check" /\ \A t \in checked[c] : IsApproved(t)
        /\ pc' = [pc EXCEPT ![c] = "promote"]
        /\ UNCHANGED <<file, todo, held, version, checked, started, promoted, signed, overtaken>>
    BY <1>2 DEF ApprovalStatus, Waits, ghosts
  <2>2. pc \in [Commands -> {"idle", "check", "approve", "promote", "open", "write"}]
    BY DEF GInv, Shapes, TypeOK
  <2>3. \A t \in checked[c] : HasApprovals(t)
    BY <2>1, ApprovedMeansSigned DEF GInv, Shapes
  <2>4. \A d \in Commands : (d # c => pc'[d] = pc[d]) /\ (d = c => pc'[d] = "promote")
    BY <2>1, <2>2
  <2>5. Shapes'
    <3>1. TypeOK'
      BY <2>1, <2>2 DEF TypeOK, GInv, Shapes
    <3> QED BY <2>1, <2>4, <3>1 DEF GInv, Shapes
  <2>6. FilesAreWritable' /\ HeldIsWritable' /\ ServedInOrder'
    BY <2>1 DEF GInv, FilesAreWritable, HeldIsWritable, ServedInOrder
  <2>7. ApprovedInOrder'
    <3>1. \A w, t : Registered(w)' = Registered(w) /\ HasApprovals(t)' = HasApprovals(t)
      BY <2>1 DEF Registered, HasApprovals, SignedApprovers
    <3>2. ASSUME NEW d \in Commands
          PROVE  LookupHolds(d)'
      BY <2>1, <2>4, <3>1 DEF GInv, ApprovedInOrder, LookupHolds, Readable
    <3> QED BY <2>1, <2>3, <2>4, <3>1, <3>2 DEF GInv, ApprovedInOrder
  <2>8. PromotedAsApproved'
    BY <2>1, <2>4 DEF GInv, PromotedAsApproved
  <2> QED BY <2>5, <2>6, <2>7, <2>8 DEF GInv
<1> QED BY <1>1, <1>2
\* Opening truncates; a truncated registry cannot be read.
LEMMA OpenKeeps ==
  ASSUME GInv, NEW c \in Commands, Open(c)
  PROVE  GInv'
<1> DEFINE f == Head(todo[c])
<1>1. /\ pc \in [Commands -> {"idle", "check", "approve", "promote", "open", "write"}]
      /\ file \in [Files -> [state : {"whole", "truncated", "torn", "absent"}, items : SUBSET Items]]
  BY DEF GInv, Shapes, TypeOK, Items
<1>2. /\ pc[c] = "open" /\ pc' = [pc EXCEPT ![c] = "write"]
      /\ file' = [file EXCEPT ![f] = Truncated]
      /\ UNCHANGED <<todo, held, version, checked, started, promoted, signed, overtaken>>
  BY DEF Open, Waits, ghosts
<1>3. f \in Files
  <2>1. todo[c] \in Seq(Files) /\ todo[c] # <<>>
    BY <1>2 DEF GInv, Shapes, TypeOK
  <2> QED BY <2>1
<1> HIDE DEF f
<1>4. \A d \in Commands : (d # c => pc'[d] = pc[d]) /\ (d = c => pc'[d] = "write")
  BY <1>1, <1>2
<1>5. /\ file' \in [Files -> [state : {"whole", "truncated", "torn", "absent"}, items : SUBSET Items]]
      /\ \A g \in Files : (g # f => file'[g] = file[g]) /\ (g = f => file'[g] = Truncated)
  BY <1>1, <1>2, <1>3 DEF Truncated
<1>6. \A g \in Files : \/ file'[g] = file[g]
                       \/ file'[g].items = {} /\ file'[g].state = "truncated"
  BY <1>5 DEF Truncated
<1>7. Shapes'
  <2>1. TypeOK'
    BY <1>1, <1>2, <1>5 DEF TypeOK, GInv, Shapes, Items
  <2> QED BY <1>2, <1>4, <2>1 DEF GInv, Shapes
<1>8. FilesAreWritable'
  <2>1. ASSUME NEW g \in Files
        PROVE  file'[g].items = file[g].items \/ file'[g].items = {}
    BY <1>6
  <2>2. [g \in Files |-> file'[g].items] \in [Files -> SUBSET Items]
    BY <1>5
  <2>3. OneActiveIn({}) /\ UniqueVersions({})
    BY DEF OneActiveIn, ActiveIn, UniqueVersions
  <2>4. "registry" \in Files /\ "models" \in Files
    BY DEF Files
  <2> QED BY <2>1, <2>2, <2>3, <2>4 DEF GInv, FilesAreWritable, Writable
<1>9. HeldIsWritable'
  BY <1>2 DEF GInv, HeldIsWritable
<1>10. ServedInOrder'
  BY <1>2, <1>6 DEF GInv, ServedInOrder, Files
<1>11. Readable("registry")' => Readable("registry") /\ file'["registry"] = file["registry"]
  BY <1>6 DEF Readable, Files
<1>12. ApprovedInOrder'
  <2>1. \A t : HasApprovals(t)' = HasApprovals(t)
    BY <1>2 DEF HasApprovals, SignedApprovers
  <2>2. ASSUME NEW d \in Commands
        PROVE  LookupHolds(d)'
    BY <1>2, <1>4, <1>11 DEF GInv, ApprovedInOrder, LookupHolds, Registered
  <2>3. file'["approvals"].items \subseteq file["approvals"].items
    BY <1>6 DEF Files
  <2> QED BY <1>2, <1>4, <2>1, <2>2, <2>3 DEF GInv, ApprovedInOrder
<1>13. PromotedAsApproved'
  BY <1>2, <1>4 DEF GInv, PromotedAsApproved
<1> QED BY <1>7, <1>8, <1>9, <1>10, <1>12, <1>13 DEF GInv

\* A file takes the list held for it, or is torn.
LEMMA WriteKeeps ==
  ASSUME GInv, NEW c \in Commands, Write(c)
  PROVE  GInv'
<1> DEFINE f == Head(todo[c])
           last == Len(todo[c]) = 1
           next == IF last THEN <<>> ELSE Tail(todo[c])
<1>1. /\ pc \in [Commands -> {"idle", "check", "approve", "promote", "open", "write"}]
      /\ file \in [Files -> [state : {"whole", "truncated", "torn", "absent"}, items : SUBSET Items]]
      /\ held \in [Commands -> [Files -> SUBSET Items]]
      /\ todo \in [Commands -> Scripts \cup {<<>>, <<"active">>}]
      /\ version \in [Commands -> SUBSET Versions]
      /\ checked \in [Commands -> SUBSET Texts]
  BY DEF GInv, Shapes, TypeOK, Items
<1>2. PICK content \in Written(c, f) :
        /\ file' = [file EXCEPT ![f] = content]
        /\ promoted' = promoted \cup
             IF f = "registry" THEN {p.text : p \in ActiveIn(held[c][f])} ELSE {}
        /\ signed' = signed \cup IF f = "approvals" THEN content.items ELSE {}
        /\ overtaken' = (overtaken \ {d \in {c} : Len(todo[c]) = 1}) \cup
             IF f = "registry" THEN {d \in Commands \ {c} : checked[d] # {}} ELSE {}
  BY DEF Write
<1>3. pc[c] = "write" /\ todo[c] \in Seq(Files) /\ todo[c] # <<>>
  BY DEF Write, GInv, Shapes, TypeOK
<1>4. f \in Files
  BY <1>3
<1>5. /\ todo[c] = <<"registry", "active">> => f = "registry" /\ ~last /\ next = <<"active">>
      /\ todo[c] # <<"registry", "active">> => last
      /\ todo[c] = <<"active">> => f = "active"
      /\ f = "active" => todo[c] = <<"active">>
  <2>1. CASE todo[c] = <<"registry", "active">>
    BY <2>1
  <2>2. CASE todo[c] # <<"registry", "active">>
    <3>1. todo[c] \in {<<"registry">>, <<"approvals">>, <<"models">>, <<"active">>}
      BY <1>1, <1>3, <2>2 DEF Scripts
    <3>2. CASE todo[c] = <<"active">>
      BY <2>2, <3>2
    <3>3. CASE todo[c] \in {<<"registry">>, <<"approvals">>, <<"models">>}
      <4>1. f \in {"registry", "approvals", "models"} /\ last
        BY <3>3
      <4>2. Head(<<"active">>) = "active"
        OBVIOUS
      <4> QED BY <2>2, <4>1, <4>2
    <3> QED BY <3>1, <3>2, <3>3
  <2> QED BY <2>1, <2>2
<1>6. /\ content.items = held[c][f] \/ content.items = {}
      /\ content \in [state : {"whole", "torn"}, items : SUBSET Items]
  BY <1>1, <1>2, <1>4 DEF Written, Whole, Torn
<1>7. started' = started
  BY DEF Write
<1>8. \A d \in Commands :
        /\ d # c => /\ pc'[d] = pc[d] /\ todo'[d] = todo[d] /\ held'[d] = held[d]
                    /\ version'[d] = version[d] /\ checked'[d] = checked[d]
                    /\ d \notin overtaken' => d \notin overtaken
                    /\ f = "registry" /\ d \notin overtaken' => checked[d] = {}
        /\ d = c => /\ pc'[d] = IF last THEN "idle" ELSE "open"
                    /\ todo'[d] = next
                    /\ held'[d] = IF last THEN Nothing ELSE held[c]
                    /\ checked'[d] = IF last THEN {} ELSE checked[c]
                    /\ ~last /\ d \notin overtaken' => d \notin overtaken
  <2>1. CASE last
    <3>1. Ends(c)
      BY <2>1 DEF Write
    <3> QED BY <1>1, <1>2, <2>1, <3>1 DEF Ends
  <2>2. CASE ~last
    <3>1. /\ pc' = [pc EXCEPT ![c] = "open"] /\ todo' = [todo EXCEPT ![c] = Tail(@)]
          /\ held' = held /\ version' = version /\ checked' = checked
      BY <2>2 DEF Write, Waits
    <3> QED BY <1>1, <1>2, <2>2, <3>1
  <2> QED BY <2>1, <2>2
<1>9. /\ pc' \in [Commands -> {"idle", "check", "approve", "promote", "open", "write"}]
      /\ held' \in [Commands -> [Files -> SUBSET Items]]
      /\ todo' \in [Commands -> Scripts \cup {<<>>, <<"active">>}]
      /\ version' \in [Commands -> SUBSET Versions]
      /\ checked' \in [Commands -> SUBSET Texts]
  <2>1. Nothing \in [Files -> SUBSET Items]
    BY DEF Nothing
  <2>2. CASE last
    <3>1. Ends(c)
      BY <2>2 DEF Write
    <3> QED BY <1>1, <2>1, <3>1 DEF Ends
  <2>3. CASE ~last
    <3>1. /\ pc' = [pc EXCEPT ![c] = "open"] /\ todo' = [todo EXCEPT ![c] = Tail(@)]
          /\ held' = held /\ version' = version /\ checked' = checked
      BY <2>3 DEF Write, Waits
    <3>2. Tail(todo[c]) = <<"active">>
      BY <1>5, <2>3
    <3> QED BY <1>1, <3>1, <3>2
  <2> QED BY <2>2, <2>3
<1>10. /\ file' \in [Files -> [state : {"whole", "truncated", "torn", "absent"}, items : SUBSET Items]]
       /\ \A g \in Files : (g # f => file'[g] = file[g]) /\ (g = f => file'[g] = content)
  BY <1>1, <1>2, <1>4, <1>6
<1>11. Writable(held[c]) /\ held[c] \in [Files -> SUBSET Items]
  BY DEF GInv, HeldIsWritable, Writable
<1> HIDE DEF f, last, next
<1>12. promoted' \subseteq Texts /\ signed' \subseteq PolicyApproval /\ overtaken' \subseteq Commands
  <2>1. f = "registry" => {p.text : p \in ActiveIn(held[c][f])} \subseteq Texts
    BY <1>11 DEF Writable, Files, ItemsOf, ActiveIn, RegisteredPolicy
  <2>2. f = "approvals" => content.items \subseteq PolicyApproval
    BY <1>6, <1>11 DEF Writable, Files, ItemsOf
  <2> QED BY <1>2, <2>1, <2>2 DEF GInv, Shapes, TypeOK
<1>13. Shapes'
  <2>1. TypeOK'
    BY <1>7, <1>9, <1>10, <1>12, ScriptsAreSequences DEF TypeOK, GInv, Shapes, Items
  <2>2. ASSUME NEW d \in Commands, pc'[d] \in {"open", "write"}
        PROVE  todo'[d] # <<>>
    <3>1. CASE d # c
      BY <1>8, <2>2, <3>1 DEF GInv, Shapes
    <3>2. CASE d = c
      BY <1>5, <1>8, <2>2, <3>2, ScriptsAreSequences
    <3> QED BY <3>1, <3>2
  <2> QED BY <1>9, <2>1, <2>2 DEF Shapes
<1>14. FilesAreWritable'
  <2>1. ASSUME NEW g \in Files
        PROVE  file'[g].items \in {file[g].items, held[c][g], {}}
    BY <1>6, <1>10
  <2>2. [g \in Files |-> file'[g].items] \in [Files -> SUBSET Items]
    BY <1>10
  <2>3. OneActiveIn({}) /\ UniqueVersions({})
    BY DEF OneActiveIn, ActiveIn, UniqueVersions
  <2>4. "registry" \in Files /\ "models" \in Files
    BY DEF Files
  <2>5. Writable([g \in Files |-> file[g].items])
    BY DEF GInv, FilesAreWritable
  <2> QED BY <1>11, <2>1, <2>2, <2>3, <2>4, <2>5 DEF FilesAreWritable, Writable
<1>15. HeldIsWritable'
  BY <1>8, <1>11, NothingIsWritable DEF GInv, HeldIsWritable
<1>16. ServedInOrder'
  <2>1. promoted \subseteq promoted' /\ (f = "registry" => TextsOf(ActiveIn(held[c][f])) \subseteq promoted')
    BY <1>2 DEF TextsOf
  <2>2. file'["active"].items \subseteq promoted'
    <3>1. CASE f = "active"
      BY <1>5, <1>6, <1>10, <2>1, <3>1 DEF GInv, ServedInOrder, Files
    <3>2. CASE f # "active"
      BY <1>10, <2>1, <3>2 DEF GInv, ServedInOrder, Files
    <3> QED BY <3>1, <3>2
  <2>3. ASSUME NEW d \in Commands
        PROVE  /\ todo'[d] = <<"registry", "active">> =>
                    held'[d]["active"] \subseteq TextsOf(ActiveIn(held'[d]["registry"]))
               /\ todo'[d] = <<"active">> => held'[d]["active"] \subseteq promoted'
    <3>1. CASE d # c
      BY <1>8, <2>1, <3>1 DEF GInv, ServedInOrder
    <3>2. CASE d = c /\ last
      <4>1. todo'[d] = <<>>
        BY <1>8, <3>2 DEF next
      <4> QED BY <4>1, ScriptsAreSequences DEF Scripts
    <3>3. CASE d = c /\ ~last
      <4>1. todo[c] = <<"registry", "active">> /\ f = "registry" /\ todo'[d] = <<"active">>
        BY <1>5, <1>8, <3>3
      <4>2. <<"active">> # <<"registry", "active">>
        BY ScriptsAreSequences DEF Scripts
      <4> QED BY <1>8, <2>1, <3>3, <4>1, <4>2 DEF GInv, ServedInOrder
    <3> QED BY <3>1, <3>2, <3>3
  <2> QED BY <2>2, <2>3 DEF ServedInOrder
<1>17. \A t : HasApprovals(t) => HasApprovals(t)'
  BY <1>2, SignaturesAccumulate
<1>18. ApprovedInOrder'
  <2>1. file'["approvals"].items \subseteq signed'
    <3>1. CASE f = "approvals"
      BY <1>2, <1>10, <3>1 DEF Files
    <3>2. CASE f # "approvals"
      BY <1>2, <1>10, <3>2 DEF GInv, ApprovedInOrder, Files
    <3> QED BY <3>1, <3>2
  <2>2. f # "registry" => Readable("registry")' = Readable("registry") /\ \A w : Registered(w)' = Registered(w)
    BY <1>10 DEF Readable, Registered, Files
  <2>3. ASSUME NEW d \in Commands
        PROVE  LookupHolds(d)'
    <3>1. CASE d = c
      BY <1>8, <3>1 DEF LookupHolds
    <3>2. CASE d # c
      BY <1>8, <2>2, <3>2 DEF GInv, ApprovedInOrder, LookupHolds
    <3> QED BY <3>1, <3>2
  <2>4. ASSUME NEW d \in Commands
        PROVE  /\ pc'[d] = "idle" => checked'[d] = {}
               /\ \A t, u \in checked'[d] : t = u
               /\ pc'[d] = "promote" => \A t \in checked'[d] : HasApprovals(t)
    BY <1>8 DEF GInv, ApprovedInOrder
  <2> QED BY <1>17, <2>1, <2>3, <2>4 DEF ApprovedInOrder
<1>19. PromotedAsApproved'
  <2>1. SUFFICES ASSUME NEW d \in Commands, pc'[d] \in {"open", "write"}, d \notin overtaken',
                        NEW t \in checked'[d], held'[d]["active"] # {}
                 PROVE  held'[d]["active"] = {t} /\ HasApprovals(t)'
    BY DEF PromotedAsApproved, HasApprovals, SignedApprovers
  <2>2. /\ pc[d] \in {"open", "write"} /\ d \notin overtaken /\ t \in checked[d]
        /\ held'[d] = held[d]
    BY <1>3, <1>8, <2>1
  <2>3. held[d]["active"] = {t} /\ HasApprovals(t)
    BY <2>1, <2>2 DEF GInv, PromotedAsApproved, HasApprovals, SignedApprovers
  <2> QED BY <1>17, <2>2, <2>3
<1> QED BY <1>13, <1>14, <1>15, <1>16, <1>18, <1>19 DEF GInv
LEMMA InitEstablishes == Init => GInv
<1> SUFFICES ASSUME Init
             PROVE  GInv
  OBVIOUS
<1>1. PICK candidates \in SUBSET Texts :
        /\ \A t, u \in candidates : VersionOf[t] = VersionOf[u] => t = u
        /\ file = [f \in Files |->
             IF f = "registry" /\ candidates # {}
             THEN Whole({[version |-> VersionOf[t], text |-> t, status |-> "candidate"] :
                           t \in candidates})
             ELSE Absent]
  BY DEF Init
<1> DEFINE entries == {[version |-> VersionOf[t], text |-> t, status |-> "candidate"] :
                         t \in candidates}
<1>2. /\ entries \subseteq RegisteredPolicy
      /\ ActiveIn(entries) = {} /\ UniqueVersions(entries)
  BY <1>1, GovernanceAssumption
    DEF RegisteredPolicy, PolicyStatus, ActiveIn, UniqueVersions
<1>3. /\ file \in [Files -> [state : {"whole", "truncated", "torn", "absent"}, items : SUBSET Items]]
      /\ \A f \in Files : file[f].items = IF f = "registry" THEN entries ELSE {}
  BY <1>1, <1>2 DEF Whole, Absent, Items
<1> HIDE DEF entries
<1>4. /\ pc = [c \in Commands |-> "idle"] /\ todo = [c \in Commands |-> <<>>]
      /\ held = [c \in Commands |-> Nothing] /\ version = [c \in Commands |-> {}]
      /\ checked = [c \in Commands |-> {}] /\ started = 0
      /\ promoted = {} /\ signed = {} /\ overtaken = {}
  BY DEF Init
<1>5. Nothing \in [Files -> SUBSET Items]
  BY DEF Nothing
<1>6. Shapes
  <2>1. TypeOK
    BY <1>3, <1>4, ScriptsAreSequences, GovernanceAssumption DEF TypeOK, Items
  <2> QED BY <1>4, <1>5, <2>1 DEF Shapes
<1>7. FilesAreWritable
  <2>1. [f \in Files |-> file[f].items] \in [Files -> SUBSET Items]
    BY <1>3
  <2>2. OneActiveIn(entries) /\ OneActiveIn({})
    BY <1>2 DEF OneActiveIn, ActiveIn
  <2>3. "registry" \in Files /\ "models" \in Files /\ ItemsOf("registry") = RegisteredPolicy
    BY DEF Files, ItemsOf
  <2> QED BY <1>2, <1>3, <2>1, <2>2, <2>3 DEF FilesAreWritable, Writable
<1>8. HeldIsWritable
  BY <1>4, NothingIsWritable DEF HeldIsWritable
<1>9. ServedInOrder
  <2>1. <<>> # <<"registry", "active">> /\ <<>> # <<"active">>
    BY ScriptsAreSequences DEF Scripts
  <2> QED BY <1>3, <1>4, <2>1 DEF ServedInOrder, Files
<1>10. ApprovedInOrder
  BY <1>3, <1>4 DEF ApprovedInOrder, LookupHolds, Files
<1>11. PromotedAsApproved
  BY <1>4 DEF PromotedAsApproved
<1> QED BY <1>6, <1>7, <1>8, <1>9, <1>10, <1>11 DEF GInv

LEMMA NextPreserves == GInv /\ [Next]_vars => GInv'
<1> SUFFICES ASSUME GInv, [Next]_vars
             PROVE  GInv'
  OBVIOUS
<1>1. CASE UNCHANGED vars
  <2>1. UNCHANGED <<file, pc, todo, held, version, checked, started, promoted, signed, overtaken>>
    BY <1>1 DEF vars, command, ghosts
  <2>2. Shapes'
    BY <2>1 DEF GInv, Shapes, TypeOK
  <2>3. FilesAreWritable' /\ HeldIsWritable' /\ ServedInOrder'
    BY <2>1 DEF GInv, FilesAreWritable, HeldIsWritable, ServedInOrder
  <2>4. ApprovedInOrder'
    <3>1. \A w, t : Registered(w)' = Registered(w) /\ HasApprovals(t)' = HasApprovals(t)
      BY <2>1 DEF Registered, HasApprovals, SignedApprovers
    <3> QED BY <2>1, <3>1 DEF GInv, ApprovedInOrder, LookupHolds, Readable
  <2>5. PromotedAsApproved'
    BY <2>1 DEF GInv, PromotedAsApproved
  <2> QED BY <2>2, <2>3, <2>4, <2>5 DEF GInv
<1>2. CASE Next
  <2>1. PICK c \in Commands : Step(c)
    BY <1>2 DEF Next
  <2>2. CASE PolicyRegister(c)
    BY <2>2, PolicyRegisterKeeps
  <2>3. CASE PolicyPromote(c)
    BY <2>3, PolicyPromoteKeeps
  <2>4. CASE PolicyPromoteApproved(c)
    BY <2>4, LookupKeeps DEF PolicyPromoteApproved
  <2>5. CASE ApprovalStatus(c)
    BY <2>5, ApprovalStatusKeeps
  <2>6. CASE PromoteApproved(c)
    BY <2>6, PromoteApprovedKeeps
  <2>7. CASE PolicyApprove(c)
    BY <2>7, LookupKeeps DEF PolicyApprove
  <2>8. CASE AddApproval(c)
    BY <2>8, AddApprovalKeeps
  <2>9. CASE ModelRegister(c)
    BY <2>9, ModelRegisterKeeps
  <2>10. CASE ModelPromote(c)
    BY <2>10, ModelPromoteKeeps
  <2>11. CASE Open(c)
    BY <2>11, OpenKeeps
  <2>12. CASE Write(c)
    BY <2>12, WriteKeeps
  <2>13. CASE Killed(c)
    BY <2>13, KilledKeeps
  <2> QED BY <2>1, <2>2, <2>3, <2>4, <2>5, <2>6, <2>7, <2>8, <2>9, <2>10, <2>11, <2>12, <2>13 DEF Step
<1> QED BY <1>1, <1>2

-----------------------------------------------------------------------------
(* The theorems.                                                           *)

\* The strengthening is an invariant of any number of concurrent commands.
THEOREM GovernanceInvariant == Spec => []GInv
<1> QED BY InitEstablishes, NextPreserves, PTL DEF Spec

\* No interleaving, overwriting or killing of commands leaves two active
\* entries in a registry file (registry.py, models/registry.py).
THEOREM OneActive == Spec => []AtMostOneActive
<1>1. ASSUME NEW entries, OneActiveIn(entries)
      PROVE  Cardinality(ActiveIn(entries)) <= 1
  <2>1. CASE ActiveIn(entries) = {}
    BY <2>1, FS_EmptySet
  <2>2. CASE ActiveIn(entries) # {}
    <3>1. PICK e : ActiveIn(entries) = {e}
      BY <1>1, <2>2 DEF OneActiveIn
    <3> QED BY <3>1, FS_Singleton
  <2> QED BY <2>1, <2>2
<1>2. GInv => AtMostOneActive
  BY <1>1 DEF GInv, FilesAreWritable, Writable, AtMostOneActive, Files
<1> QED BY <1>2, GovernanceInvariant, PTL

\* The API's policy file holds nothing but a policy that was the registry's
\* active one, wherever a promotion is killed (cli/main.py policy_promote).
THEOREM ServedPromoted == Spec => []ServedWasPromoted
<1>1. GInv => ServedWasPromoted
  BY DEF GInv, ServedInOrder, ServedWasPromoted
<1> QED BY <1>1, GovernanceInvariant, PTL

\* policy_promote_approved promotes the text that enough approvers signed,
\* unless the registry was written between its check and its promotion.
THEOREM ApprovedPromotion == Spec => []PromotedAsApproved
<1>1. GInv => PromotedAsApproved
  BY DEF GInv
<1> QED BY <1>1, GovernanceInvariant, PTL
=============================================================================
