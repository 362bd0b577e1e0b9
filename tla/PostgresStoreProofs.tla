------------------------ MODULE PostgresStoreProofs ------------------------
(***************************************************************************)
(* What holds of PostgresStore for any number of connections, events and   *)
(* uuids: its answers are kept, only deletes of rows deadlock, a prune      *)
(* accounts for what it took, and what a transaction writes becomes        *)
(* visible together.                                                       *)
(***************************************************************************)
EXTENDS PostgresStore, FiniteSetTheorems, TLAPS

-----------------------------------------------------------------------------
(* Scripts.                                                                *)

IsScript(q) == \E S : q \in Seq(S)

LEMMA OneStatement == ASSUME NEW x PROVE IsScript(<<x>>)
<1>1. <<x>> \in Seq({x})
  OBVIOUS
<1> QED BY <1>1 DEF IsScript

LEMMA NoStatement == IsScript(<<>>)
<1>1. <<>> \in Seq({})
  OBVIOUS
<1> QED BY <1>1 DEF IsScript

\* Two scripts, one after the other.
LEMMA ScriptConcat ==
  ASSUME NEW q, NEW r, IsScript(q), IsScript(r)
  PROVE  /\ IsScript(q \o r) /\ Len(q) \in Nat /\ Len(r) \in Nat
         /\ Len(q \o r) = Len(q) + Len(r)
         /\ DOMAIN q = 1 .. Len(q) /\ DOMAIN r = 1 .. Len(r)
         /\ DOMAIN (q \o r) = 1 .. Len(q) + Len(r)
         /\ \A n \in 1 .. Len(q) : (q \o r)[n] = q[n]
         /\ \A n \in 1 .. Len(q) + Len(r) :
              n > Len(q) => n - Len(q) \in 1 .. Len(r) /\ (q \o r)[n] = r[n - Len(q)]
<1>1. PICK S : q \in Seq(S)
  BY DEF IsScript
<1>2. PICK T : r \in Seq(T)
  BY DEF IsScript
<1>3. q \in Seq(S \cup T) /\ r \in Seq(S \cup T)
  BY <1>1, <1>2
<1> QED BY <1>3 DEF IsScript

\* A statement of the two scripts is a statement of one of them.
LEMMA FromEither ==
  ASSUME NEW q, NEW r, IsScript(q), IsScript(r), NEW n \in DOMAIN (q \o r)
  PROVE  \/ n <= Len(q) /\ n \in DOMAIN q /\ (q \o r)[n] = q[n]
         \/ n > Len(q) /\ n - Len(q) \in DOMAIN r /\ (q \o r)[n] = r[n - Len(q)]
<1>1. n \in 1 .. Len(q) + Len(r) /\ Len(q) \in Nat /\ Len(r) \in Nat
      /\ DOMAIN q = 1 .. Len(q) /\ DOMAIN r = 1 .. Len(r)
  BY ScriptConcat
<1>2. CASE n <= Len(q)
  <2>1. n \in 1 .. Len(q)
    BY <1>1, <1>2
  <2> QED BY <1>1, <1>2, <2>1, ScriptConcat
<1>3. CASE n > Len(q)
  BY <1>1, <1>3, ScriptConcat
<1> QED BY <1>1, <1>2, <1>3

\* What is left of a script after its first statement.
LEMMA ScriptTail ==
  ASSUME NEW q, IsScript(q), q # <<>>
  PROVE  /\ IsScript(Tail(q)) /\ Len(q) \in Nat \ {0} /\ Len(Tail(q)) = Len(q) - 1
         /\ DOMAIN q = 1 .. Len(q) /\ DOMAIN Tail(q) = 1 .. Len(q) - 1
         /\ Head(q) = q[1] /\ \A n \in 1 .. Len(q) - 1 : Tail(q)[n] = q[n + 1]
         /\ Tail(q) = <<>> <=> Len(q) = 1
<1>1. PICK S : q \in Seq(S)
  BY DEF IsScript
<1>2. Tail(q) \in Seq(S) /\ Len(q) \in Nat \ {0} /\ Len(Tail(q)) = Len(q) - 1
  BY <1>1
<1>3. DOMAIN q = 1 .. Len(q) /\ DOMAIN Tail(q) = 1 .. Len(q) - 1
  BY <1>1, <1>2
<1>4. Head(q) = q[1] /\ \A n \in 1 .. Len(q) - 1 : Tail(q)[n] = q[n + 1]
  BY <1>1, <1>2
<1>5. Tail(q) = <<>> <=> Len(Tail(q)) = 0
  BY <1>2
<1>6. Tail(q) = <<>> <=> Len(q) = 1
  BY <1>2, <1>5
<1>7. IsScript(Tail(q))
  BY <1>2 DEF IsScript
<1> QED BY <1>2, <1>3, <1>4, <1>6, <1>7

Inserting == {"insert", "insert_or_nothing", "insert_entry"}
Replacing == {"publish", "count_attempt", "close_case", "delete"}

IsWrite(x) == x.do \in Inserting \cup Replacing

\* A transaction ends with its only commit, and looks an event up at its start.
WellFormed(q) ==
  /\ IsScript(q) /\ q # <<>> /\ q[Len(q)].do = "commit"
  /\ \A n \in DOMAIN q : n < Len(q) => q[n].do # "commit"
  /\ \A n \in DOMAIN q : n > 1 => q[n].do # "look_up"
  /\ \A n \in DOMAIN q : IsWrite(q[n]) => TableOf(q[n]) \in Tables

LEMMA WellFormedTail ==
  ASSUME NEW q, WellFormed(q)
  PROVE  IF Head(q).do = "commit" THEN Tail(q) = <<>>
         ELSE WellFormed(Tail(q)) /\ Head(Tail(q)).do # "look_up"
<1>1. IsScript(q) /\ q # <<>>
  BY DEF WellFormed
<1>2. CASE Head(q).do = "commit"
  BY <1>1, <1>2, ScriptTail DEF WellFormed
<1>3. CASE Head(q).do # "commit"
  <2>1. Len(q) # 1 /\ Tail(q) # <<>> /\ IsScript(Tail(q)) /\ Len(q) \in Nat
    BY <1>1, <1>3, ScriptTail DEF WellFormed
  <2>2. \A n \in DOMAIN Tail(q) : n + 1 \in DOMAIN q /\ n + 1 > 1 /\ Tail(q)[n] = q[n + 1]
    BY <1>1, ScriptTail
  <2>3. Tail(q)[Len(Tail(q))].do = "commit"
    BY <1>1, <2>1, ScriptTail DEF WellFormed
  <2>4. \A n \in DOMAIN Tail(q) : n < Len(Tail(q)) => Tail(q)[n].do # "commit"
    BY <1>1, <2>1, <2>2, ScriptTail DEF WellFormed
  <2>5. \A n \in DOMAIN Tail(q) : Tail(q)[n].do # "look_up"
    BY <2>2 DEF WellFormed
  <2>6. 1 \in DOMAIN Tail(q) /\ Head(Tail(q)) = Tail(q)[1]
    BY <2>1, ScriptTail
  <2>7. \A n \in DOMAIN Tail(q) : IsWrite(Tail(q)[n]) => TableOf(Tail(q)[n]) \in Tables
    BY <2>2 DEF WellFormed
  <2> QED BY <1>3, <2>1, <2>3, <2>4, <2>5, <2>6, <2>7 DEF WellFormed
<1> QED BY <1>2, <1>3

\* What comes before the commit.
Body(q) ==
  /\ IsScript(q)
  /\ \A n \in DOMAIN q : q[n].do # "commit" /\ (n > 1 => q[n].do # "look_up")
  /\ \A n \in DOMAIN q : IsWrite(q[n]) => TableOf(q[n]) \in Tables

Plain(q) == Body(q) /\ (\A n \in DOMAIN q : q[n].do # "look_up")

LEMMA PlainOne ==
  ASSUME NEW x, x.do # "commit", IsWrite(x) => TableOf(x) \in Tables
  PROVE  Body(<<x>>) /\ (x.do # "look_up" => Plain(<<x>>))
BY OneStatement DEF Body, Plain

LEMMA BodyConcat ==
  ASSUME NEW q, NEW r, Body(q), Plain(r)
  PROVE  Body(q \o r) /\ (Plain(q) => Plain(q \o r))
<1>1. IsScript(q) /\ IsScript(r)
  BY DEF Body, Plain
<1>2. IsScript(q \o r)
  BY <1>1, ScriptConcat
<1>3. \A n \in DOMAIN (q \o r) : \/ n \in DOMAIN q /\ (q \o r)[n] = q[n]
                                 \/ \E k \in DOMAIN r : (q \o r)[n] = r[k]
  BY <1>1, FromEither
<1> QED BY <1>2, <1>3 DEF Body, Plain

LEMMA BodyCommits ==
  ASSUME NEW q, Body(q)
  PROVE  WellFormed(q \o Commit)
<1>1. PICK c : c = Commit
  OBVIOUS
<1>2. IsScript(q) /\ IsScript(c) /\ Len(c) = 1 /\ c[1].do = "commit"
  BY <1>1, OneStatement DEF Body, Commit
<1>3. /\ IsScript(q \o c) /\ Len(q \o c) = Len(q) + Len(c) /\ Len(q) \in Nat
      /\ DOMAIN (q \o c) = 1 .. Len(q) + Len(c)
  BY <1>2, ScriptConcat
<1>4. ASSUME NEW n \in DOMAIN (q \o c)
      PROVE  \/ n \in DOMAIN q /\ n <= Len(q) /\ (q \o c)[n] = q[n]
             \/ n = Len(q) + 1 /\ (q \o c)[n] = c[1]
  <2>1. \/ n <= Len(q) /\ n \in DOMAIN q /\ (q \o c)[n] = q[n]
        \/ n > Len(q) /\ n - Len(q) \in DOMAIN c /\ (q \o c)[n] = c[n - Len(q)]
    BY <1>2, FromEither
  <2>2. n > Len(q) => n = Len(q) + 1 /\ n - Len(q) = 1
    BY <1>2, <1>3
  <2> QED BY <2>1, <2>2
<1>5. Len(q) + 1 \in DOMAIN (q \o c) /\ Len(q \o c) = Len(q) + 1
  BY <1>2, <1>3
<1>6. (q \o c)[Len(q \o c)].do = "commit" /\ q \o c # <<>>
  <2>1. ~(Len(q) + 1 <= Len(q))
    BY <1>3
  <2>2. (q \o c)[Len(q) + 1] = c[1]
    BY <1>4, <1>5, <2>1
  <2>3. Len(q \o c) # 0
    BY <1>3, <1>5
  <2> QED BY <1>2, <1>5, <2>2, <2>3
<1>7. \A n \in DOMAIN (q \o c) : n < Len(q \o c) => (q \o c)[n].do # "commit"
  BY <1>3, <1>4, <1>5 DEF Body
<1>8. \A n \in DOMAIN (q \o c) : n > 1 => (q \o c)[n].do # "look_up"
  BY <1>2, <1>4 DEF Body
<1>9. \A n \in DOMAIN (q \o c) : IsWrite((q \o c)[n]) => TableOf((q \o c)[n]) \in Tables
  BY <1>2, <1>4 DEF Body, IsWrite, Inserting, Replacing
<1> QED BY <1>1, <1>3, <1>6, <1>7, <1>8, <1>9 DEF WellFormed

-----------------------------------------------------------------------------
(* The order in which a transaction writes the tables.                     *)

DeleteRank ==
  [outbox_messages |-> 3, stream_dead_letters |-> 4, events |-> 5, decisions |-> 6,
   review_cases |-> 7, review_decisions |-> 8, audit_entries |-> 9]

InsertRank ==
  [outbox_messages |-> 2, stream_dead_letters |-> 1, events |-> 1, decisions |-> 1,
   review_cases |-> 1, review_decisions |-> 6, audit_entries |-> 9]

Rank(x) == IF x.do \in Inserting THEN InsertRank[TableOf(x)] ELSE DeleteRank[TableOf(x)]

\* Each write of a higher rank than the ones before, from low to high.
Ascends(q, low, high) ==
  /\ IsScript(q)
  /\ \A n \in DOMAIN q : IsWrite(q[n]) => Rank(q[n]) \in low .. high
  /\ \A m, n \in DOMAIN q : m < n /\ IsWrite(q[m]) /\ IsWrite(q[n]) => Rank(q[m]) < Rank(q[n])

LEMMA AscendsOne ==
  ASSUME NEW x, NEW low \in Nat, NEW high \in Nat, IsWrite(x) => Rank(x) \in low .. high
  PROVE  Ascends(<<x>>, low, high)
BY OneStatement DEF Ascends

LEMMA AscendsConcat ==
  ASSUME NEW q, NEW r, NEW low \in Nat, NEW mid \in Nat, NEW high \in Nat,
         low <= mid, mid <= high, Ascends(q, low, mid), Ascends(r, mid + 1, high)
  PROVE  Ascends(q \o r, low, high)
<1>1. IsScript(q) /\ IsScript(r)
  BY DEF Ascends
<1>2. IsScript(q \o r) /\ DOMAIN (q \o r) = 1 .. Len(q) + Len(r)
      /\ Len(q) \in Nat /\ Len(r) \in Nat
  BY <1>1, ScriptConcat
<1>3. \A n \in DOMAIN (q \o r) :
        \/ n <= Len(q) /\ n \in DOMAIN q /\ (q \o r)[n] = q[n]
        \/ n > Len(q) /\ n - Len(q) \in DOMAIN r /\ (q \o r)[n] = r[n - Len(q)]
  BY <1>1, FromEither
<1>4. ASSUME NEW n \in DOMAIN (q \o r), IsWrite((q \o r)[n])
      PROVE  /\ n <= Len(q) => Rank((q \o r)[n]) \in low .. mid
             /\ n > Len(q) => Rank((q \o r)[n]) \in (mid + 1) .. high
  BY <1>2, <1>3, <1>4 DEF Ascends
<1>5. ASSUME NEW m \in DOMAIN (q \o r), NEW n \in DOMAIN (q \o r), m < n,
             IsWrite((q \o r)[m]), IsWrite((q \o r)[n])
      PROVE  Rank((q \o r)[m]) < Rank((q \o r)[n])
  <2>1. CASE n <= Len(q)
    <3>1. m \in DOMAIN q /\ n \in DOMAIN q /\ (q \o r)[m] = q[m] /\ (q \o r)[n] = q[n]
      BY <1>2, <1>3, <1>5, <2>1
    <3> QED BY <1>5, <3>1 DEF Ascends
  <2>2. CASE m > Len(q)
    <3>1. /\ m - Len(q) \in DOMAIN r /\ n - Len(q) \in DOMAIN r /\ m - Len(q) < n - Len(q)
          /\ (q \o r)[m] = r[m - Len(q)] /\ (q \o r)[n] = r[n - Len(q)]
      BY <1>2, <1>3, <1>5, <2>2
    <3> QED BY <1>5, <3>1 DEF Ascends
  <2>3. CASE m <= Len(q) /\ n > Len(q)
    <3>1. Rank((q \o r)[m]) \in low .. mid /\ Rank((q \o r)[n]) \in (mid + 1) .. high
      BY <1>4, <1>5, <2>3
    <3> QED BY <3>1
  <2> QED BY <1>2, <2>1, <2>2, <2>3
<1>6. \A n \in DOMAIN (q \o r) : IsWrite((q \o r)[n]) => Rank((q \o r)[n]) \in low .. high
  BY <1>2, <1>4
<1> QED BY <1>2, <1>5, <1>6 DEF Ascends

LEMMA AscendsWider ==
  ASSUME NEW q, NEW low \in Nat, NEW high \in Nat, NEW l \in Nat, NEW h \in Nat,
         Ascends(q, low, high), l <= low, high <= h
  PROVE  Ascends(q, l, h)
BY DEF Ascends

\* Statements that a transaction can send, in an order that cannot deadlock.
Steps(q, low, high) == Plain(q) /\ Ascends(q, low, high)

LEMMA StepsConcat ==
  ASSUME NEW q, NEW r, NEW low \in Nat, NEW mid \in Nat, NEW high \in Nat,
         low <= mid, mid <= high, Steps(q, low, mid), Steps(r, mid + 1, high)
  PROVE  Steps(q \o r, low, high)
BY AscendsConcat, BodyConcat DEF Steps, Plain

LEMMA OneStep ==
  ASSUME NEW x, x.do \notin {"commit", "look_up"},
         NEW low \in Nat, NEW high \in Nat,
         IsWrite(x) => Rank(x) \in low .. high /\ TableOf(x) \in Tables
  PROVE  Steps(<<x>>, low, high)
BY PlainOne, AscendsOne DEF Steps

LEMMA NoSteps == ASSUME NEW low \in Nat, NEW high \in Nat PROVE Steps(<<>>, low, high)
BY NoStatement DEF Steps, Plain, Body, Ascends

\* A transaction of any operation but the reset.
Careful(q) == WellFormed(q) /\ Ascends(q, 0, 11)

\* What a transaction sends is well formed and ascends.
LEMMA StepsCommit ==
  ASSUME NEW q, Steps(q, 0, 10)
  PROVE  Careful(q \o Commit)
<1>1. Ascends(Commit, 11, 11)
  BY AscendsOne DEF Commit, IsWrite, Inserting, Replacing
<1>2. Ascends(q \o Commit, 0, 11)
  <2>1. Ascends(q, 0, 10)
    BY DEF Steps
  <2> QED BY <1>1, <2>1, AscendsConcat
<1> QED BY <1>2, BodyCommits DEF Steps, Plain, Careful

LEMMA InsertSteps ==
  ASSUME NEW t \in Tables \ {"audit_entries"}, NEW row
  PROVE  Steps(Insert(t, row), InsertRank[t], InsertRank[t])
<1>1. InsertRank[t] \in 1 .. 6
  BY DEF InsertRank, Tables
<1>2. PICK x : x = [do |-> "insert", table |-> t, row |-> row]
  OBVIOUS
<1>3. x.do = "insert" /\ TableOf(x) = t
  BY <1>2 DEF TableOf
<1>4. Rank(x) = InsertRank[t]
  BY <1>3 DEF Rank, Inserting
<1>5. Steps(<<x>>, InsertRank[t], InsertRank[t])
  BY <1>1, <1>3, <1>4, OneStep
<1> QED BY <1>1, <1>2, <1>5 DEF Insert

LEMMA EnqueueSteps ==
  ASSUME NEW e
  PROVE  Steps(EnqueueOutbox(e), 2, 2)
<1>1. PICK x : x = [do |-> "insert_or_nothing", table |-> "outbox_messages", row |-> NewMessage(e)]
  OBVIOUS
<1>2. x.do = "insert_or_nothing" /\ Rank(x) = 2 /\ TableOf(x) \in Tables
  BY <1>1 DEF Rank, TableOf, Inserting, InsertRank, Tables
<1>3. Steps(<<x>>, 2, 2)
  BY <1>2, OneStep
<1> QED BY <1>1, <1>3 DEF EnqueueOutbox, InsertOrNothing

\* A SELECT and the write that goes by it.
LEMMA TwoSteps ==
  ASSUME NEW x, NEW y, ~IsWrite(x),
         x.do \notin {"commit", "look_up"}, y.do \notin {"commit", "look_up"},
         NEW low \in Nat, NEW high \in Nat, Rank(y) \in low .. high, TableOf(y) \in Tables
  PROVE  Steps(<<x, y>>, low, high)
<1>1. \A n \in DOMAIN <<x, y>> : <<x, y>>[n] = IF n = 1 THEN x ELSE y
  OBVIOUS
<1>2. DOMAIN <<x, y>> = 1 .. 2 /\ <<x, y>> \in Seq({x, y})
  OBVIOUS
<1>3. IsScript(<<x, y>>)
  BY <1>2 DEF IsScript
<1> QED BY <1>1, <1>2, <1>3 DEF Ascends, Plain, Body, Steps

LEMMA AuditSteps ==
  ASSUME NEW action, NEW target
  PROVE  Steps(AppendAudit(action, target), 9, 9)
<1>1. PICK x : x = [do |-> "read_tail"]
  OBVIOUS
<1>2. PICK y : y = [do |-> "insert_entry", action |-> action, target |-> target]
  OBVIOUS
<1>3. /\ x.do = "read_tail" /\ y.do = "insert_entry" /\ ~IsWrite(x)
      /\ Rank(y) = 9 /\ TableOf(y) \in Tables
  BY <1>1, <1>2 DEF Rank, IsWrite, TableOf, Inserting, Replacing, InsertRank, Tables
<1>4. Steps(<<x, y>>, 9, 9)
  BY <1>3, TwoSteps
<1> QED BY <1>1, <1>2, <1>4 DEF AppendAudit

LEMMA DeleteSteps ==
  ASSUME NEW t \in Tables \ {"audit_entries"}
  PROVE  /\ Steps(DeleteExpired(t), DeleteRank[t], DeleteRank[t])
         /\ Steps(DeleteListed(t), DeleteRank[t], DeleteRank[t])
         /\ DeleteRank[t] \in 3 .. 8
<1>1. DeleteRank[t] \in 3 .. 8
  BY DEF DeleteRank, Tables
<1>2. ASSUME NEW b PROVE Steps(<<[do |-> "delete", table |-> t, rowcount |-> b]>>, DeleteRank[t], DeleteRank[t])
  <2>1. PICK x : x = [do |-> "delete", table |-> t, rowcount |-> b]
    OBVIOUS
  <2>2. x.do = "delete" /\ TableOf(x) = t
    BY <2>1 DEF TableOf
  <2>3. Rank(x) = DeleteRank[t]
    BY <2>2 DEF Rank, Inserting
  <2>4. Steps(<<x>>, DeleteRank[t], DeleteRank[t])
    BY <1>1, <2>2, <2>3, OneStep
  <2> QED BY <2>1, <2>4
<1>3. Ascends(DeleteListed(t), DeleteRank[t], DeleteRank[t]) /\ Plain(DeleteListed(t))
  <2>1. PICK x : x = [do |-> "list_ids", table |-> t]
    OBVIOUS
  <2>2. PICK y : y = [do |-> "delete", table |-> t, rowcount |-> FALSE]
    OBVIOUS
  <2>3. x.do = "list_ids" /\ y.do = "delete" /\ ~IsWrite(x) /\ Rank(y) = DeleteRank[t]
    BY <2>1, <2>2 DEF Rank, IsWrite, TableOf, Inserting, Replacing
  <2>4. PICK q : q = <<x>> \o <<y>>
    OBVIOUS
  <2>5. DOMAIN q = 1 .. 2 /\ \A n \in DOMAIN q : q[n] = IF n = 1 THEN x ELSE y
    BY <2>4
  <2>6. IsScript(q)
    BY <2>4, OneStatement, ScriptConcat
  <2>7. TableOf(y) \in Tables
    BY <2>2 DEF TableOf
  <2>8. Ascends(q, DeleteRank[t], DeleteRank[t]) /\ Plain(q)
    BY <1>1, <2>3, <2>5, <2>6, <2>7 DEF Ascends, Plain, Body
  <2> QED BY <2>1, <2>2, <2>4, <2>8 DEF DeleteListed, DeleteFrom
<1> QED BY <1>1, <1>2, <1>3 DEF DeleteExpired, Steps

\* One statement that touches a message or a case.
LEMMA MarkSteps ==
  ASSUME NEW do \in {"publish", "count_attempt"}, NEW id
  PROVE  Steps(<<[do |-> do, id |-> id]>>, 3, 3)
<1>1. PICK x : x = [do |-> do, id |-> id]
  OBVIOUS
<1>2. x.do \in {"publish", "count_attempt"}
  BY <1>1
<1>3. IsWrite(x) => Rank(x) = 3 /\ TableOf(x) \in Tables
  BY <1>2 DEF IsWrite, Rank, TableOf, Inserting, Replacing, DeleteRank, Tables
<1>4. Steps(<<x>>, 3, 3)
  BY <1>2, <1>3, OneStep
<1> QED BY <1>1, <1>4

LEMMA AddEventIsCareful == ASSUME NEW e PROVE Careful(AddEvent(e))
<1>1. PICK x : x = [do |-> "look_up", event |-> e]
  OBVIOUS
<1>2. x.do = "look_up" /\ ~IsWrite(x)
  BY <1>1 DEF IsWrite, Inserting, Replacing
<1>3. Body(<<x>>) /\ Ascends(<<x>>, 0, 0)
  BY <1>2, PlainOne, AscendsOne
<1>4. PICK a : a = Insert("events", EventRow(e))
  OBVIOUS
<1>5. Steps(a, 1, 1)
  BY <1>4, InsertSteps DEF Tables, InsertRank
<1>6. PICK b : b = EnqueueOutbox(e)
  OBVIOUS
<1>7. Steps(b, 2, 2)
  BY <1>6, EnqueueSteps
<1>8. PICK c : c = AppendAudit("event.ingested", e)
  OBVIOUS
<1>9. Steps(c, 3, 9)
  BY <1>8, AuditSteps, AscendsWider DEF Steps
<1>10. Body(<<x>> \o a) /\ Ascends(<<x>> \o a, 0, 1)
  BY <1>3, <1>5, BodyConcat, AscendsConcat DEF Steps
<1>11. Body(<<x>> \o a \o b) /\ Ascends(<<x>> \o a \o b, 0, 2)
  BY <1>7, <1>10, BodyConcat, AscendsConcat DEF Steps
<1>12. Body(<<x>> \o a \o b \o c) /\ Ascends(<<x>> \o a \o b \o c, 0, 9)
  BY <1>9, <1>11, BodyConcat, AscendsConcat DEF Steps
<1>13. Ascends(Commit, 10, 11)
  BY AscendsOne DEF Commit, IsWrite, Inserting, Replacing
<1>14. Ascends(<<x>> \o a \o b \o c \o Commit, 0, 11)
  BY <1>12, <1>13, AscendsConcat
<1>15. WellFormed(<<x>> \o a \o b \o c \o Commit)
  BY <1>12, BodyCommits
<1>16. AddEvent(e) = <<x>> \o a \o b \o c \o Commit
  BY <1>1, <1>4, <1>6, <1>8 DEF AddEvent
<1> QED BY <1>14, <1>15, <1>16 DEF Careful

\* A row and the audit entry of its creation.
LEMMA SaveIsCareful ==
  ASSUME NEW t \in Tables \ {"audit_entries", "review_decisions"}, NEW row, NEW action, NEW target
  PROVE  Careful(Insert(t, row) \o AppendAudit(action, target) \o Commit)
<1>1. Steps(Insert(t, row), 0, 2)
  <2>1. InsertRank[t] \in 1 .. 2 /\ t \in Tables \ {"audit_entries"}
    BY DEF InsertRank, Tables
  <2> QED BY <2>1, InsertSteps, AscendsWider DEF Steps
<1>2. Steps(AppendAudit(action, target), 3, 10)
  BY AuditSteps, AscendsWider DEF Steps
<1>3. Steps(Insert(t, row) \o AppendAudit(action, target), 0, 10)
  BY <1>1, <1>2, StepsConcat
<1> QED BY <1>3, StepsCommit

LEMMA SavesAreCareful ==
  ASSUME NEW id
  PROVE  /\ Careful(SaveDecision(id)) /\ Careful(SaveReviewCase(id))
         /\ Careful(SaveStreamDeadLetter(id))
BY SaveIsCareful DEF SaveDecision, SaveReviewCase, SaveStreamDeadLetter, Tables

LEMMA ReviewIsCareful == ASSUME NEW r PROVE Careful(SaveReviewDecision(r))
<1>1. PICK x : x = [do |-> "read_case", id |-> CaseOf[r]]
  OBVIOUS
<1>2. PICK y : y = [do |-> "close_case", id |-> CaseOf[r]]
  OBVIOUS
<1>3. /\ x.do = "read_case" /\ ~IsWrite(x)
      /\ y.do = "close_case" /\ Rank(y) = 7 /\ TableOf(y) \in Tables
  BY <1>1, <1>2 DEF IsWrite, Rank, TableOf, Inserting, Replacing, DeleteRank, Tables
<1>4. Steps(<<x>>, 0, 0) /\ Steps(<<y>>, 7, 7)
  BY <1>3, OneStep
<1>5. PICK a : a = Insert("review_decisions", [id |-> r, case |-> CaseOf[r]])
  OBVIOUS
<1>6. Steps(a, 1, 6)
  <2>1. Steps(a, 6, 6)
    BY <1>5, InsertSteps DEF Tables, InsertRank
  <2> QED BY <2>1, AscendsWider DEF Steps
<1>7. PICK b : b = AppendAudit("review.decided", r)
  OBVIOUS
<1>8. Steps(b, 8, 10)
  BY <1>7, AuditSteps, AscendsWider DEF Steps
<1>9. Steps(<<x>> \o a, 0, 6)
  BY <1>4, <1>6, StepsConcat
<1>10. Steps(<<x>> \o a \o <<y>>, 0, 7)
  BY <1>4, <1>9, StepsConcat
<1>11. Steps(<<x>> \o a \o <<y>> \o b, 0, 10)
  BY <1>8, <1>10, StepsConcat
<1>12. SaveReviewDecision(r) = <<x>> \o a \o <<y>> \o b \o Commit
  BY <1>1, <1>2, <1>5, <1>7 DEF SaveReviewDecision
<1> QED BY <1>11, <1>12, StepsCommit

\* A SELECT takes no lock.
LEMMA ReadSteps ==
  ASSUME NEW x, x.do \in {"read_attempts", "read_marked", "list_ids", "count"},
         NEW low \in Nat, NEW high \in Nat
  PROVE  Steps(<<x>>, low, high)
<1>1. ~IsWrite(x)
  BY DEF IsWrite, Inserting, Replacing
<1> QED BY <1>1, OneStep

LEMMA MarksAreCareful ==
  ASSUME NEW id
  PROVE  Careful(MarkOutboxPublished(id)) /\ Careful(MarkOutboxFailed(id))
<1>1. PICK x : x = [do |-> "publish", id |-> id]
  OBVIOUS
<1>2. PICK y : y = [do |-> "read_attempts", id |-> id]
  OBVIOUS
<1>3. PICK z : z = [do |-> "count_attempt", id |-> id]
  OBVIOUS
<1>4. PICK w : w = [do |-> "read_marked", id |-> id]
  OBVIOUS
<1>5. Steps(<<x>>, 0, 3) /\ Steps(<<y, z>>, 0, 3) /\ Steps(<<w>>, 10, 10)
  <2>1. Steps(<<x>>, 3, 3)
    BY <1>1, MarkSteps
  <2>2. Steps(<<w>>, 10, 10)
    BY <1>4, ReadSteps
  <2>3. Steps(<<y, z>>, 0, 3)
    <3>1. /\ y.do = "read_attempts" /\ ~IsWrite(y)
          /\ z.do = "count_attempt" /\ Rank(z) = 3 /\ TableOf(z) \in Tables
      BY <1>2, <1>3 DEF IsWrite, Rank, TableOf, Inserting, Replacing, DeleteRank, Tables
    <3> QED BY <3>1, TwoSteps
  <2> QED BY <2>1, <2>2, <2>3, AscendsWider DEF Steps
<1>6. PICK a : a = AppendAudit("outbox.published", id)
  OBVIOUS
<1>7. PICK b : b = AppendAudit("outbox.failed", id)
  OBVIOUS
<1>8. Steps(a, 4, 9) /\ Steps(b, 4, 9)
  BY <1>6, <1>7, AuditSteps, AscendsWider DEF Steps
<1>9. Steps(<<x>> \o a, 0, 9) /\ Steps(<<y, z>> \o b, 0, 9)
  BY <1>5, <1>8, StepsConcat
<1>10. Steps(<<x>> \o a \o <<w>>, 0, 10) /\ Steps(<<y, z>> \o b \o <<w>>, 0, 10)
  BY <1>5, <1>9, StepsConcat
<1>11. MarkOutboxPublished(id) = <<x>> \o a \o <<w>> \o Commit
  BY <1>1, <1>4, <1>6 DEF MarkOutboxPublished, ReadMarked
<1>12. MarkOutboxFailed(id) = <<y, z>> \o b \o <<w>> \o Commit
  BY <1>2, <1>3, <1>4, <1>7 DEF MarkOutboxFailed, ReadMarked
<1> QED BY <1>10, <1>11, <1>12, StepsCommit

\* prune_retention takes the tables in the order of their ranks.
LEMMA PruneIsCareful == ASSUME NEW tables PROVE Careful(PruneRetention(tables))
<1> DEFINE If(t, script) == IF t \in tables THEN script ELSE <<>>
<1>1. PICK a : a = If("outbox_messages", DeleteExpired("outbox_messages"))
  OBVIOUS
<1>2. PICK b : b = If("stream_dead_letters", DeleteExpired("stream_dead_letters"))
  OBVIOUS
<1>3. PICK c : c = If("events", DeleteExpired("events"))
  OBVIOUS
<1>4. PICK d : d = If("decisions", DeleteListed("decisions"))
  OBVIOUS
<1>5. PICK e : e = If("review_cases", DeleteListed("review_cases"))
  OBVIOUS
<1>6. PICK f : f = If("review_decisions", DeleteListed("review_decisions"))
  OBVIOUS
<1>7. PICK g : g = AppendAudit("retention.pruned", "retention")
  OBVIOUS
<1>8. \A t \in Tables \ {"audit_entries"} :
        Steps(If(t, DeleteExpired(t)), DeleteRank[t], DeleteRank[t])
  <2>1. \A t \in Tables \ {"audit_entries"} : DeleteRank[t] \in Nat
    BY DEF DeleteRank, Tables
  <2> QED BY <2>1, DeleteSteps, NoSteps
<1>9. \A t \in Tables \ {"audit_entries"} :
        Steps(If(t, DeleteListed(t)), DeleteRank[t], DeleteRank[t])
  <2>1. \A t \in Tables \ {"audit_entries"} : DeleteRank[t] \in Nat
    BY DEF DeleteRank, Tables
  <2> QED BY <2>1, DeleteSteps, NoSteps
<1> HIDE DEF If
<1>10. Steps(a, 3, 3) /\ Steps(b, 4, 4) /\ Steps(c, 5, 5)
  BY <1>1, <1>2, <1>3, <1>8 DEF DeleteRank, Tables
<1>11. Steps(d, 6, 6) /\ Steps(e, 7, 7) /\ Steps(f, 8, 8)
  BY <1>4, <1>5, <1>6, <1>9 DEF DeleteRank, Tables
<1>12. Steps(a, 0, 3) /\ Steps(g, 9, 10)
  BY <1>7, <1>10, AuditSteps, AscendsWider DEF Steps
<1>13. Steps(a \o b, 0, 4)
  BY <1>10, <1>12, StepsConcat
<1>14. Steps(a \o b \o c, 0, 5)
  BY <1>10, <1>13, StepsConcat
<1>15. Steps(a \o b \o c \o d, 0, 6)
  BY <1>11, <1>14, StepsConcat
<1>16. Steps(a \o b \o c \o d \o e, 0, 7)
  BY <1>11, <1>15, StepsConcat
<1>17. Steps(a \o b \o c \o d \o e \o f, 0, 8)
  BY <1>11, <1>16, StepsConcat
<1>18. Steps(a \o b \o c \o d \o e \o f \o g, 0, 10)
  BY <1>12, <1>17, StepsConcat
<1>19. PruneRetention(tables) = a \o b \o c \o d \o e \o f \o g \o Commit
  BY <1>1, <1>2, <1>3, <1>4, <1>5, <1>6, <1>7 DEF PruneRetention, If
<1> QED BY <1>18, <1>19, StepsCommit

\* The report only counts.
LEMMA ReportIsCareful == ASSUME NEW tables PROVE Careful(RetentionReport(tables))
<1> DEFINE If(t) == IF t \in tables THEN Count(t) ELSE <<>>
<1>1. \A t : \A low, high \in Nat : Steps(If(t), low, high)
  <2> SUFFICES ASSUME NEW t, NEW low \in Nat, NEW high \in Nat PROVE Steps(If(t), low, high)
    OBVIOUS
  <2>1. PICK x : x = [do |-> "count", table |-> t]
    OBVIOUS
  <2>2. Steps(<<x>>, low, high)
    BY <2>1, ReadSteps
  <2> QED BY <2>1, <2>2, NoSteps DEF Count
<1>2. RetentionReport(tables) =
        If("events") \o If("decisions") \o If("review_cases") \o If("review_decisions")
          \o If("outbox_messages") \o If("stream_dead_letters") \o If("audit_entries") \o Commit
  BY DEF RetentionReport
<1> HIDE DEF If
<1>3. Steps(If("events"), 0, 0)
  BY <1>1
<1>4. Steps(If("events") \o If("decisions"), 0, 1)
  BY <1>1, <1>3, StepsConcat
<1>5. Steps(If("events") \o If("decisions") \o If("review_cases"), 0, 2)
  BY <1>1, <1>4, StepsConcat
<1>6. Steps(If("events") \o If("decisions") \o If("review_cases") \o If("review_decisions"), 0, 3)
  BY <1>1, <1>5, StepsConcat
<1>7. Steps(If("events") \o If("decisions") \o If("review_cases") \o If("review_decisions")
              \o If("outbox_messages"), 0, 4)
  BY <1>1, <1>6, StepsConcat
<1>8. Steps(If("events") \o If("decisions") \o If("review_cases") \o If("review_decisions")
              \o If("outbox_messages") \o If("stream_dead_letters"), 0, 5)
  BY <1>1, <1>7, StepsConcat
<1>9. Steps(If("events") \o If("decisions") \o If("review_cases") \o If("review_decisions")
              \o If("outbox_messages") \o If("stream_dead_letters") \o If("audit_entries"), 0, 10)
  BY <1>1, <1>8, StepsConcat
<1> QED BY <1>2, <1>9, StepsCommit

\* The reset is one transaction too.
LEMMA ResetIsWellFormed == WellFormed(ResetDemoData)
<1>1. \A t \in Tables : Plain(DeleteFrom(t))
  <2> SUFFICES ASSUME NEW t \in Tables PROVE Plain(DeleteFrom(t))
    OBVIOUS
  <2>1. PICK x : x = [do |-> "delete", table |-> t, rowcount |-> FALSE]
    OBVIOUS
  <2>2. x.do = "delete" /\ TableOf(x) \in Tables
    BY <2>1 DEF TableOf
  <2>3. Plain(<<x>>)
    BY <2>2, PlainOne
  <2> QED BY <2>1, <2>3 DEF DeleteFrom
<1>2. Plain(DeleteFrom("review_decisions") \o DeleteFrom("review_cases") \o DeleteFrom("decisions"))
  BY <1>1, BodyConcat DEF Plain, Tables
<1>3. Plain(DeleteFrom("review_decisions") \o DeleteFrom("review_cases") \o DeleteFrom("decisions")
              \o DeleteFrom("stream_dead_letters") \o DeleteFrom("outbox_messages"))
  BY <1>1, <1>2, BodyConcat DEF Plain, Tables
<1>4. Plain(DeleteFrom("review_decisions") \o DeleteFrom("review_cases") \o DeleteFrom("decisions")
              \o DeleteFrom("stream_dead_letters") \o DeleteFrom("outbox_messages")
              \o DeleteFrom("events") \o DeleteFrom("audit_entries"))
  BY <1>1, <1>3, BodyConcat DEF Plain, Tables
<1> QED BY <1>4, BodyCommits DEF ResetDemoData, Plain

\* A transaction that has done nothing.
Rests(s) == inserted[s] = NoRows /\ deleted[s] = NoRows /\ counted[s] = {}

Shapes ==
  /\ DOMAIN db = Tables
  /\ DOMAIN inserted = Sessions /\ DOMAIN deleted = Sessions
  /\ \A s \in Sessions : DOMAIN inserted[s] = Tables /\ DOMAIN deleted[s] = Tables
  /\ DOMAIN sight = Sessions /\ DOMAIN listed = Sessions /\ DOMAIN counted = Sessions
  /\ DOMAIN call = Sessions /\ DOMAIN todo = Sessions /\ DOMAIN queue = Sessions

\* Each session is in a transaction of a script, or in none.
ScriptInv ==
  /\ Shapes
  /\ \A s \in Sessions :
       /\ queue[s] \in Seq(Events)
       /\ ~Runs(s) => Rests(s) /\ queue[s] = <<>> /\ call[s] = "none" /\ listed[s] = NoList
       /\ Runs(s) => WellFormed(todo[s]) /\ call[s] # "none"
       /\ Runs(s) /\ Statement(s).do = "look_up" => Rests(s)

\* Nothing that belongs to another session changes.
Leaves(s) ==
  \A o \in Sessions \ {s} :
    /\ inserted'[o] = inserted[o] /\ deleted'[o] = deleted[o] /\ counted'[o] = counted[o]
    /\ sight'[o] = sight[o] /\ listed'[o] = listed[o]
    /\ call'[o] = call[o] /\ todo'[o] = todo[o] /\ queue'[o] = queue[o]

\* The call goes on with the next statement.
Proceeds(s) ==
  /\ Runs(s)
  /\ todo'[s] = Tail(todo[s]) /\ queue'[s] = queue[s]
  /\ call'[s] = IF Tail(todo[s]) = <<>> THEN "none" ELSE call[s]

\* A script is begun.
Begins(s, operation, script, events) ==
  /\ ~Runs(s)
  /\ operation # "none" /\ events \in Seq(Events)
  /\ Careful(script) \/ (operation = "reset_demo_data" /\ script = ResetDemoData)
  /\ todo'[s] = script /\ queue'[s] = events /\ call'[s] = operation
  /\ overlapped' = (overlapped \/
       \E o \in Sessions \ {s} :
         Runs(o) /\ "reset_demo_data" \in {operation, call[o]})
  /\ UNCHANGED <<db, inserted, deleted, sight, listed, counted, answers, pruned>>

\* A statement that writes nothing.
Reading == {"look_up", "read_tail", "read_attempts", "read_marked", "read_case", "count",
            "list_ids"}

Reads(s) ==
  /\ Proceeds(s) /\ Statement(s).do \in Reading
  /\ UNCHANGED <<db, inserted, deleted, used, answers, pruned, overlapped>>

\* A statement that replaces some visible rows of its table by new ones.
Puts(s, t, olds, news) ==
  /\ Proceeds(s) /\ Writes(s) /\ WaitsFor(s) = {} /\ t = TableOf(Statement(s)) /\ t \in Tables
  /\ olds \subseteq View(s, t)
  /\ \A u \in Tables :
       /\ inserted'[s][u] = IF u = t THEN (inserted[s][t] \ olds) \cup news ELSE inserted[s][u]
       /\ deleted'[s][u] = IF u = t THEN deleted[s][t] \cup (olds \cap db[t]) ELSE deleted[s][u]
  /\ UNCHANGED <<db, used, answers, pruned, overlapped>>

\* A DELETE has got one more row.
Parted(s, t, id) ==
  /\ Deleting(s) /\ t = TableOf(Statement(s)) /\ t \in Tables
  /\ id \in Chosen(s, t) /\ Row(s, t, id) # {} /\ ~IsHeld(s, t, id)
  /\ todo'[s] = todo[s] /\ queue'[s] = queue[s] /\ call'[s] = call[s] /\ sight'[s] = sight[s]
  /\ listed'[s] = [on |-> TRUE, ids |-> Chosen(s, t)]
  /\ \A u \in Tables :
       /\ inserted'[s][u] = IF u = t THEN inserted[s][t] \ Row(s, t, id) ELSE inserted[s][u]
       /\ deleted'[s][u] = IF u = t THEN deleted[s][t] \cup (Row(s, t, id) \cap db[t])
                           ELSE deleted[s][u]
  /\ counted'[s] = IF Statement(s).rowcount THEN counted[s] \cup Named(t, {id}) ELSE counted[s]
  /\ UNCHANGED <<db, used, answers, pruned, overlapped>>

\* The transaction and its call are over.
Fails(s) ==
  /\ Runs(s)
  /\ inserted'[s] = NoRows /\ deleted'[s] = NoRows /\ counted'[s] = {}
  /\ todo'[s] = <<>> /\ queue'[s] = <<>> /\ call'[s] = "none" /\ listed'[s] = NoList
  /\ UNCHANGED <<db, used, answers, pruned, overlapped>>

\* The next transaction of the call begins, or it returns.
Continues(s) ==
  /\ listed'[s] = NoList
  /\ \/ queue[s] = <<>> /\ todo'[s] = <<>> /\ queue'[s] = <<>> /\ call'[s] = "none"
     \/ /\ queue[s] # <<>> /\ todo'[s] = AddEvent(Head(queue[s])) /\ queue'[s] = Tail(queue[s])
        /\ call'[s] = call[s]

LEMMA ScriptsAreNotEmpty ==
  /\ ResetDemoData # <<>> /\ WellFormed(ResetDemoData)
  /\ \A q : Careful(q) => q # <<>> /\ WellFormed(q)
  /\ \A e : AddEvent(e) # <<>> /\ Careful(AddEvent(e))
BY ResetIsWellFormed, AddEventIsCareful DEF WellFormed, Careful

\* What AddsNext does to the session and to the others.
LEMMA AddingNext ==
  ASSUME Shapes, NEW s \in Sessions, AddsNext(s)
  PROVE  /\ Continues(s)
         /\ \A o \in Sessions \ {s} :
              todo'[o] = todo[o] /\ queue'[o] = queue[o] /\ call'[o] = call[o] /\ listed'[o] = listed[o]
         /\ DOMAIN todo' = Sessions /\ DOMAIN queue' = Sessions /\ DOMAIN call' = Sessions
         /\ DOMAIN listed' = Sessions
<1>1. CASE queue[s] = <<>>
  BY <1>1 DEF AddsNext, Goes, Shapes, Continues
<1>2. CASE queue[s] # <<>>
  BY <1>2, ScriptsAreNotEmpty DEF AddsNext, Goes, Shapes, Continues
<1> QED BY <1>1, <1>2

\* What Advances does.
LEMMA Advancing ==
  ASSUME Shapes, NEW s \in Sessions, Runs(s), Advances(s)
  PROVE  /\ Proceeds(s) /\ listed'[s] = NoList
         /\ \A o \in Sessions \ {s} :
              todo'[o] = todo[o] /\ queue'[o] = queue[o] /\ call'[o] = call[o] /\ listed'[o] = listed[o]
         /\ DOMAIN todo' = Sessions /\ DOMAIN queue' = Sessions /\ DOMAIN call' = Sessions
         /\ DOMAIN listed' = Sessions
BY DEF Advances, Goes, Shapes, Proceeds

LEMMA RollingBack ==
  ASSUME Shapes, NEW s \in Sessions, Runs(s), Rollback(s)
  PROVE  Fails(s) /\ Leaves(s) /\ Shapes'
<1>1. DOMAIN NoRows = Tables
  BY DEF NoRows
<1> QED BY <1>1 DEF Rollback, Forgets, Ends, Goes, Fails, Leaves, Shapes, ghosts

LEMMA Changing ==
  ASSUME Shapes, NEW s \in Sessions, NEW t \in Tables, NEW olds, NEW news, Writes(s), WaitsFor(s) = {},
         t = TableOf(Statement(s)), olds \subseteq View(s, t), Changes(s, t, olds, news),
         DOMAIN counted' = Sessions, \A o \in Sessions \ {s} : counted'[o] = counted[o]
  PROVE  Puts(s, t, olds, news) /\ Leaves(s) /\ Shapes' /\ listed'[s] = NoList
<1>1. Runs(s)
  BY DEF Writes
<1>2. Advances(s) /\ UNCHANGED <<db, sight, used, calls, answers, pruned, overlapped>>
  BY DEF Changes, Touches, ghosts
<1>3. /\ inserted' = [inserted EXCEPT ![s] = [inserted[s] EXCEPT ![t] = (inserted[s][t] \ olds) \cup news]]
      /\ deleted' = [deleted EXCEPT ![s] = [deleted[s] EXCEPT ![t] = deleted[s][t] \cup (olds \cap db[t])]]
  BY DEF Changes, Touches
<1>4. /\ DOMAIN inserted' = Sessions /\ DOMAIN deleted' = Sessions
      /\ \A o \in Sessions : DOMAIN inserted'[o] = Tables /\ DOMAIN deleted'[o] = Tables
      /\ \A o \in Sessions \ {s} : inserted'[o] = inserted[o] /\ deleted'[o] = deleted[o]
      /\ inserted'[s] = [inserted[s] EXCEPT ![t] = (inserted[s][t] \ olds) \cup news]
      /\ deleted'[s] = [deleted[s] EXCEPT ![t] = deleted[s][t] \cup (olds \cap db[t])]
  BY <1>3 DEF Shapes
<1>5. \A u \in Tables :
       /\ inserted'[s][u] = IF u = t THEN (inserted[s][t] \ olds) \cup news ELSE inserted[s][u]
       /\ deleted'[s][u] = IF u = t THEN deleted[s][t] \cup (olds \cap db[t]) ELSE deleted[s][u]
  BY <1>4 DEF Shapes
<1>6. Puts(s, t, olds, news)
  BY <1>1, <1>2, <1>5, Advancing DEF Puts
<1>7. Leaves(s)
  BY <1>1, <1>2, <1>4, Advancing DEF Leaves, Shapes
<1>8. Shapes'
  BY <1>1, <1>2, <1>4, Advancing DEF Shapes
<1>9. listed'[s] = NoList
  BY <1>1, <1>2, Advancing
<1> QED BY <1>6, <1>7, <1>8, <1>9

LEMMA Parting ==
  ASSUME Shapes, NEW s \in Sessions, DeleteRow(s), TableOf(Statement(s)) \in Tables
  PROVE  (\E t, id : Parted(s, t, id)) /\ Leaves(s) /\ Shapes'
<1>1. PICK t : t = Statement(s).table
  OBVIOUS
<1>2. PICK id \in Chosen(s, t) :
        /\ Row(s, t, id) \notin {{}, Victims(s, t)} /\ ~IsHeld(s, t, id)
        /\ Touches(s, t, Row(s, t, id), {})
        /\ CountsDeleted(s, Statement(s), Row(s, t, id))
        /\ ListsVictims(s, t)
        /\ UNCHANGED <<call, todo, queue>>
  BY <1>1 DEF DeleteRow
<1>3. Deleting(s) /\ t = TableOf(Statement(s)) /\ t \in Tables
  BY <1>1 DEF DeleteRow, Deleting, TableOf
<1>4. PICK row : row = Row(s, t, id)
  OBVIOUS
<1>5. /\ inserted' = [inserted EXCEPT ![s] = [inserted[s] EXCEPT ![t] = (inserted[s][t] \ row) \cup {}]]
      /\ deleted' = [deleted EXCEPT ![s] = [deleted[s] EXCEPT ![t] = deleted[s][t] \cup (row \cap db[t])]]
      /\ UNCHANGED <<db, sight, used, calls, answers, pruned, overlapped>>
  BY <1>2, <1>4 DEF Touches, ghosts
<1>6. /\ inserted'[s] = [inserted[s] EXCEPT ![t] = inserted[s][t] \ row]
      /\ deleted'[s] = [deleted[s] EXCEPT ![t] = deleted[s][t] \cup (row \cap db[t])]
  BY <1>5 DEF Shapes
<1>7. \A u \in Tables :
        /\ inserted'[s][u] = IF u = t THEN inserted[s][t] \ row ELSE inserted[s][u]
        /\ deleted'[s][u] = IF u = t THEN deleted[s][t] \cup (row \cap db[t]) ELSE deleted[s][u]
  BY <1>6 DEF Shapes
<1>8. {r.id : r \in row} = {id}
  BY <1>2, <1>4 DEF Row
<1>9. counted' = [counted EXCEPT ![s] =
        IF Statement(s).rowcount THEN counted[s] \cup Named(t, {id}) ELSE counted[s]]
  BY <1>1, <1>2, <1>4, <1>8 DEF CountsDeleted
<1>10. counted'[s] = IF Statement(s).rowcount THEN counted[s] \cup Named(t, {id}) ELSE counted[s]
  BY <1>9 DEF Shapes
<1>11. listed' = [listed EXCEPT ![s] = [on |-> TRUE, ids |-> Chosen(s, t)]]
  BY <1>2 DEF ListsVictims
<1>12. listed'[s] = [on |-> TRUE, ids |-> Chosen(s, t)]
  BY <1>11 DEF Shapes
<1>13. Parted(s, t, id)
  BY <1>2, <1>3, <1>4, <1>5, <1>7, <1>10, <1>12 DEF Parted
<1>14. Leaves(s)
  BY <1>2, <1>5, <1>9, <1>11 DEF Leaves, Shapes
<1>15. Shapes'
  BY <1>2, <1>5, <1>6, <1>9, <1>11 DEF Shapes
<1> QED BY <1>13, <1>14, <1>15

LEMMA Seeing ==
  ASSUME Shapes, NEW s \in Sessions, Runs(s), NEW number, Sees(s, number),
         Statement(s).do \in Reading
  PROVE  /\ Reads(s) /\ Leaves(s) /\ Shapes'
         /\ listed'[s] = NoList /\ sight'[s] = number /\ counted'[s] = counted[s]
<1>1. /\ Advances(s) /\ sight' = [sight EXCEPT ![s] = number]
      /\ UNCHANGED <<db, inserted, deleted, counted, used, calls, answers, pruned, overlapped>>
  BY DEF Sees, ghosts
<1>2. Reads(s)
  BY <1>1, Advancing DEF Reads
<1>3. Leaves(s)
  BY <1>1, Advancing DEF Leaves, Shapes
<1>4. Shapes'
  BY <1>1, Advancing DEF Shapes
<1>5. listed'[s] = NoList
  BY <1>1, Advancing
<1> QED BY <1>1, <1>2, <1>3, <1>4, <1>5 DEF Shapes

\* The look-up has found the event: the caller is answered.
Answered(s, e) ==
  /\ Runs(s) /\ Statement(s).do = "look_up"
  /\ \E row \in View(s, "events") : row.event = e
  /\ answers' = answers \cup {e}
  /\ Continues(s)
  /\ UNCHANGED <<db, inserted, deleted, counted, used, pruned, overlapped>>

\* The transaction is kept.
Keeps(s) ==
  /\ Runs(s) /\ Statement(s).do = "commit"
  /\ db' = [t \in Tables |-> View(s, t)]
  /\ answers' = (answers \ Forgotten(s)) \cup {r.event : r \in inserted[s]["events"]}
  /\ pruned' = pruned \cup
       IF call[s] = "prune_retention"
       THEN UNION {{<<t, r.id>> : r \in deleted[s][t]} : t \in {"events", "outbox_messages"}}
       ELSE {}
  /\ inserted'[s] = NoRows /\ deleted'[s] = NoRows /\ counted'[s] = {}
  /\ Continues(s)
  /\ UNCHANGED <<used, overlapped>>

\* What one statement can do to the store.
Sends(s) ==
  \/ Reads(s) \/ Fails(s) \/ Keeps(s)
  \/ \E t, olds, news :
       Puts(s, t, olds, news) /\ (Statement(s).do \in Inserting => olds = {})
  \/ \E e : Answered(s, e)

\* The statement a session is about to send.
LEMMA FirstStatement ==
  ASSUME ScriptInv, NEW s \in Sessions, Runs(s)
  PROVE  /\ WellFormed(todo[s]) /\ 1 \in DOMAIN todo[s] /\ Statement(s) = todo[s][1]
         /\ IsWrite(Statement(s)) => TableOf(Statement(s)) \in Tables
         /\ Statement(s).do = "commit" <=> Tail(todo[s]) = <<>>
<1>1. WellFormed(todo[s])
  BY DEF ScriptInv
<1>2. IsScript(todo[s]) /\ todo[s] # <<>>
  BY <1>1 DEF WellFormed
<1>3. 1 \in DOMAIN todo[s] /\ Statement(s) = todo[s][1]
  BY <1>2, ScriptTail DEF Statement
<1>4. Statement(s).do = "commit" <=> Tail(todo[s]) = <<>>
  BY <1>1, WellFormedTail DEF Statement, WellFormed
<1> QED BY <1>1, <1>3, <1>4 DEF WellFormed

LEMMA WritesAreSent ==
  ASSUME NEW s \in Sessions, Runs(s)
  PROVE  Writes(s) <=> IsWrite(Statement(s))
BY DEF Writes, IsWrite, Inserting, Replacing

\* Some rows of a table are replaced.
LEMMA ReplacingRows ==
  ASSUME Shapes, NEW s \in Sessions, NEW t \in Tables, NEW olds, NEW news, Writes(s), WaitsFor(s) = {},
         t = TableOf(Statement(s)), olds \subseteq View(s, t), Replaces(s, t, olds, news)
  PROVE  Puts(s, t, olds, news) /\ Leaves(s) /\ Shapes'
<1>1. DOMAIN counted' = Sessions /\ \A o \in Sessions \ {s} : counted'[o] = counted[o]
  BY DEF Replaces, Shapes
<1> QED BY <1>1, Changing DEF Replaces

LEMMA LookingUp ==
  ASSUME Shapes, NEW s \in Sessions, Runs(s), Statement(s).do = "look_up", NEW e, LookUp(s, e)
  PROVE  Sends(s) /\ Leaves(s) /\ Shapes'
<1>1. CASE Sees(s, 0)
  <2>1. Statement(s).do \in Reading
    BY DEF Reading
  <2> QED BY <1>1, <2>1, Seeing DEF Sends
<1>2. CASE Rollback(s)
  BY <1>2, RollingBack DEF Sends
<1>3. ASSUME NEW row \in View(s, "events"), SamePayload(row, e), answers' = answers \cup {e}, AddsNext(s),
             UNCHANGED <<db, inserted, deleted, sight, counted, used, calls, pruned, overlapped>>
      PROVE  Sends(s) /\ Leaves(s) /\ Shapes'
  <2>1. Answered(s, e)
    BY <1>3, AddingNext DEF Answered, SamePayload
  <2>2. Leaves(s)
    BY <1>3, AddingNext DEF Leaves, Shapes
  <2>3. Shapes'
    BY <1>3, AddingNext DEF Shapes
  <2> QED BY <2>1, <2>2, <2>3 DEF Sends
<1> QED BY <1>1, <1>2, <1>3 DEF LookUp

LEMMA InsertingRows ==
  ASSUME Shapes, NEW s \in Sessions, Runs(s), WaitsFor(s) = {}, Statement(s).do \in Inserting,
         TableOf(Statement(s)) \in Tables, InsertRow(s, Statement(s))
  PROVE  Sends(s) /\ Leaves(s) /\ Shapes'
<1>1. PICK t \in Tables : t = TableOf(Statement(s))
  OBVIOUS
<1>2. Writes(s)
  BY DEF Writes, Inserting
<1>3. CASE Rollback(s)
  BY <1>3, RollingBack DEF Sends
<1>4. ASSUME NEW news, Replaces(s, t, {}, news) PROVE Sends(s) /\ Leaves(s) /\ Shapes'
  <2>1. Puts(s, t, {}, news) /\ Leaves(s) /\ Shapes'
    BY <1>1, <1>2, <1>4, ReplacingRows
  <2> QED BY <2>1 DEF Sends
<1>5. \/ Rollback(s) \/ \E news : Replaces(s, t, {}, news)
  BY <1>1 DEF InsertRow
<1> QED BY <1>3, <1>4, <1>5

LEMMA MarkingRows ==
  ASSUME Shapes, NEW s \in Sessions, Runs(s), WaitsFor(s) = {}, NEW id,
         \/ Statement(s).do = "publish" /\ Publish(s, id)
         \/ Statement(s).do = "count_attempt" /\ CountAttempt(s, id)
         \/ Statement(s).do = "close_case" /\ CloseCase(s, id)
  PROVE  Sends(s) /\ Leaves(s) /\ Shapes'
<1>1. Writes(s) /\ Statement(s).do \notin Inserting
  BY DEF Writes, Inserting
<1>2. \A t : Row(s, t, id) \subseteq View(s, t)
  BY DEF Row
<1>3. \E t \in Tables : \E olds, news :
        t = TableOf(Statement(s)) /\ olds \subseteq View(s, t) /\ Replaces(s, t, olds, news)
  <2>1. CASE Statement(s).do = "close_case" /\ CloseCase(s, id)
    <3>1. TableOf(Statement(s)) = "review_cases"
      BY <2>1 DEF TableOf
    <3>2. PICK olds, news : Replaces(s, "review_cases", olds, news)
            /\ olds = IF sight[s] = 0 THEN {} ELSE Row(s, "review_cases", id)
      BY <2>1 DEF CloseCase
    <3> QED BY <1>2, <3>1, <3>2 DEF Tables
  <2>2. CASE Statement(s).do \in {"publish", "count_attempt"} /\ (Publish(s, id) \/ CountAttempt(s, id))
    <3>1. TableOf(Statement(s)) = "outbox_messages"
      BY <2>2 DEF TableOf
    <3>2. PICK olds, news : Replaces(s, "outbox_messages", olds, news)
            /\ olds = Row(s, "outbox_messages", id)
      BY <2>2 DEF Publish, CountAttempt
    <3> QED BY <1>2, <3>1, <3>2 DEF Tables
  <2> QED BY <2>1, <2>2
<1>4. PICK t \in Tables : \E olds, news :
        t = TableOf(Statement(s)) /\ olds \subseteq View(s, t) /\ Replaces(s, t, olds, news)
  BY <1>3
<1>5. PICK olds, news :
        t = TableOf(Statement(s)) /\ olds \subseteq View(s, t) /\ Replaces(s, t, olds, news)
  BY <1>4
<1>6. Puts(s, t, olds, news) /\ Leaves(s) /\ Shapes'
  BY <1>1, <1>5, ReplacingRows
<1> QED BY <1>1, <1>6 DEF Sends

LEMMA DeletingRows ==
  ASSUME Shapes, NEW s \in Sessions, Runs(s), WaitsFor(s) = {}, Statement(s).do = "delete",
         TableOf(Statement(s)) \in Tables, DeleteRows(s, Statement(s))
  PROVE  Sends(s) /\ Leaves(s) /\ Shapes'
<1>1. Writes(s) /\ Statement(s).do \notin Inserting /\ TableOf(Statement(s)) = Statement(s).table
  BY DEF Writes, Inserting, TableOf
<1>2. PICK t \in Tables : t = TableOf(Statement(s))
  OBVIOUS
<1>3. PICK olds : olds \subseteq View(s, t) /\ Changes(s, t, olds, {})
  BY <1>1, <1>2 DEF DeleteRows, Victims
<1>4. DOMAIN counted' = Sessions /\ \A o \in Sessions \ {s} : counted'[o] = counted[o]
  BY DEF DeleteRows, CountsDeleted, Shapes
<1>5. Puts(s, t, olds, {}) /\ Leaves(s) /\ Shapes'
  BY <1>1, <1>2, <1>3, <1>4, Changing
<1> QED BY <1>1, <1>5 DEF Sends

LEMMA ReadingRows ==
  ASSUME Shapes, NEW s \in Sessions, Runs(s), NEW t, Statement(s).do \in Reading,
         Tail(todo[s]) # <<>>,
         CountRows(s, t) \/ ListIds(s, t) \/ (\E number : Sees(s, number)) \/ Rollback(s)
  PROVE  Sends(s) /\ Leaves(s) /\ Shapes'
<1>1. CASE Rollback(s)
  BY <1>1, RollingBack DEF Sends
<1>2. CASE \E number : Sees(s, number)
  BY <1>2, Seeing DEF Sends
<1>3. CASE CountRows(s, t)
  <2>1. /\ Advances(s) /\ DOMAIN counted' = Sessions
        /\ \A o \in Sessions \ {s} : counted'[o] = counted[o]
        /\ UNCHANGED <<db, inserted, deleted, sight, used, calls, answers, pruned, overlapped>>
    BY <1>3 DEF CountRows, ghosts, Shapes
  <2>2. Reads(s)
    BY <2>1, Advancing DEF Reads
  <2>3. Leaves(s)
    BY <2>1, Advancing DEF Leaves, Shapes
  <2>4. Shapes'
    BY <2>1, Advancing DEF Shapes
  <2> QED BY <2>2, <2>3, <2>4 DEF Sends
<1>4. CASE ListIds(s, t)
  <2>1. PICK ids :
        /\ listed' = [listed EXCEPT ![s] = [on |-> TRUE, ids |-> ids]]
        /\ counted' = [counted EXCEPT ![s] = @ \cup Named(t, ids)]
        /\ todo' = [todo EXCEPT ![s] = Tail(@)]
        /\ UNCHANGED <<db, inserted, deleted, sight, call, queue, used, calls, answers, pruned, overlapped>>
    BY <1>4 DEF ListIds, ghosts
  <2>2. Leaves(s)
    BY <2>1 DEF Leaves, Shapes
  <2>3. Shapes'
    BY <2>1 DEF Shapes
  <2>4. todo'[s] = Tail(todo[s])
    BY <2>1 DEF Shapes
  <2>5. Reads(s)
    BY <2>1, <2>4 DEF Reads, Proceeds
  <2> QED BY <2>2, <2>3, <2>5 DEF Sends
<1> QED BY <1>1, <1>2, <1>3, <1>4

LEMMA Committing ==
  ASSUME Shapes, NEW s \in Sessions, Runs(s), Statement(s).do = "commit", Tail(todo[s]) = <<>>,
         Commits(s)
  PROVE  Keeps(s) /\ Leaves(s) /\ Shapes'
<1>1. AddsNext(s) /\ Forgets(s) /\ UNCHANGED <<used, calls, overlapped>>
      /\ db' = [t \in Tables |-> View(s, t)]
  BY DEF Commits
<1>2. DOMAIN NoRows = Tables
  BY DEF NoRows
<1>3. /\ inserted'[s] = NoRows /\ deleted'[s] = NoRows /\ counted'[s] = {}
      /\ \A o \in Sessions \ {s} : /\ inserted'[o] = inserted[o] /\ deleted'[o] = deleted[o]
                                   /\ counted'[o] = counted[o] /\ sight'[o] = sight[o]
      /\ DOMAIN inserted' = Sessions /\ DOMAIN deleted' = Sessions /\ DOMAIN counted' = Sessions
      /\ DOMAIN sight' = Sessions
  BY <1>1 DEF Forgets, Shapes
<1>4. Keeps(s)
  BY <1>1, <1>3, AddingNext DEF Keeps, Commits
<1>5. Leaves(s)
  BY <1>1, <1>3, AddingNext DEF Leaves
<1>6. Shapes'
  BY <1>1, <1>2, <1>3, AddingNext DEF Shapes
<1> QED BY <1>4, <1>5, <1>6

\* Every statement is one of these.
LEMMA Executing ==
  ASSUME ScriptInv, NEW s \in Sessions, Execute(s)
  PROVE  Sends(s) /\ Leaves(s) /\ Shapes'
<1>1. Shapes /\ Runs(s) /\ WaitsFor(s) = {}
  BY DEF ScriptInv, Execute
<1>2. /\ IsWrite(Statement(s)) => TableOf(Statement(s)) \in Tables
      /\ Statement(s).do = "commit" <=> Tail(todo[s]) = <<>>
  BY <1>1, FirstStatement
<1>3. PICK x : x = Statement(s)
  OBVIOUS
<1>4. Executes(s, x)
  BY <1>3 DEF Execute
<1>5. CASE x.do = "look_up" /\ LookUp(s, x.event)
  BY <1>1, <1>3, <1>5, LookingUp
<1>6. CASE x.do \in Inserting /\ InsertRow(s, x)
  BY <1>1, <1>2, <1>3, <1>6, InsertingRows DEF IsWrite
<1>7. CASE \/ x.do = "publish" /\ Publish(s, x.id)
           \/ x.do = "count_attempt" /\ CountAttempt(s, x.id)
           \/ x.do = "close_case" /\ CloseCase(s, x.id)
  BY <1>1, <1>3, <1>7, MarkingRows
<1>8. CASE x.do = "delete" /\ DeleteRows(s, x)
  BY <1>1, <1>2, <1>3, <1>8, DeletingRows DEF IsWrite, Replacing
<1>9. CASE x.do \in Reading /\ (CountRows(s, x.table) \/ ListIds(s, x.table)
                                  \/ (\E number : Sees(s, number)) \/ Rollback(s))
  <2>1. Tail(todo[s]) # <<>>
    BY <1>2, <1>3, <1>9 DEF Reading
  <2> QED BY <1>1, <1>3, <1>9, <2>1, ReadingRows
<1>10. CASE x.do = "commit" /\ Commits(s)
  BY <1>1, <1>2, <1>3, <1>10, Committing DEF Sends
<1>11. x.do = "read_attempts" /\ ReadAttempts(s, x.id) =>
         (\E number : Sees(s, number)) \/ Rollback(s)
  BY DEF ReadAttempts
<1>12. \/ x.do = "look_up" /\ LookUp(s, x.event)
       \/ x.do \in Inserting /\ InsertRow(s, x)
       \/ x.do = "publish" /\ Publish(s, x.id)
       \/ x.do = "count_attempt" /\ CountAttempt(s, x.id)
       \/ x.do = "close_case" /\ CloseCase(s, x.id)
       \/ x.do = "delete" /\ DeleteRows(s, x)
       \/ x.do = "commit" /\ Commits(s)
       \/ x.do = "count" /\ CountRows(s, x.table)
       \/ x.do = "list_ids" /\ ListIds(s, x.table)
       \/ /\ x.do \in {"read_tail", "read_attempts", "read_marked", "read_case"}
          /\ (\E number : Sees(s, number)) \/ Rollback(s)
  BY <1>4, <1>11 DEF Executes, Inserting
<1> QED BY <1>5, <1>6, <1>7, <1>8, <1>9, <1>10, <1>12 DEF Reading

\* A call begins.
Start(s) == \E operation, script, events : Begins(s, operation, script, events)

LEMMA StartingCarefully ==
  ASSUME Shapes, NEW s \in Sessions, NEW operation, NEW script, NEW events \in Seq(Events),
         operation # "none", Careful(script), Starts(s, operation, script, events)
  PROVE  Start(s) /\ Leaves(s) /\ Shapes'
<1>0. Careful(script) \/ (operation = "reset_demo_data" /\ script = ResetDemoData)
  OBVIOUS
<1>1. Begins(s, operation, script, events)
  BY <1>0 DEF Starts, Begins, transaction, Shapes
<1>2. Leaves(s) /\ Shapes'
  BY DEF Starts, Leaves, Shapes, transaction
<1> QED BY <1>1, <1>2 DEF Start

LEMMA Calling ==
  ASSUME Shapes, NEW s \in Sessions,
         Ingests(s) \/ Records(s) \/ Drains(s) \/ Maintains(s)
  PROVE  Start(s) /\ Leaves(s) /\ Shapes'
<1>1. <<>> \in Seq(Events)
  OBVIOUS
<1>2. ASSUME NEW operation, operation # "none", NEW script, Careful(script),
             Starts(s, operation, script, <<>>)
      PROVE  Start(s) /\ Leaves(s) /\ Shapes'
  <2>1. PICK none \in Seq(Events) : none = <<>>
    BY <1>1
  <2>2. Starts(s, operation, script, none)
    BY <1>2, <2>1

  <2>3. operation # "none" /\ Careful(script)
    BY <1>2
  <2> QED BY <2>2, <2>3, StartingCarefully
<1>3. CASE Ingests(s)
  <2>1. PICK batch \in Batches \ {<<>>} : Starts(s, "add_events", AddEvent(Head(batch)), Tail(batch))
    BY <1>3 DEF Ingests
  <2>2. batch \in Seq(Events) /\ batch # <<>>
    BY <2>1, StoreAssumption
  <2>3. Tail(batch) \in Seq(Events)
    BY <2>2
  <2>4. PICK script, rest : script = AddEvent(Head(batch)) /\ rest = Tail(batch)
    OBVIOUS
  <2>5. Careful(script)
    BY <2>4, AddEventIsCareful
  <2> QED BY <2>1, <2>3, <2>4, <2>5, StartingCarefully
<1>4. CASE Records(s)
  <2>1. \/ \E d : Starts(s, "save_decision", SaveDecision(d), <<>>)
        \/ \E d : Starts(s, "save_review_case", SaveReviewCase(d), <<>>)
        \/ \E d : Starts(s, "save_review_decision", SaveReviewDecision(d), <<>>)
        \/ \E d : Starts(s, "save_stream_dead_letter", SaveStreamDeadLetter(d), <<>>)
    BY <1>4 DEF Records, Saves
  <2>2. CASE \E d : Starts(s, "save_decision", SaveDecision(d), <<>>)
    BY <1>2, <2>2, SavesAreCareful
  <2>3. CASE \E d : Starts(s, "save_review_case", SaveReviewCase(d), <<>>)
    BY <1>2, <2>3, SavesAreCareful
  <2>4. CASE \E d : Starts(s, "save_review_decision", SaveReviewDecision(d), <<>>)
    BY <1>2, <2>4, ReviewIsCareful
  <2>5. CASE \E d : Starts(s, "save_stream_dead_letter", SaveStreamDeadLetter(d), <<>>)
    BY <1>2, <2>5, SavesAreCareful
  <2> QED BY <2>1, <2>2, <2>3, <2>4, <2>5
<1>5. CASE Drains(s)
  <2>1. \/ \E id : Starts(s, "mark_outbox_published", MarkOutboxPublished(id), <<>>)
        \/ \E id : Starts(s, "mark_outbox_failed", MarkOutboxFailed(id), <<>>)
    BY <1>5 DEF Drains, Calls
  <2>2. CASE \E id : Starts(s, "mark_outbox_published", MarkOutboxPublished(id), <<>>)
    BY <1>2, <2>2, MarksAreCareful
  <2>3. CASE \E id : Starts(s, "mark_outbox_failed", MarkOutboxFailed(id), <<>>)
    BY <1>2, <2>3, MarksAreCareful
  <2> QED BY <2>1, <2>2, <2>3
<1>6. CASE Maintains(s)
  <2>1. \/ \E tables : Starts(s, "retention_report", RetentionReport(tables), <<>>)
        \/ \E tables : Starts(s, "prune_retention", PruneRetention(tables), <<>>)
        \/ \E batch \in Batches : Starts(s, "reset_demo_data", ResetDemoData, batch)
    BY <1>6 DEF Maintains, Reports, Prunes, Calls
  <2>2. CASE \E tables : Starts(s, "retention_report", RetentionReport(tables), <<>>)
    BY <1>2, <2>2, ReportIsCareful
  <2>3. CASE \E tables : Starts(s, "prune_retention", PruneRetention(tables), <<>>)
    BY <1>2, <2>3, PruneIsCareful
  <2>4. CASE \E batch \in Batches : Starts(s, "reset_demo_data", ResetDemoData, batch)
    <3>1. PICK batch \in Batches : Starts(s, "reset_demo_data", ResetDemoData, batch)
      BY <2>4
    <3>2. batch \in Seq(Events)
      BY StoreAssumption
    <3>3. Begins(s, "reset_demo_data", ResetDemoData, batch)
      BY <3>1, <3>2 DEF Starts, Begins, transaction, Shapes
    <3>4. Leaves(s) /\ Shapes'
      BY <3>1 DEF Starts, Leaves, Shapes, transaction
    <3> QED BY <3>3, <3>4 DEF Start
  <2> QED BY <2>1, <2>2, <2>3, <2>4
<1> QED BY <1>3, <1>4, <1>5, <1>6

\* What a step of the specification does to the session that takes it.
Step(s) == Sends(s) \/ Start(s) \/ DeleteWaits(s) \/ \E t, id : Parted(s, t, id)

LEMMA Stepping ==
  ASSUME ScriptInv, Next
  PROVE  \E s \in Sessions : Step(s) /\ Leaves(s) /\ Shapes'
<1>1. PICK s \in Sessions :
        \/ Ingests(s) \/ Records(s) \/ Drains(s) \/ Maintains(s)
        \/ Execute(s) \/ DeleteRow(s) \/ DeleteWaits(s)
        \/ DeadlockDetected(s) \/ ConnectionLost(s)
  BY DEF Next
<1>2. CASE Ingests(s) \/ Records(s) \/ Drains(s) \/ Maintains(s)
  BY <1>2, Calling DEF ScriptInv, Step
<1>3. CASE Execute(s)
  BY <1>3, Executing DEF Step
<1>4. CASE DeleteWaits(s)
  <2>1. Leaves(s) /\ Shapes'
    BY <1>4 DEF DeleteWaits, ListsVictims, Leaves, Shapes, ScriptInv
  <2> QED BY <1>4, <2>1 DEF Step
<1>5. CASE DeadlockDetected(s) \/ ConnectionLost(s)
  <2>1. Runs(s) /\ Rollback(s)
    BY <1>5 DEF DeadlockDetected, ConnectionLost, Deadlocked, WaitsFor, Writes
  <2> QED BY <2>1, RollingBack DEF ScriptInv, Step, Sends
<1>6. CASE DeleteRow(s)
  <2>1. Shapes /\ TableOf(Statement(s)) \in Tables
    BY <1>6, FirstStatement, WritesAreSent DEF DeleteRow, Deleting, Writes, ScriptInv
  <2> QED BY <1>6, <2>1, Parting DEF Step
<1> QED BY <1>1, <1>2, <1>3, <1>4, <1>5, <1>6

-----------------------------------------------------------------------------
(* Scripts are run in order.                                               *)

\* Each of these holds of a session.
InScript(s) ==
  /\ queue[s] \in Seq(Events)
  /\ ~Runs(s) => Rests(s) /\ queue[s] = <<>> /\ call[s] = "none" /\ listed[s] = NoList
  /\ Runs(s) => WellFormed(todo[s]) /\ call[s] # "none"
  /\ Runs(s) /\ Statement(s).do = "look_up" => Rests(s)

\* What Continues leaves is in a script.
LEMMA Continuing ==
  ASSUME NEW s \in Sessions, Continues(s), call[s] # "none", queue[s] \in Seq(Events),
         inserted'[s] = NoRows, deleted'[s] = NoRows, counted'[s] = {}
  PROVE  InScript(s)'
<1>1. CASE queue[s] = <<>> /\ todo'[s] = <<>> /\ queue'[s] = <<>> /\ call'[s] = "none" /\ listed'[s] = NoList
  <2>1. queue'[s] \in Seq(Events)
    BY <1>1
  <2> QED BY <1>1, <2>1 DEF InScript, Runs, Rests
<1>2. CASE /\ queue[s] # <<>> /\ todo'[s] = AddEvent(Head(queue[s])) /\ queue'[s] = Tail(queue[s])
           /\ call'[s] = call[s]
  <2>1. PICK q : q = AddEvent(Head(queue[s]))
    OBVIOUS
  <2>2. WellFormed(q) /\ q # <<>>
    BY <2>1, ScriptsAreNotEmpty
  <2>3. queue'[s] \in Seq(Events)
    BY <1>2
  <2> QED BY <1>2, <2>1, <2>2, <2>3 DEF InScript, Runs, Rests
<1> QED BY <1>1, <1>2 DEF Continues

LEMMA ScriptKept ==
  ASSUME ScriptInv, NEW s \in Sessions, Step(s), Leaves(s)
  PROVE  InScript(s)'
<1>1. InScript(s)
  BY DEF ScriptInv, InScript
<1>2. CASE Reads(s)
  <2>1. CASE Tail(todo[s]) # <<>>
    <3>1. WellFormed(Tail(todo[s])) /\ Head(Tail(todo[s])).do # "look_up"
      <4>1. Statement(s).do # "commit"
        BY <1>2 DEF Reads, Reading
      <4> QED BY <1>2, <4>1, FirstStatement, WellFormedTail DEF Reads, Proceeds, Statement
    <3> QED BY <1>1, <1>2, <2>1, <3>1 DEF InScript, Reads, Proceeds, Runs, Statement
  <2>2. CASE Tail(todo[s]) = <<>>
    <3>1. Statement(s).do = "commit"
      BY <1>2, <2>2, FirstStatement DEF Reads, Proceeds
    <3> QED BY <1>2, <3>1 DEF Reads, Reading
  <2> QED BY <2>1, <2>2
<1>3. ASSUME NEW t, NEW olds, NEW news, Puts(s, t, olds, news) PROVE InScript(s)'
  <2>1. Runs(s) /\ Statement(s).do # "commit"
    BY <1>3 DEF Puts, Proceeds, Writes
  <2>2. WellFormed(Tail(todo[s])) /\ Head(Tail(todo[s])).do # "look_up" /\ Tail(todo[s]) # <<>>
    BY <2>1, FirstStatement, WellFormedTail DEF Statement
  <2> QED BY <1>1, <1>3, <2>1, <2>2 DEF InScript, Puts, Proceeds, Runs, Statement
<1>4. CASE Fails(s)
  <2>1. <<>> \in Seq(Events)
    OBVIOUS
  <2> QED BY <1>4, <2>1 DEF InScript, Fails, Runs, Rests
<1>5. CASE Keeps(s)
  BY <1>1, <1>5, Continuing DEF InScript, Keeps
<1>6. ASSUME NEW e, Answered(s, e) PROVE InScript(s)'
  BY <1>1, <1>6, Continuing DEF InScript, Answered, Rests
<1>7. ASSUME NEW operation, NEW script, NEW events, Begins(s, operation, script, events)
      PROVE  InScript(s)'
  <2>1. Rests(s)'
    BY <1>1, <1>7 DEF Begins, InScript, Rests
  <2>2. WellFormed(script) /\ script # <<>>
    BY <1>7, ScriptsAreNotEmpty DEF Begins
  <2> QED BY <1>7, <2>1, <2>2 DEF Begins, InScript, Runs
<1>8. CASE DeleteWaits(s)
  <2>1. Runs(s)
    BY <1>8 DEF DeleteWaits, Deleting, Writes
  <2>2. todo' = todo /\ queue' = queue /\ call' = call /\ Statement(s).do # "look_up"
    BY <1>8 DEF DeleteWaits, Deleting
  <2> QED BY <1>1, <2>1, <2>2 DEF InScript, Runs, Statement
<1>9. ASSUME NEW t, NEW id, Parted(s, t, id) PROVE InScript(s)'
  <2>1. Runs(s) /\ Statement(s).do = "delete"
    BY <1>9 DEF Parted, Deleting, Writes
  <2>2. todo'[s] = todo[s] /\ queue'[s] = queue[s] /\ call'[s] = call[s]
    BY <1>9 DEF Parted
  <2> QED BY <1>1, <2>1, <2>2 DEF InScript, Runs, Statement
<1> QED BY <1>2, <1>3, <1>4, <1>5, <1>6, <1>7, <1>8, <1>9 DEF Step, Sends, Start

LEMMA InitScript == ASSUME Init PROVE ScriptInv
<1>1. Shapes
  BY DEF Init, Shapes, NoRows
<1>2. <<>> \in Seq(Events)
  OBVIOUS
<1> QED BY <1>1, <1>2 DEF Init, ScriptInv, Runs, Rests

LEMMA StepScript == ASSUME ScriptInv, [Next]_vars PROVE ScriptInv'
<1>1. CASE Next
  <2>1. PICK s \in Sessions : Step(s) /\ Leaves(s) /\ Shapes'
    BY <1>1, Stepping
  <2>2. \A o \in Sessions \ {s} : InScript(o)'
    BY <2>1 DEF ScriptInv, InScript, Leaves, Runs, Rests, Statement
  <2>3. InScript(s)'
    BY <2>1, ScriptKept
  <2>4. \A o \in Sessions : InScript(o)'
    BY <2>2, <2>3
  <2> QED BY <2>1, <2>4 DEF ScriptInv, InScript
<1>2. CASE UNCHANGED vars
  <2>1. UNCHANGED <<db, inserted, deleted, sight, listed, counted, call, todo, queue>>
    BY <1>2 DEF vars, transaction
  <2> QED BY <2>1 DEF ScriptInv, Shapes, Runs, Rests, Statement
<1> QED BY <1>1, <1>2

THEOREM ScriptInvariant == Spec => []ScriptInv
BY InitScript, StepScript, PTL DEF Spec

-----------------------------------------------------------------------------

LEMMA InitAnswered == ASSUME Init PROVE AnsweredIsStored
<1> SUFFICES ASSUME NEW e \in answers PROVE \E r \in db["events"] : r.event = e
  BY DEF AnsweredIsStored
<1>1. PICK n \in DOMAIN Earlier : e = Earlier[n]
  BY DEF Init
<1>2. EventRow(Earlier[n]) \in db["events"]
  BY DEF Init, NoRows, Tables
<1> QED BY <1>1, <1>2 DEF EventRow

LEMMA StepAnswered ==
  ASSUME ScriptInv, AnsweredIsStored, [Next]_vars
  PROVE  AnsweredIsStored'
<1>1. CASE UNCHANGED <<db, answers>>
  BY <1>1 DEF AnsweredIsStored
<1>2. CASE UNCHANGED vars
  BY <1>1, <1>2 DEF vars, ghosts
<1>3. ASSUME NEW s \in Sessions, Step(s) PROVE AnsweredIsStored'
  <2>1. CASE Reads(s) \/ Fails(s) \/ (\E t, olds, news : Puts(s, t, olds, news)) \/ Start(s)
    BY <1>1, <2>1 DEF Reads, Fails, Puts, Start, Begins
  <2>2. CASE DeleteWaits(s)
    BY <1>1, <2>2 DEF DeleteWaits, ghosts
  <2>5. CASE \E t, id : Parted(s, t, id)
    BY <1>1, <2>5 DEF Parted
  <2>3. ASSUME NEW e, Answered(s, e) PROVE AnsweredIsStored'
    <3>1. Rests(s)
      BY <2>3 DEF Answered, ScriptInv
    <3>2. View(s, "events") = db["events"]
      BY <3>1 DEF View, Rests, NoRows, Tables
    <3>3. \E row \in db["events"] : row.event = e
      BY <2>3, <3>2 DEF Answered
    <3> QED BY <2>3, <3>3 DEF Answered, AnsweredIsStored
  <2>4. CASE Keeps(s)
    <3> SUFFICES ASSUME NEW e \in answers' PROVE \E r \in db'["events"] : r.event = e
      BY DEF AnsweredIsStored
    <3>1. db'["events"] = View(s, "events")
      BY <2>4 DEF Keeps, Tables
    <3>2. CASE e \in answers \ Forgotten(s)
      <4>1. PICK r \in db["events"] : r.event = e
        BY <3>2 DEF AnsweredIsStored
      <4>2. r \notin deleted[s]["events"]
        BY <3>2, <4>1 DEF Forgotten
      <4> QED BY <3>1, <4>1, <4>2 DEF View
    <3>3. CASE e \in {r.event : r \in inserted[s]["events"]}
      BY <3>1, <3>3 DEF View
    <3> QED BY <2>4, <3>2, <3>3 DEF Keeps
  <2> QED BY <1>3, <2>1, <2>2, <2>3, <2>4, <2>5 DEF Step, Sends
<1> QED BY <1>2, <1>3, Stepping

\* However adds of one idempotency key race, an event that a caller was told
\* is stored is stored, until a prune or a reset deletes it.
THEOREM AnswersAreStored == Spec => []AnsweredIsStored
BY ScriptInvariant, InitAnswered, StepAnswered, PTL DEF Spec

-----------------------------------------------------------------------------
(* Only a reset breaks the order of the tables.                            *)

\* The first statement is a DELETE that may have got some rows.
Underway(q, n, t) == n = 1 /\ q[n].do = "delete" /\ TableOf(q[n]) = t

\* The statements behind ins, del and those still to be sent go up in rank.
InOrder(q, ins, del) ==
  /\ Ascends(q, 0, 11)
  /\ \A t \in Tables, n \in DOMAIN q : IsWrite(q[n]) /\ ~Underway(q, n, t) =>
       /\ ins[t] \cup del[t] # {} => InsertRank[t] < Rank(q[n])
       /\ del[t] # {} => DeleteRank[t] < Rank(q[n])

OrderInv ==
  \A s \in Sessions :
    call[s] # "reset_demo_data" => InOrder(todo[s], inserted[s], deleted[s])

LEMMA RestsInOrder ==
  ASSUME NEW q, Ascends(q, 0, 11)
  PROVE  InOrder(q, NoRows, NoRows)
BY DEF InOrder, NoRows

LEMMA NothingInOrder ==
  ASSUME NEW ins, NEW del
  PROVE  InOrder(<<>>, ins, del)
BY NoStatement DEF InOrder, Ascends

\* Ranks are numbers, and a table's rows are inserted before they are deleted.
LEMMA Ranks ==
  ASSUME NEW t \in Tables
  PROVE  InsertRank[t] \in Nat /\ DeleteRank[t] \in Nat /\ InsertRank[t] <= DeleteRank[t]
BY DEF InsertRank, DeleteRank, Tables

\* A DELETE gets rows while the statements stay.
LEMMA PartInOrder ==
  ASSUME NEW q, NEW ins, NEW del, InOrder(q, ins, del), q # <<>>,
         NEW t \in Tables, Head(q).do = "delete", TableOf(Head(q)) = t, NEW ins2, NEW del2,
         \A u \in Tables \ {t} : ins2[u] = ins[u] /\ del2[u] = del[u]
  PROVE  InOrder(q, ins2, del2)
<1>1. IsScript(q)
  BY DEF InOrder, Ascends
<1>2. Len(q) \in Nat \ {0} /\ DOMAIN q = 1 .. Len(q) /\ Head(q) = q[1]
  BY <1>1, ScriptTail
<1>3. ASSUME NEW u \in Tables, NEW n \in DOMAIN q, IsWrite(q[n]), ~Underway(q, n, u)
      PROVE  /\ ins2[u] \cup del2[u] # {} => InsertRank[u] < Rank(q[n])
             /\ del2[u] # {} => DeleteRank[u] < Rank(q[n])
  <2>1. CASE u # t
    BY <1>3, <2>1 DEF InOrder
  <2>2. CASE u = t
    <3>1. n \in Nat /\ 1 < n /\ 1 \in DOMAIN q
      BY <1>2, <1>3, <2>2 DEF Underway
    <3>2. IsWrite(q[1]) /\ Rank(q[1]) = DeleteRank[u]
      BY <1>2, <2>2 DEF IsWrite, Rank, Inserting, Replacing
    <3>3. Rank(q[1]) < Rank(q[n]) /\ Rank(q[n]) \in 0 .. 11
      BY <1>3, <3>1, <3>2 DEF InOrder, Ascends
    <3>4. DeleteRank[u] < Rank(q[n])
      BY <3>2, <3>3
    <3> QED BY <3>3, <3>4, Ranks
  <2> QED BY <2>1, <2>2
<1> QED BY <1>3 DEF InOrder

\* After its first statement a script is still in order.
LEMMA TailInOrder ==
  ASSUME NEW q, q # <<>>, NEW ins, NEW del, InOrder(q, ins, del),
         NEW t \in Tables, IsWrite(Head(q)), TableOf(Head(q)) = t, NEW ins2, NEW del2,
         \A u \in Tables \ {t} : ins2[u] = ins[u] /\ del2[u] = del[u],
         Head(q).do \in Inserting => del2[t] = del[t]
  PROVE  InOrder(Tail(q), ins2, del2)
<1>1. IsScript(q)
  BY DEF InOrder, Ascends
<1>2. /\ IsScript(Tail(q)) /\ Len(q) \in Nat \ {0} /\ DOMAIN Tail(q) = 1 .. Len(q) - 1
      /\ DOMAIN q = 1 .. Len(q) /\ Head(q) = q[1]
      /\ \A n \in DOMAIN Tail(q) : Tail(q)[n] = q[n + 1]
  BY <1>1, ScriptTail
<1>3. 1 \in DOMAIN q /\ \A n \in DOMAIN Tail(q) : n + 1 \in DOMAIN q /\ 1 < n + 1
  BY <1>2
<1>4. Ascends(Tail(q), 0, 11)
  <2>1. \A n \in DOMAIN Tail(q) : IsWrite(Tail(q)[n]) => Rank(Tail(q)[n]) \in 0 .. 11
    BY <1>2, <1>3 DEF InOrder, Ascends
  <2>2. ASSUME NEW m \in DOMAIN Tail(q), NEW n \in DOMAIN Tail(q), m < n,
               IsWrite(Tail(q)[m]), IsWrite(Tail(q)[n])
        PROVE  Rank(Tail(q)[m]) < Rank(Tail(q)[n])
    <3>1. m + 1 < n + 1 /\ m + 1 \in DOMAIN q /\ n + 1 \in DOMAIN q
      BY <1>2, <1>3, <2>2
    <3>2. Tail(q)[m] = q[m + 1] /\ Tail(q)[n] = q[n + 1]
      BY <1>2
    <3> QED BY <2>2, <3>1, <3>2 DEF InOrder, Ascends
  <2> QED BY <1>2, <2>1, <2>2 DEF Ascends
<1>5. ASSUME NEW u \in Tables, NEW n \in DOMAIN Tail(q), IsWrite(Tail(q)[n])
      PROVE  /\ ins2[u] \cup del2[u] # {} => InsertRank[u] < Rank(Tail(q)[n])
             /\ del2[u] # {} => DeleteRank[u] < Rank(Tail(q)[n])
  <2>0. n \in Nat /\ n + 1 # 1
    BY <1>2
  <2>1. n + 1 \in DOMAIN q /\ Tail(q)[n] = q[n + 1] /\ 1 < n + 1
    BY <1>2, <1>3
  <2>2. /\ ins[u] \cup del[u] # {} => InsertRank[u] < Rank(q[n + 1])
        /\ del[u] # {} => DeleteRank[u] < Rank(q[n + 1])
        /\ Rank(Head(q)) < Rank(q[n + 1]) /\ Rank(q[n + 1]) \in 0 .. 11
    BY <1>2, <1>3, <1>5, <2>1 DEF InOrder, Ascends, Underway
  <2>3. CASE u # t
    BY <2>1, <2>2, <2>3
  <2>4. CASE u = t /\ Head(q).do \in Inserting
    <3>1. Rank(Head(q)) = InsertRank[u]
      BY <2>4 DEF Rank
    <3> QED BY <2>1, <2>2, <2>4, <3>1
  <2>5. CASE u = t /\ Head(q).do \notin Inserting
    <3>1. Rank(Head(q)) = DeleteRank[u]
      BY <2>5 DEF Rank
    <3> QED BY <2>1, <2>2, <2>5, <3>1, Ranks
  <2> QED BY <2>3, <2>4, <2>5
<1> QED BY <1>4, <1>5 DEF InOrder

\* A SELECT changes nothing to the order.
LEMMA ReadInOrder ==
  ASSUME NEW q, q # <<>>, NEW ins, NEW del, InOrder(q, ins, del)
  PROVE  InOrder(Tail(q), ins, del)
<1>1. IsScript(q)
  BY DEF InOrder, Ascends
<1>2. /\ IsScript(Tail(q)) /\ DOMAIN Tail(q) = 1 .. Len(q) - 1 /\ Len(q) \in Nat \ {0}
      /\ \A n \in DOMAIN Tail(q) : /\ n \in Int /\ n + 1 \in DOMAIN q /\ n + 1 # 1
                                    /\ Tail(q)[n] = q[n + 1]
  BY <1>1, ScriptTail
<1>3. \A m, n \in DOMAIN Tail(q) : m < n => m + 1 < n + 1
  BY <1>2
<1>4. Ascends(Tail(q), 0, 11)
  BY <1>2, <1>3 DEF InOrder, Ascends
<1> QED BY <1>2, <1>4 DEF InOrder, Underway

LEMMA ContinuingInOrder ==
  ASSUME NEW s \in Sessions, Continues(s), inserted'[s] = NoRows, deleted'[s] = NoRows
  PROVE  InOrder(todo'[s], inserted'[s], deleted'[s])
<1>1. PICK q : q = AddEvent(Head(queue[s]))
  OBVIOUS
<1>2. Ascends(q, 0, 11)
  BY <1>1, AddEventIsCareful DEF Careful
<1>3. Ascends(<<>>, 0, 11)
  BY NoStatement DEF Ascends
<1> QED BY <1>1, <1>2, <1>3, RestsInOrder DEF Continues

LEMMA OrderKept ==
  ASSUME ScriptInv, OrderInv, NEW s \in Sessions, Step(s), call'[s] # "reset_demo_data"
  PROVE  InOrder(todo'[s], inserted'[s], deleted'[s])
<1>1. CASE Reads(s)
  <2>1. CASE call[s] # "reset_demo_data"
    <3>1. InOrder(Tail(todo[s]), inserted[s], deleted[s])
      BY <1>1, <2>1, ReadInOrder DEF OrderInv, Reads, Proceeds, Runs
    <3> QED BY <1>1, <3>1 DEF Reads, Proceeds
  <2>2. CASE Tail(todo[s]) = <<>>
    BY <1>1, <2>2, NothingInOrder DEF Reads, Proceeds
  <2> QED BY <1>1, <2>1, <2>2 DEF Reads, Proceeds
<1>2. ASSUME NEW t, NEW olds, NEW news, Puts(s, t, olds, news),
             Statement(s).do \in Inserting => olds = {}
      PROVE  InOrder(todo'[s], inserted'[s], deleted'[s])
  <2>1. CASE call[s] # "reset_demo_data"
    <3>1. InOrder(todo[s], inserted[s], deleted[s]) /\ todo[s] # <<>>
      BY <1>2, <2>1 DEF OrderInv, Puts, Proceeds, Runs
    <3>2. IsWrite(Head(todo[s])) /\ TableOf(Head(todo[s])) = t /\ t \in Tables
      BY <1>2, WritesAreSent DEF Puts, Statement, Writes
    <3>3. \A u \in Tables \ {t} : inserted'[s][u] = inserted[s][u] /\ deleted'[s][u] = deleted[s][u]
      BY <1>2 DEF Puts
    <3>4. Head(todo[s]).do \in Inserting => deleted'[s][t] = deleted[s][t]
      <4> SUFFICES ASSUME Head(todo[s]).do \in Inserting PROVE deleted'[s][t] = deleted[s][t]
        OBVIOUS
      <4>1. deleted'[s][t] = deleted[s][t] \cup (olds \cap db[t]) /\ olds = {}
        BY <1>2, <3>2 DEF Puts, Statement
      <4> QED BY <4>1
    <3>5. PICK q, ins, del, ins2, del2 :
            /\ q = todo[s] /\ ins = inserted[s] /\ del = deleted[s]
            /\ ins2 = inserted'[s] /\ del2 = deleted'[s]
      OBVIOUS
    <3>6. InOrder(Tail(q), ins2, del2)
      BY <3>1, <3>2, <3>3, <3>4, <3>5, TailInOrder
    <3> QED BY <1>2, <3>5, <3>6 DEF Puts, Proceeds
  <2>2. CASE Tail(todo[s]) = <<>>
    BY <1>2, <2>2, NothingInOrder DEF Puts, Proceeds
  <2> QED BY <1>2, <2>1, <2>2 DEF Puts, Proceeds
<1>3. CASE Fails(s)
  BY <1>3, NothingInOrder DEF Fails
<1>4. CASE Keeps(s)
  BY <1>4, ContinuingInOrder DEF Keeps
<1>5. ASSUME NEW e, Answered(s, e) PROVE InOrder(todo'[s], inserted'[s], deleted'[s])
  BY <1>5, ContinuingInOrder DEF Answered, ScriptInv, Rests
<1>6. ASSUME NEW operation, NEW script, NEW events, Begins(s, operation, script, events)
      PROVE  InOrder(todo'[s], inserted'[s], deleted'[s])
  <2>1. Ascends(script, 0, 11)
    BY <1>6 DEF Begins, Careful
  <2>2. inserted'[s] = NoRows /\ deleted'[s] = NoRows
    BY <1>6 DEF Begins, ScriptInv, Rests
  <2> QED BY <1>6, <2>1, <2>2, RestsInOrder DEF Begins
<1>7. CASE DeleteWaits(s)
  BY <1>7 DEF DeleteWaits, OrderInv
<1>8. ASSUME NEW t, NEW id, Parted(s, t, id) PROVE InOrder(todo'[s], inserted'[s], deleted'[s])
  <2>1. PICK q, ins, del, ins2, del2 :
          /\ q = todo[s] /\ ins = inserted[s] /\ del = deleted[s]
          /\ ins2 = inserted'[s] /\ del2 = deleted'[s]
    OBVIOUS
  <2>2. InOrder(q, ins, del) /\ q # <<>> /\ todo'[s] = q
    BY <1>8, <2>1 DEF OrderInv, Parted, Deleting, Writes, Runs
  <2>3. t \in Tables /\ Head(q).do = "delete" /\ TableOf(Head(q)) = t
    BY <1>8, <2>1 DEF Parted, Deleting, Statement
  <2>4. \A u \in Tables \ {t} : ins2[u] = ins[u] /\ del2[u] = del[u]
    BY <1>8, <2>1 DEF Parted
  <2>5. InOrder(q, ins2, del2)
    BY <2>2, <2>3, <2>4, PartInOrder
  <2> QED BY <2>1, <2>2, <2>5
<1> QED BY <1>1, <1>2, <1>3, <1>4, <1>5, <1>6, <1>7, <1>8 DEF Step, Sends, Start

LEMMA InitOrder == ASSUME Init PROVE OrderInv
<1>1. Ascends(<<>>, 0, 11)
  BY NoStatement DEF Ascends
<1> QED BY <1>1, RestsInOrder DEF Init, OrderInv

LEMMA StepOrder == ASSUME ScriptInv, OrderInv, [Next]_vars PROVE OrderInv'
<1>1. CASE Next
  <2>1. PICK s \in Sessions : Step(s) /\ Leaves(s)
    BY <1>1, Stepping
  <2>2. \A o \in Sessions \ {s} : call'[o] # "reset_demo_data" => InOrder(todo'[o], inserted'[o], deleted'[o])
    BY <2>1 DEF OrderInv, Leaves
  <2>3. call'[s] # "reset_demo_data" => InOrder(todo'[s], inserted'[s], deleted'[s])
    BY <2>1, OrderKept
  <2> QED BY <2>2, <2>3 DEF OrderInv
<1>2. CASE UNCHANGED vars
  <2>1. UNCHANGED <<inserted, deleted, call, todo>>
    BY <1>2 DEF vars, transaction
  <2> QED BY <2>1 DEF OrderInv
<1> QED BY <1>1, <1>2

THEOREM OrderInvariant == Spec => []OrderInv
BY ScriptInvariant, InitOrder, StepOrder, PTL DEF Spec

\* A session that waits is about to write a lower table than the one its
\* blocker is about to write, unless its blocker is deleting from that table.
LEMMA WaitsUpwards ==
  ASSUME ScriptInv, OrderInv, NEW s \in Sessions, NEW o \in WaitsFor(s), Writes(o),
         call[o] # "reset_demo_data"
  PROVE  \/ Rank(Statement(s)) < Rank(Statement(o))
         \/ Statement(o).do = "delete" /\ TableOf(Statement(o)) = TableOf(Statement(s))
<1> SUFFICES ASSUME ~(Statement(o).do = "delete" /\ TableOf(Statement(o)) = TableOf(Statement(s)))
             PROVE  Rank(Statement(s)) < Rank(Statement(o))
  OBVIOUS
<1>1. Writes(s) /\ o \in Sessions
  BY DEF WaitsFor
<1>2. Runs(s) /\ Runs(o) /\ IsWrite(Statement(s)) /\ IsWrite(Statement(o))
  BY <1>1, WritesAreSent DEF Writes
<1>3. PICK x : x = Statement(s)
  OBVIOUS
<1>4. PICK t \in Tables : t = TableOf(x)
  BY <1>2, <1>3, FirstStatement
<1>5. 1 \in DOMAIN todo[o] /\ Statement(o) = todo[o][1]
  BY <1>1, <1>2, FirstStatement
<1>6. /\ inserted[o][t] \cup deleted[o][t] # {} => InsertRank[t] < Rank(Statement(o))
      /\ deleted[o][t] # {} => DeleteRank[t] < Rank(Statement(o))
  BY <1>1, <1>2, <1>3, <1>4, <1>5 DEF OrderInv, InOrder, Underway
<1>7. \/ Inserts(s, x) # {} /\ inserted[o][t] \cup deleted[o][t] # {}
      \/ Targets(s, x) # {} /\ deleted[o][t] # {}
  BY <1>1, <1>3, <1>4 DEF WaitsFor
<1>8. CASE Inserts(s, x) # {} /\ inserted[o][t] \cup deleted[o][t] # {}
  <2>1. x.do \in Inserting
    BY <1>8 DEF Inserts, Inserting
  <2> QED BY <1>3, <1>4, <1>6, <1>8, <2>1 DEF Rank
<1>9. CASE Targets(s, x) # {} /\ deleted[o][t] # {}
  <2>1. x.do \notin Inserting
    BY <1>9 DEF Targets, Inserting
  <2> QED BY <1>3, <1>4, <1>6, <1>9, <2>1 DEF Rank
<1> QED BY <1>7, <1>8, <1>9

-----------------------------------------------------------------------------
(* The ids that scripts insert, and the statements of a prune.             *)

\* Tables whose rows have a timestamp in their JSON.
Json == {"decisions", "review_cases", "review_decisions"}

Creates(x) == x.do \in {"insert", "insert_or_nothing"}

\* A row has an id; that of an event and of its message is the event's.
IsRow(t, r) ==
  /\ "id" \in DOMAIN r
  /\ t \in {"events", "outbox_messages"} => "event" \in DOMAIN r /\ r.id = EventId[r.event]

\* A row of a JSON table has one of these ids.
GivesOne(x, ids) ==
  Creates(x) => IsRow(x.table, x.row) /\ (x.table \in Json => x.row.id \in ids)

Gives(q, ids) == IsScript(q) /\ \A n \in DOMAIN q : GivesOne(q[n], ids)

OfPrune(x) ==
  \/ x.do \in {"read_tail", "insert_entry", "commit"}
  \/ x.do = "list_ids" /\ x.table \in Json
  \/ x.do = "delete" /\ x.rowcount /\ x.table \in Tables \ (Json \cup {"audit_entries"})
  \/ x.do = "delete" /\ ~x.rowcount /\ x.table \in Json

IsListed(x) == x.do = "delete" /\ ~x.rowcount

\* A list and the DELETE that goes by it.
IsPair(x, y) == x.do = "list_ids" /\ IsListed(y) /\ x.table = y.table

\* A DELETE by listed ids, but for the first statement, follows the SELECT of
\* the ids, which nothing else follows.
Paired(q) ==
  \A n \in DOMAIN q :
    /\ IsListed(q[n]) /\ n > 1 => IsPair(q[n - 1], q[n])
    /\ q[n].do = "list_ids" => n + 1 \in DOMAIN q /\ IsPair(q[n], q[n + 1])

PruneScript(q) == IsScript(q) /\ (\A n \in DOMAIN q : OfPrune(q[n])) /\ Paired(q)

Unlisted(q) == \A n \in DOMAIN q : n = 1 => ~IsListed(q[n])

LEMMA GivesConcat ==
  ASSUME NEW q, NEW r, NEW ids, Gives(q, ids), Gives(r, ids)
  PROVE  Gives(q \o r, ids)
<1>1. IsScript(q) /\ IsScript(r)
  BY DEF Gives
<1>2. IsScript(q \o r)
  BY <1>1, ScriptConcat
<1>3. \A n \in DOMAIN (q \o r) : \/ n \in DOMAIN q /\ (q \o r)[n] = q[n]
                                 \/ \E k \in DOMAIN r : (q \o r)[n] = r[k]
  BY <1>1, FromEither
<1> QED BY <1>2, <1>3 DEF Gives

LEMMA GivesStatement ==
  ASSUME NEW x, NEW ids, GivesOne(x, ids)
  PROVE  Gives(<<x>>, ids)
BY OneStatement DEF Gives

\* Statements that insert no row of their own.
LEMMA GivesNothing ==
  ASSUME NEW ids
  PROVE  /\ Gives(<<>>, ids) /\ Gives(Commit, ids)
         /\ \A action, target : Gives(AppendAudit(action, target), ids)
         /\ \A id : Gives(ReadMarked(id), ids)
         /\ \A t : Gives(DeleteFrom(t), ids) /\ Gives(Count(t), ids)
         /\ \A e : Gives(<<[do |-> "look_up", event |-> e]>>, ids)
         /\ \A id : /\ Gives(<<[do |-> "publish", id |-> id]>>, ids)
                    /\ Gives(<<[do |-> "read_case", id |-> id]>>, ids)
                    /\ Gives(<<[do |-> "close_case", id |-> id]>>, ids)
                    /\ Gives(<<[do |-> "read_attempts", id |-> id],
                               [do |-> "count_attempt", id |-> id]>>, ids)
<1>1. \A x : x.do \notin {"insert", "insert_or_nothing"} => GivesOne(x, ids)
  BY DEF GivesOne, Creates
<1>2. \A x : x.do \notin {"insert", "insert_or_nothing"} => Gives(<<x>>, ids)
  BY <1>1, GivesStatement
<1>3. \A x, y : {x.do, y.do} \cap {"insert", "insert_or_nothing"} = {} => Gives(<<x, y>>, ids)
  <2>1. ASSUME NEW x, NEW y, {x.do, y.do} \cap {"insert", "insert_or_nothing"} = {}
        PROVE  Gives(<<x, y>>, ids)
    <3>1. PICK q : q = <<x, y>>
      OBVIOUS
    <3>2. q \in Seq({x, y}) /\ (\A n \in DOMAIN q : q[n] \in {x, y})
      BY <3>1
    <3>3. IsScript(q)
      BY <3>2 DEF IsScript
    <3>4. GivesOne(x, ids) /\ GivesOne(y, ids)
      BY <1>1, <2>1
    <3>5. Gives(q, ids)
      BY <3>2, <3>3, <3>4 DEF Gives
    <3> QED BY <3>1, <3>5
  <2> QED BY <2>1
<1>4. Gives(<<>>, ids)
  BY NoStatement DEF Gives
<1>5. Gives(Commit, ids)
  BY <1>2 DEF Commit
<1>6. ASSUME NEW action, NEW target PROVE Gives(AppendAudit(action, target), ids)
  BY <1>3 DEF AppendAudit
<1>7. ASSUME NEW id PROVE Gives(ReadMarked(id), ids)
  BY <1>2 DEF ReadMarked
<1>8. ASSUME NEW t PROVE Gives(DeleteFrom(t), ids) /\ Gives(Count(t), ids)
  BY <1>2 DEF DeleteFrom, Count
<1>9. ASSUME NEW e PROVE Gives(<<[do |-> "look_up", event |-> e]>>, ids)
  BY <1>2
<1>10. ASSUME NEW id
       PROVE  /\ Gives(<<[do |-> "publish", id |-> id]>>, ids)
              /\ Gives(<<[do |-> "read_case", id |-> id]>>, ids)
              /\ Gives(<<[do |-> "close_case", id |-> id]>>, ids)
  BY <1>2
<1>11. ASSUME NEW id
       PROVE  Gives(<<[do |-> "read_attempts", id |-> id], [do |-> "count_attempt", id |-> id]>>, ids)
  BY <1>3
<1> QED BY <1>4, <1>5, <1>6, <1>7, <1>8, <1>9, <1>10, <1>11

LEMMA InsertGives ==
  ASSUME NEW t, NEW row, NEW ids, IsRow(t, row), t \in Json => row.id \in ids
  PROVE  Gives(Insert(t, row), ids) /\ Gives(InsertOrNothing(t, row), ids)
<1>1. PICK x : x = [do |-> "insert", table |-> t, row |-> row]
  OBVIOUS
<1>2. PICK y : y = [do |-> "insert_or_nothing", table |-> t, row |-> row]
  OBVIOUS
<1>3. GivesOne(x, ids) /\ GivesOne(y, ids)
  BY <1>1, <1>2 DEF GivesOne
<1> QED BY <1>1, <1>2, <1>3, GivesStatement DEF Insert, InsertOrNothing

LEMMA AddEventGives == ASSUME NEW e, NEW ids PROVE Gives(AddEvent(e), ids)
<1>1. /\ IsRow("events", EventRow(e)) /\ IsRow("outbox_messages", NewMessage(e))
      /\ "events" \notin Json /\ "outbox_messages" \notin Json
  BY DEF EventRow, NewMessage, Json, IsRow
<1>2. PICK a, b, c, d, f :
        /\ a = <<[do |-> "look_up", event |-> e]>> /\ b = Insert("events", EventRow(e))
        /\ c = EnqueueOutbox(e) /\ d = AppendAudit("event.ingested", e) /\ f = Commit
  OBVIOUS
<1>3. Gives(b, ids) /\ Gives(c, ids)
  BY <1>1, <1>2, InsertGives DEF EnqueueOutbox
<1>4. Gives(a, ids) /\ Gives(d, ids) /\ Gives(f, ids)
  BY <1>2, GivesNothing
<1>5. Gives(a \o b, ids) /\ Gives(a \o b \o c, ids)
  BY <1>3, <1>4, GivesConcat
<1>6. Gives(a \o b \o c \o d, ids) /\ Gives(a \o b \o c \o d \o f, ids)
  BY <1>4, <1>5, GivesConcat
<1> QED BY <1>2, <1>6 DEF AddEvent

LEMMA SaveGives ==
  ASSUME NEW t, NEW row, NEW ids, IsRow(t, row), row.id \in ids, NEW action, NEW target
  PROVE  Gives(Insert(t, row) \o AppendAudit(action, target) \o Commit, ids)
<1>1. PICK a, b, c : a = Insert(t, row) /\ b = AppendAudit(action, target) /\ c = Commit
  OBVIOUS
<1>2. Gives(a, ids) /\ Gives(b, ids) /\ Gives(c, ids)
  BY <1>1, InsertGives, GivesNothing
<1>3. Gives(a \o b, ids) /\ Gives(a \o b \o c, ids)
  BY <1>2, GivesConcat
<1> QED BY <1>1, <1>3

LEMMA SavesGive ==
  ASSUME NEW id
  PROVE  /\ Gives(SaveDecision(id), {id}) /\ Gives(SaveReviewCase(id), {id})
         /\ Gives(SaveStreamDeadLetter(id), {id}) /\ Gives(SaveReviewDecision(id), {id})
<1>1. /\ Gives(SaveDecision(id), {id}) /\ Gives(SaveReviewCase(id), {id})
      /\ Gives(SaveStreamDeadLetter(id), {id})
  BY SaveGives DEF SaveDecision, SaveReviewCase, SaveStreamDeadLetter, IsRow
<1>2. PICK row : row = [id |-> id, case |-> CaseOf[id]]
  OBVIOUS
<1>3. IsRow("review_decisions", row) /\ row.id = id
  BY <1>2 DEF IsRow
<1>4. PICK a, b, c, d, e :
        /\ a = <<[do |-> "read_case", id |-> CaseOf[id]]>>
        /\ b = Insert("review_decisions", row)
        /\ c = <<[do |-> "close_case", id |-> CaseOf[id]]>>
        /\ d = AppendAudit("review.decided", id) /\ e = Commit
  OBVIOUS
<1>5. Gives(a, {id}) /\ Gives(c, {id}) /\ Gives(d, {id}) /\ Gives(e, {id})
  BY <1>4, GivesNothing
<1>6. Gives(b, {id})
  BY <1>3, <1>4, InsertGives
<1>7. Gives(a \o b, {id}) /\ Gives(a \o b \o c, {id})
  BY <1>5, <1>6, GivesConcat
<1>8. Gives(a \o b \o c \o d, {id}) /\ Gives(a \o b \o c \o d \o e, {id})
  BY <1>5, <1>7, GivesConcat
<1> QED BY <1>1, <1>2, <1>4, <1>8 DEF SaveReviewDecision

LEMMA MarksGive ==
  ASSUME NEW id, NEW ids
  PROVE  Gives(MarkOutboxPublished(id), ids) /\ Gives(MarkOutboxFailed(id), ids)
<1>1. PICK a, b, c, d, e, f :
        /\ a = <<[do |-> "publish", id |-> id]>> /\ b = AppendAudit("outbox.published", id)
        /\ c = <<[do |-> "read_attempts", id |-> id], [do |-> "count_attempt", id |-> id]>>
        /\ d = AppendAudit("outbox.failed", id) /\ e = ReadMarked(id) /\ f = Commit
  OBVIOUS
<1>2. Gives(a, ids) /\ Gives(b, ids) /\ Gives(c, ids)
  BY <1>1, GivesNothing
<1>3. Gives(d, ids) /\ Gives(e, ids) /\ Gives(f, ids)
  BY <1>1, GivesNothing
<1>4. Gives(a \o b, ids) /\ Gives(c \o d, ids)
  BY <1>2, <1>3, GivesConcat
<1>5. Gives(a \o b \o e, ids) /\ Gives(c \o d \o e, ids)
  BY <1>3, <1>4, GivesConcat
<1>6. Gives(a \o b \o e \o f, ids) /\ Gives(c \o d \o e \o f, ids)
  BY <1>3, <1>5, GivesConcat
<1> QED BY <1>1, <1>6 DEF MarkOutboxPublished, MarkOutboxFailed

LEMMA ReportGives == ASSUME NEW tables, NEW ids PROVE Gives(RetentionReport(tables), ids)
<1> DEFINE If(t) == IF t \in tables THEN Count(t) ELSE <<>>
<1>1. \A t : Gives(If(t), ids)
  BY GivesNothing
<1>2. PICK h : h = Commit
  OBVIOUS
<1>3. Gives(h, ids)
  BY <1>2, GivesNothing
<1>4. RetentionReport(tables) =
        If("events") \o If("decisions") \o If("review_cases") \o If("review_decisions")
          \o If("outbox_messages") \o If("stream_dead_letters") \o If("audit_entries") \o h
  BY <1>2 DEF RetentionReport
<1> HIDE DEF If
<1>5. PICK a, b, c, d, e, f, g :
        /\ a = If("events") /\ b = If("decisions") /\ c = If("review_cases")
        /\ d = If("review_decisions") /\ e = If("outbox_messages")
        /\ f = If("stream_dead_letters") /\ g = If("audit_entries")
  OBVIOUS
<1>6. /\ Gives(a, ids) /\ Gives(b, ids) /\ Gives(c, ids) /\ Gives(d, ids)
      /\ Gives(e, ids) /\ Gives(f, ids) /\ Gives(g, ids)
  BY <1>1, <1>5
<1>7. Gives(a \o b, ids) /\ Gives(a \o b \o c, ids) /\ Gives(a \o b \o c \o d, ids)
  BY <1>6, GivesConcat
<1>8. Gives(a \o b \o c \o d \o e, ids) /\ Gives(a \o b \o c \o d \o e \o f, ids)
  BY <1>6, <1>7, GivesConcat
<1>9. Gives(a \o b \o c \o d \o e \o f \o g \o h, ids)
  BY <1>3, <1>6, <1>8, GivesConcat
<1> QED BY <1>4, <1>5, <1>9

LEMMA ResetGives == ASSUME NEW ids PROVE Gives(ResetDemoData, ids)
<1>1. PICK a, b, c, d, e, f, g, h :
        /\ a = DeleteFrom("review_decisions") /\ b = DeleteFrom("review_cases")
        /\ c = DeleteFrom("decisions") /\ d = DeleteFrom("stream_dead_letters")
        /\ e = DeleteFrom("outbox_messages") /\ f = DeleteFrom("events")
        /\ g = DeleteFrom("audit_entries") /\ h = Commit
  OBVIOUS
<1>2. /\ Gives(a, ids) /\ Gives(b, ids) /\ Gives(c, ids) /\ Gives(d, ids)
      /\ Gives(e, ids) /\ Gives(f, ids) /\ Gives(g, ids) /\ Gives(h, ids)
  BY <1>1, GivesNothing
<1>3. Gives(a \o b, ids) /\ Gives(a \o b \o c, ids) /\ Gives(a \o b \o c \o d, ids)
  BY <1>2, GivesConcat
<1>4. Gives(a \o b \o c \o d \o e, ids) /\ Gives(a \o b \o c \o d \o e \o f, ids)
  BY <1>2, <1>3, GivesConcat
<1>5. Gives(a \o b \o c \o d \o e \o f \o g \o h, ids)
  BY <1>2, <1>4, GivesConcat
<1> QED BY <1>1, <1>5 DEF ResetDemoData

\* Two parts of a prune, of which the second does not begin with a DELETE by
\* listed ids.
PrunePart(q) == PruneScript(q) /\ Unlisted(q)

LEMMA PruneConcat ==
  ASSUME NEW q, NEW r, PrunePart(q), PrunePart(r)
  PROVE  PrunePart(q \o r)
<1>1. IsScript(q) /\ IsScript(r)
  BY DEF PrunePart, PruneScript
<1>2. /\ IsScript(q \o r) /\ Len(q) \in Nat /\ Len(r) \in Nat
      /\ DOMAIN (q \o r) = 1 .. Len(q) + Len(r)
      /\ DOMAIN q = 1 .. Len(q) /\ DOMAIN r = 1 .. Len(r)
  BY <1>1, ScriptConcat
<1>3. PICK w : w = q \o r
  OBVIOUS
<1>4. /\ \A n \in DOMAIN q : n \in DOMAIN w /\ w[n] = q[n]
      /\ \A k \in DOMAIN r : Len(q) + k \in DOMAIN w /\ w[Len(q) + k] = r[k]
      /\ \A n \in DOMAIN w : n \in DOMAIN q \/ n - Len(q) \in DOMAIN r
  <2>1. \A k \in DOMAIN r : Len(q) + k \in 1 .. Len(q) + Len(r) /\ Len(q) + k > Len(q)
                             /\ (Len(q) + k) - Len(q) = k
    BY <1>2
  <2>2. \A k \in DOMAIN r : Len(q) + k \in DOMAIN w /\ w[Len(q) + k] = r[k]
    BY <1>1, <1>2, <1>3, <2>1, ScriptConcat
  <2>3. \A n \in DOMAIN q : n \in DOMAIN w /\ w[n] = q[n]
    BY <1>1, <1>2, <1>3, ScriptConcat
  <2>4. \A n \in DOMAIN w : n \in DOMAIN q \/ n - Len(q) \in DOMAIN r
    BY <1>2, <1>3
  <2> QED BY <2>2, <2>3, <2>4
<1>5. ASSUME NEW n \in DOMAIN w
      PROVE  /\ OfPrune(w[n])
             /\ IsListed(w[n]) /\ n > 1 => IsPair(w[n - 1], w[n])
             /\ w[n].do = "list_ids" => n + 1 \in DOMAIN w /\ IsPair(w[n], w[n + 1])
             /\ n = 1 => ~IsListed(w[n])
  <2>1. CASE n \in DOMAIN q
    <3>1. /\ OfPrune(q[n])
          /\ IsListed(q[n]) /\ n > 1 => IsPair(q[n - 1], q[n])
          /\ q[n].do = "list_ids" => n + 1 \in DOMAIN q /\ IsPair(q[n], q[n + 1])
          /\ n = 1 => ~IsListed(q[n])
      BY <2>1 DEF PrunePart, PruneScript, Paired, Unlisted
    <3>2. w[n] = q[n] /\ (n > 1 => n - 1 \in DOMAIN q)
      BY <1>2, <1>4, <2>1
    <3>3. n > 1 => w[n - 1] = q[n - 1]
      BY <1>4, <3>2
    <3>4. n + 1 \in DOMAIN q => n + 1 \in DOMAIN w /\ w[n + 1] = q[n + 1]
      BY <1>4
    <3> QED BY <3>1, <3>2, <3>3, <3>4
  <2>2. CASE n \notin DOMAIN q
    <3>1. PICK k \in DOMAIN r : k = n - Len(q)
      BY <1>4, <2>2
    <3>2. /\ OfPrune(r[k])
          /\ IsListed(r[k]) /\ k > 1 => IsPair(r[k - 1], r[k])
          /\ r[k].do = "list_ids" => k + 1 \in DOMAIN r /\ IsPair(r[k], r[k + 1])
          /\ k = 1 => ~IsListed(r[k])
      BY DEF PrunePart, PruneScript, Paired, Unlisted
    <3>3. n = Len(q) + k /\ k \in Nat \ {0} /\ n \in Nat
      <4>1. n \in Nat /\ k \in 1 .. Len(r)
        BY <1>2, <1>3
      <4> QED BY <1>2, <3>1, <4>1
    <3>4. w[n] = r[k]
      BY <1>4, <3>3
    <3>5. k > 1 => k - 1 \in DOMAIN r /\ n - 1 = Len(q) + (k - 1)
      BY <1>2, <3>3
    <3>6. k > 1 => w[n - 1] = r[k - 1]
      BY <1>4, <3>5
    <3>7. k + 1 \in DOMAIN r => n + 1 \in DOMAIN w /\ w[n + 1] = r[k + 1]
      <4>1. n + 1 = Len(q) + (k + 1)
        BY <1>2, <3>3
      <4> QED BY <1>4, <4>1
    <3>8. k = 1 \/ k > 1
      BY <3>3
    <3>9. n = 1 => k = 1
      BY <1>2, <3>3
    <3> QED BY <3>2, <3>4, <3>6, <3>7, <3>8, <3>9
  <2> QED BY <2>1, <2>2
<1> QED BY <1>2, <1>3, <1>5 DEF PrunePart, PruneScript, Paired, Unlisted

LEMMA PruneOne ==
  ASSUME NEW x, OfPrune(x), ~IsListed(x), x.do # "list_ids"
  PROVE  PrunePart(<<x>>)
BY OneStatement DEF PrunePart, PruneScript, Paired, Unlisted

LEMMA PruneNothing == PrunePart(<<>>)
BY NoStatement DEF PrunePart, PruneScript, Paired, Unlisted

\* The parts of prune_retention.
LEMMA PruneParts ==
  /\ \A t \in Tables \ (Json \cup {"audit_entries"}) : PrunePart(DeleteExpired(t))
  /\ \A t \in Json : PrunePart(DeleteListed(t))
  /\ \A action, target : PrunePart(AppendAudit(action, target))
  /\ PrunePart(Commit)
<1>1. ASSUME NEW t \in Tables \ (Json \cup {"audit_entries"}) PROVE PrunePart(DeleteExpired(t))
  <2>1. PICK x : x = [do |-> "delete", table |-> t, rowcount |-> TRUE]
    OBVIOUS
  <2>2. OfPrune(x) /\ ~IsListed(x) /\ x.do # "list_ids"
    BY <2>1 DEF OfPrune, IsListed
  <2> QED BY <2>1, <2>2, PruneOne DEF DeleteExpired
<1>2. ASSUME NEW t \in Json PROVE PrunePart(DeleteListed(t))
  <2>1. PICK x : x = [do |-> "list_ids", table |-> t]
    OBVIOUS
  <2>2. PICK y : y = [do |-> "delete", table |-> t, rowcount |-> FALSE]
    OBVIOUS
  <2>3. PICK q : q = <<x>> \o <<y>>
    OBVIOUS
  <2>4. DOMAIN q = 1 .. 2 /\ q[1] = x /\ q[2] = y
    BY <2>3
  <2>5. IsScript(q)
    BY <2>3, OneStatement, ScriptConcat
  <2>6. OfPrune(x) /\ OfPrune(y) /\ IsPair(x, y) /\ ~IsListed(x) /\ y.do # "list_ids"
    BY <2>1, <2>2 DEF OfPrune, IsPair, IsListed
  <2>7. \A n \in DOMAIN q : n = 1 \/ n = 2
    BY <2>4
  <2>8. PruneScript(q) /\ Unlisted(q)
    BY <2>4, <2>5, <2>6, <2>7 DEF PruneScript, Paired, Unlisted
  <2> QED BY <2>1, <2>2, <2>3, <2>8 DEF DeleteListed, DeleteFrom, PrunePart
<1>3. ASSUME NEW action, NEW target PROVE PrunePart(AppendAudit(action, target))
  <2>1. PICK x, y : x = [do |-> "read_tail"]
                    /\ y = [do |-> "insert_entry", action |-> action, target |-> target]
    OBVIOUS
  <2>2. /\ OfPrune(x) /\ ~IsListed(x) /\ x.do # "list_ids"
        /\ OfPrune(y) /\ ~IsListed(y) /\ y.do # "list_ids"
    BY <2>1 DEF OfPrune, IsListed
  <2>3. PICK q : q = <<x, y>>
    OBVIOUS
  <2>4. q \in Seq({x, y}) /\ (\A n \in DOMAIN q : q[n] \in {x, y})
    BY <2>3
  <2>5. IsScript(q)
    BY <2>4 DEF IsScript
  <2>6. PrunePart(q)
    BY <2>2, <2>4, <2>5 DEF PrunePart, PruneScript, Paired, Unlisted
  <2> QED BY <2>1, <2>3, <2>6 DEF AppendAudit
<1>4. PrunePart(Commit)
  BY PruneOne DEF Commit, OfPrune, IsListed
<1> QED BY <1>1, <1>2, <1>3, <1>4

LEMMA PruneScripts == ASSUME NEW tables PROVE PrunePart(PruneRetention(tables))
<1> DEFINE If(t, script) == IF t \in tables THEN script ELSE <<>>
<1>1. \A t \in Tables \ (Json \cup {"audit_entries"}) : PrunePart(If(t, DeleteExpired(t)))
  BY PruneParts, PruneNothing
<1>2. \A t \in Json : PrunePart(If(t, DeleteListed(t)))
  BY PruneParts, PruneNothing
<1>3. PruneRetention(tables) =
        If("outbox_messages", DeleteExpired("outbox_messages"))
          \o If("stream_dead_letters", DeleteExpired("stream_dead_letters"))
          \o If("events", DeleteExpired("events"))
          \o If("decisions", DeleteListed("decisions"))
          \o If("review_cases", DeleteListed("review_cases"))
          \o If("review_decisions", DeleteListed("review_decisions"))
          \o AppendAudit("retention.pruned", "retention") \o Commit
  BY DEF PruneRetention
<1> HIDE DEF If
<1>4. PICK a, b, c :
        /\ a = If("outbox_messages", DeleteExpired("outbox_messages"))
        /\ b = If("stream_dead_letters", DeleteExpired("stream_dead_letters"))
        /\ c = If("events", DeleteExpired("events"))
  OBVIOUS
<1>5. PICK d, e, f, g, h :
        /\ d = If("decisions", DeleteListed("decisions"))
        /\ e = If("review_cases", DeleteListed("review_cases"))
        /\ f = If("review_decisions", DeleteListed("review_decisions"))
        /\ g = AppendAudit("retention.pruned", "retention")
        /\ h = Commit
  OBVIOUS
<1>6. PrunePart(a) /\ PrunePart(b) /\ PrunePart(c)
  BY <1>1, <1>4 DEF Tables, Json
<1>7. PrunePart(d) /\ PrunePart(e) /\ PrunePart(f) /\ PrunePart(g) /\ PrunePart(h)
  BY <1>2, <1>5, PruneParts DEF Json
<1>8. PrunePart(a \o b) /\ PrunePart(a \o b \o c)
  BY <1>6, PruneConcat
<1>9. PrunePart(a \o b \o c \o d) /\ PrunePart(a \o b \o c \o d \o e)
  BY <1>7, <1>8, PruneConcat
<1>10. PrunePart(a \o b \o c \o d \o e \o f) /\ PrunePart(a \o b \o c \o d \o e \o f \o g)
  BY <1>7, <1>9, PruneConcat
<1>11. PrunePart(a \o b \o c \o d \o e \o f \o g \o h)
  BY <1>7, <1>10, PruneConcat
<1> QED BY <1>3, <1>4, <1>5, <1>11

\* No statement of a prune inserts a row but the audit entry.
LEMMA PruneGives == ASSUME NEW q, NEW ids, PruneScript(q) PROVE Gives(q, ids)
BY DEF PruneScript, OfPrune, Gives, GivesOne, Creates

-----------------------------------------------------------------------------
(* Rows and their locks.                                                   *)

\* New rows, whose ids are those of no row that is visible or locked.
Adds(s, t, news) ==
  /\ inserted'[s][t] = inserted[s][t] \cup news /\ deleted'[s][t] = deleted[s][t]
  /\ \A r \in news : "id" \in DOMAIN r
  /\ \A r \in news, q \in View(s, t) : r.id # q.id
  /\ \A r \in news, o \in Sessions \ {s} :
       /\ \A q \in inserted[o][t] : r.id # q.id
       /\ \A q \in deleted[o][t] : r.id # q.id

\* All rows with an id give way to rows with that id, or to none.
Swaps(s, t, olds, news) ==
  /\ inserted'[s][t] = (inserted[s][t] \ olds) \cup news
  /\ deleted'[s][t] = deleted[s][t] \cup (olds \cap db[t])
  /\ olds \subseteq View(s, t)
  /\ \A r \in news : "id" \in DOMAIN r /\ \E q \in olds : r.id = q.id
  /\ \A r \in news, q \in View(s, t) : r.id = q.id => q \in olds
  /\ \A r \in olds, o \in Sessions \ {s} : \A q \in deleted[o][t] : r.id # q.id

\* A row has one uncommitted writer, and an id one row.
Locks(t) ==
  \A s \in Sessions :
    /\ deleted[s][t] \subseteq db[t]
    /\ \A r \in inserted[s][t], q \in db[t] : r.id = q.id => q \in deleted[s][t]
    /\ \A o \in Sessions \ {s} :
         /\ \A r \in inserted[s][t], q \in inserted[o][t] : r.id # q.id
         /\ \A r \in inserted[s][t], q \in deleted[o][t] : r.id # q.id
         /\ \A q \in deleted[s][t] : q \notin deleted[o][t]

Identified(t) ==
  /\ \A r \in db[t] : "id" \in DOMAIN r
  /\ \A s \in Sessions : \A r \in inserted[s][t] : "id" \in DOMAIN r

\* What the others hold in a table stays.
OthersStay(s, t) ==
  \A o \in Sessions \ {s} : inserted'[o][t] = inserted[o][t] /\ deleted'[o][t] = deleted[o][t]

LEMMA LocksAdd ==
  ASSUME NEW t \in Tables, NEW s \in Sessions, NEW news, Locks(t), Identified(t),
         OthersStay(s, t), db'[t] = db[t], Adds(s, t, news)
  PROVE  Locks(t)' /\ Identified(t)'
<1>1. Identified(t)'
  BY DEF Identified, OthersStay, Adds
<1>2. ASSUME NEW u \in Sessions PROVE deleted'[u][t] \subseteq db'[t]
  BY DEF Locks, OthersStay, Adds
<1>3. ASSUME NEW u \in Sessions, NEW r \in inserted'[u][t], NEW q \in db'[t], r.id = q.id
      PROVE  q \in deleted'[u][t]
  <2>1. CASE u = s /\ r \in news
    BY <1>3, <2>1 DEF Adds, View
  <2>2. CASE u # s \/ r \in inserted[s][t]
    BY <1>3, <2>2 DEF Adds, Locks, OthersStay
  <2> QED BY <2>1, <2>2 DEF Adds
<1>4. ASSUME NEW u \in Sessions, NEW o \in Sessions \ {u}, NEW r \in inserted'[u][t]
      PROVE  (\A q \in inserted'[o][t] : r.id # q.id) /\ (\A q \in deleted'[o][t] : r.id # q.id)
  <2>1. CASE u = s
    BY <1>4, <2>1 DEF Adds, Locks, OthersStay
  <2>2. CASE u # s /\ o = s
    BY <1>4, <2>2 DEF Adds, Locks, OthersStay
  <2>3. CASE u # s /\ o # s
    BY <1>4, <2>3 DEF Locks, OthersStay
  <2> QED BY <2>1, <2>2, <2>3
<1>5. ASSUME NEW u \in Sessions, NEW o \in Sessions \ {u}, NEW q \in deleted'[u][t]
      PROVE  q \notin deleted'[o][t]
  BY DEF Locks, OthersStay, Adds
<1> QED BY <1>1, <1>2, <1>3, <1>4, <1>5 DEF Locks

LEMMA LocksSwap ==
  ASSUME NEW t \in Tables, NEW s \in Sessions, NEW olds, NEW news, Locks(t), Identified(t),
         OthersStay(s, t), db'[t] = db[t], Swaps(s, t, olds, news)
  PROVE  Locks(t)' /\ Identified(t)'
<1>1. Identified(t)'
  BY DEF Identified, OthersStay, Swaps
<1>2. ASSUME NEW u \in Sessions PROVE deleted'[u][t] \subseteq db'[t]
  BY DEF Locks, OthersStay, Swaps
<1>3. ASSUME NEW u \in Sessions, NEW r \in inserted'[u][t], NEW q \in db'[t], r.id = q.id
      PROVE  q \in deleted'[u][t]
  <2>1. CASE u = s /\ r \in news
    BY <1>3, <2>1 DEF Swaps, View
  <2>2. CASE u # s \/ r \in inserted[s][t]
    BY <1>3, <2>2 DEF Swaps, Locks, OthersStay
  <2> QED BY <2>1, <2>2 DEF Swaps
<1>4. ASSUME NEW o \in Sessions \ {s}, NEW r \in olds PROVE \A q \in inserted[o][t] : r.id # q.id
  <2> SUFFICES ASSUME NEW q \in inserted[o][t], r.id = q.id PROVE FALSE
    OBVIOUS
  <2>1. CASE r \in inserted[s][t]
    BY <2>1 DEF Locks
  <2>2. CASE r \in db[t]
    <3>1. r \in deleted[o][t]
      BY <2>2 DEF Locks
    <3> QED BY <3>1 DEF Swaps
  <2> QED BY <2>1, <2>2 DEF Swaps, View
<1>5. ASSUME NEW o \in Sessions \ {s}, NEW r \in inserted'[s][t]
      PROVE  (\A q \in inserted[o][t] : r.id # q.id) /\ (\A q \in deleted[o][t] : r.id # q.id)
  <2>1. CASE r \in news
    <3>1. PICK q \in olds : r.id = q.id
      BY <2>1 DEF Swaps
    <3>2. \A p \in inserted[o][t] : q.id # p.id
      BY <1>4
    <3>3. \A p \in deleted[o][t] : q.id # p.id
      BY DEF Swaps
    <3> QED BY <3>1, <3>2, <3>3
  <2>2. CASE r \in inserted[s][t]
    BY <2>2 DEF Locks
  <2> QED BY <2>1, <2>2 DEF Swaps
<1>6. ASSUME NEW o \in Sessions \ {s}, NEW r \in inserted[o][t], NEW q \in deleted'[s][t]
      PROVE  r.id # q.id
  BY <1>4 DEF Swaps, Locks
<1>7. ASSUME NEW u \in Sessions, NEW o \in Sessions \ {u}, NEW r \in inserted'[u][t]
      PROVE  (\A q \in inserted'[o][t] : r.id # q.id) /\ (\A q \in deleted'[o][t] : r.id # q.id)
  <2>1. CASE u = s
    BY <1>5, <1>7, <2>1 DEF OthersStay
  <2>2. CASE u # s /\ o = s
    <3>1. r \in inserted[u][t]
      BY <1>7, <2>2 DEF OthersStay
    <3>2. \A q \in inserted'[s][t] : r.id # q.id
      BY <1>5, <2>2, <3>1
    <3> QED BY <1>6, <2>2, <3>1, <3>2
  <2>3. CASE u # s /\ o # s
    BY <1>7, <2>3 DEF Locks, OthersStay
  <2> QED BY <2>1, <2>2, <2>3
<1>8. ASSUME NEW o \in Sessions \ {s}, NEW q \in deleted'[s][t] PROVE q \notin deleted[o][t]
  BY DEF Swaps, Locks
<1>9. ASSUME NEW u \in Sessions, NEW o \in Sessions \ {u}, NEW q \in deleted'[u][t]
      PROVE  q \notin deleted'[o][t]
  <2>1. CASE u = s
    BY <1>8, <1>9, <2>1 DEF OthersStay
  <2>2. CASE u # s /\ o = s
    BY <1>8, <1>9, <2>2 DEF OthersStay
  <2>3. CASE u # s /\ o # s
    BY <1>9, <2>3 DEF Locks, OthersStay
  <2> QED BY <2>1, <2>2, <2>3
<1> QED BY <1>1, <1>2, <1>3, <1>7, <1>9 DEF Locks

\* The rows of a transaction become the table's, or are forgotten.
LEMMA LocksEnd ==
  ASSUME NEW t \in Tables, NEW s \in Sessions, Locks(t), Identified(t), OthersStay(s, t),
         inserted'[s][t] = {}, deleted'[s][t] = {}, db'[t] \in {db[t], View(s, t)}
  PROVE  Locks(t)' /\ Identified(t)'
<1>1. Identified(t)'
  BY DEF Identified, OthersStay, View
<1>2. ASSUME NEW u \in Sessions PROVE deleted'[u][t] \subseteq db'[t]
  BY DEF Locks, OthersStay, View
<1>3. ASSUME NEW u \in Sessions, NEW r \in inserted'[u][t], NEW q \in db'[t], r.id = q.id
      PROVE  q \in deleted'[u][t]
  <2>1. u # s /\ r \in inserted[u][t]
    BY <1>3 DEF OthersStay
  <2>2. q \in db[t] \/ q \in inserted[s][t]
    BY <1>3 DEF View
  <2>3. q \in deleted[u][t]
    BY <1>3, <2>1, <2>2 DEF Locks
  <2> QED BY <2>1, <2>3 DEF OthersStay
<1>4. ASSUME NEW u \in Sessions, NEW o \in Sessions \ {u}, NEW r \in inserted'[u][t]
      PROVE  (\A q \in inserted'[o][t] : r.id # q.id) /\ (\A q \in deleted'[o][t] : r.id # q.id)
  BY DEF Locks, OthersStay
<1>5. ASSUME NEW u \in Sessions, NEW o \in Sessions \ {u}, NEW q \in deleted'[u][t]
      PROVE  q \notin deleted'[o][t]
  BY DEF Locks, OthersStay
<1> QED BY <1>1, <1>2, <1>3, <1>4, <1>5 DEF Locks

LEMMA LocksStay ==
  ASSUME NEW t \in Tables, Locks(t), Identified(t), db'[t] = db[t],
         \A u \in Sessions : inserted'[u][t] = inserted[u][t] /\ deleted'[u][t] = deleted[u][t]
  PROVE  Locks(t)' /\ Identified(t)'
BY DEF Locks, Identified

-----------------------------------------------------------------------------
(* The statements, row by row.                                             *)

\* One row takes the place of another.
Same(r, q) ==
  /\ "id" \in DOMAIN q => "id" \in DOMAIN r /\ r.id = q.id
  /\ "event" \in DOMAIN q => "event" \in DOMAIN r /\ r.event = q.event

Copies(olds, news) ==
  /\ \A r \in news : \E q \in olds : Same(r, q)
  /\ \A q \in olds : \E r \in news : Same(r, q)

\* A write statement was sent.
Sent(s, t) ==
  /\ Proceeds(s) /\ t \in Tables /\ t = TableOf(Statement(s))
  /\ \A u \in Tables \ {t} : inserted'[s][u] = inserted[s][u] /\ deleted'[s][u] = deleted[s][u]
  /\ listed'[s] = NoList
  /\ UNCHANGED <<db, used, pruned, overlapped>>

\* Its rows, or none when one of their ids or keys is there.
Added(s, t, news) ==
  /\ Sent(s, t) /\ Statement(s).do \in Inserting
  /\ \/ news = Inserts(s, Statement(s))
     \/ /\ news = {} /\ Statement(s).do = "insert_or_nothing"
        /\ \E r \in Inserts(s, Statement(s)), q \in View(s, t) : Clash(t, q, r)
  /\ Adds(s, t, news) /\ counted'[s] = counted[s]

Replaced(s, t, olds, news) ==
  /\ Sent(s, t) /\ Statement(s).do \in Replacing \ {"delete"}
  /\ Swaps(s, t, olds, news) /\ Copies(olds, news) /\ counted'[s] = counted[s]

ChosenRows(s, t) == {r \in View(s, t) : r.id \in Chosen(s, t)}

Removed(s, t) ==
  /\ Sent(s, t) /\ Statement(s).do = "delete" /\ WaitsFor(s) = {}
  /\ Swaps(s, t, ChosenRows(s, t), {})
  /\ counted'[s] = IF Statement(s).rowcount
                   THEN counted[s] \cup Named(t, {r.id : r \in ChosenRows(s, t)}) ELSE counted[s]

\* The waits of a statement that inserts rows, or writes to ids.
LEMMA NoClash ==
  ASSUME NEW s \in Sessions, WaitsFor(s) = {}, Writes(s), NEW t, t = TableOf(Statement(s)),
         NEW o \in Sessions \ {s}
  PROVE  /\ \A r \in Inserts(s, Statement(s)) :
              /\ \A q \in inserted[o][t] : r.id # q.id
              /\ \A q \in deleted[o][t] : r.id # q.id
         /\ \A q \in deleted[o][t] : q.id \notin Targets(s, Statement(s))
BY DEF WaitsFor, Clash

LEMMA ChangingRows ==
  ASSUME Shapes, NEW s \in Sessions, NEW t \in Tables, NEW olds, NEW news, Runs(s),
         t = TableOf(Statement(s)), Changes(s, t, olds, news)
  PROVE  /\ Sent(s, t)
         /\ inserted'[s][t] = (inserted[s][t] \ olds) \cup news
         /\ deleted'[s][t] = deleted[s][t] \cup (olds \cap db[t])
<1>1. Advances(s) /\ UNCHANGED <<db, used, pruned, overlapped>>
  BY DEF Changes, Touches, ghosts
<1>2. /\ inserted' = [inserted EXCEPT ![s] = [inserted[s] EXCEPT ![t] = (inserted[s][t] \ olds) \cup news]]
      /\ deleted' = [deleted EXCEPT ![s] = [deleted[s] EXCEPT ![t] = deleted[s][t] \cup (olds \cap db[t])]]
  BY DEF Changes, Touches
<1>3. /\ inserted'[s] = [inserted[s] EXCEPT ![t] = (inserted[s][t] \ olds) \cup news]
      /\ deleted'[s] = [deleted[s] EXCEPT ![t] = deleted[s][t] \cup (olds \cap db[t])]
  BY <1>2 DEF Shapes
<1>4. /\ inserted'[s][t] = (inserted[s][t] \ olds) \cup news
      /\ deleted'[s][t] = deleted[s][t] \cup (olds \cap db[t])
      /\ \A u \in Tables \ {t} : inserted'[s][u] = inserted[s][u] /\ deleted'[s][u] = deleted[s][u]
  BY <1>3 DEF Shapes
<1>5. Proceeds(s) /\ listed'[s] = NoList
  BY <1>1, Advancing
<1> QED BY <1>1, <1>4, <1>5 DEF Sent

LEMMA AddingRows ==
  ASSUME Shapes, NEW s \in Sessions, NEW t \in Tables, Runs(s), WaitsFor(s) = {},
         t = TableOf(Statement(s)), Statement(s).do \in Inserting,
         Creates(Statement(s)) => "id" \in DOMAIN Statement(s).row,
         InsertRow(s, Statement(s))
  PROVE  Fails(s) \/ \E news : Added(s, t, news)
<1>1. Writes(s)
  BY DEF Writes, Inserting
<1>2. \A r \in Inserts(s, Statement(s)) : "id" \in DOMAIN r
  BY DEF Inserts, Inserting, Creates
<1>3. PICK rows : rows = Inserts(s, Statement(s))
  OBVIOUS
<1>4. ASSUME NEW news, Replaces(s, t, {}, news),
             \A r \in news, q \in View(s, t) : ~Clash(t, q, r),
             \/ news = rows
             \/ /\ news = {} /\ Statement(s).do = "insert_or_nothing"
                /\ \E r \in rows, q \in View(s, t) : Clash(t, q, r)
      PROVE  Added(s, t, news)
  <2>1. Changes(s, t, {}, news) /\ counted' = counted
    BY <1>4 DEF Replaces
  <2>2. /\ Sent(s, t)
        /\ inserted'[s][t] = inserted[s][t] \cup news
        /\ deleted'[s][t] = deleted[s][t]
    <3>1. PICK none : none = {}
      OBVIOUS
    <3>2. Changes(s, t, none, news)
      BY <2>1, <3>1
    <3>3. /\ Sent(s, t)
          /\ inserted'[s][t] = (inserted[s][t] \ none) \cup news
          /\ deleted'[s][t] = deleted[s][t] \cup (none \cap db[t])
      BY <3>2, ChangingRows
    <3> QED BY <3>1, <3>3
  <2>3. \A r \in news, q \in View(s, t) : r.id # q.id
    BY <1>4 DEF Clash
  <2>4. \A r \in news, o \in Sessions \ {s} :
          /\ \A q \in inserted[o][t] : r.id # q.id
          /\ \A q \in deleted[o][t] : r.id # q.id
    BY <1>1, <1>3, <1>4, NoClash
  <2> QED BY <1>2, <1>3, <1>4, <2>1, <2>2, <2>3, <2>4 DEF Added, Adds
<1>5. CASE Rollback(s)
  BY <1>5, RollingBack
<1>6. CASE /\ Replaces(s, t, {}, {}) /\ Statement(s).do = "insert_or_nothing"
           /\ \E r \in rows, q \in View(s, t) : Clash(t, q, r)
  BY <1>4, <1>6
<1>7. CASE Replaces(s, t, {}, rows) /\ ~(\E r \in rows, q \in View(s, t) : Clash(t, q, r))
  BY <1>4, <1>7
<1> QED BY <1>3, <1>5, <1>6, <1>7 DEF InsertRow

LEMMA ReplacingById ==
  ASSUME Shapes, NEW s \in Sessions, Runs(s), WaitsFor(s) = {},
         \A t \in Tables : Identified(t),
         NEW id, id = Statement(s).id,
         \/ Statement(s).do = "publish" /\ Publish(s, id)
         \/ Statement(s).do = "count_attempt" /\ CountAttempt(s, id)
         \/ Statement(s).do = "close_case" /\ CloseCase(s, id)
  PROVE  \E t, olds, news : Replaced(s, t, olds, news)
<1>1. Writes(s) /\ Statement(s).do \in Replacing \ {"delete"} /\ Targets(s, Statement(s)) = {id}
  BY DEF Writes, Replacing, Targets
<1>2. \E t \in Tables : \E olds, news :
        /\ t = TableOf(Statement(s)) /\ olds \in {Row(s, t, id), {}}
        /\ Copies(olds, news)
        /\ Replaces(s, t, olds, news)
  <2>1. CASE Statement(s).do = "close_case" /\ CloseCase(s, id)
    <3>1. PICK t \in Tables : t = "review_cases" /\ t = TableOf(Statement(s))
      BY <2>1 DEF TableOf, Tables
    <3>2. PICK olds : olds = IF sight[s] = 0 THEN {} ELSE Row(s, t, id)
      OBVIOUS
    <3>3. PICK news : news = {[r EXCEPT !.status = "closed"] : r \in olds}
      OBVIOUS
    <3>4. Replaces(s, t, olds, news)
      BY <2>1, <3>1, <3>2, <3>3 DEF CloseCase
    <3>5. Copies(olds, news)
      <4>1. \A r \in olds : [r EXCEPT !.status = "closed"] \in news /\ Same([r EXCEPT !.status = "closed"], r)
        BY <3>3 DEF Same
      <4>2. \A q \in news : \E r \in olds : q = [r EXCEPT !.status = "closed"]
        BY <3>3
      <4> QED BY <4>1, <4>2 DEF Copies
    <3> QED BY <3>1, <3>2, <3>4, <3>5
  <2>2. CASE Statement(s).do = "publish" /\ Publish(s, id)
    <3>1. PICK t \in Tables : t = "outbox_messages" /\ t = TableOf(Statement(s))
      BY <2>2 DEF TableOf, Tables
    <3>2. PICK olds : olds = Row(s, t, id)
      OBVIOUS
    <3>3. PICK news : news = {[r EXCEPT !.status = "PUBLISHED"] : r \in olds}
      OBVIOUS
    <3>4. Replaces(s, t, olds, news)
      BY <2>2, <3>1, <3>2, <3>3 DEF Publish
    <3>5. Copies(olds, news)
      <4>1. \A r \in olds : /\ [r EXCEPT !.status = "PUBLISHED"] \in news
                            /\ Same([r EXCEPT !.status = "PUBLISHED"], r)
        BY <3>3 DEF Same
      <4>2. \A q \in news : \E r \in olds : q = [r EXCEPT !.status = "PUBLISHED"]
        BY <3>3
      <4> QED BY <4>1, <4>2 DEF Copies
    <3> QED BY <3>1, <3>2, <3>4, <3>5
  <2>3. CASE Statement(s).do = "count_attempt" /\ CountAttempt(s, id)
    <3>1. PICK t \in Tables : t = "outbox_messages" /\ t = TableOf(Statement(s))
      BY <2>3 DEF TableOf, Tables
    <3>2. PICK olds : olds = Row(s, t, id)
      OBVIOUS
    <3>3. PICK attempts, status :
            /\ attempts = sight[s] + 1
            /\ status = IF attempts >= MaxAttempts THEN "DEAD_LETTER" ELSE "FAILED"
      OBVIOUS
    <3>4. PICK news : news = {[r EXCEPT !.attempts = attempts, !.status = status] : r \in olds}
      OBVIOUS
    <3>5. Copies(olds, news)
      <4>1. \A r \in olds : /\ [r EXCEPT !.attempts = attempts, !.status = status] \in news
                            /\ Same([r EXCEPT !.attempts = attempts, !.status = status], r)
        BY <3>4 DEF Same
      <4>2. \A q \in news : \E r \in olds : q = [r EXCEPT !.attempts = attempts, !.status = status]
        BY <3>4
      <4> QED BY <4>1, <4>2 DEF Copies
    <3>6. Replaces(s, t, olds, news)
      BY <2>3, <3>1, <3>2, <3>3, <3>4 DEF CountAttempt
    <3> QED BY <3>1, <3>2, <3>5, <3>6
  <2> QED BY <2>1, <2>2, <2>3
<1>3. PICK t \in Tables : \E olds, news :
        /\ t = TableOf(Statement(s)) /\ olds \in {Row(s, t, id), {}}
        /\ Copies(olds, news)
        /\ Replaces(s, t, olds, news)
  BY <1>2
<1>4. PICK olds, news :
        /\ t = TableOf(Statement(s)) /\ olds \in {Row(s, t, id), {}}
        /\ Copies(olds, news)
        /\ Replaces(s, t, olds, news)
  BY <1>3
<1>5. Changes(s, t, olds, news) /\ counted' = counted
  BY <1>4 DEF Replaces
<1>6. /\ Sent(s, t)
      /\ inserted'[s][t] = (inserted[s][t] \ olds) \cup news
      /\ deleted'[s][t] = deleted[s][t] \cup (olds \cap db[t])
  BY <1>4, <1>5, ChangingRows
<1>7. olds \subseteq View(s, t) /\ (\A q \in olds : q.id = id)
      /\ (olds # {} => \A q \in View(s, t) : q.id = id => q \in olds)
  BY <1>4 DEF Row
<1>8. \A q \in View(s, t) : "id" \in DOMAIN q
  BY DEF Identified, View
<1>9. \A r \in news : "id" \in DOMAIN r /\ \E q \in olds : r.id = q.id
  BY <1>4, <1>7, <1>8 DEF Copies, Same
<1>10. \A r \in news, q \in View(s, t) : r.id = q.id => q \in olds
  BY <1>7, <1>9
<1>11. \A o \in Sessions \ {s} : \A q \in deleted[o][t] : q.id # id
  BY <1>1, <1>4, NoClash
<1>12. Swaps(s, t, olds, news)
  BY <1>6, <1>7, <1>9, <1>10, <1>11 DEF Swaps
<1> QED BY <1>1, <1>4, <1>5, <1>6, <1>12 DEF Replaced

LEMMA RemovingRows ==
  ASSUME Shapes, NEW s \in Sessions, Runs(s), WaitsFor(s) = {}, Statement(s).do = "delete",
         TableOf(Statement(s)) \in Tables, DeleteRows(s, Statement(s))
  PROVE  \E t : Removed(s, t)
<1>1. Writes(s) /\ TableOf(Statement(s)) = Statement(s).table
      /\ Targets(s, Statement(s)) = Chosen(s, Statement(s).table)
  BY DEF Writes, TableOf, Targets
<1>2. PICK t \in Tables : t = TableOf(Statement(s)) /\ t = Statement(s).table
  BY <1>1
<1>3. PICK olds : olds = ChosenRows(s, t)
  OBVIOUS
<1>4. Changes(s, t, olds, {})
      /\ counted' = [counted EXCEPT ![s] =
           IF Statement(s).rowcount THEN @ \cup Named(t, {r.id : r \in olds}) ELSE @]
  BY <1>2, <1>3 DEF DeleteRows, Victims, CountsDeleted, ChosenRows
<1>5. /\ Sent(s, t)
      /\ inserted'[s][t] = (inserted[s][t] \ olds) \cup {}
      /\ deleted'[s][t] = deleted[s][t] \cup (olds \cap db[t])
  <2>1. PICK none : none = {}
    OBVIOUS
  <2>2. Changes(s, t, olds, none)
    BY <1>4, <2>1
  <2>3. /\ Sent(s, t)
        /\ inserted'[s][t] = (inserted[s][t] \ olds) \cup none
        /\ deleted'[s][t] = deleted[s][t] \cup (olds \cap db[t])
    <3>1. t = TableOf(Statement(s))
      BY <1>2
    <3>2. Shapes /\ Runs(s) /\ s \in Sessions /\ t \in Tables
      OBVIOUS
    <3> QED BY <2>2, <3>1, <3>2, ChangingRows
  <2> QED BY <2>1, <2>3
<1>6. \A r \in olds : r \in View(s, t) /\ r.id \in Chosen(s, t)
  BY <1>3 DEF ChosenRows
<1>7. \A o \in Sessions \ {s} : \A q \in deleted[o][t] : q.id \notin Chosen(s, t)
  BY <1>1, <1>2, NoClash
<1>8. Swaps(s, t, olds, {})
  BY <1>5, <1>6, <1>7 DEF Swaps
<1>9. counted'[s] = IF Statement(s).rowcount
                    THEN counted[s] \cup Named(t, {r.id : r \in olds}) ELSE counted[s]
  BY <1>4 DEF Shapes
<1> QED BY <1>3, <1>5, <1>8, <1>9 DEF Removed

\* A DELETE that gets one more row takes all rows with its id.
LEMMA PartedSwaps ==
  ASSUME NEW s \in Sessions, NEW t, NEW id, Parted(s, t, id)
  PROVE  \E row, none :
           /\ row = Row(s, t, id) /\ none = {} /\ Swaps(s, t, row, none)
           /\ \A u \in Tables \ {t} : inserted'[s][u] = inserted[s][u] /\ deleted'[s][u] = deleted[s][u]
<1>1. PICK row, none : row = Row(s, t, id) /\ none = {}
  OBVIOUS
<1>2. inserted'[s][t] = inserted[s][t] \ row /\ deleted'[s][t] = deleted[s][t] \cup (row \cap db[t])
  BY <1>1 DEF Parted
<1>3. row \subseteq View(s, t) /\ \A r \in row : r.id = id
  BY <1>1 DEF Row
<1>4. \A o \in Sessions \ {s} : \A q \in deleted[o][t] : q.id # id
  BY DEF Parted, IsHeld
<1>5. Swaps(s, t, row, none)
  BY <1>1, <1>2, <1>3, <1>4 DEF Swaps
<1> QED BY <1>1, <1>5 DEF Parted

-----------------------------------------------------------------------------
(* What a script writes together.                                          *)

\* What the audit entry of a row's creation is about.
Subject(t, r) == IF t = "events" THEN r.event ELSE r.id

IsEntry(x, action, target) == x.do = "insert_entry" /\ x.action = action /\ x.target = target

Enqueues(x) == Creates(x) /\ x.table = "outbox_messages"

IsMessage(x, e) == Enqueues(x) /\ x.row = NewMessage(e)

InsertsEvent(x, e) == x.do = "insert" /\ x.table = "events" /\ x.row.event = e

\* No row but the entries is inserted into the audit table.  A row is followed
\* by the entry of its creation, and an event by its message; a message comes
\* right after its event, and the last entry, the only one, right after the
\* SELECT of the tail.
Booked(q) ==
  /\ IsScript(q)
  /\ \A n \in DOMAIN q :
       /\ Creates(q[n]) => q[n].table # "audit_entries"
       /\ Creates(q[n]) /\ q[n].table \in DOMAIN Creation =>
            \E k \in DOMAIN q :
              k > n /\ IsEntry(q[k], Creation[q[n].table], Subject(q[n].table, q[n].row))
       /\ Creates(q[n]) /\ q[n].table = "events" =>
            q[n].do = "insert" /\ \E k \in DOMAIN q : k > n /\ IsMessage(q[k], q[n].row.event)
       /\ Enqueues(q[n]) => n = 1 \/ InsertsEvent(q[n - 1], q[n].row.event)
       /\ q[n].do = "insert_entry" =>
            /\ n = 1 \/ q[n - 1].do = "read_tail"
            /\ \A k \in DOMAIN q : k > n => q[k].do # "insert_entry"

\* A whole script.
Opens(q) == \A n \in DOMAIN q : n = 1 => ~Enqueues(q[n]) /\ q[n].do # "insert_entry"

Whole(q) == Booked(q) /\ Opens(q)

\* Statements that insert nothing.
Quiet(q) == IsScript(q) /\ \A n \in DOMAIN q : ~Creates(q[n]) /\ q[n].do # "insert_entry"

Spares(q) == \A n \in DOMAIN q : q[n].do # "delete"

\* What follows the first statement.
LEMMA BookedTail ==
  ASSUME NEW q, Booked(q), q # <<>>
  PROVE  /\ Booked(Tail(q)) /\ (Spares(q) => Spares(Tail(q)))
         /\ \A n \in DOMAIN q : n = 1 \/ \E k \in DOMAIN Tail(q) : Tail(q)[k] = q[n]
         /\ \A n \in DOMAIN Tail(q) : \E k \in DOMAIN q : Tail(q)[n] = q[k]
         /\ Creates(Head(q)) => Head(q).table # "audit_entries"
         /\ Creates(Head(q)) /\ Head(q).table \in DOMAIN Creation =>
              \E k \in DOMAIN Tail(q) :
                IsEntry(Tail(q)[k], Creation[Head(q).table], Subject(Head(q).table, Head(q).row))
         /\ Creates(Head(q)) /\ Head(q).table = "events" =>
              /\ Head(q).do = "insert"
              /\ \E k \in DOMAIN Tail(q) : IsMessage(Tail(q)[k], Head(q).row.event)
         /\ Tail(q) # <<>> /\ Enqueues(Head(Tail(q))) =>
              InsertsEvent(Head(q), Head(Tail(q)).row.event)
         /\ Tail(q) # <<>> /\ Head(Tail(q)).do = "insert_entry" => Head(q).do = "read_tail"
         /\ Head(q).do = "insert_entry" =>
              \A k \in DOMAIN Tail(q) : Tail(q)[k].do # "insert_entry"
<1>1. IsScript(q) /\ IsScript(Tail(q))
  BY ScriptTail DEF Booked
<1>2. /\ Len(q) \in Nat \ {0} /\ DOMAIN q = 1 .. Len(q) /\ DOMAIN Tail(q) = 1 .. Len(q) - 1
      /\ Head(q) = q[1] /\ \A n \in 1 .. Len(q) - 1 : Tail(q)[n] = q[n + 1]
      /\ Tail(q) = <<>> <=> Len(q) = 1
  BY <1>1, ScriptTail
<1>3. \A n \in DOMAIN Tail(q) : n + 1 \in DOMAIN q /\ n + 1 > 1 /\ n \in Nat /\ Tail(q)[n] = q[n + 1]
  BY <1>2
<1>4. ASSUME NEW n \in DOMAIN q, n # 1
      PROVE  n - 1 \in DOMAIN Tail(q) /\ Tail(q)[n - 1] = q[n]
  <2>1. n - 1 \in 1 .. Len(q) - 1 /\ (n - 1) + 1 = n
    BY <1>2, <1>4
  <2> QED BY <1>2, <2>1
<1>5. ASSUME NEW n \in DOMAIN q, NEW k \in DOMAIN q, k > n
      PROVE  /\ k - 1 \in DOMAIN Tail(q) /\ Tail(q)[k - 1] = q[k]
             /\ n # 1 => k - 1 > n - 1
  <2>1. k # 1
    BY <1>2, <1>5
  <2> QED BY <1>2, <1>4, <1>5, <2>1
<1>6. ASSUME NEW m \in DOMAIN Tail(q), NEW n \in DOMAIN q, n = m + 1
      PROVE  /\ Creates(q[n]) => q[n].table # "audit_entries"
             /\ Creates(q[n]) /\ q[n].table \in DOMAIN Creation =>
                  \E k \in DOMAIN Tail(q) :
                    k > m /\ IsEntry(Tail(q)[k], Creation[q[n].table], Subject(q[n].table, q[n].row))
             /\ Creates(q[n]) /\ q[n].table = "events" =>
                  /\ q[n].do = "insert"
                  /\ \E k \in DOMAIN Tail(q) : k > m /\ IsMessage(Tail(q)[k], q[n].row.event)
             /\ Enqueues(q[n]) => m = 1 \/ InsertsEvent(Tail(q)[m - 1], q[n].row.event)
             /\ q[n].do = "insert_entry" =>
                  /\ m = 1 \/ Tail(q)[m - 1].do = "read_tail"
                  /\ \A k \in DOMAIN Tail(q) : k > m => Tail(q)[k].do # "insert_entry"
  <2>1. m \in Nat /\ n # 1 /\ n - 1 = m
    BY <1>3, <1>6
  <2>2. \A k \in DOMAIN q : k > n => k - 1 \in DOMAIN Tail(q) /\ Tail(q)[k - 1] = q[k] /\ k - 1 > m
    BY <1>5, <2>1
  <2>3. m # 1 => Tail(q)[m - 1] = q[m]
    <3>1. m # 1 => m \in DOMAIN q
      BY <1>2, <2>1
    <3> QED BY <1>4, <3>1
  <2>4. \A k \in DOMAIN Tail(q) : k > m => k + 1 \in DOMAIN q /\ k + 1 > n /\ Tail(q)[k] = q[k + 1]
    BY <1>3, <1>6, <2>1
  <2>5. Creates(q[n]) /\ q[n].table \in DOMAIN Creation =>
          \E k \in DOMAIN Tail(q) :
            k > m /\ IsEntry(Tail(q)[k], Creation[q[n].table], Subject(q[n].table, q[n].row))
    BY <2>2 DEF Booked
  <2>6. Creates(q[n]) /\ q[n].table = "events" =>
          /\ q[n].do = "insert"
          /\ \E k \in DOMAIN Tail(q) : k > m /\ IsMessage(Tail(q)[k], q[n].row.event)
    BY <2>2 DEF Booked
  <2>7. Enqueues(q[n]) => m = 1 \/ InsertsEvent(Tail(q)[m - 1], q[n].row.event)
    BY <2>1, <2>3 DEF Booked
  <2>8. q[n].do = "insert_entry" =>
          /\ m = 1 \/ Tail(q)[m - 1].do = "read_tail"
          /\ \A k \in DOMAIN Tail(q) : k > m => Tail(q)[k].do # "insert_entry"
    BY <2>1, <2>3, <2>4 DEF Booked
  <2>9. Creates(q[n]) => q[n].table # "audit_entries"
    BY DEF Booked
  <2> QED BY <2>5, <2>6, <2>7, <2>8, <2>9
<1>7. Booked(Tail(q))
  BY <1>1, <1>3, <1>6 DEF Booked
<1>8. 1 \in DOMAIN q
  BY <1>2
<1>9. Creates(Head(q)) /\ Head(q).table \in DOMAIN Creation =>
        \E k \in DOMAIN Tail(q) :
          IsEntry(Tail(q)[k], Creation[Head(q).table], Subject(Head(q).table, Head(q).row))
  BY <1>2, <1>5, <1>8 DEF Booked
<1>10. Creates(Head(q)) /\ Head(q).table = "events" =>
         /\ Head(q).do = "insert"
         /\ \E k \in DOMAIN Tail(q) : IsMessage(Tail(q)[k], Head(q).row.event)
  BY <1>2, <1>5, <1>8 DEF Booked
<1>11. Tail(q) # <<>> => /\ 1 \in DOMAIN Tail(q) /\ 2 \in DOMAIN q
                         /\ Head(Tail(q)) = q[2]
  <2>1. Tail(q) # <<>> => 1 \in 1 .. Len(q) - 1 /\ 2 \in 1 .. Len(q)
    BY <1>2
  <2>2. Tail(q) # <<>> => Head(Tail(q)) = Tail(q)[1]
    BY <1>1, ScriptTail
  <2> QED BY <1>2, <2>1, <2>2
<1>12. /\ Tail(q) # <<>> /\ Enqueues(Head(Tail(q))) => InsertsEvent(Head(q), Head(Tail(q)).row.event)
       /\ Tail(q) # <<>> /\ Head(Tail(q)).do = "insert_entry" => Head(q).do = "read_tail"
  <2>1. 2 \in DOMAIN q => (Enqueues(q[2]) => InsertsEvent(q[1], q[2].row.event))
                          /\ (q[2].do = "insert_entry" => q[1].do = "read_tail")
    BY DEF Booked
  <2> QED BY <1>2, <1>11, <2>1
<1>13. Head(q).do = "insert_entry" => \A k \in DOMAIN Tail(q) : Tail(q)[k].do # "insert_entry"
  BY <1>2, <1>3, <1>8 DEF Booked
<1>14. Spares(q) => Spares(Tail(q))
  BY <1>3 DEF Spares
<1>15. \A n \in DOMAIN q : n = 1 \/ \E k \in DOMAIN Tail(q) : Tail(q)[k] = q[n]
  BY <1>4
<1>16. \A n \in DOMAIN Tail(q) : \E k \in DOMAIN q : Tail(q)[n] = q[k]
  BY <1>3
<1>17. Creates(Head(q)) => Head(q).table # "audit_entries"
  BY <1>2, <1>8 DEF Booked
<1> QED BY <1>7, <1>9, <1>10, <1>12, <1>13, <1>14, <1>15, <1>16, <1>17

LEMMA ScriptDomain == ASSUME NEW q, IsScript(q) PROVE DOMAIN q = 1 .. Len(q) /\ Len(q) \in Nat
BY DEF IsScript

\* A script with one or two statements more.
LEMMA OneMore ==
  ASSUME NEW q, IsScript(q), NEW r, IsScript(r), Len(r) = 1
  PROVE  /\ IsScript(q \o r) /\ Len(q) \in Nat /\ Len(q \o r) = Len(q) + 1
         /\ (q \o r)[Len(q) + 1] = r[1]
         /\ \A k \in 1 .. Len(q) : (q \o r)[k] = q[k]
<1>1. /\ IsScript(q \o r) /\ Len(q) \in Nat /\ Len(q \o r) = Len(q) + Len(r)
      /\ \A n \in 1 .. Len(q) : (q \o r)[n] = q[n]
  BY ScriptConcat
<1>2. PICK m : m = Len(q) + 1
  OBVIOUS
<1>3. m \in 1 .. Len(q) + Len(r) /\ m > Len(q) /\ m - Len(q) = 1
  BY <1>1, <1>2
<1>4. (q \o r)[m] = r[m - Len(q)]
  BY <1>3, ScriptConcat
<1> QED BY <1>1, <1>2, <1>3, <1>4

LEMMA TwoMore ==
  ASSUME NEW q, IsScript(q), NEW r, IsScript(r), Len(r) = 2
  PROVE  /\ IsScript(q \o r) /\ Len(q) \in Nat /\ Len(q \o r) = Len(q) + 2
         /\ (q \o r)[Len(q) + 1] = r[1] /\ (q \o r)[Len(q) + 2] = r[2]
         /\ \A k \in 1 .. Len(q) : (q \o r)[k] = q[k]
<1>1. /\ IsScript(q \o r) /\ Len(q) \in Nat /\ Len(q \o r) = Len(q) + Len(r)
      /\ \A n \in 1 .. Len(q) : (q \o r)[n] = q[n]
  BY ScriptConcat
<1>2. PICK m, n : m = Len(q) + 1 /\ n = Len(q) + 2
  OBVIOUS
<1>3. /\ m \in 1 .. Len(q) + Len(r) /\ m > Len(q) /\ m - Len(q) = 1
      /\ n \in 1 .. Len(q) + Len(r) /\ n > Len(q) /\ n - Len(q) = 2
  BY <1>1, <1>2
<1>4. (q \o r)[m] = r[m - Len(q)] /\ (q \o r)[n] = r[n - Len(q)]
  BY <1>3, ScriptConcat
<1> QED BY <1>1, <1>2, <1>3, <1>4

LEMMA ShortScripts ==
  /\ \A x : IsScript(<<x>>) /\ Len(<<x>>) = 1 /\ <<x>>[1] = x
  /\ \A x, y : IsScript(<<x, y>>) /\ Len(<<x, y>>) = 2 /\ <<x, y>>[1] = x /\ <<x, y>>[2] = y
<1>1. ASSUME NEW x, NEW y PROVE IsScript(<<x, y>>)
  <2>1. <<x, y>> \in Seq({x, y})
    OBVIOUS
  <2> QED BY <2>1 DEF IsScript
<1> QED BY <1>1, OneStatement

\* The scripts that create rows, statement by statement.
AreFour(q, x1, x2, x3, x4) ==
  IsScript(q) /\ DOMAIN q = 1 .. 4 /\ q[1] = x1 /\ q[2] = x2 /\ q[3] = x3 /\ q[4] = x4

LEMMA FourStatements ==
  ASSUME NEW a, NEW b, NEW c, IsScript(a), Len(a) = 1, IsScript(b), Len(b) = 2,
         IsScript(c), Len(c) = 1
  PROVE  AreFour(a \o b \o c, a[1], b[1], b[2], c[1])
<1>1. PICK w : w = a \o b
  OBVIOUS
<1>2. /\ IsScript(w) /\ Len(w) = Len(a) + 2 /\ w[Len(a) + 1] = b[1] /\ w[Len(a) + 2] = b[2]
      /\ \A k \in 1 .. Len(a) : w[k] = a[k]
  BY <1>1, TwoMore
<1>3. IsScript(w) /\ Len(w) = 3
  BY <1>2
<1>4. w[1] = a[1] /\ w[2] = b[1] /\ w[3] = b[2]
  BY <1>2
<1>5. PICK q : q = w \o c
  OBVIOUS
<1>6. /\ IsScript(q) /\ Len(q) = Len(w) + 1 /\ q[Len(w) + 1] = c[1]
      /\ \A k \in 1 .. Len(w) : q[k] = w[k]
  BY <1>3, <1>5, OneMore
<1>7. Len(q) = 4 /\ q[1] = a[1] /\ q[2] = b[1] /\ q[3] = b[2] /\ q[4] = c[1]
  BY <1>3, <1>4, <1>6
<1> QED BY <1>1, <1>5, <1>6, <1>7, ScriptDomain DEF AreFour

AreSix(q, x1, x2, x3, x4, x5, x6) ==
  /\ IsScript(q) /\ DOMAIN q = 1 .. 6
  /\ q[1] = x1 /\ q[2] = x2 /\ q[3] = x3 /\ q[4] = x4 /\ q[5] = x5 /\ q[6] = x6

LEMMA SixStatements ==
  ASSUME NEW a, NEW b, NEW c, NEW d, NEW e, IsScript(a), Len(a) = 1, IsScript(b), Len(b) = 1,
         IsScript(c), Len(c) = 1, IsScript(d), Len(d) = 2, IsScript(e), Len(e) = 1
  PROVE  AreSix(a \o b \o c \o d \o e, a[1], b[1], c[1], d[1], d[2], e[1])
<1>1. PICK v : v = a \o b
  OBVIOUS
<1>2. IsScript(v) /\ Len(v) = 2 /\ v[1] = a[1] /\ v[2] = b[1]
  <2>1. /\ IsScript(v) /\ Len(v) = Len(a) + 1 /\ v[Len(a) + 1] = b[1]
        /\ \A k \in 1 .. Len(a) : v[k] = a[k]
    BY <1>1, OneMore
  <2> QED BY <2>1
<1>3. PICK w : w = v \o c
  OBVIOUS
<1>4. IsScript(w) /\ Len(w) = 3 /\ w[1] = a[1] /\ w[2] = b[1] /\ w[3] = c[1]
  <2>1. /\ IsScript(w) /\ Len(w) = Len(v) + 1 /\ w[Len(v) + 1] = c[1]
        /\ \A k \in 1 .. Len(v) : w[k] = v[k]
    BY <1>2, <1>3, OneMore
  <2> QED BY <1>2, <2>1
<1>5. PICK z : z = w \o d
  OBVIOUS
<1>6. /\ IsScript(z) /\ Len(z) = 5
      /\ z[1] = a[1] /\ z[2] = b[1] /\ z[3] = c[1] /\ z[4] = d[1] /\ z[5] = d[2]
  <2>1. /\ IsScript(z) /\ Len(z) = Len(w) + 2 /\ z[Len(w) + 1] = d[1] /\ z[Len(w) + 2] = d[2]
        /\ \A k \in 1 .. Len(w) : z[k] = w[k]
    BY <1>4, <1>5, TwoMore
  <2> QED BY <1>4, <2>1
<1>7. PICK q : q = z \o e
  OBVIOUS
<1>8. /\ IsScript(q) /\ Len(q) = 6
      /\ q[1] = a[1] /\ q[2] = b[1] /\ q[3] = c[1] /\ q[4] = d[1] /\ q[5] = d[2] /\ q[6] = e[1]
  <2>1. /\ IsScript(q) /\ Len(q) = Len(z) + 1 /\ q[Len(z) + 1] = e[1]
        /\ \A k \in 1 .. Len(z) : q[k] = z[k]
    BY <1>6, <1>7, OneMore
  <2> QED BY <1>6, <2>1
<1> QED BY <1>1, <1>3, <1>5, <1>7, <1>8, ScriptDomain DEF AreSix

LEMMA AddEventIsWhole == ASSUME NEW e PROVE Whole(AddEvent(e)) /\ Spares(AddEvent(e))
<1>1. PICK x1 : x1 = [do |-> "look_up", event |-> e]
  OBVIOUS
<1>2. PICK x2 : x2 = [do |-> "insert", table |-> "events", row |-> EventRow(e)]
  OBVIOUS
<1>3. PICK x3 : x3 = [do |-> "insert_or_nothing", table |-> "outbox_messages", row |-> NewMessage(e)]
  OBVIOUS
<1>4. PICK x4 : x4 = [do |-> "read_tail"]
  OBVIOUS
<1>5. PICK x5 : x5 = [do |-> "insert_entry", action |-> "event.ingested", target |-> e]
  OBVIOUS
<1>6. PICK x6 : x6 = [do |-> "commit"]
  OBVIOUS
<1>7. PICK q : q = AddEvent(e)
  OBVIOUS
<1>8. PICK a, b, c, d, f :
        /\ a = <<x1>> /\ b = <<x2>> /\ c = <<x3>> /\ d = <<x4, x5>> /\ f = <<x6>>
        /\ q = a \o b \o c \o d \o f
  BY <1>1, <1>2, <1>3, <1>4, <1>5, <1>6, <1>7
     DEF AddEvent, Insert, EnqueueOutbox, InsertOrNothing, AppendAudit, Commit
<1>9. /\ IsScript(q) /\ DOMAIN q = 1 .. 6
      /\ q[1] = x1 /\ q[2] = x2 /\ q[3] = x3 /\ q[4] = x4 /\ q[5] = x5 /\ q[6] = x6
  <2>1. /\ IsScript(a) /\ Len(a) = 1 /\ a[1] = x1 /\ IsScript(b) /\ Len(b) = 1 /\ b[1] = x2
        /\ IsScript(c) /\ Len(c) = 1 /\ c[1] = x3 /\ IsScript(f) /\ Len(f) = 1 /\ f[1] = x6
        /\ IsScript(d) /\ Len(d) = 2 /\ d[1] = x4 /\ d[2] = x5
    BY <1>8, ShortScripts
  <2>2. AreSix(a \o b \o c \o d \o f, a[1], b[1], c[1], d[1], d[2], f[1])
    BY <2>1, SixStatements
  <2> QED BY <1>8, <2>1, <2>2 DEF AreSix
<1>10. /\ ~Creates(x1) /\ ~Creates(x4) /\ ~Creates(x5) /\ ~Creates(x6) /\ Creates(x2) /\ Creates(x3)
       /\ \A x \in {x1, x2, x3, x4, x6} : x.do # "insert_entry"
       /\ \A x \in {x1, x2, x3, x4, x5, x6} : x.do # "delete"
  BY <1>1, <1>2, <1>3, <1>4, <1>5, <1>6 DEF Creates
<1>11. /\ x2.table = "events" /\ x2.row.event = e /\ x3.table = "outbox_messages" /\ x3.row.event = e
       /\ x2.do = "insert" /\ x4.do = "read_tail"
       /\ IsEntry(x5, Creation["events"], Subject("events", x2.row))
       /\ IsMessage(x3, x2.row.event) /\ "outbox_messages" \notin DOMAIN Creation
  BY <1>2, <1>3, <1>4, <1>5 DEF EventRow, NewMessage, IsEntry, IsMessage, Enqueues, Creates, Creation, Subject
<1>12. \A n \in DOMAIN q : /\ Creates(q[n]) => n = 2 \/ n = 3
                           /\ q[n].do = "insert_entry" => n = 5
                           /\ q[n].do # "delete"
  <2>1. \A n \in DOMAIN q : n \in {1, 2, 3, 4, 5, 6}
    BY <1>9
  <2> QED BY <1>9, <1>10, <2>1
<1>13. /\ \E k \in DOMAIN q : k > 2 /\ IsEntry(q[k], Creation[q[2].table], Subject(q[2].table, q[2].row))
       /\ \E k \in DOMAIN q : k > 2 /\ IsMessage(q[k], q[2].row.event)
  BY <1>9, <1>11
<1>14. ASSUME NEW n \in DOMAIN q
       PROVE  /\ Creates(q[n]) => q[n].table # "audit_entries"
              /\ Creates(q[n]) /\ q[n].table \in DOMAIN Creation =>
                   \E k \in DOMAIN q :
                     k > n /\ IsEntry(q[k], Creation[q[n].table], Subject(q[n].table, q[n].row))
              /\ Creates(q[n]) /\ q[n].table = "events" =>
                   q[n].do = "insert" /\ \E k \in DOMAIN q : k > n /\ IsMessage(q[k], q[n].row.event)
  BY <1>9, <1>11, <1>12, <1>13
<1>15. ASSUME NEW n \in DOMAIN q, Enqueues(q[n])
       PROVE  n = 3 /\ InsertsEvent(q[n - 1], q[n].row.event)
  <2>1. n = 3
    BY <1>9, <1>11, <1>12, <1>15 DEF Enqueues
  <2> QED BY <1>9, <1>11, <2>1 DEF InsertsEvent
<1>16. ASSUME NEW n \in DOMAIN q, q[n].do = "insert_entry"
       PROVE  n = 5 /\ q[n - 1].do = "read_tail" /\ \A k \in DOMAIN q : k > n => q[k].do # "insert_entry"
  BY <1>9, <1>11, <1>12, <1>16
<1>17. Booked(q)
  BY <1>9, <1>14, <1>15, <1>16 DEF Booked
<1>18. Opens(q) /\ Spares(q)
  BY <1>12, <1>15, <1>16 DEF Opens, Spares
<1> QED BY <1>7, <1>17, <1>18 DEF Whole

\* A row and the entry of its creation.
LEMMA SaveIsWhole ==
  ASSUME NEW t \in DOMAIN Creation \ {"events"}, NEW row
  PROVE  /\ Whole(Insert(t, row) \o AppendAudit(Creation[t], row.id) \o Commit)
         /\ Spares(Insert(t, row) \o AppendAudit(Creation[t], row.id) \o Commit)
<1>1. PICK x1 : x1 = [do |-> "insert", table |-> t, row |-> row]
  OBVIOUS
<1>2. PICK x2, x4 : x2 = [do |-> "read_tail"] /\ x4 = [do |-> "commit"]
  OBVIOUS
<1>3. PICK x3 : x3 = [do |-> "insert_entry", action |-> Creation[t], target |-> row.id]
  OBVIOUS
<1>4. PICK a, b, c : a = <<x1>> /\ b = <<x2, x3>> /\ c = <<x4>>
  OBVIOUS
<1>5. PICK q : q = a \o b \o c
  OBVIOUS
<1>6. q = Insert(t, row) \o AppendAudit(Creation[t], row.id) \o Commit
  BY <1>1, <1>2, <1>3, <1>4, <1>5 DEF Insert, AppendAudit, Commit
<1>7. /\ IsScript(q) /\ DOMAIN q = 1 .. 4
      /\ q[1] = x1 /\ q[2] = x2 /\ q[3] = x3 /\ q[4] = x4
  <2>1. /\ IsScript(a) /\ Len(a) = 1 /\ a[1] = x1 /\ IsScript(c) /\ Len(c) = 1 /\ c[1] = x4
        /\ IsScript(b) /\ Len(b) = 2 /\ b[1] = x2 /\ b[2] = x3
    BY <1>4, ShortScripts
  <2>2. AreFour(a \o b \o c, a[1], b[1], b[2], c[1])
    BY <2>1, FourStatements
  <2> QED BY <1>5, <2>1, <2>2 DEF AreFour
<1>8. /\ ~Creates(x2) /\ ~Creates(x3) /\ ~Creates(x4) /\ Creates(x1)
      /\ \A x \in {x1, x2, x4} : x.do # "insert_entry"
      /\ \A x \in {x1, x2, x3, x4} : x.do # "delete"
  BY <1>1, <1>2, <1>3 DEF Creates
<1>9. /\ x1.table = t /\ t \notin {"audit_entries", "events", "outbox_messages"} /\ x2.do = "read_tail"
      /\ IsEntry(x3, Creation[x1.table], Subject(x1.table, x1.row))
  BY <1>1, <1>2, <1>3 DEF IsEntry, Creation, Subject
<1>10. \A n \in DOMAIN q : /\ Creates(q[n]) => n = 1
                           /\ q[n].do = "insert_entry" => n = 3
                           /\ q[n].do # "delete"
  <2>1. \A n \in DOMAIN q : n \in {1, 2, 3, 4}
    BY <1>7
  <2> QED BY <1>7, <1>8, <2>1
<1>11. \E k \in DOMAIN q : k > 1 /\ IsEntry(q[k], Creation[q[1].table], Subject(q[1].table, q[1].row))
  BY <1>7, <1>9
<1>12. \A n \in DOMAIN q : ~Enqueues(q[n])
  BY <1>7, <1>9, <1>10 DEF Enqueues
<1>13. ASSUME NEW n \in DOMAIN q, q[n].do = "insert_entry"
       PROVE  n = 3 /\ q[n - 1].do = "read_tail" /\ \A k \in DOMAIN q : k > n => q[k].do # "insert_entry"
  BY <1>7, <1>9, <1>10, <1>13
<1>14. Booked(q)
  BY <1>7, <1>9, <1>10, <1>11, <1>12, <1>13 DEF Booked
<1>15. Opens(q) /\ Spares(q)
  BY <1>10, <1>12, <1>13 DEF Opens, Spares
<1> QED BY <1>6, <1>14, <1>15 DEF Whole

LEMMA ReviewIsWhole ==
  ASSUME NEW r
  PROVE  Whole(SaveReviewDecision(r)) /\ Spares(SaveReviewDecision(r))
<1>1. PICK x1, x3 : /\ x1 = [do |-> "read_case", id |-> CaseOf[r]]
                    /\ x3 = [do |-> "close_case", id |-> CaseOf[r]]
  OBVIOUS
<1>2. PICK x2 : x2 = [do |-> "insert", table |-> "review_decisions", row |-> [id |-> r, case |-> CaseOf[r]]]
  OBVIOUS
<1>3. PICK x4, x6 : x4 = [do |-> "read_tail"] /\ x6 = [do |-> "commit"]
  OBVIOUS
<1>4. PICK x5 : x5 = [do |-> "insert_entry", action |-> "review.decided", target |-> r]
  OBVIOUS
<1>5. PICK q : q = SaveReviewDecision(r)
  OBVIOUS
<1>6. PICK a, b, c, d, f :
        /\ a = <<x1>> /\ b = <<x2>> /\ c = <<x3>> /\ d = <<x4, x5>> /\ f = <<x6>>
        /\ q = a \o b \o c \o d \o f
  BY <1>1, <1>2, <1>3, <1>4, <1>5 DEF SaveReviewDecision, Insert, AppendAudit, Commit
<1>7. /\ IsScript(q) /\ DOMAIN q = 1 .. 6
      /\ q[1] = x1 /\ q[2] = x2 /\ q[3] = x3 /\ q[4] = x4 /\ q[5] = x5 /\ q[6] = x6
  <2>1. /\ IsScript(a) /\ Len(a) = 1 /\ a[1] = x1 /\ IsScript(b) /\ Len(b) = 1 /\ b[1] = x2
        /\ IsScript(c) /\ Len(c) = 1 /\ c[1] = x3 /\ IsScript(f) /\ Len(f) = 1 /\ f[1] = x6
        /\ IsScript(d) /\ Len(d) = 2 /\ d[1] = x4 /\ d[2] = x5
    BY <1>6, ShortScripts
  <2>2. AreSix(a \o b \o c \o d \o f, a[1], b[1], c[1], d[1], d[2], f[1])
    BY <2>1, SixStatements
  <2> QED BY <1>6, <2>1, <2>2 DEF AreSix
<1>8. /\ ~Creates(x1) /\ ~Creates(x3) /\ ~Creates(x4) /\ ~Creates(x5) /\ ~Creates(x6)
      /\ \A x \in {x1, x2, x3, x4, x6} : x.do # "insert_entry"
      /\ \A x \in {x1, x2, x3, x4, x5, x6} : x.do # "delete"
  BY <1>1, <1>2, <1>3, <1>4 DEF Creates
<1>9. /\ x2.table = "review_decisions" /\ x4.do = "read_tail"
      /\ IsEntry(x5, Creation[x2.table], Subject(x2.table, x2.row))
  BY <1>2, <1>3, <1>4 DEF IsEntry, Creation, Subject
<1>10. \A n \in DOMAIN q : /\ Creates(q[n]) => n = 2
                           /\ q[n].do = "insert_entry" => n = 5
                           /\ q[n].do # "delete"
  <2>1. \A n \in DOMAIN q : n \in {1, 2, 3, 4, 5, 6}
    BY <1>7
  <2> QED BY <1>7, <1>8, <2>1
<1>11. \E k \in DOMAIN q : k > 2 /\ IsEntry(q[k], Creation[q[2].table], Subject(q[2].table, q[2].row))
  BY <1>7, <1>9
<1>12. \A n \in DOMAIN q : ~Enqueues(q[n])
  BY <1>7, <1>9, <1>10 DEF Enqueues
<1>13. ASSUME NEW n \in DOMAIN q, q[n].do = "insert_entry"
       PROVE  n = 5 /\ q[n - 1].do = "read_tail" /\ \A k \in DOMAIN q : k > n => q[k].do # "insert_entry"
  BY <1>7, <1>9, <1>10, <1>13
<1>14. Booked(q)
  BY <1>7, <1>9, <1>10, <1>11, <1>12, <1>13 DEF Booked
<1>15. Opens(q) /\ Spares(q)
  BY <1>10, <1>12, <1>13 DEF Opens, Spares
<1> QED BY <1>5, <1>14, <1>15 DEF Whole

\* The statements of one script and those of the next.
Joins(w, q, r) ==
  /\ IsScript(w) /\ Len(q) \in Nat
  /\ \A n \in DOMAIN q : n \in DOMAIN w /\ w[n] = q[n] /\ n \in Nat \ {0} /\ n <= Len(q)
  /\ \A k \in DOMAIN r : Len(q) + k \in DOMAIN w /\ w[Len(q) + k] = r[k] /\ k \in Nat \ {0}
  /\ \A n \in DOMAIN w : n \in DOMAIN q \/ \E k \in DOMAIN r : n = Len(q) + k

LEMMA ConcatParts ==
  ASSUME NEW q, NEW r, IsScript(q), IsScript(r)
  PROVE  Joins(q \o r, q, r)
<1> DEFINE w == q \o r
<1>1. /\ IsScript(w) /\ Len(q) \in Nat /\ Len(r) \in Nat
      /\ DOMAIN w = 1 .. Len(q) + Len(r)
      /\ DOMAIN q = 1 .. Len(q) /\ DOMAIN r = 1 .. Len(r)
  BY ScriptConcat
<1>2. ASSUME NEW k \in DOMAIN r
      PROVE  Len(q) + k \in DOMAIN w /\ w[Len(q) + k] = r[k] /\ k \in Nat \ {0}
  <2>1. Len(q) + k \in 1 .. Len(q) + Len(r) /\ Len(q) + k > Len(q) /\ (Len(q) + k) - Len(q) = k
        /\ k \in Nat \ {0}
    BY <1>1
  <2> QED BY <1>1, <2>1, ScriptConcat
<1>3. \A n \in DOMAIN q : n \in DOMAIN w /\ w[n] = q[n] /\ n \in Nat \ {0} /\ n <= Len(q)
  BY <1>1, ScriptConcat
<1>4. ASSUME NEW n \in DOMAIN w, n \notin DOMAIN q PROVE \E k \in DOMAIN r : n = Len(q) + k
  <2>1. n - Len(q) \in DOMAIN r /\ n = Len(q) + (n - Len(q))
    BY <1>1, <1>4
  <2> QED BY <2>1
<1> QED BY <1>1, <1>2, <1>3, <1>4 DEF Joins

\* A script keeps what it writes together when statements that insert nothing
\* come before it
LEMMA QuietThen ==
  ASSUME NEW q, NEW r, Quiet(q), Whole(r)
  PROVE  Whole(q \o r) /\ (Spares(q) /\ Spares(r) => Spares(q \o r))
<1>1. PICK w : w = q \o r
  OBVIOUS
<1>2. IsScript(q) /\ IsScript(r)
  BY DEF Quiet, Whole, Booked
<1>3. /\ IsScript(w) /\ Len(q) \in Nat
      /\ \A n \in DOMAIN q : n \in DOMAIN w /\ w[n] = q[n] /\ n \in Nat \ {0} /\ n <= Len(q)
      /\ \A k \in DOMAIN r :
           Len(q) + k \in DOMAIN w /\ w[Len(q) + k] = r[k] /\ k \in Nat \ {0}
      /\ \A n \in DOMAIN w : n \in DOMAIN q \/ \E k \in DOMAIN r : n = Len(q) + k
  <2>1. Joins(q \o r, q, r)
    BY <1>2, ConcatParts
  <2> QED BY <1>1, <2>1 DEF Joins
<1>4. ASSUME NEW n \in DOMAIN q
      PROVE  ~Creates(w[n]) /\ ~Enqueues(w[n]) /\ w[n].do # "insert_entry"
  <2>1. w[n] = q[n]
    BY <1>3
  <2>2. ~Creates(q[n]) /\ q[n].do # "insert_entry"
    BY DEF Quiet
  <2> QED BY <2>1, <2>2 DEF Enqueues
<1>5. ASSUME NEW k \in DOMAIN r, NEW n \in DOMAIN w, n = Len(q) + k
      PROVE  /\ Creates(w[n]) => w[n].table # "audit_entries"
             /\ Creates(w[n]) /\ w[n].table \in DOMAIN Creation =>
                  \E m \in DOMAIN w :
                    m > n /\ IsEntry(w[m], Creation[w[n].table], Subject(w[n].table, w[n].row))
             /\ Creates(w[n]) /\ w[n].table = "events" =>
                  w[n].do = "insert" /\ \E m \in DOMAIN w : m > n /\ IsMessage(w[m], w[n].row.event)
             /\ Enqueues(w[n]) => k # 1 /\ InsertsEvent(w[n - 1], w[n].row.event)
             /\ w[n].do = "insert_entry" =>
                  /\ k # 1 /\ w[n - 1].do = "read_tail"
                  /\ \A m \in DOMAIN w : m > n => w[m].do # "insert_entry"
  <2>1. w[n] = r[k] /\ k \in Nat \ {0}
    BY <1>3, <1>5
  <2>2. \A m \in DOMAIN r : m > k => Len(q) + m \in DOMAIN w /\ Len(q) + m > n /\ w[Len(q) + m] = r[m]
    BY <1>3, <1>5, <2>1
  <2>3. k # 1 /\ k - 1 \in DOMAIN r => w[n - 1] = r[k - 1]
    <3>1. k # 1 => n - 1 = Len(q) + (k - 1)
      BY <1>3, <1>5, <2>1
    <3> QED BY <1>3, <3>1
  <2>4. k # 1 => k - 1 \in DOMAIN r
    BY <1>2, <2>1, ScriptDomain
  <2>5. \A m \in DOMAIN w : m > n => \E j \in DOMAIN r : j > k /\ w[m] = r[j]
    <3> SUFFICES ASSUME NEW m \in DOMAIN w, m > n PROVE \E j \in DOMAIN r : j > k /\ w[m] = r[j]
      OBVIOUS
    <3>1. m \notin DOMAIN q
      BY <1>3, <1>5, <2>1
    <3>2. PICK j \in DOMAIN r : m = Len(q) + j
      BY <1>3, <3>1
    <3>3. j > k /\ w[m] = r[j]
      BY <1>3, <1>5, <2>1, <3>2
    <3> QED BY <3>3
  <2>6. Creates(w[n]) => w[n].table # "audit_entries"
    BY <2>1 DEF Whole, Booked
  <2>7. Creates(w[n]) /\ w[n].table \in DOMAIN Creation =>
          \E m \in DOMAIN w :
            m > n /\ IsEntry(w[m], Creation[w[n].table], Subject(w[n].table, w[n].row))
    BY <2>1, <2>2 DEF Whole, Booked
  <2>8. Creates(w[n]) /\ w[n].table = "events" =>
          w[n].do = "insert" /\ \E m \in DOMAIN w : m > n /\ IsMessage(w[m], w[n].row.event)
    BY <2>1, <2>2 DEF Whole, Booked
  <2>9. Enqueues(w[n]) => k # 1 /\ InsertsEvent(w[n - 1], w[n].row.event)
    <3>1. Enqueues(r[k]) => k # 1 /\ InsertsEvent(r[k - 1], r[k].row.event)
      BY DEF Whole, Booked, Opens
    <3> QED BY <2>1, <2>3, <2>4, <3>1
  <2>10. w[n].do = "insert_entry" =>
           /\ k # 1 /\ w[n - 1].do = "read_tail"
           /\ \A m \in DOMAIN w : m > n => w[m].do # "insert_entry"
    <3>1. r[k].do = "insert_entry" =>
            k # 1 /\ r[k - 1].do = "read_tail" /\ \A j \in DOMAIN r : j > k => r[j].do # "insert_entry"
      BY DEF Whole, Booked, Opens
    <3> QED BY <2>1, <2>3, <2>4, <2>5, <3>1
  <2> QED BY <2>6, <2>7, <2>8, <2>9, <2>10
<1>6. Booked(w)
  BY <1>3, <1>4, <1>5 DEF Booked
<1>7. Opens(w)
  <2> SUFFICES ASSUME NEW n \in DOMAIN w, n = 1 PROVE ~Enqueues(w[n]) /\ w[n].do # "insert_entry"
    BY DEF Opens
  <2>1. CASE n \in DOMAIN q
    BY <1>4, <2>1
  <2>2. ASSUME NEW k \in DOMAIN r, n = Len(q) + k
        PROVE  ~Enqueues(w[n]) /\ w[n].do # "insert_entry"
    <3>1. k = 1
      BY <1>3, <2>2
    <3> QED BY <1>5, <2>2, <3>1
  <2> QED BY <1>3, <2>1, <2>2
<1>8. Spares(q) /\ Spares(r) => Spares(w)
  BY <1>3 DEF Spares
<1> QED BY <1>1, <1>6, <1>7, <1>8 DEF Whole

\* or after it.
LEMMA ThenQuiet ==
  ASSUME NEW q, NEW r, Whole(q), Quiet(r)
  PROVE  Whole(q \o r) /\ (Spares(q) /\ Spares(r) => Spares(q \o r))
<1>1. PICK w : w = q \o r
  OBVIOUS
<1>2. IsScript(q) /\ IsScript(r)
  BY DEF Quiet, Whole, Booked
<1>3. /\ IsScript(w) /\ Len(q) \in Nat
      /\ \A n \in DOMAIN q : n \in DOMAIN w /\ w[n] = q[n] /\ n \in Nat \ {0} /\ n <= Len(q)
      /\ \A k \in DOMAIN r :
           Len(q) + k \in DOMAIN w /\ w[Len(q) + k] = r[k] /\ k \in Nat \ {0}
      /\ \A n \in DOMAIN w : n \in DOMAIN q \/ \E k \in DOMAIN r : n = Len(q) + k
  <2>1. Joins(q \o r, q, r)
    BY <1>2, ConcatParts
  <2> QED BY <1>1, <2>1 DEF Joins
<1>4. ASSUME NEW n \in DOMAIN w, n \notin DOMAIN q
      PROVE  ~Creates(w[n]) /\ ~Enqueues(w[n]) /\ w[n].do # "insert_entry"
  <2>1. PICK k \in DOMAIN r : n = Len(q) + k
    BY <1>3, <1>4
  <2>2. w[n] = r[k]
    BY <1>3, <2>1
  <2>3. ~Creates(r[k]) /\ r[k].do # "insert_entry"
    BY DEF Quiet
  <2> QED BY <2>2, <2>3 DEF Enqueues
<1>5. ASSUME NEW n \in DOMAIN q
      PROVE  /\ Creates(w[n]) => w[n].table # "audit_entries"
             /\ Creates(w[n]) /\ w[n].table \in DOMAIN Creation =>
                  \E m \in DOMAIN w :
                    m > n /\ IsEntry(w[m], Creation[w[n].table], Subject(w[n].table, w[n].row))
             /\ Creates(w[n]) /\ w[n].table = "events" =>
                  w[n].do = "insert" /\ \E m \in DOMAIN w : m > n /\ IsMessage(w[m], w[n].row.event)
             /\ Enqueues(w[n]) => n # 1 /\ InsertsEvent(w[n - 1], w[n].row.event)
             /\ w[n].do = "insert_entry" =>
                  /\ n # 1 /\ w[n - 1].do = "read_tail"
                  /\ \A m \in DOMAIN w : m > n => w[m].do # "insert_entry"
  <2>1. w[n] = q[n] /\ n \in Nat \ {0}
    BY <1>3
  <2>2. \A m \in DOMAIN q : m > n => m \in DOMAIN w /\ w[m] = q[m]
    BY <1>3
  <2>3. n # 1 => n - 1 \in DOMAIN q /\ w[n - 1] = q[n - 1]
    <3>1. n # 1 => n - 1 \in DOMAIN q
      BY <1>2, <2>1, ScriptDomain
    <3> QED BY <1>3, <3>1
  <2>4. \A m \in DOMAIN w : (m \in DOMAIN q /\ w[m] = q[m]) \/ w[m].do # "insert_entry"
    BY <1>3, <1>4
  <2>5. Creates(w[n]) => w[n].table # "audit_entries"
    BY <2>1 DEF Whole, Booked
  <2>6. Creates(w[n]) /\ w[n].table \in DOMAIN Creation =>
          \E m \in DOMAIN w :
            m > n /\ IsEntry(w[m], Creation[w[n].table], Subject(w[n].table, w[n].row))
    BY <2>1, <2>2 DEF Whole, Booked
  <2>7. Creates(w[n]) /\ w[n].table = "events" =>
          w[n].do = "insert" /\ \E m \in DOMAIN w : m > n /\ IsMessage(w[m], w[n].row.event)
    BY <2>1, <2>2 DEF Whole, Booked
  <2>8. Enqueues(w[n]) => n # 1 /\ InsertsEvent(w[n - 1], w[n].row.event)
    <3>1. Enqueues(q[n]) => n # 1 /\ InsertsEvent(q[n - 1], q[n].row.event)
      BY DEF Whole, Booked, Opens
    <3> QED BY <2>1, <2>3, <3>1
  <2>9. w[n].do = "insert_entry" =>
           /\ n # 1 /\ w[n - 1].do = "read_tail"
           /\ \A m \in DOMAIN w : m > n => w[m].do # "insert_entry"
    <3>1. q[n].do = "insert_entry" =>
            n # 1 /\ q[n - 1].do = "read_tail" /\ \A j \in DOMAIN q : j > n => q[j].do # "insert_entry"
      BY DEF Whole, Booked, Opens
    <3> QED BY <2>1, <2>3, <2>4, <3>1
  <2> QED BY <2>5, <2>6, <2>7, <2>8, <2>9
<1>6. Booked(w)
  BY <1>3, <1>4, <1>5 DEF Booked
<1>7. Opens(w)
  BY <1>4, <1>5 DEF Opens
<1>8. Spares(q) /\ Spares(r) => Spares(w)
  BY <1>3 DEF Spares
<1> QED BY <1>1, <1>6, <1>7, <1>8 DEF Whole

LEMMA QuietIsWhole == ASSUME NEW q, Quiet(q) PROVE Whole(q)
BY DEF Quiet, Whole, Booked, Opens, Enqueues

LEMMA QuietConcat == ASSUME NEW q, NEW r, Quiet(q), Quiet(r) PROVE Quiet(q \o r)
<1>1. PICK w : w = q \o r
  OBVIOUS
<1>2. IsScript(w) /\ \A n \in DOMAIN w : (\E k \in DOMAIN q : w[n] = q[k]) \/ (\E k \in DOMAIN r : w[n] = r[k])
  <2>1. Joins(q \o r, q, r)
    BY ConcatParts DEF Quiet
  <2> QED BY <1>1, <2>1 DEF Joins
<1> QED BY <1>1, <1>2 DEF Quiet

LEMMA QuietStatements ==
  /\ \A x : x.do \notin Inserting => Quiet(<<x>>) /\ (x.do # "delete" => Spares(<<x>>))
  /\ \A x, y : {x.do, y.do} \cap Inserting = {} =>
       Quiet(<<x, y>>) /\ ("delete" \notin {x.do, y.do} => Spares(<<x, y>>))
<1>1. ASSUME NEW x, x.do \notin Inserting
      PROVE  Quiet(<<x>>) /\ (x.do # "delete" => Spares(<<x>>))
  BY <1>1, OneStatement DEF Quiet, Creates, Inserting, Spares
<1>2. ASSUME NEW x, NEW y, {x.do, y.do} \cap Inserting = {}
      PROVE  Quiet(<<x, y>>) /\ ("delete" \notin {x.do, y.do} => Spares(<<x, y>>))
  <2>1. PICK q : q = <<x, y>>
    OBVIOUS
  <2>2. IsScript(q) /\ \A n \in DOMAIN q : q[n] \in {x, y}
    BY <2>1, ShortScripts
  <2>3. x.do \notin Inserting /\ y.do \notin Inserting
    BY <1>2
  <2>4. Quiet(q) /\ ("delete" \notin {x.do, y.do} => Spares(q))
    BY <2>2, <2>3 DEF Quiet, Creates, Inserting, Spares
  <2> QED BY <2>1, <2>4
<1> QED BY <1>1, <1>2

\* The parts of the scripts that insert nothing.
LEMMA QuietParts ==
  /\ Quiet(<<>>) /\ Spares(<<>>) /\ Quiet(Commit) /\ Spares(Commit)
  /\ \A id : Quiet(ReadMarked(id)) /\ Spares(ReadMarked(id))
  /\ \A t : Quiet(Count(t)) /\ Spares(Count(t))
  /\ \A t : Quiet(DeleteExpired(t)) /\ Quiet(DeleteListed(t))
<1>1. Quiet(<<>>) /\ Spares(<<>>)
  BY NoStatement DEF Quiet, Spares
<1>2. Quiet(Commit) /\ Spares(Commit)
  BY QuietStatements DEF Commit, Inserting
<1>3. \A id : Quiet(ReadMarked(id)) /\ Spares(ReadMarked(id))
  BY QuietStatements DEF ReadMarked, Inserting
<1>4. \A t : Quiet(Count(t)) /\ Spares(Count(t))
  BY QuietStatements DEF Count, Inserting
<1>5. \A t : Quiet(DeleteExpired(t)) /\ Quiet(DeleteFrom(t))
  BY QuietStatements DEF DeleteExpired, DeleteFrom, Inserting
<1>6. \A t : Quiet(<<[do |-> "list_ids", table |-> t]>>)
  BY QuietStatements DEF Inserting
<1>7. \A t : Quiet(DeleteListed(t))
  BY <1>5, <1>6, QuietConcat DEF DeleteListed
<1> QED BY <1>1, <1>2, <1>3, <1>4, <1>5, <1>7

\* An audit entry on its own.
LEMMA EntryIsWhole ==
  ASSUME NEW action, NEW target
  PROVE  Whole(AppendAudit(action, target)) /\ Spares(AppendAudit(action, target))
<1>1. PICK x, y : x = [do |-> "read_tail"]
                  /\ y = [do |-> "insert_entry", action |-> action, target |-> target]
  OBVIOUS
<1>2. x.do = "read_tail" /\ y.do = "insert_entry"
  BY <1>1
<1>3. PICK q : q = <<x, y>>
  OBVIOUS
<1>4. IsScript(q) /\ Len(q) = 2 /\ q[1] = x /\ q[2] = y
  BY <1>3, ShortScripts
<1>5. \A n \in DOMAIN q : n \in {1, 2}
  BY <1>4, ScriptDomain
<1>6. \A n \in DOMAIN q : /\ ~Creates(q[n]) /\ q[n].do # "delete"
                          /\ q[n].do = "insert_entry" <=> n = 2
  BY <1>2, <1>4, <1>5 DEF Creates
<1>7. Booked(q)
  BY <1>2, <1>4, <1>5, <1>6 DEF Booked, Enqueues
<1>8. Opens(q) /\ Spares(q)
  BY <1>6 DEF Opens, Spares, Enqueues
<1> QED BY <1>1, <1>3, <1>7, <1>8 DEF AppendAudit, Whole

LEMMA SavesAreWhole ==
  ASSUME NEW id
  PROVE  /\ Whole(SaveDecision(id)) /\ Spares(SaveDecision(id))
         /\ Whole(SaveReviewCase(id)) /\ Spares(SaveReviewCase(id))
         /\ Whole(SaveStreamDeadLetter(id)) /\ Spares(SaveStreamDeadLetter(id))
<1>1. \A t \in DOMAIN Creation \ {"events"} : \A row :
        /\ Whole(Insert(t, row) \o AppendAudit(Creation[t], row.id) \o Commit)
        /\ Spares(Insert(t, row) \o AppendAudit(Creation[t], row.id) \o Commit)
  BY SaveIsWhole
<1>2. PICK d, c : d = [id |-> id] /\ c = [id |-> id, status |-> "pending"]
  OBVIOUS
<1>3. d.id = id /\ c.id = id
  BY <1>2
<1>4. /\ {"decisions", "review_cases", "stream_dead_letters"} \subseteq DOMAIN Creation \ {"events"}
      /\ Creation["decisions"] = "decision.created"
      /\ Creation["review_cases"] = "review.case_created"
      /\ Creation["stream_dead_letters"] = "stream.dead_lettered"
  BY DEF Creation
<1>5. /\ SaveDecision(id) = Insert("decisions", d) \o AppendAudit(Creation["decisions"], d.id) \o Commit
      /\ SaveReviewCase(id) = Insert("review_cases", c) \o AppendAudit(Creation["review_cases"], c.id) \o Commit
      /\ SaveStreamDeadLetter(id) =
           Insert("stream_dead_letters", d) \o AppendAudit(Creation["stream_dead_letters"], d.id) \o Commit
  BY <1>2, <1>3, <1>4 DEF SaveDecision, SaveReviewCase, SaveStreamDeadLetter
<1> QED BY <1>1, <1>4, <1>5

LEMMA MarksAreWhole ==
  ASSUME NEW id
  PROVE  /\ Whole(MarkOutboxPublished(id)) /\ Spares(MarkOutboxPublished(id))
         /\ Whole(MarkOutboxFailed(id)) /\ Spares(MarkOutboxFailed(id))
<1>1. PICK a, b, c, d, e, f :
        /\ a = <<[do |-> "publish", id |-> id]>> /\ b = AppendAudit("outbox.published", id)
        /\ c = <<[do |-> "read_attempts", id |-> id], [do |-> "count_attempt", id |-> id]>>
        /\ d = AppendAudit("outbox.failed", id) /\ e = ReadMarked(id) /\ f = Commit
  OBVIOUS
<1>2. Quiet(a) /\ Spares(a) /\ Quiet(c) /\ Spares(c)
  BY <1>1, QuietStatements DEF Inserting
<1>3. Whole(b) /\ Spares(b) /\ Whole(d) /\ Spares(d)
  BY <1>1, EntryIsWhole
<1>4. Quiet(e) /\ Spares(e) /\ Quiet(f) /\ Spares(f)
  BY <1>1, QuietParts
<1>5. /\ Whole(a \o b) /\ Spares(a \o b)
      /\ Whole(c \o d) /\ Spares(c \o d)
  BY <1>2, <1>3, QuietThen
<1>6. /\ Whole(a \o b \o e) /\ Spares(a \o b \o e)
      /\ Whole(c \o d \o e) /\ Spares(c \o d \o e)
  BY <1>4, <1>5, ThenQuiet
<1>7. /\ Whole(a \o b \o e \o f) /\ Spares(a \o b \o e \o f)
      /\ Whole(c \o d \o e \o f) /\ Spares(c \o d \o e \o f)
  BY <1>4, <1>6, ThenQuiet
<1> QED BY <1>1, <1>7 DEF MarkOutboxPublished, MarkOutboxFailed

LEMMA PruneIsWhole == ASSUME NEW tables PROVE Whole(PruneRetention(tables))
<1> DEFINE If(t, script) == IF t \in tables THEN script ELSE <<>>
<1>1. \A t : Quiet(If(t, DeleteExpired(t))) /\ Quiet(If(t, DeleteListed(t)))
  BY QuietParts
<1>2. PICK g, h : g = AppendAudit("retention.pruned", "retention") /\ h = Commit
  OBVIOUS
<1>3. PruneRetention(tables) =
        If("outbox_messages", DeleteExpired("outbox_messages"))
          \o If("stream_dead_letters", DeleteExpired("stream_dead_letters"))
          \o If("events", DeleteExpired("events"))
          \o If("decisions", DeleteListed("decisions"))
          \o If("review_cases", DeleteListed("review_cases"))
          \o If("review_decisions", DeleteListed("review_decisions")) \o g \o h
  BY <1>2 DEF PruneRetention
<1> HIDE DEF If
<1>4. PICK a, b, c :
        /\ a = If("outbox_messages", DeleteExpired("outbox_messages"))
        /\ b = If("stream_dead_letters", DeleteExpired("stream_dead_letters"))
        /\ c = If("events", DeleteExpired("events"))
  OBVIOUS
<1>5. PICK d, e, f :
        /\ d = If("decisions", DeleteListed("decisions"))
        /\ e = If("review_cases", DeleteListed("review_cases"))
        /\ f = If("review_decisions", DeleteListed("review_decisions"))
  OBVIOUS
<1>6. Quiet(a) /\ Quiet(b) /\ Quiet(c) /\ Quiet(d) /\ Quiet(e) /\ Quiet(f)
  BY <1>1, <1>4, <1>5
<1>7. Whole(g) /\ Quiet(h)
  BY <1>2, EntryIsWhole, QuietParts
<1>8. Quiet(a \o b) /\ Quiet(a \o b \o c) /\ Quiet(a \o b \o c \o d)
  BY <1>6, QuietConcat
<1>9. Quiet(a \o b \o c \o d \o e) /\ Quiet(a \o b \o c \o d \o e \o f)
  BY <1>6, <1>8, QuietConcat
<1>10. Whole(a \o b \o c \o d \o e \o f \o g)
  BY <1>7, <1>9, QuietThen
<1>11. Whole(a \o b \o c \o d \o e \o f \o g \o h)
  BY <1>7, <1>10, ThenQuiet
<1> QED BY <1>3, <1>4, <1>5, <1>11

LEMMA ReportIsWhole ==
  ASSUME NEW tables
  PROVE  Whole(RetentionReport(tables)) /\ Spares(RetentionReport(tables))
<1> DEFINE If(t) == IF t \in tables THEN Count(t) ELSE <<>>
<1>1. \A t : Quiet(If(t)) /\ Spares(If(t))
  BY QuietParts
<1>2. PICK h : h = Commit
  OBVIOUS
<1>3. Quiet(h) /\ Spares(h)
  BY <1>2, QuietParts
<1>4. RetentionReport(tables) =
        If("events") \o If("decisions") \o If("review_cases") \o If("review_decisions")
          \o If("outbox_messages") \o If("stream_dead_letters") \o If("audit_entries") \o h
  BY <1>2 DEF RetentionReport
<1> HIDE DEF If
<1>5. PICK a, b, c, d, e, f, g :
        /\ a = If("events") /\ b = If("decisions") /\ c = If("review_cases")
        /\ d = If("review_decisions") /\ e = If("outbox_messages")
        /\ f = If("stream_dead_letters") /\ g = If("audit_entries")
  OBVIOUS
<1>6. /\ Whole(a) /\ Spares(a) /\ Quiet(b) /\ Spares(b) /\ Quiet(c) /\ Spares(c)
      /\ Quiet(d) /\ Spares(d) /\ Quiet(e) /\ Spares(e) /\ Quiet(f) /\ Spares(f)
      /\ Quiet(g) /\ Spares(g)
  BY <1>1, <1>5, QuietIsWhole
<1>7. Whole(a \o b) /\ Spares(a \o b)
  BY <1>6, ThenQuiet
<1>8. Whole(a \o b \o c) /\ Spares(a \o b \o c)
  BY <1>6, <1>7, ThenQuiet
<1>9. Whole(a \o b \o c \o d) /\ Spares(a \o b \o c \o d)
  BY <1>6, <1>8, ThenQuiet
<1>10. Whole(a \o b \o c \o d \o e) /\ Spares(a \o b \o c \o d \o e)
  BY <1>6, <1>9, ThenQuiet
<1>11. Whole(a \o b \o c \o d \o e \o f) /\ Spares(a \o b \o c \o d \o e \o f)
  BY <1>6, <1>10, ThenQuiet
<1>12. Whole(a \o b \o c \o d \o e \o f \o g) /\ Spares(a \o b \o c \o d \o e \o f \o g)
  BY <1>6, <1>11, ThenQuiet
<1>13. Whole(a \o b \o c \o d \o e \o f \o g \o h) /\ Spares(a \o b \o c \o d \o e \o f \o g \o h)
  BY <1>3, <1>12, ThenQuiet
<1> QED BY <1>4, <1>5, <1>13

\* A reset deletes every table.
Empties(q, tables) ==
  /\ IsScript(q) /\ \A n \in DOMAIN q : q[n].do \in {"delete", "commit"}
  /\ \A t \in tables : \E n \in DOMAIN q : q[n].do = "delete" /\ q[n].table = t

LEMMA EmptiesConcat ==
  ASSUME NEW q, NEW r, NEW A, NEW B, Empties(q, A), Empties(r, B)
  PROVE  Empties(q \o r, A \cup B)
<1>1. PICK w : w = q \o r
  OBVIOUS
<1>2. /\ IsScript(w)
      /\ \A n \in DOMAIN q : \E k \in DOMAIN w : w[k] = q[n]
      /\ \A n \in DOMAIN r : \E k \in DOMAIN w : w[k] = r[n]
      /\ \A n \in DOMAIN w : (\E k \in DOMAIN q : w[n] = q[k]) \/ (\E k \in DOMAIN r : w[n] = r[k])
  <2>1. IsScript(q) /\ IsScript(r)
    BY DEF Empties
  <2>2. Joins(w, q, r)
    BY <1>1, <2>1, ConcatParts
  <2> QED BY <2>2 DEF Joins
<1>3. \A n \in DOMAIN w : w[n].do \in {"delete", "commit"}
  BY <1>2 DEF Empties
<1>4. ASSUME NEW t \in A \cup B PROVE \E n \in DOMAIN w : w[n].do = "delete" /\ w[n].table = t
  BY <1>2 DEF Empties
<1> QED BY <1>1, <1>2, <1>3, <1>4 DEF Empties

LEMMA ResetEmpties == Empties(ResetDemoData, Tables)
<1>1. ASSUME NEW t PROVE Empties(DeleteFrom(t), {t})
  <2>1. PICK x : x = [do |-> "delete", table |-> t, rowcount |-> FALSE]
    OBVIOUS
  <2>2. x.do = "delete" /\ x.table = t
    BY <2>1
  <2>3. PICK q : q = <<x>>
    OBVIOUS
  <2>4. IsScript(q) /\ DOMAIN q = 1 .. 1 /\ q[1] = x
    BY <2>3, OneStatement
  <2>5. Empties(q, {t})
    BY <2>2, <2>4 DEF Empties
  <2> QED BY <2>1, <2>3, <2>5 DEF DeleteFrom
<1>2. PICK a, b, c, d, e, f, g, h :
        /\ a = DeleteFrom("review_decisions") /\ b = DeleteFrom("review_cases")
        /\ c = DeleteFrom("decisions") /\ d = DeleteFrom("stream_dead_letters")
        /\ e = DeleteFrom("outbox_messages") /\ f = DeleteFrom("events")
        /\ g = DeleteFrom("audit_entries") /\ h = Commit
  OBVIOUS
<1>3. PICK A, B, C, D, E, F, G, H :
        /\ A = {"review_decisions"} /\ B = {"review_cases"} /\ C = {"decisions"}
        /\ D = {"stream_dead_letters"} /\ E = {"outbox_messages"} /\ F = {"events"}
        /\ G = {"audit_entries"} /\ H = {}
  OBVIOUS
<1>4. /\ Empties(a, A) /\ Empties(b, B) /\ Empties(c, C) /\ Empties(d, D) /\ Empties(e, E)
      /\ Empties(f, F) /\ Empties(g, G)
  BY <1>1, <1>2, <1>3
<1>5. Empties(h, H)
  BY <1>2, <1>3, OneStatement DEF Empties, Commit
<1>6. Empties(a \o b, A \cup B)
  BY <1>4, EmptiesConcat
<1>7. Empties(a \o b \o c, A \cup B \cup C)
  BY <1>4, <1>6, EmptiesConcat
<1>8. Empties(a \o b \o c \o d, A \cup B \cup C \cup D)
  BY <1>4, <1>7, EmptiesConcat
<1>9. Empties(a \o b \o c \o d \o e, A \cup B \cup C \cup D \cup E)
  BY <1>4, <1>8, EmptiesConcat
<1>10. Empties(a \o b \o c \o d \o e \o f, A \cup B \cup C \cup D \cup E \cup F)
  BY <1>4, <1>9, EmptiesConcat
<1>11. Empties(a \o b \o c \o d \o e \o f \o g, A \cup B \cup C \cup D \cup E \cup F \cup G)
  BY <1>4, <1>10, EmptiesConcat
<1>12. Empties(a \o b \o c \o d \o e \o f \o g \o h, A \cup B \cup C \cup D \cup E \cup F \cup G \cup H)
  BY <1>5, <1>11, EmptiesConcat
<1>13. A \cup B \cup C \cup D \cup E \cup F \cup G \cup H = Tables
  BY <1>3 DEF Tables
<1> QED BY <1>2, <1>12, <1>13 DEF ResetDemoData

\* The last sequence that a transaction sees.
Newest(s) == Max({0} \cup {r.id : r \in View(s, "audit_entries")})

\* A statement that writes nothing; list_ids apart.
Looked(s) ==
  /\ Proceeds(s) /\ Statement(s).do \in Reading \ {"list_ids"}
  /\ counted'[s] = counted[s] \/ Statement(s).do = "count"
  /\ Statement(s).do = "read_tail" => sight'[s] = Newest(s)
  /\ UNCHANGED <<db, inserted, deleted, used, pruned, overlapped>>

\* The ids of the rows to delete were listed.
Listed(s, t) ==
  /\ Proceeds(s) /\ Statement(s).do = "list_ids" /\ t = Statement(s).table
  /\ listed'[s] = [on |-> TRUE, ids |-> {r.id : r \in View(s, t)}]
  /\ counted'[s] = counted[s] \cup Named(t, {r.id : r \in View(s, t)})
  /\ UNCHANGED <<db, inserted, deleted, used, pruned, overlapped>>

\* Only a prune and a reset delete, and a reset does nothing else.
Suits(operation, script) ==
  \/ operation = "reset_demo_data" /\ script = ResetDemoData
  \/ Whole(script) /\ (operation # "prune_retention" => Spares(script))

\* A call begins, with the uuids it has drawn.
Begun(s) ==
  /\ ~Runs(s) /\ used \subseteq used' /\ Gives(todo'[s], used' \ used)
  /\ call'[s] = "prune_retention" => queue'[s] = <<>> /\ PrunePart(todo'[s])
  /\ Suits(call'[s], todo'[s])
  /\ overlapped' = (overlapped \/
       \E o \in Sessions \ {s} : Runs(o) /\ "reset_demo_data" \in {call'[s], call[o]})
  /\ UNCHANGED <<db, inserted, deleted, listed, counted, pruned>>

\* Everything a session can do to rows, ids and counts.
Does(s) ==
  \/ Begun(s) \/ Looked(s) \/ DeleteWaits(s) \/ Keeps(s) \/ Fails(s)
  \/ \E t : Listed(s, t) \/ Removed(s, t)
  \/ \E t, news : Added(s, t, news)
  \/ \E t, olds, news : Replaced(s, t, olds, news)
  \/ \E t, id : Parted(s, t, id)
  \/ \E e : Answered(s, e)

LockInv == \A t \in Tables : Locks(t) /\ Identified(t)

GivenInv == \A s \in Sessions : Runs(s) => \E ids : Gives(todo[s], ids)

LEMMA LookingDoes ==
  ASSUME Shapes, NEW s \in Sessions, Runs(s), Tail(todo[s]) # <<>>,
         NEW x, x = Statement(s), x.do \in Reading \ {"look_up"}, Executes(s, x)
  PROVE  Does(s)
<1>1. CASE Rollback(s)
  BY <1>1, RollingBack DEF Does
<1>2. ASSUME NEW number, Sees(s, number), x.do # "list_ids", x.do = "read_tail" => number = Newest(s)
      PROVE  Does(s)
  <2>1. Reads(s) /\ sight'[s] = number /\ counted'[s] = counted[s]
    BY <1>2, Seeing
  <2> QED BY <1>2, <2>1 DEF Does, Looked, Reads
<1>3. CASE x.do = "count" /\ CountRows(s, x.table)
  <2>1. Advances(s) /\ UNCHANGED <<db, inserted, deleted, used, pruned, overlapped>>
    BY <1>3 DEF CountRows, ghosts
  <2> QED BY <1>3, <2>1, Advancing DEF Does, Looked, Reading
<1>4. CASE x.do = "list_ids" /\ ListIds(s, x.table)
  <2>1. PICK t : t = x.table
    OBVIOUS
  <2>2. PICK ids : ids = {r.id : r \in View(s, t)}
    OBVIOUS
  <2>3. /\ listed' = [listed EXCEPT ![s] = [on |-> TRUE, ids |-> ids]]
        /\ counted' = [counted EXCEPT ![s] = @ \cup Named(t, ids)]
        /\ todo' = [todo EXCEPT ![s] = Tail(@)]
        /\ UNCHANGED <<db, inserted, deleted, call, queue, used, pruned, overlapped>>
    BY <1>4, <2>1, <2>2 DEF ListIds, ghosts
  <2>4. /\ listed'[s] = [on |-> TRUE, ids |-> ids] /\ counted'[s] = counted[s] \cup Named(t, ids)
        /\ todo'[s] = Tail(todo[s]) /\ queue'[s] = queue[s] /\ call'[s] = call[s]
    BY <2>3 DEF Shapes
  <2>5. Listed(s, t)
    BY <1>4, <2>1, <2>2, <2>3, <2>4 DEF Listed, Proceeds
  <2> QED BY <2>5 DEF Does
<1>5. x.do = "read_attempts" /\ ReadAttempts(s, x.id) => (\E number : Sees(s, number)) \/ Rollback(s)
  BY DEF ReadAttempts
<1>6. \/ x.do = "count" /\ CountRows(s, x.table)
      \/ x.do = "list_ids" /\ ListIds(s, x.table)
      \/ x.do \notin {"list_ids", "read_tail"} /\ \E number : Sees(s, number)
      \/ x.do = "read_tail" /\ Sees(s, Newest(s))
      \/ Rollback(s)
  BY <1>5 DEF Executes, Reading, Newest
<1> QED BY <1>1, <1>2, <1>3, <1>4, <1>6

LEMMA LookingUpDoes ==
  ASSUME Shapes, NEW s \in Sessions, Runs(s), Statement(s).do = "look_up", NEW e, LookUp(s, e)
  PROVE  Does(s)
<1>1. CASE Sees(s, 0)
  <2>1. PICK number : number = 0
    OBVIOUS
  <2>2. Sees(s, number) /\ Statement(s).do \in Reading
    BY <1>1, <2>1 DEF Reading
  <2>3. Reads(s) /\ counted'[s] = counted[s]
    BY <2>2, Seeing
  <2> QED BY <2>2, <2>3 DEF Does, Looked, Reads
<1>2. CASE Rollback(s)
  BY <1>2, RollingBack DEF Does
<1>3. ASSUME NEW row \in View(s, "events"), SamePayload(row, e), answers' = answers \cup {e}, AddsNext(s),
             UNCHANGED <<db, inserted, deleted, sight, counted, used, calls, pruned, overlapped>>
      PROVE  Does(s)
  <2>1. Answered(s, e)
    BY <1>3, AddingNext DEF Answered, SamePayload
  <2> QED BY <2>1 DEF Does
<1> QED BY <1>1, <1>2, <1>3 DEF LookUp

LEMMA ExecutingDoes ==
  ASSUME ScriptInv, LockInv, GivenInv, NEW s \in Sessions, Execute(s)
  PROVE  Does(s)
<1>1. Shapes /\ Runs(s) /\ WaitsFor(s) = {}
  BY DEF ScriptInv, Execute
<1>2. /\ IsWrite(Statement(s)) => TableOf(Statement(s)) \in Tables
      /\ Statement(s).do = "commit" <=> Tail(todo[s]) = <<>>
      /\ 1 \in DOMAIN todo[s] /\ Statement(s) = todo[s][1]
  BY <1>1, FirstStatement
<1>3. PICK x : x = Statement(s)
  OBVIOUS
<1>4. Executes(s, x)
  BY <1>3 DEF Execute
<1>5. CASE x.do = "look_up"
  <2>1. LookUp(s, x.event)
    BY <1>4, <1>5 DEF Executes
  <2> QED BY <1>1, <1>3, <1>5, <2>1, LookingUpDoes
<1>6. CASE x.do \in Reading \ {"look_up"}
  <2>1. Tail(todo[s]) # <<>>
    BY <1>2, <1>3, <1>6 DEF Reading
  <2> QED BY <1>1, <1>3, <1>4, <1>6, <2>1, LookingDoes
<1>7. CASE x.do \in Inserting
  <2>1. InsertRow(s, x)
    BY <1>4, <1>7 DEF Executes, Inserting
  <2>2. PICK t \in Tables : t = TableOf(x)
    BY <1>2, <1>3, <1>7 DEF IsWrite
  <2>3. Creates(x) => "id" \in DOMAIN x.row
    BY <1>1, <1>2, <1>3 DEF GivenInv, Gives, GivesOne, IsRow
  <2>4. Fails(s) \/ \E news : Added(s, t, news)
    BY <1>1, <1>3, <1>7, <2>1, <2>2, <2>3, AddingRows
  <2> QED BY <2>4 DEF Does
<1>8. CASE x.do \in {"publish", "count_attempt", "close_case"}
  <2>1. PICK id : id = x.id
    OBVIOUS
  <2>2. \/ x.do = "publish" /\ Publish(s, id)
        \/ x.do = "count_attempt" /\ CountAttempt(s, id)
        \/ x.do = "close_case" /\ CloseCase(s, id)
    BY <1>4, <1>8, <2>1 DEF Executes
  <2>3. \A t \in Tables : Identified(t)
    BY DEF LockInv
  <2>4. \E t, olds, news : Replaced(s, t, olds, news)
    BY <1>1, <1>3, <2>1, <2>2, <2>3, ReplacingById
  <2> QED BY <2>4 DEF Does
<1>9. CASE x.do = "delete"
  <2>1. DeleteRows(s, x)
    BY <1>4, <1>9 DEF Executes
  <2>2. TableOf(x) \in Tables
    BY <1>2, <1>3, <1>9 DEF IsWrite, Replacing
  <2> QED BY <1>1, <1>3, <1>9, <2>1, <2>2, RemovingRows DEF Does
<1>10. CASE x.do = "commit"
  <2>1. Commits(s)
    BY <1>4, <1>10 DEF Executes
  <2> QED BY <1>1, <1>2, <1>3, <1>10, <2>1, Committing DEF Does
<1>11. x.do \in Reading \cup Inserting \cup {"publish", "count_attempt", "close_case", "delete", "commit"}
  BY <1>4 DEF Executes, Reading, Inserting
<1> QED BY <1>5, <1>6, <1>7, <1>8, <1>9, <1>10, <1>11

LEMMA StartingDoes ==
  ASSUME Shapes, NEW s \in Sessions, NEW operation, NEW script, NEW events,
         Starts(s, operation, script, events), used \subseteq used', Gives(script, used' \ used),
         Suits(operation, script),
         operation = "prune_retention" => events = <<>> /\ PrunePart(script)
  PROVE  Does(s)
<1>1. /\ ~Runs(s) /\ UNCHANGED <<db, inserted, deleted, listed, counted, pruned>>
      /\ call'[s] = operation /\ todo'[s] = script /\ queue'[s] = events
  BY DEF Starts, Shapes, transaction
<1>2. overlapped' = (overlapped \/
        \E o \in Sessions \ {s} : Runs(o) /\ "reset_demo_data" \in {operation, call[o]})
  BY DEF Starts
<1>3. Begun(s)
  BY <1>1, <1>2 DEF Begun
<1> QED BY <1>3 DEF Does

\* A call of a script that keeps together what it writes and deletes nothing.
Safe(script, ids) == Gives(script, ids) /\ Whole(script) /\ Spares(script)

LEMMA SafeScripts ==
  /\ \A e, ids : Safe(AddEvent(e), ids)
  /\ \A id : /\ Safe(SaveDecision(id), {id}) /\ Safe(SaveReviewCase(id), {id})
             /\ Safe(SaveReviewDecision(id), {id}) /\ Safe(SaveStreamDeadLetter(id), {id})
  /\ \A id, ids : Safe(MarkOutboxPublished(id), ids) /\ Safe(MarkOutboxFailed(id), ids)
  /\ \A tables, ids : Safe(RetentionReport(tables), ids)
<1>1. \A e, ids : Safe(AddEvent(e), ids)
  BY AddEventGives, AddEventIsWhole DEF Safe
<1>2. \A id : /\ Safe(SaveDecision(id), {id}) /\ Safe(SaveReviewCase(id), {id})
              /\ Safe(SaveReviewDecision(id), {id}) /\ Safe(SaveStreamDeadLetter(id), {id})
  BY SavesGive, SavesAreWhole, ReviewIsWhole DEF Safe
<1>3. \A id, ids : Safe(MarkOutboxPublished(id), ids) /\ Safe(MarkOutboxFailed(id), ids)
  BY MarksGive, MarksAreWhole DEF Safe
<1>4. \A tables, ids : Safe(RetentionReport(tables), ids)
  BY ReportGives, ReportIsWhole DEF Safe
<1> QED BY <1>1, <1>2, <1>3, <1>4

LEMMA CallingDoes ==
  ASSUME Shapes, NEW s \in Sessions, Ingests(s) \/ Records(s) \/ Drains(s) \/ Maintains(s)
  PROVE  Does(s)
<1>1. ASSUME NEW operation, NEW script, NEW events, operation # "prune_retention",
             Starts(s, operation, script, events), used \subseteq used', Safe(script, used' \ used)
      PROVE  Does(s)
  BY <1>1, StartingDoes DEF Safe, Suits
<1>2. ASSUME NEW operation, NEW id, NEW script, operation # "prune_retention",
             Saves(s, operation, id, script), Safe(script, {id})
      PROVE  Does(s)
  <2>1. used \subseteq used' /\ used' \ used = {id}
    BY <1>2 DEF Saves
  <2>2. PICK none : none = <<>> /\ Starts(s, operation, script, none)
    BY <1>2 DEF Saves
  <2> QED BY <1>1, <1>2, <2>1, <2>2
<1>3. ASSUME NEW operation, NEW script, operation # "prune_retention", Calls(s, operation, script),
             Safe(script, used' \ used)
      PROVE  Does(s)
  <2>1. PICK none : none = <<>> /\ Starts(s, operation, script, none)
    BY <1>3 DEF Calls
  <2>2. used \subseteq used'
    BY <1>3 DEF Calls
  <2> QED BY <1>1, <1>3, <2>1, <2>2
<1>4. CASE Ingests(s)
  <2>1. PICK batch \in Batches \ {<<>>} : Starts(s, "add_events", AddEvent(Head(batch)), Tail(batch))
                                          /\ UNCHANGED used
    BY <1>4 DEF Ingests
  <2>2. PICK operation, script, rest :
          operation = "add_events" /\ script = AddEvent(Head(batch)) /\ rest = Tail(batch)
    OBVIOUS
  <2>3. Safe(script, used' \ used) /\ Starts(s, operation, script, rest) /\ used \subseteq used'
    BY <2>1, <2>2, SafeScripts
  <2> QED BY <1>1, <2>2, <2>3
<1>5. CASE Records(s)
  <2>1. \/ \E id : Saves(s, "save_decision", id, SaveDecision(id))
        \/ \E id : Saves(s, "save_review_case", id, SaveReviewCase(id))
        \/ \E id : Saves(s, "save_review_decision", id, SaveReviewDecision(id))
        \/ \E id : Saves(s, "save_stream_dead_letter", id, SaveStreamDeadLetter(id))
    BY <1>5 DEF Records
  <2>2. PICK operation, id, script :
          /\ operation # "prune_retention" /\ Saves(s, operation, id, script)
          /\ Safe(script, {id})
    BY <2>1, SafeScripts
  <2> QED BY <1>2, <2>2
<1>6. CASE Drains(s)
  <2>1. PICK operation, script : /\ operation # "prune_retention" /\ Calls(s, operation, script)
                                 /\ Safe(script, used' \ used)
    BY <1>6, SafeScripts DEF Drains
  <2> QED BY <1>3, <2>1
<1>7. CASE Maintains(s)
  <2>1. \/ \E tables : Calls(s, "retention_report", RetentionReport(tables))
        \/ \E tables : Calls(s, "prune_retention", PruneRetention(tables))
        \/ \E batch \in Batches : Starts(s, "reset_demo_data", ResetDemoData, batch) /\ UNCHANGED used
    BY <1>7 DEF Maintains, Reports, Prunes
  <2>2. CASE \E tables : Calls(s, "retention_report", RetentionReport(tables))
    <3>1. PICK operation, script : /\ operation # "prune_retention" /\ Calls(s, operation, script)
                                   /\ Safe(script, used' \ used)
      BY <2>2, SafeScripts
    <3> QED BY <1>3, <3>1
  <2>3. CASE \E tables : Calls(s, "prune_retention", PruneRetention(tables))
    <3>1. PICK script : Calls(s, "prune_retention", script) /\ PrunePart(script) /\ Whole(script)
      BY <2>3, PruneScripts, PruneIsWhole
    <3>2. Gives(script, used' \ used)
      BY <3>1, PruneGives DEF PrunePart
    <3>3. PICK operation, none : operation = "prune_retention" /\ none = <<>>
      OBVIOUS
    <3>4. Starts(s, operation, script, none) /\ used \subseteq used'
      BY <3>1, <3>3 DEF Calls
    <3>5. Suits(operation, script)
      BY <3>1, <3>3 DEF Suits
    <3> QED BY <3>1, <3>2, <3>3, <3>4, <3>5, StartingDoes
  <2>4. CASE \E batch \in Batches : Starts(s, "reset_demo_data", ResetDemoData, batch) /\ UNCHANGED used
    <3>1. PICK batch \in Batches : Starts(s, "reset_demo_data", ResetDemoData, batch) /\ UNCHANGED used
      BY <2>4
    <3>2. PICK operation, script : operation = "reset_demo_data" /\ script = ResetDemoData
      OBVIOUS
    <3>3. Gives(script, used' \ used)
      BY <3>2, ResetGives
    <3>4. Starts(s, operation, script, batch) /\ used \subseteq used' /\ operation # "prune_retention"
      BY <3>1, <3>2
    <3>5. Suits(operation, script)
      BY <3>2 DEF Suits
    <3> QED BY <3>3, <3>4, <3>5, StartingDoes
  <2> QED BY <2>1, <2>2, <2>3, <2>4
<1> QED BY <1>4, <1>5, <1>6, <1>7

LEMMA Doing ==
  ASSUME ScriptInv, LockInv, GivenInv, Next
  PROVE  \E s \in Sessions : Does(s) /\ Leaves(s)
<1>1. PICK s \in Sessions :
        \/ Ingests(s) \/ Records(s) \/ Drains(s) \/ Maintains(s)
        \/ Execute(s) \/ DeleteRow(s) \/ DeleteWaits(s)
        \/ DeadlockDetected(s) \/ ConnectionLost(s)
  BY DEF Next
<1>2. CASE Ingests(s) \/ Records(s) \/ Drains(s) \/ Maintains(s)
  BY <1>2, Calling, CallingDoes DEF ScriptInv
<1>3. CASE Execute(s)
  BY <1>3, Executing, ExecutingDoes
<1>4. CASE DeleteWaits(s)
  <2>1. Leaves(s)
    BY <1>4 DEF DeleteWaits, ListsVictims, Leaves, ScriptInv, Shapes
  <2> QED BY <1>4, <2>1 DEF Does
<1>5. CASE DeadlockDetected(s) \/ ConnectionLost(s)
  <2>1. Runs(s) /\ Rollback(s)
    BY <1>5 DEF DeadlockDetected, ConnectionLost, Deadlocked, WaitsFor, Writes
  <2> QED BY <2>1, RollingBack DEF ScriptInv, Does
<1>6. CASE DeleteRow(s)
  <2>1. Shapes /\ TableOf(Statement(s)) \in Tables
    BY <1>6, FirstStatement, WritesAreSent DEF DeleteRow, Deleting, Writes, ScriptInv
  <2> QED BY <1>6, <2>1, Parting DEF Does
<1> QED BY <1>1, <1>2, <1>3, <1>4, <1>5, <1>6

-----------------------------------------------------------------------------
(* The rows and locks of every step.                                       *)

\* Scripts go on: the statements left were there, or are those of a call that
\* begins, or add an event.
LEMMA ScriptsLeft ==
  ASSUME ScriptInv, NEW s \in Sessions, Does(s)
  PROVE  \/ Begun(s)
         \/ Runs(s) /\ todo'[s] = todo[s]
         \/ Runs(s) /\ todo'[s] = Tail(todo[s])
         \/ Runs(s) /\ todo'[s] = <<>>
         \/ Runs(s) /\ \E e : todo'[s] = AddEvent(e)
<1>1. CASE Looked(s) \/ (\E t : Listed(s, t) \/ Removed(s, t)) \/ (\E t, news : Added(s, t, news))
           \/ (\E t, olds, news : Replaced(s, t, olds, news))
  BY <1>1 DEF Looked, Listed, Removed, Added, Replaced, Sent, Proceeds
<1>2. CASE DeleteWaits(s) \/ \E t, id : Parted(s, t, id)
  BY <1>2 DEF DeleteWaits, Parted, Deleting, Writes
<1>3. CASE Fails(s)
  BY <1>3 DEF Fails
<1>4. CASE Keeps(s) \/ \E e : Answered(s, e)
  BY <1>4 DEF Keeps, Answered, Continues
<1> QED BY <1>1, <1>2, <1>3, <1>4 DEF Does

LEMMA GivesTail ==
  ASSUME NEW q, NEW ids, Gives(q, ids), q # <<>>
  PROVE  Gives(Tail(q), ids)
<1>1. IsScript(q)
  BY DEF Gives
<1>2. IsScript(Tail(q)) /\ \A n \in DOMAIN Tail(q) : n + 1 \in DOMAIN q /\ Tail(q)[n] = q[n + 1]
  BY <1>1, ScriptTail
<1> QED BY <1>2 DEF Gives

LEMMA GivenKept ==
  ASSUME ScriptInv, GivenInv, NEW s \in Sessions, Does(s), Leaves(s)
  PROVE  GivenInv'
<1>1. \A o \in Sessions \ {s} : todo'[o] = todo[o]
  BY DEF Leaves
<1>2. Runs(s)' => \E ids : Gives(todo'[s], ids)
  <2>1. CASE Begun(s)
    BY <2>1 DEF Begun
  <2>2. CASE Runs(s) /\ todo'[s] \in {todo[s], Tail(todo[s])}
    BY <2>2, GivesTail DEF GivenInv, Runs
  <2>3. CASE todo'[s] = <<>>
    BY <2>3 DEF Runs
  <2>4. CASE \E e : todo'[s] = AddEvent(e)
    BY <2>4, AddEventGives
  <2> QED BY <2>1, <2>2, <2>3, <2>4, ScriptsLeft
<1> QED BY <1>1, <1>2 DEF GivenInv, Runs

\* What a step does to the rows of a table.
Idles(t) ==
  /\ db'[t] = db[t]
  /\ \A u \in Sessions : inserted'[u][t] = inserted[u][t] /\ deleted'[u][t] = deleted[u][t]

Closes(s, t) ==
  /\ inserted'[s][t] = {} /\ deleted'[s][t] = {}
  /\ \/ Keeps(s) /\ db'[t] = View(s, t)
     \/ Fails(s) /\ db'[t] = db[t]

OnTable(s, t) ==
  \/ Idles(t)
  \/ \E news : Added(s, t, news) /\ db'[t] = db[t]
  \/ \E olds, news : Replaced(s, t, olds, news) /\ db'[t] = db[t]
  \/ Removed(s, t) /\ db'[t] = db[t]
  \/ \E id : Parted(s, t, id) /\ db'[t] = db[t]
  \/ Closes(s, t)

LEMMA TableByTable ==
  ASSUME NEW s \in Sessions, Does(s), Leaves(s), NEW t \in Tables
  PROVE  OnTable(s, t) /\ OthersStay(s, t)
<1>1. OthersStay(s, t)
  BY DEF Leaves, OthersStay
<1>2. CASE Begun(s) \/ Looked(s) \/ (\E u : Listed(s, u)) \/ (\E e : Answered(s, e))
  BY <1>1, <1>2 DEF Begun, Looked, Listed, Answered, OnTable, Idles
<1>3. CASE DeleteWaits(s)
  BY <1>1, <1>3 DEF DeleteWaits, OnTable, Idles
<1>4. CASE Fails(s)
  BY <1>1, <1>4 DEF Fails, NoRows, OnTable, Closes
<1>5. CASE Keeps(s)
  BY <1>1, <1>5 DEF Keeps, NoRows, OnTable, Closes
<1>6. ASSUME NEW u, Sent(s, u), u # t PROVE Idles(t)
  <2>1. t \in Tables \ {u}
    BY <1>6
  <2>2. inserted'[s][t] = inserted[s][t] /\ deleted'[s][t] = deleted[s][t] /\ db' = db
    BY <1>6, <2>1 DEF Sent
  <2>3. ASSUME NEW v \in Sessions
        PROVE  inserted'[v][t] = inserted[v][t] /\ deleted'[v][t] = deleted[v][t]
    BY <1>1, <2>2 DEF OthersStay
  <2> QED BY <2>2, <2>3 DEF Idles
<1>7. ASSUME NEW u, NEW news, Added(s, u, news) PROVE OnTable(s, t)
  <2>1. Sent(s, u) /\ db' = db
    BY <1>7 DEF Added, Sent
  <2>2. CASE u = t
    <3>1. Added(s, t, news)
      BY <1>7, <2>2
    <3> QED BY <2>1, <3>1 DEF OnTable
  <2> QED BY <1>6, <2>1, <2>2 DEF OnTable
<1>8. ASSUME NEW u, NEW olds, NEW news, Replaced(s, u, olds, news) PROVE OnTable(s, t)
  <2>1. Sent(s, u) /\ db' = db
    BY <1>8 DEF Replaced, Sent
  <2>2. CASE u = t
    <3>1. Replaced(s, t, olds, news)
      BY <1>8, <2>2
    <3> QED BY <2>1, <3>1 DEF OnTable
  <2> QED BY <1>6, <2>1, <2>2 DEF OnTable
<1>9. ASSUME NEW u, Removed(s, u) PROVE OnTable(s, t)
  <2>1. Sent(s, u) /\ db' = db
    BY <1>9 DEF Removed, Sent
  <2>2. CASE u = t
    <3>1. Removed(s, t)
      BY <1>9, <2>2
    <3> QED BY <2>1, <3>1 DEF OnTable
  <2> QED BY <1>6, <2>1, <2>2 DEF OnTable
<1>10. ASSUME NEW u, NEW id, Parted(s, u, id) PROVE OnTable(s, t)
  <2>1. db' = db
    BY <1>10 DEF Parted
  <2>2. CASE u = t
    <3>1. Parted(s, t, id)
      BY <1>10, <2>2
    <3> QED BY <2>1, <3>1 DEF OnTable
  <2>3. CASE u # t
    <3>1. inserted'[s][t] = inserted[s][t] /\ deleted'[s][t] = deleted[s][t]
      BY <1>10, <2>3 DEF Parted
    <3>2. ASSUME NEW v \in Sessions
          PROVE  inserted'[v][t] = inserted[v][t] /\ deleted'[v][t] = deleted[v][t]
      BY <1>1, <3>1 DEF OthersStay
    <3> QED BY <2>1, <3>2 DEF OnTable, Idles
  <2> QED BY <2>2, <2>3
<1> QED BY <1>1, <1>2, <1>3, <1>4, <1>5, <1>7, <1>8, <1>9, <1>10 DEF Does

LEMMA LocksKept ==
  ASSUME LockInv, NEW s \in Sessions, Does(s), Leaves(s)
  PROVE  LockInv'
<1> SUFFICES ASSUME NEW t \in Tables PROVE Locks(t)' /\ Identified(t)'
  BY DEF LockInv
<1>1. Locks(t) /\ Identified(t) /\ OnTable(s, t) /\ OthersStay(s, t)
  BY TableByTable DEF LockInv
<1>2. CASE Idles(t)
  BY <1>1, <1>2, LocksStay DEF Idles
<1>3. CASE \E news : Added(s, t, news) /\ db'[t] = db[t]
  BY <1>1, <1>3, LocksAdd DEF Added
<1>4. CASE \E olds, news : Replaced(s, t, olds, news) /\ db'[t] = db[t]
  BY <1>1, <1>4, LocksSwap DEF Replaced
<1>5. CASE Removed(s, t) /\ db'[t] = db[t]
  <2>1. PICK olds, none : Swaps(s, t, olds, none)
    BY <1>5 DEF Removed
  <2> QED BY <1>1, <1>5, <2>1, LocksSwap
<1>6. CASE Closes(s, t)
  BY <1>1, <1>6, LocksEnd DEF Closes
<1>7. CASE \E id : Parted(s, t, id) /\ db'[t] = db[t]
  BY <1>1, <1>7, PartedSwaps, LocksSwap
<1> QED BY <1>1, <1>2, <1>3, <1>4, <1>5, <1>6, <1>7 DEF OnTable

RowInv == LockInv /\ GivenInv

LEMMA InitRows == ASSUME Init PROVE RowInv
<1>1. GivenInv
  BY DEF Init, GivenInv, Runs
<1>2. ASSUME NEW t \in Tables PROVE Locks(t) /\ Identified(t)
  <2>1. \A s \in Sessions : inserted[s][t] = {} /\ deleted[s][t] = {}
    BY DEF Init, NoRows
  <2>2. \A r \in db[t] : "id" \in DOMAIN r
    BY DEF Init, NoRows, EventRow, NewMessage, Tables
  <2> QED BY <2>1, <2>2 DEF Locks, Identified
<1> QED BY <1>1, <1>2 DEF RowInv, LockInv

LEMMA StepRows == ASSUME ScriptInv, RowInv, [Next]_vars PROVE RowInv'
<1>1. CASE Next
  <2>1. PICK s \in Sessions : Does(s) /\ Leaves(s)
    BY <1>1, Doing DEF RowInv
  <2> QED BY <2>1, GivenKept, LocksKept DEF RowInv
<1>2. CASE UNCHANGED vars
  BY <1>2 DEF vars, transaction, RowInv, LockInv, Locks, Identified, GivenInv, Runs
<1> QED BY <1>1, <1>2

\* A row has one uncommitted writer, and an id one row, in every table.
THEOREM RowsAreLocked == Spec => []RowInv
BY ScriptInvariant, InitRows, StepRows, PTL DEF Spec

-----------------------------------------------------------------------------
(* What a prune has counted.                                               *)

Prunable == Tables \ {"audit_entries"}

Pruning(s) == call[s] = "prune_retention"

\* The DELETE of this row is the next statement.
Pending(s, t, id) ==
  t \in Json /\ IsListed(Statement(s)) /\ Statement(s).table = t /\ id \in listed[s].ids

\* No transaction can bring a row of this id any more.
Gone(s, t, id) ==
  /\ \A r \in View(s, t) : r.id # id
  /\ \A o \in Sessions \ {s} : \A r \in inserted[o][t] : r.id # id
  /\ t \in Json \/ \E q \in deleted[s][t] : q.id = id

Accounts(s) ==
  /\ queue[s] = <<>> /\ PruneScript(todo[s])
  /\ IsListed(Statement(s)) =>
       listed[s].on /\ \A id \in listed[s].ids : <<Statement(s).table, id>> \in counted[s]
  /\ \A t \in Prunable : inserted[s][t] = {} /\ \A q \in deleted[s][t] : <<t, q.id>> \in counted[s]
  /\ \A id : <<"audit_entries", id>> \notin counted[s]
  /\ \A t \in Prunable : \A id : <<t, id>> \in counted[s] => Pending(s, t, id) \/ Gone(s, t, id)

\* A uuid whose row is not committed yet.
ToInsert(s, t, id) ==
  \E n \in DOMAIN todo[s] :
    Creates(todo[s][n]) /\ todo[s][n].table = t /\ todo[s][n].row.id = id

Held(s, t, id) ==
  (\E r \in inserted[s][t] : r.id = id) /\ \A q \in deleted[s][t] : q.id # id

Fresh(s, t, id) == ToInsert(s, t, id) \/ Held(s, t, id)

Unseen(t, id) ==
  /\ \A r \in db[t] : r.id # id
  /\ \A s \in Sessions : Pruning(s) => <<t, id>> \notin counted[s]

UuidInv ==
  \A t \in Json : \A id :
    /\ ~Unseen(t, id) => id \in used
    /\ \A s \in Sessions : Fresh(s, t, id) =>
         id \in used /\ Unseen(t, id) /\ \A o \in Sessions \ {s} : ~Fresh(o, t, id)

AccountInv == UuidInv /\ \A s \in Sessions : Pruning(s) => Accounts(s)

LEMMA PruneTail ==
  ASSUME NEW q, PruneScript(q), q # <<>>
  PROVE  /\ OfPrune(Head(q)) /\ PruneScript(Tail(q))
         /\ Tail(q) # <<>> /\ IsListed(Head(Tail(q))) => IsPair(Head(q), Head(Tail(q)))
         /\ Head(q).do = "list_ids" => Tail(q) # <<>> /\ IsPair(Head(q), Head(Tail(q)))
<1>1. IsScript(q) /\ IsScript(Tail(q))
  BY ScriptTail DEF PruneScript
<1>2. /\ Len(q) \in Nat \ {0} /\ DOMAIN q = 1 .. Len(q) /\ DOMAIN Tail(q) = 1 .. Len(q) - 1
      /\ Head(q) = q[1] /\ \A n \in 1 .. Len(q) - 1 : Tail(q)[n] = q[n + 1]
      /\ Tail(q) = <<>> <=> Len(q) = 1
  BY <1>1, ScriptTail
<1>3. OfPrune(Head(q))
  BY <1>2 DEF PruneScript
<1>4. \A n \in DOMAIN Tail(q) : n + 1 \in DOMAIN q /\ Tail(q)[n] = q[n + 1] /\ n \in Nat \ {0}
  BY <1>2
<1>5. \A n \in DOMAIN Tail(q) : OfPrune(Tail(q)[n])
  BY <1>4 DEF PruneScript
<1>6. ASSUME NEW n \in DOMAIN Tail(q)
      PROVE  /\ IsListed(Tail(q)[n]) /\ n > 1 => IsPair(Tail(q)[n - 1], Tail(q)[n])
             /\ Tail(q)[n].do = "list_ids" =>
                  n + 1 \in DOMAIN Tail(q) /\ IsPair(Tail(q)[n], Tail(q)[n + 1])
  <2>1. /\ IsListed(q[n + 1]) /\ n + 1 > 1 => IsPair(q[n + 1 - 1], q[n + 1])
        /\ q[n + 1].do = "list_ids" => n + 1 + 1 \in DOMAIN q /\ IsPair(q[n + 1], q[n + 1 + 1])
    BY <1>4 DEF PruneScript, Paired
  <2>2. n > 1 => n - 1 \in DOMAIN Tail(q) /\ Tail(q)[n - 1] = q[n]
    <3>1. n > 1 => n - 1 \in 1 .. Len(q) - 1 /\ (n - 1) + 1 = n
      BY <1>2
    <3> QED BY <1>2, <3>1
  <2>3. n + 1 + 1 \in DOMAIN q => n + 1 \in DOMAIN Tail(q)
    BY <1>2
  <2>4. n + 1 \in DOMAIN Tail(q) => Tail(q)[n + 1] = q[n + 1 + 1]
    BY <1>4
  <2>5. n + 1 - 1 = n /\ n + 1 > 1
    BY <1>4
  <2> QED BY <1>4, <2>1, <2>2, <2>3, <2>4, <2>5
<1>7. PruneScript(Tail(q))
  BY <1>1, <1>5, <1>6 DEF PruneScript, Paired
<1>8. Tail(q) # <<>> => /\ 1 \in DOMAIN Tail(q) /\ Tail(q)[1] = q[2] /\ 2 \in DOMAIN q
                        /\ Head(Tail(q)) = Tail(q)[1]
  <2>1. Tail(q) # <<>> => 1 \in 1 .. Len(q) - 1 /\ 2 \in 1 .. Len(q)
    BY <1>2
  <2>2. Tail(q) # <<>> => Head(Tail(q)) = Tail(q)[1]
    BY <1>1, ScriptTail
  <2> QED BY <1>2, <2>1, <2>2
<1>9. Tail(q) # <<>> /\ IsListed(Head(Tail(q))) => IsPair(Head(q), Head(Tail(q)))
  BY <1>2, <1>8 DEF PruneScript, Paired
<1>10. Head(q).do = "list_ids" => Tail(q) # <<>> /\ IsPair(Head(q), Head(Tail(q)))
  <2>1. 1 \in DOMAIN q
    BY <1>2
  <2>2. q[1].do = "list_ids" => 2 \in DOMAIN q /\ IsPair(q[1], q[2])
    BY <2>1 DEF PruneScript, Paired
  <2>3. 2 \in DOMAIN q => Tail(q) # <<>>
    BY <1>2
  <2> QED BY <1>2, <1>8, <2>2, <2>3
<1> QED BY <1>3, <1>7, <1>9, <1>10

\* The next statement of a prune.
LEMMA PruneStatement ==
  ASSUME ScriptInv, NEW s \in Sessions, Pruning(s), Accounts(s)
  PROVE  /\ Runs(s) /\ OfPrune(Statement(s)) /\ PruneScript(Tail(todo[s]))
         /\ Statement(s).do = "delete" => TableOf(Statement(s)) = Statement(s).table
<1>1. Runs(s)
  BY DEF ScriptInv, Pruning
<1> QED BY <1>1, PruneTail DEF Accounts, Runs, Statement, TableOf

-----------------------------------------------------------------------------
(* A uuid is inserted once.                                                *)

LEMMA JsonTables == Json \subseteq Prunable /\ Prunable \subseteq Tables
BY DEF Json, Prunable, Tables

\* A session still has to insert what it had, or its call begins.
LEMMA ToInsertLeft ==
  ASSUME ScriptInv, NEW s \in Sessions, Does(s), NEW t \in Json, NEW id, ToInsert(s, t, id)'
  PROVE  ToInsert(s, t, id) \/ id \in used' \ used
<1>1. PICK n \in DOMAIN todo'[s] :
        Creates(todo'[s][n]) /\ todo'[s][n].table = t /\ todo'[s][n].row.id = id
  BY DEF ToInsert
<1>2. CASE Begun(s)
  BY <1>1, <1>2 DEF Begun, Gives, GivesOne
<1>3. CASE Runs(s) /\ todo'[s] = todo[s]
  BY <1>1, <1>3 DEF ToInsert
<1>4. CASE Runs(s) /\ todo'[s] = Tail(todo[s])
  <2>1. IsScript(todo[s]) /\ todo[s] # <<>>
    BY <1>4 DEF ScriptInv, WellFormed, Runs
  <2>2. n + 1 \in DOMAIN todo[s] /\ todo'[s][n] = todo[s][n + 1]
    BY <1>4, <2>1, ScriptTail
  <2> QED BY <1>1, <2>2 DEF ToInsert
<1>5. CASE todo'[s] = <<>>
  BY <1>1, <1>5
<1>6. CASE \E e : todo'[s] = AddEvent(e)
  <2>1. PICK none : none = {}
    OBVIOUS
  <2>2. Gives(todo'[s], none)
    BY <1>6, AddEventGives
  <2> QED BY <1>1, <2>1, <2>2 DEF Gives, GivesOne
<1> QED BY <1>2, <1>3, <1>4, <1>5, <1>6, ScriptsLeft

LEMMA HeldBefore ==
  ASSUME ScriptInv, RowInv, NEW s \in Sessions, Does(s), Leaves(s), NEW t \in Json, NEW id,
         Held(s, t, id)'
  PROVE  Fresh(s, t, id)
<1>1. t \in Tables /\ OnTable(s, t)
  BY JsonTables, TableByTable
<1>2. PICK r \in inserted'[s][t] : r.id = id
  BY DEF Held
<1>3. \A q \in deleted'[s][t] : q.id # id
  BY DEF Held
<1>4. CASE Idles(t)
  BY <1>2, <1>3, <1>4 DEF Idles, Fresh, Held
<1>5. ASSUME NEW news, Added(s, t, news) PROVE Fresh(s, t, id)
  <2>1. inserted'[s][t] = inserted[s][t] \cup news /\ deleted'[s][t] = deleted[s][t]
    BY <1>5 DEF Added, Adds
  <2>2. CASE r \in inserted[s][t]
    BY <1>2, <1>3, <2>1, <2>2 DEF Fresh, Held
  <2>3. CASE r \in news
    <3>1. r \in Inserts(s, Statement(s)) /\ Runs(s) /\ t = TableOf(Statement(s))
          /\ Statement(s).do \in Inserting
      BY <1>5, <2>3 DEF Added, Sent, Proceeds
    <3>2. Statement(s).do # "insert_entry"
      BY <3>1 DEF TableOf, Json
    <3>3. Creates(Statement(s)) /\ Statement(s).row = r /\ Statement(s).table = t
      BY <3>1, <3>2 DEF Inserting, Creates, Inserts, TableOf
    <3>4. 1 \in DOMAIN todo[s] /\ Statement(s) = todo[s][1]
      BY <3>1, FirstStatement
    <3> QED BY <1>2, <3>3, <3>4 DEF Fresh, ToInsert
  <2> QED BY <1>2, <2>1, <2>2, <2>3
<1>6. ASSUME NEW olds, NEW news, Swaps(s, t, olds, news) PROVE Fresh(s, t, id)
  <2>1. \A q \in inserted[s][t] : q.id = id => Held(s, t, id)
    BY <1>3, <1>6 DEF Swaps, Held
  <2>2. CASE r \in news
    <3>1. PICK q \in olds : q.id = id
      BY <1>2, <1>6, <2>2 DEF Swaps
    <3>2. q \in inserted[s][t] \/ q \in db[t]
      BY <1>6, <3>1 DEF Swaps, View
    <3>3. q \notin db[t]
      BY <1>3, <1>6, <3>1 DEF Swaps
    <3> QED BY <2>1, <3>1, <3>2, <3>3 DEF Fresh
  <2> QED BY <1>2, <1>6, <2>1, <2>2 DEF Swaps, Fresh
<1>7. CASE \E olds, news : Replaced(s, t, olds, news)
  BY <1>6, <1>7 DEF Replaced
<1>8. CASE Removed(s, t)
  <2>1. PICK olds, none : Swaps(s, t, olds, none)
    BY <1>8 DEF Removed
  <2> QED BY <1>6, <2>1
<1>9. CASE Closes(s, t)
  BY <1>2, <1>9 DEF Closes
<1>10. CASE \E i : Parted(s, t, i)
  <2>1. PICK olds, none : Swaps(s, t, olds, none)
    BY <1>10, PartedSwaps
  <2> QED BY <1>6, <2>1
<1> QED BY <1>1, <1>4, <1>5, <1>7, <1>8, <1>9, <1>10 DEF OnTable

LEMMA FreshBefore ==
  ASSUME ScriptInv, RowInv, NEW s \in Sessions, Does(s), Leaves(s), NEW t \in Json, NEW id,
         NEW u \in Sessions, Fresh(u, t, id)'
  PROVE  Fresh(u, t, id) \/ (u = s /\ id \in used' \ used)
<1>1. CASE u = s
  BY <1>1, ToInsertLeft, HeldBefore DEF Fresh
<1>2. CASE u # s
  <2>1. todo'[u] = todo[u] /\ inserted'[u] = inserted[u] /\ deleted'[u] = deleted[u]
    BY <1>2 DEF Leaves
  <2> QED BY <2>1 DEF Fresh, Held, ToInsert
<1> QED BY <1>1, <1>2

\* After its commit a session holds none.
LEMMA NoneFresh ==
  ASSUME NEW s \in Sessions, Keeps(s), NEW t \in Json, NEW id
  PROVE  ~Fresh(s, t, id)'
<1>1. inserted'[s][t] = {}
  BY JsonTables DEF Keeps, NoRows
<1>2. CASE todo'[s] = <<>>
  BY <1>1, <1>2 DEF Fresh, Held, ToInsert
<1>3. CASE \E e : todo'[s] = AddEvent(e)
  <2>1. PICK none : none = {}
    OBVIOUS
  <2>2. Gives(todo'[s], none)
    BY <1>3, AddEventGives
  <2> QED BY <1>1, <2>1, <2>2 DEF Fresh, Held, ToInsert, Gives, GivesOne
<1> QED BY <1>2, <1>3 DEF Keeps, Continues

\* What a step counts and commits.
LEMMA CountedBefore ==
  ASSUME ScriptInv, AccountInv, NEW s \in Sessions, Does(s), Pruning(s)',
         NEW t \in Json, NEW id, <<t, id>> \in counted'[s]
  PROVE  ~Unseen(t, id)
<1>1. CASE Begun(s)
  BY <1>1 DEF Begun, ScriptInv, Rests
<1>2. CASE Keeps(s) \/ Fails(s)
  BY <1>2 DEF Keeps, Fails
<1>3. CASE \E e : Answered(s, e)
  <2>1. Pruning(s) /\ Runs(s) /\ Statement(s).do = "look_up"
    BY <1>3 DEF Answered, Continues, Pruning
  <2> QED BY <2>1, PruneStatement DEF AccountInv, OfPrune
<1>4. CASE DeleteWaits(s)
  BY <1>4 DEF DeleteWaits, Pruning, Unseen
<1>10. ASSUME NEW u, NEW i, Parted(s, u, i) PROVE ~Unseen(t, id)
  <2>1. Pruning(s)
    BY <1>10 DEF Parted, Pruning
  <2>2. OfPrune(Statement(s)) /\ u = Statement(s).table /\ Statement(s).do = "delete"
    BY <1>10, <2>1, PruneStatement DEF AccountInv, Parted, Deleting
  <2>3. Statement(s).rowcount => u # t
    BY <2>2 DEF OfPrune
  <2>4. <<t, id>> \in counted[s]
    BY <1>10, <2>3 DEF Parted, Named
  <2> QED BY <2>1, <2>4 DEF Unseen
<1>5. ASSUME Proceeds(s) PROVE Pruning(s) /\ Accounts(s) /\ OfPrune(Statement(s))
  <2>1. Pruning(s)
    BY <1>5 DEF Proceeds, Pruning
  <2> QED BY <2>1, PruneStatement DEF AccountInv
<1>6. CASE Looked(s)
  <2>1. Pruning(s) /\ OfPrune(Statement(s))
    BY <1>5, <1>6 DEF Looked
  <2>2. counted'[s] = counted[s]
    BY <1>6, <2>1 DEF Looked, OfPrune
  <2> QED BY <2>1, <2>2 DEF Unseen
<1>7. ASSUME NEW u, Listed(s, u) PROVE ~Unseen(t, id)
  <2>1. Pruning(s) /\ Accounts(s)
    BY <1>5, <1>7 DEF Listed
  <2>2. CASE <<t, id>> \in counted[s]
    BY <2>1, <2>2 DEF Unseen
  <2>3. CASE <<t, id>> \in Named(u, {r.id : r \in View(s, u)})
    <3>1. \E r \in View(s, t) : r.id = id
      BY <2>3 DEF Named
    <3>2. View(s, t) \subseteq db[t]
      BY <2>1, JsonTables DEF Accounts, View
    <3> QED BY <3>1, <3>2 DEF Unseen
  <2> QED BY <1>7, <2>2, <2>3 DEF Listed
<1>8. ASSUME NEW u, Removed(s, u) PROVE ~Unseen(t, id)
  <2>1. Pruning(s) /\ OfPrune(Statement(s)) /\ u = TableOf(Statement(s))
        /\ TableOf(Statement(s)) = Statement(s).table
    BY <1>5, <1>8, PruneStatement DEF Removed, Sent
  <2>2. Statement(s).rowcount => u \notin Json
    BY <1>8, <2>1 DEF OfPrune, Removed
  <2>3. <<t, id>> \in counted[s]
    BY <1>8, <2>2 DEF Removed, Named
  <2> QED BY <2>1, <2>3 DEF Unseen
<1>9. CASE (\E u, news : Added(s, u, news)) \/ (\E u, olds, news : Replaced(s, u, olds, news))
  <2>1. Proceeds(s) /\ counted'[s] = counted[s]
    BY <1>9 DEF Added, Replaced, Sent
  <2> QED BY <1>5, <2>1 DEF Unseen
<1> QED BY <1>1, <1>2, <1>3, <1>4, <1>6, <1>7, <1>8, <1>9, <1>10 DEF Does

LEMMA SeenByCommit ==
  ASSUME ScriptInv, RowInv, AccountInv, NEW s \in Sessions, Does(s), Leaves(s),
         NEW t \in Json, NEW id, Unseen(t, id), ~Unseen(t, id)'
  PROVE  Keeps(s) /\ Held(s, t, id)
<1>1. \A o \in Sessions : Pruning(o)' => <<t, id>> \notin counted'[o]
  <2>1. ASSUME NEW o \in Sessions \ {s}, Pruning(o)' PROVE <<t, id>> \notin counted'[o]
    <3>1. Pruning(o) /\ counted'[o] = counted[o]
      BY <2>1 DEF Leaves, Pruning
    <3> QED BY <3>1 DEF Unseen
  <2> QED BY <2>1, CountedBefore
<1>2. PICK r \in db'[t] : r.id = id
  BY <1>1 DEF Unseen
<1>3. t \in Tables /\ OnTable(s, t) /\ Locks(t)
  BY JsonTables, TableByTable DEF RowInv, LockInv
<1>4. db'[t] # db[t]
  BY <1>2 DEF Unseen
<1>5. Keeps(s) /\ db'[t] = View(s, t)
  BY <1>3, <1>4 DEF OnTable, Idles, Closes
<1>6. r \in inserted[s][t]
  BY <1>2, <1>5 DEF View, Unseen
<1>7. \A q \in deleted[s][t] : q.id # id
  BY <1>3 DEF Locks, Unseen
<1> QED BY <1>2, <1>5, <1>6, <1>7 DEF Held

LEMMA UuidsKept ==
  ASSUME ScriptInv, RowInv, AccountInv, NEW s \in Sessions, Does(s), Leaves(s)
  PROVE  UuidInv'
<1> SUFFICES ASSUME NEW t \in Json, NEW id
             PROVE  /\ ~Unseen(t, id)' => id \in used'
                    /\ \A u \in Sessions : Fresh(u, t, id)' =>
                         /\ id \in used' /\ Unseen(t, id)'
                         /\ \A o \in Sessions \ {u} : ~Fresh(o, t, id)'
  BY DEF UuidInv
<1>1. /\ ~Unseen(t, id) => id \in used
      /\ \A u \in Sessions : Fresh(u, t, id) =>
           id \in used /\ Unseen(t, id) /\ \A o \in Sessions \ {u} : ~Fresh(o, t, id)
  BY DEF AccountInv, UuidInv
<1>2. used \subseteq used'
  BY DEF Does, Begun, Looked, DeleteWaits, Keeps, Fails, Listed, Removed, Added, Replaced, Sent,
         Answered, Parted
<1>3. ASSUME ~Unseen(t, id)' PROVE ~Unseen(t, id) \/ (Keeps(s) /\ Fresh(s, t, id))
  BY <1>3, SeenByCommit DEF Fresh
<1>4. ~Unseen(t, id)' => id \in used'
  BY <1>1, <1>2, <1>3
<1>5. ASSUME NEW u \in Sessions, Fresh(u, t, id)'
      PROVE  /\ id \in used' /\ Unseen(t, id)'
             /\ \A o \in Sessions \ {u} : ~Fresh(o, t, id)'
  <2>1. Fresh(u, t, id) \/ (u = s /\ id \in used' \ used)
    BY <1>5, FreshBefore
  <2>2. id \in used'
    BY <1>1, <1>2, <2>1
  <2>3. Unseen(t, id)'
    <3> SUFFICES ASSUME ~Unseen(t, id)' PROVE FALSE
      OBVIOUS
    <3>1. CASE ~Unseen(t, id)
      BY <1>1, <2>1, <3>1
    <3>2. CASE Keeps(s) /\ Fresh(s, t, id)
      <4>1. u = s
        BY <1>1, <2>1, <3>2
      <4> QED BY <1>5, <3>2, <4>1, NoneFresh
    <3> QED BY <1>3, <3>1, <3>2
  <2>4. ASSUME NEW o \in Sessions \ {u}, Fresh(o, t, id)' PROVE FALSE
    <3>1. Fresh(o, t, id) \/ (o = s /\ id \in used' \ used)
      BY <2>4, FreshBefore
    <3> QED BY <1>1, <2>1, <3>1
  <2> QED BY <2>2, <2>3, <2>4
<1> QED BY <1>4, <1>5

-----------------------------------------------------------------------------
(* A prune accounts for what it took, through its own steps                *)

LEMMA AccountsBegun ==
  ASSUME ScriptInv, ScriptInv', NEW s \in Sessions, Begun(s), Pruning(s)'
  PROVE  Accounts(s)'
<1>1. inserted'[s] = NoRows /\ deleted'[s] = NoRows /\ counted'[s] = {}
  BY DEF Begun, ScriptInv, Rests
<1>2. queue'[s] = <<>> /\ PruneScript(todo'[s]) /\ Unlisted(todo'[s])
  BY DEF Begun, PrunePart, Pruning
<1>3. Runs(s)'
  BY DEF ScriptInv, Pruning
<1>4. ~IsListed(Statement(s)')
  <2>1. 1 \in DOMAIN todo'[s] /\ Head(todo'[s]) = todo'[s][1]
    BY <1>2, <1>3, ScriptTail DEF PruneScript, Runs
  <2> QED BY <1>2, <2>1 DEF Unlisted, Statement
<1>5. \A t \in Prunable : inserted'[s][t] = {} /\ deleted'[s][t] = {}
  BY <1>1 DEF NoRows, Prunable
<1> QED BY <1>1, <1>2, <1>4, <1>5 DEF Accounts

\* The statement is behind it, and no DELETE by listed ids ahead but after
\* their SELECT.
LEMMA AccountsGoesOn ==
  ASSUME ScriptInv, AccountInv, NEW s \in Sessions, Proceeds(s), Pruning(s)'
  PROVE  /\ Pruning(s) /\ Accounts(s) /\ OfPrune(Statement(s))
         /\ Tail(todo[s]) # <<>> /\ queue'[s] = <<>> /\ PruneScript(todo'[s])
         /\ IsListed(Statement(s)') => IsPair(Statement(s), Statement(s)')
         /\ Statement(s).do = "list_ids" => IsPair(Statement(s), Statement(s)')
<1>1. Pruning(s) /\ Tail(todo[s]) # <<>>
  BY DEF Proceeds, Pruning
<1>2. Accounts(s) /\ OfPrune(Statement(s))
  BY <1>1, PruneStatement DEF AccountInv
<1>3. PruneScript(todo[s]) /\ todo[s] # <<>> /\ todo'[s] = Tail(todo[s]) /\ queue'[s] = queue[s]
  BY <1>2 DEF Accounts, Proceeds, Runs
<1> QED BY <1>1, <1>2, <1>3, PruneTail DEF Accounts, Statement

\* A statement that is no DELETE by listed ids leaves nothing pending.
LEMMA AccountsUntouched ==
  ASSUME ScriptInv, AccountInv, NEW s \in Sessions, Leaves(s), Proceeds(s), Pruning(s)',
         ~IsListed(Statement(s)), Statement(s).do # "list_ids",
         counted'[s] = counted[s], db' = db,
         \A t \in Prunable : inserted'[s][t] = inserted[s][t] /\ deleted'[s][t] = deleted[s][t]
  PROVE  Accounts(s)'
<1>1. /\ Pruning(s) /\ Accounts(s) /\ queue'[s] = <<>> /\ PruneScript(todo'[s])
      /\ ~IsListed(Statement(s)')
  BY AccountsGoesOn DEF IsPair
<1>2. ASSUME NEW t \in Prunable, NEW id, <<t, id>> \in counted'[s] PROVE Gone(s, t, id)'
  <2>1. Gone(s, t, id)
    BY <1>1, <1>2 DEF Accounts, Pending
  <2>2. \A o \in Sessions \ {s} : inserted'[o] = inserted[o]
    BY DEF Leaves
  <2> QED BY <2>1, <2>2 DEF Gone, View
<1> QED BY <1>1, <1>2 DEF Accounts

LEMMA AccountsListed ==
  ASSUME ScriptInv, AccountInv, NEW s \in Sessions, Leaves(s), NEW u, Listed(s, u), Pruning(s)'
  PROVE  Accounts(s)'
<1>1. Proceeds(s) /\ Statement(s).do = "list_ids" /\ u = Statement(s).table
  BY DEF Listed
<1>2. /\ Pruning(s) /\ Accounts(s) /\ OfPrune(Statement(s)) /\ queue'[s] = <<>>
      /\ PruneScript(todo'[s]) /\ IsPair(Statement(s), Statement(s)')
  BY <1>1, AccountsGoesOn
<1>3. IsListed(Statement(s)') /\ Statement(s)'.table = u /\ u \in Json
  BY <1>1, <1>2 DEF IsPair, OfPrune
<1>4. PICK ids : ids = {r.id : r \in View(s, u)}
  OBVIOUS
<1>5. listed'[s] = [on |-> TRUE, ids |-> ids] /\ counted'[s] = counted[s] \cup Named(u, ids)
  BY <1>4 DEF Listed
<1>6. listed'[s].on /\ \A id \in listed'[s].ids : <<Statement(s)'.table, id>> \in counted'[s]
  BY <1>3, <1>5 DEF Named
<1>7. inserted' = inserted /\ deleted' = deleted /\ db' = db
  BY DEF Listed
<1>8. ASSUME NEW t \in Prunable, NEW id, <<t, id>> \in counted'[s]
      PROVE  Pending(s, t, id)' \/ Gone(s, t, id)'
  <2>1. CASE <<t, id>> \in counted[s]
    <3>1. Gone(s, t, id)
      BY <1>1, <1>2, <2>1 DEF Accounts, Pending, IsListed
    <3> QED BY <1>7, <3>1 DEF Gone, View
  <2>2. CASE t = u /\ id \in ids
    BY <1>3, <1>5, <2>2 DEF Pending
  <2> QED BY <1>5, <1>8, <2>1, <2>2 DEF Named
<1>9. \A id : <<"audit_entries", id>> \notin counted'[s]
  BY <1>2, <1>3, <1>5 DEF Accounts, Named, Json
<1>10. \A t \in Prunable :
         inserted'[s][t] = {} /\ \A q \in deleted'[s][t] : <<t, q.id>> \in counted'[s]
  BY <1>2, <1>5, <1>7 DEF Accounts
<1> QED BY <1>2, <1>6, <1>8, <1>9, <1>10 DEF Accounts

\* A row that is not this session's, of an id it deletes.
LEMMA NoRowComes ==
  ASSUME ScriptInv, RowInv, AccountInv, NEW s \in Sessions, Pruning(s), Accounts(s),
         NEW t, Removed(s, t), t \in Prunable, NEW id, NEW o \in Sessions \ {s},
         NEW r \in inserted[o][t], r.id = id,
         Pending(s, t, id) \/ \E q \in ChosenRows(s, t) : q.id = id
  PROVE  FALSE
<1>1. Locks(t) /\ t \in Tables
  BY JsonTables DEF RowInv, LockInv
<1>2. CASE \E q \in ChosenRows(s, t) : q.id = id
  <2>1. PICK q \in ChosenRows(s, t) : q.id = id
    BY <1>2
  <2>2. q \in db[t]
    BY <2>1 DEF ChosenRows, View, Accounts
  <2>3. q \in deleted[o][t]
    BY <1>1, <2>1, <2>2 DEF Locks
  <2>4. q.id # q.id
    BY <2>1, <2>3 DEF Removed, Swaps
  <2> QED BY <2>4
<1>3. CASE Pending(s, t, id)
  <2>1. t \in Json /\ IsListed(Statement(s)) /\ Statement(s).table = t /\ id \in listed[s].ids
    BY <1>3 DEF Pending
  <2>2. listed[s].on /\ <<t, id>> \in counted[s]
    BY <2>1 DEF Accounts
  <2>3. ~Fresh(o, t, id)
    BY <2>1, <2>2 DEF AccountInv, UuidInv, Unseen
  <2>4. PICK q \in deleted[o][t] : q.id = id
    BY <2>3 DEF Fresh, Held
  <2>5. Writes(s) /\ WaitsFor(s) = {} /\ t = TableOf(Statement(s))
    BY DEF Removed, Sent, Proceeds, Writes
  <2>6. q.id \notin Targets(s, Statement(s))
    BY <2>5, NoClash
  <2>7. Targets(s, Statement(s)) = listed[s].ids
    BY <2>1, <2>2 DEF IsListed, Targets, Chosen
  <2> QED BY <2>1, <2>4, <2>6, <2>7
<1> QED BY <1>2, <1>3

LEMMA AccountsRemoved ==
  ASSUME ScriptInv, RowInv, AccountInv, NEW s \in Sessions, Leaves(s), NEW u, Removed(s, u),
         Pruning(s)'
  PROVE  Accounts(s)'
<1>1. /\ Proceeds(s) /\ Statement(s).do = "delete" /\ u = TableOf(Statement(s)) /\ db' = db
      /\ \A t \in Tables \ {u} : inserted'[s][t] = inserted[s][t] /\ deleted'[s][t] = deleted[s][t]
  BY DEF Removed, Sent
<1>2. /\ Pruning(s) /\ Accounts(s) /\ OfPrune(Statement(s)) /\ queue'[s] = <<>>
      /\ PruneScript(todo'[s]) /\ ~IsListed(Statement(s)')
  BY <1>1, AccountsGoesOn DEF IsPair
<1>3. u = Statement(s).table /\ u \in Prunable /\ (u \in Json <=> IsListed(Statement(s)))
  <2>1. u = Statement(s).table
    BY <1>1 DEF TableOf
  <2> QED BY <1>1, <1>2, <2>1 DEF OfPrune, Prunable, Json, Tables, IsListed
<1>4. PICK rows : rows = ChosenRows(s, u)
  OBVIOUS
<1>5. inserted[s][u] = {} /\ rows \subseteq db[u] /\ (\A r \in rows : r.id \in Chosen(s, u))
      /\ \A r \in db[u] : r \in rows \/ r \in deleted[s][u] \/ r.id \notin Chosen(s, u)
  BY <1>2, <1>3, <1>4 DEF Accounts, ChosenRows, View
<1>6. inserted'[s][u] = {} /\ deleted'[s][u] = deleted[s][u] \cup rows
  BY <1>4, <1>5 DEF Removed, Swaps
<1>7. counted'[s] = IF Statement(s).rowcount
                    THEN counted[s] \cup Named(u, {r.id : r \in rows}) ELSE counted[s]
  BY <1>4 DEF Removed
<1>8. \A o \in Sessions \ {s} : inserted'[o] = inserted[o]
  BY DEF Leaves
<1>9. \A r \in rows : <<u, r.id>> \in counted'[s]
  <2>1. CASE Statement(s).rowcount
    BY <1>7, <2>1 DEF Named
  <2>2. CASE ~Statement(s).rowcount
    <3>1. IsListed(Statement(s))
      BY <1>1, <2>2 DEF IsListed
    <3>2. \A r \in rows : r.id \in listed[s].ids
      BY <1>2, <1>5, <3>1 DEF Accounts, Chosen
    <3> QED BY <1>2, <1>3, <1>7, <2>2, <3>1, <3>2 DEF Accounts
  <2> QED BY <2>1, <2>2
<1>10. counted[s] \subseteq counted'[s]
  BY <1>7
<1>11. \A t \in Prunable :
         inserted'[s][t] = {} /\ \A q \in deleted'[s][t] : <<t, q.id>> \in counted'[s]
  BY <1>1, <1>2, <1>6, <1>9, <1>10 DEF Accounts, Prunable
<1>12. \A id : <<"audit_entries", id>> \notin counted'[s]
  <2>1. u # "audit_entries"
    BY <1>3 DEF Prunable
  <2>2. PICK ids : ids = {r.id : r \in rows}
    OBVIOUS
  <2>3. \A id : <<"audit_entries", id>> \notin Named(u, ids)
    BY <2>1 DEF Named
  <2> QED BY <1>2, <1>7, <2>2, <2>3 DEF Accounts
<1>13. ASSUME NEW t \in Prunable, NEW id, <<t, id>> \in counted'[s] PROVE Gone(s, t, id)'
  <2>1. CASE Gone(s, t, id)
    <3>1. inserted'[s][t] \subseteq inserted[s][t] /\ deleted[s][t] \subseteq deleted'[s][t]
      BY <1>1, <1>6 DEF Prunable
    <3> QED BY <1>1, <1>8, <2>1, <3>1 DEF Gone, View
  <2>2. CASE t = u /\ (Pending(s, u, id) \/ \E q \in rows : q.id = id)
    <3>1. \A o \in Sessions \ {s} : \A r \in inserted'[o][u] : r.id # id
      BY <1>2, <1>3, <1>4, <1>8, <2>2, NoRowComes
    <3>2. id \in Chosen(s, u)
      BY <1>2, <1>5, <2>2 DEF Accounts, Pending, Chosen
    <3>3. \A r \in View(s, u)' : r.id # id
      BY <1>1, <1>5, <1>6, <3>2 DEF View
    <3>4. u \in Json \/ \E q \in deleted'[s][u] : q.id = id
      BY <1>6, <2>2 DEF Pending
    <3> QED BY <2>2, <3>1, <3>3, <3>4 DEF Gone
  <2>3. CASE <<t, id>> \in counted[s]
    <3>1. Pending(s, t, id) => t = u
      BY <1>3 DEF Pending
    <3> QED BY <1>2, <2>1, <2>2, <2>3, <3>1 DEF Accounts
  <2>4. CASE <<t, id>> \notin counted[s]
    <3>1. t = u /\ \E q \in rows : q.id = id
      BY <1>7, <1>13, <2>4 DEF Named
    <3> QED BY <2>2, <3>1
  <2> QED BY <2>3, <2>4
<1> QED BY <1>2, <1>11, <1>12, <1>13 DEF Accounts

\* A DELETE that gets one more row: by listed ids, those it has not got yet are
\* pending; by a column, the row is counted when it is gone.
LEMMA AccountsParted ==
  ASSUME ScriptInv, RowInv, AccountInv, NEW s \in Sessions, Leaves(s), NEW u, NEW i,
         Parted(s, u, i), Pruning(s)'
  PROVE  Accounts(s)'
<1>1. /\ Statement(s).do = "delete" /\ u = TableOf(Statement(s)) /\ u \in Tables /\ db' = db
      /\ i \in Chosen(s, u) /\ todo'[s] = todo[s] /\ queue'[s] = queue[s] /\ Row(s, u, i) # {}
      /\ \A t \in Tables \ {u} : inserted'[s][t] = inserted[s][t] /\ deleted'[s][t] = deleted[s][t]
  BY DEF Parted, Deleting
<1>2. Pruning(s) /\ Accounts(s) /\ OfPrune(Statement(s))
  <2>1. Pruning(s)
    BY DEF Parted, Pruning
  <2> QED BY <2>1, PruneStatement DEF AccountInv
<1>3. u = Statement(s).table /\ u \in Prunable /\ (u \in Json <=> IsListed(Statement(s)))
  <2>1. u = Statement(s).table
    BY <1>1 DEF TableOf
  <2> QED BY <1>1, <1>2, <2>1 DEF OfPrune, Prunable, Json, Tables, IsListed
<1>4. PICK row : row = Row(s, u, i)
  OBVIOUS
<1>5. inserted[s][u] = {} /\ row \subseteq db[u] /\ row # {} /\ \A r \in row : r.id = i
  BY <1>1, <1>2, <1>3, <1>4 DEF Accounts, Row, View
<1>6. inserted'[s][u] = {} /\ deleted'[s][u] = deleted[s][u] \cup row
  BY <1>1, <1>4, <1>5 DEF Parted
<1>7. counted'[s] = IF Statement(s).rowcount THEN counted[s] \cup Named(u, {i}) ELSE counted[s]
  BY DEF Parted
<1>8. \A o \in Sessions \ {s} : inserted'[o] = inserted[o]
  BY DEF Leaves
<1>9. listed'[s] = [on |-> TRUE, ids |-> Chosen(s, u)] /\ Statement(s)' = Statement(s)
  BY <1>1 DEF Parted, Statement
<1>10. IsListed(Statement(s)) => Chosen(s, u) = listed[s].ids
  BY <1>2 DEF Accounts, Chosen
<1>11. counted[s] \subseteq counted'[s] /\ <<u, i>> \in counted'[s]
  <2>1. CASE Statement(s).rowcount
    BY <1>7, <2>1 DEF Named
  <2>2. CASE ~Statement(s).rowcount
    <3>1. IsListed(Statement(s)) /\ i \in listed[s].ids
      BY <1>1, <1>10, <2>2 DEF IsListed
    <3> QED BY <1>2, <1>3, <1>7, <2>2, <3>1 DEF Accounts
  <2> QED BY <2>1, <2>2
<1>12. \A t \in Prunable :
         inserted'[s][t] = {} /\ \A q \in deleted'[s][t] : <<t, q.id>> \in counted'[s]
  BY <1>1, <1>2, <1>5, <1>6, <1>11 DEF Accounts, Prunable
<1>13. \A id : <<"audit_entries", id>> \notin counted'[s]
  <2>1. u # "audit_entries"
    BY <1>3 DEF Prunable
  <2>2. \A id : <<"audit_entries", id>> \notin Named(u, {i})
    BY <2>1 DEF Named
  <2> QED BY <1>2, <1>7, <2>2 DEF Accounts
<1>14. IsListed(Statement(s)') =>
         listed'[s].on /\ \A id \in listed'[s].ids : <<Statement(s)'.table, id>> \in counted'[s]
  <2> SUFFICES ASSUME IsListed(Statement(s))
               PROVE  listed'[s].on /\ \A id \in listed'[s].ids : <<Statement(s).table, id>> \in counted'[s]
    BY <1>9
  <2>1. \A id \in listed[s].ids : <<Statement(s).table, id>> \in counted[s]
    BY <1>2 DEF Accounts
  <2> QED BY <1>9, <1>10, <1>11, <2>1
<1>15. ASSUME NEW t \in Prunable, NEW id, <<t, id>> \in counted'[s]
       PROVE  Pending(s, t, id)' \/ Gone(s, t, id)'
  <2>1. CASE Gone(s, t, id)
    <3>1. inserted'[s][t] \subseteq inserted[s][t] /\ deleted[s][t] \subseteq deleted'[s][t]
      BY <1>1, <1>6 DEF Prunable
    <3> QED BY <1>1, <1>8, <2>1, <3>1 DEF Gone, View
  <2>2. CASE Pending(s, t, id)
    <3>1. t \in Json /\ IsListed(Statement(s)) /\ Statement(s).table = t /\ id \in listed[s].ids
      BY <2>2 DEF Pending
    <3>2. t = u
      BY <1>3, <3>1
    <3>3. id \in listed'[s].ids
      BY <1>9, <1>10, <3>1
    <3> QED BY <1>9, <3>1, <3>3 DEF Pending
  <2>3. CASE <<t, id>> \in counted[s]
    BY <1>2, <2>1, <2>2, <2>3 DEF Accounts
  <2>4. CASE <<t, id>> \notin counted[s]
    <3>1. t = u /\ id = i
      BY <1>7, <1>15, <2>4 DEF Named
    <3>2. \A r \in View(s, u)' : r.id # i
      BY <1>1, <1>4, <1>6 DEF View, Row
    <3>3. ASSUME NEW o \in Sessions \ {s}, NEW r \in inserted'[o][u], r.id = i PROVE FALSE
      <4>1. PICK q \in row : q \in db[u] /\ q.id = i
        BY <1>5
      <4>2. r \in inserted[o][u] /\ Locks(u)
        BY <1>1, <1>8, <3>3 DEF RowInv, LockInv
      <4>3. q \in deleted[o][u]
        BY <3>3, <4>1, <4>2 DEF Locks
      <4> QED BY <4>1, <4>3 DEF Parted, IsHeld
    <3>4. \E q \in deleted'[s][u] : q.id = i
      BY <1>5, <1>6
    <3> QED BY <3>1, <3>2, <3>3, <3>4 DEF Gone
  <2> QED BY <2>3, <2>4
<1> QED BY <1>1, <1>2, <1>12, <1>13, <1>14, <1>15 DEF Accounts

LEMMA AccountsOwn ==
  ASSUME ScriptInv, ScriptInv', RowInv, AccountInv, NEW s \in Sessions, Does(s), Leaves(s), Pruning(s)'
  PROVE  Accounts(s)'
<1>1. CASE Begun(s)
  BY <1>1, AccountsBegun
<1>2. CASE Keeps(s) \/ Fails(s) \/ \E e : Answered(s, e)
  <2>1. Runs(s) /\ (Keeps(s) \/ Fails(s) \/ Statement(s).do = "look_up")
    BY <1>2 DEF Keeps, Fails, Answered
  <2>2. Pruning(s)
    BY <1>2 DEF Keeps, Fails, Answered, Continues, Pruning
  <2>3. queue[s] = <<>> /\ OfPrune(Statement(s))
    BY <2>2, PruneStatement DEF AccountInv, Accounts
  <2>4. Statement(s).do # "look_up"
    BY <2>3 DEF OfPrune
  <2> QED BY <2>1, <2>3, <2>4 DEF Keeps, Fails, Continues, Pruning
<1>3. CASE DeleteWaits(s)
  <2>1. Pruning(s) /\ Accounts(s) /\ ~listed[s].on
    BY <1>3 DEF DeleteWaits, Pruning, AccountInv
  <2>2. ~IsListed(Statement(s))
    BY <2>1 DEF Accounts
  <2>3. UNCHANGED <<db, inserted, deleted, counted, todo, queue>>
    BY <1>3 DEF DeleteWaits
  <2>4. ~IsListed(Statement(s)')
    BY <2>2, <2>3 DEF Statement
  <2>5. \A t \in Prunable : \A id : <<t, id>> \in counted'[s] => Gone(s, t, id)'
    BY <2>1, <2>2, <2>3 DEF Accounts, Pending, Gone, View
  <2> QED BY <2>1, <2>3, <2>4, <2>5 DEF Accounts
<1>4. CASE Looked(s)
  <2>1. Proceeds(s) /\ Statement(s).do \in Reading \ {"list_ids"}
        /\ UNCHANGED <<db, inserted, deleted>>
        /\ (counted'[s] = counted[s] \/ Statement(s).do = "count")
    BY <1>4 DEF Looked
  <2>2. OfPrune(Statement(s))
    BY <2>1, AccountsGoesOn
  <2>3. counted'[s] = counted[s] /\ ~IsListed(Statement(s)) /\ Statement(s).do # "list_ids"
    BY <2>1, <2>2 DEF OfPrune, IsListed, Reading
  <2> QED BY <2>1, <2>3, AccountsUntouched
<1>5. CASE \E u : Listed(s, u)
  BY <1>5, AccountsListed
<1>6. CASE \E u : Removed(s, u)
  BY <1>6, AccountsRemoved
<1>7. CASE \E u, news : Added(s, u, news)
  <2>1. PICK u, news : Added(s, u, news)
    BY <1>7
  <2>2. Proceeds(s) /\ Statement(s).do \in Inserting /\ counted'[s] = counted[s] /\ db' = db
        /\ u = TableOf(Statement(s))
    BY <2>1 DEF Added, Sent
  <2>3. OfPrune(Statement(s))
    BY <2>2, AccountsGoesOn
  <2>4. Statement(s).do = "insert_entry"
    BY <2>2, <2>3 DEF OfPrune, Inserting
  <2>5. u = "audit_entries" /\ ~IsListed(Statement(s)) /\ Statement(s).do # "list_ids"
    BY <2>2, <2>4 DEF TableOf, IsListed
  <2>6. \A t \in Prunable : inserted'[s][t] = inserted[s][t] /\ deleted'[s][t] = deleted[s][t]
    BY <2>1, <2>5 DEF Added, Sent, Prunable
  <2> QED BY <2>2, <2>5, <2>6, AccountsUntouched
<1>8. CASE \E u, olds, news : Replaced(s, u, olds, news)
  <2>1. Proceeds(s) /\ Statement(s).do \in Replacing \ {"delete"}
    BY <1>8 DEF Replaced, Sent
  <2>2. OfPrune(Statement(s))
    BY <2>1, AccountsGoesOn
  <2> QED BY <2>1, <2>2 DEF OfPrune, Replacing
<1>9. CASE \E u, i : Parted(s, u, i)
  BY <1>9, AccountsParted
<1> QED BY <1>1, <1>2, <1>3, <1>4, <1>5, <1>6, <1>7, <1>8, <1>9 DEF Does

-----------------------------------------------------------------------------
(* and those of the others.                                                *)

LEMMA GoneStays ==
  ASSUME ScriptInv, RowInv, AccountInv, NEW u \in Sessions, Does(u), Leaves(u),
         NEW s \in Sessions \ {u}, Pruning(s), NEW t \in Prunable, NEW id,
         <<t, id>> \in counted[s], inserted[s][t] = {}, Gone(s, t, id)
  PROVE  Gone(s, t, id)'
<1>1. t \in Tables /\ OnTable(u, t) /\ OthersStay(u, t) /\ Locks(t)
  BY JsonTables, TableByTable DEF RowInv, LockInv
<1>2. /\ \A o \in Sessions \ {u} : inserted'[o][t] = inserted[o][t]
      /\ deleted'[s][t] = deleted[s][t] /\ inserted'[s][t] = {}
  BY <1>1 DEF OthersStay
<1>3. /\ \A r \in db[t] : r.id = id => r \in deleted[s][t]
      /\ \A o \in Sessions : \A r \in inserted[o][t] : r.id # id
      /\ t \in Json \/ \E q \in deleted[s][t] : q.id = id
  BY DEF Gone, View
<1>4. ASSUME db'[t] = db[t], \A r \in inserted'[u][t] : r.id # id PROVE Gone(s, t, id)'
  BY <1>2, <1>3, <1>4 DEF Gone, View
<1>5. CASE Idles(t)
  BY <1>3, <1>4, <1>5 DEF Idles
<1>6. ASSUME NEW news, Added(u, t, news), db'[t] = db[t] PROVE Gone(s, t, id)'
  <2>1. ASSUME NEW r \in news, r.id = id PROVE FALSE
    <3>1. CASE \E q \in deleted[s][t] : q.id = id
      BY <1>6, <2>1, <3>1 DEF Added, Adds
    <3>2. CASE t \in Json
      <4>1. r \in Inserts(u, Statement(u)) /\ Runs(u) /\ t = TableOf(Statement(u))
            /\ Statement(u).do \in Inserting
        BY <1>6, <2>1 DEF Added, Sent, Proceeds
      <4>2. Statement(u).do # "insert_entry"
        BY <3>2, <4>1 DEF TableOf, Json
      <4>3. Creates(Statement(u)) /\ Statement(u).row = r /\ Statement(u).table = t
        BY <4>1, <4>2 DEF Inserting, Creates, Inserts, TableOf
      <4>4. 1 \in DOMAIN todo[u] /\ Statement(u) = todo[u][1]
        BY <4>1, FirstStatement
      <4>5. Fresh(u, t, id)
        BY <2>1, <4>3, <4>4 DEF Fresh, ToInsert
      <4> QED BY <3>2, <4>5 DEF AccountInv, UuidInv, Unseen
    <3> QED BY <1>3, <3>1, <3>2
  <2>2. inserted'[u][t] = inserted[u][t] \cup news
    BY <1>6 DEF Added, Adds
  <2> QED BY <1>3, <1>4, <1>6, <2>1, <2>2
<1>7. ASSUME NEW olds, NEW news, Swaps(u, t, olds, news), db'[t] = db[t] PROVE Gone(s, t, id)'
  <2>1. ASSUME NEW r \in news, r.id = id PROVE FALSE
    <3>1. PICK q \in olds : q.id = id
      BY <1>7, <2>1 DEF Swaps
    <3>2. q \in db[t]
      BY <1>3, <1>7, <3>1 DEF Swaps, View
    <3>3. q \in deleted[s][t]
      BY <1>3, <3>1, <3>2
    <3>4. q.id # q.id
      BY <1>7, <3>1, <3>3 DEF Swaps
    <3> QED BY <3>4
  <2> QED BY <1>3, <1>4, <1>7, <2>1 DEF Swaps
<1>8. CASE \E olds, news : Replaced(u, t, olds, news) /\ db'[t] = db[t]
  BY <1>7, <1>8 DEF Replaced
<1>9. CASE Removed(u, t) /\ db'[t] = db[t]
  <2>1. PICK olds, none : Swaps(u, t, olds, none)
    BY <1>9 DEF Removed
  <2> QED BY <1>7, <1>9, <2>1
<1>10. CASE Closes(u, t)
  <2>1. inserted'[u][t] = {} /\ db'[t] \subseteq db[t] \cup inserted[u][t]
    BY <1>10 DEF Closes, View
  <2>2. \A r \in db'[t] : r.id = id => r \in deleted[s][t]
    BY <1>3, <2>1
  <2> QED BY <1>2, <1>3, <2>1, <2>2 DEF Gone, View
<1>11. CASE \E i : Parted(u, t, i) /\ db'[t] = db[t]
  <2>1. PICK olds, none : Swaps(u, t, olds, none)
    BY <1>11, PartedSwaps
  <2> QED BY <1>7, <1>11, <2>1
<1> QED BY <1>1, <1>5, <1>6, <1>8, <1>9, <1>10, <1>11 DEF OnTable

LEMMA AccountsStay ==
  ASSUME ScriptInv, RowInv, AccountInv, NEW u \in Sessions, Does(u), Leaves(u),
         NEW s \in Sessions \ {u}, Pruning(s)'
  PROVE  Accounts(s)'
<1>1. /\ inserted'[s] = inserted[s] /\ deleted'[s] = deleted[s] /\ counted'[s] = counted[s]
      /\ listed'[s] = listed[s] /\ call'[s] = call[s] /\ todo'[s] = todo[s] /\ queue'[s] = queue[s]
  BY DEF Leaves
<1>2. Pruning(s) /\ Accounts(s) /\ Statement(s)' = Statement(s)
  BY <1>1 DEF Pruning, AccountInv, Statement
<1>3. ASSUME NEW t \in Prunable, NEW id, <<t, id>> \in counted'[s]
      PROVE  Pending(s, t, id)' \/ Gone(s, t, id)'
  <2>1. CASE Pending(s, t, id)
    BY <1>1, <1>2, <2>1 DEF Pending
  <2>2. CASE Gone(s, t, id)
    BY <1>1, <1>2, <1>3, <2>2, GoneStays DEF Accounts
  <2> QED BY <1>1, <1>2, <1>3, <2>1, <2>2 DEF Accounts
<1> QED BY <1>1, <1>2, <1>3 DEF Accounts

-----------------------------------------------------------------------------

LEMMA InitAccounts == ASSUME Init PROVE AccountInv
<1>1. ASSUME NEW t \in Json, NEW id
      PROVE  Unseen(t, id) /\ \A s \in Sessions : ~Fresh(s, t, id)
  <2>1. db[t] = {}
    BY DEF Init, NoRows, Json, Tables
  <2>2. \A s \in Sessions : ~Pruning(s) /\ inserted[s][t] = {} /\ todo[s] = <<>>
    BY JsonTables DEF Init, NoRows, Pruning
  <2> QED BY <2>1, <2>2 DEF Unseen, Fresh, ToInsert, Held
<1>2. \A s \in Sessions : ~Pruning(s)
  BY DEF Init, Pruning
<1> QED BY <1>1, <1>2 DEF AccountInv, UuidInv

LEMMA StepAccounts ==
  ASSUME ScriptInv, ScriptInv', RowInv, AccountInv, [Next]_vars
  PROVE  AccountInv'
<1>1. CASE Next
  <2>1. PICK s \in Sessions : Does(s) /\ Leaves(s)
    BY <1>1, Doing DEF RowInv
  <2>2. UuidInv'
    BY <2>1, UuidsKept
  <2>3. ASSUME NEW o \in Sessions, Pruning(o)' PROVE Accounts(o)'
    BY <2>1, <2>3, AccountsOwn, AccountsStay
  <2> QED BY <2>2, <2>3 DEF AccountInv
<1>2. CASE UNCHANGED vars
  <2>1. UNCHANGED <<db, inserted, deleted, listed, counted, call, todo, queue, used>>
    BY <1>2 DEF vars, transaction
  <2>2. UuidInv'
    BY <2>1 DEF AccountInv, UuidInv, Unseen, Fresh, ToInsert, Held, Pruning
  <2>3. ASSUME NEW s \in Sessions, Pruning(s)' PROVE Accounts(s)'
    <3>1. Accounts(s)
      BY <2>1, <2>3 DEF Pruning, AccountInv
    <3>2. \A t, id : (Pending(s, t, id) => Pending(s, t, id)') /\ (Gone(s, t, id) => Gone(s, t, id)')
      BY <2>1 DEF Pending, Gone, View, Statement
    <3> QED BY <2>1, <3>1, <3>2 DEF Accounts, Statement
  <2> QED BY <2>2, <2>3 DEF AccountInv
<1> QED BY <1>1, <1>2

\* What a prune has deleted is counted, and what it has counted is about to be
\* deleted or gone; a uuid is inserted once.
THEOREM CountsAreOfTheGone == Spec => []AccountInv
<1>1. Init => ScriptInv /\ RowInv /\ AccountInv
  BY InitScript, InitRows, InitAccounts
<1>2. ScriptInv /\ RowInv /\ AccountInv /\ [Next]_vars => (ScriptInv /\ RowInv /\ AccountInv)'
  BY StepScript, StepRows, StepAccounts
<1> QED BY <1>1, <1>2, PTL DEF Spec

PruneCommits(s) ==
  call[s] = "prune_retention" /\ db' # db /\ todo'[s] = <<>> /\ Runs(s) =>
    LET taken(t) == {r.id : r \in db[t]} \ {r.id : r \in db'[t]} IN
    /\ \A t \in Tables \ {"audit_entries"} : Named(t, taken(t)) \subseteq counted[s]
    /\ \A t \in Tables : \A r \in db'[t] : <<t, r.id>> \notin counted[s]

LEMMA CommitAccounts ==
  ASSUME ScriptInv, RowInv, AccountInv, Next, NEW s \in Sessions
  PROVE  PruneCommits(s)
<1> SUFFICES ASSUME Pruning(s), db' # db, todo'[s] = <<>>, Runs(s)
             PROVE  /\ \A t \in Tables \ {"audit_entries"} :
                         Named(t, {r.id : r \in db[t]} \ {r.id : r \in db'[t]}) \subseteq counted[s]
                    /\ \A t \in Tables : \A r \in db'[t] : <<t, r.id>> \notin counted[s]
  BY DEF PruneCommits, Pruning
<1>1. PICK u \in Sessions : Does(u) /\ Leaves(u)
  BY Doing DEF RowInv
<1>2. u = s
  BY <1>1 DEF Leaves, Runs
<1>3. Keeps(s)
  BY <1>1, <1>2 DEF Does, Begun, Looked, DeleteWaits, Fails, Listed, Removed, Added, Replaced,
                    Sent, Answered, Parted
<1>4. Accounts(s) /\ Statement(s).do = "commit" /\ \A t \in Tables : db'[t] = View(s, t)
  BY <1>3 DEF AccountInv, Keeps
<1>5. ASSUME NEW t \in Tables \ {"audit_entries"},
             NEW id \in {r.id : r \in db[t]} \ {r.id : r \in db'[t]}
      PROVE  <<t, id>> \in counted[s]
  <2>1. PICK r \in db[t] : r.id = id
    OBVIOUS
  <2>2. r \notin View(s, t)
    BY <1>4, <2>1
  <2>3. r \in deleted[s][t]
    BY <2>1, <2>2 DEF View
  <2> QED BY <1>4, <2>1, <2>3 DEF Accounts, Prunable
<1>6. ASSUME NEW t \in Tables, NEW r \in db'[t], <<t, r.id>> \in counted[s] PROVE FALSE
  <2>1. t \in Prunable
    BY <1>4, <1>6 DEF Accounts, Prunable
  <2>2. PICK id : id = r.id
    OBVIOUS
  <2>3. Gone(s, t, id)
    BY <1>4, <1>6, <2>1, <2>2 DEF Accounts, Pending, IsListed
  <2> QED BY <1>4, <1>6, <2>2, <2>3 DEF Gone
<1> QED BY <1>5, <1>6 DEF Named

\* The audit entry of a prune accounts for it: every row it deleted is
\* counted, and no counted row is left when it commits.
THEOREM PrunesAreAccounted == Spec => PruneIsAccounted
<1> DEFINE AllAccount == \A s \in Sessions : PruneCommits(s)
<1>1. Init => ScriptInv /\ RowInv /\ AccountInv
  BY InitScript, InitRows, InitAccounts
<1>2. ScriptInv /\ RowInv /\ AccountInv /\ [Next]_vars =>
        (ScriptInv /\ RowInv /\ AccountInv)' /\ [AllAccount]_vars
  BY StepScript, StepRows, StepAccounts, CommitAccounts
<1>3. [AllAccount]_vars => [\A s \in Sessions :
         call[s] = "prune_retention" /\ db' # db /\ todo'[s] = <<>> /\ Runs(s) =>
           LET taken(t) == {r.id : r \in db[t]} \ {r.id : r \in db'[t]} IN
           /\ \A t \in Tables \ {"audit_entries"} : Named(t, taken(t)) \subseteq counted[s]
           /\ \A t \in Tables : \A r \in db'[t] : <<t, r.id>> \notin counted[s]]_vars
  BY DEF PruneCommits
<1> QED BY <1>1, <1>2, <1>3, PTL DEF Spec, PruneIsAccounted

-----------------------------------------------------------------------------
(* What a transaction writes together.                                     *)

Shaped ==
  \A t \in Tables :
    /\ \A r \in db[t] : IsRow(t, r)
    /\ \A s \in Sessions : \A r \in inserted[s][t] : IsRow(t, r)

\* An entry is in the log, or the transaction has written it or will.
Entered(s, action, target) ==
  \/ Audited(action, target)
  \/ \E a \in inserted[s]["audit_entries"] : a.action = action /\ a.target = target
  \/ \E n \in DOMAIN todo[s] : IsEntry(todo[s][n], action, target)

HasMessage(s, r) ==
  \/ <<"outbox_messages", r.id>> \in pruned
  \/ \E m \in View(s, "outbox_messages") : m.id = r.id
  \/ \E n \in DOMAIN todo[s] : IsMessage(todo[s][n], r.event)

HasEvent(s, m) ==
  \/ <<"events", m.id>> \in pruned
  \/ \E r \in View(s, "events") : r.event = m.event

Registers(s) ==
  \A t \in DOMAIN Creation : \A r \in inserted[s][t] : Entered(s, Creation[t], Subject(t, r))

Matches(s) ==
  /\ \A r \in inserted[s]["events"] : HasMessage(s, r)
  /\ \A m \in inserted[s]["outbox_messages"] : HasEvent(s, m)

\* A message is enqueued after its event.
Follows(s) ==
  Enqueues(Statement(s)) => \E r \in inserted[s]["events"] : r.event = Statement(s).row.event

\* Only a prune deletes a row for good.
Kept(s) == \A t \in Tables : \A q \in deleted[s][t] : \E r \in inserted[s][t] : Same(r, q)

Replenishes(s) == Pruning(s) \/ (Spares(todo[s]) /\ Kept(s))

Length == Cardinality(db["audit_entries"])

Numbered ==
  IsFiniteSet(db["audit_entries"]) /\ {a.id : a \in db["audit_entries"]} = 1 .. Length

IsNext(S) == \E a \in S : S = {a} /\ a.id = Length + 1

\* A transaction writes one entry, which comes next in the log.
OneEntry(s) ==
  /\ deleted[s]["audit_entries"] = {}
  /\ \/ inserted[s]["audit_entries"] = {}
     \/ /\ IsNext(inserted[s]["audit_entries"])
        /\ \A n \in DOMAIN todo[s] : todo[s][n].do # "insert_entry"
  /\ Statement(s).do = "insert_entry" => sight[s] \in 0 .. Length

Books(s) ==
  Booked(todo[s]) /\ Registers(s) /\ Matches(s) /\ Follows(s) /\ Replenishes(s) /\ OneEntry(s)

\* The first transaction of a reset leaves nothing.
Clears(s) ==
  /\ call[s] = "reset_demo_data"
  /\ listed[s].on => \A r \in View(s, Statement(s).table) : r.id \in listed[s].ids
  /\ \A t \in Tables : inserted[s][t] = {}
  /\ \A n \in DOMAIN todo[s] : todo[s][n].do \in {"delete", "commit"}
  /\ \A t \in Tables :
       View(s, t) = {} \/ \E n \in DOMAIN todo[s] : todo[s][n].do = "delete" /\ todo[s][n].table = t

Alone(s) == call[s] = "reset_demo_data" => \A o \in Sessions \ {s} : ~Runs(o)

Told(s) == Alone(s) /\ (Runs(s) => Clears(s) \/ Books(s))

TogetherInv ==
  Shaped /\ (~overlapped => CommittedTogether /\ Numbered /\ \A s \in Sessions : Told(s))

\* Every row has the shape of its table's.
LEMMA ShapedKept ==
  ASSUME ScriptInv, RowInv, Shaped, NEW s \in Sessions, Does(s), Leaves(s)
  PROVE  Shaped'
<1> SUFFICES ASSUME NEW t \in Tables
             PROVE  /\ \A r \in db'[t] : IsRow(t, r)
                    /\ \A u \in Sessions : \A r \in inserted'[u][t] : IsRow(t, r)
  BY DEF Shaped
<1>1. OnTable(s, t) /\ OthersStay(s, t)
  BY TableByTable
<1>2. /\ \A r \in db[t] : IsRow(t, r)
      /\ \A u \in Sessions : \A r \in inserted[u][t] : IsRow(t, r)
  BY DEF Shaped
<1>3. \A u \in Sessions \ {s} : \A r \in inserted'[u][t] : IsRow(t, r)
  BY <1>1, <1>2 DEF OthersStay
<1>4. CASE Idles(t)
  BY <1>2, <1>4 DEF Idles
<1>5. ASSUME NEW news, Added(s, t, news), db'[t] = db[t]
      PROVE  (\A r \in db'[t] : IsRow(t, r)) /\ (\A r \in inserted'[s][t] : IsRow(t, r))
  <2>1. /\ inserted'[s][t] = inserted[s][t] \cup news /\ Runs(s)
        /\ t = TableOf(Statement(s)) /\ Statement(s).do \in Inserting
        /\ news \subseteq Inserts(s, Statement(s)) /\ \A r \in news : "id" \in DOMAIN r
    BY <1>5 DEF Added, Adds, Sent, Proceeds
  <2>2. CASE Creates(Statement(s))
    <3>1. \A r \in news : r = Statement(s).row
      BY <2>1, <2>2 DEF Inserts, Creates
    <3>2. t = Statement(s).table
      BY <2>1, <2>2 DEF TableOf, Creates
    <3>3. 1 \in DOMAIN todo[s] /\ Statement(s) = todo[s][1]
      BY <2>1, FirstStatement
    <3>4. IsRow(Statement(s).table, Statement(s).row)
      BY <2>1, <2>2, <3>3 DEF RowInv, GivenInv, Gives, GivesOne
    <3> QED BY <1>2, <1>5, <2>1, <3>1, <3>2, <3>4
  <2>3. CASE ~Creates(Statement(s))
    <3>1. t = "audit_entries"
      BY <2>1, <2>3 DEF TableOf, Creates, Inserting
    <3>2. \A r \in news : IsRow(t, r)
      BY <2>1, <3>1 DEF IsRow
    <3> QED BY <1>2, <1>5, <2>1, <3>2
  <2> QED BY <2>2, <2>3
<1>6. ASSUME NEW olds, NEW news, Replaced(s, t, olds, news), db'[t] = db[t]
      PROVE  (\A r \in db'[t] : IsRow(t, r)) /\ (\A r \in inserted'[s][t] : IsRow(t, r))
  <2>1. /\ inserted'[s][t] = (inserted[s][t] \ olds) \cup news /\ olds \subseteq View(s, t)
        /\ \A r \in news : \E q \in olds : Same(r, q)
    BY <1>6 DEF Replaced, Swaps, Copies
  <2>2. \A q \in olds : IsRow(t, q)
    BY <1>2, <2>1 DEF View
  <2>3. \A r \in news : IsRow(t, r)
    BY <2>1, <2>2 DEF Same, IsRow
  <2> QED BY <1>2, <1>6, <2>1, <2>3
<1>7. CASE Removed(s, t) /\ db'[t] = db[t]
  <2>1. inserted'[s][t] \subseteq inserted[s][t]
    BY <1>7 DEF Removed, Swaps
  <2> QED BY <1>2, <1>3, <1>7, <2>1
<1>8. CASE Closes(s, t)
  <2>1. inserted'[s][t] = {} /\ db'[t] \in {db[t], View(s, t)}
    BY <1>8 DEF Closes
  <2> QED BY <1>2, <1>3, <2>1 DEF View
<1>9. ASSUME NEW id, Parted(s, t, id), db'[t] = db[t]
      PROVE  (\A r \in db'[t] : IsRow(t, r)) /\ (\A r \in inserted'[s][t] : IsRow(t, r))
  BY <1>2, <1>9 DEF Parted
<1> QED BY <1>1, <1>3, <1>4, <1>5, <1>6, <1>7, <1>8, <1>9 DEF OnTable

\* A call that goes on keeps its name.
LEMMA CallGoesOn ==
  ASSUME NEW s \in Sessions, Does(s), ~Begun(s)
  PROVE  /\ Runs(s) /\ call'[s] \in {call[s], "none"} /\ overlapped' = overlapped
         /\ Keeps(s) \/ (db' = db /\ pruned' = pruned)
<1>1. CASE Looked(s) \/ (\E t : Listed(s, t) \/ Removed(s, t)) \/ (\E t, news : Added(s, t, news))
           \/ (\E t, olds, news : Replaced(s, t, olds, news))
  BY <1>1 DEF Looked, Listed, Removed, Added, Replaced, Sent, Proceeds
<1>2. CASE DeleteWaits(s) \/ \E t, id : Parted(s, t, id)
  BY <1>2 DEF DeleteWaits, Parted, Deleting, Writes, ghosts
<1>3. CASE Fails(s)
  BY <1>3 DEF Fails
<1>4. CASE Keeps(s)
  BY <1>4 DEF Keeps, Continues
<1>5. CASE \E e : Answered(s, e)
  BY <1>5 DEF Answered, Continues
<1> QED BY <1>1, <1>2, <1>3, <1>4, <1>5 DEF Does

\* Without an overlap no other call runs beside a reset.
LEMMA AloneKept ==
  ASSUME ScriptInv, NEW s \in Sessions, Does(s), Leaves(s), ~overlapped',
         \A u \in Sessions : Alone(u)
  PROVE  ~overlapped /\ \A u \in Sessions : Alone(u)'
<1>1. \A o \in Sessions \ {s} : todo'[o] = todo[o] /\ call'[o] = call[o]
  BY DEF Leaves
<1>2. CASE Begun(s)
  <2>1. ~overlapped
        /\ \A o \in Sessions \ {s} : Runs(o) => "reset_demo_data" \notin {call'[s], call[o]}
    BY <1>2 DEF Begun
  <2>2. \A o \in Sessions : ~Runs(o) => call[o] = "none"
    BY DEF ScriptInv
  <2>3. Alone(s)'
    BY <1>1, <2>1 DEF Alone, Runs
  <2>4. ASSUME NEW o \in Sessions \ {s} PROVE Alone(o)'
    <3>1. call'[o] # "reset_demo_data"
      BY <1>1, <2>1, <2>2
    <3> QED BY <3>1 DEF Alone
  <2> QED BY <2>1, <2>3, <2>4
<1>3. CASE ~Begun(s)
  <2>1. Runs(s) /\ call'[s] \in {call[s], "none"} /\ overlapped' = overlapped
    BY <1>3, CallGoesOn
  <2>2. ASSUME NEW u \in Sessions, call'[u] = "reset_demo_data", NEW o \in Sessions \ {u}
        PROVE  ~Runs(o)'
    <3>1. call[u] = "reset_demo_data"
      BY <1>1, <2>1, <2>2
    <3>2. \A p \in Sessions \ {u} : ~Runs(p)
      BY <3>1 DEF Alone
    <3>3. u = s
      BY <2>1, <3>2
    <3> QED BY <1>1, <3>2, <3>3 DEF Runs
  <2> QED BY <2>1, <2>2 DEF Alone
<1> QED BY <1>2, <1>3

-----------------------------------------------------------------------------
(* The transaction of the session that steps.                              *)

\* What is left of the script after a statement.
Leftover(s) ==
  /\ Booked(todo'[s]) /\ call'[s] = call[s] /\ (Spares(todo[s]) => Spares(todo'[s]))
  /\ \A action, target : (\E n \in DOMAIN todo[s] : IsEntry(todo[s][n], action, target)) =>
       \/ IsEntry(Statement(s), action, target)
       \/ \E n \in DOMAIN todo'[s] : IsEntry(todo'[s][n], action, target)
  /\ \A e : (\E n \in DOMAIN todo[s] : IsMessage(todo[s][n], e)) =>
       IsMessage(Statement(s), e) \/ \E n \in DOMAIN todo'[s] : IsMessage(todo'[s][n], e)
  /\ Enqueues(Head(todo'[s])) => InsertsEvent(Statement(s), Head(todo'[s]).row.event)
  /\ Head(todo'[s]).do = "insert_entry" => Statement(s).do = "read_tail"
  /\ (\A n \in DOMAIN todo[s] : todo[s][n].do # "insert_entry") =>
       \A n \in DOMAIN todo'[s] : todo'[s][n].do # "insert_entry"

LEMMA LeftOver ==
  ASSUME ScriptInv, NEW s \in Sessions, Booked(todo[s]), Proceeds(s), Runs(s)'
  PROVE  Leftover(s) /\ 1 \in DOMAIN todo[s] /\ Statement(s) = todo[s][1]
<1>1. PICK q : q = todo[s]
  OBVIOUS
<1>2. Booked(q) /\ q # <<>> /\ todo'[s] = Tail(q) /\ Tail(q) # <<>> /\ call'[s] = call[s]
  BY <1>1 DEF Proceeds, Runs
<1>3. 1 \in DOMAIN q /\ Statement(s) = q[1] /\ Statement(s) = Head(q)
  BY <1>1, FirstStatement DEF Proceeds, Statement
<1>4. /\ Booked(Tail(q)) /\ (Spares(q) => Spares(Tail(q)))
      /\ \A n \in DOMAIN q : n = 1 \/ \E k \in DOMAIN Tail(q) : Tail(q)[k] = q[n]
      /\ \A n \in DOMAIN Tail(q) : \E k \in DOMAIN q : Tail(q)[n] = q[k]
      /\ Enqueues(Head(Tail(q))) => InsertsEvent(Head(q), Head(Tail(q)).row.event)
      /\ Head(Tail(q)).do = "insert_entry" => Head(q).do = "read_tail"
  BY <1>2, BookedTail
<1>5. ASSUME NEW action, NEW target, NEW n \in DOMAIN q, IsEntry(q[n], action, target)
      PROVE  \/ IsEntry(Statement(s), action, target)
             \/ \E k \in DOMAIN Tail(q) : IsEntry(Tail(q)[k], action, target)
  BY <1>3, <1>4, <1>5
<1>6. ASSUME NEW e, NEW n \in DOMAIN q, IsMessage(q[n], e)
      PROVE  IsMessage(Statement(s), e) \/ \E k \in DOMAIN Tail(q) : IsMessage(Tail(q)[k], e)
  BY <1>3, <1>4, <1>6
<1>7. (\A n \in DOMAIN q : q[n].do # "insert_entry") =>
        \A n \in DOMAIN Tail(q) : Tail(q)[n].do # "insert_entry"
  BY <1>4
<1> QED BY <1>1, <1>2, <1>3, <1>4, <1>5, <1>6, <1>7 DEF Leftover

\* A transaction that has only begun.
LEMMA WholeBooks ==
  ASSUME NEW s \in Sessions, Runs(s)', inserted'[s] = NoRows, deleted'[s] = NoRows,
         Whole(todo'[s]), Pruning(s)' \/ Spares(todo'[s])
  PROVE  Books(s)'
<1>1. \A t \in Tables : inserted'[s][t] = {} /\ deleted'[s][t] = {}
  BY DEF NoRows
<1>2. "audit_entries" \in Tables /\ "events" \in Tables /\ "outbox_messages" \in Tables
      /\ DOMAIN Creation \subseteq Tables
  BY DEF Tables, Creation
<1>3. Booked(todo'[s]) /\ IsScript(todo'[s]) /\ todo'[s] # <<>> /\ Opens(todo'[s])
  BY DEF Whole, Booked, Runs
<1>4. PICK x : x = Head(todo'[s])
  OBVIOUS
<1>5. 1 \in DOMAIN todo'[s] /\ x = todo'[s][1]
  BY <1>3, <1>4, ScriptTail
<1>6. ~Enqueues(x) /\ x.do # "insert_entry"
  BY <1>3, <1>5 DEF Opens
<1>7. Registers(s)' /\ Matches(s)'
  BY <1>1, <1>2 DEF Registers, Matches
<1>8. Follows(s)' /\ OneEntry(s)'
  BY <1>1, <1>2, <1>4, <1>6 DEF Follows, OneEntry, Statement
<1>9. Replenishes(s)'
  BY <1>1 DEF Replenishes, Kept
<1> QED BY <1>3, <1>7, <1>8, <1>9 DEF Books

\* An entry stays entered, when the statement is not the one that writes it.
LEMMA EnteredStays ==
  ASSUME NEW s \in Sessions, Leftover(s), db' = db,
         inserted[s]["audit_entries"] \subseteq inserted'[s]["audit_entries"],
         NEW action, NEW target, Entered(s, action, target),
         IsEntry(Statement(s), action, target) =>
           \E a \in inserted'[s]["audit_entries"] : a.action = action /\ a.target = target
  PROVE  Entered(s, action, target)'
<1>1. CASE Audited(action, target)
  BY <1>1 DEF Audited, Entered
<1>2. CASE \E a \in inserted[s]["audit_entries"] : a.action = action /\ a.target = target
  BY <1>2 DEF Entered
<1>3. CASE \E n \in DOMAIN todo[s] : IsEntry(todo[s][n], action, target)
  BY <1>3 DEF Entered, Leftover
<1> QED BY <1>1, <1>2, <1>3 DEF Entered

\* A message stays, when the statement is not the one that writes it.
LEMMA MessageStays ==
  ASSUME NEW s \in Sessions, Leftover(s), pruned' = pruned,
         \A m \in View(s, "outbox_messages") : \E o \in View(s, "outbox_messages")' : o.id = m.id,
         NEW r, HasMessage(s, r),
         IsMessage(Statement(s), r.event) => \E m \in View(s, "outbox_messages")' : m.id = r.id
  PROVE  HasMessage(s, r)'
<1>1. CASE <<"outbox_messages", r.id>> \in pruned
  BY <1>1 DEF HasMessage
<1>2. CASE \E m \in View(s, "outbox_messages") : m.id = r.id
  <2>1. \E m \in View(s, "outbox_messages")' : m.id = r.id
    BY <1>2
  <2> QED BY <2>1 DEF HasMessage
<1>3. CASE \E n \in DOMAIN todo[s] : IsMessage(todo[s][n], r.event)
  <2>1. IsMessage(Statement(s), r.event) \/ \E n \in DOMAIN todo'[s] : IsMessage(todo'[s][n], r.event)
    BY <1>3 DEF Leftover
  <2> QED BY <2>1 DEF HasMessage
<1> QED BY <1>1, <1>2, <1>3 DEF HasMessage

\* The entry to write next is found by a transaction that has written none.
LEMMA TailIsRead ==
  ASSUME Numbered, NEW s \in Sessions, OneEntry(s),
         inserted[s]["audit_entries"] = {}
  PROVE  Length \in Nat /\ Newest(s) \in 0 .. Length
<1>1. Length \in Nat
  BY FS_CardinalityType DEF Numbered, Length
<1>2. View(s, "audit_entries") = db["audit_entries"]
  BY DEF View, OneEntry
<1>3. PICK N : N = Length
  OBVIOUS
<1>4. PICK S : S = {0} \cup {r.id : r \in View(s, "audit_entries")}
  OBVIOUS
<1>5. S = 0 .. N
  <2>1. S = {0} \cup (1 .. N)
    BY <1>2, <1>3, <1>4 DEF Numbered
  <2> QED BY <1>1, <1>3, <2>1
<1>6. N \in S /\ \A x \in S : N >= x
  BY <1>1, <1>3, <1>5
<1>7. Max(S) \in S
  BY <1>6 DEF Max
<1> QED BY <1>1, <1>3, <1>4, <1>5, <1>7 DEF Newest

\* A statement that writes nothing keeps what the transaction owes.
LEMMA ReadBooks ==
  ASSUME ScriptInv, Numbered, NEW s \in Sessions, Books(s), Runs(s)',
         Looked(s) \/ \E t : Listed(s, t)
  PROVE  Books(s)'
<1>1. /\ Proceeds(s) /\ Statement(s).do \in Reading
      /\ Statement(s).do = "read_tail" => sight'[s] = Newest(s)
      /\ UNCHANGED <<db, inserted, deleted, pruned>>
  BY DEF Looked, Listed, Reading
<1>2. Leftover(s) /\ 1 \in DOMAIN todo[s] /\ Statement(s) = todo[s][1]
  BY <1>1, LeftOver DEF Books
<1>3. ~Creates(Statement(s)) /\ Statement(s).do # "insert_entry"
      /\ ~Enqueues(Statement(s)) /\ Statement(s).do # "insert"
  BY <1>1 DEF Reading, Creates, Enqueues
<1>4. Booked(todo'[s]) /\ call'[s] = call[s]
  BY <1>2 DEF Leftover
<1>5. \A t : View(s, t)' = View(s, t)
  BY <1>1 DEF View
<1>6. Registers(s)'
  <2> SUFFICES ASSUME NEW t \in DOMAIN Creation, NEW r \in inserted'[s][t]
               PROVE  Entered(s, Creation[t], Subject(t, r))'
    BY DEF Registers
  <2>1. Entered(s, Creation[t], Subject(t, r))
    BY <1>1 DEF Books, Registers
  <2>2. PICK action, target : action = Creation[t] /\ target = Subject(t, r)
    OBVIOUS
  <2>3. ~IsEntry(Statement(s), action, target)
    BY <1>3 DEF IsEntry
  <2>4. Entered(s, action, target)'
    BY <1>1, <1>2, <2>1, <2>2, <2>3, EnteredStays
  <2> QED BY <2>2, <2>4
<1>7. Matches(s)'
  <2>1. ASSUME NEW r \in inserted'[s]["events"] PROVE HasMessage(s, r)'
    <3>1. HasMessage(s, r)
      BY <1>1, <2>1 DEF Books, Matches
    <3>2. ~IsMessage(Statement(s), r.event)
      BY <1>3 DEF IsMessage
    <3> QED BY <1>1, <1>2, <1>5, <3>1, <3>2, MessageStays
  <2>2. ASSUME NEW m \in inserted'[s]["outbox_messages"] PROVE HasEvent(s, m)'
    <3>1. HasEvent(s, m)
      BY <1>1, <2>2 DEF Books, Matches
    <3> QED BY <1>1, <1>5, <3>1 DEF HasEvent
  <2> QED BY <2>1, <2>2 DEF Matches
<1>8. Follows(s)'
  <2>1. ~Enqueues(Head(todo'[s]))
    BY <1>2, <1>3 DEF Leftover, InsertsEvent
  <2> QED BY <2>1 DEF Follows, Statement
<1>9. Replenishes(s)'
  <2>1. Pruning(s)' <=> Pruning(s)
    BY <1>4 DEF Pruning
  <2>2. Spares(todo[s]) => Spares(todo'[s])
    BY <1>2 DEF Leftover
  <2>3. Kept(s) => Kept(s)'
    BY <1>1 DEF Kept
  <2> QED BY <2>1, <2>2, <2>3 DEF Books, Replenishes
<1>10. OneEntry(s)'
  <2>1. OneEntry(s) /\ Length' = Length
    BY <1>1 DEF Books, Length
  <2>2. \/ inserted[s]["audit_entries"] = {}
        \/ /\ IsNext(inserted[s]["audit_entries"])
           /\ \A n \in DOMAIN todo'[s] : todo'[s][n].do # "insert_entry"
    BY <1>2, <2>1 DEF OneEntry, Leftover
  <2>3. PICK S : S = inserted[s]["audit_entries"] /\ S = inserted'[s]["audit_entries"]
    BY <1>1
  <2>4. IsNext(S) => IsNext(S)'
    BY <2>1 DEF IsNext
  <2>5. Head(todo'[s]).do = "insert_entry" => sight'[s] \in 0 .. Length
    <3> SUFFICES ASSUME Head(todo'[s]).do = "insert_entry" PROVE sight'[s] \in 0 .. Length
      OBVIOUS
    <3>1. Statement(s).do = "read_tail"
      BY <1>2 DEF Leftover
    <3>2. Head(todo'[s]) = todo'[s][1] /\ 1 \in DOMAIN todo'[s]
      <4>1. IsScript(todo'[s]) /\ todo'[s] # <<>>
        BY <1>4 DEF Booked, Runs
      <4> QED BY <4>1, ScriptTail
    <3>3. inserted[s]["audit_entries"] = {}
      BY <2>2, <3>2
    <3> QED BY <1>1, <2>1, <3>1, <3>3, TailIsRead
  <2>6. deleted'[s]["audit_entries"] = {}
    BY <1>1, <2>1 DEF OneEntry
  <2>7. S = {} \/ (IsNext(S)' /\ \A n \in DOMAIN todo'[s] : todo'[s][n].do # "insert_entry")
    BY <2>2, <2>3, <2>4
  <2> QED BY <2>1, <2>3, <2>5, <2>6, <2>7 DEF OneEntry, Statement
<1> QED BY <1>4, <1>6, <1>7, <1>8, <1>9, <1>10 DEF Books

\* What a statement that inserts does to its rows.
LEMMA AddedRows ==
  ASSUME ScriptInv, RowInv, NEW s \in Sessions, Books(s), NEW t, NEW news, Added(s, t, news),
         Runs(s)'
  PROVE  /\ Leftover(s) /\ t \in Tables /\ t = TableOf(Statement(s))
         /\ 1 \in DOMAIN todo[s] /\ Statement(s) = todo[s][1]
         /\ UNCHANGED <<db, pruned>> /\ \A u \in Tables : deleted'[s][u] = deleted[s][u]
         /\ inserted'[s][t] = inserted[s][t] \cup news
         /\ \A u \in Tables \ {t} : inserted'[s][u] = inserted[s][u]
         /\ \A u \in Tables : View(s, u) \subseteq View(s, u)'
         /\ news \subseteq View(s, t)'
         /\ Creates(Statement(s)) <=> t # "audit_entries"
         /\ Creates(Statement(s)) =>
              /\ t = Statement(s).table
              /\ \/ news = {Statement(s).row}
                 \/ /\ news = {} /\ Statement(s).do = "insert_or_nothing"
                    /\ \E q \in View(s, t) : Clash(t, q, Statement(s).row)
<1>1. /\ Proceeds(s) /\ t \in Tables /\ t = TableOf(Statement(s)) /\ UNCHANGED <<db, pruned>>
      /\ \A u \in Tables \ {t} : inserted'[s][u] = inserted[s][u] /\ deleted'[s][u] = deleted[s][u]
      /\ inserted'[s][t] = inserted[s][t] \cup news /\ deleted'[s][t] = deleted[s][t]
      /\ Statement(s).do \in Inserting
  BY DEF Added, Sent, Adds
<1>2. Leftover(s) /\ 1 \in DOMAIN todo[s] /\ Statement(s) = todo[s][1]
  BY <1>1, LeftOver DEF Books
<1>3. PICK x : x = Statement(s)
  OBVIOUS
<1>4. Creates(x) => x.table # "audit_entries"
  BY <1>2, <1>3 DEF Books, Booked
<1>5. Creates(x) => t = x.table
  BY <1>1, <1>3 DEF Creates, TableOf
<1>6. ~Creates(x) => t = "audit_entries"
  BY <1>1, <1>3 DEF Creates, TableOf, Inserting
<1>7. Creates(x) => \/ news = {x.row}
                    \/ /\ news = {} /\ x.do = "insert_or_nothing"
                       /\ \E q \in View(s, t) : Clash(t, q, x.row)
  <2>1. Creates(x) => Inserts(s, x) = {x.row}
    BY DEF Creates, Inserts
  <2> QED BY <1>3, <2>1 DEF Added
<1>8. \A u \in Tables : inserted[s][u] \subseteq inserted'[s][u] /\ deleted'[s][u] = deleted[s][u]
  BY <1>1
<1>9. \A u \in Tables : View(s, u) \subseteq View(s, u)'
  BY <1>1, <1>8 DEF View
<1>10. news \subseteq View(s, t)'
  BY <1>1 DEF View
<1> QED BY <1>1, <1>2, <1>3, <1>4, <1>5, <1>6, <1>7, <1>8, <1>9, <1>10 DEF Added, Sent

\* A statement that inserts a row, whose entry and message are to follow.
LEMMA AddRegisters ==
  ASSUME ScriptInv, RowInv, NEW s \in Sessions, Books(s), NEW t, NEW news, Added(s, t, news),
         Runs(s)'
  PROVE  Registers(s)'
<1> SUFFICES ASSUME NEW u \in DOMAIN Creation, NEW r \in inserted'[s][u]
             PROVE  Entered(s, Creation[u], Subject(u, r))'
  BY DEF Registers
<1>1. PICK action, target : action = Creation[u] /\ target = Subject(u, r)
  OBVIOUS
<1>2. u \in Tables /\ u # "audit_entries" /\ "audit_entries" \in Tables
  BY DEF Creation, Tables
<1>3. /\ Leftover(s) /\ db' = db /\ t \in Tables /\ inserted'[s][t] = inserted[s][t] \cup news
      /\ \A v \in Tables \ {t} : inserted'[s][v] = inserted[s][v]
  BY AddedRows
<1>4. CASE r \in inserted[s][u]
  <2>1. Entered(s, action, target)
    BY <1>1, <1>4 DEF Books, Registers
  <2>2. inserted[s]["audit_entries"] \subseteq inserted'[s]["audit_entries"]
    BY <1>2, <1>3
  <2>3. ASSUME IsEntry(Statement(s), action, target)
        PROVE  \E a \in inserted'[s]["audit_entries"] : a.action = action /\ a.target = target
    <3>1. /\ Statement(s).do = "insert_entry" /\ Statement(s).action = action
          /\ Statement(s).target = target
      BY <2>3 DEF IsEntry
    <3>2. t = "audit_entries"
      BY <3>1 DEF Added, Sent, TableOf
    <3>3. PICK a : a = [id |-> NextEntry(s), action |-> action, target |-> target]
      OBVIOUS
    <3>4. Inserts(s, Statement(s)) = {a}
      BY <3>1, <3>3 DEF Inserts
    <3>5. news = {a}
      BY <3>1, <3>4 DEF Added
    <3>6. a \in inserted'[s]["audit_entries"] /\ a.action = action /\ a.target = target
      BY <1>3, <3>2, <3>3, <3>5
    <3> QED BY <3>6
  <2>4. Entered(s, action, target)'
    BY <1>3, <2>1, <2>2, <2>3, EnteredStays
  <2> QED BY <1>1, <2>4
<1>5. CASE r \notin inserted[s][u]
  <2>1. u = t /\ r \in news
    BY <1>2, <1>3, <1>5
  <2>2. Creates(Statement(s)) /\ t = Statement(s).table /\ r = Statement(s).row
    BY <1>2, <2>1, AddedRows
  <2>3. \E n \in DOMAIN todo'[s] : IsEntry(todo'[s][n], action, target)
    <3>1. PICK q : q = todo[s]
      OBVIOUS
    <3>2. Booked(q) /\ q # <<>> /\ todo'[s] = Tail(q) /\ Statement(s) = Head(q)
      BY <3>1 DEF Books, Added, Sent, Proceeds, Runs, Statement
    <3>3. Creates(Head(q)) /\ Head(q).table = u /\ Head(q).row = r
      BY <2>1, <2>2, <3>2
    <3>4. \E k \in DOMAIN Tail(q) :
            IsEntry(Tail(q)[k], Creation[Head(q).table], Subject(Head(q).table, Head(q).row))
      BY <3>2, <3>3, BookedTail
    <3> QED BY <1>1, <3>2, <3>3, <3>4
  <2> QED BY <1>1, <2>3 DEF Entered
<1> QED BY <1>4, <1>5

LEMMA AddMatches ==
  ASSUME ScriptInv, RowInv, Shaped, NEW s \in Sessions, Books(s), NEW t, NEW news,
         Added(s, t, news), Runs(s)'
  PROVE  Matches(s)'
<1>1. "events" \in Tables /\ "outbox_messages" \in Tables
  BY DEF Tables
<1>2. /\ Leftover(s) /\ UNCHANGED <<db, pruned>> /\ t \in Tables
      /\ inserted'[s][t] = inserted[s][t] \cup news
      /\ \A v \in Tables \ {t} : inserted'[s][v] = inserted[s][v]
      /\ \A u \in Tables : View(s, u) \subseteq View(s, u)'
      /\ news \subseteq View(s, t)'
      /\ Creates(Statement(s)) =>
              /\ t = Statement(s).table
              /\ \/ news = {Statement(s).row}
                 \/ /\ news = {} /\ Statement(s).do = "insert_or_nothing"
                    /\ \E q \in View(s, t) : Clash(t, q, Statement(s).row)
  BY AddedRows
<1>3. ASSUME NEW r \in inserted[s]["events"] PROVE HasMessage(s, r)'
  <2>1. HasMessage(s, r)
    BY <1>3 DEF Books, Matches
  <2>2. ASSUME IsMessage(Statement(s), r.event)
        PROVE  \E m \in View(s, "outbox_messages")' : m.id = r.id
    <3>1. PICK x : x = Statement(s)
      OBVIOUS
    <3>2. Creates(x) /\ x.table = "outbox_messages" /\ x.row = NewMessage(r.event)
      BY <2>2, <3>1 DEF IsMessage, Enqueues
    <3>3. x.row.id = r.id
      <4>1. r.id = EventId[r.event]
        BY <1>1, <1>3 DEF Shaped, IsRow
      <4> QED BY <3>2, <4>1 DEF NewMessage
    <3>4. t = "outbox_messages"
      BY <1>2, <3>1, <3>2
    <3>5. CASE news = {x.row}
      BY <1>2, <3>3, <3>4, <3>5
    <3>6. CASE \E q \in View(s, t) : Clash(t, q, x.row)
      <4>1. PICK q \in View(s, t) : Clash(t, q, x.row)
        BY <3>6
      <4>2. q.id = r.id
        BY <3>3, <3>4, <4>1 DEF Clash
      <4> QED BY <1>1, <1>2, <3>4, <4>2
    <3> QED BY <1>2, <3>1, <3>2, <3>5, <3>6
  <2>3. \A m \in View(s, "outbox_messages") : \E o \in View(s, "outbox_messages")' : o.id = m.id
    BY <1>1, <1>2
  <2> QED BY <1>2, <2>1, <2>2, <2>3, MessageStays
<1>4. ASSUME NEW r \in news, t = "events" PROVE HasMessage(s, r)'
  <2>1. Creates(Statement(s)) /\ t = Statement(s).table /\ r = Statement(s).row
    BY <1>4, AddedRows
  <2>2. \E n \in DOMAIN todo'[s] : IsMessage(todo'[s][n], r.event)
    <3>1. PICK q : q = todo[s]
      OBVIOUS
    <3>2. Booked(q) /\ q # <<>> /\ todo'[s] = Tail(q) /\ Statement(s) = Head(q)
      BY <3>1 DEF Books, Added, Sent, Proceeds, Runs, Statement
    <3>3. Creates(Head(q)) /\ Head(q).table = "events" /\ Head(q).row = r
      BY <1>4, <2>1, <3>2
    <3>4. \E k \in DOMAIN Tail(q) : IsMessage(Tail(q)[k], Head(q).row.event)
      BY <3>2, <3>3, BookedTail
    <3> QED BY <3>2, <3>3, <3>4
  <2> QED BY <2>2 DEF HasMessage
<1>5. \A r \in inserted'[s]["events"] : HasMessage(s, r)'
  BY <1>1, <1>2, <1>3, <1>4
<1>6. ASSUME NEW m, HasEvent(s, m) PROVE HasEvent(s, m)'
  <2>1. View(s, "events") \subseteq View(s, "events")'
    BY <1>1, <1>2
  <2> QED BY <1>2, <1>6, <2>1 DEF HasEvent
<1>7. ASSUME NEW m \in news, t = "outbox_messages" PROVE HasEvent(s, m)'
  <2>1. Creates(Statement(s)) /\ t = Statement(s).table /\ m = Statement(s).row
    BY <1>7, AddedRows
  <2>2. Enqueues(Statement(s))
    BY <1>7, <2>1 DEF Enqueues
  <2>3. PICK r \in inserted[s]["events"] : r.event = m.event
    BY <2>1, <2>2 DEF Books, Follows
  <2>4. r \in View(s, "events")'
    BY <1>1, <1>2, <2>3 DEF View
  <2> QED BY <2>3, <2>4 DEF HasEvent
<1>8. \A m \in inserted'[s]["outbox_messages"] : HasEvent(s, m)'
  <2>1. \A m \in inserted[s]["outbox_messages"] : HasEvent(s, m)'
    BY <1>6 DEF Books, Matches
  <2> QED BY <1>1, <1>2, <1>7, <2>1
<1> QED BY <1>5, <1>8 DEF Matches

\* The next entry's sequence is the last one of the log plus one.
LEMMA AddOneEntry ==
  ASSUME ScriptInv, RowInv, Numbered, NEW s \in Sessions, Books(s), NEW t, NEW news,
         Added(s, t, news), Runs(s)'
  PROVE  OneEntry(s)'
<1>1. /\ Leftover(s) /\ db' = db /\ t \in Tables /\ inserted'[s][t] = inserted[s][t] \cup news
      /\ \A v \in Tables \ {t} : inserted'[s][v] = inserted[s][v]
      /\ \A u \in Tables : deleted'[s][u] = deleted[s][u]
      /\ 1 \in DOMAIN todo[s] /\ Statement(s) = todo[s][1]
      /\ Creates(Statement(s)) <=> t # "audit_entries"
  BY AddedRows
<1>2. "audit_entries" \in Tables
  BY DEF Tables
<1>3. OneEntry(s) /\ Length' = Length
  BY <1>1 DEF Books, Length
<1>4. deleted'[s]["audit_entries"] = {}
  BY <1>1, <1>2, <1>3 DEF OneEntry
<1>5. Statement(s).do \in Inserting
  BY DEF Added
<1>6. Head(todo'[s]).do # "insert_entry"
  BY <1>1, <1>5 DEF Leftover, Inserting
<1>7. CASE t # "audit_entries"
  <2>1. inserted'[s]["audit_entries"] = inserted[s]["audit_entries"]
    BY <1>1, <1>2, <1>7
  <2>2. PICK S : S = inserted[s]["audit_entries"]
    OBVIOUS
  <2>3. S = {} \/ (IsNext(S) /\ \A n \in DOMAIN todo'[s] : todo'[s][n].do # "insert_entry")
    BY <1>1, <1>3, <2>2 DEF OneEntry, Leftover
  <2>4. IsNext(S) => IsNext(S)'
    BY <1>3 DEF IsNext
  <2> QED BY <1>4, <1>6, <2>1, <2>2, <2>3, <2>4 DEF OneEntry, Statement
<1>8. CASE t = "audit_entries"
  <2>1. Statement(s).do = "insert_entry"
    BY <1>1, <1>5, <1>8 DEF Creates, Inserting
  <2>2. inserted[s]["audit_entries"] = {} /\ sight[s] \in 0 .. Length
    BY <1>1, <1>3, <2>1 DEF OneEntry
  <2>3. PICK a : a = [id |-> NextEntry(s), action |-> Statement(s).action, target |-> Statement(s).target]
    OBVIOUS
  <2>4. news = {a} /\ a.id = sight[s] + 1
    <3>1. Inserts(s, Statement(s)) = {a}
      BY <2>1, <2>3 DEF Inserts
    <3> QED BY <2>1, <2>3, <3>1 DEF Added, NextEntry
  <2>5. View(s, "audit_entries") = db["audit_entries"]
    BY <1>3, <2>2 DEF OneEntry, View
  <2>6. a.id \notin {b.id : b \in db["audit_entries"]}
    <3>1. \A q \in db["audit_entries"] : a.id # q.id
      BY <1>8, <2>4, <2>5 DEF Added, Adds
    <3> QED BY <3>1
  <2>7. PICK N : N = Length
    OBVIOUS
  <2>8. N \in Nat
    BY <2>7, FS_CardinalityType DEF Numbered, Length
  <2>9. a.id \notin 1 .. N
    BY <2>6, <2>7 DEF Numbered
  <2>10. a.id = N + 1
    BY <2>2, <2>4, <2>7, <2>8, <2>9
  <2>11. PICK S : S = inserted'[s]["audit_entries"]
    OBVIOUS
  <2>12. S = {a}
    BY <1>1, <1>8, <2>2, <2>4, <2>11
  <2>13. IsNext(S)'
    BY <1>3, <2>7, <2>10, <2>12 DEF IsNext
  <2>14. \A n \in DOMAIN todo'[s] : todo'[s][n].do # "insert_entry"
    <3>1. PICK q : q = todo[s]
      OBVIOUS
    <3>2. Booked(q) /\ q # <<>> /\ todo'[s] = Tail(q) /\ Statement(s) = Head(q)
      BY <3>1 DEF Books, Added, Sent, Proceeds, Runs, Statement
    <3>3. Head(q).do = "insert_entry"
      BY <2>1, <3>2
    <3>4. \A k \in DOMAIN Tail(q) : Tail(q)[k].do # "insert_entry"
      BY <3>2, <3>3, BookedTail
    <3> QED BY <3>2, <3>4
  <2> QED BY <1>4, <1>6, <2>11, <2>13, <2>14 DEF OneEntry, Statement
<1> QED BY <1>7, <1>8

LEMMA AddBooks ==
  ASSUME ScriptInv, RowInv, Shaped, Numbered, NEW s \in Sessions, Books(s), NEW t, NEW news,
         Added(s, t, news), Runs(s)'
  PROVE  Books(s)'
<1>1. Registers(s)' /\ Matches(s)' /\ OneEntry(s)'
  BY AddRegisters, AddMatches, AddOneEntry
<1>2. /\ Leftover(s) /\ t \in Tables /\ inserted'[s][t] = inserted[s][t] \cup news
      /\ \A v \in Tables \ {t} : inserted'[s][v] = inserted[s][v]
      /\ \A u \in Tables : deleted'[s][u] = deleted[s][u]
      /\ Creates(Statement(s)) =>
              /\ t = Statement(s).table
              /\ \/ news = {Statement(s).row}
                 \/ news = {} /\ Statement(s).do = "insert_or_nothing"
  BY AddedRows
<1>3. Booked(todo'[s]) /\ call'[s] = call[s]
  BY <1>2 DEF Leftover
<1>4. Follows(s)'
  <2> SUFFICES ASSUME Enqueues(Head(todo'[s]))
               PROVE  \E r \in inserted'[s]["events"] : r.event = Head(todo'[s]).row.event
    BY DEF Follows, Statement
  <2>1. InsertsEvent(Statement(s), Head(todo'[s]).row.event)
    BY <1>2 DEF Leftover
  <2>2. /\ Statement(s).do = "insert" /\ Statement(s).table = "events"
        /\ Statement(s).row.event = Head(todo'[s]).row.event
    BY <2>1 DEF InsertsEvent
  <2>3. t = "events" /\ news = {Statement(s).row}
    BY <1>2, <2>2 DEF Creates
  <2> QED BY <1>2, <2>2, <2>3
<1>5. Replenishes(s)'
  <2>1. Pruning(s)' <=> Pruning(s)
    BY <1>3 DEF Pruning
  <2>2. Spares(todo[s]) => Spares(todo'[s])
    BY <1>2 DEF Leftover
  <2>3. \A u \in Tables : inserted[s][u] \subseteq inserted'[s][u] /\ deleted'[s][u] = deleted[s][u]
    BY <1>2
  <2>4. Kept(s) => Kept(s)'
    BY <2>3 DEF Kept
  <2> QED BY <2>1, <2>2, <2>4 DEF Books, Replenishes
<1> QED BY <1>1, <1>3, <1>4, <1>5 DEF Books

\* A transaction that is left alone.
LEMMA BooksStay ==
  ASSUME NEW s \in Sessions, Books(s), UNCHANGED <<db, pruned>>, todo'[s] = todo[s],
         call'[s] = call[s], sight'[s] = sight[s],
         inserted'[s] = inserted[s], deleted'[s] = deleted[s]
  PROVE  Books(s)'
<1>1. \A t : View(s, t)' = View(s, t)
  BY DEF View
<1>2. Statement(s)' = Statement(s)
  BY DEF Statement
<1>3. \A action, target : Entered(s, action, target) => Entered(s, action, target)'
  BY DEF Entered, Audited
<1>4. \A r : /\ HasMessage(s, r) => HasMessage(s, r)'
             /\ HasEvent(s, r) => HasEvent(s, r)'
  BY <1>1 DEF HasMessage, HasEvent
<1>5. Booked(todo'[s]) /\ Registers(s)' /\ Matches(s)'
  BY <1>3, <1>4 DEF Books, Registers, Matches
<1>6. Follows(s)' /\ Replenishes(s)'
  BY <1>2 DEF Books, Follows, Replenishes, Pruning, Kept
<1>7. OneEntry(s)'
  <2>1. Length' = Length
    BY DEF Length
  <2>2. \A S : IsNext(S) => IsNext(S)'
    BY <2>1 DEF IsNext
  <2> QED BY <1>2, <2>1, <2>2 DEF Books, OneEntry
<1> QED BY <1>5, <1>6, <1>7 DEF Books

\* A statement about other tables.
LEMMA OneEntryStays ==
  ASSUME NEW s \in Sessions, Leftover(s), OneEntry(s), db' = db, Statement(s).do # "read_tail",
         inserted'[s]["audit_entries"] = inserted[s]["audit_entries"],
         deleted'[s]["audit_entries"] = deleted[s]["audit_entries"]
  PROVE  OneEntry(s)'
<1>1. Length' = Length
  BY DEF Length
<1>2. PICK S : S = inserted[s]["audit_entries"] /\ S = inserted'[s]["audit_entries"]
  OBVIOUS
<1>3. IsNext(S) => IsNext(S)'
  BY <1>1 DEF IsNext
<1>4. S = {} \/ (IsNext(S)' /\ \A n \in DOMAIN todo'[s] : todo'[s][n].do # "insert_entry")
  BY <1>2, <1>3 DEF OneEntry, Leftover
<1>5. Head(todo'[s]).do # "insert_entry"
  BY DEF Leftover
<1>6. deleted'[s]["audit_entries"] = {}
  BY DEF OneEntry
<1> QED BY <1>2, <1>4, <1>5, <1>6 DEF OneEntry, Statement

LEMMA SameTransitive ==
  ASSUME NEW p, NEW q, NEW r, Same(r, q), Same(q, p)
  PROVE  Same(r, p)
BY DEF Same

\* What a statement that replaces rows does to them.
LEMMA ReplacedRows ==
  ASSUME ScriptInv, AccountInv, NEW s \in Sessions, Books(s), NEW t, NEW olds, NEW news,
         Replaced(s, t, olds, news), Runs(s)'
  PROVE  /\ Leftover(s) /\ t \in {"outbox_messages", "review_cases"} /\ t \in Tables
         /\ Statement(s).do \in {"publish", "count_attempt", "close_case"}
         /\ Spares(todo[s]) /\ Kept(s) /\ UNCHANGED <<db, pruned>>
         /\ inserted'[s][t] = (inserted[s][t] \ olds) \cup news
         /\ deleted'[s][t] = deleted[s][t] \cup (olds \cap db[t])
         /\ \A u \in Tables \ {t} : /\ inserted'[s][u] = inserted[s][u]
                                    /\ deleted'[s][u] = deleted[s][u]
                                    /\ View(s, u)' = View(s, u)
         /\ \A q \in View(s, t) : \E r \in View(s, t)' : Same(r, q)
         /\ \A r \in inserted'[s][t] : \E q \in View(s, t) : Same(r, q)
         /\ \A q \in olds : \E r \in news : Same(r, q)
<1>1. /\ Proceeds(s) /\ t \in Tables /\ t = TableOf(Statement(s)) /\ UNCHANGED <<db, pruned>>
      /\ \A u \in Tables \ {t} : inserted'[s][u] = inserted[s][u] /\ deleted'[s][u] = deleted[s][u]
      /\ inserted'[s][t] = (inserted[s][t] \ olds) \cup news
      /\ deleted'[s][t] = deleted[s][t] \cup (olds \cap db[t])
      /\ olds \subseteq View(s, t)
      /\ \A r \in news : \E q \in olds : Same(r, q)
      /\ \A q \in olds : \E r \in news : Same(r, q)
  BY DEF Replaced, Sent, Swaps, Copies
<1>2. Statement(s).do \in {"publish", "count_attempt", "close_case"}
  BY DEF Replaced, Replacing
<1>3. Leftover(s)
  BY <1>1, LeftOver DEF Books
<1>4. t \in {"outbox_messages", "review_cases"}
  BY <1>1, <1>2 DEF TableOf
<1>5. ~Pruning(s)
  <2>1. ~OfPrune(Statement(s))
    BY <1>2 DEF OfPrune
  <2> QED BY <2>1, PruneStatement DEF AccountInv
<1>6. Spares(todo[s]) /\ Kept(s)
  BY <1>5 DEF Books, Replenishes
<1>7. \A u \in Tables \ {t} : View(s, u)' = View(s, u)
  BY <1>1 DEF View
<1>8. \A q : Same(q, q)
  BY DEF Same
<1>9. ASSUME NEW q \in View(s, t) PROVE \E r \in View(s, t)' : Same(r, q)
  <2>1. CASE q \in olds
    BY <1>1, <2>1 DEF View
  <2>2. CASE q \notin olds
    <3>1. q \in View(s, t)'
      BY <1>1, <2>2 DEF View
    <3> QED BY <1>8, <3>1
  <2> QED BY <2>1, <2>2
<1>10. ASSUME NEW r \in inserted'[s][t] PROVE \E q \in View(s, t) : Same(r, q)
  <2>1. CASE r \in inserted[s][t]
    <3>1. r \in View(s, t)
      BY <2>1 DEF View
    <3> QED BY <1>8, <3>1
  <2>2. CASE r \notin inserted[s][t]
    BY <1>1, <2>2
  <2> QED BY <2>1, <2>2
<1> QED BY <1>1, <1>2, <1>3, <1>4, <1>6, <1>7, <1>9, <1>10

LEMMA ReplaceRegisters ==
  ASSUME ScriptInv, AccountInv, Shaped, CommittedTogether, ~overlapped, NEW s \in Sessions,
         Books(s), NEW t, NEW olds, NEW news, Replaced(s, t, olds, news), Runs(s)'
  PROVE  Registers(s)'
<1> SUFFICES ASSUME NEW u \in DOMAIN Creation, NEW r \in inserted'[s][u]
             PROVE  Entered(s, Creation[u], Subject(u, r))'
  BY DEF Registers
<1>1. /\ Leftover(s) /\ t \in {"outbox_messages", "review_cases"} /\ t \in Tables /\ db' = db
      /\ Statement(s).do \in {"publish", "count_attempt", "close_case"}
      /\ \A v \in Tables \ {t} : inserted'[s][v] = inserted[s][v]
      /\ \A p \in inserted'[s][t] : \E q \in View(s, t) : Same(p, q)
  BY ReplacedRows
<1>2. u \in Tables /\ u # "outbox_messages" /\ "audit_entries" \in Tables \ {t}
  BY <1>1 DEF Creation, Tables
<1>3. PICK action, target : action = Creation[u] /\ target = Subject(u, r)
  OBVIOUS
<1>4. Entered(s, action, target)
  <2>1. CASE u # t
    <3>1. r \in inserted[s][u]
      BY <1>1, <1>2, <2>1
    <3> QED BY <1>3, <3>1 DEF Books, Registers
  <2>2. CASE u = t
    <3>1. u = "review_cases"
      BY <1>1, <1>2, <2>2
    <3>2. PICK q \in View(s, u) : Same(r, q)
      BY <1>1, <2>2
    <3>3. "id" \in DOMAIN q
      BY <1>2 DEF View, Shaped, IsRow
    <3>4. target = q.id /\ Subject(u, q) = q.id
      BY <1>3, <3>1, <3>2, <3>3 DEF Same, Subject
    <3>5. CASE q \in inserted[s][u]
      BY <1>3, <3>4, <3>5 DEF Books, Registers
    <3>6. CASE q \in db[u]
      <4>1. u \in DOMAIN Creation \ {"events"}
        BY <3>1
      <4>2. Audited(Creation[u], q.id)
        BY <3>6, <4>1 DEF CommittedTogether
      <4> QED BY <1>3, <3>4, <4>2 DEF Entered
    <3> QED BY <3>5, <3>6 DEF View
  <2> QED BY <2>1, <2>2
<1>5. ~IsEntry(Statement(s), action, target)
  BY <1>1 DEF IsEntry
<1>6. Entered(s, action, target)'
  BY <1>1, <1>2, <1>4, <1>5, EnteredStays
<1> QED BY <1>3, <1>6

LEMMA ReplaceMatches ==
  ASSUME ScriptInv, AccountInv, Shaped, CommittedTogether, ~overlapped, NEW s \in Sessions,
         Books(s), NEW t, NEW olds, NEW news, Replaced(s, t, olds, news), Runs(s)'
  PROVE  Matches(s)'
<1>1. /\ Leftover(s) /\ t \in {"outbox_messages", "review_cases"} /\ t \in Tables
      /\ UNCHANGED <<db, pruned>> /\ Kept(s)
      /\ Statement(s).do \in {"publish", "count_attempt", "close_case"}
      /\ \A v \in Tables \ {t} : inserted'[s][v] = inserted[s][v] /\ View(s, v)' = View(s, v)
      /\ \A q \in View(s, t) : \E r \in View(s, t)' : Same(r, q)
      /\ \A p \in inserted'[s][t] : \E q \in View(s, t) : Same(p, q)
  BY ReplacedRows
<1>2. "events" \in Tables \ {t} /\ "outbox_messages" \in Tables
  BY <1>1 DEF Tables
<1>3. \A m \in View(s, "outbox_messages") : "id" \in DOMAIN m /\ "event" \in DOMAIN m
  BY <1>2 DEF View, Shaped, IsRow
<1>4. \A m \in View(s, "outbox_messages") : \E o \in View(s, "outbox_messages")' : o.id = m.id
  BY <1>1, <1>2, <1>3 DEF Same
<1>5. ASSUME NEW r \in inserted'[s]["events"] PROVE HasMessage(s, r)'
  <2>1. HasMessage(s, r)
    BY <1>1, <1>2, <1>5 DEF Books, Matches
  <2>2. ~IsMessage(Statement(s), r.event)
    BY <1>1 DEF IsMessage, Enqueues, Creates
  <2> QED BY <1>1, <1>4, <2>1, <2>2, MessageStays
<1>6. ASSUME NEW m \in View(s, "outbox_messages") PROVE HasEvent(s, m)
  <2>1. CASE m \in inserted[s]["outbox_messages"]
    BY <2>1 DEF Books, Matches
  <2>2. CASE m \in db["outbox_messages"] /\ <<"events", m.id>> \notin pruned
    <3>1. PICK r \in db["events"] : r.event = m.event
      BY <2>2 DEF CommittedTogether
    <3>2. CASE r \in deleted[s]["events"]
      <4>1. PICK p \in inserted[s]["events"] : Same(p, r)
        BY <1>1, <1>2, <3>2 DEF Kept
      <4>2. "event" \in DOMAIN r
        BY <1>2, <3>1 DEF Shaped, IsRow
      <4>3. p.event = m.event /\ p \in View(s, "events")
        BY <3>1, <4>1, <4>2 DEF Same, View
      <4> QED BY <4>3 DEF HasEvent
    <3>3. CASE r \notin deleted[s]["events"]
      BY <3>1, <3>3 DEF HasEvent, View
    <3> QED BY <3>2, <3>3
  <2>3. CASE <<"events", m.id>> \in pruned
    BY <2>3 DEF HasEvent
  <2> QED BY <2>1, <2>2, <2>3 DEF View
<1>7. ASSUME NEW m \in inserted'[s]["outbox_messages"] PROVE HasEvent(s, m)'
  <2>1. PICK q \in View(s, "outbox_messages") : q.id = m.id /\ q.event = m.event
    <3>1. CASE t = "outbox_messages"
      BY <1>1, <1>3, <1>7, <3>1 DEF Same
    <3>2. CASE t # "outbox_messages"
      BY <1>1, <1>2, <1>7, <3>2 DEF View
    <3> QED BY <3>1, <3>2
  <2>2. HasEvent(s, q)
    BY <1>6
  <2> QED BY <1>1, <1>2, <2>1, <2>2 DEF HasEvent
<1> QED BY <1>5, <1>7 DEF Matches

LEMMA ReplaceBooks ==
  ASSUME ScriptInv, AccountInv, Shaped, CommittedTogether, ~overlapped, NEW s \in Sessions,
         Books(s), NEW t, NEW olds, NEW news, Replaced(s, t, olds, news), Runs(s)'
  PROVE  Books(s)'
<1>1. /\ Leftover(s) /\ t \in {"outbox_messages", "review_cases"} /\ t \in Tables
      /\ db' = db /\ Spares(todo[s]) /\ Kept(s)
      /\ Statement(s).do \in {"publish", "count_attempt", "close_case"}
      /\ inserted'[s][t] = (inserted[s][t] \ olds) \cup news
      /\ deleted'[s][t] = deleted[s][t] \cup (olds \cap db[t])
      /\ \A u \in Tables \ {t} : inserted'[s][u] = inserted[s][u] /\ deleted'[s][u] = deleted[s][u]
      /\ \A q \in olds : \E r \in news : Same(r, q)
  BY ReplacedRows
<1>2. Registers(s)' /\ Matches(s)'
  BY ReplaceRegisters, ReplaceMatches
<1>3. Follows(s)'
  <2>1. ~Enqueues(Head(todo'[s]))
    BY <1>1 DEF Leftover, InsertsEvent
  <2> QED BY <2>1 DEF Follows, Statement
<1>4. Kept(s)'
  <2> SUFFICES ASSUME NEW u \in Tables, NEW q \in deleted'[s][u]
               PROVE  \E r \in inserted'[s][u] : Same(r, q)
    BY DEF Kept
  <2>1. CASE u # t
    BY <1>1, <2>1 DEF Kept
  <2>2. CASE u = t /\ q \in deleted[s][t]
    <3>1. PICK r \in inserted[s][t] : Same(r, q)
      BY <1>1, <2>2 DEF Kept
    <3>2. CASE r \in olds
      <4>1. PICK p \in news : Same(p, r)
        BY <1>1, <3>2
      <4>2. Same(p, q)
        BY <3>1, <4>1, SameTransitive
      <4> QED BY <1>1, <2>2, <4>1, <4>2
    <3>3. CASE r \notin olds
      BY <1>1, <2>2, <3>1, <3>3
    <3> QED BY <3>2, <3>3
  <2>3. CASE u = t /\ q \in olds
    BY <1>1, <2>3
  <2> QED BY <1>1, <2>1, <2>2, <2>3
<1>5. Replenishes(s)' /\ Booked(todo'[s])
  BY <1>1, <1>4 DEF Replenishes, Leftover
<1>6. OneEntry(s)'
  <2>1. "audit_entries" \in Tables \ {t}
    BY <1>1 DEF Tables
  <2> QED BY <1>1, <2>1, OneEntryStays DEF Books
<1> QED BY <1>2, <1>3, <1>5, <1>6 DEF Books

\* Only a prune, which inserts nothing but its entry, deletes.
LEMMA RemoveBooks ==
  ASSUME ScriptInv, AccountInv, NEW s \in Sessions, Books(s), NEW t, Removed(s, t), Runs(s)'
  PROVE  Books(s)'
<1>1. /\ Proceeds(s) /\ t \in Tables /\ t = TableOf(Statement(s)) /\ db' = db
      /\ Statement(s).do = "delete"
      /\ \A u \in Tables \ {t} : inserted'[s][u] = inserted[s][u] /\ deleted'[s][u] = deleted[s][u]
      /\ inserted'[s][t] \subseteq inserted[s][t]
  BY DEF Removed, Sent, Swaps
<1>2. Leftover(s) /\ 1 \in DOMAIN todo[s] /\ Statement(s) = todo[s][1]
  BY <1>1, LeftOver DEF Books
<1>3. Pruning(s)
  BY <1>1, <1>2 DEF Books, Replenishes, Spares
<1>4. Accounts(s) /\ t \in Prunable
  <2>1. Accounts(s)
    BY <1>3 DEF AccountInv
  <2>2. OfPrune(Statement(s)) /\ t = Statement(s).table
    BY <1>1, <1>3, <2>1, PruneStatement
  <2>3. Json \subseteq Prunable
    BY JsonTables
  <2> QED BY <1>1, <2>1, <2>2, <2>3 DEF OfPrune, Prunable
<1>5. \A u \in Prunable : inserted'[s][u] = {}
  <2>1. \A u \in Prunable : inserted[s][u] = {} /\ u \in Tables
    BY <1>4 DEF Accounts, Prunable
  <2> QED BY <1>1, <2>1
<1>6. DOMAIN Creation \subseteq Prunable /\ "outbox_messages" \in Prunable /\ "events" \in Prunable
      /\ "audit_entries" \in Tables \ {t}
  BY <1>4 DEF Creation, Prunable, Tables
<1>7. Registers(s)' /\ Matches(s)'
  BY <1>5, <1>6 DEF Registers, Matches
<1>8. Follows(s)'
  <2>1. ~Enqueues(Head(todo'[s]))
    BY <1>1, <1>2 DEF Leftover, InsertsEvent
  <2> QED BY <2>1 DEF Follows, Statement
<1>9. Replenishes(s)' /\ Booked(todo'[s])
  BY <1>2, <1>3 DEF Replenishes, Pruning, Leftover
<1>10. OneEntry(s)'
  BY <1>1, <1>2, <1>6, OneEntryStays DEF Books
<1> QED BY <1>7, <1>8, <1>9, <1>10 DEF Books

\* Every DELETE of a reset empties its table.
LEMMA RemoveClears ==
  ASSUME ScriptInv, NEW s \in Sessions, Clears(s), NEW t, Removed(s, t), Runs(s)'
  PROVE  Clears(s)'
<1>1. /\ Proceeds(s) /\ t \in Tables /\ t = TableOf(Statement(s)) /\ db' = db
      /\ Statement(s).do = "delete" /\ listed'[s] = NoList
      /\ \A u \in Tables \ {t} : inserted'[s][u] = inserted[s][u] /\ deleted'[s][u] = deleted[s][u]
      /\ inserted'[s][t] \subseteq inserted[s][t]
      /\ deleted'[s][t] = deleted[s][t] \cup (ChosenRows(s, t) \cap db[t])
  BY DEF Removed, Sent, Swaps
<1>2. \A u \in Tables : inserted[s][u] = {} /\ inserted'[s][u] = {}
  BY <1>1 DEF Clears
<1>3. ChosenRows(s, t) = View(s, t)
  <2>1. t = Statement(s).table
    BY <1>1 DEF TableOf
  <2> QED BY <2>1 DEF Clears, ChosenRows, Chosen
<1>4. View(s, t)' = {}
  BY <1>1, <1>2, <1>3 DEF View
<1>5. \A u \in Tables \ {t} : View(s, u)' = View(s, u)
  BY <1>1 DEF View
<1>6. PICK q : q = todo[s]
  OBVIOUS
<1>7. IsScript(q) /\ q # <<>> /\ todo'[s] = Tail(q) /\ Tail(q) # <<>> /\ call'[s] = call[s]
  BY <1>1, <1>6, FirstStatement DEF Proceeds, Runs, WellFormed
<1>8. /\ Statement(s) = q[1] /\ t = Statement(s).table
      /\ Len(q) \in Nat \ {0} /\ DOMAIN q = 1 .. Len(q) /\ DOMAIN Tail(q) = 1 .. Len(q) - 1
      /\ \A n \in 1 .. Len(q) - 1 : Tail(q)[n] = q[n + 1]
  <2>1. t = Statement(s).table
    BY <1>1 DEF TableOf
  <2>2. Statement(s) = q[1]
    BY <1>1, <1>6, FirstStatement DEF Proceeds
  <2> QED BY <1>7, <2>1, <2>2, ScriptTail
<1>9. ASSUME NEW n \in DOMAIN q, n # 1
      PROVE  n - 1 \in DOMAIN Tail(q) /\ Tail(q)[n - 1] = q[n]
  <2>1. n - 1 \in 1 .. Len(q) - 1 /\ (n - 1) + 1 = n
    BY <1>8, <1>9
  <2> QED BY <1>8, <2>1
<1>10. \A n \in DOMAIN Tail(q) : n + 1 \in DOMAIN q /\ Tail(q)[n] = q[n + 1]
  BY <1>8
<1>11. \A n \in DOMAIN todo'[s] : todo'[s][n].do \in {"delete", "commit"}
  BY <1>6, <1>7, <1>10 DEF Clears
<1>12. ASSUME NEW u \in Tables \ {t}, View(s, u)' # {}
       PROVE  \E n \in DOMAIN todo'[s] : todo'[s][n].do = "delete" /\ todo'[s][n].table = u
  <2>1. PICK n \in DOMAIN q : q[n].do = "delete" /\ q[n].table = u
    BY <1>5, <1>6, <1>12 DEF Clears
  <2>2. n # 1
    BY <1>8, <2>1
  <2> QED BY <1>7, <1>9, <2>1, <2>2
<1>13. ~listed'[s].on
  BY <1>1 DEF NoList
<1> QED BY <1>2, <1>4, <1>7, <1>11, <1>12, <1>13 DEF Clears

\* A DELETE that gets one more row belongs to a prune, too, or to a reset.
LEMMA PartBooks ==
  ASSUME ScriptInv, AccountInv, NEW s \in Sessions, Books(s), NEW t, NEW id, Parted(s, t, id)
  PROVE  Books(s)'
<1>1. /\ Runs(s) /\ Statement(s).do = "delete" /\ t = TableOf(Statement(s)) /\ t \in Tables
      /\ todo'[s] = todo[s] /\ call'[s] = call[s] /\ sight'[s] = sight[s] /\ db' = db
      /\ \A u \in Tables \ {t} : inserted'[s][u] = inserted[s][u] /\ deleted'[s][u] = deleted[s][u]
      /\ inserted'[s][t] \subseteq inserted[s][t]
  BY DEF Parted, Deleting, Writes
<1>2. 1 \in DOMAIN todo[s] /\ Statement(s) = todo[s][1]
  BY <1>1, FirstStatement
<1>3. Pruning(s)
  BY <1>1, <1>2 DEF Books, Replenishes, Spares
<1>4. Accounts(s) /\ t \in Prunable
  <2>1. Accounts(s)
    BY <1>3 DEF AccountInv
  <2>2. OfPrune(Statement(s)) /\ t = Statement(s).table
    BY <1>1, <1>3, <2>1, PruneStatement
  <2>3. Json \subseteq Prunable
    BY JsonTables
  <2> QED BY <1>1, <2>2, <2>3, <2>1 DEF OfPrune, Prunable
<1>5. \A u \in Prunable : inserted'[s][u] = {}
  <2>1. \A u \in Prunable : inserted[s][u] = {} /\ u \in Tables
    BY <1>4 DEF Accounts, Prunable
  <2> QED BY <1>1, <2>1
<1>6. DOMAIN Creation \subseteq Prunable /\ "outbox_messages" \in Prunable /\ "events" \in Prunable
      /\ "audit_entries" \in Tables \ {t}
  BY <1>4 DEF Creation, Prunable, Tables
<1>7. Registers(s)' /\ Matches(s)'
  BY <1>5, <1>6 DEF Registers, Matches
<1>8. Statement(s)' = Statement(s)
  BY <1>1 DEF Statement
<1>9. Follows(s)'
  BY <1>1, <1>8 DEF Follows, Enqueues, Creates
<1>10. Replenishes(s)' /\ Booked(todo'[s])
  BY <1>1, <1>3 DEF Replenishes, Pruning, Books
<1>11. OneEntry(s)'
  <2>1. Length' = Length
    BY <1>1 DEF Length
  <2>2. \A S : IsNext(S) => IsNext(S)'
    BY <2>1 DEF IsNext
  <2>3. /\ inserted'[s]["audit_entries"] = inserted[s]["audit_entries"]
        /\ deleted'[s]["audit_entries"] = deleted[s]["audit_entries"]
    BY <1>1, <1>6
  <2> QED BY <1>1, <1>8, <2>1, <2>2, <2>3 DEF Books, OneEntry
<1> QED BY <1>7, <1>9, <1>10, <1>11 DEF Books

LEMMA PartClears ==
  ASSUME NEW s \in Sessions, Clears(s), NEW t, NEW id, Parted(s, t, id)
  PROVE  Clears(s)'
<1>1. /\ t = TableOf(Statement(s)) /\ Statement(s).do = "delete" /\ t \in Tables
      /\ todo'[s] = todo[s] /\ call'[s] = call[s] /\ db' = db
      /\ listed'[s] = [on |-> TRUE, ids |-> Chosen(s, t)]
      /\ \A u \in Tables \ {t} : inserted'[s][u] = inserted[s][u] /\ deleted'[s][u] = deleted[s][u]
      /\ inserted'[s][t] \subseteq inserted[s][t] /\ deleted[s][t] \subseteq deleted'[s][t]
  BY DEF Parted, Deleting
<1>2. t = Statement(s).table /\ Statement(s)' = Statement(s)
  BY <1>1 DEF TableOf, Statement
<1>3. \A u \in Tables : inserted[s][u] = {} /\ inserted'[s][u] = {}
  BY <1>1 DEF Clears
<1>4. \A u \in Tables : View(s, u)' \subseteq View(s, u)
  <2>1. \A u \in Tables : deleted[s][u] \subseteq deleted'[s][u]
    BY <1>1
  <2> QED BY <1>1, <1>3, <2>1 DEF View
<1>5. \A r \in View(s, t) : r.id \in Chosen(s, t)
  BY <1>2 DEF Clears, Chosen
<1>6. \A r \in View(s, t)' : r.id \in listed'[s].ids
  BY <1>1, <1>4, <1>5
<1>7. \A u \in Tables : View(s, u)' = {} \/ View(s, u) # {}
  BY <1>4
<1>8. listed'[s].on => \A r \in View(s, Statement(s).table)' : r.id \in listed'[s].ids
  BY <1>2, <1>6
<1> QED BY <1>1, <1>2, <1>3, <1>7, <1>8 DEF Clears

\* A transaction begins.
LEMMA BegunTold ==
  ASSUME ScriptInv, NEW s \in Sessions, Begun(s), Runs(s)'
  PROVE  Clears(s)' \/ Books(s)'
<1>1. /\ inserted'[s] = NoRows /\ deleted'[s] = NoRows /\ ~listed'[s].on
      /\ Suits(call'[s], todo'[s])
  BY DEF Begun, ScriptInv, Rests, NoList
<1>2. CASE call'[s] = "reset_demo_data" /\ todo'[s] = ResetDemoData
  <2>1. Empties(todo'[s], Tables)
    BY <1>2, ResetEmpties
  <2>2. \A t \in Tables : inserted'[s][t] = {}
    BY <1>1 DEF NoRows
  <2> QED BY <1>1, <1>2, <2>1, <2>2 DEF Empties, Clears
<1>3. CASE Whole(todo'[s]) /\ (call'[s] # "prune_retention" => Spares(todo'[s]))
  <2>1. Pruning(s)' \/ Spares(todo'[s])
    BY <1>3 DEF Pruning
  <2> QED BY <1>1, <1>3, <2>1, WholeBooks
<1> QED BY <1>1, <1>2, <1>3 DEF Suits

LEMMA ContinuesTold ==
  ASSUME NEW s \in Sessions, Continues(s), inserted'[s] = NoRows, deleted'[s] = NoRows, Runs(s)'
  PROVE  Books(s)'
<1>1. PICK e : todo'[s] = AddEvent(e)
  BY DEF Continues, Runs
<1>2. Whole(todo'[s]) /\ Spares(todo'[s])
  BY <1>1, AddEventIsWhole
<1> QED BY <1>2, WholeBooks

\* A transaction that clears sends only deletes, which wait for nobody.
LEMMA ClearsDeletes ==
  ASSUME ScriptInv, NEW s \in Sessions, Runs(s), Clears(s), Alone(s)
  PROVE  Statement(s).do \in {"delete", "commit"} /\ WaitsFor(s) = {}
<1>1. Statement(s).do \in {"delete", "commit"}
  BY FirstStatement DEF Clears
<1>2. PICK x, t : x = Statement(s) /\ t = TableOf(x)
  OBVIOUS
<1>3. Writes(s) => t \in Tables
  BY <1>2, FirstStatement, WritesAreSent DEF Writes
<1>4. ASSUME t \in Tables, NEW o \in Sessions \ {s} PROVE inserted[o][t] = {} /\ deleted[o][t] = {}
  <2>1. Rests(o)
    BY DEF Alone, Clears, ScriptInv
  <2> QED BY <1>4, <2>1 DEF Rests, NoRows
<1>5. Writes(s) => WaitsFor(s) = {}
  BY <1>2, <1>3, <1>4 DEF WaitsFor
<1>6. ~Writes(s) => WaitsFor(s) = {}
  BY DEF WaitsFor
<1> QED BY <1>1, <1>5, <1>6

LEMMA OwnTold ==
  ASSUME ScriptInv, RowInv, AccountInv, TogetherInv, NEW s \in Sessions, Does(s), Leaves(s),
         ~overlapped', Runs(s)'
  PROVE  Clears(s)' \/ Books(s)'
<1>1. /\ Shaped /\ ~overlapped /\ CommittedTogether /\ Numbered /\ Alone(s)
      /\ Runs(s) => Clears(s) \/ Books(s)
  <2>1. ~overlapped
    BY CallGoesOn DEF Begun
  <2> QED BY <2>1 DEF TogetherInv, Told
<1>2. CASE Begun(s)
  BY <1>2, BegunTold
<1>3. Runs(s) /\ Clears(s) => Statement(s).do \in {"delete", "commit"} /\ WaitsFor(s) = {}
  BY <1>1, ClearsDeletes
<1>4. CASE Looked(s) \/ \E t : Listed(s, t)
  <2>1. Runs(s) /\ Statement(s).do \in Reading
    BY <1>4 DEF Looked, Listed, Proceeds, Reading
  <2>2. Books(s)
    BY <1>1, <1>3, <2>1 DEF Reading
  <2> QED BY <1>1, <1>4, <2>2, ReadBooks
<1>5. CASE DeleteWaits(s)
  <2>1. Runs(s) /\ WaitsFor(s) # {}
    BY <1>5 DEF DeleteWaits, Deleting, Writes
  <2>2. Books(s)
    BY <1>1, <1>3, <2>1
  <2>3. /\ UNCHANGED <<db, pruned>> /\ todo'[s] = todo[s] /\ call'[s] = call[s]
        /\ sight'[s] = sight[s] /\ inserted'[s] = inserted[s] /\ deleted'[s] = deleted[s]
    BY <1>5 DEF DeleteWaits, ghosts
  <2> QED BY <2>2, <2>3, BooksStay
<1>6. CASE Fails(s)
  BY <1>6 DEF Fails, Runs
<1>7. CASE Keeps(s)
  BY <1>7, ContinuesTold DEF Keeps
<1>8. ASSUME NEW e, Answered(s, e) PROVE Books(s)'
  <2>1. Rests(s) /\ Continues(s) /\ UNCHANGED <<inserted, deleted>>
    BY <1>8 DEF Answered, ScriptInv
  <2>2. inserted'[s] = NoRows /\ deleted'[s] = NoRows
    BY <2>1 DEF Rests
  <2> QED BY <2>1, <2>2, ContinuesTold
<1>9. ASSUME NEW t, Removed(s, t) PROVE Clears(s)' \/ Books(s)'
  <2>1. Runs(s)
    BY <1>9 DEF Removed, Sent, Proceeds
  <2> QED BY <1>1, <1>9, <2>1, RemoveClears, RemoveBooks
<1>10. ASSUME NEW t, NEW news, Added(s, t, news) PROVE Books(s)'
  <2>1. Runs(s) /\ Statement(s).do \in Inserting
    BY <1>10 DEF Added, Sent, Proceeds
  <2>2. Books(s)
    BY <1>1, <1>3, <2>1 DEF Inserting
  <2> QED BY <1>1, <1>10, <2>2, AddBooks
<1>11. ASSUME NEW t, NEW olds, NEW news, Replaced(s, t, olds, news) PROVE Books(s)'
  <2>1. Runs(s) /\ Statement(s).do \in Replacing \ {"delete"}
    BY <1>11 DEF Replaced, Sent, Proceeds
  <2>2. Books(s)
    BY <1>1, <1>3, <2>1 DEF Replacing
  <2> QED BY <1>1, <1>11, <2>2, ReplaceBooks
<1>12. ASSUME NEW t, NEW id, Parted(s, t, id) PROVE Clears(s)' \/ Books(s)'
  <2>1. Runs(s)
    BY <1>12 DEF Parted, Deleting, Writes
  <2> QED BY <1>1, <1>12, <2>1, PartClears, PartBooks
<1> QED BY <1>2, <1>4, <1>5, <1>6, <1>7, <1>8, <1>9, <1>10, <1>11, <1>12 DEF Does

-----------------------------------------------------------------------------
(* What a commit leaves.                                                   *)

\* Nothing is left to send of the transaction.
LEMMA CommitIsLast ==
  ASSUME ScriptInv, NEW s \in Sessions, Keeps(s)
  PROVE  \A n \in DOMAIN todo[s] : todo[s][n].do = "commit"
<1>1. Runs(s) /\ Statement(s).do = "commit"
  BY DEF Keeps
<1>2. IsScript(todo[s]) /\ todo[s] # <<>> /\ Tail(todo[s]) = <<>> /\ Statement(s) = todo[s][1]
  BY <1>1, FirstStatement DEF WellFormed, Runs
<1>3. Len(todo[s]) = 1 /\ DOMAIN todo[s] = 1 .. Len(todo[s])
  BY <1>2, ScriptTail
<1>4. \A n \in DOMAIN todo[s] : n = 1
  BY <1>3
<1> QED BY <1>1, <1>2, <1>4

\* What is stored after the commit of a transaction.
LEMMA KeptRows ==
  ASSUME ScriptInv, NEW s \in Sessions, Books(s), Keeps(s)
  PROVE  /\ \A t \in Tables : db'[t] = View(s, t)
         /\ db'["audit_entries"] = db["audit_entries"] \cup inserted[s]["audit_entries"]
         /\ pruned \subseteq pruned'
         /\ \A action, target : Entered(s, action, target) => Audited(action, target)'
         /\ \A t \in {"events", "outbox_messages"} : \A q \in db[t] :
              \/ <<t, q.id>> \in pruned'
              \/ \E r \in db'[t] : Same(r, q) /\ (r = q \/ r \in inserted[s][t])
<1>1. \A t \in Tables : db'[t] = View(s, t)
  BY DEF Keeps
<1>2. /\ "audit_entries" \in Tables /\ {"events", "outbox_messages"} \subseteq Tables
  BY DEF Tables
<1>3. db'["audit_entries"] = db["audit_entries"] \cup inserted[s]["audit_entries"]
  BY <1>1, <1>2 DEF Books, OneEntry, View
<1>4. pruned \subseteq pruned'
  BY DEF Keeps
<1>5. ASSUME NEW action, NEW target, Entered(s, action, target)
      PROVE  Audited(action, target)'
  <2>1. ~ \E n \in DOMAIN todo[s] : IsEntry(todo[s][n], action, target)
    BY CommitIsLast DEF IsEntry
  <2> QED BY <1>3, <1>5, <2>1 DEF Entered, Audited
<1>6. ASSUME NEW t \in {"events", "outbox_messages"}, NEW q \in db[t], <<t, q.id>> \notin pruned'
      PROVE  \E r \in db'[t] : Same(r, q) /\ (r = q \/ r \in inserted[s][t])
  <2>1. CASE q \notin deleted[s][t]
    BY <1>1, <1>2, <2>1 DEF View, Same
  <2>2. CASE q \in deleted[s][t]
    <3>1. ~Pruning(s)
      BY <1>6, <2>2 DEF Keeps, Pruning
    <3>2. PICK r \in inserted[s][t] : Same(r, q)
      BY <1>2, <2>2, <3>1 DEF Books, Replenishes, Kept
    <3> QED BY <1>1, <1>2, <3>2 DEF View
  <2> QED BY <2>1, <2>2
<1> QED BY <1>1, <1>3, <1>4, <1>5, <1>6

\* The log grows by one entry at most.
LEMMA KeptLog ==
  ASSUME ScriptInv, Numbered, NEW s \in Sessions, Books(s), Keeps(s)
  PROVE  /\ Numbered' /\ Length \in Nat /\ Length' \in Nat
         /\ inserted[s]["audit_entries"] = {} => Length' = Length
         /\ inserted[s]["audit_entries"] # {} => Length' = Length + 1
<1>1. PICK N, L : N = Length /\ L = db["audit_entries"]
  OBVIOUS
<1>2. /\ N \in Nat /\ IsFiniteSet(L) /\ N = Cardinality(L) /\ {a.id : a \in L} = 1 .. N
  BY <1>1, FS_CardinalityType DEF Numbered, Length
<1>3. PICK S : S = inserted[s]["audit_entries"]
  OBVIOUS
<1>4. PICK M : M = db'["audit_entries"]
  OBVIOUS
<1>5. M = L \cup S
  BY <1>1, <1>3, <1>4, KeptRows
<1>6. CASE S = {}
  <2>1. M = L
    BY <1>5, <1>6
  <2> QED BY <1>1, <1>2, <1>3, <1>4, <1>6, <2>1 DEF Numbered, Length
<1>7. CASE S # {}
  <2>1. PICK a \in S : S = {a} /\ a.id = N + 1
    BY <1>1, <1>3, <1>7 DEF Books, OneEntry, IsNext
  <2>2. a \notin L
    <3>1. a.id \notin 1 .. N
      BY <1>2, <2>1
    <3> QED BY <1>2, <3>1
  <2>3. M = L \cup {a}
    BY <1>5, <2>1
  <2>4. IsFiniteSet(M) /\ Cardinality(M) = N + 1
    BY <1>2, <2>2, <2>3, FS_AddElement
  <2>5. {b.id : b \in M} = {b.id : b \in L} \cup {a.id}
    BY <2>3
  <2>6. {b.id : b \in M} = 1 .. N + 1
    BY <1>2, <2>1, <2>5
  <2> QED BY <1>1, <1>2, <1>3, <1>4, <1>7, <2>4, <2>6 DEF Numbered, Length
<1> QED BY <1>6, <1>7

LEMMA KeptTogether ==
  ASSUME ScriptInv, Shaped, ~overlapped, CommittedTogether, Numbered, NEW s \in Sessions,
         Books(s), Keeps(s)
  PROVE  CommittedTogether'
<1>1. /\ \A t \in Tables : db'[t] = View(s, t)
      /\ pruned \subseteq pruned'
      /\ \A action, target : Entered(s, action, target) => Audited(action, target)'
      /\ \A t \in {"events", "outbox_messages"} : \A q \in db[t] :
           <<t, q.id>> \in pruned' \/ \E r \in db'[t] : Same(r, q)
  BY KeptRows
<1>2. \A action, target : Audited(action, target) => Audited(action, target)'
  BY <1>1 DEF Entered
<1>3. /\ "events" \in Tables /\ "outbox_messages" \in Tables
      /\ DOMAIN Creation \subseteq Tables /\ "events" \in DOMAIN Creation
      /\ Creation["events"] = "event.ingested"
  BY DEF Tables, Creation
<1>4. /\ \A r \in db["events"] : IsRow("events", r)
      /\ \A m \in db["outbox_messages"] : IsRow("outbox_messages", m)
      /\ \A r \in inserted[s]["events"] : IsRow("events", r)
      /\ \A m \in inserted[s]["outbox_messages"] : IsRow("outbox_messages", m)
  BY <1>3 DEF Shaped
<1>5. ASSUME NEW r \in db'["events"] PROVE Audited("event.ingested", r.event)'
  <2>1. CASE r \in db["events"]
    BY <1>2, <2>1 DEF CommittedTogether
  <2>2. CASE r \in inserted[s]["events"]
    <3>1. Entered(s, Creation["events"], Subject("events", r))
      BY <1>3, <2>2 DEF Books, Registers
    <3>2. Entered(s, "event.ingested", r.event)
      BY <1>3, <3>1 DEF Subject
    <3> QED BY <1>1, <3>2
  <2> QED BY <1>1, <1>3, <2>1, <2>2 DEF View
<1>6. ASSUME NEW t \in DOMAIN Creation \ {"events"}, NEW r \in db'[t]
      PROVE  Audited(Creation[t], r.id)'
  <2>1. PICK action, target : action = Creation[t] /\ target = r.id
    OBVIOUS
  <2>2. CASE r \in db[t]
    BY <1>2, <2>1, <2>2 DEF CommittedTogether
  <2>3. CASE r \in inserted[s][t]
    <3>1. Entered(s, Creation[t], Subject(t, r))
      BY <2>3 DEF Books, Registers
    <3>2. Entered(s, action, target)
      BY <2>1, <3>1 DEF Subject
    <3> QED BY <1>1, <2>1, <3>2
  <2> QED BY <1>1, <1>3, <2>2, <2>3 DEF View
<1>7. ASSUME NEW r \in db'["events"], <<"outbox_messages", r.id>> \notin pruned'
      PROVE  \E m \in db'["outbox_messages"] : m.id = r.id
  <2>1. CASE r \in db["events"]
    <3>1. PICK m \in db["outbox_messages"] : m.id = r.id
      BY <1>1, <1>7, <2>1 DEF CommittedTogether
    <3>2. PICK o \in db'["outbox_messages"] : Same(o, m)
      BY <1>1, <1>7, <3>1
    <3> QED BY <1>4, <3>1, <3>2 DEF Same, IsRow
  <2>2. CASE r \in inserted[s]["events"]
    <3>1. HasMessage(s, r)
      BY <2>2 DEF Books, Matches
    <3>2. ~ \E n \in DOMAIN todo[s] : IsMessage(todo[s][n], r.event)
      BY CommitIsLast DEF IsMessage, Enqueues, Creates
    <3> QED BY <1>1, <1>3, <1>7, <3>1, <3>2 DEF HasMessage
  <2> QED BY <1>1, <1>3, <2>1, <2>2 DEF View
<1>8. ASSUME NEW m \in db'["outbox_messages"], <<"events", m.id>> \notin pruned'
      PROVE  \E r \in db'["events"] : r.event = m.event
  <2>1. CASE m \in db["outbox_messages"]
    <3>1. PICK r \in db["events"] : r.event = m.event
      BY <1>1, <1>8, <2>1 DEF CommittedTogether
    <3>2. r.id = m.id /\ "event" \in DOMAIN r
      BY <1>4, <2>1, <3>1 DEF IsRow
    <3>3. PICK p \in db'["events"] : Same(p, r)
      BY <1>1, <1>8, <3>2
    <3> QED BY <3>1, <3>2, <3>3 DEF Same
  <2>2. CASE m \in inserted[s]["outbox_messages"]
    <3>1. HasEvent(s, m)
      BY <2>2 DEF Books, Matches
    <3> QED BY <1>1, <1>3, <1>8, <3>1 DEF HasEvent
  <2> QED BY <1>1, <1>3, <2>1, <2>2 DEF View
<1>9. \A a \in db'["audit_entries"] : a.id \in 1 .. Cardinality(db'["audit_entries"])
  BY KeptLog DEF Numbered, Length
<1>10. (\A r \in db["events"] : Audited("event.ingested", r.event))'
  BY <1>5
<1>11. (\A t \in DOMAIN Creation \ {"events"} : \A r \in db[t] : Audited(Creation[t], r.id))'
  BY <1>6
<1> QED BY <1>7, <1>8, <1>9, <1>10, <1>11 DEF CommittedTogether

\* A reset leaves an empty store.
LEMMA ClearedTogether ==
  ASSUME ScriptInv, NEW s \in Sessions, Clears(s), Keeps(s)
  PROVE  CommittedTogether' /\ Numbered'
<1>1. \A t \in Tables : db'[t] = {}
  <2>1. \A t \in Tables : db'[t] = View(s, t)
    BY DEF Keeps
  <2>2. \A t \in Tables : View(s, t) = {}
    BY CommitIsLast DEF Clears
  <2> QED BY <2>1, <2>2
<1>2. /\ DOMAIN Creation \subseteq Tables
      /\ {"events", "outbox_messages", "audit_entries"} \subseteq Tables
  BY DEF Creation, Tables
<1>3. IsFiniteSet({}) /\ Cardinality({}) = 0
  BY FS_EmptySet
<1>4. db'["audit_entries"] = {}
  BY <1>1, <1>2
<1>5. Numbered'
  <2>1. 1 .. 0 = {}
    OBVIOUS
  <2>2. {a.id : a \in {}} = {}
    OBVIOUS
  <2> QED BY <1>3, <1>4, <2>1, <2>2 DEF Numbered, Length
<1>6. CommittedTogether'
  BY <1>1, <1>2 DEF CommittedTogether
<1> QED BY <1>5, <1>6

-----------------------------------------------------------------------------
(* The transactions of the other sessions.                                 *)

\* What another transaction sees of a row after a commit.
LEMMA SeenAfter ==
  ASSUME ScriptInv, RowInv, NEW s \in Sessions, Books(s), Keeps(s), Leaves(s),
         NEW o \in Sessions \ {s}, NEW t \in {"events", "outbox_messages"}, NEW q \in View(o, t)
  PROVE  \/ <<t, q.id>> \in pruned'
         \/ \E r \in View(o, t)' : Same(r, q)
<1>1. /\ inserted'[o] = inserted[o] /\ deleted'[o] = deleted[o]
  BY DEF Leaves
<1>2. t \in Tables
  BY DEF Tables
<1>3. CASE q \in inserted[o][t]
  BY <1>1, <1>3 DEF View, Same
<1>4. CASE q \in db[t] /\ q \notin deleted[o][t] /\ <<t, q.id>> \notin pruned'
  <2>1. PICK r \in db'[t] : Same(r, q) /\ (r = q \/ r \in inserted[s][t])
    BY <1>4, KeptRows
  <2>2. r \notin deleted[o][t]
    BY <1>2, <1>4, <2>1 DEF RowInv, LockInv, Locks
  <2> QED BY <1>1, <2>1, <2>2 DEF View
<1> QED BY <1>3, <1>4 DEF View

LEMMA OtherMatches ==
  ASSUME ScriptInv, RowInv, Shaped, NEW s \in Sessions, Books(s), Keeps(s), Leaves(s),
         NEW o \in Sessions \ {s}, Books(o)
  PROVE  Matches(o)'
<1>1. /\ inserted'[o] = inserted[o] /\ deleted'[o] = deleted[o] /\ todo'[o] = todo[o]
  BY DEF Leaves
<1>2. pruned \subseteq pruned'
  BY KeptRows
<1>3. "events" \in Tables /\ "outbox_messages" \in Tables
  BY DEF Tables
<1>4. ASSUME NEW t \in Tables, NEW r \in View(o, t) PROVE IsRow(t, r)
  BY <1>4 DEF Shaped, View
<1>5. ASSUME NEW r \in inserted'[o]["events"] PROVE HasMessage(o, r)'
  <2>1. HasMessage(o, r)
    BY <1>1, <1>5 DEF Books, Matches
  <2>2. ASSUME NEW m \in View(o, "outbox_messages"), m.id = r.id PROVE HasMessage(o, r)'
    <3>1. "id" \in DOMAIN m
      BY <1>3, <1>4 DEF IsRow
    <3>2. \/ <<"outbox_messages", m.id>> \in pruned'
          \/ \E p \in View(o, "outbox_messages")' : Same(p, m)
      BY SeenAfter
    <3> QED BY <2>2, <3>1, <3>2 DEF HasMessage, Same
  <2> QED BY <1>1, <1>2, <2>1, <2>2 DEF HasMessage
<1>6. ASSUME NEW m \in inserted'[o]["outbox_messages"] PROVE HasEvent(o, m)'
  <2>1. HasEvent(o, m)
    BY <1>1, <1>6 DEF Books, Matches
  <2>2. ASSUME NEW r \in View(o, "events"), r.event = m.event PROVE HasEvent(o, m)'
    <3>1. "event" \in DOMAIN r /\ r.id = EventId[r.event]
      BY <1>3, <1>4 DEF IsRow
    <3>2. m.id = EventId[m.event]
      BY <1>1, <1>3, <1>6 DEF Shaped, IsRow
    <3>3. \/ <<"events", r.id>> \in pruned'
          \/ \E p \in View(o, "events")' : Same(p, r)
      BY SeenAfter
    <3>4. r.id = m.id
      BY <2>2, <3>1, <3>2
    <3> QED BY <2>2, <3>1, <3>3, <3>4 DEF HasEvent, Same
  <2> QED BY <1>1, <1>2, <2>1, <2>2 DEF HasEvent
<1> QED BY <1>5, <1>6 DEF Matches

LEMMA OtherBooks ==
  ASSUME ScriptInv, RowInv, Shaped, Numbered, NEW s \in Sessions, Books(s), Keeps(s), Leaves(s),
         NEW o \in Sessions \ {s}, Books(o)
  PROVE  Books(o)'
<1>1. /\ inserted'[o] = inserted[o] /\ deleted'[o] = deleted[o] /\ todo'[o] = todo[o]
      /\ call'[o] = call[o] /\ sight'[o] = sight[o]
  BY DEF Leaves
<1>2. Statement(o)' = Statement(o)
  BY <1>1 DEF Statement
<1>3. ASSUME NEW action, NEW target, Entered(o, action, target) PROVE Entered(o, action, target)'
  <2>1. Audited(action, target) => Audited(action, target)'
    BY KeptRows DEF Entered
  <2> QED BY <1>1, <1>3, <2>1 DEF Entered
<1>4. Registers(o)' /\ Booked(todo'[o])
  BY <1>1, <1>3 DEF Books, Registers
<1>5. Follows(o)' /\ Replenishes(o)'
  BY <1>1, <1>2 DEF Books, Follows, Replenishes, Pruning, Kept
<1>6. OneEntry(o)'
  <2>1. PICK S : S = inserted[o]["audit_entries"]
    OBVIOUS
  <2>2. PICK R : R = inserted[s]["audit_entries"]
    OBVIOUS
  <2>3. PICK N, M : N = Length /\ M = Length'
    OBVIOUS
  <2>4. /\ N \in Nat /\ M \in Nat /\ (R = {} => M = N) /\ (R # {} => M = N + 1)
    BY <2>2, <2>3, KeptLog
  <2>5. S # {} => M = N
    <3> SUFFICES ASSUME S # {}, R # {} PROVE FALSE
      BY <2>4
    <3>1. PICK a \in R : a.id = N + 1
      BY <2>2, <2>3 DEF Books, OneEntry, IsNext
    <3>2. PICK b \in S : b.id = N + 1
      BY <2>1, <2>3 DEF Books, OneEntry, IsNext
    <3>3. "audit_entries" \in Tables
      BY DEF Tables
    <3> QED BY <2>1, <2>2, <3>1, <3>2, <3>3 DEF RowInv, LockInv, Locks
  <2>6. S = {} \/ (IsNext(S)' /\ \A n \in DOMAIN todo'[o] : todo'[o][n].do # "insert_entry")
    <3>1. S = {} \/ (IsNext(S) /\ \A n \in DOMAIN todo[o] : todo[o][n].do # "insert_entry")
      BY <2>1 DEF Books, OneEntry
    <3>2. S # {} /\ IsNext(S) => IsNext(S)'
      BY <2>3, <2>5 DEF IsNext
    <3> QED BY <1>1, <3>1, <3>2
  <2>7. Statement(o)'.do = "insert_entry" => sight'[o] \in 0 .. M
    <3>1. Statement(o).do = "insert_entry" => sight[o] \in 0 .. N
      BY <2>3 DEF Books, OneEntry
    <3>2. \A x \in 0 .. N : x \in 0 .. M
      BY <2>4
    <3> QED BY <1>1, <1>2, <3>1, <3>2
  <2>8. deleted'[o]["audit_entries"] = {} /\ S = inserted'[o]["audit_entries"]
    BY <1>1, <2>1 DEF Books, OneEntry
  <2> QED BY <2>3, <2>6, <2>7, <2>8 DEF OneEntry
<1> QED BY <1>4, <1>5, <1>6, OtherMatches DEF Books

LEMMA OtherTold ==
  ASSUME ScriptInv, RowInv, TogetherInv, NEW s \in Sessions, Does(s), Leaves(s), ~overlapped',
         NEW o \in Sessions \ {s}, Runs(o)'
  PROVE  Clears(o)' \/ Books(o)'
<1>1. /\ Shaped /\ ~overlapped /\ Numbered /\ Alone(s) /\ Alone(o)
      /\ Runs(s) => Clears(s) \/ Books(s)
      /\ Runs(o) => Clears(o) \/ Books(o)
  <2>1. ~overlapped
    BY CallGoesOn DEF Begun
  <2> QED BY <2>1 DEF TogetherInv, Told
<1>2. /\ inserted'[o] = inserted[o] /\ deleted'[o] = deleted[o] /\ todo'[o] = todo[o]
      /\ call'[o] = call[o] /\ sight'[o] = sight[o] /\ listed'[o] = listed[o]
  BY DEF Leaves
<1>3. Runs(o)
  BY <1>2 DEF Runs
<1>4. CASE Keeps(s)
  <2>1. Runs(s)
    BY <1>4 DEF Keeps
  <2>2. Books(s) /\ Books(o)
    BY <1>1, <1>3, <2>1 DEF Clears, Alone
  <2> QED BY <1>1, <1>4, <2>2, OtherBooks
<1>5. CASE ~Keeps(s)
  <2>1. db' = db /\ pruned' = pruned
    BY <1>5, CallGoesOn DEF Begun
  <2>2. CASE Books(o)
    BY <1>2, <2>1, <2>2, BooksStay
  <2>3. CASE Clears(o)
    BY <1>2, <2>1, <2>3 DEF Clears, View, Statement
  <2> QED BY <1>1, <1>3, <2>2, <2>3
<1> QED BY <1>4, <1>5

LEMMA InitNumbered == ASSUME Init PROVE Numbered /\ Length = Len(Earlier)
<1>1. PICK N : N = Len(Earlier)
  OBVIOUS
<1>2. N \in Nat /\ DOMAIN Earlier = 1 .. N
  BY <1>1, StoreAssumption
<1>3. PICK entry : entry = [n \in 1 .. N |-> [id |-> n, action |-> "event.ingested", target |-> Earlier[n]]]
  OBVIOUS
<1>4. PICK L : L = db["audit_entries"]
  OBVIOUS
<1>5. L = {entry[n] : n \in 1 .. N} /\ \A n \in 1 .. N : entry[n].id = n
  <2>1. L = {[id |-> n, action |-> "event.ingested", target |-> Earlier[n]] : n \in DOMAIN Earlier}
    BY <1>4 DEF Init, NoRows, Tables
  <2>2. \A n \in 1 .. N : entry[n] = [id |-> n, action |-> "event.ingested", target |-> Earlier[n]]
    BY <1>3
  <2>3. ASSUME NEW n \in 1 .. N PROVE entry[n].id = n
    <3>1. PICK a : a = [id |-> n, action |-> "event.ingested", target |-> Earlier[n]]
      OBVIOUS
    <3> QED BY <2>2, <3>1
  <2>4. \A a \in L : \E n \in 1 .. N : a = entry[n]
    <3> SUFFICES ASSUME NEW a \in L PROVE \E n \in 1 .. N : a = entry[n]
      OBVIOUS
    <3>1. PICK n \in DOMAIN Earlier :
            a = [id |-> n, action |-> "event.ingested", target |-> Earlier[n]]
      BY <2>1
    <3> QED BY <1>2, <2>2, <3>1
  <2>5. \A n \in 1 .. N : entry[n] \in L
    BY <1>2, <2>1, <2>2
  <2> QED BY <2>3, <2>4, <2>5
<1>6. entry \in Bijection(1 .. N, L)
  <2>1. entry \in [1 .. N -> L]
    BY <1>3, <1>5
  <2>2. \A m, n \in 1 .. N : entry[m] = entry[n] => m = n
    BY <1>5
  <2>3. \A a \in L : \E n \in 1 .. N : entry[n] = a
    BY <1>5
  <2> QED BY <2>1, <2>2, <2>3 DEF Bijection, Injection, Surjection, IsInjective
<1>7. IsFiniteSet(1 .. N) /\ Cardinality(1 .. N) = N
  BY <1>2, FS_Interval
<1>8. IsFiniteSet(L) /\ Cardinality(L) = N
  <2>1. ExistsBijection(1 .. N, L)
    BY <1>6 DEF ExistsBijection
  <2> QED BY <1>7, <2>1, FS_Bijection
<1>9. {a.id : a \in L} = 1 .. N
  BY <1>5
<1> QED BY <1>1, <1>4, <1>8, <1>9 DEF Numbered, Length

LEMMA InitTogether == ASSUME Init PROVE TogetherInv
<1>1. /\ db["events"] = {EventRow(Earlier[n]) : n \in DOMAIN Earlier}
      /\ db["outbox_messages"] = {NewMessage(Earlier[n]) : n \in DOMAIN Earlier}
      /\ db["audit_entries"] = {[id |-> n, action |-> "event.ingested", target |-> Earlier[n]] :
                                  n \in DOMAIN Earlier}
      /\ \A t \in Tables \ {"events", "outbox_messages", "audit_entries"} : db[t] = {}
  BY DEF Init, NoRows, Tables
<1>2. \A s \in Sessions : ~Runs(s) /\ call[s] = "none" /\ \A t \in Tables : inserted[s][t] = {}
  BY DEF Init, Runs, NoRows
<1>3. Shaped
  BY <1>1, <1>2 DEF Shaped, IsRow, EventRow, NewMessage
<1>4. Numbered
  BY InitNumbered
<1>5. CommittedTogether
  <2>1. \A n \in DOMAIN Earlier : Audited("event.ingested", Earlier[n])
    <3> SUFFICES ASSUME NEW n \in DOMAIN Earlier PROVE Audited("event.ingested", Earlier[n])
      OBVIOUS
    <3>1. PICK a : a = [id |-> n, action |-> "event.ingested", target |-> Earlier[n]]
      OBVIOUS
    <3>2. a \in db["audit_entries"] /\ a.action = "event.ingested" /\ a.target = Earlier[n]
      BY <1>1, <3>1
    <3> QED BY <3>2 DEF Audited
  <2>2. \A r \in db["events"] : \E n \in DOMAIN Earlier : r.event = Earlier[n] /\ r.id = EventId[Earlier[n]]
    BY <1>1 DEF EventRow
  <2>3. \A m \in db["outbox_messages"] :
          \E n \in DOMAIN Earlier : m.event = Earlier[n] /\ m.id = EventId[Earlier[n]]
    BY <1>1 DEF NewMessage
  <2>4. \A n \in DOMAIN Earlier : \E r \in db["events"] : r.event = Earlier[n]
    <3> SUFFICES ASSUME NEW n \in DOMAIN Earlier PROVE \E r \in db["events"] : r.event = Earlier[n]
      OBVIOUS
    <3>1. PICK r : r = EventRow(Earlier[n])
      OBVIOUS
    <3>2. r \in db["events"] /\ r.event = Earlier[n]
      BY <1>1, <3>1 DEF EventRow
    <3> QED BY <3>2
  <2>5. \A n \in DOMAIN Earlier : \E m \in db["outbox_messages"] : m.id = EventId[Earlier[n]]
    <3> SUFFICES ASSUME NEW n \in DOMAIN Earlier
                 PROVE  \E m \in db["outbox_messages"] : m.id = EventId[Earlier[n]]
      OBVIOUS
    <3>1. PICK m : m = NewMessage(Earlier[n])
      OBVIOUS
    <3>2. m \in db["outbox_messages"] /\ m.id = EventId[Earlier[n]]
      BY <1>1, <3>1 DEF NewMessage
    <3> QED BY <3>2
  <2>6. \A t \in DOMAIN Creation \ {"events"} : db[t] = {}
    BY <1>1 DEF Creation, Tables
  <2>7. \A a \in db["audit_entries"] : a.id \in 1 .. Cardinality(db["audit_entries"])
    BY <1>4 DEF Numbered, Length
  <2>8. \A r \in db["events"] : Audited("event.ingested", r.event)
    BY <2>1, <2>2
  <2>9. \A r \in db["events"] : \E m \in db["outbox_messages"] : m.id = r.id
    BY <2>2, <2>5
  <2>10. \A m \in db["outbox_messages"] : \E r \in db["events"] : r.event = m.event
    BY <2>3, <2>4
  <2> QED BY <2>6, <2>7, <2>8, <2>9, <2>10 DEF CommittedTogether
<1>6. \A s \in Sessions : Told(s)
  BY <1>2 DEF Told, Alone
<1> QED BY <1>3, <1>4, <1>5, <1>6 DEF TogetherInv

LEMMA TogetherKept ==
  ASSUME ScriptInv, RowInv, AccountInv, TogetherInv, NEW s \in Sessions, Does(s), Leaves(s),
         ~overlapped'
  PROVE  CommittedTogether' /\ Numbered' /\ \A u \in Sessions : Told(u)'
<1>1. ~overlapped
  BY CallGoesOn DEF Begun
<1>2. /\ Shaped /\ CommittedTogether /\ Numbered /\ \A u \in Sessions : Alone(u)
      /\ Runs(s) => Clears(s) \/ Books(s)
  BY <1>1 DEF TogetherInv, Told
<1>3. \A u \in Sessions : Alone(u)'
  BY <1>2, AloneKept
<1>4. \A u \in Sessions : Told(u)'
  <2>1. Told(s)'
    BY <1>3, OwnTold DEF Told
  <2>2. \A o \in Sessions \ {s} : Told(o)'
    BY <1>3, OtherTold DEF Told
  <2> QED BY <2>1, <2>2
<1>5. CommittedTogether' /\ Numbered'
  <2>1. CASE Keeps(s)
    <3>1. Runs(s)
      BY <2>1 DEF Keeps
    <3>2. CASE Clears(s)
      BY <2>1, <3>2, ClearedTogether
    <3>3. CASE Books(s)
      BY <1>1, <1>2, <2>1, <3>3, KeptTogether, KeptLog
    <3> QED BY <1>2, <3>1, <3>2, <3>3
  <2>2. CASE ~Keeps(s)
    <3>1. db' = db /\ pruned' = pruned
      BY <2>2, CallGoesOn DEF Begun
    <3>2. CommittedTogether'
      BY <1>1, <1>2, <3>1 DEF CommittedTogether, Audited
    <3>3. Numbered'
      BY <1>2, <3>1 DEF Numbered, Length
    <3> QED BY <3>2, <3>3
  <2> QED BY <2>1, <2>2
<1> QED BY <1>4, <1>5

LEMMA StepTogether ==
  ASSUME ScriptInv, RowInv, AccountInv, TogetherInv, [Next]_vars
  PROVE  TogetherInv'
<1>1. CASE Next
  <2>1. PICK s \in Sessions : Does(s) /\ Leaves(s)
    BY <1>1, Doing DEF RowInv
  <2>2. Shaped'
    BY <2>1, ShapedKept DEF TogetherInv
  <2>3. ~overlapped' => CommittedTogether' /\ Numbered' /\ \A u \in Sessions : Told(u)'
    BY <2>1, TogetherKept
  <2> QED BY <2>2, <2>3 DEF TogetherInv
<1>2. CASE UNCHANGED vars
  <2>1. UNCHANGED <<db, pruned, overlapped, inserted, deleted, sight, listed, call, todo>>
    BY <1>2 DEF vars, transaction, ghosts
  <2>2. Shaped'
    BY <2>1 DEF TogetherInv, Shaped
  <2>3. ASSUME ~overlapped' PROVE CommittedTogether' /\ Numbered'
    <3>1. CommittedTogether /\ Numbered
      BY <2>1, <2>3 DEF TogetherInv
    <3>2. CommittedTogether'
      BY <2>1, <3>1 DEF CommittedTogether, Audited
    <3>3. Numbered'
      BY <2>1, <3>1 DEF Numbered, Length
    <3> QED BY <3>2, <3>3
  <2>4. ASSUME ~overlapped', NEW s \in Sessions PROVE Told(s)'
    <3>1. Alone(s) /\ (Runs(s) => Clears(s) \/ Books(s))
      BY <2>1, <2>4 DEF TogetherInv, Told
    <3>2. Alone(s)' /\ (Runs(s)' => Runs(s))
      BY <2>1, <3>1 DEF Alone, Runs
    <3>3. Clears(s) => Clears(s)'
      BY <2>1 DEF Clears, View, Statement
    <3>4. Books(s) => Books(s)'
      BY <2>1, BooksStay
    <3> QED BY <3>1, <3>2, <3>3, <3>4 DEF Told
  <2> QED BY <2>2, <2>3, <2>4 DEF TogetherInv
<1> QED BY <1>1, <1>2

\* Unless a reset ran beside another call, what a transaction writes becomes
\* visible together, however the transactions interleave: a row with the entry
\* of its creation, an event with its message, and a log without a gap.
THEOREM TransactionsStayTogether == Spec => []CommittedTogether
<1>1. Init => ScriptInv /\ RowInv /\ AccountInv /\ TogetherInv
  BY InitScript, InitRows, InitAccounts, InitTogether
<1>2. ScriptInv /\ RowInv /\ AccountInv /\ TogetherInv /\ [Next]_vars =>
        (ScriptInv /\ RowInv /\ AccountInv /\ TogetherInv)'
  BY StepScript, StepRows, StepAccounts, StepTogether
<1>3. TogetherInv => CommittedTogether
  BY DEF TogetherInv, CommittedTogether
<1> QED BY <1>1, <1>2, <1>3, PTL DEF Spec

-----------------------------------------------------------------------------
(* Who waits for whom.                                                     *)

\* Only a prune and a reset delete.
SparesInv ==
  \A s \in Sessions : call[s] \in {"prune_retention", "reset_demo_data"} \/ Spares(todo[s])

LEMMA InitSpares == ASSUME Init PROVE SparesInv
BY QuietParts DEF Init, SparesInv

LEMMA SparesTail ==
  ASSUME NEW q, WellFormed(q), Spares(q)
  PROVE  Spares(Tail(q))
<1>1. IsScript(q) /\ q # <<>>
  BY DEF WellFormed
<1>2. \A n \in DOMAIN Tail(q) : n + 1 \in DOMAIN q /\ Tail(q)[n] = q[n + 1]
  BY <1>1, ScriptTail
<1> QED BY <1>2 DEF Spares

\* Nor does the rest of a call's script, or the next of its transactions.
LEMMA SparesKept ==
  ASSUME ScriptInv, SparesInv, NEW s \in Sessions, Does(s),
         call'[s] \notin {"prune_retention", "reset_demo_data"}
  PROVE  Spares(todo'[s])
<1>1. CASE Begun(s)
  BY <1>1 DEF Begun, Suits
<1>2. CASE Proceeds(s)
  <2>1. CASE Tail(todo[s]) = <<>>
    BY <1>2, <2>1, QuietParts DEF Proceeds
  <2>2. CASE Tail(todo[s]) # <<>>
    <3>1. Spares(todo[s]) /\ WellFormed(todo[s])
      BY <1>2, <2>2 DEF Proceeds, SparesInv, ScriptInv
    <3> QED BY <1>2, <3>1, SparesTail DEF Proceeds
  <2> QED BY <2>1, <2>2
<1>3. CASE DeleteWaits(s) \/ \E t, id : Parted(s, t, id)
  BY <1>3 DEF DeleteWaits, Parted, SparesInv
<1>4. CASE Fails(s)
  BY <1>4, QuietParts DEF Fails
<1>5. CASE Continues(s)
  <2>1. todo'[s] = <<>> \/ \E e : todo'[s] = AddEvent(e)
    BY <1>5 DEF Continues
  <2> QED BY <2>1, QuietParts, AddEventIsWhole
<1>6. Looked(s) \/ (\E t : Listed(s, t) \/ Removed(s, t)) \/ (\E t, news : Added(s, t, news))
        \/ (\E t, olds, news : Replaced(s, t, olds, news)) => Proceeds(s)
  BY DEF Looked, Listed, Removed, Added, Replaced, Sent
<1>7. Keeps(s) \/ (\E e : Answered(s, e)) => Continues(s)
  BY DEF Keeps, Answered
<1> QED BY <1>1, <1>2, <1>3, <1>4, <1>5, <1>6, <1>7 DEF Does

LEMMA StepSpares ==
  ASSUME ScriptInv, RowInv, SparesInv, [Next]_vars
  PROVE  SparesInv'
<1>1. CASE Next
  <2>1. PICK s \in Sessions : Does(s) /\ Leaves(s)
    BY <1>1, Doing DEF RowInv
  <2>2. \A o \in Sessions \ {s} : call'[o] = call[o] /\ todo'[o] = todo[o]
    BY <2>1 DEF Leaves
  <2> QED BY <2>1, <2>2, SparesKept DEF SparesInv
<1>2. CASE UNCHANGED vars
  <2>1. UNCHANGED <<call, todo>>
    BY <1>2 DEF vars
  <2> QED BY <2>1 DEF SparesInv
<1> QED BY <1>1, <1>2

\* Who deletes without a reset is a prune, which leaves the audit log alone.
LEMMA PrunesDelete ==
  ASSUME ScriptInv, AccountInv, SparesInv, NEW s \in Sessions, Runs(s),
         call[s] # "reset_demo_data", Statement(s).do = "delete"
  PROVE  Pruning(s) /\ TableOf(Statement(s)) \in Tables \ {"audit_entries"}
<1>1. 1 \in DOMAIN todo[s] /\ Statement(s) = todo[s][1]
  BY FirstStatement
<1>2. Pruning(s)
  BY <1>1 DEF SparesInv, Spares, Pruning
<1>3. OfPrune(Statement(s)) /\ TableOf(Statement(s)) = Statement(s).table
  BY <1>2, PruneStatement DEF AccountInv
<1> QED BY <1>2, <1>3, JsonTables DEF OfPrune, Prunable

\* Who waits for a session that is about to write no higher table waits for a
\* DELETE of that table.
LEMMA WaitsForDeletes ==
  ASSUME ScriptInv, OrderInv, AccountInv, SparesInv, NEW s \in Sessions, NEW o \in WaitsFor(s),
         Writes(o), call[o] # "reset_demo_data", ~(Rank(Statement(s)) < Rank(Statement(o)))
  PROVE  Statement(o).do = "delete" /\ Rank(Statement(o)) = Rank(Statement(s))
<1>1. Writes(s) /\ o \in Sessions /\ Runs(o)
  BY DEF WaitsFor, Writes
<1>2. Statement(o).do = "delete" /\ TableOf(Statement(o)) = TableOf(Statement(s))
  BY WaitsUpwards
<1>3. PICK t \in Tables \ {"audit_entries"} : t = TableOf(Statement(o))
  BY <1>1, <1>2, PrunesDelete
<1>4. Rank(Statement(o)) = DeleteRank[t]
  BY <1>2, <1>3 DEF Rank, Inserting
<1>5. Rank(Statement(s)) \in {InsertRank[t], DeleteRank[t]}
  BY <1>2, <1>3 DEF Rank
<1>6. InsertRank[t] < DeleteRank[t]
  BY <1>3 DEF InsertRank, DeleteRank, Tables
<1> QED BY <1>2, <1>4, <1>5, <1>6

\* The deletes of a knot from its highest table.
Highest(D) ==
  {d \in D : Statement(d).do = "delete" /\ \A e \in D : ~(Rank(Statement(d)) < Rank(Statement(e)))}

LEMMA HighestIsKnot ==
  ASSUME ScriptInv, OrderInv, AccountInv, SparesInv, NEW D \in SUBSET Sessions, IsKnot(D),
         \A d \in D : call[d] # "reset_demo_data"
  PROVE  IsKnot(Highest(D))
<1>1. \A d \in D : Writes(d) /\ WaitsFor(d) \cap D # {}
  BY DEF IsKnot, WaitsFor
<1>2. ASSUME NEW d \in D PROVE Rank(Statement(d)) \in 0 .. 11
  <2>1. Runs(d) /\ IsWrite(Statement(d))
    BY <1>1, WritesAreSent DEF Writes
  <2>2. 1 \in DOMAIN todo[d] /\ Statement(d) = todo[d][1]
    BY <2>1, FirstStatement
  <2> QED BY <2>1, <2>2 DEF OrderInv, InOrder, Ascends
<1>3. ASSUME NEW d \in D, \A e \in D : ~(Rank(Statement(d)) < Rank(Statement(e)))
      PROVE  WaitsFor(d) \cap Highest(D) # {}
  <2>1. PICK o \in D : o \in WaitsFor(d)
    BY <1>1
  <2>2. Statement(o).do = "delete" /\ Rank(Statement(o)) = Rank(Statement(d))
    BY <1>1, <1>3, <2>1, WaitsForDeletes
  <2>3. o \in Highest(D)
    BY <1>3, <2>2 DEF Highest
  <2> QED BY <2>1, <2>3
<1> DEFINE Above == {11 - Rank(Statement(d)) : d \in D}
<1>4. Above # {} /\ Above \subseteq Nat
  BY <1>2 DEF IsKnot
<1>5. PICK n \in Above : \A m \in Above : ~(<<m, n>> \in OpToRel(<, Nat))
  <2> HIDE DEF Above
  <2> QED BY <1>4, WFMin, NatLessThanWellFounded
<1>6. PICK d \in D : n = 11 - Rank(Statement(d))
  OBVIOUS
<1>7. ASSUME NEW e \in D PROVE ~(Rank(Statement(d)) < Rank(Statement(e)))
  <2>1. PICK m \in Above : m = 11 - Rank(Statement(e))
    OBVIOUS
  <2>2. m \in Nat /\ n \in Nat /\ ~(m < n)
    <3> HIDE DEF Above
    <3>1. m \in Nat /\ n \in Nat
      BY <1>4
    <3> QED BY <1>5, <3>1 DEF OpToRel
  <2> QED BY <1>2, <1>6, <2>1, <2>2
<1>8. Highest(D) # {}
  BY <1>3, <1>7
<1>9. \A s \in Highest(D) : WaitsFor(s) \cap Highest(D) # {}
  BY <1>3 DEF Highest
<1> QED BY <1>8, <1>9 DEF IsKnot

\* A deadlock without a reset is one of prunes, row by row.
LEMMA DeadlocksArePrunes ==
  ASSUME ScriptInv, OrderInv, AccountInv, SparesInv
  PROVE  OnlyDeletesDeadlock
<1> SUFFICES ASSUME NEW s \in Sessions, Deadlocked(s),
                    \A o \in Sessions : call[o] # "reset_demo_data"
             PROVE  Pruning(s) /\ \E o \in Sessions \ {s} : Pruning(o)
  BY DEF OnlyDeletesDeadlock, Pruning
<1>1. PICK D \in SUBSET Sessions :
        s \in D /\ IsKnot(D) /\ \A C \in SUBSET D : IsKnot(C) => C = D
  BY DEF Deadlocked
<1>2. IsKnot(Highest(D))
  BY <1>1, HighestIsKnot
<1>3. Highest(D) = D
  BY <1>1, <1>2 DEF Highest
<1>4. PICK o \in D : o \in WaitsFor(s)
  BY <1>1 DEF IsKnot
<1>5. o # s /\ Runs(s) /\ Runs(o)
  BY <1>1, <1>4 DEF IsKnot, WaitsFor, Writes
<1>6. Statement(s).do = "delete" /\ Statement(o).do = "delete"
  BY <1>1, <1>3, <1>4 DEF Highest
<1> QED BY <1>1, <1>5, <1>6, PrunesDelete

\* Without a reset only prunes deadlock, and only with each other: every other
\* operation takes the tables in one order, and one row of each.
THEOREM OnlyDeletesKnot == Spec => []OnlyDeletesDeadlock
<1>1. Init => ScriptInv /\ OrderInv /\ RowInv /\ AccountInv /\ SparesInv
  BY InitScript, InitOrder, InitRows, InitAccounts, InitSpares
<1>2. ScriptInv /\ OrderInv /\ RowInv /\ AccountInv /\ SparesInv /\ [Next]_vars =>
        (ScriptInv /\ OrderInv /\ RowInv /\ AccountInv /\ SparesInv)'
  BY StepScript, StepOrder, StepRows, StepAccounts, StepSpares
<1>3. ScriptInv /\ OrderInv /\ AccountInv /\ SparesInv => OnlyDeletesDeadlock
  BY DeadlocksArePrunes
<1> QED BY <1>1, <1>2, <1>3, PTL DEF Spec
=============================================================================
