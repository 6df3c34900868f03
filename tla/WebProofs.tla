------------------------------ MODULE WebProofs -------------------------------
(***************************************************************************)
(* Proofs about MCWeb: of Reports, Origin, Gateway, Pages and Terminal,    *)
(* each in the product, where the other components stand still.            *)
(***************************************************************************)
EXTENDS MCWeb, Selection, Sums, SequenceTheorems, FiniteSetTheorems, WellFoundedInduction, TLAPS

\* A step of the product is one of the component that the behaviour is about.
LEMMA PartStep ==
  ASSUME [Next]_vars
  PROVE  /\ part' = part
         /\ part = "gateway" => [G!Next]_gatewayVars
         /\ part = "pages" => [P!Next]_pagesVars
         /\ part = "terminal" => [T!Next]_terminalVars
         /\ part = "origin" => [N!Next]_originVars
         /\ part = "reports" => [E!Next]_reportVars
BY DEF Next, vars, gatewayVars, pagesVars, terminalVars, originVars, reportVars

-----------------------------------------------------------------------------
(***************************************************************************)
(* Selections                                                              *)
(***************************************************************************)

\* Every set of numbers has a smallest: what induction stands on.
LEMMA SmallestNat ==
  ASSUME NEW Nats, Nats \subseteq Nat, Nats # {}
  PROVE  \E x \in Nats : \A y \in Nats : x <= y
<1>1. IsWellFoundedOn(OpToRel(<, Nat), Nat)
  BY NatLessThanWellFounded
<1>2. PICK x \in Nats : \A y \in Nats : ~(<<y, x>> \in OpToRel(<, Nat))
  BY <1>1, WFMin, Zenon
<1>3. ASSUME NEW y \in Nats PROVE x <= y
  <2>1. x \in Nat /\ y \in Nat
    OBVIOUS
  <2>2. <<y, x>> \in Nat \X Nat /\ <<y, x>>[1] = y /\ <<y, x>>[2] = x
    BY <2>1
  <2>3. ~(y < x)
    BY <1>2, <2>2 DEF OpToRel
  <2> QED
    BY <2>1, <2>3
<1> QED
  BY <1>3

\* The function that Among takes its value from, for the first n elements.
UpTo(f, s, A, n) ==
  f = [i \in 0 .. n |-> IF i = 0 THEN <<>>
                        ELSE IF s[i] \in A THEN Append(f[i - 1], s[i]) ELSE f[i - 1]]

LEMMA UpToExists ==
  ASSUME NEW s, NEW A, NEW n \in Nat
  PROVE  \E f : UpTo(f, s, A, n)
<1> DEFINE Bad == {k \in Nat : ~\E f : UpTo(f, s, A, k)}
<1> SUFFICES ASSUME Bad # {} PROVE FALSE
  OBVIOUS
<1>1. PICK m \in Bad : \A k \in Bad : m <= k
  BY SmallestNat
<1>2. m # 0
  <2>1. UpTo([i \in 0 .. 0 |-> <<>>], s, A, 0)
    BY DEF UpTo
  <2> QED
    BY <1>1, <2>1
<1>3. m - 1 \in Nat /\ m \in Nat /\ m - 1 \notin Bad
  BY <1>1, <1>2
<1>4. PICK g : UpTo(g, s, A, m - 1)
  BY <1>3
<1> DEFINE f == [i \in 0 .. m |->
                   IF i < m THEN g[i]
                   ELSE IF s[m] \in A THEN Append(g[m - 1], s[m]) ELSE g[m - 1]]
<1>5. ASSUME NEW i \in 0 .. m
      PROVE  f[i] = IF i = 0 THEN <<>>
                    ELSE IF s[i] \in A THEN Append(f[i - 1], s[i]) ELSE f[i - 1]
  <2>1. CASE i = 0
    BY <1>3, <1>4, <2>1 DEF UpTo
  <2>2. CASE i # 0 /\ i < m
    <3>1. i \in 0 .. m - 1 /\ i - 1 \in 0 .. m /\ i - 1 < m
      BY <1>3, <2>2
    <3>2. f[i] = g[i] /\ f[i - 1] = g[i - 1]
      BY <2>2, <3>1
    <3> QED
      BY <1>4, <2>2, <3>1, <3>2 DEF UpTo
  <2>3. CASE i = m
    <3>1. m - 1 \in 0 .. m /\ m - 1 < m /\ ~(m < m) /\ m \in 0 .. m
      BY <1>3
    <3>2. f[m - 1] = g[m - 1]
      BY <3>1
    <3>3. f[m] = IF s[m] \in A THEN Append(g[m - 1], s[m]) ELSE g[m - 1]
      BY <3>1
    <3> QED
      BY <1>2, <2>3, <3>2, <3>3
  <2> QED
    BY <1>3, <2>1, <2>2, <2>3
<1>6. UpTo(f, s, A, m)
  BY <1>5 DEF UpTo
<1> QED
  BY <1>1, <1>6

\* What a selection has.
HasAll(a, s, A) ==
  \A j \in 1 .. Len(s) : s[j] \in A => \E k \in 1 .. Len(a) : a[k] = s[j]

LEMMA AmongFacts ==
  ASSUME NEW S, NEW s \in Seq(S), NEW A
  PROVE  /\ Among(s, A) \in Seq(S \cap A) /\ Among(s, A) \in Seq(S)
         /\ Len(Among(s, A)) <= Len(s)
         /\ HasAll(Among(s, A), s, A)
<1> DEFINE f == CHOOSE g : UpTo(g, s, A, Len(s))
           Right(i) == /\ f[i] \in Seq(S \cap A) /\ Len(f[i]) <= i
                       /\ \A j \in 1 .. i :
                            s[j] \in A => \E k \in 1 .. Len(f[i]) : f[i][k] = s[j]
           Bad == {i \in 0 .. Len(s) : ~Right(i)}
<1>1. Len(s) \in Nat
  OBVIOUS
<1>2. Among(s, A) = f[Len(s)]
  BY DEF Among, UpTo
<1>3. UpTo(f, s, A, Len(s))
  BY <1>1, UpToExists
<1> HIDE DEF f
<1>4. f[0] = <<>>
  BY <1>1, <1>3 DEF UpTo
<1>5. \A i \in 1 .. Len(s) : f[i] = IF s[i] \in A THEN Append(f[i - 1], s[i]) ELSE f[i - 1]
  <2> SUFFICES ASSUME NEW i \in 1 .. Len(s)
               PROVE  f[i] = IF s[i] \in A THEN Append(f[i - 1], s[i]) ELSE f[i - 1]
    OBVIOUS
  <2>1. i \in 0 .. Len(s) /\ i # 0
    BY <1>1
  <2>2. f[i] = [k \in 0 .. Len(s) |->
                 IF k = 0 THEN <<>>
                 ELSE IF s[k] \in A THEN Append(f[k - 1], s[k]) ELSE f[k - 1]][i]
    BY <1>3, Zenon DEF UpTo
  <2> QED
    BY <2>1, <2>2
<1>6. Bad = {}
  <2> SUFFICES ASSUME Bad # {} PROVE FALSE
    OBVIOUS
  <2>1. Bad \subseteq Nat
    BY <1>1
  <2>2. PICK m \in Bad : \A k \in Bad : m <= k
    BY <2>1, SmallestNat
  <2>3. Right(0)
    BY <1>4
  <2>4. m \in 1 .. Len(s) /\ m - 1 \in 0 .. Len(s) /\ m - 1 \notin Bad /\ m \in Nat
    <3>1. m \in 0 .. Len(s) /\ ~Right(m)
      BY <2>2
    <3>2. m # 0
      BY <2>3, <3>1
    <3> HIDE DEF Right
    <3>3. m \in 1 .. Len(s) /\ m - 1 \in 0 .. Len(s) /\ m \in Nat /\ ~(m <= m - 1)
      BY <1>1, <3>1, <3>2
    <3> HIDE DEF Bad
    <3>4. m - 1 \notin Bad
      BY <2>2, <3>3
    <3> QED
      BY <3>3, <3>4
  <2>5. Right(m - 1)
    BY <2>4
  <2>6. Right(m)
    <3>1. f[m - 1] \in Seq(S \cap A) /\ Len(f[m - 1]) <= m - 1
      BY <2>5
    <3>2. s[m] \in S
      BY <2>4
    <3>3. CASE s[m] \notin A
      <4>1. f[m] = f[m - 1]
        BY <1>5, <2>4, <3>3
      <4>2. \A j \in 1 .. m : s[j] \in A => j \in 1 .. m - 1
        BY <2>4, <3>3
      <4> QED
        BY <2>4, <2>5, <3>1, <4>1, <4>2
    <3>4. CASE s[m] \in A
      <4>1. f[m] = Append(f[m - 1], s[m])
        BY <1>5, <2>4, <3>4
      <4>2. s[m] \in S \cap A
        BY <3>2, <3>4
      <4>3. /\ f[m] \in Seq(S \cap A) /\ Len(f[m]) = Len(f[m - 1]) + 1
            /\ \A k \in 1 .. Len(f[m - 1]) : f[m][k] = f[m - 1][k]
            /\ f[m][Len(f[m - 1]) + 1] = s[m]
        BY <3>1, <4>1, <4>2
      <4>4. Len(f[m - 1]) \in Nat
        BY <3>1
      <4>5. ASSUME NEW j \in 1 .. m, s[j] \in A
            PROVE  \E k \in 1 .. Len(f[m]) : f[m][k] = s[j]
        <5>1. CASE j = m
          <6>1. Len(f[m - 1]) + 1 \in 1 .. Len(f[m])
            BY <4>3, <4>4
          <6> QED
            BY <4>3, <5>1, <6>1
        <5>2. CASE j # m
          <6>1. j \in 1 .. m - 1
            BY <2>4, <5>2
          <6>2. PICK k \in 1 .. Len(f[m - 1]) : f[m - 1][k] = s[j]
            BY <2>5, <4>5, <6>1
          <6>3. k \in 1 .. Len(f[m])
            BY <4>3, <4>4
          <6> QED
            BY <4>3, <6>2, <6>3
        <5> QED
          BY <5>1, <5>2
      <4>6. Len(f[m]) <= m
        BY <2>4, <3>1, <4>3, <4>4
      <4> QED
        BY <4>3, <4>5, <4>6
    <3> QED
      BY <3>3, <3>4
  <2> QED
    BY <2>2, <2>6
<1>7. Right(Len(s))
  BY <1>1, <1>6
<1>8. Among(s, A) \in Seq(S)
  BY <1>2, <1>7
<1>9. HasAll(Among(s, A), s, A)
  BY <1>2, <1>7 DEF HasAll
<1> QED
  BY <1>2, <1>7, <1>8, <1>9

-----------------------------------------------------------------------------
(***************************************************************************)
(* Reports                                                                 *)
(***************************************************************************)
SheetSet == E!Sheets \cup {E!Sheet("", {}, "")}
Forms == [form : {"none", "link", "report", "message"}, served : Nat]
Posts ==
  [pc : {"free", "mode", "store", "maintainer", "researcher", "audit", "answer", "relay"},
   served : Nat, id : Nat, sheet : SheetSet]
Answers ==
  {"", "incomplete", "disabled", "taken for a message", "not stored", "received", "sent"}
Tellings == [what : Answers, id : Nat, since : Nat]

ReportsTyped ==
  /\ day \in Nat /\ contact \in E!Contacts
  /\ page \in [Visitors -> Forms] /\ post \in [Visitors -> Posts]
  /\ told \in [Visitors -> Tellings]
  /\ arrived \in [Visitors -> Nat] /\ counts \in [Visitors -> Nat]
  /\ recorded \in [Visitors -> Nat]

\* A visitor's row in the table.
HasRow(rows, v, id) == \E r \in rows : r.id = id /\ r.by = v

\* What a handler writes to and audits is stored.
StoredFirst ==
  \A v \in Visitors :
    post[v].pc \in {"maintainer", "researcher", "audit", "answer"} => HasRow(reports, v, post[v].id)

\* No link is from a day to come.
LinksPast ==
  \A v \in Visitors : page[v].served <= day /\ (post[v].pc = "mode" => post[v].served <= day)

RowsTyped == \A r \in reports : r \in [id : Nat, by : Visitors, days : Nat]

ToldTruth ==
  \A v \in Visitors :
    /\ told[v].what = "received" => HasRow(reports, v, told[v].id)
    /\ told[v].what = "taken for a message" => day >= told[v].since + 2

CountsFair ==
  \A v \in Visitors :
    /\ recorded[v] <= counts[v]
    /\ arrived[v] <= E!newReportLimiter => counts[v] = arrived[v]

LettersTrue == \A l \in letters : l.to # "operator" => HasRow(reports, l.by, l.id)
EntriesTrue == \A e \in entries : \E r \in reports : r.id = e
RowsApart == \A r, s \in reports : r.id = s.id => r = s

ReportInv ==
  /\ ReportsTyped /\ StoredFirst /\ LinksPast /\ RowsTyped /\ ToldTruth /\ CountsFair
  /\ LettersTrue /\ EntriesTrue /\ RowsApart

LEMMA FreeFacts == E!Free \in Posts /\ E!Free.pc = "free" /\ E!Free.served = 0
<1>1. E!Free \in Posts
  <2>1. E!Sheet("", {}, "") \in SheetSet
    BY DEF SheetSet
  <2> QED
    BY <2>1 DEF E!Free, Posts
<1>2. E!Free.pc = "free" /\ E!Free.served = 0
  BY DEF E!Free
<1> QED
  BY <1>1, <1>2

LEMMA BlankFacts == E!Blank \in Forms /\ E!Blank.served = 0
BY DEF E!Blank, Forms

LEMMA NothingFacts ==
  E!Nothing \in Tellings /\ E!Nothing.what # "received"
    /\ E!Nothing.what # "taken for a message"
<1>1. E!Nothing \in Tellings
  BY DEF E!Nothing, Tellings, Answers
<1>2. E!Nothing.what # "received" /\ E!Nothing.what # "taken for a message"
  BY Zenon DEF E!Nothing
<1> QED
  BY <1>1, <1>2

LEMMA LimitTyped ==
  ASSUME contact \in E!Contacts
  PROVE  E!newReportLimiter \in Nat
BY DEF E!newReportLimiter, E!Contacts

\* A link that is no longer good is at least two days old.
LEMMA LinkOutlived ==
  ASSUME NEW d \in Nat, NEW served \in Nat, served <= d,
         ~E!ValidSecurityID(E!SecurityID(served), d)
  PROVE  d >= served + 2
<1> DEFINE a == served \div 2
           b == d \div 2
<1>1. a \in Nat /\ b \in Nat /\ served <= 2 * a + 1 /\ 2 * b <= d /\ a <= b /\ b <= d
  OBVIOUS
<1>2. a # b
  BY DEF E!ValidSecurityID, E!SecurityID
<1>3. a + 1 # b
  <2>1. a \in {0} \cup 1 .. d
    BY <1>1
  <2>2. ~(a + 1 = b)
    BY <2>1 DEF E!ValidSecurityID, E!SecurityID
  <2> QED
    BY <2>2
<1> HIDE DEF a, b
<1> QED
  BY <1>1, <1>2, <1>3

\* A visitor is told of his own request, and others what they were told before.
LEMMA ToldAnswer ==
  ASSUME ReportsTyped, ToldTruth, NEW v \in Visitors, NEW what \in Answers,
         E!Answers(v, what), day' = day, reports \subseteq reports',
         what = "received" => HasRow(reports, v, post[v].id),
         what = "taken for a message" => day >= post[v].served + 2
  PROVE  told' \in [Visitors -> Tellings] /\ ToldTruth'
<1> DEFINE new == [what |-> what, id |-> post[v].id, since |-> post[v].served]
<1>1. told' = [told EXCEPT ![v] = new]
  BY DEF E!Answers
<1>2. new \in Tellings /\ new.what = what /\ new.id = post[v].id /\ new.since = post[v].served
  BY DEF ReportsTyped, Posts, Tellings
<1> HIDE DEF new
<1>3. told \in [Visitors -> Tellings]
  BY DEF ReportsTyped
<1>4. \A w \in Visitors : told'[w] = IF w = v THEN new ELSE told[w]
  BY <1>1, <1>3
<1>5. \A w \in Visitors : \A id : HasRow(reports, w, id) => HasRow(reports', w, id)
  BY DEF HasRow
<1>6. ASSUME NEW w \in Visitors
      PROVE  /\ told'[w].what = "received" => HasRow(reports', w, told'[w].id)
             /\ told'[w].what = "taken for a message" => day' >= told'[w].since + 2
  <2>1. CASE w = v
    BY <1>2, <1>4, <1>5, <2>1
  <2>2. CASE w # v
    BY <1>4, <1>5, <2>2 DEF ToldTruth
  <2> QED
    BY <2>1, <2>2
<1>7. ToldTruth'
  BY <1>6 DEF ToldTruth
<1> QED
  BY <1>1, <1>2, <1>3, <1>7

LEMMA ReportInit == E!Init => ReportInv
<1> SUFFICES ASSUME E!Init PROVE ReportInv
  OBVIOUS
<1>1. ReportsTyped
  BY FreeFacts, BlankFacts, NothingFacts DEF E!Init, ReportsTyped, E!None
<1>2. StoredFirst
  BY FreeFacts, BlankFacts, NothingFacts DEF E!Init, StoredFirst
<1>4. LinksPast
  <2>1. \A v \in Visitors : page[v].served = 0 /\ post[v].pc = "free"
    BY FreeFacts, BlankFacts, NothingFacts DEF E!Init
  <2>2. day = 0
    BY DEF E!Init
  <2> QED
    BY <2>1, <2>2 DEF LinksPast
<1>5. RowsTyped /\ LettersTrue /\ EntriesTrue /\ RowsApart
  BY FreeFacts, BlankFacts, NothingFacts DEF E!Init, StoredFirst, LinksPast, RowsTyped,
     LettersTrue, EntriesTrue,
     RowsApart
<1>3. ToldTruth
  BY FreeFacts, BlankFacts, NothingFacts DEF E!Init, ToldTruth
<1>6. CountsFair
  <2>1. \A v \in Visitors : arrived[v] = 0 /\ counts[v] = 0 /\ recorded[v] = 0
    BY DEF E!Init, E!None
  <2> QED
    BY <2>1 DEF CountsFair
<1> QED
  BY <1>1, <1>2, <1>3, <1>4, <1>5, <1>6 DEF ReportInv

\* Nothing that the reports are judged by has changed but what the step names.
LEMMA ReportStep ==
  ASSUME ReportInv, [E!Next]_reportVars
  PROVE  ReportInv'
<1> USE DEF ReportInv
<1>1. CASE E!NextDay
  <2>1. /\ day' = day + 1 /\ contact' = contact /\ page' = page /\ post' = post /\ told' = told
        /\ reports' = reports /\ letters' = letters /\ entries' = entries
        /\ arrived' = arrived /\ counts' = counts /\ recorded' = recorded
    BY <1>1 DEF E!NextDay, E!Keeps, E!Kept, E!Browsers
  <2>2. ReportsTyped' /\ StoredFirst' /\ RowsTyped' /\ LettersTrue' /\ EntriesTrue' /\ RowsApart'
    BY <2>1 DEF ReportsTyped, StoredFirst, RowsTyped, LettersTrue, EntriesTrue, RowsApart, HasRow
  <2>3. day \in Nat
        /\ \A v \in Visitors : page[v].served \in Nat /\ post[v].served \in Nat
                               /\ told[v].since \in Nat
    BY DEF ReportsTyped, Forms, Posts, Tellings
  <2>4. LinksPast'
    BY <2>1, <2>3 DEF LinksPast
  <2>6. ToldTruth'
    <3> SUFFICES ASSUME NEW v \in Visitors
                 PROVE  /\ told[v].what = "received" => HasRow(reports, v, told[v].id)
                        /\ told[v].what = "taken for a message" => day + 1 >= told[v].since + 2
      BY <2>1 DEF ToldTruth
    <3>1. told[v].what = "received" => HasRow(reports, v, told[v].id)
      BY DEF ToldTruth
    <3>2. told[v].what = "taken for a message" => day >= told[v].since + 2
      BY DEF ToldTruth
    <3>3. told[v].since \in Nat /\ day \in Nat
      BY <2>3
    <3>4. ASSUME NEW a \in Nat, NEW b \in Nat, a >= b + 2
          PROVE  a + 1 >= b + 2
      BY <3>4
    <3> QED
      BY <3>1, <3>2, <3>3, <3>4
  <2>5. CountsFair'
    BY <2>1 DEF CountsFair, E!newReportLimiter
  <2> QED
    BY <2>2, <2>4, <2>5, <2>6
<1>2. CASE E!Dies \/ E!MinutePasses
  <2>1. /\ day' = day /\ contact' = contact /\ page' = page /\ told' = told
        /\ reports' = reports /\ letters' = letters /\ entries' = entries
        /\ arrived' = [v \in Visitors |-> 0] /\ counts' = arrived' /\ recorded' = arrived'
        /\ post' = post \/ post' = [v \in Visitors |-> E!Free]
    BY <1>2 DEF E!Dies, E!MinutePasses, E!Keeps, E!Kept, E!Browsers, E!None
  <2>2. ReportsTyped' /\ RowsTyped' /\ LettersTrue' /\ EntriesTrue' /\ RowsApart'
    BY <2>1, FreeFacts, BlankFacts, NothingFacts
       DEF ReportsTyped, RowsTyped, LettersTrue, EntriesTrue, RowsApart, HasRow
  <2>3. \A v \in Visitors : post'[v] = post[v] \/ (post'[v].pc = "free")
    BY <2>1, FreeFacts
  <2>4. StoredFirst' /\ LinksPast'
    BY <2>1, <2>3 DEF StoredFirst, LinksPast, HasRow
  <2>5. \A v \in Visitors : arrived'[v] = 0 /\ counts'[v] = 0 /\ recorded'[v] = 0
    BY <2>1
  <2>6. ToldTruth'
    BY <2>1 DEF ToldTruth
  <2>7. CountsFair'
    BY <2>5 DEF CountsFair
  <2> QED
    BY <2>2, <2>4, <2>6, <2>7
<1>3. ASSUME NEW v \in Visitors, E!securityTxt(v) \/ E!Opens(v) \/ E!Leaves(v)
      PROVE  ReportInv'
  <2>1. /\ day' = day /\ contact' = contact /\ post' = post
        /\ reports' = reports /\ letters' = letters /\ entries' = entries
        /\ arrived' = arrived /\ counts' = counts /\ recorded' = recorded
        /\ told' = told \/ told' = [told EXCEPT ![v] = E!Nothing]
    BY <1>3 DEF E!securityTxt, E!Opens, E!Leaves, E!Keeps, E!Kept, E!Browsers
  <2>2. PICK new \in Forms :
          page' = [page EXCEPT ![v] = new] /\ new.served <= day
    <3>1. CASE E!securityTxt(v)
      <4>1. day \in Nat /\ page' = [page EXCEPT ![v] = [form |-> "link", served |-> day]]
        BY <3>1 DEF E!securityTxt, ReportsTyped
      <4>2. [form |-> "link", served |-> day] \in Forms
        BY <4>1 DEF Forms
      <4>3. [form |-> "link", served |-> day].served <= day
        BY <4>1
      <4> WITNESS [form |-> "link", served |-> day] \in Forms
      <4> QED
        BY <4>1, <4>3
    <3>2. CASE E!Leaves(v)
      <4>1. day \in Nat /\ page' = [page EXCEPT ![v] = E!Blank]
        BY <3>2 DEF E!Leaves, ReportsTyped
      <4>2. E!Blank = [form |-> "none", served |-> 0]
        BY DEF E!Blank
      <4>3. [form |-> "none", served |-> 0] \in Forms
        BY DEF Forms
      <4>4. [form |-> "none", served |-> 0].served <= day
        BY <4>1
      <4> WITNESS [form |-> "none", served |-> 0] \in Forms
      <4> QED
        BY <4>1, <4>2, <4>4
    <3>3. CASE E!Opens(v)
      <4>1. page[v] \in Forms
            /\ page[v].served <= day /\ day \in Nat
        BY DEF ReportsTyped, LinksPast
      <4>2. page' = [page EXCEPT ![v] = [page[v] EXCEPT !.form = "report"]]
            \/ page' = [page EXCEPT ![v] = [form |-> "message", served |-> 0]]
        BY <3>3 DEF E!Opens
      <4> QED
        BY <4>1, <4>2 DEF Forms
    <3> QED
      BY <1>3, <3>1, <3>2, <3>3
  <2>3. ReportsTyped'
    BY <2>1, <2>2, FreeFacts, BlankFacts, NothingFacts DEF ReportsTyped
  <2>4. StoredFirst' /\ RowsTyped' /\ LettersTrue' /\ EntriesTrue' /\ RowsApart' /\ CountsFair'
    BY <2>1 DEF StoredFirst, RowsTyped, LettersTrue, EntriesTrue, RowsApart, HasRow, CountsFair,
       E!newReportLimiter
  <2>5. LinksPast'
    BY <2>1, <2>2 DEF LinksPast, ReportsTyped
  <2>6. ToldTruth'
    BY <2>1, NothingFacts DEF ToldTruth, ReportsTyped, HasRow
  <2> QED
    BY <2>3, <2>4, <2>5, <2>6
<1>4. ASSUME NEW v \in Visitors, E!Sends(v)
      PROVE  ReportInv'
  <2>1. /\ day' = day /\ contact' = contact /\ page' = page
        /\ reports' = reports /\ letters' = letters /\ entries' = entries
        /\ arrived' = arrived /\ counts' = counts /\ recorded' = recorded
        /\ told' = [told EXCEPT ![v] = E!Nothing]
    BY <1>4 DEF E!Sends, E!Keeps, E!Kept, E!Browsers
  <2>2. PICK s \in E!Sheets :
          post' = [post EXCEPT ![v] = [pc |-> "mode", served |-> page[v].served, id |-> 0,
                                       sheet |-> s]]
    BY <1>4 DEF E!Sends, E!Free
  <2>3. ReportsTyped'
    <3>1. [pc |-> "mode", served |-> page[v].served, id |-> 0, sheet |-> s] \in Posts
      BY DEF ReportsTyped, Forms, Posts, SheetSet
    <3> QED
      BY <2>1, <2>2, <3>1, FreeFacts, BlankFacts, NothingFacts DEF ReportsTyped
  <2>4. RowsTyped' /\ LettersTrue' /\ EntriesTrue' /\ RowsApart' /\ CountsFair'
    BY <2>1 DEF RowsTyped, LettersTrue, EntriesTrue, RowsApart, HasRow, CountsFair,
       E!newReportLimiter
  <2>5. LinksPast' /\ StoredFirst'
    BY <2>1, <2>2 DEF LinksPast, StoredFirst, HasRow, ReportsTyped
  <2>6. ToldTruth'
    BY <2>1, NothingFacts DEF ToldTruth, ReportsTyped, HasRow
  <2> QED
    BY <2>3, <2>4, <2>5, <2>6
<1>5. ASSUME NEW v \in Visitors, E!Report(v)
      PROVE  ReportInv'
  <2>1. /\ day' = day /\ contact' = contact /\ page' = page /\ post' = post /\ told' = told
        /\ reports' = reports /\ letters' = letters /\ entries' = entries
        /\ arrived' = [arrived EXCEPT ![v] = @ + 1]
    BY <1>5 DEF E!Report, E!Keeps, E!Kept
  <2>2. \/ /\ counts[v] < E!newReportLimiter /\ counts' = [counts EXCEPT ![v] = @ + 1]
           /\ recorded' = recorded \/ recorded' = [recorded EXCEPT ![v] = @ + 1]
        \/ /\ ~(counts[v] < E!newReportLimiter) /\ counts' = counts /\ recorded' = recorded
    BY <1>5 DEF E!Report, E!allow
  <2>3. ReportsTyped'
    BY <2>1, <2>2 DEF ReportsTyped
  <2>4. /\ StoredFirst' /\ LinksPast' /\ RowsTyped' /\ LettersTrue' /\ EntriesTrue' /\ RowsApart'
        /\ ToldTruth'
    BY <2>1 DEF StoredFirst, LinksPast, RowsTyped, LettersTrue, EntriesTrue, RowsApart, ToldTruth,
       HasRow
  <2>5. CountsFair'
    <3>1. E!newReportLimiter' = E!newReportLimiter /\ E!newReportLimiter \in Nat
      BY <2>1, LimitTyped DEF E!newReportLimiter, ReportsTyped
    <3>2. \A w \in Visitors : arrived[w] \in Nat /\ counts[w] \in Nat /\ recorded[w] \in Nat
      BY DEF ReportsTyped
    <3>3. arrived \in [Visitors -> Nat] /\ counts \in [Visitors -> Nat]
          /\ recorded \in [Visitors -> Nat]
      BY DEF ReportsTyped
    <3> QED
      BY <2>1, <2>2, <3>1, <3>2, <3>3 DEF CountsFair
  <2> QED
    BY <2>3, <2>4, <2>5
<1>6. ASSUME NEW v \in Visitors, E!contactHandler(v)
      PROVE  ReportInv'
  <2>1. /\ day' = day /\ contact' = contact /\ page' = page
        /\ reports' = reports /\ letters' = letters /\ entries' = entries
        /\ arrived' = arrived /\ counts' = counts /\ recorded' = recorded
        /\ post[v].pc = "mode"
    BY <1>6 DEF E!contactHandler, E!Keeps, E!Kept, E!Browsers
  <2>2. \/ told' = told /\ (E!Goes(v, "store") \/ E!Goes(v, "relay"))
        \/ E!Answers(v, "incomplete") \/ E!Answers(v, "disabled")
        \/ E!Answers(v, "taken for a message") /\ day >= post[v].served + 2
    <3>1. CASE E!securityMode(post[v].served, post[v].sheet.kind)
      BY <1>6, <3>1 DEF E!contactHandler, E!Begins
    <3>2. CASE ~E!securityMode(post[v].served, post[v].sheet.kind) /\ ~contact.enabled
      BY <1>6, <3>2 DEF E!contactHandler
    <3>3. CASE /\ ~E!securityMode(post[v].served, post[v].sheet.kind) /\ contact.enabled
               /\ post[v].sheet.kind # "report"
      BY <1>6, <3>3 DEF E!contactHandler
    <3>4. CASE /\ ~E!securityMode(post[v].served, post[v].sheet.kind) /\ contact.enabled
               /\ post[v].sheet.kind = "report"
      <4>1. ~E!messageComplete(post[v].sheet)
        BY <3>4 DEF E!messageComplete
      <4>2. E!Answers(v, "taken for a message")
        BY <1>6, <3>4, <4>1 DEF E!contactHandler
      <4>3. ~E!ValidSecurityID(E!SecurityID(post[v].served), day)
        BY <3>4 DEF E!securityMode
      <4>4. day >= post[v].served + 2
        <5>1. day \in Nat /\ post[v].served \in Nat /\ post[v].served <= day
          BY <2>1 DEF ReportsTyped, Posts, LinksPast
        <5> QED
          BY <4>3, <5>1, LinkOutlived
      <4> QED
        BY <4>2, <4>4
    <3> QED
      BY <3>1, <3>2, <3>3, <3>4
  <2>3. /\ post \in [Visitors -> Posts] /\ told \in [Visitors -> Tellings] /\ post[v] \in Posts
        /\ post[v].id \in Nat /\ post[v].served \in Nat
    BY DEF ReportsTyped, Posts
  <2>4. PICK new \in Posts :
          post' = [post EXCEPT ![v] = new] /\ new.pc \in {"free", "store", "relay"}
    <3>1. CASE \E what \in Answers : E!Answers(v, what)
      BY <3>1, FreeFacts DEF E!Answers
    <3>2. CASE \E pc \in {"store", "relay"} : E!Goes(v, pc)
      <4>1. PICK pc \in {"store", "relay"} :
              post' = [post EXCEPT ![v] = [post[v] EXCEPT !.pc = pc, !.served = 0]]
        BY <3>2 DEF E!Goes
      <4>2. /\ [post[v] EXCEPT !.pc = pc, !.served = 0] \in Posts
            /\ [post[v] EXCEPT !.pc = pc, !.served = 0].pc = pc
        BY <2>3 DEF Posts
      <4> QED
        BY <4>1, <4>2
    <3> QED
      BY <2>2, <3>1, <3>2 DEF Answers
  <2>5. \/ told' = told
        \/ \E what \in Answers :
             /\ E!Answers(v, what) /\ what # "received"
             /\ what = "taken for a message" => day >= post[v].served + 2
    BY <2>2 DEF Answers
  <2>6. told' \in [Visitors -> Tellings] /\ ToldTruth'
    <3>1. CASE told' = told
      BY <2>1, <2>3, <3>1 DEF ToldTruth, HasRow
    <3>2. ASSUME NEW what \in Answers, E!Answers(v, what), what # "received",
                 what = "taken for a message" => day >= post[v].served + 2
          PROVE  told' \in [Visitors -> Tellings] /\ ToldTruth'
      BY <2>1, <2>3, <3>2, ToldAnswer
    <3> QED
      BY <2>5, <3>1, <3>2
  <2>7. ReportsTyped'
    BY <2>1, <2>3, <2>4, <2>6 DEF ReportsTyped
  <2>8. RowsTyped' /\ LettersTrue' /\ EntriesTrue' /\ RowsApart' /\ CountsFair'
    BY <2>1 DEF RowsTyped, LettersTrue, EntriesTrue, RowsApart, HasRow, CountsFair,
       E!newReportLimiter
  <2>9. LinksPast' /\ StoredFirst'
    BY <2>1, <2>3, <2>4 DEF LinksPast, StoredFirst, HasRow
  <2> QED
    BY <2>6, <2>7, <2>8, <2>9
<1>7. ASSUME NEW v \in Visitors, E!storeSecurityReport(v)
      PROVE  ReportInv'
  <2>1. /\ day' = day /\ contact' = contact /\ page' = page
        /\ letters' = letters /\ entries' = entries
        /\ arrived' = arrived /\ counts' = counts /\ recorded' = recorded
        /\ post[v].pc = "store"
    BY <1>7 DEF E!storeSecurityReport, E!Keeps, E!Browsers
  <2>2. LettersTrue /\ EntriesTrue /\ CountsFair' /\ post \in [Visitors -> Posts]
        /\ told \in [Visitors -> Tellings]
    BY <2>1 DEF CountsFair, E!newReportLimiter, ReportsTyped
  <2>3. CASE E!Answers(v, "not stored") /\ reports' = reports
    <3>1. told' \in [Visitors -> Tellings] /\ ToldTruth'
      <4>1. "not stored" \in Answers
        BY DEF Answers
      <4> QED
        BY <2>1, <2>3, <4>1, ToldAnswer
    <3>2. post' = [post EXCEPT ![v] = E!Free]
      BY <2>3 DEF E!Answers
    <3>3. ReportsTyped' /\ StoredFirst' /\ LinksPast'
      BY <2>1, <2>2, <2>3, <3>1, <3>2, FreeFacts DEF ReportsTyped, StoredFirst, LinksPast
    <3>4. RowsTyped' /\ LettersTrue' /\ EntriesTrue' /\ RowsApart'
      BY <2>1, <2>3 DEF RowsTyped, LettersTrue, EntriesTrue, RowsApart
    <3> QED
      BY <2>2, <3>1, <3>3, <3>4
  <2>4. ASSUME NEW id \in E!Ids, \A r \in reports : r.id < id, E!InsertSecurityReport(v, id),
               post' = [post EXCEPT ![v] = [E!Free EXCEPT !.pc = "maintainer", !.id = id]],
               told' = told
        PROVE  ReportInv'
    <3>1. id \in Nat
      BY DEF E!Ids
    <3>2. PICK days \in Nat : reports' = reports \cup {[id |-> id, by |-> v, days |-> days]}
      <4>1. E!readSecurityForm(post[v].sheet).days \in Nat
        BY DEF E!readSecurityForm
      <4> QED
        BY <2>4, <4>1 DEF E!InsertSecurityReport
    <3> DEFINE row == [id |-> id, by |-> v, days |-> days]
               now == [E!Free EXCEPT !.pc = "maintainer", !.id = id]
    <3>3. row.id = id /\ row.by = v /\ row \in [id : Nat, by : Visitors, days : Nat]
      BY <3>1
    <3>4. now \in Posts /\ now.pc = "maintainer" /\ now.id = id
      BY <3>1, FreeFacts DEF Posts
    <3>5. reports' = reports \cup {row} /\ post' = [post EXCEPT ![v] = now]
      BY <2>4, <3>2
    <3> HIDE DEF row, now
    <3>6. ReportsTyped'
      BY <2>1, <2>2, <2>4, <3>4, <3>5 DEF ReportsTyped
    <3>7. StoredFirst'
      BY <2>2, <3>3, <3>4, <3>5 DEF StoredFirst, HasRow
    <3>8. LinksPast'
      BY <2>1, <2>2, <3>4, <3>5 DEF LinksPast
    <3>9. RowsTyped' /\ EntriesTrue'
      BY <2>1, <3>3, <3>5 DEF RowsTyped, EntriesTrue
    <3>10. ToldTruth' /\ LettersTrue'
      BY <2>1, <2>4, <3>5 DEF ToldTruth, LettersTrue, HasRow
    <3>11. \A r \in reports : r.id # id
      BY <2>4, <3>1 DEF RowsTyped
    <3>12. RowsApart'
      BY <3>3, <3>5, <3>11 DEF RowsApart
    <3> QED
      BY <2>2, <3>6, <3>7, <3>8, <3>9, <3>10, <3>12
  <2> QED
    BY <1>7, <2>3, <2>4 DEF E!storeSecurityReport
<1>8. ASSUME NEW v \in Visitors,
             E!notifyMaintainer(v) \/ E!notifyResearcher(v) \/ E!auditReport(v)
      PROVE  ReportInv'
  <2>1. /\ day' = day /\ contact' = contact /\ page' = page /\ told' = told /\ reports' = reports
        /\ arrived' = arrived /\ counts' = counts /\ recorded' = recorded
        /\ post[v].pc \in {"maintainer", "researcher", "audit"}
    BY <1>8 DEF E!notifyMaintainer, E!notifyResearcher, E!auditReport, E!Keeps, E!Browsers
  <2>2. PICK pc \in {"researcher", "audit", "answer"} :
          post' = [post EXCEPT ![v] = [post[v] EXCEPT !.pc = pc, !.served = 0]]
    BY <1>8 DEF E!notifyMaintainer, E!notifyResearcher, E!auditReport, E!Goes
  <2>3. post \in [Visitors -> Posts] /\ post[v] \in Posts
    BY DEF ReportsTyped
  <2> DEFINE new == [post[v] EXCEPT !.pc = pc, !.served = 0]
  <2>4. new \in Posts /\ new.pc = pc /\ new.id = post[v].id
    BY <2>3 DEF Posts
  <2>5. post' = [post EXCEPT ![v] = new]
    BY <2>2
  <2> HIDE DEF new
  <2>6. HasRow(reports, v, post[v].id)
    BY <2>1 DEF StoredFirst
  <2>7. ReportsTyped'
    BY <2>1, <2>3, <2>4, <2>5 DEF ReportsTyped
  <2>8. StoredFirst' /\ LinksPast'
    BY <2>1, <2>3, <2>4, <2>5, <2>6 DEF StoredFirst, LinksPast
  <2>9. RowsTyped' /\ RowsApart' /\ ToldTruth'
    BY <2>1 DEF RowsTyped, RowsApart, ToldTruth
  <2>10. CountsFair'
    BY <2>1 DEF CountsFair, E!newReportLimiter
  <2>11. letters' = letters \/ \E to : letters' = letters \cup {E!Letter(to, v)}
    BY <1>8 DEF E!notifyMaintainer, E!notifyResearcher, E!auditReport, E!Keeps
  <2>12. LettersTrue'
    <3>1. \A to : E!Letter(to, v).by = v /\ E!Letter(to, v).id = post[v].id
      BY DEF E!Letter
    <3> QED
      BY <2>1, <2>6, <2>11, <3>1 DEF LettersTrue
  <2>13. entries' \subseteq entries \cup {post[v].id}
    <3>1. CASE E!auditReport(v)
      BY <3>1 DEF E!auditReport
    <3>2. CASE E!notifyMaintainer(v) \/ E!notifyResearcher(v)
      BY <3>2 DEF E!notifyMaintainer, E!notifyResearcher, E!Keeps
    <3> QED
      BY <1>8, <3>1, <3>2
  <2>14. EntriesTrue'
    BY <2>1, <2>6, <2>13 DEF EntriesTrue, HasRow
  <2> QED
    BY <2>7, <2>8, <2>9, <2>10, <2>12, <2>14
<1>9. ASSUME NEW v \in Visitors, E!securityReportPost(v) \/ E!relayContactMessage(v)
      PROVE  ReportInv'
  <2>1. /\ day' = day /\ contact' = contact /\ page' = page /\ reports' = reports
        /\ entries' = entries
        /\ arrived' = arrived /\ counts' = counts /\ recorded' = recorded
    BY <1>9 DEF E!securityReportPost, E!relayContactMessage, E!Keeps, E!Browsers, E!Kept
  <2>2. PICK what \in Answers : /\ E!Answers(v, what) /\ what # "taken for a message"
                                /\ what = "received" => post[v].pc = "answer"
    BY <1>9 DEF E!securityReportPost, E!relayContactMessage, Answers
  <2>3. what = "received" => HasRow(reports, v, post[v].id)
    BY <2>2 DEF StoredFirst
  <2>4. told' \in [Visitors -> Tellings] /\ ToldTruth'
    BY <2>1, <2>2, <2>3, ToldAnswer
  <2>5. post \in [Visitors -> Posts] /\ post' = [post EXCEPT ![v] = E!Free]
    BY <2>2 DEF ReportsTyped, E!Answers
  <2>6. ReportsTyped' /\ StoredFirst' /\ LinksPast'
    BY <2>1, <2>4, <2>5, FreeFacts DEF ReportsTyped, StoredFirst, LinksPast
  <2>7. RowsTyped' /\ RowsApart' /\ EntriesTrue'
    BY <2>1 DEF RowsTyped, RowsApart, EntriesTrue
  <2>8. CountsFair'
    BY <2>1 DEF CountsFair, E!newReportLimiter
  <2>9. letters' = letters \/ letters' = letters \cup {E!Letter("operator", v)}
    BY <1>9 DEF E!securityReportPost, E!relayContactMessage, E!Keeps, E!Kept
  <2>10. LettersTrue'
    <3>1. E!Letter("operator", v).to = "operator"
      BY DEF E!Letter
    <3> QED
      BY <2>1, <2>9, <3>1 DEF LettersTrue
  <2> QED
    BY <2>4, <2>6, <2>7, <2>8, <2>10
<1>10. CASE UNCHANGED reportVars
  <2>1. /\ day' = day /\ contact' = contact /\ page' = page /\ post' = post /\ told' = told
        /\ reports' = reports /\ letters' = letters /\ entries' = entries
        /\ arrived' = arrived /\ counts' = counts /\ recorded' = recorded
    BY <1>10 DEF reportVars
  <2>2. ReportsTyped' /\ RowsTyped' /\ RowsApart' /\ ToldTruth'
    BY <2>1 DEF ReportsTyped, RowsTyped, RowsApart, ToldTruth
  <2>3. StoredFirst' /\ LinksPast' /\ LettersTrue' /\ EntriesTrue'
    BY <2>1 DEF StoredFirst, LinksPast, LettersTrue, EntriesTrue
  <2>4. CountsFair'
    BY <2>1 DEF CountsFair, E!newReportLimiter
  <2> QED
    BY <2>2, <2>3, <2>4
<1> QED
  BY <1>1, <1>2, <1>3, <1>4, <1>5, <1>6, <1>7, <1>8, <1>9, <1>10 DEF E!Next

ReportsInv == part = "reports" => ReportInv

LEMMA ReportInvariant == Spec => []ReportsInv
<1>1. Init => ReportsInv
  BY ReportInit DEF Init, ReportsInv
<1>2. ReportsInv /\ [Next]_vars => ReportsInv'
  BY PartStep, ReportStep DEF ReportsInv
<1> QED
  BY <1>1, <1>2, PTL DEF Spec

\* Who is told that his report was received has a row of his own under the id
\* he is told (contactHandler, storeSecurityReport), every letter and audit entry
\* that names an id names a row, wherever the server dies; a link that is refused
\* was at least two days old, and the limiter counts each browser by itself.
THEOREM ReportsAreHandled == Spec => []ReportsHandled
<1>1. ReportInv => E!ReportsHandled
  <2> SUFFICES ASSUME ReportInv PROVE E!ReportsHandled
    OBVIOUS
  <2>1. \A v \in Visitors :
          /\ told[v].what = "received" => \E r \in reports : r.id = told[v].id /\ r.by = v
          /\ told[v].what = "taken for a message" => day >= told[v].since + 2
    BY DEF ReportInv, ToldTruth, HasRow
  <2>2. \A v \in Visitors :
          /\ recorded[v] <= counts[v]
          /\ arrived[v] <= E!newReportLimiter => counts[v] = arrived[v]
    BY DEF ReportInv, CountsFair
  <2>3. \A l \in letters :
          l.to # "operator" => \E r \in reports : r.id = l.id /\ r.by = l.by
    BY DEF ReportInv, LettersTrue, HasRow
  <2>4. entries \subseteq {r.id : r \in reports}
    BY DEF ReportInv, EntriesTrue
  <2>5. \A r, s \in reports : r.id = s.id => r = s
    BY DEF ReportInv, RowsApart
  <2> QED
    BY <2>1, <2>2, <2>3, <2>4, <2>5 DEF E!ReportsHandled
<1>2. ReportsInv => ReportsHandled
  BY <1>1 DEF ReportsInv, ReportsHandled
<1> QED
  BY <1>2, ReportInvariant, PTL

-----------------------------------------------------------------------------
(***************************************************************************)
(* Countries and addresses                                                 *)
(***************************************************************************)
LEMMA TheDatabases ==
  /\ N!Databases = {"country", "cityV4", "cityV6"}
  /\ DOMAIN N!Files = 1 .. 3 /\ Len(N!Files) = 3
  /\ \A i \in 1 .. 3 : N!Files[i] \in N!Databases
<1>1. DOMAIN N!Files = 1 .. 3 /\ Len(N!Files) = 3
  BY DEF N!Files
<1>2. N!Files[1] = "country" /\ N!Files[2] = "cityV4" /\ N!Files[3] = "cityV6"
  BY DEF N!Files
<1>3. N!Databases = {N!Files[1], N!Files[2], N!Files[3]}
  <2>1. N!Databases = {N!Files[i] : i \in 1 .. 3}
    BY <1>1 DEF N!Databases
  <2>2. \A i \in 1 .. 3 : i = 1 \/ i = 2 \/ i = 3
    OBVIOUS
  <2> QED
    BY <2>1, <2>2
<1>4. \A i \in 1 .. 3 : N!Files[i] \in N!Databases
  BY <1>1 DEF N!Databases
<1> QED
  BY <1>1, <1>2, <1>3, <1>4

Downloads ==
  [pc : {"off", "fetch", "install", "end"}, file : {1, 2, 3}, got : Nat, failed : BOOLEAN]

\* What is on disk and in use is a database, and a database to be installed is one.
OriginTyped ==
  /\ newest \in 1 .. MaxIssues
  /\ ondisk \in [N!Databases -> 0 .. MaxIssues] /\ inuse \in [N!Databases -> 0 .. MaxIssues]
  /\ getting \in [N!Getters -> Downloads]
  /\ \A g \in N!Getters : getting[g].pc = "install" => getting[g].got \in 1 .. MaxIssues + 1

\* What is in use was installed, and was always in use since.
HeldInUse ==
  /\ held = {f \in N!Databases : inuse[f] # 0}
  /\ \A f \in held : f \in wanted /\ ondisk[f] # 0

\* What is on disk is in use once nothing is under way and nothing has failed.
LastLoaded ==
  opens > 0 /\ (\A g \in N!Getters : getting[g].pc = "off" /\ ~getting[g].failed)
    => inuse = N!loadAll

SomeTrusted == opens = 0 \/ trusts \in {{"near"}, {"near", "proxy"}}

OriginInv == OriginTyped /\ opens \in Nat /\ HeldInUse /\ LastLoaded /\ SomeTrusted

LEMMA OriginInit == N!Init => OriginInv
<1> SUFFICES ASSUME N!Init PROVE OriginInv
  OBVIOUS
<1>1. /\ newest = 1 /\ ondisk = [f \in N!Databases |-> 0] /\ inuse = ondisk
      /\ getting = [g \in N!Getters |-> N!Resting] /\ opens = 0 /\ held = {}
  BY DEF N!Init, N!None
<1>2. N!Resting \in Downloads /\ N!Resting.pc = "off"
  BY DEF N!Resting, Downloads
<1>3. OriginTyped
  BY <1>1, <1>2, WebAssumption DEF OriginTyped
<1>4. HeldInUse /\ LastLoaded /\ SomeTrusted
  BY <1>1 DEF HeldInUse, LastLoaded, SomeTrusted
<1> QED
  BY <1>1, <1>3, <1>4 DEF OriginInv

\* What the loading of what is on disk puts in use.
LEMMA Loads ==
  ASSUME OriginTyped, HeldInUse, inuse' = N!loadAll, N!Held, ondisk' = ondisk, wanted' = wanted
  PROVE  inuse' \in [N!Databases -> 0 .. MaxIssues] /\ HeldInUse'
<1>1. inuse' = [f \in N!Databases |-> IF f \in wanted THEN ondisk[f] ELSE 0]
  BY DEF N!loadAll
<1>2. ondisk \in [N!Databases -> 0 .. MaxIssues]
  BY DEF OriginTyped
<1>3. inuse' \in [N!Databases -> 0 .. MaxIssues]
  BY <1>1, <1>2, WebAssumption
<1>4. held' = held \cup {f \in N!Databases : inuse'[f] # 0}
  BY DEF N!Held
<1>5. \A f \in held : f \in N!Databases /\ f \in wanted /\ ondisk[f] # 0
  BY DEF HeldInUse
<1>6. held' = {f \in N!Databases : inuse'[f] # 0}
  BY <1>1, <1>4, <1>5
<1>7. \A f \in held' : f \in wanted /\ ondisk[f] # 0
  BY <1>1, <1>6
<1> QED
  BY <1>3, <1>6, <1>7 DEF HeldInUse

\* The download after a file is a download, and under way.
LEMMA AfterTyped ==
  ASSUME NEW g \in Downloads, NEW failed \in BOOLEAN
  PROVE  N!After(g, failed) \in Downloads /\ N!After(g, failed).pc \in {"fetch", "end"}
<1>1. /\ g.file \in {1, 2, 3}
      /\ g = [pc |-> g.pc, file |-> g.file, got |-> g.got, failed |-> g.failed]
      /\ g.pc \in {"off", "fetch", "install", "end"}
  BY DEF Downloads
<1>2. CASE g.file = 3
  <2>1. N!After(g, failed) = [pc |-> "end", file |-> 3, got |-> 0, failed |-> failed]
    BY <1>1, <1>2, TheDatabases DEF N!After
  <2> QED
    BY <2>1 DEF Downloads
<1>3. CASE g.file # 3
  <2>1. N!After(g, failed) = [pc |-> "fetch", file |-> g.file + 1, got |-> 0, failed |-> failed]
    BY <1>1, <1>3, TheDatabases DEF N!After
  <2>2. g.file + 1 \in {1, 2, 3}
    BY <1>1, <1>3
  <2> QED
    BY <2>1, <2>2 DEF Downloads
<1> QED
  BY <1>2, <1>3

\* While a download is under way nothing is said of what is in use.
LEMMA UnderWay ==
  ASSUME OriginTyped, NEW a \in N!Getters, NEW new \in Downloads, new.pc # "off",
         getting' = [getting EXCEPT ![a] = new]
  PROVE  LastLoaded'
<1>1. getting'[a].pc # "off"
  BY DEF OriginTyped
<1> QED
  BY <1>1 DEF LastLoaded

LEMMA OriginStep ==
  ASSUME OriginInv, [N!Next]_originVars
  PROVE  OriginInv'
<1>1. /\ OriginTyped /\ HeldInUse /\ LastLoaded /\ SomeTrusted
      /\ getting \in [N!Getters -> Downloads] /\ ondisk \in [N!Databases -> 0 .. MaxIssues]
      /\ opens \in Nat /\ newest \in 1 .. MaxIssues
  BY DEF OriginInv, OriginTyped
<1>2. CASE N!Open
  <2>1. /\ opens' = opens + 1 /\ inuse' = N!loadAll /\ N!Held /\ wanted' = wanted
        /\ newest' = newest /\ ondisk' = ondisk /\ trusts' \in {{"near"}, {"near", "proxy"}}
    BY <1>2 DEF N!Open
  <2> DEFINE fetch == [N!Resting EXCEPT !.pc = "fetch"]
  <2>5. /\ fetch \in Downloads /\ fetch.pc = "fetch"
        /\ N!Resting \in Downloads /\ N!Resting.pc = "off"
    BY DEF N!Resting, Downloads
  <2>6. getting' = [getting EXCEPT !["start"] = fetch, !["task"] = N!Resting]
    BY <1>2 DEF N!Open
  <2> HIDE DEF fetch
  <2>2. /\ getting' \in [N!Getters -> Downloads]
        /\ getting'["start"].pc = "fetch" /\ getting'["task"].pc = "off"
    BY <1>1, <2>5, <2>6 DEF N!Getters
  <2>3. OriginTyped'
    BY <1>1, <2>1, <2>2, Loads DEF OriginTyped, N!Getters
  <2>4. LastLoaded'
    BY <2>2 DEF LastLoaded, N!Getters
  <2> QED
    BY <1>1, <2>1, <2>3, <2>4, Loads DEF OriginInv, SomeTrusted
<1>3. CASE N!geoipUpdateTask
  <2>1. /\ wanted' = wanted /\ newest' = newest /\ ondisk' = ondisk /\ inuse' = inuse
        /\ trusts' = trusts /\ opens' = opens /\ held' = held
        /\ getting' = [getting EXCEPT !["task"] = [N!Resting EXCEPT !.pc = "fetch"]]
    BY <1>3 DEF N!geoipUpdateTask
  <2>2. [N!Resting EXCEPT !.pc = "fetch"] \in Downloads
        /\ [N!Resting EXCEPT !.pc = "fetch"].pc = "fetch"
    BY DEF N!Resting, Downloads
  <2>3. OriginTyped'
    BY <1>1, <2>1, <2>2 DEF OriginTyped
  <2>4. LastLoaded'
    BY <1>1, <2>1, <2>2, UnderWay DEF N!Getters
  <2> QED
    BY <1>1, <2>1, <2>3, <2>4 DEF OriginInv, HeldInUse, SomeTrusted
<1>4. CASE N!Issue
  <2>1. /\ wanted' = wanted /\ newest' = newest + 1 /\ newest < MaxIssues /\ ondisk' = ondisk
        /\ inuse' = inuse /\ trusts' = trusts /\ opens' = opens /\ held' = held
        /\ getting' = getting
    BY <1>4 DEF N!Issue
  <2>2. newest' \in 1 .. MaxIssues
    BY <1>1, <2>1, WebAssumption
  <2> QED
    BY <1>1, <2>1, <2>2
    DEF OriginInv, OriginTyped, HeldInUse, LastLoaded, SomeTrusted, N!loadAll
<1>5. ASSUME NEW a \in N!Getters, N!Fetch(a)
      PROVE  OriginInv'
  <2>1. /\ wanted' = wanted /\ newest' = newest /\ ondisk' = ondisk /\ inuse' = inuse
        /\ trusts' = trusts /\ opens' = opens /\ held' = held
    BY <1>5 DEF N!Fetch
  <2>2. getting[a] \in Downloads /\ getting[a].failed \in BOOLEAN
    BY <1>1 DEF Downloads
  <2>3. PICK new \in Downloads :
          /\ getting' = [getting EXCEPT ![a] = new] /\ new.pc # "off"
          /\ new.pc = "install" => new.got \in 1 .. MaxIssues + 1
    <3>1. CASE \E v \in {newest, N!Rubbish} :
                 getting' = [getting EXCEPT ![a].pc = "install", ![a].got = v]
      <4>1. PICK v \in 1 .. MaxIssues + 1 :
              getting' = [getting EXCEPT ![a] = [getting[a] EXCEPT !.pc = "install", !.got = v]]
        <5>1. newest \in 1 .. MaxIssues + 1 /\ N!Rubbish \in 1 .. MaxIssues + 1
          BY <1>1, WebAssumption DEF N!Rubbish
        <5> QED
          BY <3>1, <5>1
      <4> DEFINE new == [getting[a] EXCEPT !.pc = "install", !.got = v]
      <4>2. v \in Nat
        OBVIOUS
      <4>3. new \in Downloads /\ new.pc = "install" /\ new.got = v
        BY <2>2, <4>2 DEF Downloads
      <4> QED
        BY <4>1, <4>3
    <3>2. CASE \E failed \in BOOLEAN :
                 getting' = [getting EXCEPT ![a] = N!After(getting[a], failed)]
      BY <2>2, <3>2, AfterTyped
    <3> QED
      BY <1>5, <2>2, <3>1, <3>2 DEF N!Fetch
  <2>4. OriginTyped'
    BY <1>1, <2>1, <2>3 DEF OriginTyped
  <2>5. LastLoaded'
    BY <1>1, <2>3, UnderWay
  <2> QED
    BY <1>1, <2>1, <2>4, <2>5 DEF OriginInv, HeldInUse, SomeTrusted
<1>6. ASSUME NEW a \in N!Getters, N!Install(a)
      PROVE  OriginInv'
  <2>1. /\ wanted' = wanted /\ newest' = newest /\ inuse' = inuse
        /\ trusts' = trusts /\ opens' = opens /\ held' = held
    BY <1>6 DEF N!Install
  <2>2. /\ getting[a] \in Downloads /\ getting[a].failed \in BOOLEAN
        /\ N!Files[getting[a].file] \in N!Databases
        /\ getting[a].got \in 1 .. MaxIssues + 1
    BY <1>1, <1>6, TheDatabases, WebAssumption DEF Downloads, N!Install, OriginTyped
  <2>3. PICK new \in Downloads :
          /\ getting' = [getting EXCEPT ![a] = new] /\ new.pc \in {"fetch", "end"}
    BY <1>6, <2>2, AfterTyped DEF N!Install
  <2>4. ondisk' = ondisk \/ \E f \in N!Databases, v \in 1 .. MaxIssues :
                              ondisk' = [ondisk EXCEPT ![f] = v]
    <3>1. CASE N!Valid(getting[a].got)
      <4>1. getting[a].got # N!Rubbish /\ getting[a].got \in 1 .. MaxIssues
        BY <2>2, <3>1, WebAssumption DEF N!Valid, N!Rubbish
      <4> QED
        BY <1>6, <2>2, <3>1, <4>1 DEF N!Install
    <3>2. CASE ~N!Valid(getting[a].got)
      BY <1>6, <3>2 DEF N!Install
    <3> QED
      BY <3>1, <3>2
  <2>5. /\ ondisk' \in [N!Databases -> 0 .. MaxIssues]
        /\ \A f \in N!Databases : ondisk[f] # 0 => ondisk'[f] # 0
    BY <1>1, <2>4, WebAssumption
  <2>6. OriginTyped'
    BY <1>1, <2>1, <2>3, <2>5 DEF OriginTyped
  <2>7. LastLoaded'
    BY <1>1, <2>3, UnderWay
  <2>8. HeldInUse'
    BY <1>1, <2>1, <2>5 DEF HeldInUse
  <2> QED
    BY <1>1, <2>1, <2>6, <2>7, <2>8 DEF OriginInv, SomeTrusted
<1>7. ASSUME NEW a \in N!Getters, N!Reload(a)
      PROVE  OriginInv'
  <2>1. /\ wanted' = wanted /\ newest' = newest /\ ondisk' = ondisk /\ trusts' = trusts
        /\ opens' = opens /\ N!Held
        /\ getting' = [getting EXCEPT ![a] = [getting[a] EXCEPT !.pc = "off"]]
        /\ inuse' = IF getting[a].failed THEN inuse ELSE N!loadAll
    BY <1>7 DEF N!Reload
  <2>2. [getting[a] EXCEPT !.pc = "off"] \in Downloads
        /\ [getting[a] EXCEPT !.pc = "off"].pc = "off"
        /\ [getting[a] EXCEPT !.pc = "off"].failed = getting[a].failed
    BY <1>1 DEF Downloads
  <2>3. CASE getting[a].failed
    <3>1. held' = held
      BY <1>1, <2>1, <2>3 DEF HeldInUse, N!Held
    <3>2. OriginTyped' /\ HeldInUse'
      BY <1>1, <2>1, <2>2, <2>3, <3>1 DEF OriginTyped, HeldInUse
    <3>3. getting'[a].failed
      BY <1>1, <2>1, <2>2, <2>3
    <3> QED
      BY <1>1, <2>1, <3>2, <3>3 DEF OriginInv, LastLoaded, SomeTrusted
  <2>4. CASE ~getting[a].failed
    <3>1. inuse' \in [N!Databases -> 0 .. MaxIssues] /\ HeldInUse'
      BY <1>1, <2>1, <2>4, Loads
    <3>2. OriginTyped'
      BY <1>1, <2>1, <2>2, <3>1 DEF OriginTyped
    <3>3. LastLoaded'
      BY <2>1, <2>4 DEF LastLoaded, N!loadAll
    <3> QED
      BY <1>1, <2>1, <3>1, <3>2, <3>3 DEF OriginInv, SomeTrusted
  <2> QED
    BY <2>3, <2>4
<1>8. CASE UNCHANGED originVars
  BY <1>1, <1>8
     DEF originVars, OriginInv, OriginTyped, HeldInUse, LastLoaded, SomeTrusted, N!loadAll
<1> QED
  BY <1>2, <1>3, <1>4, <1>5, <1>6, <1>7, <1>8 DEF N!Next

OriginsInv == part = "origin" => OriginInv

LEMMA OriginInvariant == Spec => []OriginsInv
<1>1. Init => OriginsInv
  BY OriginInit DEF Init, OriginsInv
<1>2. OriginsInv /\ [Next]_vars => OriginsInv'
  BY PartStep, OriginStep DEF OriginsInv
<1> QED
  BY <1>1, <1>2, PTL DEF Spec

\* A lookup finds the country of a client that a database in use knows.
LEMMA LookupFinds ==
  ASSUME HeldInUse, NEW ip \in N!Clients
  PROVE  N!Lookup(ip) = IF \E f \in held : ip \in N!Knows[f] THEN "X" ELSE ""
<1>1. /\ N!Knows["country"] = {"a4"} /\ N!Knows["cityV4"] = {"a4", "b4"}
      /\ N!Knows["cityV6"] = {"c6"}
  BY DEF N!Knows
<1>2. ip \in {"a4", "b4", "c6", "d4"}
  BY DEF N!Clients
<1>3. held = {f \in {"country", "cityV4", "cityV6"} : inuse[f] # 0}
  BY TheDatabases DEF HeldInUse
<1>4. (\E f \in {"country", N!cityReaderFor(ip)} : inuse[f] # 0 /\ ip \in N!Knows[f])
        <=> \E f \in held : ip \in N!Knows[f]
  BY <1>1, <1>2, <1>3 DEF N!cityReaderFor
<1> QED
  BY Zenon, <1>4 DEF N!Lookup

\* A database that was ever in use stays in use, whatever downloads fail or bring
\* rubbish; what is in use is what is on the disk when the last downloads have
\* ended; and IsBlocked refuses just those whose country is not let in, of whom a
\* database in use knows (geoip.go).
THEOREM CountriesAreDecided == Spec => []CountriesDecide
<1>1. OriginInv => N!CountriesDecide
  <2> SUFFICES ASSUME OriginInv, opens > 0 PROVE N!CountriesDecide
    BY DEF N!CountriesDecide
  <2>1. \A f \in held : inuse[f] # 0
    BY DEF OriginInv, HeldInUse
  <2>2. (\A g \in N!Getters : getting[g].pc = "off" /\ ~getting[g].failed) => inuse = N!loadAll
    BY DEF OriginInv, LastLoaded
  <2>3. ASSUME NEW ip \in N!Clients, NEW deny \in {{}, {"X"}}, NEW allow \in {{}, {"Y"}, {"X", "Y"}}
        PROVE  N!Refused(ip, deny, allow) <=>
                 /\ \E f \in held : ip \in N!Knows[f]
                 /\ allow = {"Y"} \/ (allow = {} /\ deny = {"X"})
    <3>1. CASE \E f \in held : ip \in N!Knows[f]
      <4>1. N!Lookup(ip) = "X"
        BY <3>1, LookupFinds DEF OriginInv
      <4>2. N!Refused(ip, deny, allow) <=> IF allow # {} THEN "X" \notin allow ELSE "X" \in deny
        BY Zenon, <4>1 DEF N!Refused, N!IsBlocked
      <4> QED
        BY <2>3, <3>1, <4>2
    <3>2. CASE ~\E f \in held : ip \in N!Knows[f]
      <4>1. N!Lookup(ip) = ""
        BY <3>2, LookupFinds DEF OriginInv
      <4> QED
        BY Zenon, <3>2, <4>1 DEF N!Refused, N!IsBlocked
    <3> QED
      BY <3>1, <3>2
  <2> QED
    BY <2>1, <2>2, <2>3 DEF N!CountriesDecide
<1>2. OriginsInv => CountriesDecide
  BY <1>1 DEF OriginsInv, CountriesDecide
<1> QED
  BY <1>2, OriginInvariant, PTL

-----------------------------------------------------------------------------
\* The header that wins among those that a request may have.
LEMMA Ranks ==
  \A n \in N!Named : \A ip, others :
    LET h == N!Names(n, ip, others) IN
      /\ h.name = n /\ h.lists[1] = ip
      /\ N!Rank(h) \in 1 .. 5 /\ (N!Rank(h) = 5 <=> n = "X-Client-IP")
<1>1. /\ N!Order[1] = "CF-Connecting-IP" /\ N!Order[2] = "True-Client-IP"
      /\ N!Order[3] = "X-Real-IP" /\ N!Order[4] = "X-Forwarded-For"
      /\ N!Order[5] = "X-Client-IP" /\ DOMAIN N!Order = 1 .. 5
  <2> DEFINE a == N!forwardedForHeaders
             b == <<"X-Forwarded-For", "X-Client-IP">>
  <2>1. /\ a \in Seq(N!Named) /\ Len(a) = 3 /\ a[1] = "CF-Connecting-IP"
        /\ a[2] = "True-Client-IP" /\ a[3] = "X-Real-IP"
    BY DEF N!forwardedForHeaders, N!Named
  <2>2. /\ b \in Seq(N!Named) /\ Len(b) = 2 /\ b[1] = "X-Forwarded-For" /\ b[2] = "X-Client-IP"
    BY DEF N!Named
  <2>3. N!Order = a \o b
    BY DEF N!Order
  <2> HIDE DEF a, b
  <2>4. /\ a \o b \in Seq(N!Named) /\ Len(a \o b) = Len(a) + Len(b)
        /\ \A i \in 1 .. Len(a) + Len(b) :
             (a \o b)[i] = IF i <= Len(a) THEN a[i] ELSE b[i - Len(a)]
    BY Zenon, <2>1, <2>2, ConcatProperties
  <2>5. /\ Len(a \o b) = 5
        /\ \A i \in 1 .. 5 : (a \o b)[i] = IF i <= 3 THEN a[i] ELSE b[i - 3]
    BY <2>1, <2>2, <2>4
  <2> QED
    BY <2>1, <2>2, <2>3, <2>4, <2>5
<1> TAKE n \in N!Named
<1> TAKE ip, others
<1> DEFINE h == N!Names(n, ip, others)
<1>2. h.name = n
  BY DEF N!Names
<1>3. h.lists[1] = ip
  BY DEF N!Names
<1>5. \E i \in 1 .. 5 : N!Order[i] = n
  BY <1>1 DEF N!Named
<1>6. N!Rank(h) \in 1 .. 5 /\ N!Order[N!Rank(h)] = n
  BY <1>1, <1>2, <1>5 DEF N!Rank
<1>7. N!Rank(h) = 5 <=> n = "X-Client-IP"
  <2>1. \A i \in 1 .. 5 : N!Order[i] = "X-Client-IP" <=> i = 5
    BY <1>1
  <2> QED
    BY <1>6, <2>1
<1> QED
  BY <1>2, <1>3, <1>6, <1>7

\* What a request with headers is taken to be from, through a trusted peer.
LEMMA FirstHeader ==
  ASSUME NEW headers \in N!Headers, headers # {}
  PROVE  LET h == N!First(headers) IN
           h \in headers /\ (h.name = "X-Client-IP" => headers = {h})
<1> DEFINE Better(h, g) == N!Rank(h) <= N!Rank(g)
<1>1. N!First(headers) = CHOOSE h \in headers : \A g \in headers : Better(h, g)
  BY DEF N!First
<1>2. CASE \E n \in N!Named : headers = {N!Names(n, "a4", <<"d4">>)}
  <2>1. PICK n \in N!Named : headers = {N!Names(n, "a4", <<"d4">>)}
    BY <1>2
  <2> DEFINE h == N!Names(n, "a4", <<"d4">>)
  <2>2. N!Rank(h) \in Nat
    BY Ranks
  <2> HIDE DEF h
  <2>3. Better(h, h)
    BY <2>2
  <2>4. headers = {h}
    BY <2>1 DEF h
  <2> HIDE DEF Better
  <2>5. N!First(headers) = h
    BY <1>1, <2>3, <2>4
  <2> QED
    BY <2>4, <2>5
<1>3. CASE \E n \in N!Named \ {"X-Client-IP"} :
             headers = {N!Names("X-Client-IP", "a4", <<>>), N!Names(n, "d4", <<"a4">>)}
  <2>1. PICK n \in N!Named \ {"X-Client-IP"} :
          headers = {N!Names("X-Client-IP", "a4", <<>>), N!Names(n, "d4", <<"a4">>)}
    BY <1>3
  <2> DEFINE g == N!Names("X-Client-IP", "a4", <<>>)
             h == N!Names(n, "d4", <<"a4">>)
  <2>2. "X-Client-IP" \in N!Named
    BY DEF N!Named
  <2>3. N!Rank(g) = 5 /\ N!Rank(h) \in 1 .. 4 /\ h.name # "X-Client-IP"
    <3>1. N!Rank(g) \in 1 .. 5 /\ (N!Rank(g) = 5 <=> "X-Client-IP" = "X-Client-IP")
      BY <2>2, Ranks
    <3>2. N!Rank(h) \in 1 .. 5 /\ (N!Rank(h) = 5 <=> n = "X-Client-IP") /\ h.name = n
      BY Ranks
    <3> HIDE DEF g, h
    <3> QED
      BY <3>1, <3>2
  <2> HIDE DEF g, h
  <2>4. Better(h, h) /\ Better(h, g) /\ ~Better(g, h)
    BY <2>3
  <2>5. headers = {g, h}
    BY <2>1 DEF g, h
  <2> HIDE DEF Better
  <2>6. N!First(headers) = h
    BY <1>1, <2>4, <2>5
  <2> QED
    BY <2>3, <2>5, <2>6
<1> QED
  BY <1>2, <1>3 DEF N!Headers

\* What Stands asks of a request.
StandsOf(r, trusted) ==
  LET from == N!ResolveClientIP(r, trusted)
      urls == N!GetURLVars(r, trusted)
  IN  IF N!OverlayOf(r) # N!OverlayNone
      THEN /\ from \notin N!Peers /\ urls.proto = "http"
           /\ urls.fqdn \in {r.host, "onion"}
           /\ r.published => N!OverlayHostNetwork(urls.fqdn) # N!OverlayNone
      ELSE /\ r.peer \in N!Clients => from = r.peer /\ urls.fqdn = r.host
           /\ r.peer = "near" /\ r.headers # {} =>
                \E h \in r.headers : /\ from = h.lists[1]
                                     /\ h.name = "X-Client-IP" => r.headers = {h}

\* However a request comes, it counts where it should.
LEMMA AllStand ==
  ASSUME NEW trusted \in {{"near"}, {"near", "proxy"}}, NEW r \in N!Requests
  PROVE  StandsOf(r, trusted)
<1>1. /\ r.peer \in N!Peers /\ r.headers \in N!Headers
      /\ r.host \in N!Hosts /\ r.listener \in {N!OverlayNone, "tor"} /\ r.published \in BOOLEAN
  BY DEF N!Requests
<1>2. CASE N!OverlayOf(r) # N!OverlayNone
  <2>1. N!OverlayOf(r) = "tor"
    BY <1>1, <1>2 DEF N!OverlayOf
  <2>2. N!ResolveClientIP(r, trusted) = "tor"
    BY Zenon, <1>2, <2>1 DEF N!ResolveClientIP
  <2>3. "tor" \notin N!Peers
    BY DEF N!Peers, N!Clients
  <2>4. N!GetURLVars(r, trusted) = [proto |-> "http", fqdn |-> N!overlayName(r)]
    BY Zenon, <1>2 DEF N!GetURLVars
  <2>5. /\ N!overlayName(r) \in {r.host, "onion"}
        /\ r.published => N!OverlayHostNetwork(N!overlayName(r)) # N!OverlayNone
    BY <1>1, <2>1 DEF N!overlayName, N!OverlayHostNetwork, N!OverlayNone, N!Hosts
  <2>6. /\ N!GetURLVars(r, trusted).proto = "http"
        /\ N!GetURLVars(r, trusted).fqdn = N!overlayName(r)
    BY <2>4
  <2> QED
    BY Zenon, <1>2, <2>2, <2>3, <2>5, <2>6 DEF StandsOf
<1>3. CASE N!OverlayOf(r) = N!OverlayNone
  <2>1. N!OverlayOf(r) = N!OverlayNone
    BY <1>3
  <2>2. ASSUME r.peer \in N!Clients
        PROVE  /\ N!ResolveClientIP(r, trusted) = r.peer
               /\ N!GetURLVars(r, trusted).fqdn = r.host
    <3>1. ~N!IsTrustedPeer(r, trusted)
      BY <2>2 DEF N!IsTrustedPeer, N!Clients
    <3>2. N!ResolveClientIP(r, trusted) = r.peer
      BY Zenon, <2>1, <3>1 DEF N!ResolveClientIP
    <3>3. N!GetURLVars(r, trusted) = [proto |-> "http", fqdn |-> r.host]
      BY Zenon, <2>1, <3>1 DEF N!GetURLVars
    <3> QED
      BY <3>2, <3>3
  <2>3. ASSUME r.peer = "near", r.headers # {}
        PROVE  \E h \in r.headers : /\ N!ResolveClientIP(r, trusted) = h.lists[1]
                                    /\ h.name = "X-Client-IP" => r.headers = {h}
    <3>1. N!IsTrustedPeer(r, trusted)
      BY <2>3 DEF N!IsTrustedPeer
    <3>2. N!ResolveClientIP(r, trusted) = N!First(r.headers).lists[1]
      BY Zenon, <2>1, <2>3, <3>1 DEF N!ResolveClientIP
    <3>3. /\ N!First(r.headers) \in r.headers
          /\ N!First(r.headers).name = "X-Client-IP" => r.headers = {N!First(r.headers)}
      BY <1>1, <2>3, FirstHeader
    <3> QED
      BY <3>2, <3>3
  <2> QED
    BY Zenon, <2>1, <2>2, <2>3 DEF StandsOf
<1> QED
  BY <1>2, <1>3

\* A client that comes by itself counts under its own address (ResolveClientIP), one
\* that comes through a trusted proxy under one that the proxy names; a request over
\* an overlay counts under no address and is answered under a name of the overlay once
\* the service has one, its own or the one the visitor sent.
THEOREM OriginsAreDecided == Spec => []OriginDecides
<1>1. OriginInv => N!OriginDecides
  <2> SUFFICES ASSUME OriginInv, opens = 1 PROVE N!Stands[trusts]
    BY DEF N!OriginDecides
  <2>1. trusts \in {{"near"}, {"near", "proxy"}}
    BY DEF OriginInv, SomeTrusted
  <2>2. N!Stands = [trusted \in {{"near"}, {"near", "proxy"}} |->
                      \A r \in N!Requests : StandsOf(r, trusted)]
    BY Zenon DEF N!Stands, StandsOf
  <2> QED
    BY <2>1, <2>2, AllStand
<1>2. OriginsInv => OriginDecides
  BY <1>1 DEF OriginsInv, OriginDecides
<1> QED
  BY <1>2, OriginInvariant, PTL

-----------------------------------------------------------------------------
(***************************************************************************)
(* Floods                                                                  *)
(***************************************************************************)
Passing ==
  [pc : {"none", "record", "block", "limit", "serve"}, class : {"read", "write"}, at : Nat]

GatewayTyped ==
  /\ tick \in Nat /\ counted \in Nat /\ resetAt \in Nat
  /\ requests \in [G!Slots -> Passing]
  /\ blocked \in [until : Nat, offenses : Nat]

\* A request is in the detector soon after it has come, and the window of the
\* detector ends within its length.
Prompt ==
  /\ \A s \in G!Slots :
       requests[s].pc \in {"record", "block"} =>
         requests[s].at <= tick /\ tick <= requests[s].at + 1
  /\ resetAt <= tick + Minute

\* Who has reached the threshold is about to be blocked, or is blocked for longer
\* than the window lasts.
FloodSeen ==
  counted >= Threshold /\ tick <= resetAt
    => (\E s \in G!Slots : requests[s].pc = "block") \/ blocked.until > resetAt

FloodInv == GatewayTyped /\ Prompt /\ FloodSeen

LEMMA FloodInit == G!Init => FloodInv
<1> SUFFICES ASSUME G!Init PROVE FloodInv
  OBVIOUS
<1>1. /\ tick = 0 /\ counted = 0 /\ resetAt = Minute /\ requests = [s \in G!Slots |-> G!NoRequest]
      /\ blocked = G!NoBlock
  BY DEF G!Init
<1>2. G!NoRequest \in Passing /\ G!NoRequest.pc = "none"
  BY DEF G!NoRequest, Passing
<1>3. G!NoBlock \in [until : Nat, offenses : Nat]
  BY DEF G!NoBlock
<1>4. GatewayTyped
  BY <1>1, <1>2, <1>3, WebAssumption DEF GatewayTyped
<1>5. Prompt
  BY <1>1, <1>2, WebAssumption DEF Prompt
<1>6. FloodSeen
  BY <1>1, WebAssumption DEF FloodSeen
<1> QED
  BY <1>4, <1>5, <1>6 DEF FloodInv

\* A step that changes one request, and neither begins nor ends a block of it.
LEMMA ServedOn ==
  ASSUME FloodInv, NEW s \in G!Slots, NEW new \in Passing, new.pc \notin {"record", "block"},
         requests' = [requests EXCEPT ![s] = new], requests[s].pc # "block",
         tick' = tick, counted' = counted, resetAt' = resetAt, blocked' = blocked
  PROVE  FloodInv'
<1>1. GatewayTyped'
  BY DEF FloodInv, GatewayTyped
<1>2. \A r \in G!Slots : requests'[r] = IF r = s THEN new ELSE requests[r]
  BY DEF FloodInv, GatewayTyped
<1>3. Prompt' /\ FloodSeen'
  BY <1>2 DEF FloodInv, Prompt, FloodSeen
<1> QED
  BY <1>1, <1>3 DEF FloodInv

\* A block outlasts the window of the detector, of which a part is over.
BlocksLong == BlockFor \in Nat /\ BlockFor > Minute + 1

LEMMA FloodStep ==
  ASSUME BlocksLong, FloodInv, [G!Next]_gatewayVars
  PROVE  FloodInv'
<1>1. /\ tick \in Nat /\ counted \in Nat /\ resetAt \in Nat
      /\ requests \in [G!Slots -> Passing] /\ blocked \in [until : Nat, offenses : Nat]
      /\ blocked.until \in Nat /\ blocked.offenses \in Nat
      /\ Prompt /\ FloodSeen /\ GatewayTyped
  BY DEF FloodInv, GatewayTyped
<1>2. G!NoRequest \in Passing /\ G!NoRequest.pc = "none"
  BY DEF G!NoRequest, Passing
<1>3. CASE G!Tick
  <2>1. /\ tick' = tick + 1 /\ requests' = requests /\ counted' = counted /\ resetAt' = resetAt
        /\ blocked' = blocked
        /\ \A s \in G!Slots : requests[s].pc \in {"record", "block"} => requests[s].at = tick
    BY <1>3 DEF G!Tick
  <2>2. GatewayTyped' /\ Prompt'
    BY <1>1, <2>1, WebAssumption DEF GatewayTyped, Prompt
  <2>3. FloodSeen'
    BY <1>1, <2>1 DEF FloodSeen
  <2> QED
    BY <2>2, <2>3 DEF FloodInv
<1>4. CASE G!Release
  <2>1. /\ tick' = tick /\ requests' = requests /\ counted' = counted /\ resetAt' = resetAt
        /\ blocked' = IF blocked.until <= tick THEN G!NoBlock ELSE blocked
    BY <1>4 DEF G!Release, G!Released
  <2>2. G!NoBlock \in [until : Nat, offenses : Nat]
    BY DEF G!NoBlock
  <2>3. GatewayTyped' /\ Prompt'
    BY <1>1, <2>1, <2>2 DEF GatewayTyped, Prompt
  <2>4. FloodSeen'
    BY <1>1, <2>1 DEF FloodSeen
  <2> QED
    BY <2>3, <2>4 DEF FloodInv
<1>5. CASE G!RecordOther
  <2>1. /\ tick' = tick /\ requests' = requests /\ counted' = 0 /\ resetAt' = tick + Minute
        /\ blocked' = blocked
    BY <1>5 DEF G!RecordOther
  <2>2. GatewayTyped' /\ Prompt'
    BY <1>1, <2>1, WebAssumption DEF GatewayTyped, Prompt
  <2>3. FloodSeen'
    BY <2>1, WebAssumption DEF FloodSeen
  <2> QED
    BY <2>2, <2>3 DEF FloodInv
<1>6. CASE G!LimitOther
  BY <1>1, <1>6 DEF G!LimitOther, FloodInv, GatewayTyped, Prompt, FloodSeen
<1>7. ASSUME NEW s \in G!Slots, NEW class \in G!Classes, NEW allowlisted \in BOOLEAN,
             G!Arrive(s, class, allowlisted)
      PROVE  FloodInv'
  <2>1. /\ tick' = tick /\ counted' = counted /\ resetAt' = resetAt /\ blocked' = blocked
        /\ requests[s] = G!NoRequest
    BY <1>7 DEF G!Arrive
  <2>2. CASE allowlisted
    <3> DEFINE new == [G!NoRequest EXCEPT !.pc = "serve"]
    <3>1. new \in Passing /\ new.pc = "serve" /\ requests' = [requests EXCEPT ![s] = new]
      BY <1>7, <2>2 DEF G!Arrive, G!NoRequest, Passing
    <3> HIDE DEF new
    <3> QED
      BY <1>2, <2>1, <3>1, ServedOn
  <2>3. CASE ~allowlisted
    <3> DEFINE new == [pc |-> "record", class |-> class, at |-> tick]
    <3>1. requests' = [requests EXCEPT ![s] = new]
      BY <1>7, <2>3 DEF G!Arrive
    <3>2. new \in Passing /\ new.pc = "record" /\ new.at = tick
      BY <1>1 DEF Passing, G!Classes
    <3> HIDE DEF new
    <3>3. \A r \in G!Slots : requests'[r] = IF r = s THEN new ELSE requests[r]
      BY <1>1, <3>1
    <3>4. GatewayTyped'
      BY <1>1, <2>1, <3>1, <3>2 DEF GatewayTyped
    <3>5. Prompt'
      BY <1>1, <2>1, <3>2, <3>3 DEF Prompt
    <3>6. FloodSeen'
      BY <1>1, <1>2, <2>1, <3>2, <3>3 DEF FloodSeen
    <3> QED
      BY <3>4, <3>5, <3>6 DEF FloodInv
  <2> QED
    BY <2>2, <2>3
<1>8. ASSUME NEW s \in G!Slots, G!Record(s)
      PROVE  FloodInv'
  <2> DEFINE over == requests[s].at > resetAt
  <2>1. /\ tick' = tick /\ blocked' = blocked /\ requests[s].pc = "record"
        /\ resetAt' = (IF over THEN requests[s].at + Minute ELSE resetAt)
        /\ counted' = (IF over THEN 1 ELSE counted + 1)
    BY <1>8 DEF G!Record
  <2>2. requests[s] \in Passing /\ requests[s].at \in Nat /\ requests[s].at <= tick
        /\ tick <= requests[s].at + 1 /\ resetAt <= tick + Minute
    BY <1>1, <2>1 DEF Passing, Prompt
  <2>3. PICK new \in Passing :
          /\ requests' = [requests EXCEPT ![s] = new]
          /\ counted' = Threshold => new.pc = "block" /\ new.at = requests[s].at
          /\ counted' # Threshold => new.pc = "limit"
    <3>1. CASE counted' = Threshold
      <4> DEFINE new == [requests[s] EXCEPT !.pc = "block"]
      <4>1. requests' = [requests EXCEPT ![s] = new]
        BY <1>8, <3>1 DEF G!Record, G!Floods
      <4>2. new \in Passing /\ new.pc = "block" /\ new.at = requests[s].at
        BY <2>2 DEF Passing
      <4> QED
        BY <3>1, <4>1, <4>2
    <3>2. CASE counted' # Threshold
      <4> DEFINE new == [requests[s] EXCEPT !.pc = "limit", !.at = 0]
      <4>1. requests' = [requests EXCEPT ![s] = new]
        BY <1>8, <3>2 DEF G!Record, G!Floods
      <4>2. new \in Passing /\ new.pc = "limit"
        BY <2>2 DEF Passing
      <4> QED
        BY <3>2, <4>1, <4>2
    <3> QED
      BY <3>1, <3>2
  <2>4. \A r \in G!Slots : requests'[r] = IF r = s THEN new ELSE requests[r]
    BY <1>1, <2>3
  <2> HIDE DEF over
  <2>5. counted' \in Nat /\ resetAt' \in Nat
    BY <1>1, <2>1, <2>2, WebAssumption
  <2>6. GatewayTyped'
    BY <1>1, <2>1, <2>3, <2>5 DEF GatewayTyped
  <2>7. Prompt'
    <3>1. resetAt' <= tick + Minute
      BY <1>1, <2>1, <2>2, WebAssumption
    <3>2. ASSUME NEW r \in G!Slots, requests'[r].pc \in {"record", "block"}
          PROVE  requests'[r].at <= tick /\ tick <= requests'[r].at + 1
      BY <1>1, <2>2, <2>3, <2>4, <3>2 DEF Prompt
    <3> QED
      BY <2>1, <3>1, <3>2 DEF Prompt
  <2>8. FloodSeen'
    <3> SUFFICES ASSUME counted' >= Threshold, tick <= resetAt'
                 PROVE  (\E r \in G!Slots : requests'[r].pc = "block") \/ blocked.until > resetAt'
      BY <2>1 DEF FloodSeen
    <3>1. CASE counted' = Threshold
      BY <2>3, <2>4, <3>1
    <3>2. CASE counted' # Threshold
      <4>1. ~over /\ counted >= Threshold /\ resetAt' = resetAt
        BY <1>1, <2>1, <3>2, WebAssumption
      <4>2. (\E r \in G!Slots : requests[r].pc = "block") \/ blocked.until > resetAt
        BY <1>1, <4>1 DEF FloodSeen
      <4> QED
        BY <2>1, <2>4, <4>1, <4>2
    <3> QED
      BY <3>1, <3>2
  <2> QED
    BY <2>6, <2>7, <2>8 DEF FloodInv
<1>9. ASSUME NEW s \in G!Slots, G!Block(s)
      PROVE  FloodInv'
  <2>1. /\ tick' = tick /\ counted' = counted /\ resetAt' = resetAt /\ requests[s].pc = "block"
        /\ blocked' = [until |-> requests[s].at + BlockFor, offenses |-> blocked.offenses + 1]
        /\ requests' = [requests EXCEPT ![s] = G!NoRequest]
    BY <1>9 DEF G!Block, G!Answer
  <2>2. requests[s].at \in Nat /\ tick <= requests[s].at + 1 /\ resetAt <= tick + Minute
    BY <1>1, <2>1 DEF Passing, Prompt
  <2>3. blocked' \in [until : Nat, offenses : Nat] /\ blocked'.until = requests[s].at + BlockFor
    BY <1>1, <2>1, <2>2 DEF BlocksLong
  <2>4. blocked'.until > resetAt
    BY <1>1, <2>2, <2>3, WebAssumption DEF BlocksLong
  <2>5. GatewayTyped' /\ FloodSeen'
    BY <1>1, <1>2, <2>1, <2>3, <2>4 DEF GatewayTyped, FloodSeen
  <2>6. Prompt'
    BY <1>1, <1>2, <2>1 DEF Prompt
  <2> QED
    BY <2>5, <2>6 DEF FloodInv
<1>10. ASSUME NEW s \in G!Slots, G!Limit(s) \/ G!Serve(s)
       PROVE  FloodInv'
  <2>1. /\ tick' = tick /\ counted' = counted /\ resetAt' = resetAt /\ blocked' = blocked
        /\ requests[s].pc \in {"limit", "serve"}
    BY <1>10 DEF G!Limit, G!Serve
  <2>2. PICK new \in Passing :
          requests' = [requests EXCEPT ![s] = new] /\ new.pc \in {"none", "serve"}
    <3>1. [G!NoRequest EXCEPT !.pc = "serve"] \in Passing
          /\ [G!NoRequest EXCEPT !.pc = "serve"].pc = "serve"
      BY DEF G!NoRequest, Passing
    <3>2. \/ requests' = [requests EXCEPT ![s] = [G!NoRequest EXCEPT !.pc = "serve"]]
          \/ requests' = [requests EXCEPT ![s] = G!NoRequest]
      BY <1>10 DEF G!Limit, G!Serve, G!Answer
    <3> QED
      BY <1>2, <3>1, <3>2
  <2> QED
    BY <2>1, <2>2, ServedOn
<1>11. CASE UNCHANGED gatewayVars
  BY <1>1, <1>11 DEF gatewayVars, FloodInv, GatewayTyped, Prompt, FloodSeen
<1> QED
  BY <1>3, <1>4, <1>5, <1>6, <1>7, <1>8, <1>9, <1>10, <1>11 DEF G!Next

\* Who reaches the threshold of the detector (Record) is blocked for the rest of its
\* window, though requests overtake each other between the locks of detector and
\* blocks and ReleaseExpired comes at any time; unless block_duration was set to no
\* more than that window, and a tick for the way between the two.
THEOREM FloodersAreBlocked ==
  ASSUME BlocksLong
  PROVE  Spec => []FloodersBlocked
<1> DEFINE Inv == part = "gateway" => FloodInv
<1>1. Init => Inv
  BY FloodInit DEF Init
<1>2. Inv /\ [Next]_vars => Inv'
  BY PartStep, FloodStep
<1>3. Inv => FloodersBlocked
  <2> SUFFICES ASSUME FloodInv, counted >= Threshold, tick <= resetAt,
                      \A s \in G!Slots : requests[s].pc # "block"
               PROVE  blocked.until > tick
    BY DEF FloodersBlocked, G!FloodersBlocked, G!Blocked
  <2>1. blocked.until > resetAt /\ resetAt \in Nat /\ tick \in Nat /\ blocked.until \in Nat
    BY DEF FloodInv, FloodSeen, GatewayTyped
  <2> QED
    BY <2>1
<1> QED
  BY <1>1, <1>2, <1>3, PTL DEF Spec

-----------------------------------------------------------------------------
(***************************************************************************)
(* Pages: paths                                                            *)
(***************************************************************************)
Gap  == ""
Bare == P!Segments \ {""}

LEMMA BareFacts ==
  /\ Bare \subseteq P!Segments /\ Gap \notin Bare /\ Gap \in P!Segments
  /\ P!Segments \cap Bare = Bare
  /\ "." # Gap /\ ".." # Gap
BY Zenon DEF Bare, Gap, P!Segments

\* The selections of Pages are those that the lemmas are about.
LEMMA PagesSelect ==
  ASSUME NEW s, NEW A
  PROVE  P!Among(s, A) = Among(s, A)
BY DEF P!Among, Among

LEMMA SeqWider ==
  ASSUME NEW A, NEW B, A \subseteq B, NEW s \in Seq(A)
  PROVE  s \in Seq(B)
OBVIOUS

LEMMA FrontFacts ==
  ASSUME NEW S, NEW p \in Seq(S), p # <<>>
  PROVE  /\ P!Front(p) \in Seq(S) /\ Len(P!Front(p)) = Len(p) - 1
         /\ P!Last(p) \in S /\ Len(p) \in Nat /\ Len(p) >= 1
         /\ \A i \in 1 .. Len(P!Front(p)) : P!Front(p)[i] = p[i]
<1> DEFINE n == Len(p)
           m == Len(p) - 1
<1>1. n \in Nat /\ n >= 1 /\ p[n] \in S
  BY EmptySeq
<1>2. P!Front(p) = SubSeq(p, 1, m)
  BY DEF P!Front
<1>3. \A i \in 1 .. m : p[i] \in S
  BY <1>1
<1>4. m \in Int /\ m >= 0
  BY <1>1
<1> HIDE DEF m
<1>5. /\ SubSeq(p, 1, m) \in Seq(S)
      /\ Len(SubSeq(p, 1, m)) = IF 1 <= m THEN m - 1 + 1 ELSE 0
  BY <1>3, <1>4, SubSeqProperties
<1>6. Len(SubSeq(p, 1, m)) = m
  BY <1>4, <1>5
<1>7. \A i \in 1 .. m : SubSeq(p, 1, m)[i] = p[i]
  BY <1>1, <1>4 DEF m
<1> QED
  BY <1>1, <1>2, <1>5, <1>6, <1>7 DEF P!Last, m

\* What is squeezed has no empty segment but the last.
LEMMA SqueezedFacts ==
  ASSUME NEW p \in Seq(P!Segments), p # <<>>
  PROVE  LET a == Among(P!Front(p), Bare) IN
           /\ a \in Seq(Bare) /\ a \in Seq(P!Segments) /\ Len(a) < Len(p)
           /\ P!Squeezed(p) = a \o <<P!Last(p)>>
           /\ P!Last(P!Squeezed(p)) = P!Last(p)
           /\ P!Front(P!Squeezed(p)) = a
<1> DEFINE a == Among(P!Front(p), Bare)
<1>1. /\ P!Front(p) \in Seq(P!Segments) /\ Len(P!Front(p)) = Len(p) - 1
      /\ P!Last(p) \in P!Segments /\ Len(p) \in Nat
  BY FrontFacts
<1>3. a \in Seq(P!Segments \cap Bare) /\ a \in Seq(P!Segments) /\ Len(a) <= Len(P!Front(p))
  BY <1>1, AmongFacts
<1>5. a \in Seq(Bare)
  BY <1>3, BareFacts, Zenon
<1>6. P!Squeezed(p) = a \o <<P!Last(p)>>
  BY PagesSelect, Zenon DEF P!Squeezed, Bare
<1> HIDE DEF a
<1>7. Len(a) < Len(p) /\ Len(a) \in Nat
  BY <1>1, <1>3
<1>8. /\ P!Squeezed(p) \in Seq(P!Segments) /\ Len(P!Squeezed(p)) = Len(a) + 1
      /\ \A i \in 1 .. Len(a) : P!Squeezed(p)[i] = a[i]
      /\ P!Squeezed(p)[Len(a) + 1] = P!Last(p)
  BY <1>1, <1>3, <1>6, <1>7
<1>9. P!Last(P!Squeezed(p)) = P!Last(p)
  BY <1>8 DEF P!Last
<1>10. P!Front(P!Squeezed(p)) = a
  <2>1. P!Front(P!Squeezed(p)) = SubSeq(P!Squeezed(p), 1, Len(a))
    BY <1>7, <1>8 DEF P!Front
  <2>2. /\ SubSeq(P!Squeezed(p), 1, Len(a)) \in Seq(P!Segments)
        /\ Len(SubSeq(P!Squeezed(p), 1, Len(a))) = Len(a)
        /\ \A i \in 1 .. Len(a) : SubSeq(P!Squeezed(p), 1, Len(a))[i] = a[i]
    BY <1>7, <1>8
  <2> QED
    BY <1>3, <2>1, <2>2, SeqEqual
<1> QED
  BY <1>3, <1>5, <1>6, <1>7, <1>9, <1>10 DEF a

LEMMA RootFacts ==
  /\ P!Root = <<Gap>> /\ Len(P!Root) = 1 /\ P!Root \in Seq(P!Segments) /\ P!Root # <<>>
  /\ P!Last(P!Root) = Gap /\ P!Range(P!Root) = {Gap}
<1>1. P!Root = <<Gap>>
  BY Zenon DEF P!Root, Gap
<1>2. Gap \in P!Segments
  BY BareFacts
<1>3. <<Gap>> # <<>> /\ Len(<<Gap>>) = 1 /\ <<Gap>>[1] = Gap /\ <<Gap>> \in Seq(P!Segments)
  BY <1>2
<1>4. P!Range(<<Gap>>) = {Gap}
  BY <1>3 DEF P!Range
<1> QED
  BY <1>1, <1>3, <1>4 DEF P!Last

LEMMA TrailingFacts ==
  ASSUME NEW p
  PROVE  /\ P!Trailing(p) <=> p # P!Root /\ P!Last(p) = Gap
         /\ P!Redirects(p) => P!Trailing(P!Squeezed(p))
         /\ P!Normalized(p) = IF P!Trailing(P!Squeezed(p)) THEN P!Front(P!Squeezed(p))
                              ELSE P!Squeezed(p)
BY Zenon DEF P!Trailing, Gap, P!Redirects, P!Normalized, P!Cut

\* A path that does not end in a slash is not redirected, nor is the root.
LEMMA Straight ==
  ASSUME NEW p \in Seq(P!Segments), p # <<>>, P!Last(p) # Gap \/ p = P!Root
  PROVE  ~P!Redirects(p)
<1>1. P!Last(P!Squeezed(p)) = P!Last(p)
  BY SqueezedFacts
<1>2. CASE P!Last(p) # Gap
  BY <1>1, <1>2, TrailingFacts, Zenon
<1>3. CASE p = P!Root
  <2> DEFINE a == Among(P!Front(p), Bare)
  <2>1. a \in Seq(Bare) /\ Len(a) < Len(p) /\ P!Squeezed(p) = a \o <<P!Last(p)>>
    BY SqueezedFacts
  <2> HIDE DEF a
  <2>2. Len(p) = 1 /\ P!Last(p) = Gap
    BY <1>3, RootFacts
  <2>3. Len(a) = 0
    BY <2>1, <2>2
  <2>4. a = <<>>
    BY <2>1, <2>3, EmptySeq
  <2>5. P!Squeezed(p) = P!Root
    BY <2>1, <2>2, <2>4, RootFacts
  <2> QED
    BY <2>5, TrailingFacts, Zenon
<1> QED
  BY <1>2, <1>3

\* What a path is normalized to.
LEMMA NormalizedFacts ==
  ASSUME NEW p \in Seq(P!Segments), p # <<>>
  PROVE  /\ P!Normalized(p) \in Seq(P!Segments)
         /\ P!Redirects(p) => /\ P!Normalized(p) \in Seq(Bare) /\ P!Normalized(p) # <<>>
                              /\ Len(P!Squeezed(p)) = Len(P!Normalized(p)) + 1
<1> DEFINE a == Among(P!Front(p), Bare)
           q == P!Squeezed(p)
<1>1. /\ a \in Seq(Bare) /\ a \in Seq(P!Segments) /\ q = a \o <<P!Last(p)>>
      /\ P!Last(q) = P!Last(p) /\ P!Front(q) = a
  BY SqueezedFacts
<1>2. P!Last(p) \in P!Segments
  BY FrontFacts
<1>3. P!Normalized(p) = IF P!Trailing(q) THEN P!Front(q) ELSE q
  BY TrailingFacts
<1>4. P!Redirects(p) => P!Trailing(q)
  BY TrailingFacts
<1>t. P!Trailing(q) => q # P!Root /\ P!Last(q) = Gap
  BY TrailingFacts
<1> HIDE DEF a, q
<1>6. q \in Seq(P!Segments) /\ Len(q) = Len(a) + 1
  BY <1>1, <1>2
<1>7. P!Trailing(q) => a # <<>>
  <2> SUFFICES ASSUME P!Trailing(q), a = <<>> PROVE FALSE
    OBVIOUS
  <2>1. P!Last(p) = Gap /\ q # P!Root
    BY <1>1, <1>t
  <2>2. q = <<P!Last(p)>>
    BY <1>1, <1>2
  <2> QED
    BY <2>1, <2>2, RootFacts
<1> QED
  BY <1>1, <1>3, <1>4, <1>6, <1>7 DEF q

\* What a selection is to keep is there before and after.
LEMMA AmongRange ==
  ASSUME NEW S, NEW s \in Seq(S), NEW A, NEW x \in A
  PROVE  x \in P!Range(Among(s, A)) <=> x \in P!Range(s)
<1> DEFINE R == P!Range(s)
           a == Among(s, A)
<1>1. s \in Seq(R)
  BY DEF P!Range
<1> HIDE DEF R
<1> HIDE DEF a
<1>2. a \in Seq(R)
  BY <1>1, AmongFacts DEF a
<1>5. HasAll(a, s, A)
  BY AmongFacts DEF a
<1>3. x \in P!Range(a) => x \in R
  BY <1>2 DEF P!Range
<1>4. ASSUME x \in P!Range(s) PROVE x \in P!Range(a)
  <2>1. PICK j \in 1 .. Len(s) : s[j] = x
    BY <1>1, <1>4 DEF P!Range
  <2>2. PICK k \in 1 .. Len(a) : a[k] = x
    BY <1>5, <2>1 DEF HasAll
  <2> QED
    BY <1>2, <2>2 DEF P!Range
<1> QED
  BY <1>3, <1>4 DEF R, a

\* A segment with a name is there before and after.
LEMMA NormalizedKeeps ==
  ASSUME NEW p \in Seq(P!Segments), p # <<>>, NEW x \in Bare
  PROVE  x \in P!Range(P!Normalized(p)) <=> x \in P!Range(p)
<1> DEFINE f == P!Front(p)
           a == Among(f, Bare)
           q == P!Squeezed(p)
<1>1. /\ a \in Seq(P!Segments) /\ q = a \o <<P!Last(p)>>
      /\ P!Last(q) = P!Last(p) /\ P!Front(q) = a
  BY SqueezedFacts
<1>2. /\ f \in Seq(P!Segments) /\ Len(f) = Len(p) - 1 /\ P!Last(p) \in P!Segments
      /\ \A i \in 1 .. Len(f) : f[i] = p[i]
  BY FrontFacts
<1>3. P!Normalized(p) = IF P!Trailing(q) THEN P!Front(q) ELSE q
  BY TrailingFacts
<1>4. P!Trailing(q) => P!Last(q) = Gap
  BY TrailingFacts
<1>5. x # Gap
  BY BareFacts
<1>6. x \in P!Range(a) <=> x \in P!Range(f)
  BY <1>2, AmongRange
<1> HIDE DEF a, f, q
<1>7. x \in P!Range(p) <=> x \in P!Range(f) \/ x = P!Last(p)
  <2>1. Len(p) \in Nat /\ Len(p) >= 1 /\ P!Last(p) = p[Len(p)]
    BY DEF P!Last
  <2>2. \A i \in 1 .. Len(p) : i \in 1 .. Len(f) \/ i = Len(p)
    BY <1>2, <2>1
  <2>3. \A i \in 1 .. Len(f) : i \in 1 .. Len(p)
    BY <1>2, <2>1
  <2>4. P!Range(p) = {p[i] : i \in 1 .. Len(p)} /\ P!Range(f) = {f[i] : i \in 1 .. Len(f)}
    BY <1>2 DEF P!Range
  <2>5. Len(p) \in 1 .. Len(p)
    BY <2>1
  <2> QED
    BY <1>2, <2>1, <2>2, <2>3, <2>4, <2>5
<1>8. x \in P!Range(q) <=> x \in P!Range(a) \/ x = P!Last(p)
  <2>1. /\ q \in Seq(P!Segments) /\ Len(q) = Len(a) + 1 /\ q[Len(a) + 1] = P!Last(p)
        /\ \A i \in 1 .. Len(a) : q[i] = a[i]
    BY <1>1, <1>2
  <2>2. Len(a) \in Nat
    BY <1>1
  <2>3. P!Range(q) = {q[i] : i \in 1 .. Len(q)} /\ P!Range(a) = {a[i] : i \in 1 .. Len(a)}
    <3>1. DOMAIN q = 1 .. Len(q) /\ DOMAIN a = 1 .. Len(a)
      BY <1>1, <2>1
    <3> QED
      BY Zenon, <3>1 DEF P!Range
  <2>4. /\ \A i \in 1 .. Len(q) : i \in 1 .. Len(a) \/ i = Len(a) + 1
        /\ \A i \in 1 .. Len(a) : i \in 1 .. Len(q)
        /\ Len(a) + 1 \in 1 .. Len(q)
    BY <2>1, <2>2
  <2> QED
    BY <2>1, <2>3, <2>4
<1> QED
  BY <1>1, <1>3, <1>4, <1>5, <1>6, <1>7, <1>8

\* What a path is cleaned to has names only, and those of the path.
Ups == {"", ".", ".."}

LEMMA UpsFacts == Gap \in Ups /\ P!Segments \ Ups \subseteq Bare
BY Zenon DEF Ups, Gap, Bare

\* A segment ends the walk a step further at the most, and on names.
LEMMA WalkFacts ==
  ASSUME NEW S, NEW q \in Seq(S \ Ups), NEW x \in S
  PROVE  P!Walk(q, x) \in Seq(S \ Ups) /\ Len(P!Walk(q, x)) <= Len(q) + 1
<1>1. CASE x \notin Ups
  <2>1. P!Walk(q, x) = Append(q, x)
    BY <1>1, Zenon DEF P!Walk, Ups
  <2> QED
    BY <1>1, <2>1
<1>2. CASE x \in Ups
  <2>1. P!Walk(q, x) = q \/ P!Walk(q, x) = <<>> \/ (q # <<>> /\ P!Walk(q, x) = P!Front(q))
    BY <1>2, Zenon DEF P!Walk, Ups
  <2>2. CASE P!Walk(q, x) = q
    BY <2>2
  <2>3. CASE P!Walk(q, x) = <<>>
    BY <2>3
  <2>4. CASE q # <<>> /\ P!Walk(q, x) = P!Front(q)
    <3>1. P!Front(q) \in Seq(S \ Ups) /\ Len(P!Front(q)) = Len(q) - 1
      BY <2>4, FrontFacts
    <3> QED
      BY <2>4, <3>1
  <2> QED
    BY <2>1, <2>2, <2>3, <2>4
<1> QED
  BY <1>1, <1>2

\* The function that Clean takes its value from, for the first n segments.
WalkTo(f, p, n) == f = [i \in 0 .. n |-> IF i = 0 THEN <<>> ELSE P!Walk(f[i - 1], p[i])]

LEMMA WalkToExists ==
  ASSUME NEW p, NEW n \in Nat
  PROVE  \E f : WalkTo(f, p, n)
<1> DEFINE Bad == {k \in Nat : ~\E f : WalkTo(f, p, k)}
<1> SUFFICES ASSUME Bad # {} PROVE FALSE
  OBVIOUS
<1>1. PICK m \in Bad : \A k \in Bad : m <= k
  BY SmallestNat
<1>2. m # 0
  <2>1. WalkTo([i \in 0 .. 0 |-> <<>>], p, 0)
    BY DEF WalkTo
  <2> QED
    BY <1>1, <2>1
<1>3. m - 1 \in Nat /\ m \in Nat /\ m - 1 \notin Bad
  BY <1>1, <1>2
<1>4. PICK g : WalkTo(g, p, m - 1)
  BY <1>3
<1> DEFINE f == [i \in 0 .. m |-> IF i < m THEN g[i] ELSE P!Walk(g[m - 1], p[m])]
<1>5. ASSUME NEW i \in 0 .. m
      PROVE  f[i] = IF i = 0 THEN <<>> ELSE P!Walk(f[i - 1], p[i])
  <2>1. CASE i = 0
    BY <1>3, <1>4, <2>1 DEF WalkTo
  <2>2. CASE i # 0 /\ i < m
    <3>1. i \in 0 .. m - 1 /\ i - 1 \in 0 .. m /\ i - 1 < m
      BY <1>3, <2>2
    <3>2. f[i] = g[i] /\ f[i - 1] = g[i - 1]
      BY <2>2, <3>1
    <3> QED
      BY <1>4, <2>2, <3>1, <3>2 DEF WalkTo
  <2>3. CASE i = m
    <3>1. m - 1 \in 0 .. m /\ m - 1 < m /\ ~(m < m) /\ m \in 0 .. m
      BY <1>3
    <3>2. f[m - 1] = g[m - 1]
      BY <3>1
    <3>3. f[m] = P!Walk(g[m - 1], p[m])
      BY <3>1
    <3> QED
      BY <1>2, <2>3, <3>2, <3>3
  <2> QED
    BY <1>3, <2>1, <2>2, <2>3
<1>6. WalkTo(f, p, m)
  BY <1>5 DEF WalkTo
<1> QED
  BY <1>1, <1>6

LEMMA CleanNames ==
  ASSUME NEW S, NEW p \in Seq(S)
  PROVE  \/ P!Clean(p) = P!Root
         \/ P!Clean(p) \in Seq(S \ Ups) /\ P!Clean(p) # <<>> /\ Len(P!Clean(p)) <= Len(p)
<1> DEFINE f == CHOOSE g : WalkTo(g, p, Len(p))
           Right(i) == f[i] \in Seq(S \ Ups) /\ Len(f[i]) <= i
           Bad == {i \in 0 .. Len(p) : ~Right(i)}
<1>1. Len(p) \in Nat
  OBVIOUS
<1>2. P!Clean(p) = IF f[Len(p)] = <<>> THEN P!Root ELSE f[Len(p)]
  BY DEF P!Clean, WalkTo
<1>3. WalkTo(f, p, Len(p))
  BY <1>1, WalkToExists
<1> HIDE DEF f
<1>4. f[0] = <<>>
  BY <1>1, <1>3 DEF WalkTo
<1>5. \A i \in 1 .. Len(p) : f[i] = P!Walk(f[i - 1], p[i])
  <2> SUFFICES ASSUME NEW i \in 1 .. Len(p) PROVE f[i] = P!Walk(f[i - 1], p[i])
    OBVIOUS
  <2>1. i \in 0 .. Len(p) /\ i # 0
    BY <1>1
  <2>2. f[i] = [k \in 0 .. Len(p) |-> IF k = 0 THEN <<>> ELSE P!Walk(f[k - 1], p[k])][i]
    BY <1>3, Zenon DEF WalkTo
  <2> QED
    BY <2>1, <2>2
<1>6. Bad = {}
  <2> SUFFICES ASSUME Bad # {} PROVE FALSE
    OBVIOUS
  <2>1. Bad \subseteq Nat
    BY <1>1
  <2>2. PICK m \in Bad : \A k \in Bad : m <= k
    BY <2>1, SmallestNat
  <2>3. Right(0)
    BY <1>4
  <2>4. m \in 1 .. Len(p) /\ m - 1 \in 0 .. Len(p) /\ m - 1 \notin Bad /\ m \in Nat
    <3>1. m \in 0 .. Len(p) /\ ~Right(m)
      BY <2>2
    <3>2. m # 0
      BY <2>3, <3>1
    <3> HIDE DEF Right
    <3>3. m \in 1 .. Len(p) /\ m - 1 \in 0 .. Len(p) /\ m \in Nat /\ ~(m <= m - 1)
      BY <1>1, <3>1, <3>2
    <3> HIDE DEF Bad
    <3>4. m - 1 \notin Bad
      BY <2>2, <3>3
    <3> QED
      BY <3>3, <3>4
  <2>5. f[m - 1] \in Seq(S \ Ups) /\ Len(f[m - 1]) <= m - 1
    BY <2>4
  <2>6. p[m] \in S /\ f[m] = P!Walk(f[m - 1], p[m])
    BY <1>5, <2>4
  <2>7. f[m] \in Seq(S \ Ups) /\ Len(f[m]) <= Len(f[m - 1]) + 1
    BY <2>5, <2>6, WalkFacts
  <2>8. Right(m)
    BY <2>4, <2>5, <2>7
  <2> QED
    BY <2>2, <2>8
<1>7. f[Len(p)] \in Seq(S \ Ups) /\ Len(f[Len(p)]) <= Len(p)
  BY <1>1, <1>6
<1> HIDE DEF Bad, Right
<1> QED
  BY <1>2, <1>7

\* It is not redirected.
LEMMA CleanFacts ==
  ASSUME NEW p \in Seq(P!Segments)
  PROVE  /\ P!Clean(p) \in Seq(P!Segments) /\ P!Clean(p) # <<>>
         /\ Len(P!Clean(p)) <= Len(p) \/ Len(P!Clean(p)) = 1
         /\ ~P!Redirects(P!Clean(p))
<1> DEFINE q == P!Clean(p)
           C == P!Segments \ Ups
<1>1. q = P!Root \/ (q \in Seq(C) /\ q # <<>> /\ Len(q) <= Len(p))
  BY CleanNames
<1>2. C \subseteq Bare /\ Bare \subseteq P!Segments /\ Gap \notin Bare
  BY UpsFacts, BareFacts
<1> HIDE DEF q, C
<1>3. CASE q = P!Root
  BY <1>3, RootFacts, Straight DEF q
<1>4. CASE q \in Seq(C) /\ q # <<>> /\ Len(q) <= Len(p)
  <2>1. q \in Seq(Bare)
    BY <1>2, <1>4, SeqWider
  <2>2. q \in Seq(P!Segments) /\ P!Last(q) \in Bare
    BY <1>2, <1>4, <2>1, SeqWider, FrontFacts
  <2>3. ~P!Redirects(q)
    BY <1>2, <1>4, <2>2, Straight
  <2> QED
    BY <1>4, <2>2, <2>3 DEF q
<1> QED
  BY <1>1, <1>3, <1>4

\* Where a redirect leads: never further than the path it is made of.
LEMMA LocationFacts ==
  ASSUME NEW p \in Seq(Bare), p # <<>>
  PROVE  LET g == P!Location(p) IN
           /\ g \in Seq(P!Segments) /\ g # <<>> /\ Len(g) <= Len(p)
           /\ ~P!NamesHost(g) /\ P!Range(g) \subseteq P!Range(p) \cup {Gap}
           /\ P!Range(p) \cap P!Strange = {} =>
                ~P!Redirects(g) /\ P!Range(g) \cap P!Strange = {}
<1> DEFINE g == P!Location(p)
           R == P!Range(p)
           cut == {i \in DOMAIN p : p[i] = "?"}
<1>1. p \in Seq(R) /\ R \subseteq Bare /\ Len(p) \in Nat /\ Len(p) >= 1 /\ p[1] # Gap
  BY BareFacts DEF P!Range
<1>2. Bare \subseteq P!Segments /\ Gap \notin Bare /\ Gap \in P!Segments
  BY BareFacts
<1>3. p \in Seq(P!Segments) /\ R \subseteq P!Segments
  BY <1>1, <1>2
<1>4. ~P!NamesHost(p)
  BY <1>1, Zenon DEF P!NamesHost, Gap
<1>5. Gap \notin P!Strange
  BY DEF P!Strange, Gap
<1>6. cut = {} => g = P!Clean(p)
  BY <1>4, Zenon DEF P!Location
<1>7. cut # {} => LET before == P!Clean(SubSeq(p, 1, P!Min(cut) - 1)) IN
                    g = IF before = P!Root THEN P!Root ELSE before \o <<Gap>>
  BY <1>4, Zenon DEF P!Location, Gap
<1>8. P!Range(p) \cap P!Strange = {} => cut = {}
  <2>1. "?" \in P!Strange
    BY DEF P!Strange
  <2> QED
    BY <2>1 DEF P!Range
<1>9. cut \subseteq 1 .. Len(p)
  OBVIOUS
<1> HIDE DEF g, R, cut
<1>10. ASSUME g = P!Root
       PROVE  /\ g \in Seq(P!Segments) /\ g # <<>> /\ Len(g) <= Len(p)
              /\ ~P!NamesHost(g) /\ P!Range(g) \subseteq R \cup {Gap}
              /\ ~P!Redirects(g) /\ P!Range(g) \cap P!Strange = {}
  <2>1. ~(Len(g) > 1)
    BY <1>10, RootFacts
  <2>2. ~P!NamesHost(g)
    BY Zenon, <2>1 DEF P!NamesHost
  <2>3. ~P!Redirects(g)
    BY <1>10, RootFacts, Straight
  <2> QED
    BY <1>1, <1>5, <1>10, <2>2, <2>3, RootFacts
<1>11. ASSUME NEW q \in Seq(R \ Ups), q # <<>>
       PROVE  /\ q \in Seq(Bare) /\ q \in Seq(P!Segments) /\ q[1] # Gap
              /\ P!Range(q) \subseteq R /\ ~P!NamesHost(q) /\ ~P!Redirects(q)
  <2>1. R \ Ups \subseteq Bare /\ R \ Ups \subseteq R
    BY <1>1
  <2>2. q \in Seq(Bare) /\ q \in Seq(P!Segments) /\ q \in Seq(R) /\ Len(q) \in Nat /\ Len(q) >= 1
    BY <1>11, <1>2, <2>1, SeqWider
  <2>3. q[1] \in Bare /\ P!Last(q) \in Bare
    BY <1>11, <2>2, FrontFacts
  <2>4. q[1] # Gap
    BY <1>2, <2>3
  <2>5. ~P!NamesHost(q)
    BY <2>4, Zenon DEF P!NamesHost, Gap
  <2>6. ~P!Redirects(q)
    BY <1>2, <1>11, <2>2, <2>3, Straight
  <2>7. P!Range(q) \subseteq R
    BY <2>2 DEF P!Range
  <2> QED
    BY <2>2, <2>4, <2>5, <2>6, <2>7
<1>12. CASE cut = {}
  <2>1. g = P!Root \/ (g \in Seq(R \ Ups) /\ g # <<>> /\ Len(g) <= Len(p))
    BY <1>1, <1>6, <1>12, CleanNames
  <2>2. CASE g = P!Root
    BY <1>10, <2>2 DEF g, R
  <2>3. CASE g \in Seq(R \ Ups) /\ g # <<>> /\ Len(g) <= Len(p)
    <3>1. /\ g \in Seq(P!Segments) /\ P!Range(g) \subseteq R
          /\ ~P!NamesHost(g) /\ ~P!Redirects(g)
      BY <1>11, <2>3
    <3>2. R \cap P!Strange = {} => P!Range(g) \cap P!Strange = {}
      BY <3>1
    <3> QED
      BY <2>3, <3>1, <3>2 DEF g, R
  <2> QED
    BY <2>1, <2>2, <2>3
<1>13. CASE cut # {}
  <2> DEFINE m == P!Min(cut)
             b == SubSeq(p, 1, m - 1)
             q == P!Clean(b)
  <2>1. m \in 1 .. Len(p)
    <3>1. cut \subseteq Nat
      BY <1>1, <1>9
    <3>2. \E x \in cut : \A y \in cut : x <= y
      BY <1>13, <3>1, SmallestNat
    <3>3. m \in cut
      BY <3>2 DEF P!Min
    <3> QED
      BY <1>9, <3>3
  <2> HIDE DEF m
  <2>2. b \in Seq(R) /\ Len(b) = m - 1
    <3>1. m - 1 \in Int /\ m - 1 >= 0 /\ m - 1 <= Len(p) /\ m - 1 \in Nat
      BY <1>1, <2>1
    <3>2. \A i \in 1 .. m - 1 : p[i] \in R
      BY <1>1, <3>1
    <3>3. b \in Seq(R) /\ Len(b) = IF 1 <= m - 1 THEN m - 1 - 1 + 1 ELSE 0
      BY <3>1, <3>2, SubSeqProperties
    <3> QED
      BY <3>1, <3>3
  <2>3. g = IF q = P!Root THEN P!Root ELSE q \o <<Gap>>
    BY <1>7, <1>13 DEF q, b, m
  <2> HIDE DEF b
  <2>4. q = P!Root \/ (q \in Seq(R \ Ups) /\ q # <<>> /\ Len(q) <= m - 1)
    BY <2>2, CleanNames
  <2>5. ~(P!Range(p) \cap P!Strange = {})
    BY <1>8, <1>13
  <2> HIDE DEF q
  <2>6. CASE q = P!Root
    BY <1>10, <2>3, <2>5, <2>6 DEF g, R
  <2>7. CASE q # P!Root
    <3>1. q \in Seq(R \ Ups) /\ q # <<>> /\ Len(q) <= m - 1
      BY <2>4, <2>7
    <3>2. q \in Seq(P!Segments) /\ q[1] # Gap /\ P!Range(q) \subseteq R
      BY <1>11, <3>1
    <3>3. g = q \o <<Gap>>
      BY <2>3, <2>7
    <3>4. Len(q) \in Nat /\ Len(q) >= 1
      BY <3>1, <3>2
    <3>5. /\ g \in Seq(P!Segments) /\ Len(g) = Len(q) + 1 /\ g[Len(q) + 1] = Gap
          /\ \A i \in 1 .. Len(q) : g[i] = q[i]
      BY <1>2, <3>2, <3>3, <3>4
    <3>6. g # <<>> /\ Len(g) <= Len(p)
      BY <2>1, <3>1, <3>4, <3>5
    <3>7. g[1] # Gap
      BY <3>2, <3>4, <3>5
    <3>8. ~P!NamesHost(g)
      BY <3>7, Zenon DEF P!NamesHost, Gap
    <3>9. P!Range(g) \subseteq R \cup {Gap}
      <4>1. \A i \in 1 .. Len(g) : i \in 1 .. Len(q) \/ i = Len(q) + 1
        BY <3>4, <3>5
      <4>2. \A i \in 1 .. Len(q) : q[i] \in R
        BY <3>2 DEF P!Range
      <4>3. \A i \in 1 .. Len(g) : g[i] \in R \cup {Gap}
        BY <3>5, <4>1, <4>2
      <4> QED
        BY <3>5, <4>3 DEF P!Range
    <3> QED
      BY <2>5, <3>5, <3>6, <3>8, <3>9 DEF g, R
  <2> QED
    BY <2>6, <2>7
<1> QED
  BY <1>12, <1>13

\* What is asked for then has as many segments, and the same if none is strange.
LEMMA AskedFacts ==
  ASSUME NEW p \in Seq(P!Segments), p # <<>>
  PROVE  /\ P!Asked(p) \in Seq(P!Segments) /\ P!Asked(p) # <<>>
         /\ Len(P!Asked(p)) = Len(p)
         /\ P!Range(p) \cap P!Strange = {} => P!Asked(p) = p
<1>1. \A x \in P!Segments : P!Again(x) \in P!Segments
  <2> SUFFICES ASSUME NEW x \in P!Segments PROVE P!Again(x) \in P!Segments
    OBVIOUS
  <2>1. P!Again(x) = IF x = "%3F" THEN "?" ELSE IF x = "\\" THEN Gap ELSE x
    BY Zenon DEF P!Again, Gap
  <2>2. "?" \in P!Segments /\ Gap \in P!Segments
    BY BareFacts DEF P!Segments, P!Strange
  <2> QED
    BY <2>1, <2>2
<1>2. \A x : x \notin P!Strange => P!Again(x) = x
  BY Zenon DEF P!Again, P!Strange
<1>3. P!Asked(p) = [i \in 1 .. Len(p) |-> P!Again(p[i])] /\ Len(p) \in Nat /\ Len(p) >= 1
  BY DEF P!Asked
<1>4. \A i \in 1 .. Len(p) : P!Again(p[i]) \in P!Segments
  BY <1>1
<1>5. P!Asked(p) \in Seq(P!Segments) /\ Len(P!Asked(p)) = Len(p)
  BY <1>3, <1>4
<1>6. ASSUME P!Range(p) \cap P!Strange = {} PROVE P!Asked(p) = p
  <2>1. \A i \in 1 .. Len(p) : P!Again(p[i]) = p[i]
    BY <1>2, <1>6 DEF P!Range
  <2>2. \A i \in 1 .. Len(p) : P!Asked(p)[i] = p[i]
    BY <1>3, <2>1
  <2> QED
    BY <1>5, <2>2, SeqEqual
<1> QED
  BY <1>3, <1>5, <1>6

LEMMA PathsAreSequences ==
  ASSUME NEW p \in P!Paths
  PROVE  p \in Seq(P!Segments) /\ p # <<>>
<1>1. PICK n \in 1 .. MaxSegments : p \in [1 .. n -> P!Segments]
  BY DEF P!Paths
<1>2. n \in Nat /\ n >= 1
  BY <1>1
<1> QED
  BY <1>1, <1>2

-----------------------------------------------------------------------------
(***************************************************************************)
(* Pages: answers                                                          *)
(***************************************************************************)

LEMMA FiveFacts ==
  ASSUME NEW a, NEW b, NEW c, NEW d, NEW e
  PROVE  DOMAIN <<a, b, c, d, e>> = 1 .. 5
OBVIOUS

\* The answers to a request, by the stages that would stop it.
LEMMA AnswerFacts ==
  ASSUME NEW r
  PROVE  /\ P!Answer(r) = "handled" <=> /\ ~P!Preflight(r) /\ ~P!Redirects(r.path)
                                        /\ ~P!Climbs(r)
                                        /\ ~P!FetchRefuses(r) /\ ~P!TokenRefuses(r)
         /\ P!Answer(r) = "redirect" => P!Redirects(r.path)
<1> DEFINE stops == {i \in DOMAIN P!Stages : P!Stops(P!Stages[i], r)}
<1>1. DOMAIN P!Stages = 1 .. 5 /\ stops \subseteq 1 .. 5
  <2>2. DOMAIN P!Stages = 1 .. 5
    BY FiveFacts, Zenon DEF P!Stages
  <2> QED
    BY <2>2
<1>2. /\ P!Stages[1] = "preflight" /\ P!Stages[2] = "redirect" /\ P!Stages[3] = "bad path"
      /\ P!Stages[4] = "cross site" /\ P!Stages[5] = "csrf"
  BY DEF P!Stages
<1>3. /\ P!Stops(P!Stages[1], r) <=> P!Preflight(r)
      /\ P!Stops(P!Stages[2], r) <=> P!Redirects(r.path)
      /\ P!Stops(P!Stages[3], r) <=> P!Climbs(r)
      /\ P!Stops(P!Stages[4], r) <=> P!FetchRefuses(r)
      /\ P!Stops(P!Stages[5], r) <=> P!TokenRefuses(r)
  BY <1>2 DEF P!Stops
<1>4. P!Answer(r) = IF stops = {} THEN "handled" ELSE P!Stages[P!Min(stops)]
  BY DEF P!Answer
<1>5. stops = {} <=> /\ ~P!Stops(P!Stages[1], r) /\ ~P!Stops(P!Stages[2], r)
                     /\ ~P!Stops(P!Stages[3], r) /\ ~P!Stops(P!Stages[4], r)
                     /\ ~P!Stops(P!Stages[5], r)
  BY <1>1
<1>6. stops # {} => P!Min(stops) \in stops
  <2> SUFFICES ASSUME stops # {} PROVE P!Min(stops) \in stops
    OBVIOUS
  <2>1. stops \subseteq Nat
    BY <1>1
  <2> HIDE DEF stops
  <2>2. \E x \in stops : \A y \in stops : x <= y
    BY <2>1, SmallestNat
  <2> QED
    BY <2>2 DEF P!Min
<1>7. \A i \in stops : i \in 1 .. 5 /\ P!Stops(P!Stages[i], r)
  BY <1>1
<1>t. \A i \in 1 .. 5 : P!Stages[i] # "handled" /\ (P!Stages[i] = "redirect" => i = 2)
  <2>1. \A i \in 1 .. 5 : i = 1 \/ i = 2 \/ i = 3 \/ i = 4 \/ i = 5
    OBVIOUS
  <2> QED
    BY <1>2, <2>1, Zenon
<1> HIDE DEF stops
<1>8. stops # {} => /\ P!Answer(r) # "handled"
                    /\ P!Answer(r) = "redirect" => P!Stops(P!Stages[2], r)
  BY <1>4, <1>6, <1>7, <1>t
<1>9. stops = {} => P!Answer(r) = "handled"
  BY <1>4
<1> QED
  BY <1>3, <1>5, <1>8, <1>9

LEMMA RequestFacts ==
  ASSUME NEW r \in P!Requests
  PROVE  r.path \in Seq(P!Segments) /\ r.path # <<>> /\ r.cookie = 0
<1>1. r.path \in P!Paths /\ r.cookie = 0
  BY DEF P!Requests, P!From
<1> QED
  BY <1>1, PathsAreSequences

\* What a path is answered with.
LEMMA PathDecided ==
  ASSUME NEW r \in P!Requests
  PROVE  LET p    == r.path
             goal == P!Location(P!Normalized(p))
             next == P!Asked(goal)
         IN  /\ P!Answer(r) = "handled" =>
                  ".." \notin P!Range(p) /\ ~P!Redirects(P!Seen(p))
             /\ P!Answer(r) = "redirect" =>
                  /\ P!Leaves(goal) => "\\" \in P!Range(p)
                  /\ Len(P!Squeezed(next)) < Len(P!Squeezed(p))
                  /\ P!Range(p) \cap P!Strange = {} => ~P!Redirects(next)
<1> DEFINE p == r.path
           n == P!Normalized(p)
           goal == P!Location(n)
           next == P!Asked(goal)
<1>1. /\ p \in Seq(P!Segments) /\ p # <<>> /\ n \in Seq(P!Segments)
      /\ P!Redirects(p) => n \in Seq(Bare) /\ n # <<>> /\ Len(P!Squeezed(p)) = Len(n) + 1
  BY RequestFacts, NormalizedFacts
<1>2. /\ P!Answer(r) = "handled" => ~P!Climbs(r)
      /\ P!Answer(r) = "redirect" => P!Redirects(p)
  BY AnswerFacts
<1>3. ~P!Climbs(r) => ".." \notin P!Range(n)
  BY DEF P!Climbs
<1> HIDE DEF p, n
<1>4. \A x \in Bare : x \in P!Range(n) <=> x \in P!Range(p)
  BY <1>1, NormalizedKeeps DEF n
<1>5. ".." \in Bare /\ "\\" \in Bare /\ P!Strange \subseteq Bare
  BY Zenon DEF Bare, P!Segments, P!Strange
<1>6. P!Seen(p) = P!Clean(n) /\ ~P!Redirects(P!Clean(n))
  BY <1>1, CleanFacts DEF P!Seen, n
<1>7. ASSUME P!Redirects(p)
      PROVE  /\ P!Leaves(goal) => "\\" \in P!Range(p)
             /\ Len(P!Squeezed(next)) < Len(P!Squeezed(p))
             /\ P!Range(p) \cap P!Strange = {} => ~P!Redirects(next)
  <2>1. /\ n \in Seq(Bare) /\ n # <<>> /\ Len(P!Squeezed(p)) = Len(n) + 1 /\ Len(n) \in Nat
    BY <1>1, <1>7
  <2>2. /\ goal \in Seq(P!Segments) /\ goal # <<>> /\ Len(goal) <= Len(n)
        /\ ~P!NamesHost(goal) /\ P!Range(goal) \subseteq P!Range(n) \cup {Gap}
        /\ P!Range(n) \cap P!Strange = {} =>
             ~P!Redirects(goal) /\ P!Range(goal) \cap P!Strange = {}
    BY <2>1, LocationFacts
  <2> HIDE DEF goal
  <2>3. /\ next \in Seq(P!Segments) /\ next # <<>> /\ Len(next) = Len(goal)
        /\ P!Range(goal) \cap P!Strange = {} => next = goal
    BY <2>2, AskedFacts
  <2> HIDE DEF next
  <2>4. ASSUME P!Leaves(goal) PROVE "\\" \in P!Range(p)
    <3> DEFINE back == "\\"
    <3>1. goal[1] = back /\ back # Gap /\ back \in Bare
      BY <1>5, <2>2, <2>4, BareFacts DEF P!Leaves
    <3> HIDE DEF back
    <3>2. back \in P!Range(goal)
      BY <2>2, <3>1 DEF P!Range
    <3>3. back \in P!Range(n)
      BY <2>2, <3>1, <3>2
    <3> QED
      BY <1>4, <3>1, <3>3 DEF back
  <2>5. Len(P!Squeezed(next)) < Len(P!Squeezed(p))
    <3> DEFINE a == Among(P!Front(next), Bare)
    <3>1. /\ a \in Seq(P!Segments) /\ Len(a) < Len(next)
          /\ P!Squeezed(next) = a \o <<P!Last(next)>>
      BY <2>3, SqueezedFacts
    <3>2. P!Last(next) \in P!Segments
      BY <2>3, FrontFacts
    <3> HIDE DEF a
    <3>3. Len(P!Squeezed(next)) = Len(a) + 1 /\ Len(a) \in Nat
      BY <3>1, <3>2
    <3>4. Len(next) \in Nat
      BY <2>3
    <3> QED
      BY <2>1, <2>2, <2>3, <3>1, <3>3, <3>4
  <2>6. ASSUME P!Range(p) \cap P!Strange = {} PROVE ~P!Redirects(next)
    <3>1. P!Range(n) \cap P!Strange = {}
      BY <1>4, <1>5, <2>6
    <3> QED
      BY <2>2, <2>3, <3>1
  <2> QED
    BY <2>4, <2>5, <2>6
<1>8. P!Answer(r) = "handled" => ".." \notin P!Range(p) /\ ~P!Redirects(P!Seen(p))
  BY <1>2, <1>3, <1>4, <1>5, <1>6
<1>9. P!Answer(r) = "redirect" =>
        /\ P!Leaves(goal) => "\\" \in P!Range(p)
        /\ Len(P!Squeezed(next)) < Len(P!Squeezed(p))
        /\ P!Range(p) \cap P!Strange = {} => ~P!Redirects(next)
  BY <1>2, <1>7, Zenon
<1> QED
  BY <1>8, <1>9, Zenon DEF p, n, goal, next

\* A page of another site gets no change made without a token of its owner.
LEMMA ForeignStopped ==
  ASSUME NEW r \in P!Requests, P!Answer(r) = "handled", P!Changes(r)
  PROVE  P!Exempt(r)
BY AnswerFacts, RequestFacts DEF P!TokenRefuses

\* The form of a page passes all but the comparison of its token.
LEMMA FormFacts ==
  ASSUME NEW t \in Tabs
  PROVE  P!Answer(P!Form(t)) = "handled" <=> jar # 0 /\ tabs[t].token = jar
<1> DEFINE r == P!Form(t)
           p == <<"page">>
           n == P!Normalized(p)
<1>1. /\ r.method = "POST" /\ r.path = p /\ r.from = "own" /\ r.cookie = jar
      /\ r.submitted = tabs[t].token
  BY DEF P!Form
<1>e. r.escaped = "no" /\ r.bearer = FALSE /\ r.method # "OPTIONS"
  BY DEF P!Form
<1>2. p \in Seq(P!Segments) /\ p # <<>> /\ Len(p) = 1 /\ p[1] = "page"
  BY DEF P!Segments
<1>3. P!Last(p) = "page" /\ "page" # Gap
  BY <1>2 DEF P!Last, Gap
<1> HIDE DEF r, p
<1>4. ~P!Redirects(p)
  BY <1>2, <1>3, Straight
<1>5. n = p
  <2> DEFINE a == Among(P!Front(p), Bare)
  <2>1. a \in Seq(Bare) /\ Len(a) < Len(p) /\ P!Squeezed(p) = a \o <<P!Last(p)>>
    BY <1>2, SqueezedFacts
  <2> HIDE DEF a
  <2>2. Len(a) = 0
    BY <1>2, <2>1
  <2>3. a = <<>>
    BY <2>1, <2>2, EmptySeq
  <2>4. p = <<P!Last(p)>>
    BY <1>3 DEF p
  <2>5. P!Squeezed(p) = p
    BY <2>1, <2>3, <2>4
  <2>6. ~P!Trailing(p)
    BY <1>3, TrailingFacts
  <2> QED
    BY <2>5, <2>6, TrailingFacts
<1> HIDE DEF n
<1>6. ~P!Climbs(r)
  <2>1. P!Range(p) = {"page"}
    BY <1>2 DEF P!Range
  <2> QED
    BY <1>1, <1>5, <1>e, <2>1 DEF P!Climbs, n
<1>7. ~P!IsAPI(P!Seen(p))
  <2>1. P!Clean(p) \in Seq(P!Segments) /\ (Len(P!Clean(p)) <= Len(p) \/ Len(P!Clean(p)) = 1)
    BY <1>2, CleanFacts
  <2>c. Len(p) = 1
    BY <1>2
  <2>3. Len(P!Clean(p)) <= 1
    <3> DEFINE k == Len(P!Clean(p))
               m == Len(p)
    <3>1. k \in Nat /\ (k <= m \/ k = 1) /\ m = 1
      BY <2>1, <2>c
    <3> HIDE DEF k, m
    <3>2. k <= 1
      BY <3>1
    <3> QED
      BY <3>2 DEF k
  <2>2. P!Seen(p) = P!Clean(p)
    BY <1>5 DEF P!Seen, n
  <2>4. Len(P!Clean(p)) \in Nat
    BY <2>1
  <2> QED
    BY <2>2, <2>3, <2>4 DEF P!IsAPI
<1>8. ~P!Preflight(r) /\ ~P!FetchRefuses(r)
  BY <1>1, <1>7 DEF P!Preflight, P!FetchRefuses, P!Foreign
<1>9. P!TokenRefuses(r) <=> jar = 0 \/ tabs[t].token # jar
  BY <1>1, <1>7, <1>e DEF P!TokenRefuses, P!Changes, P!Exempt
<1> QED
  BY <1>1, <1>4, <1>6, <1>8, <1>9, AnswerFacts DEF r

-----------------------------------------------------------------------------
(***************************************************************************)
(* Pages: cookies and forms                                                *)
(***************************************************************************)
Stages3 == {"blank", "asked", "sent", "open"}
TabRecord == [pc : Stages3, sent : Nat, gives : Nat, token : Nat,
              asked : {"no", "bare", "settled", "crossing"}]

PagesTyped == jar \in Nat /\ issued \in Nat /\ tabs \in [Tabs -> TabRecord]

\* A cookie is given with the page that was asked for without one.
GivenToNone == \A t \in Tabs : tabs[t].pc = "sent" /\ tabs[t].gives # 0 => tabs[t].sent = 0

\* Once a page has settled, nothing that is under way brings another cookie.
NoOther ==
  (\E t \in Tabs : tabs[t].asked = "settled") =>
    jar # 0 /\ \A u \in Tabs : tabs[u].pc \in {"asked", "sent"} => tabs[u].sent # 0

\* What a page that settled was asked for with is the cookie there is.
SettledWithJar ==
  \A t \in Tabs : tabs[t].asked = "settled" =>
    /\ tabs[t].pc \in {"asked", "sent"} => tabs[t].sent = jar
    /\ tabs[t].pc \in {"sent", "open"} => tabs[t].token = jar

\* A page that was asked for without a cookie gets no token.
BareWithNone ==
  \A t \in Tabs : tabs[t].asked = "bare" =>
    /\ tabs[t].pc \in {"asked", "sent"} => tabs[t].sent = 0
    /\ tabs[t].pc \in {"sent", "open"} => tabs[t].token = 0

\* The last request of somebody else was answered as the chain answers it.
StrayTold ==
  stray # P!NoStray =>
    /\ stray.asked = TRUE /\ stray.request \in P!Requests
    /\ stray.got = P!Answer(stray.request)
    /\ via \in {"tor", "i2p"} => stray.sends = {}

PagesInv ==
  /\ PagesTyped /\ GivenToNone /\ NoOther /\ SettledWithJar /\ BareWithNone /\ StrayTold

LEMMA PagesInit == P!Init => PagesInv
<1> SUFFICES ASSUME P!Init PROVE PagesInv
  OBVIOUS
<1>1. P!Blank \in TabRecord /\ P!Blank.pc = "blank" /\ P!Blank.asked = "no"
  BY DEF P!Blank, TabRecord, Stages3
<1>2. PagesTyped
  BY <1>1 DEF P!Init, PagesTyped
<1>3. \A t \in Tabs : tabs[t].pc = "blank" /\ tabs[t].asked = "no"
  BY <1>1 DEF P!Init
<1> QED
  BY <1>2, <1>3 DEF P!Init, PagesInv, GivenToNone, NoOther, SettledWithJar, BareWithNone, StrayTold

LEMMA PagesStep == PagesInv /\ [P!Next]_pagesVars => PagesInv'
<1> SUFFICES ASSUME PagesInv, [P!Next]_pagesVars PROVE PagesInv'
  OBVIOUS
<1> USE DEF PagesInv
<1>b. P!Blank \in TabRecord /\ P!Blank.pc = "blank" /\ P!Blank.asked = "no"
  BY DEF P!Blank, TabRecord, Stages3
<1>1. CASE UNCHANGED pagesVars
  BY <1>1 DEF pagesVars, PagesTyped, GivenToNone, NoOther, SettledWithJar, BareWithNone, StrayTold
<1>2. CASE P!Publish
  BY <1>2 DEF P!Publish, PagesTyped, GivenToNone, NoOther, SettledWithJar, BareWithNone, StrayTold
<1>3. CASE P!Stray
  <2>1. PICK r \in P!Requests :
          stray' = [asked |-> TRUE, request |-> r, got |-> P!Answer(r), sends |-> P!Sends(r)]
    BY <1>3 DEF P!Stray
  <2>2. via \in {"tor", "i2p"} => P!Sends(r) = {}
    BY DEF P!Sends, P!IsOverlay
  <2>3. UNCHANGED <<via, jar, issued, tabs>>
    BY <1>3 DEF P!Stray
  <2> QED
    BY <2>1, <2>2, <2>3 DEF PagesTyped, GivenToNone, NoOther, SettledWithJar, BareWithNone, StrayTold
<1>4. ASSUME NEW t \in Tabs, P!Open(t) PROVE PagesInv'
  <2> DEFINE how == P!HowAsked
             new == [P!Blank EXCEPT !.pc = "asked", !.sent = jar, !.asked = how]
  <2>0. tabs' = [tabs EXCEPT ![t] = new] /\ UNCHANGED <<via, jar, issued, stray>>
    BY <1>4 DEF P!Open
  <2>2. how \in {"bare", "settled", "crossing"}
    BY DEF P!HowAsked
  <2>3. /\ how = "settled" => /\ jar # 0
                              /\ \A u \in Tabs : tabs[u].pc \in {"asked", "sent"} => tabs[u].sent # 0
        /\ how = "bare" => jar = 0
    BY DEF P!HowAsked
  <2> HIDE DEF how
  <2>1. /\ new \in TabRecord /\ new.pc = "asked" /\ new.sent = jar /\ new.asked = how
    BY <1>b, <2>2 DEF TabRecord, Stages3, PagesTyped
  <2> HIDE DEF new
  <2>4. PagesTyped'
    BY <2>0, <2>1 DEF PagesTyped
  <2>5. /\ tabs'[t] = new
        /\ \A u \in Tabs \ {t} : tabs'[u] = tabs[u]
    BY <2>0 DEF PagesTyped
  <2>7. \A u \in Tabs : u = t \/ tabs'[u] = tabs[u]
    BY <2>5
  <2>8. GivenToNone'
    BY <2>1, <2>5, <2>7 DEF GivenToNone
  <2>9. NoOther'
    BY <2>0, <2>1, <2>3, <2>5, <2>7 DEF NoOther
  <2>10. SettledWithJar'
    BY <2>0, <2>1, <2>3, <2>5, <2>7 DEF SettledWithJar
  <2>b. BareWithNone'
    BY <2>1, <2>3, <2>5, <2>7 DEF BareWithNone
  <2>11. StrayTold'
    BY <2>0 DEF StrayTold
  <2> QED
    BY <2>4, <2>8, <2>9, <2>10, <2>11, <2>b
<1>5. ASSUME NEW t \in Tabs, P!Render(t) PROVE PagesInv'
  <2> DEFINE give == IF P!Gives(t) THEN issued' ELSE 0
             new == [tabs[t] EXCEPT !.pc = "sent", !.token = tabs[t].sent, !.gives = give]
  <2>0. issued' \in Nat
    BY <1>5 DEF P!Render, PagesTyped
  <2>1. /\ tabs[t].pc = "asked"
        /\ tabs' = [tabs EXCEPT ![t] = new] /\ UNCHANGED <<via, jar, stray>>
    BY <1>5 DEF P!Render
  <2>2. tabs[t] \in TabRecord
    BY DEF PagesTyped
  <2>3. give \in Nat /\ (give # 0 => tabs[t].sent = 0)
    BY <2>0 DEF P!Gives
  <2> HIDE DEF give
  <2>4. /\ new \in TabRecord /\ new.pc = "sent" /\ new.token = tabs[t].sent
        /\ new.gives = give /\ new.sent = tabs[t].sent /\ new.asked = tabs[t].asked
    BY <2>2, <2>3 DEF TabRecord, Stages3
  <2> HIDE DEF new
  <2>5. PagesTyped'
    BY <2>0, <2>1, <2>4 DEF PagesTyped
  <2>6. /\ tabs'[t] = new
        /\ \A u \in Tabs : u = t \/ tabs'[u] = tabs[u]
    BY <2>1 DEF PagesTyped
  <2>7. GivenToNone'
    BY <2>3, <2>4, <2>6 DEF GivenToNone
  <2>8. NoOther'
    BY <2>1, <2>4, <2>6 DEF NoOther
  <2>9. SettledWithJar'
    BY <2>1, <2>4, <2>6 DEF SettledWithJar
  <2>b. BareWithNone'
    BY <2>1, <2>4, <2>6 DEF BareWithNone
  <2>10. StrayTold'
    BY <2>1 DEF StrayTold
  <2> QED
    BY <2>5, <2>7, <2>8, <2>9, <2>10, <2>b
<1>6. ASSUME NEW t \in Tabs, P!Show(t) PROVE PagesInv'
  <2> DEFINE new == [tabs[t] EXCEPT !.pc = "open", !.sent = 0, !.gives = 0]
  <2>1. /\ tabs[t].pc = "sent" /\ tabs' = [tabs EXCEPT ![t] = new]
        /\ UNCHANGED <<via, issued, stray>>
        /\ jar' = jar \/ (tabs[t].gives # 0 /\ jar' = tabs[t].gives)
    BY <1>6 DEF P!Show
  <2>2. tabs[t] \in TabRecord
    BY DEF PagesTyped
  <2>3. /\ new \in TabRecord /\ new.pc = "open" /\ new.token = tabs[t].token
        /\ new.asked = tabs[t].asked
    BY <2>2 DEF TabRecord, Stages3
  <2>4. jar' \in Nat
    BY <2>1, <2>2 DEF TabRecord, PagesTyped
  <2> HIDE DEF new
  <2>5. PagesTyped'
    BY <2>1, <2>3, <2>4 DEF PagesTyped
  <2>6. /\ tabs'[t] = new
        /\ \A u \in Tabs : u = t \/ tabs'[u] = tabs[u]
    BY <2>1 DEF PagesTyped
  <2>7. (\E u \in Tabs : tabs[u].asked = "settled") => jar' = jar
    BY <2>1 DEF NoOther, GivenToNone
  <2>8. (\E u \in Tabs : tabs'[u].asked = "settled") =>
          \E u \in Tabs : tabs[u].asked = "settled"
    BY <2>3, <2>6
  <2>9. GivenToNone'
    BY <2>3, <2>6 DEF GivenToNone
  <2>10. NoOther'
    BY <2>3, <2>6, <2>7, <2>8 DEF NoOther
  <2>11. SettledWithJar'
    BY <2>1, <2>3, <2>6, <2>7 DEF SettledWithJar
  <2>b. BareWithNone'
    BY <2>1, <2>3, <2>6 DEF BareWithNone
  <2>12. StrayTold'
    BY <2>1 DEF StrayTold
  <2> QED
    BY <2>5, <2>9, <2>10, <2>11, <2>12, <2>b
<1>7. ASSUME NEW t \in Tabs, P!Submit(t) PROVE PagesInv'
  <2> DEFINE new == IF P!Answer(P!Form(t)) = "handled" THEN [tabs[t] EXCEPT !.token = jar]
                    ELSE P!Blank
  <2>1. /\ tabs[t].pc = "open" /\ tabs' = [tabs EXCEPT ![t] = new]
        /\ UNCHANGED <<via, jar, issued, stray>>
    BY <1>7 DEF P!Submit
  <2>2. tabs[t] \in TabRecord /\ jar \in Nat
    BY DEF PagesTyped
  <2>3. /\ new \in TabRecord /\ new.pc \in {"open", "blank"}
        /\ new.asked = "settled" => tabs[t].asked = "settled" /\ new.token = jar
        /\ new.asked # "bare"
    <3>1. CASE P!Answer(P!Form(t)) = "handled"
      <4>1. jar # 0 /\ tabs[t].token = jar
        BY <3>1, FormFacts
      <4>2. tabs[t].asked # "bare"
        BY <2>1, <4>1 DEF BareWithNone
      <4>3. new = [tabs[t] EXCEPT !.token = jar]
        BY <3>1
      <4> HIDE DEF new
      <4> QED
        BY <2>1, <2>2, <4>2, <4>3 DEF TabRecord, Stages3
    <3>2. CASE P!Answer(P!Form(t)) # "handled"
      BY <1>b, <3>2
    <3> QED
      BY <3>1, <3>2
  <2> HIDE DEF new
  <2>4. PagesTyped'
    BY <2>1, <2>3 DEF PagesTyped
  <2>5. /\ tabs'[t] = new
        /\ \A u \in Tabs : u = t \/ tabs'[u] = tabs[u]
    BY <2>1 DEF PagesTyped
  <2>6. GivenToNone'
    BY <2>3, <2>5 DEF GivenToNone
  <2>7. NoOther'
    BY <2>1, <2>3, <2>5 DEF NoOther
  <2>8. SettledWithJar'
    BY <2>1, <2>3, <2>5 DEF SettledWithJar
  <2>b. BareWithNone'
    BY <2>3, <2>5 DEF BareWithNone
  <2>9. StrayTold'
    BY <2>1 DEF StrayTold
  <2> QED
    BY <2>4, <2>6, <2>7, <2>8, <2>9, <2>b
<1> QED
  BY <1>1, <1>2, <1>3, <1>4, <1>5, <1>6, <1>7 DEF P!Next

LEMMA PagesDecide ==
  ASSUME PagesInv
  PROVE  P!FormsDecided /\ P!RedirectsSettle
<1> USE DEF PagesInv
<1>1. P!SettledFormsAccepted
  BY FormFacts DEF P!SettledFormsAccepted, NoOther, SettledWithJar
<1>5. P!BareFormsRefused
  <2> SUFFICES ASSUME NEW t \in Tabs, tabs[t].pc = "open", tabs[t].asked = "bare"
               PROVE  P!Answer(P!Form(t)) # "handled"
    BY DEF P!BareFormsRefused
  <2>1. tabs[t].token = 0
    BY DEF BareWithNone
  <2> QED
    BY <2>1, FormFacts
<1>2. stray.asked => stray # P!NoStray
  BY DEF P!NoStray
<1>3. P!ForeignFormsStopped
  BY <1>2, ForeignStopped DEF P!ForeignFormsStopped, P!Handled, StrayTold
<1>4. P!RedirectsSettle
  <2> SUFFICES ASSUME stray.asked PROVE P!RedirectsSettle
    BY DEF P!RedirectsSettle
  <2>1. /\ stray.request \in P!Requests /\ stray.got = P!Answer(stray.request)
        /\ via \in {"tor", "i2p"} => stray.sends = {}
    BY <1>2 DEF StrayTold
  <2> QED
    BY <2>1, PathDecided DEF P!RedirectsSettle
<1> QED
  BY <1>1, <1>3, <1>4, <1>5 DEF P!FormsDecided

PagesPart == part = "pages" => PagesInv

LEMMA PagesHeld == Spec => []PagesPart
<1>1. Init => PagesPart
  BY PagesInit DEF Init, PagesPart
<1>2. PagesPart /\ [Next]_vars => PagesPart'
  BY PartStep, PagesStep DEF PagesPart
<1> QED
  BY <1>1, <1>2, PTL DEF Spec

\* The chain accepts the form of every page that settled in the browser,
\* however many tabs there are, refuses that of every page that was asked for
\* without the cookie, and has no change made that another site's page asks for.
THEOREM FormsAreDecided == Spec => []FormsDecided
<1>1. PagesPart => FormsDecided
  BY PagesDecide DEF PagesPart, FormsDecided
<1> QED
  BY <1>1, PagesHeld, PTL

\* What is handled does not lead up, and each redirect leads to a shorter path,
\* the first to one that is not redirected if no segment means more than itself,
\* and none to another server but for a backslash; for paths of any length.
THEOREM RedirectsDoSettle == Spec => []RedirectsSettle
<1>1. PagesPart => RedirectsSettle
  BY PagesDecide DEF PagesPart, RedirectsSettle
<1> QED
  BY <1>1, PagesHeld, PTL

-----------------------------------------------------------------------------
(***************************************************************************)
(* Terminal: the screen                                                    *)
(***************************************************************************)
WireFields   == {"kind", "arg", "state", "answer"}
ScreenFields == {"view", "prev", "links", "shown", "cursor", "page", "pages", "detail",
                 "owner", "input", "query", "loading", "confirm"}

LEMMA TerminalSelect ==
  ASSUME NEW s, NEW A
  PROVE  T!Among(s, A) = Among(s, A)
BY DEF T!Among, Among

LEMMA PageFacts ==
  ASSUME NEW s \in Seq(Slugs), NEW p \in Nat \ {0}
  PROVE  T!PageOf(s, p) \in Seq(Slugs)
<1> DEFINE a == (p - 1) * PageSize + 1
           c == p * PageSize
           b == T!Min({c, Len(s)})
<1>1. a \in Nat /\ a >= 1 /\ c \in Nat
  <2>1. p - 1 \in Nat /\ PageSize \in Nat
    BY WebAssumption
  <2>2. (p - 1) * PageSize \in Nat
    BY <2>1
  <2>3. c \in Nat
    BY <2>1
  <2> QED
    BY <2>2, <2>3
<1> HIDE DEF a, c
<1>2. Len(s) \in Nat
  OBVIOUS
<1>3. b \in {c, Len(s)} /\ \A x \in {c, Len(s)} : b <= x
  <2>1. {c, Len(s)} \subseteq Nat /\ {c, Len(s)} # {}
    BY <1>1, <1>2
  <2>2. \E x \in {c, Len(s)} : \A y \in {c, Len(s)} : x <= y
    BY <2>1, SmallestNat
  <2> QED
    BY <2>2 DEF T!Min
<1> HIDE DEF b
<1>4. b \in Nat /\ b <= Len(s)
  BY <1>1, <1>2, <1>3
<1>5. \A i \in a .. b : s[i] \in Slugs
  BY <1>1, <1>2, <1>4
<1>6. SubSeq(s, a, b) \in Seq(Slugs)
  BY <1>1, <1>4, <1>5, SubSeqProperties
<1> QED
  BY <1>6 DEF T!PageOf, a, b, c

LEMMA FilteredFacts ==
  ASSUME NEW links \in Seq(Slugs), NEW query
  PROVE  T!Filtered(links, query) \in Seq(Slugs)
<1>1. Among(links, Hits) \in Seq(Slugs)
  BY AmongFacts
<1> QED
  BY <1>1, TerminalSelect DEF T!Filtered

\* The cursor is on a row, if there is one.
OnRow(cursor, shown) == cursor \in Nat /\ (cursor < Len(shown) \/ (cursor = 0 /\ shown = <<>>))

LEMMA LastRowFacts ==
  ASSUME NEW shown \in Seq(Slugs)
  PROVE  OnRow(T!LastRow(shown), shown) /\ OnRow(0, shown)
<1>1. Len(shown) \in Nat /\ (shown # <<>> => Len(shown) > 0)
  BY EmptySeq
<1> QED
  BY <1>1 DEF T!LastRow, OnRow

LEMMA ClampedFacts ==
  ASSUME NEW shown \in Seq(Slugs), NEW cursor \in Nat
  PROVE  OnRow(T!Clamped(cursor, shown), shown)
BY LastRowFacts DEF T!Clamped, OnRow

\* What is on the screen is what the search finds of the page that was loaded.
RowsRight(u) ==
  /\ DOMAIN u = ScreenFields
  /\ u.links \in Seq(Slugs) /\ u.page \in Nat \ {0}
  /\ u.shown = T!Filtered(u.links, u.query)
  /\ OnRow(u.cursor, u.shown)

\* The page on the screen is the server's.
Synced(u, s) == u.links = T!PageOf(s, u.page) /\ u.pages = T!Pages(s)

Kinds       == {"none", "list", "detail", "stats", "health", "create", "delete"}
KindsKnown  == \A i \in Wires : wires[i].kind \in Kinds
StatesKnown == \A i \in Wires : wires[i].state \in {"sent", "answered", "failed"}
FreeUnsent  == \A i \in Wires : wires[i].kind = "none" => wires[i].state = "sent"

TerminalTyped ==
  /\ stored \in Seq(Slugs)
  /\ DOMAIN wires = Wires /\ \A i \in Wires : DOMAIN wires[i] = WireFields
  /\ KindsKnown /\ StatesKnown /\ FreeUnsent
  /\ quiet \in BOOLEAN

\* Pages are asked for, and answered, by a number from 1.
ListsTyped ==
  \A i \in Wires : wires[i].kind = "list" =>
    /\ wires[i].arg \in Nat \ {0}
    /\ wires[i].state = "answered" =>
         wires[i].answer.links \in Seq(Slugs) /\ wires[i].answer.page \in Nat \ {0}

Touching == {"list", "create", "delete"}

\* As long as nothing crosses and nothing fails: no answer is lost,
NoneFailed == \A i \in Wires : wires[i].kind # "none" => wires[i].state # "failed"

\* while a change is under way neither another nor a list is,
ChangeAlone ==
  \A i, j \in Wires :
    wires[i].kind \in {"create", "delete"} /\ i # j => wires[j].kind \notin Touching

\* a list that was answered is the server's,
AnswersCurrent ==
  \A i \in Wires : wires[i].kind = "list" /\ wires[i].state = "answered" =>
    /\ wires[i].answer.links = T!PageOf(stored, wires[i].answer.page)
    /\ wires[i].answer.pages = T!Pages(stored)

\* and so is the one on the screen, once nothing is under way.
ScreenCurrent == (\A i \in Wires : wires[i].kind \notin Touching) => Synced(ui, stored)

Undisturbed ==
  quiet /\ ui.view # "gone" =>
    NoneFailed /\ ChangeAlone /\ AnswersCurrent /\ ScreenCurrent

TerminalInv ==
  /\ TerminalTyped /\ RowsRight(ui) /\ ListsTyped /\ Undisturbed

-----------------------------------------------------------------------------
LEMMA ListedOrder == T!SetToSeq(Listed) \in Seq(Slugs)
<1>1. IsFiniteSet(Listed) /\ Listed \subseteq Slugs
  BY WebAssumption
<1>2. Cardinality(Listed) \in Nat /\ ExistsBijection(1 .. Cardinality(Listed), Listed)
  BY <1>1, FS_CardinalityType
<1>3. T!Cardinality(Listed) = Cardinality(Listed)
  BY DEF T!Cardinality, Cardinality
<1>4. PICK f \in Bijection(1 .. Cardinality(Listed), Listed) : TRUE
  BY <1>2 DEF ExistsBijection
<1>5. f \in [1 .. Cardinality(Listed) -> Listed] /\ T!IsInjective(f)
  BY <1>4 DEF Bijection, Injection, IsInjective, T!IsInjective
<1>6. T!SetToSeq(Listed) \in [1 .. Cardinality(Listed) -> Listed]
  BY <1>3, <1>5 DEF T!SetToSeq
<1> QED
  BY <1>1, <1>2, <1>6

LEMMA FirstWire == T!Min(Wires) \in Wires
<1>1. Wires \subseteq Nat /\ Wires # {}
  BY WebAssumption
<1>2. \E x \in Wires : \A y \in Wires : x <= y
  BY <1>1, SmallestNat
<1> QED
  BY <1>2 DEF T!Min

LEMMA WireFacts ==
  ASSUME NEW kind, NEW arg
  PROVE  /\ DOMAIN T!Wire(kind, arg) = WireFields
         /\ T!Wire(kind, arg).kind = kind /\ T!Wire(kind, arg).arg = arg
         /\ T!Wire(kind, arg).state = "sent"
         /\ DOMAIN T!NoWire = WireFields /\ T!NoWire.kind = "none" /\ T!NoWire.state = "sent"
BY DEF T!Wire, T!NoWire, WireFields, T!None

LEMMA BlankScreen ==
  /\ RowsRight(T!Blank)
  /\ RowsRight([T!Blank EXCEPT !.view = "gone", !.loading = FALSE])
  /\ [T!Blank EXCEPT !.view = "gone", !.loading = FALSE].view = "gone"
<1>1. /\ DOMAIN T!Blank = ScreenFields /\ T!Blank.links = <<>> /\ T!Blank.shown = <<>>
      /\ T!Blank.cursor = 0 /\ T!Blank.page = 1 /\ T!Blank.query = FALSE
  BY DEF T!Blank, ScreenFields
<1> DEFINE b == T!Blank
<1> HIDE DEF b
<1>2. \A u : /\ DOMAIN u = ScreenFields /\ u.links = <<>> /\ u.shown = <<>>
             /\ u.cursor = 0 /\ u.page = 1 /\ u.query = FALSE
             => RowsRight(u)
  BY DEF RowsRight, OnRow, T!Filtered
<1>3. \A v : /\ DOMAIN v = ScreenFields
             => LET u == [v EXCEPT !.view = "gone", !.loading = FALSE] IN
                  /\ DOMAIN u = ScreenFields /\ u.links = v.links /\ u.shown = v.shown
                  /\ u.cursor = v.cursor /\ u.page = v.page /\ u.query = v.query
                  /\ u.view = "gone"
  BY DEF ScreenFields
<1> QED
  BY <1>1, <1>2, <1>3

LEMMA TerminalInit == T!Init => TerminalInv
<1> SUFFICES ASSUME T!Init PROVE TerminalInv
  OBVIOUS
<1> DEFINE m == T!Min(Wires)
<1>1. m \in Wires
  BY FirstWire
<1>2. /\ stored = T!SetToSeq(Listed) /\ ui = T!Blank /\ quiet = TRUE
      /\ wires = [i \in Wires |-> IF i = m THEN T!Wire("list", 1) ELSE T!NoWire]
  BY DEF T!Init
<1> HIDE DEF m
<1>3. \A i \in Wires : /\ DOMAIN wires[i] = WireFields /\ wires[i].state = "sent"
                       /\ wires[i].kind = IF i = m THEN "list" ELSE "none"
                       /\ i = m => wires[i].arg = 1
  BY <1>2, WireFacts
<1>4. TerminalTyped
  BY <1>2, <1>3, ListedOrder DEF TerminalTyped, KindsKnown, StatesKnown, FreeUnsent, Kinds
<1>5. ListsTyped
  BY <1>3 DEF ListsTyped
<1>6. Undisturbed
  BY <1>1, <1>3 DEF Undisturbed, NoneFailed, ChangeAlone, AnswersCurrent, ScreenCurrent, Touching
<1> QED
  BY <1>2, <1>4, <1>5, <1>6, BlankScreen DEF TerminalInv

\* What an answer, a request or a key leaves of the screen.
SameList(u, v) ==
  /\ DOMAIN v = ScreenFields
  /\ v.links = u.links /\ v.shown = u.shown /\ v.cursor = u.cursor /\ v.page = u.page
  /\ v.pages = u.pages /\ v.query = u.query

LEMMA SameListKeeps ==
  ASSUME NEW u, NEW v, RowsRight(u), SameList(u, v)
  PROVE  RowsRight(v) /\ \A s : Synced(u, s) => Synced(v, s)
BY DEF RowsRight, SameList, Synced

\* Keys that send nothing.
LEMMA QuietKeeps ==
  ASSUME TerminalInv, T!Quietly, ui.view # "gone" \/ ui'.view = "gone",
         RowsRight(ui'), ui'.links = ui.links, ui'.page = ui.page, ui'.pages = ui.pages
  PROVE  TerminalInv'
<1>1. UNCHANGED <<stored, wires, quiet>>
  BY DEF T!Quietly
<1>2. Synced(ui, stored) => Synced(ui', stored)
  BY DEF Synced
<1>3. Undisturbed'
  BY <1>1, <1>2 DEF TerminalInv, Undisturbed, NoneFailed, ChangeAlone, AnswersCurrent, ScreenCurrent
<1> QED
  BY <1>1, <1>3
     DEF TerminalInv, TerminalTyped, KindsKnown, StatesKnown, FreeUnsent, ListsTyped

\* Keys that send a request.
LEMMA SendKeeps ==
  ASSUME NEW kind \in Kinds \ {"none"}, NEW arg, TerminalInv, T!Sends(kind, arg),
         kind = "list" => arg \in Nat \ {0},
         ui.view # "gone" \/ ui'.view = "gone", SameList(ui, ui')
  PROVE  TerminalInv'
<1> DEFINE new == T!Wire(kind, arg)
<1>1. PICK i \in Wires : wires[i].kind = "none" /\ wires' = [wires EXCEPT ![i] = new]
  BY DEF T!Sends, T!Free, T!None
<1>2. UNCHANGED stored /\ quiet' = (quiet /\ ~T!Crosses(kind))
  BY DEF T!Sends
<1>3. /\ DOMAIN new = WireFields /\ new.kind = kind /\ new.arg = arg
      /\ new.state = "sent"
  BY WireFacts
<1> HIDE DEF new
<1>4. DOMAIN wires' = Wires /\ wires'[i] = new /\ \A j \in Wires : i = j \/ wires'[j] = wires[j]
  BY <1>1 DEF TerminalInv, TerminalTyped
<1>5. TerminalTyped'
  BY <1>2, <1>3, <1>4
     DEF TerminalInv, TerminalTyped, KindsKnown, StatesKnown, FreeUnsent
<1>6. RowsRight(ui') /\ (Synced(ui, stored) => Synced(ui', stored))
  BY SameListKeeps DEF TerminalInv
<1>7. ListsTyped'
  BY <1>3, <1>4 DEF TerminalInv, ListsTyped
<1>8. ~T!Crosses(kind) =>
        /\ kind = "list" => \A j \in Wires : wires[j].kind \notin {"create", "delete"}
        /\ kind \in {"create", "delete"} => \A j \in Wires : wires[j].kind \notin Touching
  BY DEF T!Crosses, T!Under, T!Changing, Touching
<1>9. Undisturbed'
  <2> SUFFICES ASSUME quiet', ui'.view # "gone"
               PROVE  (NoneFailed /\ ChangeAlone /\ AnswersCurrent /\ ScreenCurrent)'
    BY DEF Undisturbed
  <2>1. NoneFailed /\ ChangeAlone /\ AnswersCurrent /\ ScreenCurrent /\ ~T!Crosses(kind)
    BY <1>2 DEF TerminalInv, Undisturbed
  <2>2. NoneFailed'
    BY <1>3, <1>4, <2>1 DEF NoneFailed
  <2>3. ChangeAlone'
    <3> SUFFICES ASSUME NEW k \in Wires, NEW j \in Wires, wires'[k].kind \in {"create", "delete"},
                        k # j
                 PROVE  wires'[j].kind \notin Touching
      BY DEF ChangeAlone
    <3>1. CASE k = i
      BY <1>3, <1>4, <1>8, <2>1, <3>1
    <3>2. CASE j = i
      BY <1>3, <1>4, <1>8, <2>1, <3>2 DEF Touching
    <3>3. CASE k # i /\ j # i
      BY <1>4, <2>1, <3>3 DEF ChangeAlone
    <3> QED
      BY <3>1, <3>2, <3>3
  <2>4. AnswersCurrent'
    BY <1>2, <1>3, <1>4, <2>1 DEF AnswersCurrent
  <2>5. ScreenCurrent'
    <3>1. "none" \notin Touching
      BY DEF Touching
    <3> QED
      BY <1>1, <1>2, <1>4, <1>6, <2>1, <3>1 DEF ScreenCurrent
  <2> QED
    BY <2>2, <2>3, <2>4, <2>5
<1> QED
  BY <1>5, <1>6, <1>7, <1>9 DEF TerminalInv

\* What the server answers.
LEMMA ServeKeeps ==
  ASSUME NEW i \in Wires, TerminalInv, T!Serve(i)
  PROVE  TerminalInv'
<1> DEFINE r == wires[i]
<1>1. /\ r.kind # "none" /\ r.state = "sent" /\ UNCHANGED <<ui, quiet>>
      /\ DOMAIN wires = Wires
      /\ \A j \in Wires : DOMAIN wires[j] = WireFields
      /\ stored \in Seq(Slugs)
  BY DEF T!Serve, T!None, TerminalInv, TerminalTyped
<1>2. PICK a : /\ wires' = [wires EXCEPT ![i].state = "answered", ![i].answer = a]
               /\ \/ /\ r.kind = "list" /\ UNCHANGED stored
                     /\ a = [links |-> T!PageOf(stored, r.arg), page |-> r.arg,
                             pages |-> T!Pages(stored)]
                  \/ r.kind \notin Touching /\ UNCHANGED stored
                  \/ r.kind = "create" /\ \E s \in Slugs : stored' = <<s>> \o stored
                  \/ r.kind = "delete" /\ stored' = T!Among(stored, Slugs \ {r.arg})
  <2>1. CASE /\ r.kind = "list" /\ UNCHANGED stored
             /\ wires' = [wires EXCEPT ![i].state = "answered",
                   ![i].answer = [links |-> T!PageOf(stored, r.arg), page |-> r.arg,
                                  pages |-> T!Pages(stored)]]
    BY <2>1, Zenon
  <2>2. CASE /\ r.kind \in {"detail", "stats"} /\ UNCHANGED stored
             /\ wires' = [wires EXCEPT ![i].state = "answered", ![i].answer = r.arg]
    <3>1. r.kind \notin Touching
      BY <2>2 DEF Touching
    <3> QED
      BY <2>2, <3>1, Zenon
  <2>3. CASE /\ r.kind = "health" /\ UNCHANGED stored
             /\ wires' = [wires EXCEPT ![i].state = "answered", ![i].answer = "ok"]
    <3>1. r.kind \notin Touching
      BY <2>3 DEF Touching
    <3> QED
      BY <2>3, <3>1, Zenon
  <2>4. CASE /\ r.kind = "create"
             /\ \E s \in Slugs \ T!Range(stored) :
                  /\ wires' = [wires EXCEPT ![i].state = "answered", ![i].answer = s]
                  /\ stored' = <<s>> \o stored
    <3>1. PICK s \in Slugs :
                  /\ wires' = [wires EXCEPT ![i].state = "answered", ![i].answer = s]
                  /\ stored' = <<s>> \o stored
      BY <2>4, Zenon
    <3> QED
      BY <2>4, <3>1, Zenon
  <2>5. CASE /\ r.kind = "delete" /\ stored' = T!Among(stored, Slugs \ {r.arg})
             /\ wires' = [wires EXCEPT ![i].state = "answered", ![i].answer = r.arg]
    BY <2>5, Zenon
  <2> QED
    BY <2>1, <2>2, <2>3, <2>4, <2>5, Zenon DEF T!Serve
<1>3. /\ DOMAIN wires' = Wires /\ DOMAIN wires'[i] = WireFields
      /\ wires'[i].kind = r.kind /\ wires'[i].arg = r.arg /\ wires'[i].state = "answered"
      /\ wires'[i].answer = a
      /\ \A j \in Wires : i = j \/ wires'[j] = wires[j]
  BY <1>1, <1>2 DEF WireFields
<1>4. stored' \in Seq(Slugs)
  <2>1. \A s \in Slugs : <<s>> \o stored \in Seq(Slugs)
    BY <1>1
  <2>2. T!Among(stored, Slugs \ {r.arg}) \in Seq(Slugs)
    BY <1>1, AmongFacts, TerminalSelect
  <2> QED
    BY <1>1, <1>2, <2>1, <2>2
<1>5. r.kind = "list" =>
        /\ UNCHANGED stored /\ a.links = T!PageOf(stored, r.arg) /\ a.page = r.arg
        /\ a.pages = T!Pages(stored)
  <2> SUFFICES ASSUME r.kind = "list"
               PROVE /\ UNCHANGED stored /\ a.links = T!PageOf(stored, r.arg) /\ a.page = r.arg
                     /\ a.pages = T!Pages(stored)
    OBVIOUS
  <2>1. /\ UNCHANGED stored
        /\ a = [links |-> T!PageOf(stored, r.arg), page |-> r.arg, pages |-> T!Pages(stored)]
    <3>1. "list" # "create" /\ "list" # "delete" /\ "list" \in Touching
      BY DEF Touching
    <3> QED
      BY <1>2, <3>1, Zenon
  <2> QED
    BY <2>1
<1>6. r.kind \notin {"create", "delete"} => UNCHANGED stored
  BY <1>2
<1> HIDE DEF r
<1>7. TerminalTyped'
  BY <1>1, <1>3, <1>4
     DEF TerminalInv, TerminalTyped, KindsKnown, StatesKnown, FreeUnsent, r
<1>8. ListsTyped'
  <2>1. r.kind = "list" => r.arg \in Nat \ {0}
    BY DEF TerminalInv, ListsTyped, r
  <2>2. r.kind = "list" => a.links \in Seq(Slugs) /\ a.page \in Nat \ {0}
    BY <1>1, <1>5, <2>1, PageFacts
  <2> QED
    BY <1>3, <2>1, <2>2 DEF TerminalInv, ListsTyped
<1>9. Undisturbed'
  <2> SUFFICES ASSUME quiet', ui'.view # "gone"
               PROVE  (NoneFailed /\ ChangeAlone /\ AnswersCurrent /\ ScreenCurrent)'
    BY DEF Undisturbed
  <2>1. NoneFailed /\ ChangeAlone /\ AnswersCurrent /\ ScreenCurrent
    BY <1>1 DEF TerminalInv, Undisturbed
  <2>k. \A j \in Wires : wires'[j].kind = wires[j].kind
    BY <1>3 DEF r
  <2>2. NoneFailed'
    BY <1>3, <2>1 DEF NoneFailed
  <2>3. ChangeAlone'
    BY <2>1, <2>k DEF ChangeAlone
  <2>4. AnswersCurrent'
    <3>1. CASE r.kind \in {"create", "delete"}
      <4>1. \A j \in Wires : wires'[j].kind # "list"
        BY <2>1, <2>k, <3>1 DEF ChangeAlone, Touching, r
      <4> QED
        BY <4>1 DEF AnswersCurrent
    <3>2. CASE r.kind \notin {"create", "delete"}
      BY <1>3, <1>5, <1>6, <2>1, <3>2 DEF AnswersCurrent
    <3> QED
      BY <3>1, <3>2
  <2>5. ScreenCurrent'
    <3>1. CASE r.kind \in {"create", "delete"}
      <4>1. wires'[i].kind \in Touching
        BY <1>3, <3>1 DEF Touching
      <4> QED
        BY <4>1 DEF ScreenCurrent
    <3>2. CASE r.kind \notin {"create", "delete"}
      BY <1>1, <1>6, <2>1, <2>k, <3>2 DEF ScreenCurrent
    <3> QED
      BY <3>1, <3>2
  <2> QED
    BY <2>2, <2>3, <2>4, <2>5
<1> QED
  BY <1>1, <1>7, <1>8, <1>9 DEF TerminalInv

LEMMA FailKeeps ==
  ASSUME NEW i \in Wires, TerminalInv, T!Fail(i)
  PROVE  TerminalInv'
<1>1. /\ wires' = [wires EXCEPT ![i].state = "failed"] /\ quiet' = FALSE
      /\ UNCHANGED <<stored, ui>>
  BY DEF T!Fail
<1>2. /\ DOMAIN wires' = Wires /\ \A j \in Wires : DOMAIN wires'[j] = WireFields
      /\ \A j \in Wires : wires'[j].kind = wires[j].kind /\ wires'[j].arg = wires[j].arg
      /\ wires'[i].state = "failed"
      /\ \A j \in Wires : i = j \/ wires'[j] = wires[j]
  BY <1>1 DEF TerminalInv, TerminalTyped, WireFields
<1>f. wires[i].kind # "none"
  BY DEF T!Fail, T!Free, T!None
<1>3. TerminalTyped'
  BY <1>1, <1>2, <1>f DEF TerminalInv, TerminalTyped, KindsKnown, StatesKnown, FreeUnsent
<1>4. ListsTyped'
  BY <1>2 DEF TerminalInv, ListsTyped
<1> QED
  BY <1>1, <1>3, <1>4 DEF TerminalInv, Undisturbed

LEMMA ElsewhereKeeps ==
  ASSUME TerminalInv, T!Elsewhere
  PROVE  TerminalInv'
<1>1. UNCHANGED <<ui, wires>> /\ quiet' = FALSE
  BY DEF T!Elsewhere
<1>2. stored' \in Seq(Slugs)
  <2>1. PICK s : stored' = T!Among(stored, Slugs \ {s})
    BY DEF T!Elsewhere
  <2> QED
    BY <2>1, AmongFacts, TerminalSelect DEF TerminalInv, TerminalTyped
<1> QED
  BY <1>1, <1>2 DEF TerminalInv, TerminalTyped, KindsKnown, StatesKnown, FreeUnsent, ListsTyped,
                    Undisturbed

\* The screen that the list of an answer leaves.
LEMMA AnsweredList ==
  ASSUME NEW a, RowsRight(ui), a.links \in Seq(Slugs), a.page \in Nat \ {0}
  PROVE  LET u == T!Answered("list", a) IN
           /\ RowsRight(u) /\ u.links = a.links /\ u.page = a.page /\ u.pages = a.pages
           /\ u.view = ui.view
<1> DEFINE l == T!Loaded
           shown == T!Filtered(a.links, ui.query)
           u == [l EXCEPT !.links = a.links, !.page = a.page, !.pages = a.pages,
                          !.shown = shown, !.cursor = T!Clamped(ui.cursor, shown)]
<1>1. SameList(ui, l) /\ l.view = ui.view
  BY DEF T!Loaded, RowsRight, SameList, ScreenFields
<1>2. T!Answered("list", a) = u
  BY DEF T!Answered
<1>3. shown \in Seq(Slugs)
  BY FilteredFacts
<1> HIDE DEF l, shown
<1>4. /\ DOMAIN u = ScreenFields /\ u.links = a.links /\ u.page = a.page /\ u.pages = a.pages
      /\ u.shown = shown /\ u.cursor = T!Clamped(ui.cursor, shown) /\ u.query = l.query
      /\ u.view = l.view
  BY <1>1 DEF SameList, ScreenFields
<1> HIDE DEF u
<1>5. OnRow(T!Clamped(ui.cursor, shown), shown)
  BY <1>3, ClampedFacts DEF RowsRight, OnRow
<1>6. shown = T!Filtered(a.links, l.query)
  BY <1>1 DEF shown, SameList
<1> QED
  BY <1>1, <1>2, <1>4, <1>5, <1>6 DEF RowsRight

\* The other answers leave the list as it is.
LEMMA AnsweredElse ==
  ASSUME NEW kind \in {"detail", "stats", "health", "create", "delete"}, NEW a, RowsRight(ui)
  PROVE  SameList(ui, T!Answered(kind, a))
<1>1. SameList(ui, T!Loaded)
  BY DEF T!Loaded, RowsRight, SameList, ScreenFields
<1>2. \A v : SameList(ui, T!To(v))
  BY <1>1 DEF T!To, SameList, ScreenFields
<1>3. /\ SameList(ui, [T!To("detail") EXCEPT !.detail = a])
      /\ SameList(ui, [T!To("detail") EXCEPT !.owner = a, !.detail = a])
  BY <1>2 DEF SameList, ScreenFields
<1> QED
  BY <1>2, <1>3 DEF T!Answered

LEMMA DeliverKeeps ==
  ASSUME NEW i \in Wires, TerminalInv, T!Deliver(i)
  PROVE  TerminalInv'
<1> DEFINE r == wires[i]
           again == r.kind \in T!Changing /\ r.state # "failed"
           new == IF again THEN T!Reload ELSE T!NoWire
<1>1. /\ r.state # "sent" /\ ui.view # "gone" /\ UNCHANGED stored
      /\ ui' = IF r.state = "failed" THEN T!Failed ELSE T!Answered(r.kind, r.answer)
      /\ wires' = [wires EXCEPT ![i] = new]
      /\ quiet' = (quiet /\ (again => \A j \in Wires \ {i} : wires[j].kind \notin T!Changing))
  BY DEF T!Deliver
<1>2. /\ DOMAIN new = WireFields /\ new.state = "sent"
      /\ again => new.kind = "list" /\ new.arg = ui.page
      /\ ~again => new.kind = "none"
  BY WireFacts DEF T!Reload
<1> HIDE DEF again, new
<1>3. /\ DOMAIN wires' = Wires /\ wires'[i] = new
      /\ \A j \in Wires : i = j \/ wires'[j] = wires[j]
  BY <1>1 DEF TerminalInv, TerminalTyped
<1>4. TerminalTyped'
  BY <1>1, <1>2, <1>3
     DEF TerminalInv, TerminalTyped, KindsKnown, StatesKnown, FreeUnsent, Kinds
<1>5. ListsTyped'
  BY <1>2, <1>3 DEF TerminalInv, ListsTyped, RowsRight
<1>6. r.kind = "list" /\ r.state # "failed" =>
        /\ RowsRight(ui') /\ ui'.view = ui.view
        /\ ui'.links = r.answer.links /\ ui'.page = r.answer.page /\ ui'.pages = r.answer.pages
  <2> SUFFICES ASSUME r.kind = "list", r.state # "failed"
               PROVE  /\ RowsRight(ui') /\ ui'.view = ui.view
                      /\ ui'.links = r.answer.links /\ ui'.page = r.answer.page
                      /\ ui'.pages = r.answer.pages
    OBVIOUS
  <2>1. r.state = "answered" => r.answer.links \in Seq(Slugs) /\ r.answer.page \in Nat \ {0}
    BY DEF TerminalInv, ListsTyped
  <2>2. r.state = "answered"
    BY <1>1 DEF StatesKnown, TerminalInv, TerminalTyped
  <2>3. ui' = T!Answered("list", r.answer)
    BY <1>1
  <2> QED
    BY <2>1, <2>2, <2>3, AnsweredList DEF TerminalInv
<1>7. r.kind # "list" \/ r.state = "failed" => SameList(ui, ui')
  <2>1. SameList(ui, T!Failed)
    BY DEF T!Failed, T!Loaded, TerminalInv, RowsRight, SameList, ScreenFields
  <2>2. r.kind \in Kinds \ {"none"}
    BY <1>1 DEF TerminalInv, TerminalTyped, KindsKnown, FreeUnsent
  <2>3. r.kind # "list" => SameList(ui, T!Answered(r.kind, r.answer))
    BY <2>2, AnsweredElse DEF Kinds, TerminalInv
  <2> QED
    BY <1>1, <2>1, <2>3
<1>8. RowsRight(ui')
  BY <1>6, <1>7, SameListKeeps DEF TerminalInv
<1>9. Undisturbed'
  <2> SUFFICES ASSUME quiet'
               PROVE  (NoneFailed /\ ChangeAlone /\ AnswersCurrent /\ ScreenCurrent)'
    BY DEF Undisturbed
  <2>1. NoneFailed /\ ChangeAlone /\ AnswersCurrent /\ ScreenCurrent
    BY <1>1 DEF TerminalInv, Undisturbed
  <2>2. r.state # "failed"
    BY <1>1, <2>1 DEF NoneFailed, TerminalInv, TerminalTyped, FreeUnsent
  <2>3. NoneFailed'
    BY <1>2, <1>3, <2>1 DEF NoneFailed
  <2>4. again <=> r.kind \in {"create", "delete"}
    BY <2>2 DEF again, T!Changing
  <2> HIDE DEF r
  <2>5. r.kind \in {"create", "delete"} =>
          \A j \in Wires : i = j \/ wires[j].kind \notin Touching
    BY <2>1 DEF ChangeAlone, r
  <2>6. ChangeAlone'
    <3> SUFFICES ASSUME NEW k \in Wires, NEW j \in Wires, wires'[k].kind \in {"create", "delete"},
                        k # j
                 PROVE  wires'[j].kind \notin Touching
      BY DEF ChangeAlone
    <3>1. k # i
      BY <1>2, <1>3
    <3>2. CASE j = i
      <4>1. r.kind \notin {"create", "delete"}
        BY <1>3, <2>5, <3>1 DEF Touching
      <4> QED
        BY <1>2, <1>3, <2>4, <3>2, <4>1 DEF Touching
    <3>3. CASE j # i
      BY <1>3, <2>1, <3>1, <3>3 DEF ChangeAlone
    <3> QED
      BY <3>2, <3>3
  <2>7. AnswersCurrent'
    BY <1>1, <1>2, <1>3, <2>1 DEF AnswersCurrent
  <2>8. ScreenCurrent'
    <3> SUFFICES ASSUME \A j \in Wires : wires'[j].kind \notin Touching
                 PROVE  Synced(ui', stored)
      BY <1>1 DEF ScreenCurrent
    <3>1. ~again
      BY <1>2, <1>3 DEF Touching
    <3>2. CASE r.kind = "list"
      <4>1. r.state = "answered"
        BY <1>1, <2>2 DEF StatesKnown, TerminalInv, TerminalTyped, r
      <4>2. /\ r.answer.links = T!PageOf(stored, r.answer.page)
            /\ r.answer.pages = T!Pages(stored)
        BY <2>1, <3>2, <4>1 DEF AnswersCurrent, r
      <4> QED
        BY <1>6, <2>2, <3>2, <4>2 DEF Synced
    <3>3. CASE r.kind # "list"
      <4>1. \A j \in Wires : wires[j].kind \notin Touching
        BY <1>3, <2>4, <3>1, <3>3 DEF Touching, r
      <4> QED
        BY <1>7, <2>1, <3>3, <4>1, SameListKeeps DEF ScreenCurrent, TerminalInv
    <3> QED
      BY <3>2, <3>3
  <2> QED
    BY <2>3, <2>6, <2>7, <2>8
<1> QED
  BY <1>4, <1>5, <1>8, <1>9 DEF TerminalInv

LEMMA QuitKeeps ==
  ASSUME TerminalInv, T!Quit
  PROVE  TerminalInv'
<1>1. /\ ui' = [T!Blank EXCEPT !.view = "gone", !.loading = FALSE]
      /\ wires' = [i \in Wires |-> T!NoWire] /\ UNCHANGED <<stored, quiet>>
  BY DEF T!Quit
<1>2. RowsRight(ui') /\ ui'.view = "gone"
  BY <1>1, BlankScreen
<1>3. /\ DOMAIN wires' = Wires
      /\ \A i \in Wires : /\ DOMAIN wires'[i] = WireFields /\ wires'[i].kind = "none"
                          /\ wires'[i].state = "sent"
  BY <1>1, WireFacts
<1> QED
  BY <1>1, <1>2, <1>3
     DEF TerminalInv, TerminalTyped, KindsKnown, StatesKnown, FreeUnsent, Kinds, ListsTyped,
         Undisturbed

\* The keys, by what they change of the screen.
LEMMA KeysKeep ==
  ASSUME TerminalInv
  PROVE  /\ T!LeaveInput => TerminalInv'
         /\ \A q \in BOOLEAN : T!EnterSearch(q) => TerminalInv'
         /\ T!No => TerminalInv'
         /\ T!Help => TerminalInv'
         /\ T!Back => TerminalInv'
         /\ T!Move => TerminalInv'
         /\ \A input \in {"search", "create"} : T!Ask(input) => TerminalInv'
         /\ T!AskDelete => TerminalInv'
<1>0. RowsRight(ui) /\ DOMAIN ui = ScreenFields
  BY DEF TerminalInv, RowsRight
<1>k. /\ T!Quietly /\ SameList(ui, ui') /\ (ui.view # "gone" \/ ui'.view = "gone")
      => TerminalInv'
  <2> SUFFICES ASSUME T!Quietly, SameList(ui, ui'), ui.view # "gone" \/ ui'.view = "gone"
               PROVE  TerminalInv'
    OBVIOUS
  <2>1. /\ RowsRight(ui') /\ ui'.links = ui.links /\ ui'.page = ui.page
        /\ ui'.pages = ui.pages
    BY <1>0, SameListKeeps DEF SameList
  <2> QED
    BY <2>1, QuietKeeps
<1>1. ASSUME T!LeaveInput PROVE TerminalInv'
  <2>1. T!Quietly /\ ui' = [ui EXCEPT !.input = "none"]
    BY <1>1 DEF T!LeaveInput, T!None
  <2>2. SameList(ui, ui') /\ ui'.view = ui.view
    BY <1>0, <2>1 DEF SameList, ScreenFields
  <2> QED
    BY <1>k, <2>1, <2>2
<1>2. ASSUME NEW q \in BOOLEAN, T!EnterSearch(q) PROVE TerminalInv'
  <2> DEFINE shown == T!Filtered(ui.links, q)
  <2>1. /\ T!Quietly
        /\ ui' = [ui EXCEPT !.input = "none", !.query = q, !.shown = shown, !.cursor = 0]
    BY <1>2 DEF T!EnterSearch, T!None
  <2>2. shown \in Seq(Slugs)
    BY <1>0, FilteredFacts DEF RowsRight
  <2>3. OnRow(0, shown)
    BY <2>2, LastRowFacts
  <2> HIDE DEF shown
  <2>4. /\ DOMAIN ui' = ScreenFields /\ ui'.links = ui.links /\ ui'.page = ui.page
        /\ ui'.pages = ui.pages /\ ui'.query = q /\ ui'.shown = shown /\ ui'.cursor = 0
        /\ ui'.view = ui.view
    BY <1>0, <2>1 DEF ScreenFields
  <2>5. RowsRight(ui')
    BY <1>0, <2>3, <2>4 DEF RowsRight, shown
  <2> QED
    BY <2>1, <2>4, <2>5, QuietKeeps
<1>3. ASSUME T!No PROVE TerminalInv'
  <2>1. T!Quietly /\ ui' = [ui EXCEPT !.confirm = "none"]
    BY <1>3 DEF T!No, T!None
  <2>2. SameList(ui, ui') /\ ui'.view = ui.view
    BY <1>0, <2>1 DEF SameList, ScreenFields
  <2> QED
    BY <1>k, <2>1, <2>2
<1>4. ASSUME T!Help PROVE TerminalInv'
  <2>1. /\ T!Quietly /\ ui.view # "gone"
        /\ \/ ui' = [ui EXCEPT !.view = ui.prev, !.prev = "list"]
           \/ ui' = [ui EXCEPT !.prev = ui.view, !.view = "help"]
    BY <1>4 DEF T!Help, T!Key
  <2>2. SameList(ui, ui')
    BY <1>0, <2>1 DEF SameList, ScreenFields
  <2> QED
    BY <1>k, <2>1, <2>2
<1>5. ASSUME T!Back PROVE TerminalInv'
  <2>1. /\ T!Quietly /\ ui.view # "gone"
        /\ ui' = [ui EXCEPT !.view = "list", !.prev = "list", !.owner = "none"]
    BY <1>5 DEF T!Back, T!Key, T!None
  <2>2. SameList(ui, ui')
    BY <1>0, <2>1 DEF SameList, ScreenFields
  <2> QED
    BY <1>k, <2>1, <2>2
<1>6. ASSUME T!Move PROVE TerminalInv'
  <2>1. PICK c \in {d \in {ui.cursor + 1, ui.cursor - 1} :
                      ui.view = "list" /\ d \in 0 .. Len(ui.shown) - 1}
                     \cup {0, T!LastRow(ui.shown)} :
          ui' = [ui EXCEPT !.cursor = c]
    BY <1>6 DEF T!Move
  <2>2. T!Quietly /\ ui.view # "gone"
    BY <1>6 DEF T!Move, T!Key
  <2>3. ui.shown \in Seq(Slugs)
    BY <1>0, FilteredFacts DEF RowsRight
  <2>4. Len(ui.shown) \in Nat
    BY <2>3
  <2>5. c \in 0 .. Len(ui.shown) - 1 \/ c = 0 \/ c = T!LastRow(ui.shown)
    BY <2>1
  <2>6. OnRow(c, ui.shown)
    <3>1. CASE c \in 0 .. Len(ui.shown) - 1
      BY <2>4, <3>1 DEF OnRow
    <3> QED
      BY <2>3, <2>5, <3>1, LastRowFacts
  <2>7. /\ DOMAIN ui' = ScreenFields /\ ui'.links = ui.links /\ ui'.page = ui.page
        /\ ui'.pages = ui.pages /\ ui'.query = ui.query /\ ui'.shown = ui.shown
        /\ ui'.cursor = c
    BY <1>0, <2>1 DEF ScreenFields
  <2>8. RowsRight(ui')
    BY <1>0, <2>6, <2>7 DEF RowsRight
  <2> QED
    BY <2>2, <2>7, <2>8, QuietKeeps
<1>7. ASSUME NEW input \in {"search", "create"}, T!Ask(input) PROVE TerminalInv'
  <2>1. T!Quietly /\ ui.view # "gone" /\ ui' = [ui EXCEPT !.input = input]
    BY <1>7 DEF T!Ask, T!Key
  <2>2. SameList(ui, ui')
    BY <1>0, <2>1 DEF SameList, ScreenFields
  <2> QED
    BY <1>k, <2>1, <2>2
<1>8. ASSUME T!AskDelete PROVE TerminalInv'
  <2>1. T!Quietly /\ ui.view # "gone" /\ ui' = [ui EXCEPT !.confirm = T!CurrentLink]
    BY <1>8 DEF T!AskDelete, T!Key
  <2>2. SameList(ui, ui')
    BY <1>0, <2>1 DEF SameList, ScreenFields
  <2> QED
    BY <1>k, <2>1, <2>2
<1> QED
  BY <1>1, <1>2, <1>3, <1>4, <1>5, <1>6, <1>7, <1>8

\* The keys that send a request.
LEMMA RequestsKeep ==
  ASSUME TerminalInv
  PROVE  /\ T!EnterURL => TerminalInv'
         /\ T!Yes => TerminalInv'
         /\ T!Turn => TerminalInv'
         /\ T!Refresh => TerminalInv'
         /\ T!Open => TerminalInv'
         /\ T!OpenStats => TerminalInv'
         /\ T!OpenHealth => TerminalInv'
<1>0. DOMAIN ui = ScreenFields /\ ui.page \in Nat \ {0}
  BY DEF TerminalInv, RowsRight
<1>k. Kinds \ {"none"} = {"list", "detail", "stats", "health", "create", "delete"}
  BY DEF Kinds
<1>1. ASSUME T!EnterURL PROVE TerminalInv'
  <2>1. T!Sends("create", T!None) /\ ui' = [ui EXCEPT !.input = T!None, !.loading = TRUE]
    BY <1>1 DEF T!EnterURL
  <2>2. SameList(ui, ui') /\ ui'.view = ui.view
    BY <1>0, <2>1 DEF SameList, ScreenFields
  <2> QED
    BY <1>k, <2>1, <2>2, SendKeeps
<1>2. ASSUME T!Yes PROVE TerminalInv'
  <2>1. T!Sends("delete", T!Confirmed) /\ ui' = [ui EXCEPT !.confirm = T!None, !.loading = TRUE]
    BY <1>2 DEF T!Yes
  <2>2. SameList(ui, ui') /\ ui'.view = ui.view
    BY <1>0, <2>1 DEF SameList, ScreenFields
  <2> QED
    BY <1>k, <2>1, <2>2, SendKeeps
<1>l. ui' = [ui EXCEPT !.loading = TRUE] => SameList(ui, ui')
  BY <1>0 DEF SameList, ScreenFields
<1>3. ASSUME T!Turn PROVE TerminalInv'
  <2>1. PICK p \in {ui.page + 1, ui.page - 1} : p >= 1 /\ T!Sends("list", p)
    BY <1>3 DEF T!Turn
  <2>2. ui' = [ui EXCEPT !.loading = TRUE] /\ ui.view # "gone"
    BY <1>3 DEF T!Turn, T!Key
  <2>3. p \in Nat \ {0}
    BY <1>0, <2>1
  <2> QED
    BY <1>k, <1>l, <2>1, <2>2, <2>3, SendKeeps
<1>4. ASSUME T!Refresh PROVE TerminalInv'
  <2>1. T!Sends("list", ui.page) /\ ui' = [ui EXCEPT !.loading = TRUE] /\ ui.view # "gone"
    BY <1>4 DEF T!Refresh, T!Key
  <2> QED
    BY <1>0, <1>k, <1>l, <2>1, SendKeeps
<1>5. ASSUME T!Open PROVE TerminalInv'
  <2>1. T!Sends("detail", T!Selected) /\ ui' = [ui EXCEPT !.loading = TRUE] /\ ui.view # "gone"
    BY <1>5 DEF T!Open, T!Key
  <2> QED
    BY <1>k, <1>l, <2>1, SendKeeps
<1>6. ASSUME T!OpenStats PROVE TerminalInv'
  <2>1. T!Sends("stats", T!CurrentLink) /\ ui' = [ui EXCEPT !.loading = TRUE] /\ ui.view # "gone"
    BY <1>6 DEF T!OpenStats, T!Key
  <2> QED
    BY <1>k, <1>l, <2>1, SendKeeps
<1>7. ASSUME T!OpenHealth PROVE TerminalInv'
  <2>1. T!Sends("health", T!None) /\ ui' = [ui EXCEPT !.loading = TRUE] /\ ui.view # "gone"
    BY <1>7 DEF T!OpenHealth, T!Key
  <2> QED
    BY <1>k, <1>l, <2>1, SendKeeps
<1> QED
  BY <1>1, <1>2, <1>3, <1>4, <1>5, <1>6, <1>7

LEMMA TerminalStep == TerminalInv /\ [T!Next]_terminalVars => TerminalInv'
<1> SUFFICES ASSUME TerminalInv, [T!Next]_terminalVars PROVE TerminalInv'
  OBVIOUS
<1>1. CASE UNCHANGED terminalVars
  BY <1>1
     DEF terminalVars, TerminalInv, TerminalTyped, KindsKnown, StatesKnown, FreeUnsent, ListsTyped,
         Undisturbed, NoneFailed, ChangeAlone, AnswersCurrent, ScreenCurrent
<1>2. CASE \E i \in Wires : T!Serve(i) \/ T!Fail(i) \/ T!Deliver(i)
  BY <1>2, ServeKeeps, FailKeeps, DeliverKeeps
<1> QED
  BY <1>1, <1>2, ElsewhereKeeps, QuitKeeps, KeysKeep, RequestsKeep DEF T!Next

-----------------------------------------------------------------------------
\* A request to delete is sent by the key that confirms it only.
LEMMA DeletesConfirmed ==
  ASSUME TerminalInv, [T!Next]_terminalVars
  PROVE  T!DeletesAsked
<1> SUFFICES ASSUME NEW i \in Wires, wires[i].kind = "none", wires'[i].kind = "delete"
             PROVE  ui.confirm = wires'[i].arg /\ ui.input = "none"
  BY DEF T!DeletesAsked, T!Free, T!None
<1>1. DOMAIN wires = Wires /\ \A j \in Wires : DOMAIN wires[j] = WireFields
  BY DEF TerminalInv, TerminalTyped
<1>u. wires' # wires
  OBVIOUS
<1>s. ASSUME NEW kind, NEW arg, T!Sends(kind, arg)
      PROVE  kind = "delete" /\ wires'[i].arg = arg
  <2>1. PICK j \in Wires : wires' = [wires EXCEPT ![j] = T!Wire(kind, arg)]
    BY <1>s DEF T!Sends
  <2>2. i = j
    BY <1>1, <2>1
  <2> QED
    BY <1>1, <2>1, <2>2, WireFacts
<1>2. ASSUME NEW j \in Wires, T!Serve(j) PROVE FALSE
  <2>1. PICK a : wires' = [wires EXCEPT ![j].state = "answered", ![j].answer = a]
    BY <1>2, Zenon DEF T!Serve
  <2>2. wires'[i].kind = wires[i].kind
    BY <1>1, <2>1 DEF WireFields
  <2> QED
    BY <2>2
<1>3. ASSUME NEW j \in Wires, T!Fail(j) PROVE FALSE
  <2>1. wires' = [wires EXCEPT ![j].state = "failed"]
    BY <1>3 DEF T!Fail
  <2>2. wires'[i].kind = wires[i].kind
    BY <1>1, <2>1 DEF WireFields
  <2> QED
    BY <2>2
<1>4. ASSUME NEW j \in Wires, T!Deliver(j) PROVE FALSE
  <2>1. wires' = [wires EXCEPT ![j] = T!Reload] \/ wires' = [wires EXCEPT ![j] = T!NoWire]
    BY <1>4 DEF T!Deliver
  <2>2. T!Reload.kind = "list" /\ T!NoWire.kind = "none"
    BY WireFacts DEF T!Reload
  <2> QED
    BY <1>1, <2>1, <2>2
<1>5. CASE T!Yes
  <2>1. T!Sends("delete", T!Confirmed) /\ ui.input = "none"
    BY <1>5 DEF T!Yes, T!None
  <2> QED
    BY <1>s, <2>1 DEF T!Confirmed
<1>6. CASE T!Quit
  <2>1. wires' = [j \in Wires |-> T!NoWire] /\ T!NoWire.kind = "none"
    BY <1>6, WireFacts DEF T!Quit
  <2> QED
    BY <2>1
<1>7. CASE T!EnterURL \/ T!Turn \/ T!Refresh \/ T!Open \/ T!OpenStats \/ T!OpenHealth
  <2>1. \/ T!Sends("create", T!None) \/ \E p : T!Sends("list", p)
        \/ T!Sends("detail", T!Selected) \/ T!Sends("stats", T!CurrentLink)
        \/ T!Sends("health", T!None)
    BY <1>7 DEF T!EnterURL, T!Turn, T!Refresh, T!Open, T!OpenStats, T!OpenHealth
  <2> QED
    BY <1>s, <2>1
<1>8. CASE \/ T!Elsewhere \/ T!LeaveInput \/ T!No \/ T!Help \/ T!Back \/ T!Move \/ T!AskDelete
           \/ \E q \in BOOLEAN : T!EnterSearch(q)
           \/ \E input \in {"search", "create"} : T!Ask(input)
           \/ UNCHANGED terminalVars
  BY <1>8, <1>u
     DEF T!Elsewhere, T!LeaveInput, T!No, T!Help, T!Back, T!Move, T!AskDelete, T!EnterSearch,
         T!Ask, T!Quietly, terminalVars
<1> QED
  BY <1>2, <1>3, <1>4, <1>5, <1>6, <1>7, <1>8 DEF T!Next

TerminalPart == part = "terminal" => TerminalInv

LEMMA TerminalHeld == Spec => []TerminalPart
<1>1. Init => TerminalPart
  BY TerminalInit DEF Init, TerminalPart
<1>2. TerminalPart /\ [Next]_vars => TerminalPart'
  BY PartStep, TerminalStep DEF TerminalPart
<1> QED
  BY <1>1, <1>2, PTL DEF Spec

\* Whatever answers come in whatever order, the rows are those that the search
\* finds of the page, the cursor is on one, and the page is the server's once
\* nothing that was not crossed is under way.
THEOREM ListIsCurrent == Spec => []ListCurrent
<1>1. TerminalInv => T!ListCurrent
  BY DEF TerminalInv, RowsRight, OnRow, Undisturbed, ScreenCurrent, Synced, Touching,
         T!ListCurrent, T!Under
<1>2. TerminalPart => ListCurrent
  BY <1>1 DEF TerminalPart, ListCurrent
<1> QED
  BY <1>2, TerminalHeld, PTL

\* Whatever answers come between the question and its confirmation, what is
\* deleted is what the question named.
THEOREM DeletionsAreConfirmed == Spec => DeletionsConfirmed
<1>1. TerminalPart /\ [Next]_vars => [part = "terminal" => T!DeletesAsked]_terminalVars
  BY PartStep, DeletesConfirmed DEF TerminalPart
<1> QED
  BY <1>1, TerminalHeld, PTL DEF Spec, DeletionsConfirmed

-----------------------------------------------------------------------------
(***************************************************************************)
(* Sums                                                                    *)
(***************************************************************************)

\* Induction up to a number.
LEMMA Upward ==
  ASSUME NEW n \in Nat, NEW Good, 0 \in Good, \A i \in 1 .. n : i - 1 \in Good => i \in Good
  PROVE  \A i \in 0 .. n : i \in Good
<1> DEFINE Bad == {i \in 0 .. n : i \notin Good}
<1> SUFFICES ASSUME Bad # {} PROVE FALSE
  OBVIOUS
<1>1. Bad \subseteq Nat
  OBVIOUS
<1>2. PICK m \in Bad : \A k \in Bad : m <= k
  BY <1>1, SmallestNat
<1>3. m \in 1 .. n /\ m - 1 \in 0 .. n /\ ~(m <= m - 1)
  BY <1>2
<1>4. m - 1 \in Good
  BY <1>2, <1>3
<1> QED
  BY <1>2, <1>3, <1>4

SumTo(h, f, n) == h = [i \in 0 .. n |-> IF i = 0 THEN 0 ELSE h[i - 1] + f[i - 1]]

LEMMA SumToExists ==
  ASSUME NEW f, NEW n \in Nat
  PROVE  \E h : SumTo(h, f, n)
<1> DEFINE Good == {k \in Nat : \E h : SumTo(h, f, k)}
<1>1. 0 \in Good
  <2>1. SumTo([i \in 0 .. 0 |-> 0], f, 0)
    BY DEF SumTo
  <2> QED
    BY <2>1
<1>2. ASSUME NEW m \in 1 .. n, m - 1 \in Good PROVE m \in Good
  <2>1. PICK g : SumTo(g, f, m - 1)
    BY <1>2
  <2> DEFINE h == [i \in 0 .. m |-> IF i < m THEN g[i] ELSE g[m - 1] + f[m - 1]]
  <2>2. ASSUME NEW i \in 0 .. m
        PROVE  h[i] = IF i = 0 THEN 0 ELSE h[i - 1] + f[i - 1]
    <3>1. CASE i = 0
      BY <2>1, <3>1 DEF SumTo
    <3>2. CASE i # 0 /\ i < m
      <4>1. i \in 0 .. m - 1 /\ i - 1 \in 0 .. m /\ i - 1 < m
        BY <3>2
      <4>2. h[i] = g[i] /\ h[i - 1] = g[i - 1]
        BY <3>2, <4>1
      <4> QED
        BY <2>1, <3>2, <4>1, <4>2 DEF SumTo
    <3>3. CASE i = m
      <4>1. m - 1 \in 0 .. m /\ m - 1 < m /\ ~(m < m) /\ m \in 0 .. m /\ m # 0
        OBVIOUS
      <4>2. h[m - 1] = g[m - 1]
        BY <4>1
      <4>3. h[m] = g[m - 1] + f[m - 1]
        BY <4>1
      <4> QED
        BY <3>3, <4>1, <4>2, <4>3
    <3> QED
      BY <3>1, <3>2, <3>3
  <2>3. SumTo(h, f, m)
    BY <2>2 DEF SumTo
  <2> QED
    BY <2>3
<1> HIDE DEF Good
<1>3. n \in Good
  BY <1>1, <1>2, Upward
<1> QED
  BY <1>3 DEF Good

\* The sums that Total takes its value from.
LEMMA TotalChain ==
  ASSUME NEW f, NEW n \in Nat
  PROVE  \E h : /\ h[0] = 0 /\ (\A i \in 1 .. n : h[i] = h[i - 1] + f[i - 1])
                /\ Total(f, n) = h[n]
<1> DEFINE h == CHOOSE g : SumTo(g, f, n)
<1>1. Total(f, n) = h[n]
  BY DEF Total, SumTo
<1>2. SumTo(h, f, n)
  BY SumToExists
<1> HIDE DEF h
<1>3. h[0] = 0
  BY <1>2 DEF SumTo
<1>4. \A i \in 1 .. n : h[i] = h[i - 1] + f[i - 1]
  <2> SUFFICES ASSUME NEW i \in 1 .. n PROVE h[i] = h[i - 1] + f[i - 1]
    OBVIOUS
  <2>1. i \in 0 .. n /\ i # 0
    OBVIOUS
  <2>2. h[i] = [k \in 0 .. n |-> IF k = 0 THEN 0 ELSE h[k - 1] + f[k - 1]][i]
    BY <1>2, Zenon DEF SumTo
  <2> QED
    BY <2>1, <2>2
<1> QED
  BY <1>1, <1>3, <1>4

\* Counters with the indices 0 .. n - 1.
Counters(n) == [0 .. n - 1 -> Nat]

LEMMA TotalNat ==
  ASSUME NEW n \in Nat, NEW f \in Counters(n)
  PROVE  Total(f, n) \in Nat
<1>1. PICK h : /\ h[0] = 0 /\ (\A i \in 1 .. n : h[i] = h[i - 1] + f[i - 1])
               /\ Total(f, n) = h[n]
  BY TotalChain
<1> DEFINE Good == {i \in 0 .. n : h[i] \in Nat}
<1>2. 0 \in Good
  BY <1>1
<1>3. ASSUME NEW i \in 1 .. n, i - 1 \in Good PROVE i \in Good
  <2>1. f[i - 1] \in Nat /\ h[i - 1] \in Nat
    BY <1>3 DEF Counters
  <2> QED
    BY <1>1, <2>1
<1> HIDE DEF Good
<1>4. n \in Good
  BY <1>2, <1>3, Upward
<1> QED
  BY <1>1, <1>4 DEF Good

\* Sums add up.
LEMMA TotalAdds ==
  ASSUME NEW n \in Nat, NEW f \in Counters(n), NEW g \in Counters(n), NEW k \in Counters(n),
         \A i \in 0 .. n - 1 : k[i] = f[i] + g[i]
  PROVE  Total(k, n) = Total(f, n) + Total(g, n)
<1>1. PICK h : /\ h[0] = 0 /\ (\A i \in 1 .. n : h[i] = h[i - 1] + f[i - 1])
               /\ Total(f, n) = h[n]
  BY TotalChain
<1>2. PICK p : /\ p[0] = 0 /\ (\A i \in 1 .. n : p[i] = p[i - 1] + g[i - 1])
               /\ Total(g, n) = p[n]
  BY TotalChain
<1>3. PICK q : /\ q[0] = 0 /\ (\A i \in 1 .. n : q[i] = q[i - 1] + k[i - 1])
               /\ Total(k, n) = q[n]
  BY TotalChain
<1> DEFINE Good == {i \in 0 .. n : h[i] \in Nat /\ p[i] \in Nat /\ q[i] = h[i] + p[i]}
<1>4. 0 \in Good
  BY <1>1, <1>2, <1>3
<1>5. ASSUME NEW i \in 1 .. n, i - 1 \in Good PROVE i \in Good
  <2>1. /\ f[i - 1] \in Nat /\ g[i - 1] \in Nat /\ k[i - 1] = f[i - 1] + g[i - 1]
        /\ h[i - 1] \in Nat /\ p[i - 1] \in Nat /\ q[i - 1] = h[i - 1] + p[i - 1]
    BY <1>5 DEF Counters
  <2>2. h[i] = h[i - 1] + f[i - 1] /\ p[i] = p[i - 1] + g[i - 1] /\ q[i] = q[i - 1] + k[i - 1]
    BY <1>1, <1>2, <1>3
  <2>3. h[i] \in Nat /\ p[i] \in Nat /\ q[i] = h[i] + p[i]
    BY <2>1, <2>2
  <2> QED
    BY <2>3
<1> HIDE DEF Good
<1>6. n \in Good
  BY <1>4, <1>5, Upward
<1> QED
  BY <1>1, <1>2, <1>3, <1>6 DEF Good

\* What is counted more somewhere is counted more in all.
LEMMA TotalLess ==
  ASSUME NEW n \in Nat, NEW f \in Counters(n), NEW g \in Counters(n),
         \A i \in 0 .. n - 1 : f[i] <= g[i]
  PROVE  Total(f, n) <= Total(g, n)
<1> DEFINE d == [i \in 0 .. n - 1 |-> g[i] - f[i]]
<1>1. ASSUME NEW i \in 0 .. n - 1 PROVE d[i] \in Nat /\ g[i] = f[i] + d[i]
  BY DEF Counters
<1>2. d \in Counters(n)
  BY <1>1 DEF Counters
<1> HIDE DEF d
<1>3. Total(g, n) = Total(f, n) + Total(d, n)
  BY <1>1, <1>2, TotalAdds
<1> QED
  BY <1>2, <1>3, TotalNat

LEMMA DoubleZero == \A t \in Nat : t = t + t => t = 0
OBVIOUS

LEMMA TotalZero ==
  ASSUME NEW n \in Nat, NEW f \in Counters(n), \A i \in 0 .. n - 1 : f[i] = 0
  PROVE  Total(f, n) = 0
<1>1. \A i \in 0 .. n - 1 : f[i] = f[i] + f[i]
  OBVIOUS
<1>2. PICK t \in Nat : t = Total(f, n)
  BY TotalNat
<1>3. t = t + t
  BY <1>1, <1>2, TotalAdds
<1> QED
  BY <1>2, <1>3, DoubleZero, Zenon

\* A sum changes as the counter does that changes.
LEMMA TotalChanges ==
  ASSUME NEW n \in Nat, NEW f \in Counters(n), NEW g \in Counters(n), NEW x \in 0 .. n - 1,
         \A i \in 0 .. n - 1 : i = x \/ f[i] = g[i]
  PROVE  Total(f, n) + g[x] = Total(g, n) + f[x]
<1>1. PICK h : /\ h[0] = 0 /\ (\A i \in 1 .. n : h[i] = h[i - 1] + f[i - 1])
               /\ Total(f, n) = h[n]
  BY TotalChain
<1>2. PICK p : /\ p[0] = 0 /\ (\A i \in 1 .. n : p[i] = p[i - 1] + g[i - 1])
               /\ Total(g, n) = p[n]
  BY TotalChain
<1>x. f[x] \in Nat /\ g[x] \in Nat
  BY DEF Counters
<1> DEFINE Good == {i \in 0 .. n : /\ h[i] \in Nat /\ p[i] \in Nat
                                   /\ i <= x => h[i] = p[i]
                                   /\ i > x => h[i] + g[x] = p[i] + f[x]}
<1>4. 0 \in Good
  BY <1>1, <1>2
<1>5. ASSUME NEW i \in 1 .. n, i - 1 \in Good PROVE i \in Good
  <2>1. /\ f[i - 1] \in Nat /\ g[i - 1] \in Nat /\ (i - 1 = x \/ f[i - 1] = g[i - 1])
        /\ h[i - 1] \in Nat /\ p[i - 1] \in Nat
        /\ i - 1 <= x => h[i - 1] = p[i - 1]
        /\ i - 1 > x => h[i - 1] + g[x] = p[i - 1] + f[x]
    BY <1>5 DEF Counters
  <2>2. h[i] = h[i - 1] + f[i - 1] /\ p[i] = p[i - 1] + g[i - 1]
    BY <1>1, <1>2
  <2>3. h[i] \in Nat /\ p[i] \in Nat
    BY <2>1, <2>2
  <2>4. i <= x => h[i] = p[i]
    BY <2>1, <2>2
  <2>5. i > x => h[i] + g[x] = p[i] + f[x]
    <3>1. CASE i - 1 = x
      BY <1>x, <2>1, <2>2, <3>1
    <3>2. CASE i - 1 # x
      BY <1>x, <2>1, <2>2, <3>2
    <3> QED
      BY <3>1, <3>2
  <2> QED
    BY <2>3, <2>4, <2>5
<1> HIDE DEF Good
<1>6. n \in Good
  BY <1>4, <1>5, Upward
<1>7. h[n] + g[x] = p[n] + f[x]
  BY <1>6 DEF Good
<1> QED
  BY <1>1, <1>2, <1>7

LEMMA GatewaySums ==
  /\ \A f, n : G!Total(f, n) = Total(f, n)
  /\ \A f, n, a, b : G!Within(f, n, a, b) = Within(f, n, a, b)
BY DEF G!Total, Total, G!Within, Within

\* The counters between two indices.
Cut(f, n, a, b) == [i \in 0 .. n - 1 |-> IF a <= i /\ i < b THEN f[i] ELSE 0]

LEMMA CutFacts ==
  ASSUME NEW n \in Nat, NEW f \in Counters(n), NEW a \in Int, NEW b \in Int
  PROVE  /\ Cut(f, n, a, b) \in Counters(n) /\ Within(f, n, a, b) = Total(Cut(f, n, a, b), n)
         /\ \A i \in 0 .. n - 1 : Cut(f, n, a, b)[i] = IF a <= i /\ i < b THEN f[i] ELSE 0
         /\ Within(f, n, a, b) \in Nat
<1>1. Cut(f, n, a, b) \in Counters(n)
  BY DEF Cut, Counters
<1>2. Within(f, n, a, b) = Total(Cut(f, n, a, b), n)
  BY DEF Cut, Within
<1> QED
  BY <1>1, <1>2, TotalNat DEF Cut

LEMMA WithinLess ==
  ASSUME NEW n \in Nat, NEW f \in Counters(n), NEW a \in Int, NEW b \in Int, NEW c \in Int,
         NEW d \in Int, \A i \in 0 .. n - 1 : a <= i /\ i < b => f[i] = 0 \/ (c <= i /\ i < d)
  PROVE  Within(f, n, a, b) <= Within(f, n, c, d)
<1>1. ASSUME NEW i \in 0 .. n - 1 PROVE Cut(f, n, a, b)[i] <= Cut(f, n, c, d)[i]
  <2>1. f[i] \in Nat
    BY DEF Counters
  <2> QED
    BY <2>1, CutFacts
<1> QED
  BY <1>1, CutFacts, TotalLess

LEMMA WithinNone ==
  ASSUME NEW n \in Nat, NEW f \in Counters(n), NEW a \in Int, NEW b \in Int,
         \A i \in 0 .. n - 1 : a <= i /\ i < b => f[i] = 0
  PROVE  Within(f, n, a, b) = 0
<1>1. \A i \in 0 .. n - 1 : Cut(f, n, a, b)[i] = 0
  BY CutFacts
<1> QED
  BY <1>1, CutFacts, TotalZero

LEMMA WithinSplits ==
  ASSUME NEW n \in Nat, NEW f \in Counters(n), NEW a \in Int, NEW b \in Int, NEW c \in Int,
         a <= b, b <= c
  PROVE  Within(f, n, a, c) = Within(f, n, a, b) + Within(f, n, b, c)
<1>1. ASSUME NEW i \in 0 .. n - 1
      PROVE  Cut(f, n, a, c)[i] = Cut(f, n, a, b)[i] + Cut(f, n, b, c)[i]
  <2>1. f[i] \in Nat
    BY DEF Counters
  <2> QED
    BY <2>1, CutFacts
<1> QED
  BY <1>1, CutFacts, TotalAdds

LEMMA WithinSums ==
  ASSUME NEW n \in Nat, NEW f \in Counters(n), NEW g \in Counters(n), NEW k \in Counters(n),
         \A i \in 0 .. n - 1 : k[i] = f[i] + g[i], NEW a \in Int, NEW b \in Int
  PROVE  Within(k, n, a, b) = Within(f, n, a, b) + Within(g, n, a, b)
<1>1. ASSUME NEW i \in 0 .. n - 1
      PROVE  Cut(k, n, a, b)[i] = Cut(f, n, a, b)[i] + Cut(g, n, a, b)[i]
  BY CutFacts
<1> QED
  BY <1>1, CutFacts, TotalAdds

\* One counter goes up by k.
LEMMA WithinMore ==
  ASSUME NEW n \in Nat, NEW f \in Counters(n), NEW x \in 0 .. n - 1, NEW k \in Nat,
         NEW a \in Int, NEW b \in Int
  PROVE  LET g == [f EXCEPT ![x] = @ + k] IN
           /\ g \in Counters(n)
           /\ Within(g, n, a, b) = Within(f, n, a, b) + (IF a <= x /\ x < b THEN k ELSE 0)
<1> DEFINE g == [f EXCEPT ![x] = @ + k]
<1>1. f[x] \in Nat
  BY DEF Counters
<1>2. /\ g \in Counters(n) /\ g[x] = f[x] + k
      /\ \A i \in 0 .. n - 1 : i = x \/ f[i] = g[i]
  BY <1>1 DEF Counters
<1> HIDE DEF g
<1>3. \A i \in 0 .. n - 1 : i = x \/ Cut(f, n, a, b)[i] = Cut(g, n, a, b)[i]
  BY <1>2, CutFacts
<1>4. /\ Cut(f, n, a, b)[x] = IF a <= x /\ x < b THEN f[x] ELSE 0
      /\ Cut(g, n, a, b)[x] = IF a <= x /\ x < b THEN f[x] + k ELSE 0
  BY <1>2, CutFacts
<1>5. Within(f, n, a, b) + Cut(g, n, a, b)[x] = Within(g, n, a, b) + Cut(f, n, a, b)[x]
  BY <1>2, <1>3, CutFacts, TotalChanges
<1>6. Within(f, n, a, b) \in Nat /\ Within(g, n, a, b) \in Nat
  BY <1>2, CutFacts
<1>7. Within(g, n, a, b) = Within(f, n, a, b) + (IF a <= x /\ x < b THEN k ELSE 0)
  BY <1>1, <1>4, <1>5, <1>6
<1> QED
  BY <1>2, <1>7 DEF g

-----------------------------------------------------------------------------
(***************************************************************************)
(* Windows: a window w of the length W in which the requests f of a client *)
(* were let pass, at most cap of them, at the time t                       *)
(***************************************************************************)
Ticks == Lifetime + 1

\* No more than two windows of requests pass in any span of its length.
Bounded(f, W, cap) == \A u \in Int : Within(f, Ticks, u, u + W) <= 2 * cap

\* Nothing has passed yet.
Unborn(f, t) == \A x \in 0 .. Lifetime : x > t => f[x] = 0

\* A window that is there counts what passed since its beginning, the time before
\* is another window's.
Open(w, f, W, cap, t) ==
  /\ w.start \in Nat /\ w.start <= t
  /\ w.count = Within(f, Ticks, w.start, Ticks) /\ w.count <= cap
  /\ Within(f, Ticks, w.start - W, w.start) <= cap
  /\ \A x \in 0 .. Lifetime : x >= w.start + W => f[x] = 0

\* One that is not there, any more, is not needed.
Gone(w, f, W, cap, t) ==
  /\ w = G!NoWindow
  /\ Within(f, Ticks, t - W, Ticks) <= cap
  /\ \A x \in 0 .. Lifetime : x >= t => f[x] = 0

Held(w, f, W, cap, t) ==
  /\ f \in Counters(Ticks) /\ Unborn(f, t) /\ Bounded(f, W, cap)
  /\ DOMAIN w = {"count", "start"} /\ w.count \in Nat /\ w.start \in Int
  /\ Open(w, f, W, cap, t) \/ Gone(w, f, W, cap, t)

LEMMA TicksNat == Ticks \in Nat /\ Ticks - 1 = Lifetime /\ Lifetime \in Nat
BY WebAssumption DEF Ticks

LEMMA HeldTick ==
  ASSUME NEW w, NEW f, NEW W \in Nat, NEW cap \in Nat, NEW t \in Nat, Held(w, f, W, cap, t)
  PROVE  Held(w, f, W, cap, t + 1)
<1>1. f \in Counters(Ticks)
  BY DEF Held
<1>2. Unborn(f, t + 1)
  BY TicksNat DEF Held, Unborn
<1>3. Open(w, f, W, cap, t) => Open(w, f, W, cap, t + 1)
  BY DEF Open
<1>4. Gone(w, f, W, cap, t) => Gone(w, f, W, cap, t + 1)
  <2> SUFFICES ASSUME Gone(w, f, W, cap, t) PROVE Gone(w, f, W, cap, t + 1)
    OBVIOUS
  <2> DEFINE a == t + 1 - W
             b == t - W
  <2>1. a \in Int /\ b \in Int /\ b <= a
    OBVIOUS
  <2> HIDE DEF a, b
  <2>2. Within(f, Ticks, a, Ticks) <= Within(f, Ticks, b, Ticks)
    BY <1>1, <2>1, TicksNat, WithinLess
  <2>3. Within(f, Ticks, a, Ticks) \in Nat /\ Within(f, Ticks, b, Ticks) \in Nat
    BY <1>1, <2>1, TicksNat, CutFacts
  <2>4. Within(f, Ticks, b, Ticks) <= cap
    BY DEF Gone, b
  <2>5. Within(f, Ticks, a, Ticks) <= cap
    BY <2>2, <2>3, <2>4
  <2>6. \A x \in 0 .. Lifetime : x >= t + 1 => f[x] = 0
    BY TicksNat DEF Gone
  <2> QED
    BY <2>5, <2>6 DEF Gone, a
<1> QED
  BY <1>1, <1>2, <1>3, <1>4 DEF Held

LEMMA NoWindowFacts ==
  /\ DOMAIN G!NoWindow = {"count", "start"} /\ G!NoWindow.count = 0
  /\ G!NoWindow.start = 0 - (WriteWindow + Minute) /\ G!NoWindow.start \in Int
BY WebAssumption DEF G!NoWindow

\* A window that was swept had run out.
LEMMA HeldSwept ==
  ASSUME NEW w, NEW f, NEW W \in Nat, NEW cap \in Nat, NEW t \in Nat, Held(w, f, W, cap, t),
         NEW v, v = w \/ (v = G!NoWindow /\ t - w.start >= W)
  PROVE  Held(v, f, W, cap, t)
<1>1. f \in Counters(Ticks)
  BY DEF Held
<1>2. CASE v = w \/ w = G!NoWindow
  BY <1>2
<1>3. CASE v = G!NoWindow /\ t - w.start >= W /\ Open(w, f, W, cap, t)
  <2> DEFINE s == w.start
             b == t - W
  <2>1. s \in Nat /\ b \in Int /\ s <= b /\ s + W <= t
    BY <1>3 DEF Open
  <2>2. w.count = Within(f, Ticks, s, Ticks) /\ w.count <= cap
    BY <1>3 DEF Open
  <2>3. \A x \in 0 .. Lifetime : x >= s + W => f[x] = 0
    BY <1>3 DEF Open
  <2> HIDE DEF s, b
  <2>4. Within(f, Ticks, b, Ticks) <= Within(f, Ticks, s, Ticks)
    BY <1>1, <2>1, TicksNat, WithinLess
  <2>5. Within(f, Ticks, b, Ticks) \in Nat /\ Within(f, Ticks, s, Ticks) \in Nat
    BY <1>1, <2>1, TicksNat, CutFacts
  <2>6. Within(f, Ticks, b, Ticks) <= cap
    BY <2>2, <2>4, <2>5
  <2>7. \A x \in 0 .. Lifetime : x >= t => f[x] = 0
    BY <2>1, <2>3, TicksNat
  <2>8. Gone(v, f, W, cap, t)
    BY <1>3, <2>6, <2>7 DEF Gone, b
  <2> QED
    BY <1>3, <2>8, NoWindowFacts DEF Held
<1> QED
  BY <1>2, <1>3 DEF Held, Gone

\* A request finds a window that has not run out, its own if need be.
LEMMA HeldCurrent ==
  ASSUME NEW w, NEW f, NEW W \in Nat, 0 < W, W <= WriteWindow + Minute, NEW cap \in Nat,
         NEW t \in Nat, Held(w, f, W, cap, t), NEW v,
         v = IF t - w.start >= W THEN [count |-> 0, start |-> t] ELSE w
  PROVE  Held(v, f, W, cap, t) /\ v.start \in Nat /\ v.start <= t /\ t - v.start < W
<1>1. f \in Counters(Ticks) /\ w.start \in Int
  BY DEF Held
<1>2. CASE ~(t - w.start >= W)
  <2>1. w # G!NoWindow
    BY <1>1, <1>2, NoWindowFacts, WebAssumption
  <2>2. Open(w, f, W, cap, t)
    BY <2>1 DEF Held, Gone
  <2>3. w.start \in Nat /\ w.start <= t /\ t - w.start < W
    BY <1>1, <1>2, <2>2 DEF Open
  <2> QED
    BY <1>2, <2>3
<1>3. CASE t - w.start >= W
  <2>1. v = [count |-> 0, start |-> t]
    BY <1>3
  <2>2. DOMAIN v = {"count", "start"} /\ v.count = 0 /\ v.start = t
    BY <2>1
  <2> DEFINE s == w.start
             b == t - W
  <2>3. s \in Int /\ b \in Int /\ s + W <= t /\ s <= b /\ b <= t
    BY <1>1, <1>3
  <2>4. /\ \A x \in 0 .. Lifetime : x >= t => f[x] = 0
        /\ Within(f, Ticks, b, t) <= cap
    <3>1. CASE Gone(w, f, W, cap, t)
      <4>1. \A x \in 0 .. Lifetime : x >= t => f[x] = 0
        BY <3>1 DEF Gone
      <4>2. Within(f, Ticks, b, Ticks) <= cap
        BY <3>1 DEF Gone
      <4> HIDE DEF s, b
      <4>3. Within(f, Ticks, b, t) <= Within(f, Ticks, b, Ticks)
        BY <1>1, <2>3, TicksNat, WithinLess
      <4>4. Within(f, Ticks, b, t) \in Nat /\ Within(f, Ticks, b, Ticks) \in Nat
        BY <1>1, <2>3, TicksNat, CutFacts
      <4> QED
        BY <4>1, <4>2, <4>3, <4>4
    <3>2. CASE Open(w, f, W, cap, t)
      <4>1. \A x \in 0 .. Lifetime : x >= s + W => f[x] = 0
        BY <3>2 DEF Open
      <4>2. Within(f, Ticks, s, Ticks) <= cap /\ s \in Nat
        BY <3>2 DEF Open, Held
      <4> HIDE DEF s, b
      <4>3. Within(f, Ticks, b, t) <= Within(f, Ticks, s, Ticks)
        BY <1>1, <2>3, TicksNat, WithinLess
      <4>4. Within(f, Ticks, b, t) \in Nat /\ Within(f, Ticks, s, Ticks) \in Nat
        BY <1>1, <2>3, TicksNat, CutFacts
      <4>5. \A x \in 0 .. Lifetime : x >= t => f[x] = 0
        BY <2>3, <4>1, TicksNat
      <4> QED
        BY <4>2, <4>3, <4>4, <4>5
    <3> QED
      BY <3>1, <3>2 DEF Held
  <2>5. Within(f, Ticks, t, Ticks) = 0
    BY <1>1, <2>4, TicksNat, WithinNone
  <2>6. \A x \in 0 .. Lifetime : x >= t + W => f[x] = 0
    BY <2>4, TicksNat
  <2>7. Open(v, f, W, cap, t)
    BY <2>2, <2>4, <2>5, <2>6 DEF Open
  <2> QED
    BY <2>2, <2>7 DEF Held
<1> QED
  BY <1>2, <1>3

\* A request passes in a window, if that has not had its number.
LEMMA HeldAdmit ==
  ASSUME NEW w, NEW f, NEW W \in Nat, NEW cap \in Nat, NEW t \in 0 .. Lifetime,
         Held(w, f, W, cap, t), w.start \in Nat, t - w.start < W, NEW one \in {0, 1},
         one = 1 => w.count < cap
  PROVE  Held([w EXCEPT !.count = @ + one], [f EXCEPT ![t] = @ + one], W, cap, t)
<1> DEFINE g == [f EXCEPT ![t] = @ + one]
           v == [w EXCEPT !.count = @ + one]
           s == w.start
<1>0. t \in Nat /\ one \in Nat /\ t \in 0 .. Ticks - 1 /\ s \in Nat
  BY TicksNat
<1>1. f \in Counters(Ticks) /\ Unborn(f, t) /\ w.count \in Nat /\ Bounded(f, W, cap)
  BY DEF Held
<1>2. /\ s <= t /\ t < s + W /\ w.count = Within(f, Ticks, s, Ticks) /\ w.count <= cap
      /\ Within(f, Ticks, s - W, s) <= cap
      /\ \A x \in 0 .. Lifetime : x >= s + W => f[x] = 0
  <2>1. Open(w, f, W, cap, t)
    <3>1. w # G!NoWindow
      BY NoWindowFacts, WebAssumption
    <3> QED
      BY <3>1 DEF Held, Gone
  <2> QED
    BY <1>0, <2>1 DEF Open
<1>3. /\ DOMAIN v = {"count", "start"} /\ v.count = w.count + one /\ v.start = s
  BY DEF Held
<1>4. g \in Counters(Ticks)
  <2>1. f[t] \in Nat
    BY <1>0, <1>1 DEF Counters
  <2> QED
    BY <1>0, <1>1, <2>1 DEF Counters
<1>5. ASSUME NEW a \in Int, NEW b \in Int
      PROVE  Within(g, Ticks, a, b) = Within(f, Ticks, a, b) + (IF a <= t /\ t < b THEN one ELSE 0)
  BY <1>0, <1>1, TicksNat, WithinMore
<1>6. \A x \in 0 .. Lifetime : x = t \/ g[x] = f[x]
  BY <1>1, TicksNat DEF Counters
<1> HIDE DEF g, v, s
<1>7. Unborn(g, t)
  BY <1>0, <1>1, <1>6, TicksNat DEF Unborn
<1>8. v.count = Within(g, Ticks, s, Ticks) /\ v.count <= cap /\ v.count \in Nat
  <2>1. Within(g, Ticks, s, Ticks) = Within(f, Ticks, s, Ticks) + one
    BY <1>0, <1>2, <1>5, TicksNat
  <2> QED
    BY <1>0, <1>1, <1>2, <1>3, <2>1
<1>9. Within(g, Ticks, s - W, s) <= cap
  <2>1. s - W \in Int /\ s \in Int /\ ~(t < s)
    BY <1>0, <1>2
  <2>2. Within(g, Ticks, s - W, s) = Within(f, Ticks, s - W, s) + 0
    BY <1>5, <2>1
  <2>3. Within(f, Ticks, s - W, s) \in Nat
    BY <1>1, <2>1, TicksNat, CutFacts
  <2> QED
    BY <1>2, <2>2, <2>3
<1>10. Open(v, g, W, cap, t)
  <2>1. \A x \in 0 .. Lifetime : x >= s + W => g[x] = 0
    BY <1>0, <1>2, <1>6
  <2> QED
    BY <1>0, <1>2, <1>3, <1>8, <1>9, <2>1 DEF Open
<1>11. Bounded(g, W, cap)
  <2> SUFFICES ASSUME NEW u \in Int PROVE Within(g, Ticks, u, u + W) <= 2 * cap
    BY DEF Bounded
  <2>0. PICK e \in Int : e = u + W
    OBVIOUS
  <2>s. SUFFICES Within(g, Ticks, u, e) <= 2 * cap
    BY <2>0
  <2>1. e \in Int /\ Within(f, Ticks, u, e) <= 2 * cap
    BY <1>1, <2>0 DEF Bounded
  <2>2. /\ Within(f, Ticks, u, e) \in Nat /\ Within(g, Ticks, u, e) \in Nat
        /\ Within(g, Ticks, s, e) \in Nat /\ Within(g, Ticks, u, s) \in Nat
        /\ Within(g, Ticks, s, Ticks) \in Nat /\ Within(g, Ticks, s - W, s) \in Nat
    BY <1>0, <1>1, <1>4, <2>1, TicksNat, CutFacts
  <2>3. CASE ~(u <= t /\ t < e)
    <3>1. Within(g, Ticks, u, e) = Within(f, Ticks, u, e) + 0
      BY <1>5, <2>1, <2>3
    <3> QED
      BY <2>1, <2>2, <3>1
  <2>4. CASE u <= t /\ t < e /\ s <= u
    <3>1. Within(g, Ticks, u, e) <= Within(g, Ticks, s, Ticks)
      BY <1>0, <1>4, <2>0, <2>1, <2>4, TicksNat, WithinLess
    <3> QED
      BY <1>8, <2>2, <3>1
  <2>5. CASE u <= t /\ t < e /\ u < s
    <3>0. s - W \in Int /\ s - W <= u /\ s <= e /\ s \in Int /\ u <= s
      BY <1>0, <1>2, <2>0, <2>1, <2>5
    <3>1. Within(g, Ticks, u, e) = Within(g, Ticks, u, s) + Within(g, Ticks, s, e)
      BY <1>4, <2>1, <3>0, TicksNat, WithinSplits
    <3>2. Within(g, Ticks, u, s) <= Within(g, Ticks, s - W, s)
      BY <1>4, <3>0, TicksNat, WithinLess
    <3>3. Within(g, Ticks, s, e) <= Within(g, Ticks, s, Ticks)
      BY <1>4, <2>1, <3>0, TicksNat, WithinLess
    <3>4. Within(g, Ticks, u, s) <= cap /\ Within(g, Ticks, s, e) <= cap
      BY <1>8, <1>9, <2>2, <3>2, <3>3
    <3> QED
      BY <2>2, <3>1, <3>4
  <2> QED
    BY <1>0, <2>1, <2>3, <2>4, <2>5
<1>12. v.start \in Int
  BY <1>0, <1>3
<1> QED
  BY <1>3, <1>4, <1>7, <1>8, <1>10, <1>11, <1>12 DEF Held, g, v

-----------------------------------------------------------------------------
(***************************************************************************)
(* The ring of the statistics                                              *)
(***************************************************************************)
LEMMA DivFacts ==
  ASSUME NEW n \in Nat, NEW d \in Nat \ {0}
  PROVE  n \div d \in Nat /\ n % d \in 0 .. d - 1 /\ n = d * (n \div d) + (n % d)
OBVIOUS

\* A product of two numbers, one of them positive.
LEMMA ProductLess ==
  ASSUME NEW d \in Nat \ {0}, NEW p \in Int, NEW q \in Int, p < q
  PROVE  d * p + d <= d * q
<1>1. PICK k \in Nat : q = p + 1 + k
  <2>1. q - p - 1 \in Nat /\ q = p + 1 + (q - p - 1)
    OBVIOUS
  <2> QED
    BY <2>1
<1>2. d * q = d * p + d + d * k
  BY <1>1
<1>3. d * k \in Nat /\ d * p \in Int
  OBVIOUS
<1> QED
  BY <1>2, <1>3

\* The next tick is in the same minute, or the next.
LEMMA DivNext ==
  ASSUME NEW n \in Nat, NEW d \in Nat \ {0}
  PROVE  (n + 1) \div d = n \div d \/ (n + 1) \div d = n \div d + 1
<1> DEFINE p == n \div d
           q == (n + 1) \div d
           r == n % d
           s == (n + 1) % d
<1>1. p \in Nat /\ r \in 0 .. d - 1 /\ n = d * p + r
  BY DivFacts
<1>2. q \in Nat /\ s \in 0 .. d - 1 /\ n + 1 = d * q + s
  <2>1. n + 1 \in Nat
    OBVIOUS
  <2> QED
    BY <2>1, DivFacts, Zenon
<1> HIDE DEF p, q, r, s
<1>3. d * p \in Int /\ d * q \in Int
  BY <1>1, <1>2
<1>4. ~(q < p)
  <2> SUFFICES ASSUME q < p PROVE FALSE
    OBVIOUS
  <2>1. d * q + d <= d * p
    BY <1>1, <1>2, ProductLess
  <2> QED
    BY <1>1, <1>2, <1>3, <2>1
<1>5. ~(p + 1 < q)
  <2> SUFFICES ASSUME p + 1 < q PROVE FALSE
    OBVIOUS
  <2>1. d * (p + 1) + d <= d * q
    BY <1>1, <1>2, ProductLess
  <2>2. d * (p + 1) = d * p + d
    BY <1>1
  <2> QED
    BY <1>1, <1>2, <1>3, <2>1, <2>2
<1> QED
  BY <1>1, <1>2, <1>4, <1>5 DEF p, q

LEMMA DivLess ==
  ASSUME NEW n \in Nat, NEW m \in Nat, n <= m, NEW d \in Nat \ {0}
  PROVE  n \div d <= m \div d
<1> DEFINE p == n \div d
           q == m \div d
           r == n % d
           s == m % d
<1>1. p \in Nat /\ r \in 0 .. d - 1 /\ n = d * p + r
  BY DivFacts
<1>2. q \in Nat /\ s \in 0 .. d - 1 /\ m = d * q + s
  BY DivFacts
<1> HIDE DEF p, q, r, s
<1>3. d * p \in Int /\ d * q \in Int
  BY <1>1, <1>2
<1>4. ~(q < p)
  <2> SUFFICES ASSUME q < p PROVE FALSE
    OBVIOUS
  <2>1. d * q + d <= d * p
    BY <1>1, <1>2, ProductLess
  <2> QED
    BY <1>1, <1>2, <1>3, <2>1
<1> QED
  BY <1>1, <1>2, <1>4 DEF p, q

\* Two minutes that the ring has at once have different buckets.
LEMMA SameBucket ==
  ASSUME NEW k \in Nat, NEW m \in Nat, NEW d \in Nat \ {0}, k % d = m % d, k < m
  PROVE  k <= m - d
<1> DEFINE p == k \div d
           q == m \div d
           r == k % d
           s == m % d
<1>1. p \in Nat /\ r \in 0 .. d - 1 /\ k = d * p + r
  BY DivFacts
<1>2. q \in Nat /\ s \in 0 .. d - 1 /\ m = d * q + s
  BY DivFacts
<1>e. r = s
  OBVIOUS
<1> HIDE DEF p, q, r, s
<1>3. d * p \in Int /\ d * q \in Int
  BY <1>1, <1>2
<1>4. p < q
  <2> SUFFICES ASSUME q <= p PROVE FALSE
    BY <1>1, <1>2
  <2>1. CASE p = q
    BY <1>1, <1>2, <1>3, <1>e, <2>1
  <2>2. CASE q < p
    <3>1. d * q + d <= d * p
      BY <1>1, <1>2, <2>2, ProductLess
    <3> QED
      BY <1>1, <1>2, <1>3, <3>1
  <2> QED
    BY <1>1, <1>2, <2>1, <2>2
<1>5. d * p + d <= d * q
  BY <1>1, <1>2, <1>4, ProductLess
<1> QED
  BY <1>1, <1>2, <1>3, <1>5, <1>e

LEMMA WithinOne ==
  ASSUME NEW n \in Nat, NEW f \in Counters(n), NEW x \in 0 .. n - 1
  PROVE  Within(f, n, x, x + 1) = f[x]
<1> DEFINE z == [i \in 0 .. n - 1 |-> 0]
           g == Cut(f, n, x, x + 1)
<1>1. z \in Counters(n) /\ (\A i \in 0 .. n - 1 : z[i] = 0)
  BY DEF Counters
<1>2. x \in Int /\ x + 1 \in Int
  OBVIOUS
<1>3. /\ g \in Counters(n) /\ Within(f, n, x, x + 1) = Total(g, n)
      /\ \A i \in 0 .. n - 1 : g[i] = IF x <= i /\ i < x + 1 THEN f[i] ELSE 0
  BY <1>2, CutFacts
<1> HIDE DEF z, g
<1>4. g[x] = f[x] /\ z[x] = 0 /\ \A i \in 0 .. n - 1 : i = x \/ g[i] = z[i]
  BY <1>1, <1>3
<1>5. Total(g, n) + z[x] = Total(z, n) + g[x]
  BY <1>1, <1>3, <1>4, TotalChanges
<1>6. Total(z, n) = 0 /\ Total(g, n) \in Nat /\ f[x] \in Nat
  BY <1>1, <1>3, TotalZero, TotalNat DEF Counters
<1> QED
  BY <1>3, <1>4, <1>5, <1>6

Minutes == Lifetime \div Minute + 1

\* What the ring r counts of the minutes that it has at minute m.
Counting(r, m) ==
  [i \in 0 .. Buckets - 1 |-> IF r.minutes[i] > m - Buckets THEN r.counts[i] ELSE 0]

Lasting(r, m)   == Total(Counting(r, m), Buckets)
Recorded(a, m) == Within(a, Minutes, m - Buckets + 1, m + 1)

\* A bucket has a minute that is its own, or has not been used.
Bucketed(r, m) ==
  \A i \in 0 .. Buckets - 1 :
    /\ r.minutes[i] <= m
    /\ r.minutes[i] % Buckets = i \/ (r.minutes[i] = 0 /\ r.counts[i] = 0)

\* Of the minutes that the ring can have, it has those in which anything was
\* recorded.
InRing(r, a, m) ==
  /\ \A k \in 0 .. Minutes - 1 : k > m => a[k] = 0
  /\ \A k \in 0 .. Minutes - 1 :
       k <= m /\ k > m - Buckets =>
         a[k] = IF r.minutes[k % Buckets] = k THEN r.counts[k % Buckets] ELSE 0

RingHeld(r, a, m) ==
  /\ r \in [minutes : Counters(Buckets), counts : Counters(Buckets)]
  /\ a \in Counters(Minutes)
  /\ Bucketed(r, m) /\ InRing(r, a, m) /\ Lasting(r, m) = Recorded(a, m)

LEMMA MinutesNat ==
  /\ Minutes \in Nat /\ Minutes - 1 = Lifetime \div Minute /\ Buckets \in Nat \ {0}
  /\ Buckets \in Nat /\ Buckets >= 1 /\ Lifetime \div Minute \in Nat
<1>1. Lifetime \div Minute \in Nat
  BY WebAssumption, DivFacts
<1> QED
  BY <1>1, WebAssumption DEF Minutes

LEMMA CountingFacts ==
  ASSUME NEW r \in [minutes : Counters(Buckets), counts : Counters(Buckets)], NEW m \in Int
  PROVE  /\ Counting(r, m) \in Counters(Buckets)
         /\ \A i \in 0 .. Buckets - 1 :
              Counting(r, m)[i] = IF r.minutes[i] > m - Buckets THEN r.counts[i] ELSE 0
         /\ r.minutes \in Counters(Buckets) /\ r.counts \in Counters(Buckets)
         /\ \A i \in 0 .. Buckets - 1 : r.minutes[i] \in Nat /\ r.counts[i] \in Nat
         /\ Lasting(r, m) \in Nat
<1>1. /\ r.minutes \in Counters(Buckets) /\ r.counts \in Counters(Buckets)
      /\ \A i \in 0 .. Buckets - 1 : r.minutes[i] \in Nat /\ r.counts[i] \in Nat
  BY DEF Counters
<1>2. Counting(r, m) \in Counters(Buckets)
  BY <1>1 DEF Counting, Counters
<1> QED
  BY <1>1, <1>2, TotalNat, MinutesNat DEF Counting, Lasting

LEMMA RecordedNat ==
  ASSUME NEW a \in Counters(Minutes), NEW m \in Int
  PROVE  Recorded(a, m) \in Nat
<1>1. m - Buckets + 1 \in Int /\ m + 1 \in Int
  BY MinutesNat
<1> QED
  BY <1>1, MinutesNat, CutFacts DEF Recorded

\* A minute passes: the bucket of the one that is too old does not count any more.
LEMMA RingTurns ==
  ASSUME NEW r, NEW a, NEW m \in Nat, m + 1 <= Minutes - 1, RingHeld(r, a, m)
  PROVE  RingHeld(r, a, m + 1)
<1> DEFINE c == m + 1 - Buckets
           g == Counting(r, m)
           h == Counting(r, m + 1)
<1>0. /\ c \in Int /\ c <= m /\ c + 1 <= m + 1 /\ m - Buckets = c - 1
      /\ m + 1 - Buckets = c /\ m \in 0 .. Minutes - 1 /\ m + 1 \in 0 .. Minutes - 1
  BY MinutesNat
<1>1. /\ r \in [minutes : Counters(Buckets), counts : Counters(Buckets)]
      /\ a \in Counters(Minutes) /\ Bucketed(r, m) /\ InRing(r, a, m)
      /\ Lasting(r, m) = Recorded(a, m)
      /\ \A k \in 0 .. Minutes - 1 : a[k] \in Nat
  BY DEF RingHeld, Counters
<1>2. /\ g \in Counters(Buckets)
      /\ \A i \in 0 .. Buckets - 1 : g[i] = IF r.minutes[i] > c - 1 THEN r.counts[i] ELSE 0
      /\ \A i \in 0 .. Buckets - 1 : r.minutes[i] \in Nat /\ r.counts[i] \in Nat
      /\ Total(g, Buckets) = Lasting(r, m) /\ Lasting(r, m) \in Nat
  BY <1>0, <1>1, CountingFacts DEF Lasting
<1>3. /\ h \in Counters(Buckets)
      /\ \A i \in 0 .. Buckets - 1 : h[i] = IF r.minutes[i] > c THEN r.counts[i] ELSE 0
      /\ Total(h, Buckets) = Lasting(r, m + 1) /\ Lasting(r, m + 1) \in Nat
  <2>1. m + 1 \in Int
    OBVIOUS
  <2>2. /\ h \in Counters(Buckets)
        /\ \A i \in 0 .. Buckets - 1 :
             h[i] = IF r.minutes[i] > (m + 1) - Buckets THEN r.counts[i] ELSE 0
        /\ Lasting(r, m + 1) \in Nat
    BY <1>1, <2>1, CountingFacts, Zenon
  <2>3. Total(h, Buckets) = Lasting(r, m + 1)
    BY DEF Lasting
  <2>4. (m + 1) - Buckets = c
    BY MinutesNat
  <2> HIDE DEF h, c
  <2> QED
    BY <2>2, <2>3, <2>4
<1>4. Recorded(a, m) = Within(a, Minutes, c, m + 1)
  <2>1. m - Buckets + 1 = c
    BY MinutesNat
  <2> QED
    BY <2>1 DEF Recorded
<1>5. Recorded(a, m + 1) = Within(a, Minutes, c + 1, m + 1)
  <2>1. Recorded(a, m + 1) = Within(a, Minutes, c + 1, m + 2)
    <3>1. (m + 1) - Buckets + 1 = c + 1 /\ (m + 1) + 1 = m + 2
      BY MinutesNat
    <3> QED
      BY <3>1 DEF Recorded
  <2>2. c + 1 \in Int /\ m + 2 \in Int /\ m + 1 \in Int
    BY <1>0
  <2> HIDE DEF c
  <2>3. /\ Within(a, Minutes, c + 1, m + 2) <= Within(a, Minutes, c + 1, m + 1)
        /\ Within(a, Minutes, c + 1, m + 1) <= Within(a, Minutes, c + 1, m + 2)
    <3>1. \A k \in 0 .. Minutes - 1 : k < m + 2 /\ a[k] # 0 => k < m + 1
      BY <1>1, MinutesNat DEF InRing
    <3>2. Within(a, Minutes, c + 1, m + 2) <= Within(a, Minutes, c + 1, m + 1)
      BY <1>1, <2>2, <3>1, MinutesNat, WithinLess
    <3>3. Within(a, Minutes, c + 1, m + 1) <= Within(a, Minutes, c + 1, m + 2)
      BY <1>1, <2>2, MinutesNat, WithinLess
    <3> QED
      BY <3>2, <3>3
  <2>4. Within(a, Minutes, c + 1, m + 2) \in Nat /\ Within(a, Minutes, c + 1, m + 1) \in Nat
    BY <1>1, <2>2, MinutesNat, CutFacts
  <2> QED
    BY <2>1, <2>3, <2>4
<1> HIDE DEF c, g, h
<1>6. Lasting(r, m + 1) = Recorded(a, m + 1)
  <2>0. Within(a, Minutes, c + 1, m + 1) \in Nat /\ Within(a, Minutes, c, m + 1) \in Nat
    <3>1. c + 1 \in Int /\ m + 1 \in Int
      BY <1>0
    <3> QED
      BY <1>0, <1>1, <3>1, MinutesNat, CutFacts
  <2>1. CASE c < 0
    <3>1. \A i \in 0 .. Buckets - 1 : g[i] <= h[i] /\ h[i] <= g[i]
      BY <1>0, <1>2, <1>3, <2>1
    <3>2. Total(g, Buckets) <= Total(h, Buckets) /\ Total(h, Buckets) <= Total(g, Buckets)
      BY <1>2, <1>3, <3>1, MinutesNat, TotalLess
    <3>3. /\ Within(a, Minutes, c, m + 1) <= Within(a, Minutes, c + 1, m + 1)
          /\ Within(a, Minutes, c + 1, m + 1) <= Within(a, Minutes, c, m + 1)
      <4>1. c + 1 \in Int /\ m + 1 \in Int /\ c + 1 <= 0
        BY <1>0, <2>1
      <4>2. Within(a, Minutes, c, m + 1) <= Within(a, Minutes, c + 1, m + 1)
        BY <1>0, <1>1, <4>1, MinutesNat, WithinLess
      <4>3. Within(a, Minutes, c + 1, m + 1) <= Within(a, Minutes, c, m + 1)
        BY <1>0, <1>1, <4>1, MinutesNat, WithinLess
      <4> QED
        BY <4>2, <4>3
    <3> QED
      BY <1>1, <1>2, <1>3, <1>4, <1>5, <2>0, <3>2, <3>3
  <2>2. CASE c >= 0
    <3> DEFINE j == c % Buckets
    <3>1. c \in Nat /\ c \in 0 .. Minutes - 1 /\ j \in 0 .. Buckets - 1
      BY <1>0, <2>2, MinutesNat, DivFacts
    <3>2. a[c] = IF r.minutes[j] = c THEN r.counts[j] ELSE 0
      BY <1>0, <1>1, <3>1 DEF InRing
    <3>3. \A i \in 0 .. Buckets - 1 : i = j \/ r.minutes[i] # c \/ r.counts[i] = 0
      BY <1>1 DEF Bucketed
    <3> HIDE DEF j
    <3>4. \A i \in 0 .. Buckets - 1 : i = j \/ g[i] = h[i]
      BY <1>0, <1>2, <1>3, <3>3
    <3>5. g[j] = h[j] + a[c]
      BY <1>0, <1>2, <1>3, <3>1, <3>2
    <3>6. Total(g, Buckets) + h[j] = Total(h, Buckets) + g[j]
      BY <1>2, <1>3, <3>1, <3>4, MinutesNat, TotalChanges
    <3>7. h[j] \in Nat /\ a[c] \in Nat
      BY <1>1, <1>3, <3>1 DEF Counters
    <3>8. Lasting(r, m) = Lasting(r, m + 1) + a[c]
      BY <1>2, <1>3, <3>5, <3>6, <3>7
    <3>9. Within(a, Minutes, c, m + 1) = a[c] + Within(a, Minutes, c + 1, m + 1)
      <4>1. c + 1 \in Int /\ m + 1 \in Int /\ c <= c + 1
        BY <1>0
      <4>2. Within(a, Minutes, c, m + 1)
              = Within(a, Minutes, c, c + 1) + Within(a, Minutes, c + 1, m + 1)
        BY <1>0, <1>1, <4>1, MinutesNat, WithinSplits
      <4>3. Within(a, Minutes, c, c + 1) = a[c]
        BY <1>1, <3>1, MinutesNat, WithinOne
      <4> QED
        BY <4>2, <4>3
    <3> QED
      BY <1>1, <1>2, <1>3, <1>4, <1>5, <2>0, <3>7, <3>8, <3>9
  <2> QED
    BY <1>0, <2>1, <2>2
<1>7. Bucketed(r, m + 1)
  BY <1>1, <1>2 DEF Bucketed
<1>8. InRing(r, a, m + 1)
  <2>1. \A k \in 0 .. Minutes - 1 : k > m + 1 => a[k] = 0
    BY <1>1 DEF InRing
  <2>2. ASSUME NEW k \in 0 .. Minutes - 1, k <= m + 1, k > (m + 1) - Buckets
        PROVE  a[k] = IF r.minutes[k % Buckets] = k THEN r.counts[k % Buckets] ELSE 0
    <3>1. CASE k <= m
      <4>1. k > m - Buckets
        BY <2>2, MinutesNat
      <4> QED
        BY <1>1, <3>1, <4>1 DEF InRing
    <3>2. CASE k = m + 1
      <4>1. a[k] = 0
        BY <1>1, <3>2 DEF InRing
      <4>2. k % Buckets \in 0 .. Buckets - 1
        BY MinutesNat, DivFacts
      <4>3. r.minutes[k % Buckets] # k
        BY <1>1, <1>2, <3>2, <4>2 DEF Bucketed
      <4> QED
        BY <4>1, <4>3
    <3> QED
      BY <2>2, <3>1, <3>2
  <2> QED
    BY <2>1, <2>2, Zenon DEF InRing
<1> QED
  BY <1>1, <1>6, <1>7, <1>8 DEF RingHeld

\* A request is recorded in the bucket of its minute, which an older one leaves.
LEMMA RingRecords ==
  ASSUME NEW r, NEW a, NEW m \in 0 .. Minutes - 1, RingHeld(r, a, m), NEW i, i = m % Buckets,
         NEW q,
         q = IF r.minutes[i] = m THEN [r EXCEPT !.counts[i] = @ + 1]
             ELSE [minutes |-> [r.minutes EXCEPT ![i] = m], counts |-> [r.counts EXCEPT ![i] = 1]]
  PROVE  RingHeld(q, [a EXCEPT ![m] = @ + 1], m)
<1> DEFINE b == [a EXCEPT ![m] = @ + 1]
           g == Counting(r, m)
           h == Counting(q, m)
<1>0. /\ m \in Nat /\ m \in Int /\ i \in 0 .. Buckets - 1 /\ m > m - Buckets
  BY MinutesNat, DivFacts
<1>1. /\ r \in [minutes : Counters(Buckets), counts : Counters(Buckets)]
      /\ a \in Counters(Minutes) /\ Bucketed(r, m) /\ InRing(r, a, m)
      /\ Lasting(r, m) = Recorded(a, m)
      /\ r.minutes \in [0 .. Buckets - 1 -> Nat] /\ r.counts \in [0 .. Buckets - 1 -> Nat]
      /\ r.minutes[i] \in Nat /\ r.counts[i] \in Nat
  BY <1>0 DEF RingHeld, Counters
<1>2. a[m] = IF r.minutes[i] = m THEN r.counts[i] ELSE 0
  BY <1>0, <1>1 DEF InRing
<1>3. /\ q.minutes = [r.minutes EXCEPT ![i] = m]
      /\ q.counts = [r.counts EXCEPT ![i] = IF r.minutes[i] = m THEN @ + 1 ELSE 1]
      /\ DOMAIN q = {"minutes", "counts"} /\ q = [minutes |-> q.minutes, counts |-> q.counts]
  <2>1. CASE r.minutes[i] = m
    <3>1. q = [r EXCEPT !.counts[i] = @ + 1]
      BY <2>1
    <3>2. q = [minutes |-> r.minutes, counts |-> [r.counts EXCEPT ![i] = @ + 1]]
      BY <1>1, <3>1
    <3>3. [r.minutes EXCEPT ![i] = m] = r.minutes
      BY <1>0, <1>1, <2>1
    <3> QED
      BY <2>1, <3>2, <3>3
  <2>2. CASE r.minutes[i] # m
    BY <2>2
  <2> QED
    BY <2>1, <2>2
<1>4. q \in [minutes : Counters(Buckets), counts : Counters(Buckets)]
  <2>1. q.minutes \in Counters(Buckets)
    BY <1>0, <1>1, <1>3 DEF Counters
  <2>2. q.counts \in Counters(Buckets)
    BY <1>0, <1>1, <1>3 DEF Counters
  <2> QED
    BY <1>3, <2>1, <2>2
<1>5. /\ q.minutes[i] = m /\ q.counts[i] = a[m] + 1
      /\ \A k \in 0 .. Buckets - 1 :
           k = i \/ (q.minutes[k] = r.minutes[k] /\ q.counts[k] = r.counts[k])
  <2>1. /\ q.minutes[i] = m
        /\ \A k \in 0 .. Buckets - 1 :
             k = i \/ (q.minutes[k] = r.minutes[k] /\ q.counts[k] = r.counts[k])
    BY <1>0, <1>1, <1>3
  <2>2. q.counts[i] = IF r.minutes[i] = m THEN r.counts[i] + 1 ELSE 1
    BY <1>0, <1>1, <1>3
  <2>3. q.counts[i] = a[m] + 1
    <3>1. CASE r.minutes[i] = m
      BY <1>2, <2>2, <3>1
    <3>2. CASE r.minutes[i] # m
      BY <1>2, <2>2, <3>2
    <3> QED
      BY <3>1, <3>2
  <2> QED
    BY <2>1, <2>3
<1>6. /\ g \in Counters(Buckets)
      /\ \A k \in 0 .. Buckets - 1 : g[k] = IF r.minutes[k] > m - Buckets THEN r.counts[k] ELSE 0
      /\ Total(g, Buckets) = Lasting(r, m) /\ Lasting(r, m) \in Nat
  BY <1>0, <1>1, CountingFacts DEF Lasting
<1>7. /\ h \in Counters(Buckets)
      /\ \A k \in 0 .. Buckets - 1 : h[k] = IF q.minutes[k] > m - Buckets THEN q.counts[k] ELSE 0
      /\ Total(h, Buckets) = Lasting(q, m) /\ Lasting(q, m) \in Nat
  BY <1>0, <1>4, CountingFacts DEF Lasting
<1>8. /\ b \in Counters(Minutes) /\ b[m] = a[m] + 1 /\ a[m] \in Nat
      /\ \A k \in 0 .. Minutes - 1 : k = m \/ b[k] = a[k]
  <2>1. a \in [0 .. Minutes - 1 -> Nat] /\ a[m] \in Nat
    BY <1>1 DEF Counters
  <2> QED
    BY <2>1 DEF Counters
<1>9. Recorded(b, m) = Recorded(a, m) + 1
  <2> DEFINE c == m - Buckets + 1
  <2>1. c \in Int /\ m + 1 \in Int /\ c <= m /\ m < m + 1 /\ 1 \in Nat
    BY <1>0, MinutesNat
  <2> HIDE DEF c
  <2>2. Within(b, Minutes, c, m + 1)
          = Within(a, Minutes, c, m + 1) + (IF c <= m /\ m < m + 1 THEN 1 ELSE 0)
    <3>0. PICK one \in Nat : one = 1
      OBVIOUS
    <3>1. b = [a EXCEPT ![m] = @ + one]
      BY <3>0, Zenon DEF b
    <3>2. PICK d \in Int : d = m + 1
      BY <2>1
    <3>3. a \in Counters(Minutes) /\ Minutes \in Nat /\ c \in Int
      BY <1>1, <2>1, MinutesNat
    <3> HIDE DEF b, c
    <3>4. Within([a EXCEPT ![m] = @ + one], Minutes, c, d)
            = Within(a, Minutes, c, d) + (IF c <= m /\ m < d THEN one ELSE 0)
      BY <3>3, WithinMore
    <3>5. Within(b, Minutes, c, d) = Within(a, Minutes, c, d) + (IF c <= m /\ m < d THEN one ELSE 0)
      BY <3>1, <3>4
    <3> QED
      BY <3>0, <3>2, <3>5
  <2> QED
    BY <2>1, <2>2 DEF Recorded, c
<1> HIDE DEF b, g, h
<1>10. g[i] = a[m]
  <2>1. CASE r.minutes[i] = m
    BY <1>0, <1>2, <1>6, <2>1
  <2>2. CASE r.minutes[i] # m
    <3>1. r.minutes[i] <= m - Buckets \/ r.counts[i] = 0
      <4>1. r.minutes[i] < m /\ (r.minutes[i] % Buckets = i \/ r.counts[i] = 0)
        BY <1>0, <1>1, <2>2 DEF Bucketed
      <4>2. CASE r.minutes[i] % Buckets = i
        BY <1>0, <1>1, <4>1, <4>2, MinutesNat, SameBucket
      <4> QED
        BY <4>1, <4>2
    <3>2. r.minutes[i] > m - Buckets => r.counts[i] = 0
      BY <1>0, <1>1, <3>1, MinutesNat
    <3>3. g[i] = 0
      BY <1>0, <1>6, <3>2
    <3> QED
      BY <1>2, <2>2, <3>3
  <2> QED
    BY <2>1, <2>2
<1>11. Lasting(q, m) = Lasting(r, m) + 1
  <2>1. h[i] = a[m] + 1
    BY <1>0, <1>5, <1>7
  <2>2. \A k \in 0 .. Buckets - 1 : k = i \/ g[k] = h[k]
    BY <1>5, <1>6, <1>7
  <2>3. Total(g, Buckets) + h[i] = Total(h, Buckets) + g[i]
    BY <1>0, <1>6, <1>7, <2>2, MinutesNat, TotalChanges
  <2> QED
    BY <1>6, <1>7, <1>8, <1>10, <2>1, <2>3
<1>12. Bucketed(q, m)
  BY <1>0, <1>1, <1>5 DEF Bucketed
<1>13. InRing(q, b, m)
  <2>1. \A k \in 0 .. Minutes - 1 : k > m => b[k] = 0
    BY <1>0, <1>1, <1>8 DEF InRing
  <2>2. ASSUME NEW k \in 0 .. Minutes - 1, k <= m, k > m - Buckets
        PROVE  b[k] = IF q.minutes[k % Buckets] = k THEN q.counts[k % Buckets] ELSE 0
    <3>1. CASE k = m
      BY <1>0, <1>5, <1>8, <3>1
    <3>2. CASE k # m
      <4>0. k \in Nat /\ k < m
        BY <1>0, <2>2, <3>2, MinutesNat
      <4>1. k \in Nat /\ k < m /\ k % Buckets \in 0 .. Buckets - 1
        BY <4>0, MinutesNat, DivFacts
      <4>2. k % Buckets # i
        <5> SUFFICES ASSUME k % Buckets = i PROVE FALSE
          OBVIOUS
        <5>1. k <= m - Buckets
          BY <1>0, <4>1, MinutesNat, SameBucket
        <5> QED
          BY <1>0, <2>2, <4>1, <5>1, MinutesNat
      <4>3. a[k] = IF r.minutes[k % Buckets] = k THEN r.counts[k % Buckets] ELSE 0
        BY <1>1, <2>2 DEF InRing
      <4> QED
        BY <1>5, <1>8, <3>2, <4>1, <4>2, <4>3
    <3> QED
      BY <3>1, <3>2
  <2> QED
    BY <2>1, <2>2, Zenon DEF InRing
<1>14. Lasting(q, m) = Recorded(b, m)
  BY <1>1, <1>9, <1>11
<1> QED
  BY <1>4, <1>8, <1>12, <1>13, <1>14 DEF RingHeld, b

-----------------------------------------------------------------------------
(***************************************************************************)
(* What the limiter lets pass and the statistics count                     *)
(***************************************************************************)
Kinds2 == {"read", "write"}

\* What passes of both classes.
Both(a) == [x \in 0 .. Lifetime |-> a["read"][x] + a["write"][x]]

Classed ==
  /\ DOMAIN requests = G!Slots
  /\ \A s \in G!Slots :
       DOMAIN requests[s] = {"pc", "class", "at"} /\ requests[s].class \in Kinds2

LimiterHeld(t, ws, b, a) ==
  /\ t \in 0 .. Lifetime
  /\ a \in [Kinds2 -> Counters(Ticks)]
  /\ \A c \in Kinds2 : Held(ws[c], a[c], G!Window(c), PerWindow, t)
  /\ Held(b, Both(a), Minute, Burst, t)

CountsInv ==
  /\ Classed /\ LimiterHeld(tick, windows, burst, admitted)
  /\ RingHeld(ring, answered, tick \div Minute)

LEMMA WindowFacts ==
  /\ G!Classes = Kinds2 /\ Minute \in Nat /\ 0 < Minute /\ Minute <= WriteWindow + Minute
  /\ PerWindow \in Nat /\ Burst \in Nat
  /\ \A c \in Kinds2 :
       G!Window(c) \in Nat /\ 0 < G!Window(c) /\ G!Window(c) <= WriteWindow + Minute
BY WebAssumption DEF G!Classes, Kinds2, G!Window

LEMMA BothFacts ==
  ASSUME NEW a \in [Kinds2 -> Counters(Ticks)]
  PROVE  /\ a["read"] \in Counters(Ticks) /\ a["write"] \in Counters(Ticks)
         /\ Both(a) \in Counters(Ticks)
         /\ \A x \in 0 .. Ticks - 1 : Both(a)[x] = a["read"][x] + a["write"][x]
<1>1. a["read"] \in Counters(Ticks) /\ a["write"] \in Counters(Ticks)
  BY DEF Kinds2
<1>2. \A x \in 0 .. Lifetime : a["read"][x] \in Nat /\ a["write"][x] \in Nat
  BY <1>1, TicksNat DEF Counters
<1>3. \A x \in 0 .. Lifetime : a["read"][x] + a["write"][x] \in Nat
  BY <1>2
<1>4. Both(a) \in Counters(Ticks)
  BY <1>3, TicksNat DEF Both, Counters
<1> QED
  BY <1>1, <1>4, TicksNat DEF Both

\* Nothing has passed when the server starts.
LEMMA HeldFirst ==
  ASSUME NEW W \in Nat, NEW cap \in Nat, NEW f, f = [x \in 0 .. Lifetime |-> 0]
  PROVE  Held(G!NoWindow, f, W, cap, 0)
<1>1. f \in Counters(Ticks) /\ \A x \in 0 .. Ticks - 1 : f[x] = 0
  BY TicksNat DEF Counters
<1>2. ASSUME NEW a \in Int, NEW b \in Int PROVE Within(f, Ticks, a, b) = 0
  BY <1>1, TicksNat, WithinNone
<1>3. Unborn(f, 0)
  BY <1>1, TicksNat DEF Unborn
<1>4. Bounded(f, W, cap)
  <2> SUFFICES ASSUME NEW u \in Int PROVE Within(f, Ticks, u, u + W) <= 2 * cap
    BY DEF Bounded
  <2>1. u + W \in Int
    OBVIOUS
  <2>2. Within(f, Ticks, u, u + W) = 0
    BY <1>2, <2>1
  <2> QED
    BY <2>2
<1>5. Gone(G!NoWindow, f, W, cap, 0)
  <2>1. 0 - W \in Int /\ Ticks \in Int
    BY TicksNat
  <2>2. Within(f, Ticks, 0 - W, Ticks) = 0
    BY <1>2, <2>1
  <2> QED
    BY <1>1, <2>2, TicksNat DEF Gone
<1> QED
  BY <1>1, <1>3, <1>4, <1>5, NoWindowFacts DEF Held

LEMMA RingFirst ==
  ASSUME NEW r, r = [minutes |-> [i \in 0 .. Buckets - 1 |-> 0],
                     counts |-> [i \in 0 .. Buckets - 1 |-> 0]],
         NEW a, a = [m \in 0 .. Lifetime \div Minute |-> 0]
  PROVE  RingHeld(r, a, 0)
<1>1. /\ r \in [minutes : Counters(Buckets), counts : Counters(Buckets)]
      /\ \A i \in 0 .. Buckets - 1 : r.minutes[i] = 0 /\ r.counts[i] = 0
  BY DEF Counters
<1>2. a \in Counters(Minutes) /\ \A k \in 0 .. Minutes - 1 : a[k] = 0
  BY MinutesNat DEF Counters
<1>3. Bucketed(r, 0)
  BY <1>1 DEF Bucketed
<1>4. InRing(r, a, 0)
  <2>1. ASSUME NEW k \in 0 .. Minutes - 1, k <= 0
        PROVE  a[k] = IF r.minutes[k % Buckets] = k THEN r.counts[k % Buckets] ELSE 0
    <3>1. k % Buckets \in 0 .. Buckets - 1
      BY MinutesNat, DivFacts
    <3> QED
      BY <1>1, <1>2, <3>1
  <2> QED
    BY <1>2, <2>1 DEF InRing
<1>5. Lasting(r, 0) = 0
  <2> DEFINE g == Counting(r, 0)
  <2>1. g \in Counters(Buckets) /\ \A i \in 0 .. Buckets - 1 : g[i] = 0
    <3>1. PICK z \in Int : z = 0
      OBVIOUS
    <3>2. /\ Counting(r, z) \in Counters(Buckets)
          /\ \A i \in 0 .. Buckets - 1 :
               Counting(r, z)[i] = IF r.minutes[i] > z - Buckets THEN r.counts[i] ELSE 0
      BY <1>1, CountingFacts
    <3>3. Counting(r, z) = g
      BY <3>1
    <3> HIDE DEF g
    <3> QED
      BY <1>1, <3>2, <3>3
  <2> HIDE DEF g
  <2>2. Total(g, Buckets) = 0
    BY <2>1, MinutesNat, TotalZero
  <2> QED
    BY <2>2 DEF Lasting, g
<1>6. Recorded(a, 0) = 0
  <2> DEFINE b == 0 - Buckets + 1
             e == 0 + 1
  <2>1. b \in Int /\ e \in Int
    BY MinutesNat
  <2> HIDE DEF b, e
  <2>2. Within(a, Minutes, b, e) = 0
    BY <1>2, <2>1, MinutesNat, WithinNone
  <2> QED
    BY <2>2 DEF Recorded, b, e
<1> QED
  BY <1>1, <1>2, <1>3, <1>4, <1>5, <1>6 DEF RingHeld

LEMMA CountsInit == G!Init => CountsInv
<1> SUFFICES ASSUME G!Init PROVE CountsInv
  OBVIOUS
<1>1. /\ tick = 0 /\ requests = [s \in G!Slots |-> G!NoRequest]
      /\ windows = [c \in Kinds2 |-> G!NoWindow] /\ burst = G!NoWindow
      /\ ring = [minutes |-> [i \in 0 .. Buckets - 1 |-> 0],
                 counts |-> [i \in 0 .. Buckets - 1 |-> 0]]
      /\ admitted = [c \in Kinds2 |-> [t \in 0 .. Lifetime |-> 0]]
      /\ answered = [m \in 0 .. Lifetime \div Minute |-> 0]
  BY WindowFacts DEF G!Init
<1>2. Classed
  BY <1>1 DEF Classed, G!NoRequest, Kinds2
<1>3. LimiterHeld(tick, windows, burst, admitted)
  <2> DEFINE f == [t \in 0 .. Lifetime |-> 0]
  <2>1. f \in Counters(Ticks)
    BY TicksNat DEF Counters
  <2>2. \A c \in Kinds2 : windows[c] = G!NoWindow /\ admitted[c] = f
    BY <1>1
  <2>3. Both(admitted) = f
    BY <1>1 DEF Both, Kinds2
  <2>4. ASSUME NEW c \in Kinds2 PROVE Held(windows[c], admitted[c], G!Window(c), PerWindow, tick)
    BY <1>1, <2>2, HeldFirst, WindowFacts
  <2>5. Held(burst, Both(admitted), Minute, Burst, tick)
    BY <1>1, <2>3, HeldFirst, WindowFacts
  <2>6. admitted \in [Kinds2 -> Counters(Ticks)] /\ tick \in 0 .. Lifetime
    BY <1>1, <2>1, TicksNat
  <2> QED
    BY <2>4, <2>5, <2>6 DEF LimiterHeld
<1>4. tick \div Minute = 0
  BY <1>1, WebAssumption
<1>5. RingHeld(ring, answered, 0)
  BY <1>1, RingFirst
<1> QED
  BY <1>2, <1>3, <1>4, <1>5 DEF CountsInv

LEMMA ClassesStay ==
  ASSUME Classed, [G!Next]_gatewayVars
  PROVE  Classed'
<1>1. /\ G!NoRequest.class \in Kinds2 /\ DOMAIN G!NoRequest = {"pc", "class", "at"}
      /\ [G!NoRequest EXCEPT !.pc = "serve"].class \in Kinds2
      /\ DOMAIN [G!NoRequest EXCEPT !.pc = "serve"] = {"pc", "class", "at"}
  BY DEF G!NoRequest, Kinds2
<1>2. ASSUME NEW s \in G!Slots, NEW new, DOMAIN new = {"pc", "class", "at"}, new.class \in Kinds2,
             requests' = [requests EXCEPT ![s] = new]
      PROVE  Classed'
  BY <1>2 DEF Classed
<1>3. CASE UNCHANGED requests
  BY <1>3 DEF Classed
<1>4. ASSUME NEW s \in G!Slots, NEW c \in G!Classes, NEW allowlisted \in BOOLEAN,
             G!Arrive(s, c, allowlisted)
      PROVE  Classed'
  <2> DEFINE new == [pc |-> "record", class |-> c, at |-> tick]
  <2>1. new.class \in Kinds2 /\ DOMAIN new = {"pc", "class", "at"}
    BY WindowFacts
  <2>2. \/ requests' = [requests EXCEPT ![s] = [G!NoRequest EXCEPT !.pc = "serve"]]
        \/ requests' = [requests EXCEPT ![s] = new]
    BY <1>4 DEF G!Arrive
  <2> HIDE DEF new
  <2> QED
    BY <1>1, <1>2, <2>1, <2>2
<1>5. ASSUME NEW s \in G!Slots, G!Record(s)
      PROVE  Classed'
  <2>1. PICK new : /\ requests' = [requests EXCEPT ![s] = new]
                   /\ new \in {[requests[s] EXCEPT !.pc = "block"],
                               [requests[s] EXCEPT !.pc = "limit", !.at = 0]}
    BY <1>5 DEF G!Record, Classed
  <2>2. new.class = requests[s].class /\ DOMAIN new = {"pc", "class", "at"}
    BY <2>1 DEF Classed
  <2> QED
    BY <1>2, <2>1, <2>2 DEF Classed
<1>6. ASSUME NEW s \in G!Slots, G!Block(s) \/ G!Limit(s) \/ G!Serve(s)
      PROVE  Classed'
  <2>1. \/ requests' = [requests EXCEPT ![s] = [G!NoRequest EXCEPT !.pc = "serve"]]
        \/ requests' = [requests EXCEPT ![s] = G!NoRequest]
    BY <1>6 DEF G!Block, G!Limit, G!Serve, G!Answer
  <2> QED
    BY <1>1, <1>2, <2>1
<1>7. G!Tick \/ G!Release \/ G!RecordOther \/ G!LimitOther \/ UNCHANGED gatewayVars
        => UNCHANGED requests
  BY DEF G!Tick, G!Release, G!RecordOther, G!LimitOther, gatewayVars
<1> QED
  BY <1>3, <1>4, <1>5, <1>6, <1>7 DEF G!Next

\* Whatever request comes, of this client or another, windows that have run out
\* are swept.
LEMMA KeptFacts ==
  ASSUME NEW w, NEW W
  PROVE  G!Kept(w, W) = w \/ (G!Kept(w, W) = G!NoWindow /\ tick - w.start >= W)
BY DEF G!Kept, G!Swept, G!Lapsed

LEMMA LimiterLimits ==
  ASSUME LimiterHeld(tick, windows, burst, admitted), Classed, NEW s \in G!Slots, G!Limit(s)
  PROVE  LimiterHeld(tick, windows', burst', admitted')
<1> DEFINE c == requests[s].class
           kept == [d \in Kinds2 |-> G!Kept(windows[d], G!Window(d))]
           w == G!Current(kept[c], G!Window(c))
           g == G!Current(G!Kept(burst, Minute), Minute)
           pass == w.count < PerWindow /\ g.count < Burst
           one == IF pass THEN 1 ELSE 0
<1>1. /\ windows' = [kept EXCEPT ![c] = [w EXCEPT !.count = @ + one]]
      /\ burst' = [g EXCEPT !.count = @ + one]
      /\ admitted' = [admitted EXCEPT ![c][tick] = @ + one]
  BY WindowFacts DEF G!Limit
<1>2. /\ tick \in 0 .. Lifetime /\ tick \in Nat /\ admitted \in [Kinds2 -> Counters(Ticks)]
      /\ \A d \in Kinds2 : Held(windows[d], admitted[d], G!Window(d), PerWindow, tick)
      /\ Held(burst, Both(admitted), Minute, Burst, tick)
  BY TicksNat DEF LimiterHeld
<1>3. c \in Kinds2 /\ DOMAIN kept = Kinds2
  BY DEF Classed
<1>4. \A d \in Kinds2 :
        kept[d] = windows[d] \/ (kept[d] = G!NoWindow /\ tick - windows[d].start >= G!Window(d))
  BY KeptFacts
<1>5. w = IF tick - kept[c].start >= G!Window(c) THEN [count |-> 0, start |-> tick] ELSE kept[c]
  BY DEF G!Current, G!Lapsed
<1>6. PICK k : k = G!Kept(burst, Minute)
  OBVIOUS
<1>7. /\ k = burst \/ (k = G!NoWindow /\ tick - burst.start >= Minute)
      /\ g = IF tick - k.start >= Minute THEN [count |-> 0, start |-> tick] ELSE k
  BY <1>6, KeptFacts DEF G!Current, G!Lapsed
<1>8. one \in {0, 1} /\ (one = 1 => w.count < PerWindow /\ g.count < Burst)
  OBVIOUS
<1> HIDE DEF c, kept, w, g, pass, one
<1>9. ASSUME NEW d \in Kinds2
      PROVE  Held(kept[d], admitted[d], G!Window(d), PerWindow, tick)
  BY <1>2, <1>4, HeldSwept, WindowFacts
<1>10. Held(w, admitted[c], G!Window(c), PerWindow, tick) /\ w.start \in Nat
       /\ tick - w.start < G!Window(c)
  BY <1>2, <1>3, <1>5, <1>9, HeldCurrent, WindowFacts
<1>11. Held(k, Both(admitted), Minute, Burst, tick)
  BY <1>2, <1>7, HeldSwept, WindowFacts
<1>12. Held(g, Both(admitted), Minute, Burst, tick) /\ g.start \in Nat /\ tick - g.start < Minute
  BY <1>2, <1>7, <1>11, HeldCurrent, WindowFacts
<1>13. admitted'[c] = [admitted[c] EXCEPT ![tick] = @ + one]
       /\ \A d \in Kinds2 : d = c \/ admitted'[d] = admitted[d]
  BY <1>1, <1>2, <1>3
<1>14. Held(windows'[c], admitted'[c], G!Window(c), PerWindow, tick)
  <2>1. windows'[c] = [w EXCEPT !.count = @ + one]
    BY <1>1, <1>3
  <2>2. Held([w EXCEPT !.count = @ + one], [admitted[c] EXCEPT ![tick] = @ + one], G!Window(c),
             PerWindow, tick)
    BY <1>2, <1>3, <1>8, <1>10, HeldAdmit, WindowFacts
  <2> QED
    BY <1>13, <2>1, <2>2
<1>15. ASSUME NEW d \in Kinds2
       PROVE  Held(windows'[d], admitted'[d], G!Window(d), PerWindow, tick)
  <2>1. CASE d = c
    BY <1>14, <2>1
  <2>2. CASE d # c
    <3>1. windows'[d] = kept[d] /\ admitted'[d] = admitted[d]
      BY <1>1, <1>3, <1>13, <2>2
    <3> QED
      BY <1>9, <3>1
  <2> QED
    BY <2>1, <2>2
<1>16. admitted' \in [Kinds2 -> Counters(Ticks)]
  <2>1. \A d \in Kinds2 : admitted'[d] \in Counters(Ticks)
    BY <1>15 DEF Held
  <2>2. DOMAIN admitted' = Kinds2 /\ admitted' = [d \in Kinds2 |-> admitted'[d]]
    BY <1>1, <1>2
  <2> QED
    BY <2>1, <2>2
<1>17. Both(admitted') = [Both(admitted) EXCEPT ![tick] = @ + one]
  <2>1. \A d \in Kinds2, x \in 0 .. Lifetime :
          /\ admitted[d][x] \in Nat
          /\ admitted'[d][x] = IF d = c /\ x = tick THEN admitted[d][x] + one ELSE admitted[d][x]
    BY <1>2, <1>13, TicksNat DEF Counters
  <2>2. "read" \in Kinds2 /\ "write" \in Kinds2 /\ (c = "read" \/ c = "write")
    BY <1>3 DEF Kinds2
  <2>3. ASSUME NEW x \in 0 .. Lifetime
        PROVE  admitted'["read"][x] + admitted'["write"][x]
                 = IF x = tick THEN admitted["read"][x] + admitted["write"][x] + one
                   ELSE admitted["read"][x] + admitted["write"][x]
    <3>1. admitted["read"][x] \in Nat /\ admitted["write"][x] \in Nat /\ one \in Nat
      BY <1>8, <2>1, <2>2
    <3>2. CASE c = "read"
      <4>1. /\ admitted'["read"][x]
                 = IF x = tick THEN admitted["read"][x] + one ELSE admitted["read"][x]
            /\ admitted'["write"][x] = admitted["write"][x]
        BY <2>1, <2>2, <3>2
      <4> QED
        BY <3>1, <4>1
    <3>3. CASE c = "write"
      <4>1. /\ admitted'["write"][x]
                 = IF x = tick THEN admitted["write"][x] + one ELSE admitted["write"][x]
            /\ admitted'["read"][x] = admitted["read"][x]
        BY <2>1, <2>2, <3>3
      <4> QED
        BY <3>1, <4>1
    <3> QED
      BY <2>2, <3>2, <3>3
  <2>4. Both(admitted) = [x \in 0 .. Lifetime |-> admitted["read"][x] + admitted["write"][x]]
    BY DEF Both
  <2>5. [Both(admitted) EXCEPT ![tick] = @ + one]
          = [x \in 0 .. Lifetime |->
               IF x = tick THEN admitted["read"][x] + admitted["write"][x] + one
               ELSE admitted["read"][x] + admitted["write"][x]]
    BY <2>4
  <2>6. Both(admitted') = [x \in 0 .. Lifetime |-> admitted'["read"][x] + admitted'["write"][x]]
    BY DEF Both
  <2> QED
    BY <2>3, <2>5, <2>6
<1>18. Held(burst', Both(admitted'), Minute, Burst, tick)
  <2>1. Held([g EXCEPT !.count = @ + one], [Both(admitted) EXCEPT ![tick] = @ + one], Minute, Burst,
             tick)
    BY <1>2, <1>8, <1>12, HeldAdmit, WindowFacts
  <2> QED
    BY <1>1, <1>17, <2>1
<1> QED
  BY <1>2, <1>15, <1>16, <1>18 DEF LimiterHeld

LEMMA LimiterStep ==
  ASSUME LimiterHeld(tick, windows, burst, admitted), Classed, [G!Next]_gatewayVars
  PROVE  LimiterHeld(tick', windows', burst', admitted')
<1>1. /\ tick \in 0 .. Lifetime /\ tick \in Nat /\ admitted \in [Kinds2 -> Counters(Ticks)]
      /\ \A d \in Kinds2 : Held(windows[d], admitted[d], G!Window(d), PerWindow, tick)
      /\ Held(burst, Both(admitted), Minute, Burst, tick)
  BY TicksNat DEF LimiterHeld
<1>2. CASE G!Tick
  <2>1. /\ tick' = tick + 1 /\ tick' \in 0 .. Lifetime /\ windows' = windows /\ burst' = burst
        /\ admitted' = admitted
    BY <1>1, <1>2, TicksNat DEF G!Tick
  <2>2. ASSUME NEW d \in Kinds2
        PROVE  Held(windows[d], admitted[d], G!Window(d), PerWindow, tick + 1)
    BY <1>1, HeldTick, WindowFacts
  <2>3. Held(burst, Both(admitted), Minute, Burst, tick + 1)
    BY <1>1, HeldTick, WindowFacts
  <2> QED
    BY <1>1, <2>1, <2>2, <2>3 DEF LimiterHeld
<1>3. CASE G!LimitOther
  <2>1. /\ tick' = tick /\ admitted' = admitted /\ burst' = G!Kept(burst, Minute)
        /\ windows' = [d \in Kinds2 |-> G!Kept(windows[d], G!Window(d))]
    BY <1>3, WindowFacts DEF G!LimitOther
  <2>2. ASSUME NEW d \in Kinds2
        PROVE  Held(windows'[d], admitted[d], G!Window(d), PerWindow, tick)
    <3>1. windows'[d] = windows[d]
          \/ (windows'[d] = G!NoWindow /\ tick - windows[d].start >= G!Window(d))
      BY <2>1, KeptFacts
    <3> QED
      BY <1>1, <3>1, HeldSwept, WindowFacts
  <2>3. Held(burst', Both(admitted), Minute, Burst, tick)
    <3>1. burst' = burst \/ (burst' = G!NoWindow /\ tick - burst.start >= Minute)
      BY <2>1, KeptFacts
    <3> QED
      BY <1>1, <3>1, HeldSwept, WindowFacts
  <2> QED
    BY <1>1, <2>1, <2>2, <2>3 DEF LimiterHeld
<1>4. ASSUME NEW s \in G!Slots, G!Limit(s)
      PROVE  LimiterHeld(tick', windows', burst', admitted')
  <2>1. tick' = tick
    BY <1>4 DEF G!Limit
  <2> QED
    BY <1>4, <2>1, LimiterLimits
<1>5. CASE tick' = tick /\ windows' = windows /\ burst' = burst /\ admitted' = admitted
  BY <1>5
<1>6. ASSUME NEW s \in G!Slots, NEW c \in G!Classes, NEW b \in BOOLEAN,
             G!Arrive(s, c, b) \/ G!Record(s) \/ G!Block(s) \/ G!Serve(s)
      PROVE  tick' = tick /\ windows' = windows /\ burst' = burst /\ admitted' = admitted
  BY <1>6 DEF G!Arrive, G!Record, G!Block, G!Serve
<1>7. G!Release \/ G!RecordOther \/ UNCHANGED gatewayVars
        => tick' = tick /\ windows' = windows /\ burst' = burst /\ admitted' = admitted
  BY DEF G!Release, G!RecordOther, gatewayVars
<1>8. G!Classes # {} /\ BOOLEAN # {}
  BY WindowFacts DEF Kinds2
<1> QED
  BY <1>2, <1>3, <1>4, <1>5, <1>6, <1>7, <1>8 DEF G!Next

LEMMA RingStep ==
  ASSUME RingHeld(ring, answered, tick \div Minute), tick \in 0 .. Lifetime, [G!Next]_gatewayVars
  PROVE  RingHeld(ring', answered', tick' \div Minute)
<1>1. CASE G!Tick
  <2>1. /\ tick' = tick + 1 /\ tick' <= Lifetime /\ ring' = ring /\ answered' = answered
        /\ tick \in Nat /\ tick' \in Nat
    BY <1>1, TicksNat DEF G!Tick
  <2> DEFINE m == tick \div Minute
             n == tick' \div Minute
  <2>2. m \in Nat /\ n \in Nat
    BY <2>1, WebAssumption, DivFacts
  <2>3. n <= Minutes - 1
    BY <2>1, WebAssumption, DivLess, MinutesNat
  <2>4. n = m \/ n = m + 1
    BY <2>1, WebAssumption, DivNext
  <2> HIDE DEF m, n
  <2>5. RingHeld(ring, answered, m)
    BY DEF m
  <2>6. CASE n = m
    BY <2>1, <2>5, <2>6 DEF n
  <2>7. CASE n = m + 1
    <3>1. m + 1 <= Minutes - 1
      BY <2>3, <2>7
    <3>2. RingHeld(ring, answered, m + 1)
      BY <2>2, <2>5, <3>1, RingTurns
    <3> QED
      BY <2>1, <2>7, <3>2 DEF n
  <2> QED
    BY <2>4, <2>6, <2>7
<1>2. ASSUME NEW s \in G!Slots, G!Serve(s)
      PROVE  RingHeld(ring', answered', tick' \div Minute)
  <2> DEFINE m == tick \div Minute
             i == m % Buckets
  <2>1. /\ tick' = tick /\ answered' = [answered EXCEPT ![m] = @ + 1]
        /\ ring' = IF ring.minutes[i] = m THEN [ring EXCEPT !.counts[i] = @ + 1]
                   ELSE [minutes |-> [ring.minutes EXCEPT ![i] = m],
                         counts |-> [ring.counts EXCEPT ![i] = 1]]
    BY <1>2 DEF G!Serve
  <2>2. m \in 0 .. Minutes - 1
    <3>1. tick \in Nat /\ tick <= Lifetime
      BY TicksNat
    <3>2. m \in Nat /\ m <= Lifetime \div Minute
      BY <3>1, WebAssumption, DivFacts, DivLess
    <3> HIDE DEF m
    <3> QED
      BY <3>2, MinutesNat
  <2>3. RingHeld(ring, answered, m)
    OBVIOUS
  <2>4. i = m % Buckets
    OBVIOUS
  <2>5. tick' \div Minute = m
    BY <2>1
  <2> HIDE DEF m, i
  <2>6. RingHeld(ring', [answered EXCEPT ![m] = @ + 1], m)
    BY <2>1, <2>2, <2>3, <2>4, RingRecords
  <2> QED
    BY <2>1, <2>5, <2>6
<1>3. CASE tick' = tick /\ ring' = ring /\ answered' = answered
  BY <1>3
<1>4. ASSUME NEW s \in G!Slots, NEW c \in G!Classes, NEW b \in BOOLEAN,
             G!Arrive(s, c, b) \/ G!Record(s) \/ G!Block(s) \/ G!Limit(s)
      PROVE  tick' = tick /\ ring' = ring /\ answered' = answered
  BY <1>4 DEF G!Arrive, G!Record, G!Block, G!Limit
<1>5. G!Release \/ G!RecordOther \/ G!LimitOther \/ UNCHANGED gatewayVars
        => tick' = tick /\ ring' = ring /\ answered' = answered
  BY DEF G!Release, G!RecordOther, G!LimitOther, gatewayVars
<1>6. G!Classes # {} /\ BOOLEAN # {}
  BY WindowFacts DEF Kinds2
<1> QED
  BY <1>1, <1>2, <1>3, <1>4, <1>5, <1>6 DEF G!Next

LEMMA CountsStep ==
  ASSUME CountsInv, [G!Next]_gatewayVars
  PROVE  CountsInv'
<1>1. /\ Classed /\ LimiterHeld(tick, windows, burst, admitted)
      /\ RingHeld(ring, answered, tick \div Minute) /\ tick \in 0 .. Lifetime
  BY DEF CountsInv, LimiterHeld
<1>2. Classed' /\ LimiterHeld(tick', windows', burst', admitted')
      /\ RingHeld(ring', answered', tick' \div Minute)
  BY <1>1, ClassesStay, LimiterStep, RingStep
<1> QED
  BY <1>2 DEF CountsInv

LEMMA WindowsBounded ==
  ASSUME LimiterHeld(tick, windows, burst, admitted)
  PROVE  G!WindowsKept
<1>1. /\ tick \in 0 .. Lifetime /\ admitted \in [Kinds2 -> Counters(Ticks)]
      /\ \A d \in Kinds2 : Bounded(admitted[d], G!Window(d), PerWindow)
      /\ Bounded(Both(admitted), Minute, Burst)
  BY DEF LimiterHeld, Held
<1>2. ASSUME NEW t \in Int, NEW c \in Kinds2
      PROVE  G!Admitted(c, t, t + G!Window(c)) <= 2 * PerWindow
  <2>1. G!Admitted(c, t, t + G!Window(c)) = Within(admitted[c], Ticks, t, t + G!Window(c))
    BY GatewaySums DEF G!Admitted, Ticks
  <2> QED
    BY <1>1, <2>1 DEF Bounded
<1>3. ASSUME NEW t \in Int
      PROVE  G!Admitted("read", t, t + Minute) + G!Admitted("write", t, t + Minute) <= 2 * Burst
  <2>1. /\ G!Admitted("read", t, t + Minute) = Within(admitted["read"], Ticks, t, t + Minute)
        /\ G!Admitted("write", t, t + Minute) = Within(admitted["write"], Ticks, t, t + Minute)
    BY GatewaySums DEF G!Admitted, Ticks
  <2>2. t + Minute \in Int
    BY WebAssumption
  <2>3. Within(Both(admitted), Ticks, t, t + Minute)
          = Within(admitted["read"], Ticks, t, t + Minute)
            + Within(admitted["write"], Ticks, t, t + Minute)
    BY <1>1, <2>2, BothFacts, TicksNat, WithinSums
  <2>4. Within(Both(admitted), Ticks, t, t + Minute) <= 2 * Burst
    BY <1>1 DEF Bounded
  <2> QED
    BY <2>1, <2>3, <2>4
<1>4. \A t \in 0 .. tick : t \in Int
  OBVIOUS
<1> QED
  BY <1>2, <1>3, <1>4, WindowFacts DEF G!WindowsKept

\* No more than two windows of requests pass the limiter in any span as long as a
\* window, whatever sweepLocked has dropped between them; and what Snapshot adds up
\* of the ring's buckets is what RecordRequest counted in the minutes the ring has.
THEOREM CountsAreKept == Spec => []CountsKept
<1> DEFINE Inv == part = "gateway" => CountsInv
<1>1. Init => Inv
  BY CountsInit DEF Init
<1>2. Inv /\ [Next]_vars => Inv'
  BY PartStep, CountsStep
<1>3. Inv => CountsKept
  <2> SUFFICES ASSUME CountsInv PROVE G!CountsKept
    BY DEF CountsKept
  <2>1. G!WindowsKept
    BY WindowsBounded DEF CountsInv
  <2>2. G!Last24h = G!Recent
    <3> DEFINE m == tick \div Minute
    <3>1. Lasting(ring, m) = Recorded(answered, m)
      BY DEF CountsInv, RingHeld
    <3>2. G!Last24h = Lasting(ring, m)
      BY GatewaySums DEF G!Last24h, G!Cutoff, Lasting, Counting
    <3>3. G!Recent = Recorded(answered, m)
      BY GatewaySums DEF G!Recent, G!Cutoff, Recorded, Minutes
    <3> QED
      BY <3>1, <3>2, <3>3
  <2> QED
    BY <2>1, <2>2 DEF G!CountsKept
<1> QED
  BY <1>1, <1>2, <1>3, PTL DEF Spec
=============================================================================
