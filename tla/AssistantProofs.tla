--------------------------- MODULE AssistantProofs ---------------------------
(***************************************************************************)
(* Proofs about the AI assistant, as MCServices instantiates it: what the  *)
(* user confirmed, what the provider is given, and what the screen shows.  *)
(*                                                                         *)
(* The invariants are those of Assistant: TypeOK, TidyInv (the results a   *)
(* conversation lacks are those its one request has still to store),       *)
(* PaidInv (a press of Confirm pays for one run) and ScreenInv.            *)
(***************************************************************************)
EXTENDS MCServices, FiniteSetTheorems, SequenceTheorems, WellFoundedInduction, TLAPS

-----------------------------------------------------------------------------
(* Sets of places, and rows of a list. *)

LEMMA ChatCardinality == \A S : Chat!Cardinality(S) = Cardinality(S)
  BY DEF Chat!Cardinality, Cardinality, Chat!IsFiniteSet, IsFiniteSet

LEMMA Least ==
    ASSUME NEW T \in SUBSET Nat, T # {}
    PROVE  \E x \in T : \A y \in T : x <= y
<1>1. PICK x \in T : \A y \in T : ~(<<y, x>> \in OpToRel(<, Nat))
  BY NatLessThanWellFounded, WFMin
<1>2. \A y \in T : ~(y < x)
  BY <1>1 DEF OpToRel
<1> QED
  BY <1>2

LEMMA UpToN ==
    ASSUME NEW L \in Nat
    PROVE  IsFiniteSet(1 .. L) /\ Cardinality(1 .. L) = L
  BY FS_Interval

LEMMA FromTo ==
    ASSUME NEW i \in Nat, NEW e \in Nat, e >= i
    PROVE  Cardinality(i + 1 .. e) = e - i
<1>1. i + 1 \in Int /\ e \in Int
  OBVIOUS
<1>2. Cardinality(i + 1 .. e) = IF i + 1 > e THEN 0 ELSE e - (i + 1) + 1
  BY <1>1, FS_Interval
<1> QED
  BY <1>2

LEMMA MinIsIn ==
    ASSUME NEW n \in Nat, NEW S \in SUBSET (1 .. n), S # {}
    PROVE  Chat!Min(S) \in S
<1>1. PICK x \in S : \A y \in S : x <= y
  BY Least
<1> QED
  BY <1>1 DEF Chat!Min

(* The n-th place of a set of places, and the rows there. *)
LEMMA NthIsIn ==
    ASSUME NEW L \in Nat, NEW S \in SUBSET (1 .. L)
    PROVE  /\ Cardinality(S) \in 0 .. L
           /\ \A n \in 1 .. Cardinality(S) : Chat!Nth(S, n) \in S
<1> DEFINE Upto(i) == {j \in S : j <= i}
           f(i) == Cardinality(Upto(i))
<1>9. \A j \in S : j \in Nat /\ 1 <= j /\ j <= L
  OBVIOUS
<1>1. IsFiniteSet(S) /\ Cardinality(S) \in 0 .. L
  <2>2. S \in SUBSET (1 .. L)
    OBVIOUS
  <2>1. IsFiniteSet(1 .. L) /\ Cardinality(1 .. L) = L
    BY FS_Interval
  <2>3. IsFiniteSet(S) /\ Cardinality(S) <= L
    BY <2>1, <2>2, FS_Subset
  <2>4. Cardinality(S) \in Nat
    BY <2>3, FS_CardinalityType
  <2> QED
    BY <2>3, <2>4
<1>2. \A i : IsFiniteSet(Upto(i)) /\ f(i) \in Nat
  <2> TAKE i
  <2>1. IsFiniteSet(Upto(i))
    BY <1>1, FS_Subset, Upto(i) \in SUBSET S
  <2> QED
    BY <2>1, FS_CardinalityType
<1>3. f(0) = 0
  <2>1. Upto(0) = {}
    <3>1. \A j \in S : ~(j <= 0)
      BY <1>9
    <3> QED
      BY <3>1
  <2> QED
    BY <2>1, FS_EmptySet
<1>4. f(L) = Cardinality(S)
  <2>1. Upto(L) = S
    BY <1>9
  <2> QED
    BY <2>1
<1>5. ASSUME NEW i \in Nat, i > 0
      PROVE  f(i) = IF i \in S THEN f(i - 1) + 1 ELSE f(i - 1)
  <2>1. CASE i \in S
    <3>1. Upto(i) = Upto(i - 1) \cup {i} /\ i \notin Upto(i - 1)
      <4>1. \A j \in S : j <= i <=> j <= i - 1 \/ j = i
        BY <1>9, <1>5
      <4>2. ~(i <= i - 1)
        BY <1>5
      <4> QED
        BY <4>1, <4>2, <2>1
    <3>2. Cardinality(Upto(i - 1) \cup {i}) = Cardinality(Upto(i - 1)) + 1
      <4>1. IsFiniteSet(Upto(i - 1))
        BY <1>2
      <4> HIDE DEF Upto
      <4> QED
        BY <3>1, <4>1, FS_AddElement
    <3> QED
      BY <2>1, <3>1, <3>2
  <2>2. CASE i \notin S
    <3>1. Upto(i) = Upto(i - 1)
      <4>1. \A j \in S : j <= i <=> j <= i - 1
        BY <1>9, <1>5, <2>2
      <4> QED
        BY <4>1
    <3> QED
      BY <2>2, <3>1
  <2> QED
    BY <2>1, <2>2
<1> HIDE DEF f, Upto
<1>6. ASSUME NEW n \in 1 .. Cardinality(S)
      PROVE  Chat!Nth(S, n) \in S
  <2> DEFINE T == {i \in Nat : f(i) >= n}
  <2>1. T \in SUBSET Nat /\ L \in T
    BY <1>1, <1>4
  <2>2. PICK i \in T : \A y \in T : i <= y
    BY <2>1, Least
  <2> i \in Nat /\ f(i) >= n /\ n \in Nat /\ n > 0
    BY <2>2
  <2>3. i # 0
    BY <1>3
  <2>4. i - 1 \in Nat /\ i > 0 /\ f(i - 1) \in Nat /\ f(i) \in Nat
    BY <2>3, <1>2
  <2>7. ~(f(i - 1) >= n)
    BY <2>2, <2>4
  <2>8. f(i) = IF i \in S THEN f(i - 1) + 1 ELSE f(i - 1)
    BY <2>4, <1>5
  <2>5. i \in S /\ f(i) = n
    BY <2>4, <2>7, <2>8
  <2>6. Chat!Cardinality({j \in S : j <= i}) = n
    BY <2>5, ChatCardinality DEF f, Upto
  <2> QED
    BY <2>5, <2>6 DEF Chat!Nth
<1> QED
  BY <1>1, <1>6

LEMMA ThoseRows ==
    ASSUME NEW R, NEW rows \in Seq(R), NEW S \in SUBSET DOMAIN rows
    PROVE  /\ Chat!Those(rows, S) \in Seq(R)
           /\ Len(Chat!Those(rows, S)) = Cardinality(S)
           /\ \A n \in 1 .. Cardinality(S) : Chat!Those(rows, S)[n] = rows[Chat!Nth(S, n)]
<1>1. Len(rows) \in Nat /\ DOMAIN rows = 1 .. Len(rows)
  OBVIOUS
<1>2. Cardinality(S) \in Nat /\ \A n \in 1 .. Cardinality(S) : Chat!Nth(S, n) \in S
  BY <1>1, NthIsIn
<1>3. Chat!Those(rows, S) = [n \in 1 .. Cardinality(S) |-> rows[Chat!Nth(S, n)]]
  BY ChatCardinality DEF Chat!Those
<1>4. \A n \in 1 .. Cardinality(S) : rows[Chat!Nth(S, n)] \in R
  BY <1>1, <1>2
<1>5. [n \in 1 .. Cardinality(S) |-> rows[Chat!Nth(S, n)]] \in [1 .. Cardinality(S) -> R]
  BY <1>4
<1> QED
  BY <1>2, <1>3, <1>5

(* All the places, and all but one of them. *)
LEMMA NthOfAll ==
    ASSUME NEW L \in Nat, NEW n \in 1 .. L
    PROVE  Chat!Nth(1 .. L, n) = n
<1>1. \A i \in 1 .. L : Cardinality({j \in 1 .. L : j <= i}) = i
  <2> TAKE i \in 1 .. L
  <2>1. {j \in 1 .. L : j <= i} = 1 .. i
    OBVIOUS
  <2>2. Cardinality(1 .. i) = i
    BY FS_Interval
  <2> QED
    BY <2>1, <2>2
<1>2. Chat!Nth(1 .. L, n) = CHOOSE i \in 1 .. L : Cardinality({j \in 1 .. L : j <= i}) = n
  BY ChatCardinality DEF Chat!Nth
<1> QED
  BY <1>1, <1>2

LEMMA NthButOne ==
    ASSUME NEW L \in Nat, NEW p \in 1 .. L, NEW n \in 1 .. L - 1
    PROVE  Chat!Nth((1 .. L) \ {p}, n) = IF n < p THEN n ELSE n + 1
<1> DEFINE S == (1 .. L) \ {p}
<1>1. \A i \in S : Cardinality({j \in S : j <= i}) = IF i < p THEN i ELSE i - 1
  <2> TAKE i \in S
  <2>1. IsFiniteSet(1 .. i) /\ Cardinality(1 .. i) = i
    BY FS_Interval
  <2>2. CASE i < p
    <3>1. {j \in S : j <= i} = 1 .. i
      BY <2>2
    <3> QED
      BY <2>1, <2>2, <3>1
  <2>3. CASE i > p
    <3>1. {j \in S : j <= i} = (1 .. i) \ {p} /\ p \in 1 .. i
      BY <2>3
    <3>2. Cardinality((1 .. i) \ {p}) = i - 1
      BY <2>1, <3>1, FS_RemoveElement
    <3>3. ~(i < p)
      BY <2>3
    <3> QED
      BY <3>1, <3>2, <3>3
  <2> QED
    BY <2>2, <2>3
<1>2. Chat!Nth(S, n) = CHOOSE i \in S : Cardinality({j \in S : j <= i}) = n
  BY ChatCardinality DEF Chat!Nth
<1>3. PICK k \in S : k = IF n < p THEN n ELSE n + 1
  OBVIOUS
<1>4. Cardinality({j \in S : j <= k}) = n
  BY <1>1, <1>3
<1>5. \A i \in S : Cardinality({j \in S : j <= i}) = n => i = k
  BY <1>1, <1>3
<1> QED
  BY <1>2, <1>3, <1>4, <1>5

-----------------------------------------------------------------------------
(* Types. *)

LEMMA ChatConstants ==
    /\ Private \subseteq Conversations /\ "none" \notin Conversations
    /\ FewToolLists \subseteq Seq({"safe", "mutate"}) \ {<<>>}
    /\ MaxIterations \in Nat \ {0} /\ MaxRequests \in Nat /\ MaxCalls \in Nat /\ MaxSelects \in Nat
  BY ServicesAssumption DEF Chat!AssistantAssumption, Chat!None

LEMMA MoreRows ==
    ASSUME NEW n \in Nat, NEW m \in Nat, n <= m
    PROVE  /\ SUBSET (1 .. n) \subseteq SUBSET (1 .. m)
           /\ Chat!Row(n) \subseteq Chat!Row(m)
           /\ Seq(Chat!Row(n)) \subseteq Seq(Chat!Row(m))
           /\ Chat!Job(n) \subseteq Chat!Job(m)
<1>1. 1 .. n \subseteq 1 .. m /\ 0 .. n \subseteq 0 .. m
  OBVIOUS
<1>2. SUBSET (1 .. n) \subseteq SUBSET (1 .. m)
  BY <1>1
<1>3. Chat!Row(n) \subseteq Chat!Row(m)
  BY <1>1, <1>2 DEF Chat!Row
<1>4. Seq(Chat!Row(n)) \subseteq Seq(Chat!Row(m))
  <2> SUFFICES ASSUME NEW s \in Seq(Chat!Row(n)) PROVE s \in Seq(Chat!Row(m))
    OBVIOUS
  <2>1. s \in [1 .. Len(s) -> Chat!Row(n)] /\ Len(s) \in Nat
    OBVIOUS
  <2>2. s \in [1 .. Len(s) -> Chat!Row(m)]
    BY <2>1, <1>3
  <2> QED
    BY <2>1, <2>2
<1>5. Chat!Job(n) \subseteq Chat!Job(m)
  BY <1>2, <1>4 DEF Chat!Job
<1> QED
  BY <1>2, <1>3, <1>4, <1>5

LEMMA RowsThereAre ==
    ASSUME NEW n \in Nat
    PROVE  /\ Chat!User \in Chat!Row(n) /\ Chat!Text \in Chat!Row(n)
           /\ \A calls \in SUBSET (1 .. n) : Chat!Asks(calls) \in Chat!Row(n)
           /\ \A id \in 1 .. n : Chat!Result(id) \in Chat!Row(n) /\ Chat!Placeholder(id) \in Chat!Row(n)
  BY DEF Chat!Row, Chat!User, Chat!Text, Chat!Asks, Chat!Result, Chat!Placeholder

LEMMA JobFields ==
    ASSUME NEW n, NEW j \in Chat!Job(n)
    PROVE  /\ j.of \in Conversations \cup {Chat!None} /\ j.kind \in {"send", "confirm", "delete"}
           /\ j.history \in Seq(Chat!Row(n))
           /\ j.todo \in SUBSET (1 .. n) /\ j.wait \in SUBSET (1 .. n) /\ j.calls \in SUBSET (1 .. n)
           /\ j.iteration \in Nat
           /\ \A k \in Conversations \cup {Chat!None} : [j EXCEPT !.of = k] \in Chat!Job(n)
           /\ \A k \in {"send", "confirm", "delete"} : [j EXCEPT !.kind = k] \in Chat!Job(n)
           /\ \A h \in Seq(Chat!Row(n)) : [j EXCEPT !.history = h] \in Chat!Job(n)
           /\ \A t \in SUBSET (1 .. n) : [j EXCEPT !.todo = t] \in Chat!Job(n)
  BY DEF Chat!Job

LEMMA IdleIsJob == \A n \in Nat : Chat!IdleJob \in Chat!Job(n)
  BY DEF Chat!IdleJob, Chat!Job

(* What the locals of a request become, and what it stores. *)
LEMMA Going ==
    ASSUME Chat!TypeOK, NEW n \in Nat, Len(kind) <= n,
           NEW r \in Chat!Requests, NEW at \in Chat!Steps, NEW locals \in Chat!Job(n),
           locals.of \in Conversations \/ at \in {"new", "done"},
           pc' = [pc EXCEPT ![r] = at], job' = [job EXCEPT ![r] = locals]
    PROVE  /\ pc' \in [Chat!Requests -> Chat!Steps] /\ job' \in [Chat!Requests -> Chat!Job(n)]
           /\ \A q \in Chat!InFlight' : job'[q].of \in Conversations
<1>1. Len(kind) \in Nat /\ pc \in [Chat!Requests -> Chat!Steps] /\ job \in [Chat!Requests -> Chat!Job(Len(kind))]
  BY DEF Chat!TypeOK
<1>2. job \in [Chat!Requests -> Chat!Job(n)]
  BY <1>1, MoreRows
<1>3. \A q \in Chat!InFlight' : q = r \/ q \in Chat!InFlight
  BY <1>1 DEF Chat!InFlight
<1>4. r \in Chat!InFlight' => at \notin {"new", "done"}
  BY <1>1 DEF Chat!InFlight
<1> QED
  BY <1>1, <1>2, <1>3, <1>4 DEF Chat!TypeOK

(* The data of the server keeps its type, whatever a request does. *)
ServerType(n) ==
    /\ exists \subseteq Conversations /\ kind \in Seq({"safe", "mutate"}) /\ Len(kind) = n /\ n <= MaxCalls
    /\ messages \in [Conversations -> Seq(Chat!Row(n))]
    /\ runs \in [Chat!CallIds -> Nat]

LEMMA TypeParts ==
    ASSUME Chat!TypeOK
    PROVE  /\ ServerType(Len(kind)) /\ Len(kind) \in Nat /\ tidy \subseteq exists
           /\ presses \in [Chat!CallIds -> Nat]
           /\ pc \in [Chat!Requests -> Chat!Steps] /\ job \in [Chat!Requests -> Chat!Job(Len(kind))]
           /\ card \in [of : Conversations \cup {Chat!None}, calls : SUBSET (1 .. Len(kind))]
           /\ \A r \in Chat!Requests : pc[r] \notin {"new", "done"} => job[r].of \in Conversations
  BY DEF Chat!TypeOK, Chat!InFlight, ServerType

LEMMA AskedKeepsTypes ==
    ASSUME Chat!TypeOK, NEW n \in Nat, Len(kind) <= n
    PROVE  /\ messages \in [Conversations -> Seq(Chat!Row(n))]
           /\ card \in [of : Conversations \cup {Chat!None}, calls : SUBSET (1 .. n)]
           /\ \A r \in Chat!Requests : job[r] \in Chat!Job(n)
<1>1. /\ Len(kind) \in Nat /\ messages \in [Conversations -> Seq(Chat!Row(Len(kind)))]
      /\ card \in [of : Conversations \cup {Chat!None}, calls : SUBSET (1 .. Len(kind))]
      /\ job \in [Chat!Requests -> Chat!Job(Len(kind))]
  BY DEF Chat!TypeOK
<1>2. /\ SUBSET (1 .. Len(kind)) \subseteq SUBSET (1 .. n)
      /\ Seq(Chat!Row(Len(kind))) \subseteq Seq(Chat!Row(n))
      /\ Chat!Job(Len(kind)) \subseteq Chat!Job(n)
  BY <1>1, MoreRows
<1> QED
  BY <1>1, <1>2

LEMMA GotoKeepsType ==
    ASSUME Chat!TypeOK, NEW n \in Nat, Len(kind) <= n, ServerType(n)', exists' = exists,
           NEW r \in Chat!Requests, NEW at \in Chat!Steps, NEW locals \in Chat!Job(n),
           locals.of \in Conversations,
           Chat!Goto(r, at, locals)
    PROVE  Chat!TypeOK'
<1>1. Len(kind') = n /\ ServerType(n)'
  BY DEF ServerType
<1>2. /\ pc' = [pc EXCEPT ![r] = at] /\ job' = [job EXCEPT ![r] = locals]
      /\ UNCHANGED <<presses, Chat!screen, tidy, crossed>>
  BY DEF Chat!Goto
<1>3. /\ pc' \in [Chat!Requests -> Chat!Steps] /\ job' \in [Chat!Requests -> Chat!Job(n)]
      /\ \A q \in Chat!InFlight' : job'[q].of \in Conversations
  BY <1>2, Going
<1>4. card' \in [of : Conversations \cup {Chat!None}, calls : SUBSET (1 .. n)]
  BY <1>2, AskedKeepsTypes DEF Chat!screen
<1> QED
  BY <1>1, <1>2, <1>3, <1>4 DEF Chat!TypeOK, ServerType, Chat!screen

LEMMA FailedIsJob ==
    ASSUME Chat!TypeOK, NEW n \in Nat, Len(kind) <= n, NEW r \in Chat!Requests
    PROVE  /\ Chat!Failed(r) \in Chat!Job(n) /\ Chat!Failed(r).of = job[r].of
           /\ Chat!Answered(r) \in Chat!Job(n) /\ Chat!Answered(r).of = job[r].of
           /\ Chat!Answered(r).kind = job[r].kind
<1>1. job[r] \in Chat!Job(n) /\ job[r].of \in Conversations \cup {Chat!None} /\ job[r].kind \in {"send", "confirm", "delete"}
  BY AskedKeepsTypes, JobFields
<1>2. Chat!Failed(r) \in Chat!Job(n)
  BY <1>1, IdleIsJob, JobFields DEF Chat!Failed
<1>3. Chat!Answered(r) \in Chat!Job(n)
  BY <1>1, <1>2, JobFields DEF Chat!Answered
<1>4. Chat!Failed(r).of = job[r].of
  BY DEF Chat!Failed, Chat!IdleJob
<1>5. Chat!Answered(r).of = job[r].of /\ Chat!Answered(r).kind = job[r].kind
  BY <1>2, <1>4 DEF Chat!Answered, Chat!Job
<1> QED
  BY <1>2, <1>3, <1>4, <1>5

LEMMA HistoryRows ==
    ASSUME NEW n, NEW rows \in Seq(Chat!Row(n))
    PROVE  Chat!History(rows) \in Seq(Chat!Row(n)) /\ Chat!LastUser(rows) \in Seq(Chat!Row(n))
<1>1. Chat!History(rows) \in Seq(Chat!Row(n))
  BY ThoseRows DEF Chat!History
<1>2. Chat!LastUser(rows) \in Seq(Chat!Row(n))
  <2> DEFINE users == {i \in DOMAIN rows : rows[i].role = "user"}
  <2>1. CASE users = {}
    BY <2>1 DEF Chat!LastUser
  <2>2. CASE users # {}
    <3>0. users \in SUBSET Nat /\ Len(rows) \in Nat /\ \A i \in users : i \in 1 .. Len(rows)
      OBVIOUS
    <3>1. PICK d \in {Len(rows) - i : i \in users} : \A e \in {Len(rows) - i : i \in users} : d <= e
      <4>1. {Len(rows) - i : i \in users} \in SUBSET Nat /\ {Len(rows) - i : i \in users} # {}
        BY <2>2, <3>0
      <4> QED
        BY <4>1, Least
    <3>2. PICK i \in users : d = Len(rows) - i
      BY <3>1
    <3>3. \A j \in users : j <= i
      <4>1. TAKE j \in users
      <4>2. d <= Len(rows) - j
        BY <3>1
      <4> QED
        BY <4>2, <3>0, <3>2
    <3>4. (CHOOSE k \in users : \A j \in users : j <= k) \in users
      BY <3>3
    <3>5. rows[CHOOSE k \in users : \A j \in users : j <= k] \in Chat!Row(n)
      BY <3>4
    <3> QED
      BY <2>2, <3>5 DEF Chat!LastUser
  <2> QED
    BY <2>1, <2>2
<1> QED
  BY <1>1, <1>2

LEMMA StoreKeepsType ==
    ASSUME Chat!TypeOK, NEW n \in Nat, Len(kind) <= n,
           NEW r \in Chat!Requests, pc[r] \notin {"new", "done"}, NEW m \in Chat!Row(n), Chat!Store(r, m)
    PROVE  messages' \in [Conversations -> Seq(Chat!Row(n))]
<1>1. messages \in [Conversations -> Seq(Chat!Row(n))]
  BY AskedKeepsTypes
<1>2. messages[job[r].of] \in Seq(Chat!Row(n))
  BY <1>1, TypeParts
<1>3. Append(messages[job[r].of], m) \in Seq(Chat!Row(n))
  BY <1>2
<1>4. messages' = [messages EXCEPT ![job[r].of] = Append(messages[job[r].of], m)]
  BY DEF Chat!Store
<1> QED
  BY <1>1, <1>3, <1>4

LEMMA StepKeepsType ==
    ASSUME Chat!TypeOK, NEW r \in Chat!Requests, Chat!Step(r)
    PROVE  Chat!TypeOK'
<1> PICK n \in Nat : n = Len(kind)
  BY TypeParts
<1> DEFINE k == job[r].of
<1>1. n \in Nat /\ ServerType(n) /\ job[r] \in Chat!Job(n) /\ pc[r] \in Chat!Steps
  BY TypeParts
<1>2. pc[r] \notin {"new", "done"} /\ k \in Conversations
  <2>1. pc[r] \notin {"new", "done"}
    BY DEF Chat!Step, Chat!Receive, Chat!ReadPrior, Chat!Answers, Chat!AsksForTools, Chat!RunTool,
           Chat!NextIteration, Chat!Hold, Chat!DropPlaceholder, Chat!Apply, Chat!Applied
  <2> QED
    BY <2>1, TypeParts
<1>3. /\ Chat!Failed(r) \in Chat!Job(n) /\ Chat!Failed(r).of \in Conversations
      /\ Chat!Answered(r) \in Chat!Job(n) /\ Chat!Answered(r).of \in Conversations
  BY <1>1, <1>2, FailedIsJob
<1>4. /\ messages[k] \in Seq(Chat!Row(n)) /\ messages \in [Conversations -> Seq(Chat!Row(n))]
      /\ job[r].todo \in SUBSET (1 .. n) /\ job[r].wait \in SUBSET (1 .. n) /\ job[r].calls \in SUBSET (1 .. n)
      /\ job[r].history \in Seq(Chat!Row(n)) /\ job[r].iteration \in Nat
  BY <1>1, <1>2, JobFields DEF ServerType
<1>5. 1 .. n \subseteq Chat!CallIds
  <2>1. n <= MaxCalls
    BY <1>1 DEF ServerType
  <2> QED
    BY <2>1, ChatConstants DEF Chat!CallIds
<1>6. ASSUME NEW at \in Chat!Steps, NEW locals \in Chat!Job(n), locals.of \in Conversations,
             exists' = exists, kind' = kind,
             messages' \in [Conversations -> Seq(Chat!Row(n))], runs' \in [Chat!CallIds -> Nat],
             Chat!Goto(r, at, locals)
      PROVE  Chat!TypeOK'
  <2>1. ServerType(n)'
    BY <1>1, <1>6 DEF ServerType
  <2>2. Len(kind) <= n
    OBVIOUS
  <2> QED
    BY <1>1, <1>6, <2>1, <2>2, GotoKeepsType
<1>7. messages' = messages => messages' \in [Conversations -> Seq(Chat!Row(n))]
  BY <1>4
<1>8. runs' = runs => runs' \in [Chat!CallIds -> Nat]
  BY <1>1 DEF ServerType
<1>9. ASSUME NEW m \in Chat!Row(n), Chat!Store(r, m)
      PROVE  messages' \in [Conversations -> Seq(Chat!Row(n))]
  <2>1. Len(kind) <= n
    OBVIOUS
  <2> QED
    BY <1>1, <1>2, <1>9, <2>1, StoreKeepsType
<1>10. {"read", "chat", "answered", "error", "tools", "confirm", "apply", "unhold"} \subseteq Chat!Steps
  BY DEF Chat!Steps
<1>11. CASE Chat!Receive(r)
  <2>1. Chat!Goto(r, "read", job[r]) \/ Chat!Goto(r, "error", Chat!Failed(r))
    BY <1>11 DEF Chat!Receive
  <2>2. messages' \in [Conversations -> Seq(Chat!Row(n))]
    BY <1>1, <1>7, <1>9, <1>11, RowsThereAre DEF Chat!Receive
  <2> QED
    BY <2>1, <2>2, <1>1, <1>2, <1>3, <1>6, <1>8, <1>10, <1>11 DEF Chat!Receive
<1>12. CASE Chat!ReadPrior(r)
  <2>1. Chat!Prior(k) \in Seq(Chat!Row(n))
    BY <1>4, HistoryRows DEF Chat!Prior
  <2> DEFINE l == [job[r] EXCEPT !.history = Chat!Prior(k)]
  <2>2. l \in Chat!Job(n) /\ l.of = k
    BY <1>1, <2>1, JobFields DEF Chat!Job
  <2>3. Chat!Goto(r, "chat", l) /\ UNCHANGED Chat!server
    BY <1>12 DEF Chat!ReadPrior
  <2> QED
    BY <2>2, <2>3, <1>2, <1>6, <1>7, <1>8, <1>10 DEF Chat!server
<1>13. CASE Chat!Answers(r)
  <2>1. Chat!Goto(r, "answered", Chat!Answered(r)) \/ Chat!Goto(r, "error", Chat!Failed(r))
    BY <1>13 DEF Chat!Answers
  <2>2. messages' \in [Conversations -> Seq(Chat!Row(n))]
    BY <1>1, <1>7, <1>9, <1>13, RowsThereAre DEF Chat!Answers
  <2> QED
    BY <2>1, <2>2, <1>3, <1>6, <1>8, <1>10, <1>13 DEF Chat!Answers
<1>14. CASE Chat!AsksForTools(r)
  <2>1. PICK list \in FewToolLists :
           LET id(i) == Len(kind) + i
               calls == {id(i) : i \in DOMAIN list}
               waiting == {id(i) : i \in {j \in DOMAIN list : Chat!Waits(list, j)}}
           IN  /\ id(Len(list)) <= MaxCalls /\ kind' = kind \o list
               /\ Chat!Store(r, Chat!Asks(calls))
               /\ Chat!Goto(r, "tools", [job[r] EXCEPT
                     !.history = Append(@, Chat!Asks(calls)), !.wait = waiting, !.todo = calls \ waiting])
    BY <1>14 DEF Chat!AsksForTools
  <2> DEFINE m == n + Len(list)
             calls == {n + i : i \in DOMAIN list}
             waiting == {n + i : i \in {j \in DOMAIN list : Chat!Waits(list, j)}}
             asks == Chat!Asks(calls)
             l == [job[r] EXCEPT !.history = Append(job[r].history, asks), !.wait = waiting, !.todo = calls \ waiting]
  <2>0. /\ {Len(kind) + i : i \in DOMAIN list} = calls
        /\ {Len(kind) + i : i \in {j \in DOMAIN list : Chat!Waits(list, j)}} = waiting
    OBVIOUS
  <2>2. list \in Seq({"safe", "mutate"}) /\ Len(list) \in Nat /\ DOMAIN list = 1 .. Len(list)
    BY ChatConstants
  <2>3. m \in Nat /\ n <= m /\ m <= MaxCalls
    BY <1>1, <2>1, <2>2
  <2>4. calls \in SUBSET (1 .. m) /\ waiting \in SUBSET (1 .. m) /\ calls \ waiting \in SUBSET (1 .. m)
    BY <1>1, <2>2
  <2>5. asks \in Chat!Row(m)
    BY <2>3, <2>4, RowsThereAre
  <2>6. Chat!Goto(r, "tools", l) /\ Chat!Store(r, asks) /\ kind' = kind \o list
    <3> HIDE DEF calls, waiting
    <3> QED
      BY <2>1, <2>0
  <2> HIDE DEF asks, calls, waiting, m
  <2>7. Len(kind) <= m /\ job[r] \in Chat!Job(m)
    <3>1. Len(kind) <= m
      BY <2>3
    <3> QED
      BY <2>3, <3>1, AskedKeepsTypes
  <2>8. l \in Chat!Job(m) /\ l.of = k
    <3>1. job[r].history \in Seq(Chat!Row(m))
      BY <2>7, JobFields
    <3>2. Append(job[r].history, asks) \in Seq(Chat!Row(m))
      BY <2>5, <3>1
    <3> QED
      BY <2>4, <2>7, <3>2 DEF Chat!Job
  <2> HIDE DEF l
  <2>9. ServerType(m)'
    <3>1. messages' \in [Conversations -> Seq(Chat!Row(m))]
      BY <1>2, <2>3, <2>5, <2>6, <2>7, StoreKeepsType
    <3>2. kind' \in Seq({"safe", "mutate"}) /\ Len(kind') = m
      BY <1>1, <2>2, <2>6 DEF ServerType, m
    <3>3. exists' = exists /\ runs' = runs
      BY <1>14 DEF Chat!AsksForTools
    <3> QED
      BY <1>1, <2>3, <3>1, <3>2, <3>3 DEF ServerType
  <2>10. exists' = exists
    BY <1>14 DEF Chat!AsksForTools
  <2> QED
    BY <1>2, <1>10, <2>3, <2>6, <2>7, <2>8, <2>9, <2>10, GotoKeepsType
<1>15. CASE Chat!RunTool(r)
  <2> DEFINE id == Chat!Min(job[r].todo)
             l == [job[r] EXCEPT !.todo = @ \ {id}, !.history = Append(@, Chat!Result(id))]
  <2>1. /\ runs' = [runs EXCEPT ![id] = @ + 1] /\ Chat!Store(r, Chat!Result(id)) /\ Chat!Goto(r, "tools", l)
        /\ exists' = exists /\ kind' = kind /\ job[r].todo # {}
    BY <1>15 DEF Chat!RunTool
  <2>2. id \in 1 .. n
    BY <2>1, <1>1, <1>4, MinIsIn
  <2>3. Chat!Result(id) \in Chat!Row(n)
    BY <1>1, <2>2, RowsThereAre
  <2> HIDE DEF id
  <2>4. l \in Chat!Job(n) /\ l.of = k
    <3>1. Append(job[r].history, Chat!Result(id)) \in Seq(Chat!Row(n)) /\ job[r].todo \ {id} \in SUBSET (1 .. n)
      BY <1>4, <2>3
    <3> QED
      BY <1>1, <3>1 DEF Chat!Job
  <2>5. runs' \in [Chat!CallIds -> Nat]
    BY <1>1, <1>5, <2>1, <2>2 DEF ServerType
  <2> HIDE DEF l
  <2> QED
    BY <1>2, <1>6, <1>9, <1>10, <2>1, <2>3, <2>4, <2>5
<1>16. CASE Chat!NextIteration(r)
  <2> DEFINE l == [job[r] EXCEPT !.iteration = @ + 1]
  <2>1. (Chat!Goto(r, "error", Chat!Failed(r)) \/ Chat!Goto(r, "chat", l)) /\ UNCHANGED Chat!server
    BY <1>16 DEF Chat!NextIteration
  <2>2. l \in Chat!Job(n) /\ l.of = k
    <3>1. job[r].iteration + 1 \in Nat
      BY <1>4
    <3> QED
      BY <1>1, <3>1 DEF Chat!Job
  <2> HIDE DEF l
  <2> QED
    BY <1>2, <1>3, <1>6, <1>7, <1>8, <1>10, <2>1, <2>2 DEF Chat!server
<1>17. CASE Chat!Hold(r)
  <2> DEFINE id == Chat!Min(job[r].wait)
             rest == job[r].wait \ {id}
             l == [job[r] EXCEPT !.wait = rest, !.calls = @ \cup {id}, !.history = <<>>]
             at == IF rest = {} THEN "confirm" ELSE "tools"
  <2>1. /\ Chat!Store(r, Chat!Placeholder(id)) /\ Chat!Goto(r, at, l)
        /\ exists' = exists /\ kind' = kind /\ runs' = runs /\ job[r].wait # {}
    BY <1>17 DEF Chat!Hold, Chat!Held, Chat!Store
  <2>2. id \in 1 .. n
    BY <2>1, <1>1, <1>4, MinIsIn
  <2>3. Chat!Placeholder(id) \in Chat!Row(n)
    BY <1>1, <2>2, RowsThereAre
  <2> HIDE DEF id
  <2>4. l \in Chat!Job(n) /\ l.of = k
    <3>1. rest \in SUBSET (1 .. n) /\ job[r].calls \cup {id} \in SUBSET (1 .. n) /\ <<>> \in Seq(Chat!Row(n))
      BY <1>4, <2>2
    <3> QED
      BY <1>1, <3>1 DEF Chat!Job
  <2>5. at \in Chat!Steps
    BY <1>10
  <2> HIDE DEF l, at
  <2> QED
    BY <1>2, <1>6, <1>8, <1>9, <2>1, <2>3, <2>4, <2>5
<1>18. CASE Chat!DropPlaceholder(r)
  <2> DEFINE id == Chat!Min(job[r].todo)
             l == [job[r] EXCEPT !.todo = @ \ {id}]
             all == [job[r] EXCEPT !.todo = job[r].calls]
  <2>1. /\ \/ Chat!Goto(r, "error", Chat!Failed(r)) /\ messages' = messages
           \/ Chat!Goto(r, "apply", all) /\ messages' = messages
           \/ /\ Chat!Goto(r, "unhold", l)
              /\ messages' = [messages EXCEPT ![k] =
                    Chat!Those(@, {i \in DOMAIN @ : @[i].role # "tool" \/ @[i].id # id})]
        /\ exists' = exists /\ kind' = kind /\ runs' = runs
    BY <1>18 DEF Chat!DropPlaceholder
  <2>2. l \in Chat!Job(n) /\ l.of = k /\ all \in Chat!Job(n) /\ all.of = k
    <3>1. job[r].todo \ {id} \in SUBSET (1 .. n)
      BY <1>4
    <3> QED
      BY <1>1, <1>4, <3>1 DEF Chat!Job
  <2> HIDE DEF l, all
  <2>3. messages' \in [Conversations -> Seq(Chat!Row(n))]
    <3>1. Chat!Those(messages[k], {i \in DOMAIN messages[k] : messages[k][i].role # "tool" \/ messages[k][i].id # id})
             \in Seq(Chat!Row(n))
      BY <1>4, ThoseRows
    <3> QED
      BY <1>4, <2>1, <3>1
  <2> QED
    BY <1>2, <1>3, <1>6, <1>8, <1>10, <2>1, <2>2, <2>3
<1>19. CASE Chat!Apply(r)
  <2> DEFINE id == Chat!Min(job[r].todo)
             l == [job[r] EXCEPT !.todo = @ \ {id}]
  <2>1. /\ runs' = [runs EXCEPT ![id] = @ + 1] \/ runs' = runs
        /\ Chat!Store(r, Chat!Result(id)) /\ Chat!Goto(r, "apply", l)
        /\ exists' = exists /\ kind' = kind /\ job[r].todo # {}
    BY <1>19 DEF Chat!Apply
  <2>2. id \in 1 .. n
    BY <2>1, <1>1, <1>4, MinIsIn
  <2>3. Chat!Result(id) \in Chat!Row(n)
    BY <1>1, <2>2, RowsThereAre
  <2> HIDE DEF id
  <2>4. l \in Chat!Job(n) /\ l.of = k
    <3>1. job[r].todo \ {id} \in SUBSET (1 .. n)
      BY <1>4
    <3> QED
      BY <1>1, <3>1 DEF Chat!Job
  <2>5. runs' \in [Chat!CallIds -> Nat]
    BY <1>1, <1>5, <2>1, <2>2 DEF ServerType
  <2> HIDE DEF l
  <2> QED
    BY <1>2, <1>6, <1>9, <1>10, <2>1, <2>3, <2>4, <2>5
<1>20. CASE Chat!Applied(r)
  <2> DEFINE l == [job[r] EXCEPT !.history = Chat!History(messages[k])]
  <2>1. Chat!History(messages[k]) \in Seq(Chat!Row(n))
    BY <1>4, HistoryRows
  <2>2. l \in Chat!Job(n) /\ l.of = k
    BY <1>1, <2>1, JobFields DEF Chat!Job
  <2>3. Chat!Goto(r, "chat", l) /\ UNCHANGED Chat!server
    BY <1>20 DEF Chat!Applied
  <2> QED
    BY <2>2, <2>3, <1>2, <1>6, <1>7, <1>8, <1>10 DEF Chat!server
<1> QED
  BY <1>11, <1>12, <1>13, <1>14, <1>15, <1>16, <1>17, <1>18, <1>19, <1>20 DEF Chat!Step

LEMMA ClickKeepsType ==
    ASSUME Chat!TypeOK, NEW at \in Chat!Steps, NEW locals \in Chat!Job(Len(kind)), locals.of \in Conversations,
           Chat!Click(at, locals), tidy' \subseteq tidy, presses' \in [Chat!CallIds -> Nat]
    PROVE  Chat!TypeOK'
<1>1. PICK r \in Chat!Requests : pc' = [pc EXCEPT ![r] = at] /\ job' = [job EXCEPT ![r] = locals]
  BY DEF Chat!Click
<1>2. UNCHANGED <<Chat!server, Chat!screen, crossed>>
  BY DEF Chat!Click
<1>3. PICK n \in Nat : n = Len(kind) /\ Len(kind) <= n
  BY TypeParts
<1>4. /\ pc' \in [Chat!Requests -> Chat!Steps] /\ job' \in [Chat!Requests -> Chat!Job(n)]
      /\ \A q \in Chat!InFlight' : job'[q].of \in Conversations
  BY <1>1, <1>3, Going
<1> QED
  BY <1>2, <1>3, <1>4 DEF Chat!TypeOK, Chat!server, Chat!screen

LEMMA ClicksKeepType ==
    ASSUME Chat!TypeOK, Chat!Send \/ Chat!Confirm \/ Chat!Delete
    PROVE  Chat!TypeOK'
<1>1. /\ selected \in Conversations \cup {Chat!None} /\ exists \subseteq Conversations
      /\ card.calls \in SUBSET (1 .. Len(kind))
      /\ Chat!IdleJob \in Chat!Job(Len(kind)) /\ presses \in [Chat!CallIds -> Nat]
  BY IdleIsJob, TypeParts DEF Chat!TypeOK
<1>2. {"receive", "unhold", "deleteMessages"} \subseteq Chat!Steps
  BY DEF Chat!Steps
<1>3. CASE Chat!Send
  <2> DEFINE l == [Chat!IdleJob EXCEPT !.of = selected]
  <2>1. /\ selected \in Conversations /\ Chat!Click("receive", l)
        /\ tidy' \subseteq tidy /\ presses' = presses
    BY <1>1, <1>3 DEF Chat!Send
  <2>2. l \in Chat!Job(Len(kind)) /\ l.of = selected
    BY <1>1, <2>1, JobFields DEF Chat!IdleJob
  <2> QED
    BY <1>1, <1>2, <2>1, <2>2, ClickKeepsType
<1>4. CASE Chat!Confirm
  <2> DEFINE l == [Chat!IdleJob EXCEPT !.of = selected, !.kind = "confirm", !.calls = card.calls, !.todo = card.calls]
  <2>1. /\ selected \in Conversations /\ Chat!Click("unhold", l) /\ tidy' \subseteq tidy
        /\ presses' = [i \in Chat!CallIds |-> IF i \in card.calls THEN presses[i] + 1 ELSE presses[i]]
    BY <1>1, <1>4 DEF Chat!Confirm
  <2>2. l \in Chat!Job(Len(kind)) /\ l.of = selected
    BY <1>1, <2>1 DEF Chat!Job
  <2>3. presses' \in [Chat!CallIds -> Nat]
    BY <1>1, <2>1
  <2> HIDE DEF l
  <2> QED
    BY <1>2, <2>1, <2>2, <2>3, ClickKeepsType
<1>5. CASE Chat!Delete
  <2>1. PICK k \in exists : Chat!Click("deleteMessages", [Chat!IdleJob EXCEPT !.of = k, !.kind = "delete"]) /\ tidy' = tidy \ {k}
    BY <1>5 DEF Chat!Delete
  <2> DEFINE l == [Chat!IdleJob EXCEPT !.of = k, !.kind = "delete"]
  <2>2. l \in Chat!Job(Len(kind)) /\ l.of = k /\ k \in Conversations
    BY <1>1 DEF Chat!Job
  <2>3. presses' = presses
    BY <1>5 DEF Chat!Delete
  <2> HIDE DEF l
  <2>4. Chat!Click("deleteMessages", l) /\ tidy' \subseteq tidy
    BY <2>1 DEF l
  <2> QED
    BY <1>1, <1>2, <2>2, <2>3, <2>4, ClickKeepsType
<1> QED
  BY <1>3, <1>4, <1>5

LEMMA DeletesKeepType ==
    ASSUME Chat!TypeOK, NEW r \in Chat!Requests,
           Chat!DeleteMessages(r) \/ Chat!DeleteRow(r) \/ Chat!Fail(r)
    PROVE  pc[r] \notin {"new", "done"} /\ (pc[r] = "deleteRow" => job[r].of \notin tidy) => Chat!TypeOK'
<1> SUFFICES ASSUME pc[r] \notin {"new", "done"}, pc[r] = "deleteRow" => job[r].of \notin tidy
             PROVE  Chat!TypeOK'
  OBVIOUS
<1> PICK n \in Nat : n = Len(kind) /\ Len(kind) <= n
  BY TypeParts
<1>1. /\ job[r].of \in Conversations /\ ServerType(n) /\ job[r] \in Chat!Job(n)
      /\ Chat!Failed(r) \in Chat!Job(n) /\ Chat!Failed(r).of = job[r].of
      /\ Chat!Answered(r) \in Chat!Job(n) /\ Chat!Answered(r).of = job[r].of
  BY TypeParts, FailedIsJob
<1>2. {"deleteRow", "deleted", "error"} \subseteq Chat!Steps
  BY DEF Chat!Steps
<1>3. CASE Chat!DeleteMessages(r)
  <2>1. messages' \in [Conversations -> Seq(Chat!Row(n))]
    <3>1. <<>> \in Seq(Chat!Row(n)) /\ messages' = [messages EXCEPT ![job[r].of] = <<>>]
      BY <1>3 DEF Chat!DeleteMessages
    <3> QED
      BY <3>1, <1>1 DEF ServerType
  <2>2. ServerType(n)' /\ exists' = exists
    BY <2>1, <1>1, <1>3 DEF Chat!DeleteMessages, ServerType
  <2> QED
    BY <2>2, <1>1, <1>2, <1>3, GotoKeepsType DEF Chat!DeleteMessages
<1>4. CASE Chat!DeleteRow(r)
  <2>1. /\ exists' = exists \ {job[r].of} /\ UNCHANGED <<messages, kind, runs>>
        /\ pc' = [pc EXCEPT ![r] = "deleted"] /\ job' = [job EXCEPT ![r] = Chat!Answered(r)]
        /\ UNCHANGED <<presses, Chat!screen, tidy, crossed>> /\ pc[r] = "deleteRow"
    BY <1>4 DEF Chat!DeleteRow, Chat!Goto
  <2>2. /\ pc' \in [Chat!Requests -> Chat!Steps] /\ job' \in [Chat!Requests -> Chat!Job(n)]
        /\ \A q \in Chat!InFlight' : job'[q].of \in Conversations
    BY <1>1, <1>2, <2>1, Going
  <2> QED
    BY <2>1, <2>2 DEF Chat!TypeOK, Chat!screen
<1>5. CASE Chat!Fail(r)
  <2>1. /\ pc' = [pc EXCEPT ![r] = "error"] /\ job' = [job EXCEPT ![r] = Chat!Failed(r)]
        /\ tidy' \subseteq tidy /\ UNCHANGED <<Chat!server, presses, Chat!screen, crossed>>
    BY <1>5 DEF Chat!Fail
  <2>2. /\ pc' \in [Chat!Requests -> Chat!Steps] /\ job' \in [Chat!Requests -> Chat!Job(n)]
        /\ \A q \in Chat!InFlight' : job'[q].of \in Conversations
    BY <1>1, <1>2, <2>1, Going
  <2> QED
    BY <2>1, <2>2 DEF Chat!TypeOK, Chat!screen, Chat!server
<1> QED
  BY <1>3, <1>4, <1>5

LEMMA ScreenKeepsType ==
    ASSUME Chat!TypeOK, Chat!Select \/ Chat!LoadArrives \/ \E r \in Chat!Requests : Chat!Land(r)
    PROVE  Chat!TypeOK'
<1>1. CASE Chat!Select
  <2>1. PICK k \in Conversations : selected' = k /\ selects' = selects + 1 /\ loads' = loads \cup {k}
    BY <1>1 DEF Chat!Select, Chat!Loads
  <2>2. UNCHANGED <<Chat!server, presses, pc, job, shown, card, tidy, crossed>> /\ selects < MaxSelects
    BY <1>1 DEF Chat!Select
  <2>3. selects + 1 \in 0 .. MaxSelects
    BY <2>2, ChatConstants DEF Chat!TypeOK
  <2> QED
    BY <2>1, <2>2, <2>3 DEF Chat!TypeOK, Chat!server, Chat!InFlight
<1>2. CASE Chat!LoadArrives
  <2>1. PICK k \in loads : /\ loads' = loads \ {k}
                           /\ \/ shown' = k /\ card' = Chat!Restored(k) /\ crossed' = (selected # k)
                              \/ UNCHANGED <<shown, card, crossed>>
                           /\ UNCHANGED <<Chat!server, presses, pc, job, selected, selects, tidy>>
    BY <1>2 DEF Chat!LoadArrives
  <2>2. k \in Conversations
    BY DEF Chat!TypeOK
  <2>3. messages[k] \in Seq(Chat!Row(Len(kind)))
    BY <2>2 DEF Chat!TypeOK
  <2>4. Chat!NoCard \in [of : Conversations \cup {Chat!None}, calls : SUBSET (1 .. Len(kind))]
    BY DEF Chat!NoCard
  <2>5. messages[k] # <<>> => messages[k][Len(messages[k])].calls \in SUBSET (1 .. Len(kind))
    BY <2>3 DEF Chat!Row
  <2>6. Chat!Restored(k) \in [of : Conversations \cup {Chat!None}, calls : SUBSET (1 .. Len(kind))]
    BY <2>2, <2>4, <2>5 DEF Chat!Restored
  <2> QED
    BY <2>1, <2>2, <2>6 DEF Chat!TypeOK, Chat!server, Chat!InFlight
<1>3. CASE \E r \in Chat!Requests : Chat!Land(r)
  <2>1. PICK r \in Chat!Requests : Chat!Land(r)
    BY <1>3
  <2> PICK n \in Nat : n = Len(kind) /\ Len(kind) <= n
    BY TypeParts
  <2>2. pc[r] \notin {"new", "done"} /\ job[r].of \in Conversations /\ job[r].calls \in SUBSET (1 .. n)
    <3>1. pc[r] \notin {"new", "done"}
      BY <2>1 DEF Chat!Land
    <3>2. job[r] \in Chat!Job(n)
      BY TypeParts
    <3> QED
      BY <3>1, <3>2, TypeParts, JobFields
  <2>3. /\ pc' = [pc EXCEPT ![r] = "done"] /\ job' = [job EXCEPT ![r] = Chat!IdleJob]
        /\ UNCHANGED <<Chat!server, presses, loads, selects, tidy>>
    BY <2>1 DEF Chat!Land
  <2>4. /\ pc' \in [Chat!Requests -> Chat!Steps] /\ job' \in [Chat!Requests -> Chat!Job(n)]
        /\ \A q \in Chat!InFlight' : job'[q].of \in Conversations
    <3>1. Chat!IdleJob \in Chat!Job(n) /\ "done" \in Chat!Steps /\ Len(kind) <= n
      BY IdleIsJob DEF Chat!Steps
    <3> QED
      BY <2>3, <3>1, Going
  <2>5. /\ selected' \in Conversations \cup {Chat!None} /\ shown' \in Conversations \cup {Chat!None}
        /\ card' \in [of : Conversations \cup {Chat!None}, calls : SUBSET (1 .. n)] /\ crossed' \in BOOLEAN
    <3>1. /\ selected \in Conversations \cup {Chat!None} /\ shown \in Conversations \cup {Chat!None}
          /\ card \in [of : Conversations \cup {Chat!None}, calls : SUBSET (1 .. n)] /\ crossed \in BOOLEAN
      BY DEF Chat!TypeOK
    <3>2. /\ Chat!NoCard \in [of : Conversations \cup {Chat!None}, calls : SUBSET (1 .. n)]
          /\ [of |-> job[r].of, calls |-> job[r].calls] \in [of : Conversations \cup {Chat!None}, calls : SUBSET (1 .. n)]
      BY <2>2 DEF Chat!NoCard
    <3>3. CASE pc[r] \in {"answered", "confirm"}
      <4>1. /\ shown' = (IF job[r].of \in exists THEN job[r].of ELSE shown)
            /\ crossed' = (crossed \/ selected # job[r].of)
            /\ card' = (IF pc[r] = "confirm" THEN [of |-> job[r].of, calls |-> job[r].calls]
                       ELSE IF job[r].kind = "confirm" THEN Chat!NoCard ELSE card)
            /\ UNCHANGED selected
        BY <2>1, <3>3 DEF Chat!Land
      <4>2. card' \in [of : Conversations \cup {Chat!None}, calls : SUBSET (1 .. n)]
        BY <3>1, <3>2, <4>1
      <4> QED
        BY <2>2, <3>1, <4>1, <4>2
    <3>4. CASE pc[r] \notin {"answered", "confirm"}
      <4>1. \/ selected' = Chat!None /\ shown' = Chat!None /\ card' = Chat!NoCard /\ crossed' = FALSE
            \/ UNCHANGED <<selected, shown, card, crossed>>
        BY <2>1, <3>4 DEF Chat!Land
      <4> QED
        BY <3>1, <3>2, <4>1
    <3> QED
      BY <3>3, <3>4
  <2> QED
    BY <2>3, <2>4, <2>5 DEF Chat!TypeOK, Chat!server
<1> QED
  BY <1>1, <1>2, <1>3

-----------------------------------------------------------------------------
(* The screen. *)

LEMMA ScreenStep ==
    ASSUME Chat!TypeOK, Chat!ScreenInv, Chat!Next
    PROVE  Chat!ScreenInv'
<1>0. exists \subseteq Conversations /\ Chat!None \notin Conversations /\ crossed \in BOOLEAN
  BY ChatConstants DEF Chat!TypeOK, Chat!None
<1>1. ASSUME exists' \subseteq exists, UNCHANGED <<Chat!screen, crossed>>
      PROVE  Chat!ScreenInv'
  BY <1>1 DEF Chat!ScreenInv, Chat!screen
<1>2. CASE Chat!Send \/ Chat!Confirm \/ Chat!Delete
  BY <1>1, <1>2 DEF Chat!Send, Chat!Confirm, Chat!Delete, Chat!Click, Chat!server
<1>3. CASE Chat!Select
  <2>1. exists' = exists /\ selected' \in loads'
    BY <1>3 DEF Chat!Select, Chat!Loads, Chat!server
  <2> QED
    BY <2>1 DEF Chat!ScreenInv
<1>4. CASE Chat!LoadArrives
  <2>1. PICK k \in loads :
           /\ loads' = loads \ {k}
           /\ IF k \in exists THEN shown' = k /\ card' = Chat!Restored(k) /\ (crossed' <=> selected # k)
              ELSE UNCHANGED <<shown, card, crossed>>
           /\ exists' = exists /\ selected' = selected
    BY <1>4 DEF Chat!LoadArrives, Chat!server
  <2>2. Chat!Restored(k) = Chat!NoCard \/ Chat!Restored(k).of = k
    BY DEF Chat!Restored
  <2> QED
    BY <2>1, <2>2 DEF Chat!ScreenInv
<1>5. ASSUME NEW r \in Chat!Requests, Chat!Land(r)
      PROVE  Chat!ScreenInv'
  <2>1. loads' = loads /\ exists' = exists
    BY <1>5 DEF Chat!Land, Chat!server
  <2>2. CASE pc[r] \in {"answered", "confirm"}
    <3>1. /\ shown' = (IF job[r].of \in exists THEN job[r].of ELSE shown)
          /\ crossed' <=> (crossed \/ selected # job[r].of)
          /\ card' = (IF pc[r] = "confirm" THEN [of |-> job[r].of, calls |-> job[r].calls]
                     ELSE IF job[r].kind = "confirm" THEN Chat!NoCard ELSE card)
          /\ selected' = selected
      BY <1>5, <2>2 DEF Chat!Land
    <3>2. SUFFICES ASSUME ~crossed', selected \in exists, selected \notin loads
                   PROVE  shown' = selected /\ (card' = Chat!NoCard \/ card'.of = selected)
      BY <2>1, <3>1 DEF Chat!ScreenInv
    <3>3. selected = job[r].of /\ ~crossed
      BY <3>1, <3>2
    <3>4. card = Chat!NoCard \/ card.of = selected
      BY <3>2, <3>3 DEF Chat!ScreenInv
    <3> QED
      BY <3>1, <3>2, <3>3, <3>4
  <2>3. CASE pc[r] \notin {"answered", "confirm"}
    <3>1. \/ selected' = Chat!None
          \/ UNCHANGED <<selected, shown, card, crossed>>
      BY <1>5, <2>3 DEF Chat!Land
    <3> QED
      BY <1>0, <2>1, <3>1 DEF Chat!ScreenInv
  <2> QED
    BY <2>2, <2>3
<1>6. ASSUME NEW r \in Chat!Requests, Chat!Step(r) \/ Chat!DeleteMessages(r) \/ Chat!DeleteRow(r) \/ Chat!Fail(r)
      PROVE  Chat!ScreenInv'
  <2>1. CASE Chat!Fail(r)
    BY <1>1, <2>1 DEF Chat!Fail, Chat!server
  <2>2. CASE Chat!DeleteMessages(r) \/ Chat!DeleteRow(r)
    BY <1>1, <2>2 DEF Chat!DeleteMessages, Chat!DeleteRow, Chat!Goto
  <2>3. CASE Chat!Receive(r) \/ Chat!ReadPrior(r) \/ Chat!Answers(r) \/ Chat!NextIteration(r)
    BY <1>1, <2>3 DEF Chat!Receive, Chat!ReadPrior, Chat!Answers, Chat!NextIteration, Chat!Goto, Chat!server
  <2>4. CASE Chat!AsksForTools(r)
    BY <1>1, <2>4 DEF Chat!AsksForTools, Chat!Goto
  <2>5. CASE Chat!RunTool(r) \/ Chat!Hold(r) \/ Chat!Apply(r)
    BY <1>1, <2>5 DEF Chat!RunTool, Chat!Hold, Chat!Apply, Chat!Goto
  <2>6. CASE Chat!DropPlaceholder(r) \/ Chat!Applied(r)
    BY <1>1, <2>6 DEF Chat!DropPlaceholder, Chat!Applied, Chat!Goto, Chat!server
  <2> QED
    BY <1>6, <2>1, <2>2, <2>3, <2>4, <2>5, <2>6 DEF Chat!Step
<1> QED
  BY <1>2, <1>3, <1>4, <1>5, <1>6 DEF Chat!Next

-----------------------------------------------------------------------------
(* What was pressed pays for what runs. *)

LEMMA OwedSets ==
    /\ IsFiniteSet(Chat!Requests)
    /\ \A S \in SUBSET Chat!Requests : IsFiniteSet(S) /\ Cardinality(S) \in Nat
<1>1. IsFiniteSet(Chat!Requests)
  BY ChatConstants, FS_Interval DEF Chat!Requests
<1> QED
  BY <1>1, FS_Subset, FS_CardinalityType

(* A request that owes no more than before, and pays with what it runs. *)
LEMMA Paid ==
    ASSUME Chat!TypeOK, Chat!PaidInv, NEW r \in Chat!Requests,
           runs' = runs, presses' = presses, Len(kind) <= Len(kind'), Len(kind') \in Nat,
           \A i \in 1 .. Len(kind) : kind'[i] = kind[i],
           \A q \in Chat!Requests \ {r} : pc'[q] = pc[q] /\ job'[q] = job[q],
           \A i \in Chat!CallIds : Chat!Owed(r, i)' => Chat!Owed(r, i),
           pc'[r] = "tools" => \A i \in job'[r].todo : kind'[i] = "safe"
    PROVE  Chat!PaidInv'
<1>0. kind \in Seq({"safe", "mutate"}) /\ job \in [Chat!Requests -> Chat!Job(Len(kind))] /\ runs \in [Chat!CallIds -> Nat] /\ presses \in [Chat!CallIds -> Nat]
  BY DEF Chat!TypeOK
<1>1. ASSUME NEW q \in Chat!Requests, pc'[q] = "tools"
      PROVE  \A i \in job'[q].todo : kind'[i] = "safe"
  <2>1. CASE q # r
    <3>1. job[q].todo \in SUBSET (1 .. Len(kind))
      BY <1>0, JobFields
    <3> QED
      BY <1>1, <2>1, <3>1 DEF Chat!PaidInv
  <2> QED
    BY <1>1, <2>1
<1>2. ASSUME NEW i \in Chat!CallIds
      PROVE  \/ i \in DOMAIN kind' /\ kind'[i] = "safe"
             \/ runs'[i] + Chat!Cardinality({q \in Chat!Requests : Chat!Owed(q, i)'}) <= presses'[i]
  <2>1. CASE i \in DOMAIN kind /\ kind[i] = "safe"
    <3>1. i \in 1 .. Len(kind)
      BY <1>0, <2>1
    <3> QED
      BY <2>1, <3>1
  <2>2. CASE ~(i \in DOMAIN kind /\ kind[i] = "safe")
    <3> DEFINE old == {q \in Chat!Requests : Chat!Owed(q, i)}
               new == {q \in Chat!Requests : Chat!Owed(q, i)'}
    <3>1. runs[i] + Cardinality(old) <= presses[i]
      BY <2>2, ChatCardinality DEF Chat!PaidInv
    <3>2. new \in SUBSET old
      <4>1. \A q \in Chat!Requests \ {r} : Chat!Owed(q, i)' => Chat!Owed(q, i)
        BY DEF Chat!Owed
      <4> QED
        BY <4>1
    <3>3. IsFiniteSet(old) /\ Cardinality(old) \in Nat /\ Cardinality(new) \in Nat
      BY OwedSets
    <3>4. Cardinality(new) <= Cardinality(old)
      BY <3>2, <3>3, FS_Subset
    <3>5. runs'[i] = runs[i] /\ runs[i] \in Nat /\ presses'[i] = presses[i] /\ presses[i] \in Nat
      BY <1>0
    <3>6. Chat!Cardinality(new) = Cardinality(new)
      BY ChatCardinality
    <3> HIDE DEF old, new
    <3>7. runs'[i] + Chat!Cardinality(new) <= presses'[i]
      BY <3>1, <3>3, <3>4, <3>5, <3>6
    <3> QED
      BY <3>7 DEF new
  <2> QED
    BY <2>1, <2>2
<1> QED
  BY <1>1, <1>2 DEF Chat!PaidInv

LEMMA PaidStep ==
    ASSUME Chat!TypeOK, Chat!PaidInv, Chat!Next
    PROVE  Chat!PaidInv'
<1>0. /\ kind \in Seq({"safe", "mutate"}) /\ Len(kind) \in Nat /\ Len(kind) <= MaxCalls
      /\ pc \in [Chat!Requests -> Chat!Steps]
      /\ job \in [Chat!Requests -> Chat!Job(Len(kind))]
      /\ runs \in [Chat!CallIds -> Nat] /\ presses \in [Chat!CallIds -> Nat]
  BY DEF Chat!TypeOK
<1>1. ASSUME NEW r \in Chat!Requests, UNCHANGED <<runs, presses, kind>>,
             NEW at, NEW locals, pc' = [pc EXCEPT ![r] = at], job' = [job EXCEPT ![r] = locals],
             at \notin {"tools", "unhold", "apply"} \/ (at = "tools" /\ locals.todo = {})
                \/ (at = pc[r] /\ locals.todo \subseteq job[r].todo /\ locals.calls \subseteq job[r].calls)
                \/ (at = "apply" /\ pc[r] = "unhold" /\ locals.todo \subseteq job[r].calls)
      PROVE  Chat!PaidInv'
  <2>1. pc'[r] = at /\ job'[r] = locals /\ \A q \in Chat!Requests \ {r} : pc'[q] = pc[q] /\ job'[q] = job[q]
    BY <1>0, <1>1
  <2>2. \A i \in Chat!CallIds : Chat!Owed(r, i)' => Chat!Owed(r, i)
    BY <1>1, <2>1 DEF Chat!Owed
  <2>3. pc'[r] = "tools" => \A i \in job'[r].todo : kind'[i] = "safe"
    BY <1>1, <2>1 DEF Chat!PaidInv
  <2> QED
    BY <1>0, <1>1, <2>1, <2>2, <2>3, Paid
<1>2. ASSUME UNCHANGED <<runs, presses, kind, pc, job>>
      PROVE  Chat!PaidInv'
  BY <1>2 DEF Chat!PaidInv, Chat!Owed
<1>3. CASE Chat!Send \/ Chat!Delete
  <2>1. PICK r \in Chat!Requests, at \in {"receive", "deleteMessages"} : \E locals :
           pc' = [pc EXCEPT ![r] = at] /\ job' = [job EXCEPT ![r] = locals]
    BY <1>3 DEF Chat!Send, Chat!Delete, Chat!Click
  <2>2. UNCHANGED <<runs, presses, kind>>
    BY <1>3 DEF Chat!Send, Chat!Delete, Chat!Click, Chat!server
  <2> QED
    BY <1>1, <2>1, <2>2
<1>4. CASE Chat!Confirm
  <2> DEFINE l == [Chat!IdleJob EXCEPT !.of = selected, !.kind = "confirm", !.calls = card.calls, !.todo = card.calls]
  <2>1. /\ Chat!Click("unhold", l)
        /\ presses' = [i \in Chat!CallIds |-> IF i \in card.calls THEN presses[i] + 1 ELSE presses[i]]
    BY <1>4 DEF Chat!Confirm
  <2>2. PICK r \in Chat!Requests : pc[r] = "new" /\ pc' = [pc EXCEPT ![r] = "unhold"] /\ job' = [job EXCEPT ![r] = l]
    BY <2>1 DEF Chat!Click
  <2>3. runs' = runs /\ kind' = kind
    BY <2>1 DEF Chat!Click, Chat!server
  <2>4. l.calls = card.calls
    BY DEF Chat!IdleJob
  <2> HIDE DEF l
  <2>5. pc'[r] = "unhold" /\ job'[r] = l /\ \A q \in Chat!Requests \ {r} : pc'[q] = pc[q] /\ job'[q] = job[q]
    BY <1>0, <2>2
  <2>6. ASSUME NEW i \in Chat!CallIds, runs[i] + Chat!Cardinality({q \in Chat!Requests : Chat!Owed(q, i)}) <= presses[i]
        PROVE  runs'[i] + Chat!Cardinality({q \in Chat!Requests : Chat!Owed(q, i)'}) <= presses'[i]
    <3> DEFINE old == {q \in Chat!Requests : Chat!Owed(q, i)}
               new == {q \in Chat!Requests : Chat!Owed(q, i)'}
    <3>1. IsFiniteSet(old) /\ Cardinality(old) \in Nat /\ Cardinality(new) \in Nat
      BY OwedSets
    <3>2. ~Chat!Owed(r, i) /\ (Chat!Owed(r, i)' <=> i \in card.calls)
      BY <2>2, <2>4, <2>5 DEF Chat!Owed
    <3>3. \A q \in Chat!Requests \ {r} : Chat!Owed(q, i)' <=> Chat!Owed(q, i)
      BY <2>5 DEF Chat!Owed
    <3>4. new = IF i \in card.calls THEN old \cup {r} ELSE old
      BY <3>2, <3>3
    <3>5. r \notin old
      BY <3>2
    <3>6. Chat!Cardinality(new) = Cardinality(new) /\ Chat!Cardinality(old) = Cardinality(old)
      BY ChatCardinality
    <3>7. presses'[i] = IF i \in card.calls THEN presses[i] + 1 ELSE presses[i]
      BY <2>1
    <3>8. runs[i] \in Nat /\ presses[i] \in Nat /\ runs'[i] = runs[i]
      BY <1>0, <2>3
    <3>9. runs[i] + Chat!Cardinality(old) <= presses[i]
      BY <2>6
    <3> HIDE DEF old, new
    <3>10. Cardinality(new) = IF i \in card.calls THEN Cardinality(old) + 1 ELSE Cardinality(old)
      BY <3>1, <3>4, <3>5, FS_AddElement
    <3>11. runs'[i] + Chat!Cardinality(new) <= presses'[i]
      BY <3>1, <3>6, <3>7, <3>8, <3>9, <3>10
    <3> QED
      BY <3>11 DEF new
  <2>7. ASSUME NEW q \in Chat!Requests, pc'[q] = "tools"
        PROVE  \A i \in job'[q].todo : kind'[i] = "safe"
    BY <2>3, <2>5, <2>7 DEF Chat!PaidInv
  <2> QED
    BY <2>3, <2>6, <2>7 DEF Chat!PaidInv
<1>5. CASE Chat!Select \/ Chat!LoadArrives
  BY <1>2, <1>5 DEF Chat!Select, Chat!LoadArrives, Chat!server
<1>6. ASSUME NEW r \in Chat!Requests, Chat!Land(r)
      PROVE  Chat!PaidInv'
  <2>1. /\ pc' = [pc EXCEPT ![r] = "done"] /\ job' = [job EXCEPT ![r] = Chat!IdleJob]
        /\ UNCHANGED <<runs, presses, kind>>
    BY <1>6 DEF Chat!Land, Chat!server
  <2> QED
    BY <1>1, <2>1
<1>7. ASSUME NEW r \in Chat!Requests, NEW at, NEW locals, Chat!Goto(r, at, locals), UNCHANGED <<runs, kind>>,
             at \notin {"tools", "unhold", "apply"} \/ (at = "tools" /\ locals.todo = {})
                \/ (at = pc[r] /\ locals.todo \subseteq job[r].todo /\ locals.calls \subseteq job[r].calls)
                \/ (at = "apply" /\ pc[r] = "unhold" /\ locals.todo \subseteq job[r].calls)
      PROVE  Chat!PaidInv'
  BY <1>1, <1>7 DEF Chat!Goto
<1>8. ASSUME NEW r \in Chat!Requests, Chat!Fail(r)
      PROVE  Chat!PaidInv'
  <2>1. /\ pc' = [pc EXCEPT ![r] = "error"] /\ job' = [job EXCEPT ![r] = Chat!Failed(r)]
        /\ UNCHANGED <<runs, presses, kind>>
    BY <1>8 DEF Chat!Fail, Chat!server
  <2> QED
    BY <1>1, <2>1
<1>9. ASSUME NEW r \in Chat!Requests,
             \/ Chat!Receive(r) \/ Chat!ReadPrior(r) \/ Chat!Answers(r) \/ Chat!NextIteration(r)
             \/ Chat!Applied(r) \/ Chat!DeleteMessages(r) \/ Chat!DeleteRow(r)
      PROVE  Chat!PaidInv'
  <2>1. \E at \in {"read", "chat", "answered", "error", "deleteRow", "deleted"} : \E locals : Chat!Goto(r, at, locals)
    BY <1>9 DEF Chat!Receive, Chat!ReadPrior, Chat!Answers, Chat!NextIteration, Chat!Applied,
                Chat!DeleteMessages, Chat!DeleteRow
  <2>2. UNCHANGED <<runs, kind>>
    BY <1>9 DEF Chat!Receive, Chat!ReadPrior, Chat!Answers, Chat!NextIteration, Chat!Applied,
                Chat!DeleteMessages, Chat!DeleteRow, Chat!server
  <2> QED
    BY <1>7, <2>1, <2>2
<1>10. ASSUME NEW r \in Chat!Requests, Chat!AsksForTools(r)
       PROVE  Chat!PaidInv'
  <2>1. PICK list \in FewToolLists :
           LET id(i) == Len(kind) + i
               calls == {id(i) : i \in DOMAIN list}
               waiting == {id(i) : i \in {j \in DOMAIN list : Chat!Waits(list, j)}}
           IN  /\ kind' = kind \o list
               /\ Chat!Goto(r, "tools", [job[r] EXCEPT
                     !.history = Append(@, Chat!Asks(calls)), !.wait = waiting, !.todo = calls \ waiting])
    BY <1>10 DEF Chat!AsksForTools
  <2> DEFINE calls == {Len(kind) + i : i \in DOMAIN list}
             waiting == {Len(kind) + i : i \in {j \in DOMAIN list : Chat!Waits(list, j)}}
             l == [job[r] EXCEPT !.history = Append(@, Chat!Asks(calls)), !.wait = waiting, !.todo = calls \ waiting]
  <2>2. list \in Seq({"safe", "mutate"}) /\ Len(list) \in Nat /\ DOMAIN list = 1 .. Len(list)
    BY ChatConstants
  <2>3. kind' = kind \o list /\ Len(kind') = Len(kind) + Len(list) /\ \A i \in 1 .. Len(kind) : kind'[i] = kind[i]
    BY <1>0, <2>1, <2>2
  <2>4. Chat!Goto(r, "tools", l) /\ runs' = runs
    BY <1>10, <2>1 DEF Chat!AsksForTools
  <2>5. \A i \in calls \ waiting : kind'[i] = "safe"
    <3>1. TAKE i \in calls \ waiting
    <3>2. PICK j \in DOMAIN list : i = Len(kind) + j
      OBVIOUS
    <3>3. ~Chat!Waits(list, j)
      BY <3>2
    <3>4. list[j] = "safe"
      BY <2>2, <3>3 DEF Chat!Waits
    <3> QED
      BY <1>0, <2>1, <2>2, <3>2, <3>4
  <2>6. l.todo = calls \ waiting
    <3>1. job[r] \in Chat!Job(Len(kind))
      BY <1>0
    <3> QED
      BY <3>1 DEF Chat!Job
  <2> HIDE DEF calls, waiting, l
  <2>7. pc' = [pc EXCEPT ![r] = "tools"] /\ job' = [job EXCEPT ![r] = l] /\ presses' = presses
    BY <2>4 DEF Chat!Goto
  <2>8. pc'[r] = "tools" /\ job'[r] = l /\ \A q \in Chat!Requests \ {r} : pc'[q] = pc[q] /\ job'[q] = job[q]
    BY <1>0, <2>7
  <2>9. \A i \in Chat!CallIds : ~Chat!Owed(r, i)'
    BY <2>8 DEF Chat!Owed
  <2>10. Len(kind) <= Len(kind') /\ Len(kind') \in Nat
    BY <1>0, <2>2, <2>3
  <2> QED
    BY <2>3, <2>4, <2>5, <2>6, <2>7, <2>8, <2>9, <2>10, Paid
<1>11. ASSUME NEW r \in Chat!Requests, Chat!Hold(r) \/ Chat!DropPlaceholder(r)
       PROVE  Chat!PaidInv'
  <2>0. job[r] \in Chat!Job(Len(kind)) /\ UNCHANGED <<runs, kind>>
    BY <1>0, <1>11 DEF Chat!Hold, Chat!DropPlaceholder
  <2>1. CASE Chat!Hold(r)
    <3> DEFINE l == [job[r] EXCEPT !.wait = job[r].wait \ {Chat!Min(job[r].wait)}, !.calls = @ \cup {Chat!Min(job[r].wait)}, !.history = <<>>]
    <3>1. PICK at \in {"confirm", "tools"} : Chat!Goto(r, at, l) /\ job[r].todo = {}
      BY <2>1 DEF Chat!Hold
    <3>2. l.todo = job[r].todo
      BY <2>0 DEF Chat!Job
    <3> HIDE DEF l
    <3> QED
      BY <1>7, <2>0, <3>1, <3>2
  <2>2. CASE Chat!DropPlaceholder(r)
    <3> DEFINE l == [job[r] EXCEPT !.todo = @ \ {Chat!Min(job[r].todo)}]
               all == [job[r] EXCEPT !.todo = job[r].calls]
    <3>1. \/ Chat!Goto(r, "error", Chat!Failed(r))
          \/ Chat!Goto(r, "apply", all)
          \/ Chat!Goto(r, "unhold", l)
      BY <2>2 DEF Chat!DropPlaceholder
    <3>2. pc[r] = "unhold" /\ l.todo \subseteq job[r].todo /\ l.calls = job[r].calls /\ all.todo = job[r].calls
      BY <2>0, <2>2 DEF Chat!Job, Chat!DropPlaceholder
    <3> HIDE DEF l, all
    <3> QED
      BY <1>7, <2>0, <3>1, <3>2
  <2> QED
    BY <1>11, <2>1, <2>2
<1>12. ASSUME NEW r \in Chat!Requests, Chat!RunTool(r) \/ Chat!Apply(r)
       PROVE  Chat!PaidInv'
  <2> DEFINE id == Chat!Min(job[r].todo)
  <2>1. /\ pc' = [pc EXCEPT ![r] = pc[r]] /\ pc[r] \in {"tools", "apply"} /\ (Chat!RunTool(r) => pc[r] = "tools")
        /\ (Chat!Apply(r) => pc[r] = "apply")
        /\ \E h : job' = [job EXCEPT ![r] = [job[r] EXCEPT !.todo = @ \ {id}, !.history = h]]
        /\ runs' = [runs EXCEPT ![id] = @ + 1] \/ runs' = runs
        /\ kind' = kind /\ presses' = presses /\ job[r].todo # {}
    <3>1. CASE Chat!RunTool(r)
      BY <3>1 DEF Chat!RunTool, Chat!Apply, Chat!Goto
    <3>2. CASE Chat!Apply(r)
      <4>1. job[r] \in Chat!Job(Len(kind))
        BY <1>0
      <4>2. [job[r] EXCEPT !.todo = @ \ {id}] = [job[r] EXCEPT !.todo = @ \ {id}, !.history = job[r].history]
        BY <4>1 DEF Chat!Job
      <4> QED
        BY <3>2, <4>2 DEF Chat!RunTool, Chat!Apply, Chat!Goto
    <3> QED
      BY <1>12, <3>1, <3>2
  <2>2. job[r] \in Chat!Job(Len(kind)) /\ job[r].todo \in SUBSET (1 .. Len(kind))
    BY <1>0, JobFields
  <2>3. id \in job[r].todo
    BY <1>0, <2>1, <2>2, MinIsIn
  <2> HIDE DEF id
  <2>4. job'[r].todo = job[r].todo \ {id} /\ job'[r].calls = job[r].calls /\ pc' = pc
    BY <1>0, <2>1, <2>2 DEF Chat!Job
  <2>5. \A q \in Chat!Requests \ {r} : job'[q] = job[q]
    BY <1>0, <2>1
  <2>6. ASSUME NEW q \in Chat!Requests, pc'[q] = "tools"
        PROVE  \A i \in job'[q].todo : kind'[i] = "safe"
    BY <2>1, <2>4, <2>5, <2>6 DEF Chat!PaidInv
  <2>7. ASSUME NEW i \in Chat!CallIds, ~(i \in DOMAIN kind /\ kind[i] = "safe"),
               runs[i] + Chat!Cardinality({q \in Chat!Requests : Chat!Owed(q, i)}) <= presses[i]
        PROVE  runs'[i] + Chat!Cardinality({q \in Chat!Requests : Chat!Owed(q, i)'}) <= presses'[i]
    <3> DEFINE old == {q \in Chat!Requests : Chat!Owed(q, i)}
               new == {q \in Chat!Requests : Chat!Owed(q, i)'}
    <3>1. IsFiniteSet(old) /\ Cardinality(old) \in Nat /\ Cardinality(new) \in Nat
      BY OwedSets
    <3>2. Chat!Cardinality(new) = Cardinality(new) /\ Chat!Cardinality(old) = Cardinality(old)
      BY ChatCardinality
    <3>3. \A q \in Chat!Requests \ {r} : Chat!Owed(q, i)' <=> Chat!Owed(q, i)
      BY <2>4, <2>5 DEF Chat!Owed
    <3>4. Chat!Owed(r, i)' => Chat!Owed(r, i)
      BY <2>4 DEF Chat!Owed
    <3>5. runs[i] \in Nat /\ presses[i] \in Nat /\ presses'[i] = presses[i]
      BY <1>0, <2>1
    <3>6. CASE i # id \/ runs' = runs
      <4>1. runs'[i] = runs[i]
        BY <1>0, <2>1, <3>6
      <4>2. new \in SUBSET old
        BY <3>3, <3>4
      <4>3. runs[i] + Chat!Cardinality(old) <= presses[i]
        BY <2>7
      <4> HIDE DEF old, new
      <4>4. Cardinality(new) <= Cardinality(old)
        BY <3>1, <4>2, FS_Subset
      <4>5. runs'[i] + Chat!Cardinality(new) <= presses'[i]
        BY <3>1, <3>2, <3>5, <4>1, <4>3, <4>4
      <4> QED
        BY <4>5 DEF new
    <3>7. CASE i = id /\ runs' # runs
      <4>1. pc[r] = "apply"
        <5>1. pc[r] = "tools" => i \in DOMAIN kind /\ kind[i] = "safe"
          BY <1>0, <2>2, <2>3, <3>7 DEF Chat!PaidInv
        <5> QED
          BY <2>1, <2>7, <5>1
      <4>2. Chat!Owed(r, i) /\ ~Chat!Owed(r, i)'
        BY <2>3, <2>4, <3>7, <4>1 DEF Chat!Owed
      <4>3. new = old \ {r} /\ r \in old
        BY <3>3, <4>2
      <4>4. runs'[i] = runs[i] + 1
        BY <1>0, <2>1, <3>7
      <4>5. runs[i] + Chat!Cardinality(old) <= presses[i]
        BY <2>7
      <4> HIDE DEF old, new
      <4>6. Cardinality(new) = Cardinality(old) - 1
        BY <3>1, <4>3, FS_RemoveElement
      <4>7. runs'[i] + Chat!Cardinality(new) <= presses'[i]
        BY <3>1, <3>2, <3>5, <4>4, <4>5, <4>6
      <4> QED
        BY <4>7 DEF new
    <3> QED
      BY <3>6, <3>7
  <2> QED
    BY <2>1, <2>6, <2>7 DEF Chat!PaidInv
<1> QED
  BY <1>3, <1>4, <1>5, <1>6, <1>8, <1>9, <1>10, <1>11, <1>12 DEF Chat!Next, Chat!Step

-----------------------------------------------------------------------------
(* Messages and their results. *)

LEMMA RowFacts ==
    ASSUME NEW n \in Nat, NEW rows \in Seq(Chat!Row(n))
    PROVE  /\ Len(rows) \in Nat /\ DOMAIN rows = 1 .. Len(rows)
           /\ \A i \in 1 .. Len(rows) :
                 /\ rows[i].id \in 0 .. n /\ rows[i].calls \in SUBSET (1 .. n)
                 /\ rows[i].role = "tool" <=> rows[i].id # 0
                 /\ rows[i].role = "tool" => rows[i].calls = {}
                 /\ rows[i].pending => rows[i].role = "tool"
  BY DEF Chat!Row

LEMMA Appended ==
    ASSUME NEW n \in Nat, NEW rows \in Seq(Chat!Row(n)), NEW m
    PROVE  /\ Len(Append(rows, m)) = Len(rows) + 1 /\ DOMAIN Append(rows, m) = 1 .. Len(rows) + 1
           /\ \A i \in 1 .. Len(rows) : Append(rows, m)[i] = rows[i]
           /\ Append(rows, m)[Len(rows) + 1] = m
  OBVIOUS

LEMMA AppendWords ==
    ASSUME NEW n \in Nat, NEW rows \in Seq(Chat!Row(n)), Chat!Lacks(rows, {}),
           NEW m, m.role # "tool", m.calls = {}, m.id = 0
    PROVE  Chat!Lacks(Append(rows, m), {})
<1> DEFINE new == Append(rows, m)
           L == Len(rows)
<1>1. /\ L \in Nat /\ DOMAIN rows = 1 .. L /\ DOMAIN new = 1 .. L + 1
      /\ \A i \in 1 .. L : new[i] = rows[i]
      /\ new[L + 1] = m
  BY RowFacts, Appended
<1> HIDE DEF new, L
<1>2. \A i, j \in 1 .. L : Chat!Behind(rows, i, j) => Chat!Behind(new, i, j)
  BY <1>1 DEF Chat!Behind
<1>3. \A i \in 1 .. L + 1 : i \in 1 .. L \/ i = L + 1
  BY <1>1
<1>4. \A i \in 1 .. L : i \in 1 .. L + 1
  BY <1>1
<1>5. \A j \in DOMAIN new : new[j].role = "tool" => \E i \in DOMAIN new : Chat!Behind(new, i, j)
  BY <1>1, <1>2, <1>3, <1>4 DEF Chat!Lacks
<1>6. \A i \in DOMAIN new : \A c \in new[i].calls \ {} : \E j \in DOMAIN new : new[j].id = c
  BY <1>1, <1>3, <1>4 DEF Chat!Lacks
<1>7. \A i, j \in DOMAIN new : i # j =>
         new[i].calls \cap new[j].calls = {} /\ (new[i].id = new[j].id => new[i].id = 0)
  BY <1>1, <1>3 DEF Chat!Lacks
<1> QED
  BY <1>5, <1>6, <1>7 DEF Chat!Lacks, new

LEMMA AppendAsks ==
    ASSUME NEW n \in Nat, NEW m \in Nat, NEW rows \in Seq(Chat!Row(n)), Chat!Lacks(rows, {}),
           NEW calls \in SUBSET (n + 1 .. m)
    PROVE  /\ Chat!Lacks(Append(rows, Chat!Asks(calls)), calls)
           /\ Chat!Open(Append(rows, Chat!Asks(calls)), calls)
<1> DEFINE asks == Chat!Asks(calls)
           new == Append(rows, asks)
           L == Len(rows)
<1>1. /\ L \in Nat /\ DOMAIN rows = 1 .. L /\ DOMAIN new = 1 .. L + 1 /\ Len(new) = L + 1
      /\ \A i \in 1 .. L : new[i] = rows[i]
      /\ new[L + 1] = asks
  BY RowFacts, Appended
<1>2. asks.role # "tool" /\ asks.calls = calls /\ asks.id = 0
  BY DEF Chat!Asks
<1>3. /\ \A i \in 1 .. L : rows[i].calls \cap calls = {} /\ rows[i].id \notin calls
      /\ 0 \notin calls
  <2>1. \A c \in calls : c \notin 0 .. n
    OBVIOUS
  <2>2. \A i \in 1 .. L : rows[i].calls \subseteq 0 .. n /\ rows[i].id \in 0 .. n
    BY RowFacts
  <2> QED
    BY <2>1, <2>2
<1> HIDE DEF new, L, asks
<1>4. \A i, j \in 1 .. L : Chat!Behind(rows, i, j) => Chat!Behind(new, i, j)
  BY <1>1 DEF Chat!Behind
<1>5. \A i \in 1 .. L + 1 : i \in 1 .. L \/ i = L + 1
  BY <1>1
<1>6. \A i \in 1 .. L : i \in 1 .. L + 1
  BY <1>1
<1>7. \A j \in DOMAIN new : new[j].role = "tool" => \E i \in DOMAIN new : Chat!Behind(new, i, j)
  BY <1>1, <1>2, <1>4, <1>5, <1>6 DEF Chat!Lacks
<1>8. \A i \in DOMAIN new : \A c \in new[i].calls \ calls : \E j \in DOMAIN new : new[j].id = c
  BY <1>1, <1>2, <1>5, <1>6 DEF Chat!Lacks
<1>9. \A i, j \in DOMAIN new : i # j =>
         new[i].calls \cap new[j].calls = {} /\ (new[i].id = new[j].id => new[i].id = 0)
  <2> TAKE i, j \in DOMAIN new
  <2> HAVE i # j
  <2>1. CASE i \in 1 .. L /\ j \in 1 .. L
    BY <1>1, <2>1 DEF Chat!Lacks
  <2>2. CASE i = L + 1 /\ j \in 1 .. L
    BY <1>1, <1>2, <1>3, <2>2
  <2>3. CASE j = L + 1 /\ i \in 1 .. L
    BY <1>1, <1>2, <1>3, <2>3
  <2> QED
    BY <1>1, <1>5, <2>1, <2>2, <2>3
<1>10. \A j \in DOMAIN new : new[j].id \notin calls
  BY <1>1, <1>2, <1>3, <1>5
<1>11. Chat!Open(new, calls)
  <2>1. L + 1 \in DOMAIN new /\ calls \subseteq new[L + 1].calls
    BY <1>1, <1>2
  <2>2. \A k \in (L + 1) + 1 .. Len(new) : new[k].role = "tool"
    BY <1>1
  <2> QED
    BY <2>1, <2>2 DEF Chat!Open
<1> QED
  BY <1>7, <1>8, <1>9, <1>10, <1>11 DEF Chat!Lacks, new, asks

LEMMA AppendResult ==
    ASSUME NEW n \in Nat, NEW rows \in Seq(Chat!Row(n)), NEW M, NEW x \in M,
           Chat!Lacks(rows, M), Chat!Open(rows, M),
           NEW m, m.role = "tool", m.calls = {}, m.id = x
    PROVE  /\ Chat!Lacks(Append(rows, m), M \ {x})
           /\ Chat!Open(Append(rows, m), M \ {x})
<1> DEFINE new == Append(rows, m)
           L == Len(rows)
<1>1. /\ L \in Nat /\ DOMAIN rows = 1 .. L /\ DOMAIN new = 1 .. L + 1 /\ Len(new) = L + 1
      /\ \A i \in 1 .. L : new[i] = rows[i]
      /\ new[L + 1] = m
  BY RowFacts, Appended
<1>2. PICK a \in 1 .. L : M \subseteq rows[a].calls /\ \A k \in a + 1 .. L : rows[k].role = "tool"
  BY <1>1 DEF Chat!Open
<1> HIDE DEF new, L
<1>3. \A i, j \in 1 .. L : Chat!Behind(rows, i, j) => Chat!Behind(new, i, j)
  BY <1>1 DEF Chat!Behind
<1>4. \A i \in 1 .. L + 1 : i \in 1 .. L \/ i = L + 1
  BY <1>1
<1>5. \A i \in 1 .. L : i \in 1 .. L + 1
  BY <1>1
<1>6. \A k \in a + 1 .. L + 1 : new[k].role = "tool"
  BY <1>1, <1>2
<1>7. Chat!Behind(new, a, L + 1)
  BY <1>1, <1>2, <1>6 DEF Chat!Behind
<1>8. \A j \in DOMAIN new : new[j].role = "tool" => \E i \in DOMAIN new : Chat!Behind(new, i, j)
  BY <1>1, <1>3, <1>4, <1>5, <1>7 DEF Chat!Lacks
<1>9. \A i \in DOMAIN new : \A c \in new[i].calls \ (M \ {x}) : \E j \in DOMAIN new : new[j].id = c
  <2> TAKE i \in DOMAIN new
  <2> TAKE c \in new[i].calls \ (M \ {x})
  <2>1. i \in 1 .. L
    BY <1>1, <1>4
  <2>2. CASE c = x
    BY <1>1, <2>2
  <2>3. CASE c # x
    <3>1. PICK j \in DOMAIN rows : rows[j].id = c
      BY <1>1, <2>1, <2>3 DEF Chat!Lacks
    <3> QED
      BY <1>1, <1>5, <3>1
  <2> QED
    BY <2>2, <2>3
<1>10. \A j \in 1 .. L : rows[j].id \notin M
  BY <1>1 DEF Chat!Lacks
<1>11. \A i, j \in DOMAIN new : i # j =>
         new[i].calls \cap new[j].calls = {} /\ (new[i].id = new[j].id => new[i].id = 0)
  <2> TAKE i, j \in DOMAIN new
  <2> HAVE i # j
  <2>1. CASE i \in 1 .. L /\ j \in 1 .. L
    BY <1>1, <2>1 DEF Chat!Lacks
  <2>2. CASE i = L + 1 /\ j \in 1 .. L
    BY <1>1, <1>10, <2>2
  <2>3. CASE j = L + 1 /\ i \in 1 .. L
    BY <1>1, <1>10, <2>3
  <2> QED
    BY <1>1, <1>4, <2>1, <2>2, <2>3
<1>12. \A j \in DOMAIN new : new[j].id \notin M \ {x}
  BY <1>1, <1>4, <1>10
<1>13. Chat!Open(new, M \ {x})
  <2>1. a \in DOMAIN new /\ M \ {x} \subseteq new[a].calls
    BY <1>1, <1>2, <1>5
  <2> QED
    BY <1>1, <1>6, <2>1 DEF Chat!Open
<1> QED
  BY <1>8, <1>9, <1>11, <1>12, <1>13 DEF Chat!Lacks, new

(* A message that asks for a call, and its result, are found in one place. *)
LEMMA Asker ==
    ASSUME NEW n \in Nat, NEW rows \in Seq(Chat!Row(n)), NEW M, Chat!Lacks(rows, M),
           NEW a \in 1 .. Len(rows), NEW j \in 1 .. Len(rows), rows[j].role = "tool",
           rows[j].id \in rows[a].calls
    PROVE  Chat!Behind(rows, a, j)
<1>1. Len(rows) \in Nat /\ DOMAIN rows = 1 .. Len(rows)
  BY RowFacts
<1>2. PICK i \in 1 .. Len(rows) : Chat!Behind(rows, i, j)
  BY <1>1 DEF Chat!Lacks
<1>3. i = a
  BY <1>1, <1>2 DEF Chat!Lacks, Chat!Behind
<1> QED
  BY <1>2, <1>3

LEMMA HistoryIsAll ==
    ASSUME NEW n \in Nat, NEW rows \in Seq(Chat!Row(n)), Chat!Lacks(rows, {})
    PROVE  Chat!History(rows) = rows
<1> DEFINE S == {i \in DOMAIN rows : rows[i].role = "tool" => Chat!InBlock(rows, i)}
<1>1. Len(rows) \in Nat /\ DOMAIN rows = 1 .. Len(rows)
  BY RowFacts
<1>2. S = 1 .. Len(rows)
  <2> SUFFICES ASSUME NEW j \in 1 .. Len(rows), rows[j].role = "tool" PROVE Chat!InBlock(rows, j)
    BY <1>1
  <2>1. PICK i \in 1 .. Len(rows) : Chat!Behind(rows, i, j)
    BY <1>1 DEF Chat!Lacks
  <2>2. i \in 1 .. j - 1 /\ rows[i].calls # {} /\ \A k \in i + 1 .. j - 1 : rows[k].role = "tool"
    BY <1>1, <2>1 DEF Chat!Behind
  <2> QED
    BY <2>2 DEF Chat!InBlock
<1>3. S \in SUBSET DOMAIN rows /\ Cardinality(S) = Len(rows)
  <2>1. Cardinality(1 .. Len(rows)) = Len(rows)
    BY <1>1, UpToN
  <2> QED
    BY <1>1, <1>2, <2>1
<1>4. Chat!History(rows) = Chat!Those(rows, S)
  BY DEF Chat!History
<1> HIDE DEF S
<1>5. /\ Chat!Those(rows, S) \in Seq(Chat!Row(n)) /\ Len(Chat!Those(rows, S)) = Len(rows)
      /\ \A k \in 1 .. Len(rows) : Chat!Those(rows, S)[k] = rows[Chat!Nth(S, k)]
  BY <1>3, ThoseRows
<1>6. \A k \in 1 .. Len(rows) : Chat!Those(rows, S)[k] = rows[k]
  BY <1>1, <1>2, <1>5, NthOfAll
<1> QED
  BY <1>4, <1>5, <1>6

LEMMA LastUserAlone ==
    ASSUME NEW n \in Nat, NEW rows \in Seq(Chat!Row(n))
    PROVE  Chat!Lacks(Chat!LastUser(rows), {})
<1> DEFINE users == {i \in DOMAIN rows : rows[i].role = "user"}
           u == CHOOSE i \in users : \A j \in users : j <= i
<1>1. CASE users = {}
  <2>1. Chat!LastUser(rows) = <<>>
    BY <1>1 DEF Chat!LastUser
  <2> QED
    BY <2>1 DEF Chat!Lacks
<1>2. CASE users # {}
  <2>1. Chat!LastUser(rows) = <<rows[u]>>
    BY <1>2 DEF Chat!LastUser
  <2>2. \E i \in users : \A j \in users : j <= i
    <3>1. users \in SUBSET Nat /\ Len(rows) \in Nat /\ \A i \in users : i \in 1 .. Len(rows)
      OBVIOUS
    <3>2. {Len(rows) - i : i \in users} \in SUBSET Nat /\ {Len(rows) - i : i \in users} # {}
      BY <1>2, <3>1
    <3>3. PICK d \in {Len(rows) - i : i \in users} : \A e \in {Len(rows) - i : i \in users} : d <= e
      BY <3>2, Least
    <3>4. PICK i \in users : d = Len(rows) - i
      BY <3>3
    <3>5. \A j \in users : j <= i
      <4>1. TAKE j \in users
      <4>2. d <= Len(rows) - j
        BY <3>3
      <4> QED
        BY <4>2, <3>1, <3>4
    <3> QED
      BY <3>5
  <2>3. u \in users
    BY <2>2
  <2>4. rows[u] \in Chat!Row(n) /\ rows[u].role = "user"
    BY <2>3
  <2>5. rows[u].calls = {} /\ rows[u].role # "tool"
    BY <2>4 DEF Chat!Row
  <2> HIDE DEF u
  <2> QED
    BY <2>1, <2>5 DEF Chat!Lacks
<1> QED
  BY <1>1, <1>2

(* All results back to a message are of its calls. *)
LEMMA OneAsker ==
    ASSUME NEW n \in Nat, NEW rows \in Seq(Chat!Row(n)), NEW i \in 1 .. Len(rows), NEW a \in 1 .. Len(rows),
           NEW j \in 1 .. Len(rows), i < j, a < j, rows[i].calls # {}, rows[a].calls # {},
           \A k \in i + 1 .. j : rows[k].role = "tool", \A k \in a + 1 .. j : rows[k].role = "tool"
    PROVE  i = a
<1>1. Len(rows) \in Nat /\ rows[i].role # "tool" /\ rows[a].role # "tool"
  BY RowFacts
<1>2. ~(i < a)
  BY <1>1
<1>3. ~(a < i)
  BY <1>1
<1> QED
  BY <1>2, <1>3

LEMMA EndIsOpen ==
    ASSUME NEW n \in Nat, NEW rows \in Seq(Chat!Row(n)), Chat!Lacks(rows, {}), NEW calls \in SUBSET (1 .. n),
           Len(rows) >= Cardinality(calls),
           {rows[i].id : i \in Len(rows) - Cardinality(calls) + 1 .. Len(rows)} = calls,
           \A i \in Len(rows) - Cardinality(calls) + 1 .. Len(rows) : rows[i].pending
    PROVE  Chat!Open(rows, calls)
<1> SUFFICES ASSUME calls # {} PROVE Chat!Open(rows, calls)
  BY DEF Chat!Open
<1> DEFINE L == Len(rows)
           f == L - Cardinality(calls) + 1
<1>1. L \in Nat /\ DOMAIN rows = 1 .. L
  BY RowFacts
<1>2. Cardinality(calls) \in Nat /\ f \in 1 .. L
  <2>1. IsFiniteSet(calls)
    BY UpToN, FS_Subset
  <2>2. Cardinality(calls) \in Nat /\ Cardinality(calls) # 0
    BY <2>1, FS_CardinalityType, FS_EmptySet
  <2> QED
    BY <1>1, <2>2
<1>3. \A j \in f .. L : j \in 1 .. L /\ rows[j].role = "tool"
  BY <1>1, <1>2, RowFacts
<1>4. {rows[i].id : i \in f .. L} = calls
  OBVIOUS
<1> HIDE DEF f, L
<1>5. PICK a \in 1 .. L : Chat!Behind(rows, a, f)
  BY <1>1, <1>2, <1>3 DEF Chat!Lacks
<1>6. a < f /\ rows[a].calls # {} /\ \A k \in a + 1 .. L : rows[k].role = "tool"
  BY <1>1, <1>2, <1>3, <1>5 DEF Chat!Behind
<1>7. calls \subseteq rows[a].calls
  <2> SUFFICES ASSUME NEW c \in calls PROVE c \in rows[a].calls
    OBVIOUS
  <2>2. PICK j \in f .. L : c = rows[j].id
    BY <1>4
  <2>3. j \in 1 .. L /\ rows[j].role = "tool" /\ a < j
    BY <1>1, <1>2, <1>3, <1>6
  <2>4. PICK i \in 1 .. L : Chat!Behind(rows, i, j)
    BY <1>1, <2>3 DEF Chat!Lacks
  <2>5. i < j /\ c \in rows[i].calls /\ \A k \in i + 1 .. j : rows[k].role = "tool"
    BY <2>2, <2>4 DEF Chat!Behind
  <2>6. \A k \in a + 1 .. j : rows[k].role = "tool"
    BY <1>1, <1>6, <2>3
  <2>7. i = a
    BY <1>6, <2>3, <2>5, <2>6, OneAsker DEF L
  <2> QED
    BY <2>5, <2>7
<1> QED
  BY <1>1, <1>6, <1>7 DEF Chat!Open, L

LEMMA LackingNothing ==
    ASSUME NEW n \in Nat, NEW rows \in Seq(Chat!Row(n)), Chat!Lacks(rows, {})
    PROVE  Chat!Accepted(rows)
<1> DEFINE L == Len(rows)
<1>1. L \in Nat /\ DOMAIN rows = 1 .. L
  BY RowFacts
<1>2. ASSUME NEW j \in DOMAIN rows, rows[j].role = "tool"
      PROVE  \E i \in 1 .. j - 1 : rows[j].id \in rows[i].calls
  <2>1. PICK i \in 1 .. L : Chat!Behind(rows, i, j)
    BY <1>1, <1>2 DEF Chat!Lacks
  <2>2. i \in 1 .. j - 1 /\ rows[j].id \in rows[i].calls
    BY <1>1, <2>1 DEF Chat!Behind
  <2> QED
    BY <2>2
<1>3. ASSUME NEW i \in DOMAIN rows, rows[i].calls # {}
      PROVE  LET block == i + 1 .. i + Chat!Cardinality(rows[i].calls)
             IN  block \subseteq DOMAIN rows /\ {rows[j].id : j \in block} = rows[i].calls
  <2> DEFINE C == rows[i].calls
             T == {j \in 1 .. L : rows[j].id \in C}
  <2>1. C \in SUBSET (1 .. n) /\ i \in 1 .. L
    BY <1>1, RowFacts
  <2>2. ASSUME NEW j \in T
        PROVE  j \in i + 1 .. L /\ \A k \in i + 1 .. j : rows[k].role = "tool"
    <3>1. rows[j].role = "tool"
      BY <2>1, RowFacts
    <3>2. Chat!Behind(rows, i, j)
      BY <2>1, <3>1, Asker
    <3> QED
      BY <1>1, <2>1, <3>2 DEF Chat!Behind
  <2>3. ASSUME NEW j \in T, NEW k \in i + 1 .. j
        PROVE  k \in T
    <3>1. k \in 1 .. L /\ rows[k].role = "tool" /\ i < k
      BY <1>1, <2>1, <2>2
    <3>2. PICK a \in 1 .. L : Chat!Behind(rows, a, k)
      BY <1>1, <3>1 DEF Chat!Lacks
    <3>3. a < k /\ rows[k].id \in rows[a].calls /\ \A q \in a + 1 .. k : rows[q].role = "tool"
      BY <3>2 DEF Chat!Behind
    <3>4. \A q \in i + 1 .. k : rows[q].role = "tool"
      BY <1>1, <2>1, <2>2, <3>1
    <3>5. i = a
      BY <1>3, <2>1, <3>1, <3>3, <3>4, OneAsker
    <3> QED
      BY <3>1, <3>3, <3>5
  <2>4. Cardinality(T) = Cardinality(C)
    <3> DEFINE f == [j \in T |-> rows[j].id]
    <3>1. IsFiniteSet(T)
      <4>1. IsFiniteSet(1 .. L)
        BY <1>1, FS_Interval
      <4> QED
        BY <4>1, FS_Subset
    <3>2. \A c \in C : \E j \in T : rows[j].id = c
      BY <1>1 DEF Chat!Lacks
    <3>3. \A j, k \in T : rows[j].id = rows[k].id => j = k
      <4>1. 0 \notin C
        BY <2>1
      <4> QED
        BY <1>1, <4>1 DEF Chat!Lacks
    <3>4. f \in Bijection(T, C)
      BY <3>2, <3>3 DEF Bijection, Injection, Surjection, IsInjective
    <3>5. ExistsBijection(T, C)
      BY <3>4 DEF ExistsBijection
    <3> QED
      BY <3>1, <3>5, FS_Bijection
  <2>5. PICK e \in Nat : T = i + 1 .. e /\ e >= i
    <3> DEFINE N == {k \in Nat : k > i /\ k \notin T}
    <3>1. L + 1 \in N /\ N \in SUBSET Nat
      BY <1>1, <2>1
    <3>2. PICK k \in N : \A q \in N : k <= q
      BY <3>1, Least
    <3>3. k \in Nat /\ k > i /\ k \notin T /\ i \in Nat
      BY <2>1, <3>2
    <3>4. \A q \in i + 1 .. k - 1 : q \in T
      <4>1. TAKE q \in i + 1 .. k - 1
      <4>2. q \in Nat /\ q > i /\ ~(k <= q)
        BY <3>3
      <4> QED
        BY <3>2, <4>2
    <3>5. \A j \in T : j \in i + 1 .. k - 1
      <4>1. TAKE j \in T
      <4>2. j \in i + 1 .. L
        BY <2>2
      <4>3. ~(k \in i + 1 .. j)
        BY <2>3, <3>3
      <4> QED
        BY <3>3, <4>2, <4>3
    <3>6. T = i + 1 .. k - 1 /\ k - 1 \in Nat /\ k - 1 >= i
      BY <3>3, <3>4, <3>5
    <3> QED
      BY <3>6
  <2>6. Cardinality(T) = e - i
    <3>1. i \in Nat
      BY <2>1
    <3>2. Cardinality(i + 1 .. e) = e - i
      BY <2>5, <3>1, FromTo
    <3> QED
      BY <2>5, <3>2
  <2>7. i + Chat!Cardinality(C) = e
    BY <2>1, <2>4, <2>5, <2>6, ChatCardinality
  <2>8. T \subseteq DOMAIN rows /\ {rows[j].id : j \in T} = C
    <3>1. \A c \in C : \E j \in T : rows[j].id = c
      BY <1>1 DEF Chat!Lacks
    <3> QED
      BY <1>1, <3>1
  <2> QED
    BY <2>5, <2>7, <2>8
<1> QED
  BY <1>2, <1>3 DEF Chat!Accepted

LEMMA DropResult ==
    ASSUME NEW n \in Nat, NEW rows \in Seq(Chat!Row(n)), NEW C \in SUBSET (1 .. n), NEW M \in SUBSET C,
           NEW x \in C \ M, Chat!Lacks(rows, M), Chat!Open(rows, C)
    PROVE  LET new == Chat!Those(rows, {i \in DOMAIN rows : rows[i].role # "tool" \/ rows[i].id # x})
           IN  Chat!Lacks(new, M \cup {x}) /\ Chat!Open(new, C)
<1> DEFINE L == Len(rows)
           S == {i \in DOMAIN rows : rows[i].role # "tool" \/ rows[i].id # x}
           new == Chat!Those(rows, S)
<1>1. L \in Nat /\ DOMAIN rows = 1 .. L
  BY RowFacts
<1>2. PICK a \in 1 .. L : C \subseteq rows[a].calls /\ \A k \in a + 1 .. L : rows[k].role = "tool"
  BY <1>1 DEF Chat!Open
<1>3. PICK p \in 1 .. L : rows[p].id = x
  BY <1>1, <1>2 DEF Chat!Lacks
<1>4. x # 0 /\ rows[p].role = "tool" /\ rows[p].calls = {}
  BY <1>3, RowFacts
<1>5. \A i \in 1 .. L : rows[i].id = x => i = p
  BY <1>1, <1>3, <1>4 DEF Chat!Lacks
<1>6. S = (1 .. L) \ {p}
  BY <1>1, <1>3, <1>4, <1>5
<1>7. Cardinality(S) = L - 1 /\ S \in SUBSET DOMAIN rows
  <2>1. IsFiniteSet(1 .. L) /\ Cardinality(1 .. L) = L
    BY <1>1, UpToN
  <2>2. Cardinality((1 .. L) \ {p}) = L - 1
    <3> DEFINE all == 1 .. L
    <3>1. p \in all /\ IsFiniteSet(all) /\ Cardinality(all) = L
      BY <2>1
    <3> HIDE DEF all
    <3>2. Cardinality(all \ {p}) = L - 1
      BY <3>1, FS_RemoveElement
    <3> QED
      BY <3>2 DEF all
  <2> QED
    BY <1>6, <2>2
<1> DEFINE up(k) == IF k < p THEN k ELSE k + 1
           down(i) == IF i < p THEN i ELSE i - 1
<1>8. /\ DOMAIN new = 1 .. L - 1 /\ Len(new) = L - 1
      /\ \A k \in 1 .. L - 1 : new[k] = rows[up(k)]
  <2> HIDE DEF S
  <2>1. /\ new \in Seq(Chat!Row(n)) /\ Len(new) = L - 1
        /\ \A k \in 1 .. L - 1 : new[k] = rows[Chat!Nth(S, k)]
    BY <1>7, ThoseRows
  <2>2. \A k \in 1 .. L - 1 : Chat!Nth(S, k) = up(k)
    BY <1>1, <1>6, NthButOne
  <2>3. DOMAIN new = 1 .. L - 1
    BY <2>1
  <2> HIDE DEF new
  <2> QED
    BY <2>1, <2>2, <2>3
<1> HIDE DEF new, S, L
<1>9. \A k \in 1 .. L - 1 : up(k) \in 1 .. L /\ up(k) # p
  BY <1>1
<1>10. \A i \in 1 .. L : i # p => down(i) \in 1 .. L - 1 /\ up(down(i)) = i
  BY <1>1
<1>11. \A i \in 1 .. L : i # p => new[down(i)] = rows[i]
  BY <1>8, <1>10
<1>12. \A i, j \in 1 .. L : i # p /\ j # p /\ i < j => down(i) < down(j)
  BY <1>1
<1>13. ASSUME NEW i \in 1 .. L, NEW j \in 1 .. L, i # p, j # p, Chat!Behind(rows, i, j)
       PROVE  Chat!Behind(new, down(i), down(j))
  <2>1. i < j /\ rows[j].id \in rows[i].calls /\ \A k \in i + 1 .. j : rows[k].role = "tool"
    BY <1>13 DEF Chat!Behind
  <2>2. down(i) < down(j) /\ new[down(j)].id \in new[down(i)].calls
    BY <1>11, <1>12, <1>13, <2>1
  <2>3. ASSUME NEW k \in down(i) + 1 .. down(j)
        PROVE  new[k].role = "tool"
    <3>1. k \in 1 .. L - 1 /\ up(k) \in i + 1 .. j
      BY <1>1, <1>10, <1>13
    <3> QED
      BY <1>8, <2>1, <3>1
  <2> HIDE DEF down, up
  <2> QED
    BY <2>2, <2>3 DEF Chat!Behind
<1> HIDE DEF up, down
<1>14. ASSUME NEW k \in DOMAIN new, new[k].role = "tool"
       PROVE  \E i \in DOMAIN new : Chat!Behind(new, i, k)
  <2>1. up(k) \in 1 .. L /\ up(k) # p /\ rows[up(k)].role = "tool" /\ k \in 1 .. L - 1
    BY <1>8, <1>9, <1>14
  <2>2. PICK i \in 1 .. L : Chat!Behind(rows, i, up(k))
    BY <1>1, <2>1 DEF Chat!Lacks
  <2>3. i # p
    BY <1>4, <2>2 DEF Chat!Behind
  <2>4. Chat!Behind(new, down(i), down(up(k)))
    BY <1>13, <2>1, <2>2, <2>3
  <2>5. down(up(k)) = k
    BY <1>1, <2>1 DEF up, down
  <2> QED
    BY <1>8, <1>10, <2>3, <2>4, <2>5
<1>15. ASSUME NEW k \in DOMAIN new, NEW c \in new[k].calls \ (M \cup {x})
       PROVE  \E j \in DOMAIN new : new[j].id = c
  <2>1. up(k) \in 1 .. L /\ c \in rows[up(k)].calls \ M
    BY <1>8, <1>9
  <2>2. PICK j \in 1 .. L : rows[j].id = c
    BY <1>1, <2>1 DEF Chat!Lacks
  <2>3. j # p
    BY <1>3, <2>2
  <2> QED
    BY <1>8, <1>10, <1>11, <2>2, <2>3
<1>16. \A k \in DOMAIN new : new[k].id \notin M \cup {x}
  <2>1. TAKE k \in DOMAIN new
  <2>2. up(k) \in 1 .. L /\ up(k) # p /\ new[k] = rows[up(k)]
    BY <1>8, <1>9
  <2>3. rows[up(k)].id \notin M
    BY <1>1, <2>2 DEF Chat!Lacks
  <2> QED
    BY <1>5, <2>2, <2>3
<1>17. ASSUME NEW i \in DOMAIN new, NEW j \in DOMAIN new, i # j
       PROVE  new[i].calls \cap new[j].calls = {} /\ (new[i].id = new[j].id => new[i].id = 0)
  <2>1. up(i) \in 1 .. L /\ up(j) \in 1 .. L /\ new[i] = rows[up(i)] /\ new[j] = rows[up(j)]
    BY <1>8, <1>9
  <2>2. up(i) # up(j)
    BY <1>1, <1>8, <1>17 DEF up
  <2> QED
    BY <1>1, <2>1, <2>2 DEF Chat!Lacks
<1>18. Chat!Open(new, C)
  <2>1. a # p
    BY <1>2, <1>4
  <2>2. down(a) \in DOMAIN new /\ C \subseteq new[down(a)].calls
    BY <1>2, <1>8, <1>10, <1>11, <2>1
  <2>3. ASSUME NEW k \in down(a) + 1 .. Len(new)
        PROVE  new[k].role = "tool"
    <3>1. k \in 1 .. L - 1 /\ up(k) \in a + 1 .. L
      BY <1>1, <1>8, <2>1, <2>2 DEF up, down
    <3> QED
      BY <1>2, <1>8, <3>1
  <2> QED
    BY <2>2, <2>3 DEF Chat!Open
<1>19. Chat!Lacks(new, M \cup {x})
  BY <1>14, <1>15, <1>16, <1>17 DEF Chat!Lacks
<1> QED
  BY <1>18, <1>19 DEF new, S

-----------------------------------------------------------------------------
(* Tidy conversations. *)

LEMMA NoCallsOpen == \A rows : Chat!Open(rows, {})
  BY DEF Chat!Open

LEMMA SameMissing ==
    ASSUME NEW q, pc'[q] = pc[q], job'[q] = job[q]
    PROVE  Chat!Missing(q)' = Chat!Missing(q) /\ Chat!Touched(q)' = Chat!Touched(q)
<1>1. Chat!Missing(q)' = Chat!Missing(q)
  <2>1. CASE pc[q] = "tools"
    BY <2>1 DEF Chat!Missing
  <2>2. CASE pc[q] = "unhold"
    BY <2>2 DEF Chat!Missing
  <2>3. CASE pc[q] = "apply"
    BY <2>3 DEF Chat!Missing
  <2>4. CASE pc[q] \notin {"tools", "unhold", "apply"}
    BY <2>4 DEF Chat!Missing
  <2> QED
    BY <2>1, <2>2, <2>3, <2>4
<1> QED
  BY <1>1 DEF Chat!Touched

(* The step of a request leaves the other conversations alone. *)
LEMMA TidyGoes ==
    ASSUME Chat!TypeOK, Chat!TidyInv, NEW r \in Chat!InFlight, NEW at, NEW locals,
           pc' = [pc EXCEPT ![r] = at], job' = [job EXCEPT ![r] = locals],
           at # "new", locals.of = job[r].of \/ at = "done",
           tidy' \subseteq tidy,
           \A k \in Conversations : k # job[r].of => messages'[k] = messages[k],
           job[r].of \in tidy' =>
              IF at = "done" THEN Chat!Lacks(messages'[job[r].of], {}) ELSE Chat!InOrder(r)'
    PROVE  Chat!TidyInv'
<1>1. /\ r \in Chat!Requests /\ tidy \subseteq Conversations
      /\ pc \in [Chat!Requests -> Chat!Steps] /\ job \in [Chat!Requests -> Chat!Job(Len(kind))]
  BY DEF Chat!TypeOK, Chat!InFlight
<1>2. pc'[r] = at /\ job'[r] = locals /\ \A q \in Chat!Requests \ {r} : pc'[q] = pc[q] /\ job'[q] = job[q]
  BY <1>1
<1>3. /\ \A q \in Chat!InFlight' : q \in Chat!InFlight /\ job'[q].of = job[q].of
      /\ \A q \in Chat!InFlight : q # r => q \in Chat!InFlight' /\ job'[q].of = job[q].of
      /\ r \in Chat!InFlight' <=> at # "done"
  BY <1>1, <1>2 DEF Chat!InFlight
<1>4. \A q, p \in Chat!InFlight' : job'[q].of = job'[p].of /\ job'[q].of \in tidy' => q = p
  BY <1>3 DEF Chat!TidyInv
<1>5. ASSUME NEW q \in Chat!InFlight', job'[q].of \in tidy'
      PROVE  Chat!InOrder(q)'
  <2>1. CASE q = r
    BY <1>3, <1>5, <2>1
  <2>2. CASE q # r
    <3>1. q \in Chat!InFlight /\ job[q].of \in tidy /\ job[q].of # job[r].of
      BY <1>3, <1>5, <2>2 DEF Chat!TidyInv
    <3>2. Chat!InOrder(q) /\ messages'[job[q].of] = messages[job[q].of]
      BY <1>1, <3>1 DEF Chat!TidyInv
    <3>3. pc'[q] = pc[q] /\ job'[q] = job[q]
      BY <1>2, <2>2, <3>1 DEF Chat!InFlight
    <3>4. Chat!Missing(q)' = Chat!Missing(q) /\ Chat!Touched(q)' = Chat!Touched(q)
      BY <3>3, SameMissing
    <3> QED
      BY <3>2, <3>3, <3>4 DEF Chat!InOrder
  <2> QED
    BY <2>1, <2>2
<1>6. ASSUME NEW k \in tidy', Chat!OnlyIn(k)'
      PROVE  Chat!Lacks(messages'[k], {})
  <2>1. CASE k = job[r].of
    <3>1. at = "done"
      BY <1>3, <1>6, <2>1 DEF Chat!OnlyIn
    <3> QED
      BY <2>1, <3>1
  <2>2. CASE k # job[r].of
    <3>1. Chat!OnlyIn(k)
      BY <1>3, <1>6, <2>2 DEF Chat!OnlyIn
    <3>2. messages'[k] = messages[k]
      BY <1>1, <2>2
    <3> QED
      BY <3>1, <3>2 DEF Chat!TidyInv
  <2> QED
    BY <2>1, <2>2
<1> QED
  BY <1>4, <1>5, <1>6 DEF Chat!TidyInv

LEMMA TidyClicked ==
    ASSUME Chat!TypeOK, Chat!TidyInv, NEW r \in Chat!Requests, pc[r] = "new", NEW at, NEW locals,
           pc' = [pc EXCEPT ![r] = at], job' = [job EXCEPT ![r] = locals],
           at \notin {"new", "done"}, tidy' \subseteq tidy, messages' = messages,
           locals.of \in tidy' => Chat!OnlyIn(locals.of) /\ Chat!InOrder(r)'
    PROVE  Chat!TidyInv'
<1>1. pc \in [Chat!Requests -> Chat!Steps] /\ job \in [Chat!Requests -> Chat!Job(Len(kind))]
  BY DEF Chat!TypeOK
<1>2. pc'[r] = at /\ job'[r] = locals /\ \A q \in Chat!Requests \ {r} : pc'[q] = pc[q] /\ job'[q] = job[q]
  BY <1>1
<1>3. /\ \A q \in Chat!InFlight' : q = r \/ (q \in Chat!InFlight /\ q # r /\ job'[q] = job[q])
      /\ \A q \in Chat!InFlight : q # r /\ q \in Chat!InFlight' /\ job'[q] = job[q]
      /\ r \in Chat!InFlight'
  BY <1>1, <1>2 DEF Chat!InFlight
<1>4. ASSUME NEW q \in Chat!InFlight', NEW p \in Chat!InFlight', job'[q].of = job'[p].of, job'[q].of \in tidy'
      PROVE  q = p
  BY <1>2, <1>3, <1>4 DEF Chat!TidyInv, Chat!OnlyIn
<1>5. ASSUME NEW q \in Chat!InFlight', job'[q].of \in tidy'
      PROVE  Chat!InOrder(q)'
  <2>1. CASE q = r
    BY <1>2, <1>5, <2>1
  <2>2. CASE q # r
    <3>1. q \in Chat!InFlight /\ job'[q] = job[q] /\ pc'[q] = pc[q]
      BY <1>2, <1>3, <2>2 DEF Chat!InFlight
    <3>2. Chat!InOrder(q)
      BY <1>5, <3>1 DEF Chat!TidyInv
    <3>3. Chat!Missing(q)' = Chat!Missing(q) /\ Chat!Touched(q)' = Chat!Touched(q)
      BY <3>1, SameMissing
    <3> QED
      BY <3>1, <3>2, <3>3 DEF Chat!InOrder
  <2> QED
    BY <2>1, <2>2
<1>6. ASSUME NEW k \in tidy', Chat!OnlyIn(k)'
      PROVE  Chat!Lacks(messages'[k], {})
  <2>1. Chat!OnlyIn(k)
    BY <1>3, <1>6 DEF Chat!OnlyIn
  <2> QED
    BY <2>1 DEF Chat!TidyInv
<1> QED
  BY <1>4, <1>5, <1>6 DEF Chat!TidyInv

(* What it takes to be in order, step by step. *)
LEMMA InOrderNow ==
    ASSUME Chat!TypeOK, NEW r \in Chat!Requests, NEW at, NEW locals, NEW rows,
           pc' = [pc EXCEPT ![r] = at], job' = [job EXCEPT ![r] = locals], messages'[locals.of] = rows,
           at \notin {"deleteMessages", "deleteRow"}
    PROVE  /\ at \notin {"chat", "tools", "unhold", "apply"} /\ Chat!Lacks(rows, {}) => Chat!InOrder(r)'
           /\ at = "chat" /\ Chat!Lacks(rows, {}) /\ Chat!Lacks(locals.history, {}) => Chat!InOrder(r)'
           /\ /\ at = "tools" /\ Chat!Lacks(rows, locals.todo \cup locals.wait)
              /\ Chat!Open(rows, locals.todo \cup locals.wait) /\ locals.todo \cap locals.wait = {}
              /\ \/ /\ Chat!Lacks(locals.history, locals.todo \cup locals.wait)
                    /\ Chat!Open(locals.history, locals.todo \cup locals.wait)
                 \/ locals.todo = {} /\ locals.wait # {}
              => Chat!InOrder(r)'
           /\ /\ at = "unhold" /\ Chat!Lacks(rows, locals.calls \ locals.todo)
              /\ Chat!Open(rows, locals.calls) /\ locals.todo \subseteq locals.calls
              => Chat!InOrder(r)'
           /\ at = "apply" /\ Chat!Lacks(rows, locals.todo) /\ Chat!Open(rows, locals.todo) => Chat!InOrder(r)'
<1>1. pc'[r] = at /\ job'[r] = locals /\ messages'[job'[r].of] = rows
  BY DEF Chat!TypeOK
<1>2. at \notin {"chat", "tools", "unhold", "apply"} /\ Chat!Lacks(rows, {}) => Chat!InOrder(r)'
  <2> HAVE at \notin {"chat", "tools", "unhold", "apply"} /\ Chat!Lacks(rows, {})
  <2>1. Chat!Missing(r)' = {} /\ Chat!Touched(r)' = {}
    BY <1>1 DEF Chat!Missing, Chat!Touched
  <2> QED
    BY <1>1, <2>1, NoCallsOpen DEF Chat!InOrder
<1>3. at = "chat" /\ Chat!Lacks(rows, {}) /\ Chat!Lacks(locals.history, {}) => Chat!InOrder(r)'
  <2> HAVE at = "chat" /\ Chat!Lacks(rows, {}) /\ Chat!Lacks(locals.history, {})
  <2>1. Chat!Missing(r)' = {} /\ Chat!Touched(r)' = {}
    BY <1>1 DEF Chat!Missing, Chat!Touched
  <2> QED
    BY <1>1, <2>1, NoCallsOpen DEF Chat!InOrder
<1>4. ASSUME at = "tools", Chat!Lacks(rows, locals.todo \cup locals.wait),
             Chat!Open(rows, locals.todo \cup locals.wait), locals.todo \cap locals.wait = {},
             \/ /\ Chat!Lacks(locals.history, locals.todo \cup locals.wait)
                /\ Chat!Open(locals.history, locals.todo \cup locals.wait)
             \/ locals.todo = {} /\ locals.wait # {}
      PROVE  Chat!InOrder(r)'
  <2>1. Chat!Missing(r)' = locals.todo \cup locals.wait /\ Chat!Touched(r)' = locals.todo \cup locals.wait
    BY <1>1, <1>4 DEF Chat!Missing, Chat!Touched
  <2> QED
    BY <1>1, <1>4, <2>1 DEF Chat!InOrder
<1>5. ASSUME at = "unhold", Chat!Lacks(rows, locals.calls \ locals.todo),
             Chat!Open(rows, locals.calls), locals.todo \subseteq locals.calls
      PROVE  Chat!InOrder(r)'
  <2>1. Chat!Missing(r)' = locals.calls \ locals.todo /\ Chat!Touched(r)' = locals.calls
    BY <1>1, <1>5 DEF Chat!Missing, Chat!Touched
  <2> QED
    BY <1>1, <1>5, <2>1 DEF Chat!InOrder
<1>6. ASSUME at = "apply", Chat!Lacks(rows, locals.todo), Chat!Open(rows, locals.todo)
      PROVE  Chat!InOrder(r)'
  <2>1. Chat!Missing(r)' = locals.todo /\ Chat!Touched(r)' = locals.todo
    BY <1>1, <1>6 DEF Chat!Missing, Chat!Touched
  <2> QED
    BY <1>1, <1>6, <2>1 DEF Chat!InOrder
<1> QED
  BY <1>2, <1>3, <1>4, <1>5, <1>6

LEMMA TidyRequest ==
    ASSUME Chat!TypeOK, Chat!TidyInv, NEW r \in Chat!Requests, Chat!Step(r)
    PROVE  Chat!TidyInv'
<1> PICK n \in Nat : n = Len(kind) /\ Len(kind) <= n
  BY TypeParts
<1> DEFINE k == job[r].of
           rows == messages[k]
<1>1. pc[r] \notin {"new", "done"} /\ k \in Conversations /\ r \in Chat!InFlight
  <2>1. pc[r] \notin {"new", "done"}
    BY DEF Chat!Step, Chat!Receive, Chat!ReadPrior, Chat!Answers, Chat!AsksForTools, Chat!RunTool,
           Chat!NextIteration, Chat!Hold, Chat!DropPlaceholder, Chat!Apply, Chat!Applied
  <2> QED
    BY <2>1, TypeParts DEF Chat!InFlight
<1>2. /\ job[r] \in Chat!Job(n) /\ rows \in Seq(Chat!Row(n)) /\ messages \in [Conversations -> Seq(Chat!Row(n))]
      /\ job[r].todo \in SUBSET (1 .. n) /\ job[r].wait \in SUBSET (1 .. n) /\ job[r].calls \in SUBSET (1 .. n)
      /\ job[r].history \in Seq(Chat!Row(n))
  BY <1>1, TypeParts, JobFields DEF ServerType
<1>3. Chat!Failed(r).of = k /\ Chat!Answered(r).of = k
  BY FailedIsJob
<1>4. /\ Chat!User.role # "tool" /\ Chat!User.calls = {} /\ Chat!User.id = 0
      /\ Chat!Text.role # "tool" /\ Chat!Text.calls = {} /\ Chat!Text.id = 0
  BY DEF Chat!User, Chat!Text
<1>5. \A x : /\ Chat!Result(x).role = "tool" /\ Chat!Result(x).calls = {} /\ Chat!Result(x).id = x
             /\ Chat!Placeholder(x).role = "tool" /\ Chat!Placeholder(x).calls = {} /\ Chat!Placeholder(x).id = x
  BY DEF Chat!Result, Chat!Placeholder
<1>6. k \in tidy =>
        /\ Chat!InOrder(r) /\ k \in exists
        /\ pc[r] \notin {"tools", "unhold", "apply"} => Chat!Lacks(rows, {})
        /\ pc[r] = "chat" => Chat!Lacks(job[r].history, {})
        /\ pc[r] = "tools" =>
              LET M == job[r].todo \cup job[r].wait
              IN  /\ Chat!Lacks(rows, M) /\ Chat!Open(rows, M) /\ job[r].todo \cap job[r].wait = {}
                  /\ \/ Chat!Lacks(job[r].history, M) /\ Chat!Open(job[r].history, M)
                     \/ job[r].todo = {} /\ job[r].wait # {}
        /\ pc[r] = "unhold" =>
              /\ Chat!Lacks(rows, job[r].calls \ job[r].todo) /\ Chat!Open(rows, job[r].calls)
              /\ job[r].todo \subseteq job[r].calls
        /\ pc[r] = "apply" => Chat!Lacks(rows, job[r].todo) /\ Chat!Open(rows, job[r].todo)
  <2> HAVE k \in tidy
  <2>1. Chat!InOrder(r) /\ k \in exists
    BY <1>1 DEF Chat!TidyInv, Chat!TypeOK
  <2>2. CASE pc[r] \notin {"tools", "unhold", "apply"}
    BY <2>1, <2>2 DEF Chat!InOrder, Chat!Missing
  <2>3. CASE pc[r] = "tools"
    BY <2>1, <2>3 DEF Chat!InOrder, Chat!Missing, Chat!Touched
  <2>4. CASE pc[r] = "unhold"
    BY <2>1, <2>4 DEF Chat!InOrder, Chat!Missing, Chat!Touched
  <2>5. CASE pc[r] = "apply"
    BY <2>1, <2>5 DEF Chat!InOrder, Chat!Missing, Chat!Touched
  <2> QED
    BY <2>2, <2>3, <2>4, <2>5
<1>7. ASSUME NEW at, NEW locals, Chat!Goto(r, at, locals), locals.of = k,
             at \notin {"new", "done", "deleteMessages", "deleteRow"},
             NEW new, messages' = [messages EXCEPT ![k] = new] \/ (messages' = messages /\ new = rows),
             k \in tidy =>
                \/ at \notin {"chat", "tools", "unhold", "apply"} /\ Chat!Lacks(new, {})
                \/ at = "chat" /\ Chat!Lacks(new, {}) /\ Chat!Lacks(locals.history, {})
                \/ /\ at = "tools" /\ Chat!Lacks(new, locals.todo \cup locals.wait)
                   /\ Chat!Open(new, locals.todo \cup locals.wait) /\ locals.todo \cap locals.wait = {}
                   /\ \/ /\ Chat!Lacks(locals.history, locals.todo \cup locals.wait)
                         /\ Chat!Open(locals.history, locals.todo \cup locals.wait)
                      \/ locals.todo = {} /\ locals.wait # {}
                \/ /\ at = "unhold" /\ Chat!Lacks(new, locals.calls \ locals.todo)
                   /\ Chat!Open(new, locals.calls) /\ locals.todo \subseteq locals.calls
                \/ at = "apply" /\ Chat!Lacks(new, locals.todo) /\ Chat!Open(new, locals.todo)
      PROVE  Chat!TidyInv'
  <2>1. pc' = [pc EXCEPT ![r] = at] /\ job' = [job EXCEPT ![r] = locals] /\ tidy' = tidy
    BY <1>7 DEF Chat!Goto
  <2>2. messages'[k] = new /\ \A q \in Conversations : q # k => messages'[q] = messages[q]
    BY <1>1, <1>2, <1>7
  <2>3. messages'[locals.of] = new
    BY <1>7, <2>2
  <2>4. k \in tidy => Chat!InOrder(r)'
    <3> HAVE k \in tidy
    <3> HIDE DEF k, rows
    <3> QED
      BY <1>7, <2>1, <2>3, InOrderNow
  <2> HIDE DEF rows
  <2> QED
    BY <1>1, <1>7, <2>1, <2>2, <2>4, TidyGoes
<1>20. ASSUME NEW at \in {"read", "answered", "error", "confirm"}, NEW locals, Chat!Goto(r, at, locals), locals.of = k,
              NEW new, messages' = [messages EXCEPT ![k] = new], k \in tidy => Chat!Lacks(new, {})
       PROVE  Chat!TidyInv'
  BY <1>7, <1>20
<1>21. ASSUME NEW at \in {"read", "answered", "error", "confirm"}, NEW locals, Chat!Goto(r, at, locals), locals.of = k,
              messages' = messages, k \in tidy => Chat!Lacks(rows, {})
       PROVE  Chat!TidyInv'
  BY <1>7, <1>21
<1>22. ASSUME NEW locals, Chat!Goto(r, "chat", locals), locals.of = k, messages' = messages,
              k \in tidy => Chat!Lacks(rows, {}) /\ Chat!Lacks(locals.history, {})
       PROVE  Chat!TidyInv'
  BY <1>7, <1>22
<1>23. ASSUME NEW locals, Chat!Goto(r, "tools", locals), locals.of = k,
              NEW new, messages' = [messages EXCEPT ![k] = new],
              NEW M, M = locals.todo \cup locals.wait,
              k \in tidy =>
                 /\ Chat!Lacks(new, M) /\ Chat!Open(new, M) /\ locals.todo \cap locals.wait = {}
                 /\ (Chat!Lacks(locals.history, M) /\ Chat!Open(locals.history, M)) \/ (locals.todo = {} /\ locals.wait # {})
       PROVE  Chat!TidyInv'
  BY <1>7, <1>23
<1>24. ASSUME NEW locals, Chat!Goto(r, "unhold", locals), locals.of = k,
              NEW new, messages' = [messages EXCEPT ![k] = new],
              k \in tidy => Chat!Lacks(new, locals.calls \ locals.todo) /\ Chat!Open(new, locals.calls)
                            /\ locals.todo \subseteq locals.calls
       PROVE  Chat!TidyInv'
  BY <1>7, <1>24
<1>25. ASSUME NEW locals, Chat!Goto(r, "apply", locals), locals.of = k,
              NEW new, messages' = [messages EXCEPT ![k] = new] \/ (messages' = messages /\ new = rows),
              k \in tidy => Chat!Lacks(new, locals.todo) /\ Chat!Open(new, locals.todo)
       PROVE  Chat!TidyInv'
  BY <1>7, <1>25
<1>8. CASE Chat!Receive(r)
  <2>1. CASE k \in exists
    <3>1. Chat!Goto(r, "read", job[r]) /\ messages' = [messages EXCEPT ![k] = Append(rows, Chat!User)] /\ pc[r] = "receive"
      BY <1>8, <2>1 DEF Chat!Receive, Chat!Store
    <3>2. k \in tidy => Chat!Lacks(Append(rows, Chat!User), {})
      BY <1>2, <1>4, <1>6, <3>1, AppendWords
    <3> QED
      BY <1>20, <3>1, <3>2
  <2>2. CASE k \notin exists
    <3>1. Chat!Goto(r, "error", Chat!Failed(r)) /\ messages' = messages /\ k \notin tidy
      BY <1>6, <1>8, <2>2 DEF Chat!Receive
    <3> QED
      BY <1>3, <1>21, <3>1
  <2> QED
    BY <2>1, <2>2
<1>9. CASE Chat!ReadPrior(r)
  <2> DEFINE l == [job[r] EXCEPT !.history = Chat!Prior(k)]
  <2>1. Chat!Goto(r, "chat", l) /\ messages' = messages /\ pc[r] = "read"
    BY <1>9 DEF Chat!ReadPrior, Chat!server
  <2>2. l.of = k /\ l.history = Chat!Prior(k)
    BY <1>2 DEF Chat!Job
  <2>3. k \in tidy => Chat!Lacks(rows, {}) /\ Chat!Lacks(Chat!Prior(k), {})
    BY <1>2, <1>6, <2>1, HistoryIsAll, LastUserAlone DEF Chat!Prior
  <2> HIDE DEF l
  <2> QED
    BY <1>22, <2>1, <2>2, <2>3
<1>10. CASE Chat!Answers(r)
  <2>1. CASE Chat!Store(r, Chat!Text) /\ Chat!Goto(r, "answered", Chat!Answered(r))
    <3>1. messages' = [messages EXCEPT ![k] = Append(rows, Chat!Text)] /\ pc[r] = "chat"
      BY <1>10, <2>1 DEF Chat!Answers, Chat!Store
    <3>2. k \in tidy => Chat!Lacks(Append(rows, Chat!Text), {})
      BY <1>2, <1>4, <1>6, <3>1, AppendWords
    <3> QED
      BY <1>3, <1>20, <2>1, <3>1, <3>2
  <2>2. CASE Chat!Goto(r, "error", Chat!Failed(r)) /\ messages' = messages
    <3>1. pc[r] = "chat"
      BY <1>10 DEF Chat!Answers
    <3> QED
      BY <1>3, <1>6, <1>21, <2>2, <3>1
  <2> QED
    BY <1>10, <2>1, <2>2 DEF Chat!Answers
<1>11. CASE Chat!AsksForTools(r)
  <2>1. PICK list \in FewToolLists :
           LET id(i) == Len(kind) + i
               calls == {id(i) : i \in DOMAIN list}
               waiting == {id(i) : i \in {j \in DOMAIN list : Chat!Waits(list, j)}}
           IN  /\ Chat!Store(r, Chat!Asks(calls))
               /\ Chat!Goto(r, "tools", [job[r] EXCEPT
                     !.history = Append(@, Chat!Asks(calls)), !.wait = waiting, !.todo = calls \ waiting])
    BY <1>11 DEF Chat!AsksForTools
  <2> DEFINE calls == {Len(kind) + i : i \in DOMAIN list}
             waiting == {Len(kind) + i : i \in {j \in DOMAIN list : Chat!Waits(list, j)}}
             asks == Chat!Asks(calls)
             l == [job[r] EXCEPT !.history = Append(@, asks), !.wait = waiting, !.todo = calls \ waiting]
             m == n + Len(list)
  <2>2. /\ messages' = [messages EXCEPT ![k] = Append(rows, asks)] /\ Chat!Goto(r, "tools", l)
    BY <2>1 DEF Chat!Store
  <2>3. calls \in SUBSET (n + 1 .. m) /\ m \in Nat /\ waiting \subseteq calls
    <3>1. list \in Seq({"safe", "mutate"}) /\ Len(list) \in Nat /\ DOMAIN list = 1 .. Len(list)
      BY ChatConstants
    <3> QED
      BY <3>1
  <2>4. pc[r] = "chat"
    BY <1>11 DEF Chat!AsksForTools
  <2> HIDE DEF calls, waiting, m
  <2>5. /\ l.of = k /\ l.todo \cup l.wait = calls /\ l.todo \cap l.wait = {}
        /\ l.history = Append(job[r].history, asks)
    BY <1>2, <2>3 DEF Chat!Job
  <2>6. k \in tidy => /\ Chat!Lacks(Append(rows, asks), calls) /\ Chat!Open(Append(rows, asks), calls)
                      /\ Chat!Lacks(l.history, calls) /\ Chat!Open(l.history, calls)
    BY <1>2, <1>6, <2>3, <2>4, <2>5, AppendAsks
  <2> HIDE DEF asks, l
  <2> QED
    BY <1>23, <2>2, <2>5, <2>6
<1>12. CASE Chat!RunTool(r)
  <2> DEFINE id == Chat!Min(job[r].todo)
             l == [job[r] EXCEPT !.todo = @ \ {id}, !.history = Append(@, Chat!Result(id))]
             M == job[r].todo \cup job[r].wait
             res == Chat!Result(id)
  <2>1. /\ messages' = [messages EXCEPT ![k] = Append(rows, res)] /\ Chat!Goto(r, "tools", l)
        /\ job[r].todo # {} /\ pc[r] = "tools"
    BY <1>12 DEF Chat!RunTool, Chat!Store
  <2>2. id \in job[r].todo
    BY <1>2, <2>1, MinIsIn
  <2>3. res.role = "tool" /\ res.calls = {} /\ res.id = id
    BY <1>5
  <2> HIDE DEF id, res
  <2>4. /\ l.of = k /\ l.todo = job[r].todo \ {id} /\ l.wait = job[r].wait
        /\ l.history = Append(job[r].history, res)
    BY <1>2 DEF Chat!Job, res
  <2>5. k \in tidy =>
          /\ Chat!Lacks(rows, M) /\ Chat!Open(rows, M) /\ job[r].todo \cap job[r].wait = {}
          /\ Chat!Lacks(job[r].history, M) /\ Chat!Open(job[r].history, M)
    BY <1>6, <2>1
  <2>6. k \in tidy => M \ {id} = l.todo \cup l.wait /\ l.todo \cap l.wait = {} /\ id \in M
    BY <2>2, <2>4, <2>5
  <2> HIDE DEF M
  <2>7. k \in tidy => /\ Chat!Lacks(Append(rows, res), M \ {id}) /\ Chat!Open(Append(rows, res), M \ {id})
                      /\ Chat!Lacks(l.history, M \ {id}) /\ Chat!Open(l.history, M \ {id})
    <3> HAVE k \in tidy
    <3>1. id \in M /\ Chat!Lacks(rows, M) /\ Chat!Open(rows, M) /\ Chat!Lacks(job[r].history, M) /\ Chat!Open(job[r].history, M)
      BY <2>5, <2>6
    <3>2. Chat!Lacks(Append(rows, res), M \ {id}) /\ Chat!Open(Append(rows, res), M \ {id})
      BY <1>2, <2>3, <3>1, AppendResult
    <3>3. Chat!Lacks(Append(job[r].history, res), M \ {id}) /\ Chat!Open(Append(job[r].history, res), M \ {id})
      BY <1>2, <2>3, <3>1, AppendResult
    <3> QED
      BY <2>4, <3>2, <3>3
  <2> HIDE DEF l
  <2> QED
    BY <1>23, <2>1, <2>4, <2>6, <2>7
<1>13. CASE Chat!NextIteration(r)
  <2> DEFINE l == [job[r] EXCEPT !.iteration = @ + 1]
  <2>1. /\ Chat!Goto(r, "error", Chat!Failed(r)) \/ Chat!Goto(r, "chat", l)
        /\ messages' = messages /\ pc[r] = "tools" /\ job[r].todo = {} /\ job[r].wait = {}
    BY <1>13 DEF Chat!NextIteration, Chat!server
  <2>2. l.of = k /\ l.history = job[r].history
    BY <1>2 DEF Chat!Job
  <2>3. job[r].todo \cup job[r].wait = {}
    BY <2>1
  <2>4. k \in tidy => Chat!Lacks(rows, {}) /\ Chat!Lacks(job[r].history, {})
    BY <1>6, <2>1, <2>3
  <2> HIDE DEF l
  <2> QED
    BY <1>3, <1>21, <1>22, <2>1, <2>2, <2>4
<1>14. CASE Chat!Hold(r)
  <2> DEFINE id == Chat!Min(job[r].wait)
             rest == job[r].wait \ {id}
             l == [job[r] EXCEPT !.wait = rest, !.calls = @ \cup {id}, !.history = <<>>]
             held == Chat!Placeholder(id)
  <2>1. /\ messages' = [messages EXCEPT ![k] = Append(rows, held)]
        /\ Chat!Goto(r, IF rest = {} THEN "confirm" ELSE "tools", l)
        /\ job[r].todo = {} /\ job[r].wait # {} /\ pc[r] = "tools"
    BY <1>14 DEF Chat!Hold, Chat!Held
  <2>2. id \in job[r].wait
    BY <1>2, <2>1, MinIsIn
  <2>3. held.role = "tool" /\ held.calls = {} /\ held.id = id
    BY <1>5
  <2>4. job[r].todo \cup job[r].wait = job[r].wait
    BY <2>1
  <2> HIDE DEF id, held
  <2>5. l.of = k /\ l.todo = {} /\ l.wait = rest
    BY <1>2, <2>1 DEF Chat!Job
  <2>6. k \in tidy => Chat!Lacks(Append(rows, held), rest) /\ Chat!Open(Append(rows, held), rest)
    <3> HAVE k \in tidy
    <3>1. Chat!Lacks(rows, job[r].wait) /\ Chat!Open(rows, job[r].wait)
      BY <1>6, <2>1, <2>4
    <3> QED
      BY <1>2, <2>2, <2>3, <3>1, AppendResult
  <2>7. l.todo \cup l.wait = rest /\ l.todo \cap l.wait = {}
    BY <2>5
  <2> HIDE DEF l, rest
  <2>8. CASE rest = {}
    <3>1. Chat!Goto(r, "confirm", l)
      BY <2>1, <2>8
    <3> QED
      BY <1>20, <2>1, <2>5, <2>6, <2>8, <3>1
  <2>9. CASE rest # {}
    <3>1. Chat!Goto(r, "tools", l)
      BY <2>1, <2>9
    <3> QED
      BY <1>23, <2>1, <2>5, <2>6, <2>7, <2>9, <3>1
  <2> QED
    BY <2>8, <2>9
<1>15. CASE Chat!DropPlaceholder(r)
  <2> DEFINE id == Chat!Min(job[r].todo)
             l == [job[r] EXCEPT !.todo = @ \ {id}]
             all == [job[r] EXCEPT !.todo = job[r].calls]
             new == Chat!Those(rows, {i \in DOMAIN rows : rows[i].role # "tool" \/ rows[i].id # id})
  <2>0. pc[r] = "unhold"
    BY <1>15 DEF Chat!DropPlaceholder
  <2> DEFINE Refused == k \notin exists /\ job[r].todo = job[r].calls
  <2>1. CASE Refused
    <3>1. Chat!Goto(r, "error", Chat!Failed(r)) /\ messages' = messages /\ k \notin tidy
      BY <1>6, <1>15, <2>1 DEF Chat!DropPlaceholder
    <3> QED
      BY <1>3, <1>21, <3>1
  <2>2. CASE ~Refused /\ job[r].todo = {}
    <3>1. Chat!Goto(r, "apply", all) /\ messages' = messages
      BY <1>15, <2>2 DEF Chat!DropPlaceholder
    <3>2. all.of = k /\ all.todo = job[r].calls
      BY <1>2 DEF Chat!Job
    <3>3. job[r].calls \ job[r].todo = job[r].calls
      BY <2>2
    <3>4. k \in tidy => Chat!Lacks(rows, all.todo) /\ Chat!Open(rows, all.todo)
      BY <1>6, <2>0, <3>2, <3>3
    <3> HIDE DEF all
    <3> QED
      BY <1>25, <3>1, <3>2, <3>4
  <2>3. CASE ~Refused /\ job[r].todo # {}
    <3>1. Chat!Goto(r, "unhold", l) /\ messages' = [messages EXCEPT ![k] = new]
      BY <1>15, <2>3 DEF Chat!DropPlaceholder
    <3>2. id \in job[r].todo
      BY <1>2, <2>3, MinIsIn
    <3> HIDE DEF id
    <3>3. l.of = k /\ l.todo = job[r].todo \ {id} /\ l.calls = job[r].calls
      BY <1>2 DEF Chat!Job
    <3>4. k \in tidy => Chat!Lacks(new, l.calls \ l.todo) /\ Chat!Open(new, l.calls) /\ l.todo \subseteq l.calls
      <4> HAVE k \in tidy
      <4> DEFINE M == job[r].calls \ job[r].todo
      <4>1. Chat!Lacks(rows, M) /\ Chat!Open(rows, job[r].calls) /\ job[r].todo \subseteq job[r].calls
        BY <1>6, <2>0
      <4>2. M \in SUBSET job[r].calls /\ id \in job[r].calls \ M /\ M \cup {id} = l.calls \ l.todo
        BY <3>2, <3>3, <4>1
      <4> HIDE DEF M
      <4> DEFINE C == job[r].calls
      <4>4. C \in SUBSET (1 .. n) /\ M \in SUBSET C /\ id \in C \ M /\ Chat!Lacks(rows, M) /\ Chat!Open(rows, C)
        BY <1>2, <4>1, <4>2
      <4> HIDE DEF C
      <4>3. Chat!Lacks(new, M \cup {id}) /\ Chat!Open(new, C)
        <5> HIDE DEF rows
        <5> QED
          BY <1>2, <4>4, DropResult
      <4> HIDE DEF new, l
      <4> QED
        BY <3>3, <4>1, <4>2, <4>3 DEF C
    <3> HIDE DEF l, new
    <3> QED
      BY <1>24, <3>1, <3>3, <3>4
  <2> QED
    BY <2>1, <2>2, <2>3
<1>16. CASE Chat!Apply(r)
  <2> DEFINE id == Chat!Min(job[r].todo)
             l == [job[r] EXCEPT !.todo = @ \ {id}]
             res == Chat!Result(id)
  <2>1. /\ messages' = [messages EXCEPT ![k] = Append(rows, res)] /\ Chat!Goto(r, "apply", l)
        /\ job[r].todo # {} /\ pc[r] = "apply"
    BY <1>16 DEF Chat!Apply, Chat!Store
  <2>2. id \in job[r].todo
    BY <1>2, <2>1, MinIsIn
  <2>3. res.role = "tool" /\ res.calls = {} /\ res.id = id
    BY <1>5
  <2> HIDE DEF id, res
  <2>4. l.of = k /\ l.todo = job[r].todo \ {id}
    BY <1>2 DEF Chat!Job
  <2>5. k \in tidy => Chat!Lacks(Append(rows, res), l.todo) /\ Chat!Open(Append(rows, res), l.todo)
    <3> HAVE k \in tidy
    <3> DEFINE M == job[r].todo
    <3>1. Chat!Lacks(rows, M) /\ Chat!Open(rows, M) /\ id \in M /\ l.todo = M \ {id}
      BY <1>6, <2>1, <2>2, <2>4
    <3> HIDE DEF M, l
    <3>2. Chat!Lacks(Append(rows, res), M \ {id}) /\ Chat!Open(Append(rows, res), M \ {id})
      BY <1>2, <2>3, <3>1, AppendResult
    <3> QED
      BY <3>1, <3>2
  <2> HIDE DEF l
  <2> QED
    BY <1>25, <2>1, <2>4, <2>5
<1>17. CASE Chat!Applied(r)
  <2> DEFINE l == [job[r] EXCEPT !.history = Chat!History(rows)]
  <2>1. Chat!Goto(r, "chat", l) /\ messages' = messages /\ pc[r] = "apply" /\ job[r].todo = {}
    BY <1>17 DEF Chat!Applied, Chat!server
  <2>2. l.of = k /\ l.history = Chat!History(rows)
    BY <1>2 DEF Chat!Job
  <2>3. k \in tidy => Chat!Lacks(rows, {}) /\ Chat!Lacks(l.history, {})
    BY <1>2, <1>6, <2>1, <2>2, HistoryIsAll
  <2> HIDE DEF l
  <2> QED
    BY <1>22, <2>1, <2>2, <2>3
<1> QED
  BY <1>8, <1>9, <1>10, <1>11, <1>12, <1>13, <1>14, <1>15, <1>16, <1>17 DEF Chat!Step


(* A request that is cut off, one that deletes, and one whose answer lands. *)
LEMMA TidyEnds ==
    ASSUME Chat!TypeOK, Chat!TidyInv, NEW r \in Chat!Requests,
           Chat!DeleteMessages(r) \/ Chat!DeleteRow(r) \/ Chat!Fail(r) \/ Chat!Land(r)
    PROVE  Chat!TidyInv' /\ (pc[r] = "deleteRow" => job[r].of \notin tidy)
<1> DEFINE k == job[r].of
<1>1. r \in Chat!InFlight /\ k \in Conversations /\ pc[r] \notin {"new", "done"}
  <2>1. pc[r] \notin {"new", "done"}
    BY DEF Chat!DeleteMessages, Chat!DeleteRow, Chat!Fail, Chat!Land
  <2> QED
    BY <2>1, TypeParts DEF Chat!InFlight
<1>2. pc[r] \in {"deleteMessages", "deleteRow"} => k \notin tidy
  BY <1>1 DEF Chat!TidyInv, Chat!InOrder
<1>3. Chat!Failed(r).of = k /\ Chat!Answered(r).of = k
  BY <1>1, TypeParts, FailedIsJob
<1>4. messages \in [Conversations -> Seq(Chat!Row(Len(kind)))]
  BY DEF Chat!TypeOK
<1>5. CASE Chat!DeleteMessages(r)
  <2>1. /\ pc' = [pc EXCEPT ![r] = "deleteRow"] /\ job' = [job EXCEPT ![r] = job[r]]
        /\ tidy' = tidy /\ messages' = [messages EXCEPT ![k] = <<>>] /\ k \notin tidy
    BY <1>2, <1>5 DEF Chat!DeleteMessages, Chat!Goto
  <2>2. \A q \in Conversations : q # k => messages'[q] = messages[q]
    BY <1>4, <2>1
  <2> DEFINE l == job[r]
             at == "deleteRow"
  <2>3. pc' = [pc EXCEPT ![r] = at] /\ job' = [job EXCEPT ![r] = l] /\ at # "new" /\ l.of = k
    BY <2>1
  <2>4. k \notin tidy' /\ tidy' \subseteq tidy
    BY <2>1
  <2> HIDE DEF l, at
  <2> QED
    BY <1>1, <1>2, <2>1, <2>2, <2>3, <2>4, TidyGoes
<1>6. CASE Chat!DeleteRow(r)
  <2>1. /\ pc' = [pc EXCEPT ![r] = "deleted"] /\ job' = [job EXCEPT ![r] = Chat!Answered(r)]
        /\ tidy' = tidy /\ messages' = messages /\ k \notin tidy
    BY <1>2, <1>6 DEF Chat!DeleteRow, Chat!Goto
  <2> DEFINE l == Chat!Answered(r)
             at == "deleted"
  <2>3. pc' = [pc EXCEPT ![r] = at] /\ job' = [job EXCEPT ![r] = l] /\ at # "new" /\ l.of = k
    BY <1>3, <2>1
  <2>4. k \notin tidy' /\ tidy' \subseteq tidy /\ \A q \in Conversations : q # k => messages'[q] = messages[q]
    BY <2>1
  <2> HIDE DEF l, at
  <2> QED
    BY <1>1, <1>2, <2>1, <2>3, <2>4, TidyGoes
<1>7. CASE Chat!Fail(r)
  <2>1. /\ pc' = [pc EXCEPT ![r] = "error"] /\ job' = [job EXCEPT ![r] = Chat!Failed(r)]
        /\ tidy' = tidy \ {k} /\ messages' = messages
    BY <1>7 DEF Chat!Fail, Chat!server
  <2> DEFINE l == Chat!Failed(r)
             at == "error"
  <2>3. pc' = [pc EXCEPT ![r] = at] /\ job' = [job EXCEPT ![r] = l] /\ at # "new" /\ l.of = k
    BY <1>3, <2>1
  <2>4. k \notin tidy' /\ tidy' \subseteq tidy /\ \A q \in Conversations : q # k => messages'[q] = messages[q]
    BY <2>1
  <2> HIDE DEF l, at
  <2> QED
    BY <1>1, <1>2, <2>1, <2>3, <2>4, TidyGoes
<1>8. CASE Chat!Land(r)
  <2>1. /\ pc' = [pc EXCEPT ![r] = "done"] /\ job' = [job EXCEPT ![r] = Chat!IdleJob]
        /\ tidy' = tidy /\ messages' = messages
        /\ pc[r] \in {"answered", "confirm", "error", "deleted"}
    BY <1>8 DEF Chat!Land, Chat!server
  <2> DEFINE l == Chat!IdleJob
             at == "done"
  <2>2. Chat!Missing(r) = {}
    BY <2>1 DEF Chat!Missing
  <2>3. pc' = [pc EXCEPT ![r] = at] /\ job' = [job EXCEPT ![r] = l] /\ at # "new" /\ at = "done"
    BY <2>1
  <2>4. tidy' \subseteq tidy /\ \A q \in Conversations : q # k => messages'[q] = messages[q]
    BY <2>1
  <2>5. k \in tidy' => Chat!Lacks(messages'[k], {})
    BY <1>1, <2>1, <2>2 DEF Chat!TidyInv, Chat!InOrder
  <2>6. k \in tidy' => IF at = "done" THEN Chat!Lacks(messages'[k], {}) ELSE Chat!InOrder(r)'
    BY <2>3, <2>5
  <2> HIDE DEF l, at, k
  <2>7. Chat!TidyInv'
    BY <1>1, <2>3, <2>4, <2>6, TidyGoes DEF k
  <2> QED
    BY <1>2, <2>7 DEF k
<1> QED
  BY <1>5, <1>6, <1>7, <1>8

(* A click begins in order, or its conversation is tidy no more. *)
LEMMA TidyClicks ==
    ASSUME Chat!TypeOK, Chat!TidyInv, Chat!Send \/ Chat!Confirm \/ Chat!Delete
    PROVE  Chat!TidyInv'
<1>1. ASSUME NEW at \in {"receive", "unhold", "deleteMessages"}, NEW l, Chat!Click(at, l), tidy' \subseteq tidy,
             l.of \in tidy' =>
                /\ Chat!OnlyIn(l.of)
                /\ \/ at = "receive"
                   \/ at = "unhold" /\ l.todo = l.calls /\ Chat!Open(messages[l.of], l.calls)
      PROVE  Chat!TidyInv'
  <2>1. PICK r \in Chat!Requests : pc[r] = "new" /\ pc' = [pc EXCEPT ![r] = at] /\ job' = [job EXCEPT ![r] = l]
    BY <1>1 DEF Chat!Click
  <2>2. messages' = messages /\ at \notin {"new", "done"}
    BY <1>1 DEF Chat!Click, Chat!server
  <2>3. l.of \in tidy' => Chat!OnlyIn(l.of) /\ Chat!InOrder(r)'
    <3> HAVE l.of \in tidy'
    <3>1. Chat!OnlyIn(l.of) /\ Chat!Lacks(messages[l.of], {})
      BY <1>1 DEF Chat!TidyInv
    <3> DEFINE rows == messages[l.of]
    <3>2. messages'[l.of] = rows
      BY <2>2
    <3> HIDE DEF rows
    <3>3. CASE at = "receive"
      BY <2>1, <3>1, <3>2, <3>3, InOrderNow DEF rows
    <3>4. CASE at = "unhold" /\ l.todo = l.calls /\ Chat!Open(rows, l.calls)
      <4>1. l.calls \ l.todo = {} /\ l.todo \subseteq l.calls /\ Chat!Lacks(rows, {})
        BY <3>1, <3>4 DEF rows
      <4> QED
        BY <2>1, <3>1, <3>2, <3>4, <4>1, InOrderNow
    <3> QED
      BY <1>1, <3>1, <3>3, <3>4 DEF rows
  <2> QED
    BY <1>1, <2>1, <2>2, <2>3, TidyClicked
<1>2. CASE Chat!Send
  <2> DEFINE l == [Chat!IdleJob EXCEPT !.of = selected]
  <2>1. /\ Chat!Click("receive", l) /\ tidy' \subseteq tidy /\ l.of = selected
        /\ selected \in tidy' => Chat!OnlyIn(selected)
    BY <1>2 DEF Chat!Send, Chat!IdleJob
  <2> HIDE DEF l
  <2> QED
    BY <1>1, <2>1
<1>3. CASE Chat!Confirm
  <2> DEFINE l == [Chat!IdleJob EXCEPT !.of = selected, !.kind = "confirm", !.calls = card.calls, !.todo = card.calls]
  <2>1. /\ Chat!Click("unhold", l) /\ tidy' \subseteq tidy /\ l.of = selected
        /\ l.todo = card.calls /\ l.calls = card.calls
        /\ selected \in tidy' => Chat!OnlyIn(selected) /\ Chat!AtEnd(selected, card.calls)
    BY <1>3 DEF Chat!Confirm, Chat!IdleJob
  <2> HIDE DEF l
  <2>2. selected \in tidy' => Chat!Open(messages[selected], card.calls)
    <3> HAVE selected \in tidy'
    <3>1. Chat!OnlyIn(selected) /\ Chat!AtEnd(selected, card.calls) /\ selected \in tidy
      BY <2>1
    <3>2. Chat!Lacks(messages[selected], {}) /\ selected \in Conversations
      BY <3>1 DEF Chat!TidyInv, Chat!TypeOK
    <3> DEFINE rows == messages[selected]
               calls == card.calls
    <3>3. PICK n \in Nat : n = Len(kind) /\ Len(kind) <= n
      BY TypeParts
    <3>4. rows \in Seq(Chat!Row(n)) /\ calls \in SUBSET (1 .. n)
      BY <3>2, <3>3 DEF Chat!TypeOK
    <3>5. /\ Len(rows) >= Cardinality(calls)
          /\ {rows[i].id : i \in Len(rows) - Cardinality(calls) + 1 .. Len(rows)} = calls
          /\ \A i \in Len(rows) - Cardinality(calls) + 1 .. Len(rows) : rows[i].pending
      BY <3>1, ChatCardinality DEF Chat!AtEnd
    <3> HIDE DEF rows, calls
    <3>6. Chat!Lacks(rows, {})
      BY <3>2 DEF rows
    <3>7. Chat!Open(rows, calls)
      BY <3>4, <3>5, <3>6, EndIsOpen
    <3> QED
      BY <3>7 DEF rows, calls
  <2> QED
    BY <1>1, <2>1, <2>2
<1>4. CASE Chat!Delete
  <2>1. PICK k \in exists : Chat!Click("deleteMessages", [Chat!IdleJob EXCEPT !.of = k, !.kind = "delete"]) /\ tidy' = tidy \ {k}
    BY <1>4 DEF Chat!Delete
  <2> DEFINE l == [Chat!IdleJob EXCEPT !.of = k, !.kind = "delete"]
  <2>2. Chat!Click("deleteMessages", l) /\ l.of \notin tidy' /\ tidy' \subseteq tidy
    BY <2>1 DEF Chat!IdleJob
  <2> HIDE DEF l
  <2> QED
    BY <1>1, <2>2
<1> QED
  BY <1>2, <1>3, <1>4

LEMMA TidyStill ==
    ASSUME Chat!TidyInv, UNCHANGED <<pc, job, messages, tidy>>
    PROVE  Chat!TidyInv'
<1>1. Chat!InFlight' = Chat!InFlight
  BY DEF Chat!InFlight
<1>2. \A r : Chat!Missing(r)' = Chat!Missing(r) /\ Chat!Touched(r)' = Chat!Touched(r)
  BY SameMissing
<1>3. \A r : Chat!InOrder(r) => Chat!InOrder(r)'
  BY <1>2 DEF Chat!InOrder
<1>4. \A k : Chat!OnlyIn(k)' <=> Chat!OnlyIn(k)
  BY <1>1 DEF Chat!OnlyIn
<1> QED
  BY <1>1, <1>3, <1>4 DEF Chat!TidyInv

LEMMA TidyStep ==
    ASSUME Chat!TypeOK, Chat!TidyInv, Chat!Next
    PROVE  Chat!TidyInv'
<1>1. CASE Chat!Select \/ Chat!LoadArrives
  <2>1. UNCHANGED <<pc, job, messages, tidy>>
    BY <1>1 DEF Chat!Select, Chat!LoadArrives, Chat!server
  <2> QED
    BY <2>1, TidyStill
<1> QED
  BY <1>1, TidyClicks, TidyEnds, TidyRequest DEF Chat!Next

-----------------------------------------------------------------------------
(* The invariants together. *)

ChatInv == Chat!TypeOK /\ Chat!TidyInv /\ Chat!PaidInv /\ Chat!ScreenInv

LEMMA ChatTypes ==
    ASSUME Chat!TypeOK, Chat!TidyInv, Chat!Next
    PROVE  Chat!TypeOK'
<1>1. ASSUME NEW r \in Chat!Requests, Chat!DeleteMessages(r) \/ Chat!DeleteRow(r) \/ Chat!Fail(r)
      PROVE  Chat!TypeOK'
  <2>1. pc[r] \notin {"new", "done"}
    BY <1>1 DEF Chat!DeleteMessages, Chat!DeleteRow, Chat!Fail
  <2>2. pc[r] = "deleteRow" => job[r].of \notin tidy
    BY <1>1, TidyEnds
  <2> QED
    BY <1>1, <2>1, <2>2, DeletesKeepType
<1> QED
  BY <1>1, StepKeepsType, ClicksKeepType, ScreenKeepsType DEF Chat!Next

LEMMA ChatStep ==
    ASSUME ChatInv, [Chat!Next]_chat
    PROVE  ChatInv'
<1>1. CASE Chat!Next
  BY <1>1, ChatTypes, TidyStep, PaidStep, ScreenStep DEF ChatInv
<1>2. CASE UNCHANGED chat
  <2>1. UNCHANGED <<exists, messages, kind, runs, presses, pc, job, selected, shown, card, loads, selects, tidy, crossed>>
    BY <1>2 DEF chat
  <2>2. Chat!InFlight' = Chat!InFlight /\ \A r, i : Chat!Owed(r, i)' <=> Chat!Owed(r, i)
    BY <2>1 DEF Chat!InFlight, Chat!Owed
  <2>3. Chat!TypeOK'
    BY <2>1, <2>2 DEF ChatInv, Chat!TypeOK
  <2>4. Chat!TidyInv'
    BY <2>1, TidyStill DEF ChatInv
  <2>5. Chat!ScreenInv'
    BY <2>1 DEF ChatInv, Chat!ScreenInv
  <2>6. Chat!PaidInv'
    <3>1. \A i : {r \in Chat!Requests : Chat!Owed(r, i)'} = {r \in Chat!Requests : Chat!Owed(r, i)}
      BY <2>2
    <3> QED
      BY <2>1, <3>1 DEF ChatInv, Chat!PaidInv
  <2> QED
    BY <2>3, <2>4, <2>5, <2>6 DEF ChatInv
<1> QED
  BY <1>1, <1>2

LEMMA ChatBegins ==
    ASSUME Chat!Init
    PROVE  ChatInv
<1>1. /\ \A r \in Chat!Requests : pc[r] = "new" /\ job[r] = Chat!IdleJob
      /\ Chat!InFlight = {} /\ kind = <<>> /\ Len(kind) = 0
  BY DEF Chat!Init, Chat!InFlight
<1>2. Chat!TypeOK
  <2>1. job \in [Chat!Requests -> Chat!Job(Len(kind))] /\ pc \in [Chat!Requests -> Chat!Steps]
    BY <1>1, IdleIsJob DEF Chat!Init, Chat!Steps
  <2>2. messages \in [Conversations -> Seq(Chat!Row(Len(kind)))]
    <3>1. <<>> \in Seq(Chat!Row(Len(kind)))
      OBVIOUS
    <3> QED
      BY <3>1 DEF Chat!Init
  <2>3. runs \in [Chat!CallIds -> Nat] /\ presses \in [Chat!CallIds -> Nat]
    BY DEF Chat!Init
  <2>4. kind \in Seq({"safe", "mutate"}) /\ Len(kind) <= MaxCalls /\ selects \in 0 .. MaxSelects
    BY <1>1, ChatConstants DEF Chat!Init
  <2>5. card \in [of : Conversations \cup {Chat!None}, calls : SUBSET (1 .. Len(kind))]
    BY DEF Chat!Init, Chat!NoCard
  <2> QED
    BY <1>1, <2>1, <2>2, <2>3, <2>4, <2>5 DEF Chat!Init, Chat!TypeOK
<1>3. Chat!TidyInv
  <2>1. \A k \in Conversations : messages[k] = <<>>
    BY DEF Chat!Init
  <2>2. Chat!Lacks(<<>>, {})
    BY DEF Chat!Lacks
  <2> QED
    BY <1>1, <2>1, <2>2 DEF Chat!Init, Chat!TidyInv
<1>4. Chat!PaidInv
  <2>1. \A i : {r \in Chat!Requests : Chat!Owed(r, i)} = {}
    BY <1>1 DEF Chat!Owed
  <2>2. Chat!Cardinality({}) = 0
    BY ChatCardinality, FS_EmptySet
  <2>3. \A i \in Chat!CallIds : runs[i] = 0 /\ presses[i] = 0
    BY DEF Chat!Init
  <2>4. ASSUME NEW i \in Chat!CallIds
        PROVE  runs[i] + Chat!Cardinality({r \in Chat!Requests : Chat!Owed(r, i)}) <= presses[i]
    BY <2>1, <2>2, <2>3
  <2>5. \A r \in Chat!Requests : pc[r] # "tools"
    BY <1>1
  <2> QED
    BY <2>4, <2>5 DEF Chat!PaidInv
<1>5. Chat!ScreenInv
  BY DEF Chat!Init, Chat!ScreenInv
<1> QED
  BY <1>2, <1>3, <1>4, <1>5 DEF ChatInv

LEMMA ChatAlways == Spec => []ChatInv
<1>1. Init => ChatInv
  BY ChatBegins DEF Init
<1>2. ChatInv /\ [Next]_vars => ChatInv'
  <2>1. [Next]_vars => [Chat!Next]_chat
    BY DEF Next, vars
  <2> QED
    BY <2>1, ChatStep
<1> QED
  BY <1>1, <1>2, PTL DEF Spec

(* A tool that changes something is executed no more often than the user   *)
(* has pressed Confirm for it, however requests, clicks, failures and      *)
(* deletions interleave (chat.rs, confirm_tool_calls).                     *)
THEOREM ConfirmedRunsOnly == Spec => []ConfirmedRuns
<1>1. ChatInv => ConfirmedRuns
  <2> SUFFICES ASSUME ChatInv, NEW i \in DOMAIN kind, kind[i] = "mutate"
               PROVE  runs[i] <= presses[i]
    BY DEF ConfirmedRuns, Chat!ConfirmedRuns
  <2>1. i \in Chat!CallIds /\ runs[i] \in Nat /\ presses[i] \in Nat
    BY ChatConstants DEF ChatInv, Chat!TypeOK, Chat!CallIds
  <2>2. runs[i] + Cardinality({r \in Chat!Requests : Chat!Owed(r, i)}) <= presses[i]
    BY <2>1, ChatCardinality DEF ChatInv, Chat!PaidInv
  <2>3. Cardinality({r \in Chat!Requests : Chat!Owed(r, i)}) \in Nat
    BY OwedSets
  <2> QED
    BY <2>1, <2>2, <2>3
<1> QED
  BY <1>1, ChatAlways, PTL

(* What a provider is given, it accepts: in a conversation whose requests  *)
(* came one by one and whole, every call has its result right behind the   *)
(* message that asks for it, through tools that run, calls that are held,  *)
(* and placeholders that are dropped (chat.rs, history_messages).          *)
THEOREM HistoriesAccepted == Spec => []HistoryAccepted
<1>1. ChatInv => HistoryAccepted
  <2> SUFFICES ASSUME ChatInv, NEW r \in Chat!Requests, pc[r] = "chat", job[r].of \in tidy
               PROVE  Chat!Accepted(job[r].history)
    BY DEF HistoryAccepted, Chat!HistoryAccepted
  <2>1. PICK n \in Nat : n = Len(kind) /\ Len(kind) <= n
    BY TypeParts DEF ChatInv
  <2>2. job[r].history \in Seq(Chat!Row(n))
    BY <2>1, JobFields DEF ChatInv, Chat!TypeOK
  <2>3. Chat!InOrder(r) /\ Chat!Missing(r) = {}
    BY DEF ChatInv, Chat!TidyInv, Chat!InFlight, Chat!Missing
  <2>4. Chat!Lacks(job[r].history, {})
    BY <2>3 DEF Chat!InOrder
  <2> QED
    BY <2>2, <2>4, LackingNothing
<1> QED
  BY <1>1, ChatAlways, PTL

(* Once every load and request has landed, and unless an answer landed on  *)
(* the screen of another conversation, the screen shows the messages and   *)
(* the card of the conversation that is selected (ai.rs).                  *)
THEOREM ScreensAgree == Spec => []ScreenAgrees
<1>1. ChatInv => ScreenAgrees
  BY DEF ChatInv, Chat!ScreenInv, ScreenAgrees, Chat!ScreenAgrees
<1> QED
  BY <1>1, ChatAlways, PTL
=============================================================================
