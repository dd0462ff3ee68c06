------------------------- MODULE RecommendationProofs -------------------------
(***************************************************************************)
(* Theorems about Recommendation: the cost limit, readable rows of the     *)
(* proposal index, the absence of rival advice and the support of what is  *)
(* advised, for any callers, reads, limits, lifetime and number of         *)
(* failures.                                                               *)
(***************************************************************************)
EXTENDS Recommendation, WellFoundedInduction, TLAPS

-----------------------------------------------------------------------------
(* Induction over the natural numbers, for sets, and the sums of sequences.*)

Below == {p \in Nat \X Nat : p[1] < p[2]}

LEMMA BelowWellFounded == IsWellFoundedOn(Below, Nat)
<1>1. Below = OpToRel(<, Nat)
  BY Zenon DEF OpToRel, Below
<1> QED
  BY <1>1, NatLessThanWellFounded, Zenon

\* A set that holds 0 and, with a number, the next one holds every number.
LEMMA SetInduction ==
  ASSUME NEW S, 0 \in S, \A n \in Nat : n \in S => n + 1 \in S
  PROVE  Nat \subseteq S
<1> DEFINE T == Nat \ S
<1> SUFFICES ASSUME T # {} PROVE FALSE
  OBVIOUS
<1>1. PICK x \in T : \A y \in T : <<y, x>> \notin Below
  <2>1. T \subseteq Nat
    OBVIOUS
  <2> HIDE DEF T
  <2> QED
    BY <2>1, WFMin, BelowWellFounded
<1>2. x # 0 /\ x - 1 \in Nat
  OBVIOUS
<1>3. x - 1 \in T
  BY <1>2
<1>4. x \in Nat /\ <<x - 1, x>> \in Below
  BY <1>2 DEF Below
<1> HIDE DEF T
<1> QED
  BY <1>1, <1>3, <1>4, Zenon

SumsTo(w, n, s) ==
  /\ s \in [0..n -> Int]
  /\ s = [i \in 0..n |-> IF i = 0 THEN 0 ELSE s[i - 1] + w[i]]

\* The definition of Sums is one that some function satisfies.
LEMMA SumsExist ==
  ASSUME NEW w \in Seq(Int)
  PROVE  \E s : SumsTo(w, Len(w), s)
<1> DEFINE S == {n \in Nat : n <= Len(w) => \E s : SumsTo(w, n, s)}
<1>1. 0 \in S
  <2>1. SumsTo(w, 0, [i \in 0..0 |-> 0])
    BY DEF SumsTo
  <2> QED
    BY <2>1
<1>2. ASSUME NEW n \in Nat, n \in S PROVE n + 1 \in S
  <2> SUFFICES ASSUME n + 1 <= Len(w) PROVE \E s : SumsTo(w, n + 1, s)
    OBVIOUS
  <2>1. PICK s : SumsTo(w, n, s)
    BY <1>2
  <2> DEFINE t == [i \in 0..(n + 1) |-> IF i = n + 1 THEN s[n] + w[n + 1] ELSE s[i]]
  <2>2. s \in [0..n -> Int] /\ w[n + 1] \in Int
    BY <2>1 DEF SumsTo
  <2>3. t \in [0..(n + 1) -> Int]
    BY <2>2
  <2>4. \A i \in 0..(n + 1) : t[i] = IF i = 0 THEN 0 ELSE t[i - 1] + w[i]
    BY <2>1, SMTT(30) DEF SumsTo
  <2>5. SumsTo(w, n + 1, t)
    <3> HIDE DEF t
    <3> QED
      BY <2>3, <2>4 DEF SumsTo
  <2> QED
    BY <2>5
<1> HIDE DEF S
<1>3. Nat \subseteq S
  BY <1>1, <1>2, SetInduction
<1>4. Len(w) \in S
  BY <1>3
<1> QED
  BY <1>4 DEF S

LEMMA SumsSatisfy ==
  ASSUME NEW w \in Seq(Int)
  PROVE  Sums(w) = [i \in 0..Len(w) |-> IF i = 0 THEN 0 ELSE Sums(w)[i - 1] + w[i]]
<1>1. PICK s : s = [i \in 0..Len(w) |-> IF i = 0 THEN 0 ELSE s[i - 1] + w[i]]
  BY SumsExist DEF SumsTo
<1> QED
  BY <1>1, Zenon DEF Sums

LEMMA SumsTyped ==
  ASSUME NEW w \in Seq(Int)
  PROVE  /\ Sums(w)[0] = 0
         /\ \A i \in 1..Len(w) : Sums(w)[i] = Sums(w)[i - 1] + w[i]
         /\ \A i \in 0..Len(w) : Sums(w)[i] \in Int
<1>0. Len(w) \in Nat
  OBVIOUS
<1> DEFINE n == Len(w)
<1> DEFINE s == Sums(w)
<1>1. s[0] = 0 /\ \A i \in 1..n : s[i] = s[i - 1] + w[i]
  <2> HIDE DEF s
  <2>1. s = [i \in 0..n |-> IF i = 0 THEN 0 ELSE s[i - 1] + w[i]]
    BY SumsSatisfy DEF s
  <2> QED
    BY <1>0, <2>1, SMTT(30)
<1> DEFINE S == {i \in Nat : i <= n => s[i] \in Int}
<1> HIDE DEF s
<1>2. 0 \in S
  BY <1>1
<1>3. ASSUME NEW i \in Nat, i \in S PROVE i + 1 \in S
  BY <1>0, <1>1, <1>3, SMTT(30)
<1> HIDE DEF S
<1>4. Nat \subseteq S
  BY <1>2, <1>3, SetInduction
<1> QED
  BY <1>0, <1>1, <1>4 DEF S, s

\* The first m numbers of two sequences are equal, but for a difference at k.
Differ(v, w, m, k, d) == \A i \in 1..m : w[i] = v[i] + (IF i = k THEN d ELSE 0)

\* Sequences that differ by d at one place have sums that differ by d from there on.
LEMMA SumsDiffer ==
  ASSUME NEW v \in Seq(Int), NEW w \in Seq(Int), NEW m \in Nat, NEW k \in Nat,
         NEW d \in Int, m <= Len(v), m <= Len(w), k > 0,
         Differ(v, w, m, k, d)
  PROVE  \A i \in 0..m : Sums(w)[i] = Sums(v)[i] + (IF i >= k THEN d ELSE 0)
<1> DEFINE s == Sums(v)
<1> DEFINE t == Sums(w)
<1>1. /\ Len(v) \in Nat /\ Len(w) \in Nat
      /\ \A i \in 1..m : v[i] \in Int
  OBVIOUS
<1>2. /\ s[0] = 0 /\ \A i \in 1..m : s[i] = s[i - 1] + v[i]
      /\ \A i \in 0..m : s[i] \in Int
  BY <1>1, SumsTyped
<1>3. /\ t[0] = 0 /\ \A i \in 1..m : t[i] = t[i - 1] + w[i]
      /\ \A i \in 0..m : t[i] \in Int
  BY <1>1, SumsTyped
<1> DEFINE S == {i \in Nat : i <= m => t[i] = s[i] + (IF i >= k THEN d ELSE 0)}
<1> HIDE DEF s, t
<1>4. 0 \in S
  BY <1>2, <1>3
<1>5. ASSUME NEW i \in Nat, i \in S PROVE i + 1 \in S
  <2> SUFFICES ASSUME i + 1 <= m
               PROVE  t[i + 1] = s[i + 1] + (IF i + 1 >= k THEN d ELSE 0)
    OBVIOUS
  <2>1. /\ t[i] = s[i] + (IF i >= k THEN d ELSE 0)
        /\ w[i + 1] = v[i + 1] + (IF i + 1 = k THEN d ELSE 0)
        /\ v[i + 1] \in Int /\ s[i] \in Int
    BY <1>1, <1>2, <1>5 DEF Differ
  <2>2. t[i + 1] = t[i] + w[i + 1] /\ s[i + 1] = s[i] + v[i + 1]
    <3>1. i + 1 \in 1..m /\ (i + 1) - 1 = i
      OBVIOUS
    <3> QED
      BY <1>2, <1>3, <3>1
  <2>3. CASE i + 1 < k
    BY <2>1, <2>2, <2>3, SMTT(30)
  <2>4. CASE i + 1 = k
    <3>1. ~(i >= k) /\ i + 1 >= k
      BY <2>4
    <3>2. t[i] = s[i] /\ w[i + 1] = v[i + 1] + d
      BY <2>1, <2>4, <3>1
    <3>3. t[i + 1] = s[i + 1] + d
      BY <2>1, <2>2, <3>2, SMTT(30)
    <3> QED
      BY <3>1, <3>3
  <2>5. CASE i + 1 > k
    <3>1. i >= k /\ i + 1 >= k /\ i + 1 # k
      BY <2>5
    <3>2. t[i] = s[i] + d
      BY <2>1, <3>1
    <3>4. w[i + 1] = v[i + 1]
      <4>1. w[i + 1] = v[i + 1] + 0
        BY <2>1, <3>1
      <4> QED
        BY <2>1, <4>1
    <3>3. t[i + 1] = s[i + 1] + d
      BY <2>1, <2>2, <3>2, <3>4
    <3> QED
      BY <3>1, <3>3
  <2> QED
    BY <2>3, <2>4, <2>5
<1> HIDE DEF S
<1>6. Nat \subseteq S
  BY <1>4, <1>5, SetInduction
<1> QED
  BY <1>6 DEF S, s, t

LEMMA SumOfEmpty == SumOf(<<>>) = 0
<1>1. <<>> \in Seq(Int) /\ Len(<<>>) = 0
  OBVIOUS
<1> QED
  BY <1>1, SumsTyped DEF SumOf

\* The sum of a sequence with one more number.
LEMMA SumOfLonger ==
  ASSUME NEW v \in Seq(Int), NEW w \in Seq(Int), Len(w) = Len(v) + 1,
         \A i \in 1..Len(v) : w[i] = v[i]
  PROVE  SumOf(w) = SumOf(v) + w[Len(w)] /\ SumOf(w) \in Int
<1>0. Len(v) \in Nat /\ \A i \in 1..Len(v) : v[i] \in Int
  OBVIOUS
<1>1. \A i \in 0..Len(v) :
        Sums(w)[i] = Sums(v)[i] + (IF i >= Len(v) + 1 THEN 0 ELSE 0)
  <2>1. Differ(v, w, Len(v), Len(v) + 1, 0)
    BY <1>0 DEF Differ
  <2>2. Len(v) + 1 \in Nat /\ 0 \in Int /\ Len(v) <= Len(v) /\ Len(v) <= Len(w) /\ Len(v) + 1 > 0
    BY <1>0
  <2> QED
    BY <1>0, <2>1, <2>2, SumsDiffer, SMTT(30)
<1>2. Sums(v)[Len(v)] \in Int
  BY <1>0, SumsTyped
<1>3. Sums(w)[Len(v)] = Sums(v)[Len(v)]
  <2>1. Len(v) \in 0..Len(v)
    BY <1>0
  <2>2. Sums(w)[Len(v)] = Sums(v)[Len(v)] + 0
    BY <1>1, <2>1
  <2> QED
    BY <1>2, <2>2
<1>4. Sums(w)[Len(w)] = Sums(w)[Len(v)] + w[Len(w)] /\ Sums(w)[Len(w)] \in Int
  <2>1. Len(w) \in 1..Len(w) /\ Len(w) - 1 = Len(v)
    BY <1>0
  <2> QED
    BY <2>1, SumsTyped
<1> QED
  BY <1>3, <1>4 DEF SumOf

\* The sum of a sequence with one number replaced.
LEMMA SumOfReplaced ==
  ASSUME NEW v \in Seq(Int), NEW w \in Seq(Int), Len(w) = Len(v),
         NEW k \in 1..Len(v), \A i \in 1..Len(v) : i # k => w[i] = v[i]
  PROVE  SumOf(w) = SumOf(v) - v[k] + w[k] /\ SumOf(w) \in Int
<1>0. Len(v) \in Nat /\ \A i \in 1..Len(v) : v[i] \in Int /\ w[i] \in Int
  OBVIOUS
<1> DEFINE d == w[k] - v[k]
<1>1. d \in Int /\ Differ(v, w, Len(v), k, d)
  BY <1>0, SMTT(30) DEF Differ
<1> HIDE DEF d
<1>2. \A i \in 0..Len(v) : Sums(w)[i] = Sums(v)[i] + (IF i >= k THEN d ELSE 0)
  <2>1. k \in Nat /\ k > 0 /\ Len(v) <= Len(v) /\ Len(v) <= Len(w)
    BY <1>0
  <2> QED
    BY <1>0, <1>1, <2>1, SumsDiffer, SMTT(30)
<1>3. Sums(w)[Len(v)] = Sums(v)[Len(v)] + d
  BY <1>0, <1>2
<1>4. Sums(v)[Len(v)] \in Int
  BY <1>0, SumsTyped
<1> QED
  BY <1>0, <1>3, <1>4 DEF SumOf, d
-----------------------------------------------------------------------------
(* Types.                                                                  *)

Pcs == {"idle", "crashed", "lookup", "read", "reserve", "generate", "fail", "settle",
        "save", "write", "commit", "reload", "done"}
Rows == [status : {"RESERVED", "FAILED", "SETTLED"}, charged : Nat]

Fields == {"pc", "snapshot", "at", "row", "answer", "tokens", "stored", "proposal",
           "outcome"}
IsCall(r) ==
  /\ r = [f \in Fields |-> r[f]]
  /\ r.pc \in Pcs /\ r.at \in Nat /\ r.row \in Nat /\ r.tokens \in Nat

\* The calls, which began before now.
CallTypeOK ==
  /\ clock \in Nat
  /\ call = [c \in Callers |-> call[c]]
  /\ \A c \in Callers : IsCall(call[c]) /\ call[c].at <= clock

TypeOK == CallTypeOK /\ ledger \in Seq(Rows)

\* Only the call of c moves, and keeps some of its fields.
Others(c) == \A d \in Callers : d # c => call'[d] = call[d]
Keeps(c, fields) == \A f \in fields : call'[c][f] = call[c][f]
Moves(c, pc, fields) == call'[c].pc = pc /\ Keeps(c, fields) /\ Others(c)

LEMMA MoveTyped ==
  ASSUME CallTypeOK, NEW c \in Callers, NEW r, call' = [call EXCEPT ![c] = r],
         IsCall(r), r.at <= clock, clock' = clock
  PROVE  CallTypeOK' /\ Others(c) /\ call'[c] = r
BY DEF CallTypeOK, Others

\* A jump changes the point of its call and nothing else of it.
LEMMA GotoMoves ==
  ASSUME CallTypeOK, NEW c \in Callers, NEW pc \in Pcs, Goto(c, pc), clock' = clock
  PROVE  CallTypeOK' /\ Moves(c, pc, Fields \ {"pc"})
<1> DEFINE r == [call[c] EXCEPT !.pc = pc]
<1>1. IsCall(call[c]) /\ call[c].at <= clock
  BY DEF CallTypeOK
<1>2. IsCall(r) /\ r.at <= clock /\ r.pc = pc /\ \A f \in Fields \ {"pc"} : r[f] = call[c][f]
  BY <1>1 DEF IsCall, Fields
<1>3. call' = [call EXCEPT ![c] = r]
  BY DEF Goto, CallTypeOK
<1> HIDE DEF r
<1>4. CallTypeOK' /\ Others(c) /\ call'[c] = r
  BY <1>2, <1>3, MoveTyped
<1> QED
  BY <1>2, <1>4 DEF Moves, Keeps

\* A return keeps what the call was about, and forgets the rest.
Kept == {"snapshot", "at", "row"}

LEMMA ReturnMoves ==
  ASSUME CallTypeOK, NEW c \in Callers, NEW outcome, Return(c, outcome), clock' = clock
  PROVE  CallTypeOK' /\ Moves(c, "done", Kept) /\ call'[c].outcome = outcome
<1> DEFINE r == [call[c] EXCEPT !.pc = "done", !.outcome = outcome, !.answer = Nobody,
                                !.tokens = 0, !.stored = Nobody, !.proposal = Nobody]
<1>1. IsCall(call[c]) /\ call[c].at <= clock
  BY DEF CallTypeOK
<1>2. /\ IsCall(r) /\ r.at <= clock /\ r.pc = "done" /\ r.outcome = outcome
      /\ \A f \in Kept : r[f] = call[c][f]
  BY <1>1 DEF IsCall, Fields, Pcs, Kept
<1>3. call' = [call EXCEPT ![c] = r]
  BY DEF Return, CallTypeOK
<1> HIDE DEF r
<1>4. CallTypeOK' /\ Others(c) /\ call'[c] = r
  BY <1>2, <1>3, MoveTyped
<1> QED
  BY <1>2, <1>4 DEF Moves, Keeps

\* The steps that change other fields of their call.
LEMMA StoredMoves ==
  ASSUME CallTypeOK, NEW c \in Callers, NEW pc \in Pcs, NEW id, clock' = clock,
         call' = [call EXCEPT ![c].pc = pc, ![c].stored = id]
  PROVE  /\ CallTypeOK' /\ Moves(c, pc, Fields \ {"pc", "stored"})
         /\ call'[c].stored = id
<1> DEFINE r == [call[c] EXCEPT !.pc = pc, !.stored = id]
<1>1. IsCall(call[c]) /\ call[c].at <= clock
  BY DEF CallTypeOK
<1>2. /\ IsCall(r) /\ r.at <= clock /\ r.pc = pc /\ r.stored = id
      /\ \A f \in Fields \ {"pc", "stored"} : r[f] = call[c][f]
  BY <1>1 DEF IsCall, Fields
<1>3. call' = [call EXCEPT ![c] = r]
  BY DEF CallTypeOK
<1> HIDE DEF r
<1>4. CallTypeOK' /\ Others(c) /\ call'[c] = r
  BY <1>2, <1>3, MoveTyped
<1> QED
  BY <1>2, <1>4 DEF Moves, Keeps

LEMMA ComposedMoves ==
  ASSUME CallTypeOK, NEW c \in Callers, NEW id, clock' = clock,
         call' = [call EXCEPT ![c].pc = "save", ![c].proposal = id]
  PROVE  /\ CallTypeOK' /\ Moves(c, "save", Fields \ {"pc", "proposal"})
         /\ call'[c].proposal = id
<1> DEFINE r == [call[c] EXCEPT !.pc = "save", !.proposal = id]
<1>1. IsCall(call[c]) /\ call[c].at <= clock
  BY DEF CallTypeOK
<1>2. /\ IsCall(r) /\ r.at <= clock /\ r.pc = "save" /\ r.proposal = id
      /\ \A f \in Fields \ {"pc", "proposal"} : r[f] = call[c][f]
  BY <1>1 DEF IsCall, Fields, Pcs
<1>3. call' = [call EXCEPT ![c] = r]
  BY DEF CallTypeOK
<1> HIDE DEF r
<1>4. CallTypeOK' /\ Others(c) /\ call'[c] = r
  BY <1>2, <1>3, MoveTyped
<1> QED
  BY <1>2, <1>4 DEF Moves, Keeps

LEMMA ReserveMoves ==
  ASSUME CallTypeOK, NEW c \in Callers, NEW row \in Nat, clock' = clock,
         call' = [call EXCEPT ![c].pc = "generate", ![c].row = row]
  PROVE  /\ CallTypeOK' /\ Moves(c, "generate", Fields \ {"pc", "row"})
         /\ call'[c].row = row
<1> DEFINE r == [call[c] EXCEPT !.pc = "generate", !.row = row]
<1>1. IsCall(call[c]) /\ call[c].at <= clock
  BY DEF CallTypeOK
<1>2. /\ IsCall(r) /\ r.at <= clock /\ r.pc = "generate" /\ r.row = row
      /\ \A f \in Fields \ {"pc", "row"} : r[f] = call[c][f]
  BY <1>1 DEF IsCall, Fields, Pcs
<1>3. call' = [call EXCEPT ![c] = r]
  BY DEF CallTypeOK
<1> HIDE DEF r
<1>4. CallTypeOK' /\ Others(c) /\ call'[c] = r
  BY <1>2, <1>3, MoveTyped
<1> QED
  BY <1>2, <1>4 DEF Moves, Keeps

LEMMA GenerateMoves ==
  ASSUME CallTypeOK, NEW c \in Callers, Generate(c)
  PROVE  /\ CallTypeOK'
         /\ \/ Moves(c, "fail", Fields \ {"pc"})
            \/ /\ Moves(c, "settle", Fields \ {"pc", "answer", "tokens"})
               /\ call'[c].answer \in Answers(Projection(c))
<1>0. clock' = clock /\ "fail" \in Pcs /\ "settle" \in Pcs
  BY DEF Generate, Pcs
<1>1. CASE Goto(c, "fail")
  BY <1>0, <1>1, GotoMoves
<1>2. ASSUME NEW a \in Answers(Projection(c)), NEW tokens \in 0..(Reserved + 1),
             call' = [call EXCEPT ![c].pc = "settle", ![c].answer = a, ![c].tokens = tokens]
      PROVE  /\ CallTypeOK' /\ Moves(c, "settle", Fields \ {"pc", "answer", "tokens"})
             /\ call'[c].answer = a
  <2> DEFINE r == [call[c] EXCEPT !.pc = "settle", !.answer = a, !.tokens = tokens]
  <2>1. IsCall(call[c]) /\ call[c].at <= clock /\ tokens \in Nat
    BY CostAssumption DEF CallTypeOK, CostAssumption
  <2>2. /\ IsCall(r) /\ r.at <= clock /\ r.pc = "settle" /\ r.answer = a
        /\ \A f \in Fields \ {"pc", "answer", "tokens"} : r[f] = call[c][f]
    BY <2>1 DEF IsCall, Fields, Pcs
  <2>3. call' = [call EXCEPT ![c] = r]
    BY <1>2 DEF CallTypeOK
  <2> HIDE DEF r
  <2>4. CallTypeOK' /\ Others(c) /\ call'[c] = r
    BY <1>0, <2>2, <2>3, MoveTyped
  <2> QED
    BY <2>2, <2>4 DEF Moves, Keeps
<1> QED
  BY <1>1, <1>2 DEF Generate

\* A call that begins, or whose process dies, holds nothing.
LEMMA StartMoves ==
  ASSUME CallTypeOK, NEW c \in Callers, NEW s, Start(c, s)
  PROVE  /\ CallTypeOK' /\ Others(c) /\ call[c].pc \in {"idle", "crashed"}
         /\ call'[c].snapshot = s /\ call'[c].at = clock /\ call'[c].row = 0
         /\ call'[c].pc \in {"done", "lookup"}
         /\ call'[c].pc = "done" => call'[c].outcome.status # "READY"
<1> DEFINE new == [Idle EXCEPT !.snapshot = s, !.at = clock]
<1> DEFINE refused(o) == [new EXCEPT !.pc = "done", !.outcome = o]
<1> DEFINE begun == [new EXCEPT !.pc = "lookup"]
<1>0. /\ call[c].pc \in {"idle", "crashed"} /\ clock' = clock /\ clock \in Nat
      /\ call' = [call EXCEPT ![c] = call'[c]]
      /\ \/ call'[c] = begun
         \/ call'[c] = refused(Raised("INTEGRATED_SNAPSHOT_REJECTED"))
         \/ call'[c] = refused(Blocked("INVALID_INPUT"))
         \/ call'[c] = refused(Outcome("NEEDS_HUMAN", "UNSUPPORTED_STATE"))
  BY DEF Start, CallTypeOK
<1>1. /\ IsCall(begun) /\ begun.snapshot = s /\ begun.at = clock
      /\ begun.row = 0 /\ begun.pc = "lookup"
  BY <1>0 DEF IsCall, Fields, Pcs, Idle
<1>2. ASSUME NEW o
      PROVE  /\ IsCall(refused(o)) /\ refused(o).snapshot = s /\ refused(o).at = clock
             /\ refused(o).row = 0 /\ refused(o).pc = "done" /\ refused(o).outcome = o
  BY <1>0 DEF IsCall, Fields, Pcs, Idle
<1>3. /\ Raised("INTEGRATED_SNAPSHOT_REJECTED").status # "READY"
      /\ Blocked("INVALID_INPUT").status # "READY"
      /\ Outcome("NEEDS_HUMAN", "UNSUPPORTED_STATE").status # "READY"
  BY DEF Raised, Blocked, Outcome
<1> HIDE DEF begun, refused
<1>4. /\ IsCall(call'[c]) /\ call'[c].snapshot = s /\ call'[c].at = clock
      /\ call'[c].row = 0 /\ call'[c].pc \in {"done", "lookup"}
      /\ call'[c].pc = "done" => call'[c].outcome.status # "READY"
  BY <1>0, <1>1, <1>2, <1>3
<1>5. CallTypeOK' /\ Others(c)
  BY <1>0, <1>4, MoveTyped
<1> QED
  BY <1>0, <1>4, <1>5

LEMMA CrashMoves ==
  ASSUME CallTypeOK, NEW c \in Callers, Crash(c)
  PROVE  /\ CallTypeOK' /\ Others(c) /\ call'[c].pc = "crashed" /\ call'[c].row = 0
<1> DEFINE r == [Idle EXCEPT !.pc = "crashed"]
<1>1. clock' = clock /\ clock \in Nat /\ call' = [call EXCEPT ![c] = r]
  BY DEF Crash, CallTypeOK
<1>2. IsCall(r) /\ r.at <= clock /\ r.pc = "crashed" /\ r.row = 0
  BY <1>1 DEF IsCall, Fields, Pcs, Idle
<1> HIDE DEF r
<1> QED
  BY <1>1, <1>2, MoveTyped

LEMMA TickMoves ==
  ASSUME CallTypeOK, Tick
  PROVE  CallTypeOK' /\ clock <= clock' /\ UNCHANGED call
<1>1. clock \in Nat /\ clock' = clock + 1 /\ UNCHANGED call
  BY DEF CallTypeOK, Tick
<1>2. clock' \in Nat /\ clock <= clock'
  BY <1>1
<1>3. \A c \in Callers : IsCall(call[c]) /\ call[c].at <= clock'
  <2>1. \A c \in Callers : IsCall(call[c]) /\ call[c].at \in Nat /\ call[c].at <= clock
    BY DEF CallTypeOK, IsCall
  <2> QED
    BY <1>1, <2>1
<1> QED
  BY <1>1, <1>2, <1>3 DEF CallTypeOK
-----------------------------------------------------------------------------
(* The model cost ledger.                                                  *)

Paying == {"generate", "fail", "settle"}

\* A call waits for the model, or for its answer to be paid, on a reservation
\* of its own; any other call holds no open reservation.
ReservationsHeld ==
  /\ \A c \in Callers :
       IF call[c].pc \in Paying
       THEN call[c].row \in DOMAIN ledger /\ ledger[call[c].row].status = "RESERVED"
       ELSE call[c].row = 0 \/ /\ call[c].row \in DOMAIN ledger
                               /\ ledger[call[c].row].status # "RESERVED"
  /\ \A c, d \in Callers :
       c # d /\ call[c].pc \in Paying /\ call[d].pc \in Paying => call[c].row # call[d].row

LedgerOK ==
  /\ ledger \in Seq(Rows)
  /\ \A i \in DOMAIN ledger : ledger[i].status = "RESERVED" => ledger[i].charged = 0
  /\ Charged + Open <= Limit

CostInv == CallTypeOK /\ LedgerOK /\ ReservationsHeld

ChargedOf(l) == [i \in DOMAIN l |-> l[i].charged]
OpenOf(l) == [i \in DOMAIN l |-> IF l[i].status = "RESERVED" THEN Reserved ELSE 0]

LEMMA LedgerSums ==
  ASSUME NEW l \in Seq(Rows)
  PROVE  /\ ChargedOf(l) \in Seq(Int) /\ Len(ChargedOf(l)) = Len(l)
         /\ OpenOf(l) \in Seq(Int) /\ Len(OpenOf(l)) = Len(l)
         /\ DOMAIN l = 1..Len(l) /\ Len(l) \in Nat
<1>1. DOMAIN l = 1..Len(l) /\ Len(l) \in Nat /\ Reserved \in Int
  BY CostAssumption DEF CostAssumption
<1>2. \A i \in 1..Len(l) : l[i] \in Rows /\ l[i].charged \in Int
  <2>1. \A i \in 1..Len(l) : l[i] \in Rows
    BY <1>1
  <2> QED
    BY <2>1 DEF Rows
<1> QED
  BY <1>1, <1>2 DEF ChargedOf, OpenOf

LEMMA SumsTotal ==
  ASSUME NEW v \in Seq(Int)
  PROVE  SumOf(v) \in Int
BY SumsTyped DEF SumOf

\* A reservation is one more row, and commits its cost.
LEMMA Reserves ==
  ASSUME NEW l \in Seq(Rows), NEW m,
         m = Append(l, [status |-> "RESERVED", charged |-> 0])
  PROVE  /\ m \in Seq(Rows) /\ Len(m) = Len(l) + 1
         /\ \A i \in DOMAIN l : i \in DOMAIN m /\ m[i] = l[i]
         /\ m[Len(l) + 1] = [status |-> "RESERVED", charged |-> 0]
         /\ SumOf(ChargedOf(m)) = SumOf(ChargedOf(l))
         /\ SumOf(OpenOf(m)) = SumOf(OpenOf(l)) + Reserved
<1>1. /\ m \in Seq(Rows) /\ Len(m) = Len(l) + 1 /\ Len(l) \in Nat
      /\ DOMAIN l = 1..Len(l) /\ DOMAIN m = 1..(Len(l) + 1)
      /\ \A i \in DOMAIN l : m[i] = l[i]
      /\ m[Len(l) + 1] = [status |-> "RESERVED", charged |-> 0]
  BY DEF Rows
<1>2. /\ \A i \in 1..Len(ChargedOf(l)) : ChargedOf(m)[i] = ChargedOf(l)[i]
      /\ ChargedOf(m)[Len(m)] = 0
  BY <1>1, LedgerSums DEF ChargedOf
<1>3. /\ \A i \in 1..Len(OpenOf(l)) : OpenOf(m)[i] = OpenOf(l)[i]
      /\ OpenOf(m)[Len(m)] = Reserved
  BY <1>1, LedgerSums DEF OpenOf
<1>4. SumOf(ChargedOf(m)) = SumOf(ChargedOf(l))
  <2> DEFINE v == ChargedOf(l)
  <2> DEFINE w == ChargedOf(m)
  <2>1. /\ v \in Seq(Int) /\ w \in Seq(Int) /\ Len(w) = Len(m)
        /\ Len(w) = Len(v) + 1
    BY <1>1, LedgerSums
  <2>2. (\A i \in 1..Len(v) : w[i] = v[i]) /\ w[Len(w)] = 0
    BY <1>2, <2>1
  <2> HIDE DEF v, w
  <2>3. SumOf(w) = SumOf(v) + w[Len(w)]
    BY <2>1, <2>2, SumOfLonger
  <2>4. SumOf(v) \in Int
    BY <2>1, SumsTotal
  <2> QED
    BY <2>2, <2>3, <2>4 DEF v, w
<1>5. SumOf(OpenOf(m)) = SumOf(OpenOf(l)) + Reserved
  <2> DEFINE v == OpenOf(l)
  <2> DEFINE w == OpenOf(m)
  <2>1. /\ v \in Seq(Int) /\ w \in Seq(Int) /\ Len(w) = Len(m)
        /\ Len(w) = Len(v) + 1
    BY <1>1, LedgerSums
  <2>2. (\A i \in 1..Len(v) : w[i] = v[i]) /\ w[Len(w)] = Reserved
    BY <1>3, <2>1
  <2> HIDE DEF v, w
  <2>3. SumOf(w) = SumOf(v) + w[Len(w)]
    BY <2>1, <2>2, SumOfLonger
  <2>4. SumOf(v) \in Int
    BY <2>1, SumsTotal
  <2> QED
    BY <2>2, <2>3, <2>4 DEF v, w
<1> QED
  BY <1>1, <1>4, <1>5

\* A closed reservation turns its cost into what was charged.
LEMMA Closes ==
  ASSUME NEW l \in Seq(Rows), NEW m \in Seq(Rows), NEW k \in 1..Len(l), Len(m) = Len(l),
         \A i \in 1..Len(l) : i # k => m[i] = l[i],
         l[k].status = "RESERVED", l[k].charged = 0, m[k].status # "RESERVED"
  PROVE  /\ SumOf(ChargedOf(m)) = SumOf(ChargedOf(l)) + m[k].charged
         /\ SumOf(OpenOf(m)) = SumOf(OpenOf(l)) - Reserved
<1>1. /\ Len(l) \in Nat /\ DOMAIN l = 1..Len(l) /\ DOMAIN m = 1..Len(l)
      /\ m[k].charged \in Nat
  <2>1. m[k] \in Rows
    OBVIOUS
  <2> QED
    BY <2>1 DEF Rows
<1>2. /\ \A i \in 1..Len(ChargedOf(l)) : i # k => ChargedOf(m)[i] = ChargedOf(l)[i]
      /\ ChargedOf(m)[k] = m[k].charged /\ ChargedOf(l)[k] = 0
  BY <1>1, LedgerSums DEF ChargedOf
<1>3. /\ \A i \in 1..Len(OpenOf(l)) : i # k => OpenOf(m)[i] = OpenOf(l)[i]
      /\ OpenOf(m)[k] = 0 /\ OpenOf(l)[k] = Reserved
  BY <1>1, LedgerSums DEF OpenOf
<1>4. SumOf(ChargedOf(m)) = SumOf(ChargedOf(l)) + m[k].charged
  <2> DEFINE v == ChargedOf(l)
  <2> DEFINE w == ChargedOf(m)
  <2>1. /\ v \in Seq(Int) /\ w \in Seq(Int) /\ Len(w) = Len(v) /\ k \in 1..Len(v)
    BY <1>1, LedgerSums
  <2>2. (\A i \in 1..Len(v) : i # k => w[i] = v[i]) /\ v[k] = 0 /\ w[k] = m[k].charged
    BY <1>2
  <2> HIDE DEF v, w
  <2>3. SumOf(w) = SumOf(v) - v[k] + w[k]
    BY <2>1, <2>2, SumOfReplaced
  <2>4. SumOf(v) \in Int
    BY <2>1, SumsTotal
  <2> QED
    BY <1>1, <2>2, <2>3, <2>4, CostAssumption DEF v, w, CostAssumption
<1>5. SumOf(OpenOf(m)) = SumOf(OpenOf(l)) - Reserved
  <2> DEFINE v == OpenOf(l)
  <2> DEFINE w == OpenOf(m)
  <2>1. /\ v \in Seq(Int) /\ w \in Seq(Int) /\ Len(w) = Len(v) /\ k \in 1..Len(v)
    BY <1>1, LedgerSums
  <2>2. (\A i \in 1..Len(v) : i # k => w[i] = v[i]) /\ v[k] = Reserved /\ w[k] = 0
    BY <1>3
  <2> HIDE DEF v, w
  <2>3. SumOf(w) = SumOf(v) - v[k] + w[k]
    BY <2>1, <2>2, SumOfReplaced
  <2>4. SumOf(v) \in Int
    BY <2>1, SumsTotal
  <2> QED
    BY <1>1, <2>2, <2>3, <2>4, CostAssumption DEF v, w, CostAssumption
<1> QED
  BY <1>4, <1>5
\* A call that neither takes nor closes a reservation.
LEMMA ReservationsKept ==
  ASSUME CostInv, NEW c \in Callers, CallTypeOK', Others(c), UNCHANGED ledger,
         \/ /\ call'[c].row = call[c].row
            /\ call'[c].pc \in Paying <=> call[c].pc \in Paying
         \/ call'[c].row = 0 /\ call'[c].pc \notin Paying
  PROVE  CostInv'
<1>1. LedgerOK'
  BY DEF CostInv, LedgerOK, Charged, Open
<1>2. ReservationsHeld'
  BY DEF CostInv, ReservationsHeld, Others
<1> QED
  BY <1>1, <1>2 DEF CostInv

LEMMA ReserveKeepsCost ==
  ASSUME CostInv, NEW c \in Callers, Reserve(c)
  PROVE  CostInv'
<1> USE DEF CostInv
<1>0. clock' = clock /\ call[c].pc = "reserve" /\ "reserve" \notin Paying
  BY DEF Reserve, At, Paying
<1>1. CASE Affordable
  <2>1. /\ ledger' = Append(ledger, [status |-> "RESERVED", charged |-> 0])
        /\ call' = [call EXCEPT ![c].pc = "generate", ![c].row = Len(ledger) + 1]
    BY <1>1 DEF Reserve
  <2>2. ledger \in Seq(Rows) /\ Len(ledger) \in Nat /\ DOMAIN ledger = 1..Len(ledger)
    BY DEF LedgerOK
  <2>3. /\ ledger' \in Seq(Rows) /\ Len(ledger') = Len(ledger) + 1
        /\ \A i \in DOMAIN ledger : i \in DOMAIN ledger' /\ ledger'[i] = ledger[i]
        /\ ledger'[Len(ledger) + 1] = [status |-> "RESERVED", charged |-> 0]
        /\ Charged' = Charged
        /\ Open' = Open + Reserved
    <3> DEFINE m == ledger'
    <3>1. /\ Charged = SumOf(ChargedOf(ledger)) /\ Open = SumOf(OpenOf(ledger))
          /\ Charged' = SumOf(ChargedOf(m)) /\ Open' = SumOf(OpenOf(m))
      BY DEF Charged, Open, ChargedOf, OpenOf
    <3>2. m = Append(ledger, [status |-> "RESERVED", charged |-> 0])
      BY <2>1
    <3> HIDE DEF m
    <3>3. /\ m \in Seq(Rows) /\ Len(m) = Len(ledger) + 1
          /\ \A i \in DOMAIN ledger : i \in DOMAIN m /\ m[i] = ledger[i]
          /\ m[Len(ledger) + 1] = [status |-> "RESERVED", charged |-> 0]
          /\ SumOf(ChargedOf(m)) = SumOf(ChargedOf(ledger))
          /\ SumOf(OpenOf(m)) = SumOf(OpenOf(ledger)) + Reserved
      BY <2>2, <3>2, Reserves
    <3> QED
      BY <3>1, <3>3 DEF m
  <2>4. DOMAIN ledger' = 1..(Len(ledger) + 1)
    BY <2>2, <2>3
  <2>5. Charged \in Int /\ Open \in Int
    BY <2>2, LedgerSums, SumsTotal DEF Charged, Open, ChargedOf, OpenOf
  <2>6. LedgerOK'
    <3>1. Charged' + Open' <= Limit
      <4>1. Charged + Open + Reserved <= Limit
        BY <1>1 DEF Affordable
      <4> QED
        BY <2>3, <2>5, <4>1, CostAssumption DEF CostAssumption
    <3>2. \A i \in DOMAIN ledger' : ledger'[i].status = "RESERVED" => ledger'[i].charged = 0
      BY <2>2, <2>3, <2>4 DEF LedgerOK
    <3> QED
      BY <2>3, <3>1, <3>2 DEF LedgerOK
  <2>7. /\ CallTypeOK' /\ Moves(c, "generate", Fields \ {"pc", "row"})
        /\ call'[c].row = Len(ledger) + 1
    <3>1. Len(ledger) + 1 \in Nat
      BY <2>2
    <3> QED
      BY <1>0, <2>1, <3>1, ReserveMoves
  <2>8. ReservationsHeld'
    <3>1. /\ call'[c].pc = "generate" /\ call'[c].row = Len(ledger) + 1
          /\ \A d \in Callers : d # c => call'[d] = call[d]
      BY <2>7 DEF Moves, Others
    <3>2. \A d \in Callers : call[d].pc \in Paying => call[d].row # Len(ledger) + 1
      BY <2>2 DEF ReservationsHeld
    <3>3. call'[c].row \in DOMAIN ledger' /\ ledger'[call'[c].row].status = "RESERVED"
      BY <2>2, <2>3, <2>4, <3>1
    <3>4. "generate" \in Paying
      BY DEF Paying
    <3> QED
      BY <2>3, <3>1, <3>2, <3>3, <3>4 DEF ReservationsHeld
  <2> QED
    BY <2>6, <2>7, <2>8
<1>2. CASE ~Affordable
  <2>1. Return(c, Blocked("MODEL_COST_LIMIT_EXHAUSTED")) /\ UNCHANGED ledger
    BY <1>2 DEF Reserve
  <2>2. CallTypeOK' /\ Moves(c, "done", Kept)
    BY <1>0, <2>1, ReturnMoves
  <2>3. Others(c) /\ call'[c].row = call[c].row /\ call'[c].pc \notin Paying
    BY <2>2 DEF Moves, Keeps, Kept, Paying
  <2> QED
    BY <1>0, <2>1, <2>2, <2>3, ReservationsKept
<1> QED
  BY <1>1, <1>2

\* The call that pays closes the reservation it holds.
LEMMA CloseKeepsCost ==
  ASSUME CostInv, NEW c \in Callers, call[c].pc \in Paying,
         NEW status \in {"FAILED", "SETTLED"}, NEW charged \in Nat, charged <= Reserved,
         Close(call[c].row, status, charged), CallTypeOK', Others(c),
         call'[c].row = call[c].row, call'[c].pc \notin Paying
  PROVE  CostInv'
<1> DEFINE k == call[c].row
<1>1. k \in DOMAIN ledger /\ ledger[k].status = "RESERVED" /\ ledger \in Seq(Rows)
  BY DEF CostInv, ReservationsHeld, LedgerOK
<1>2. ledger[k].charged = 0
  BY <1>1 DEF CostInv, LedgerOK
<1>3. ledger' = [ledger EXCEPT ![k] = [status |-> status, charged |-> charged]]
  BY <1>1 DEF Close
<1> HIDE DEF k
<1>4. /\ ledger' \in Seq(Rows) /\ DOMAIN ledger' = DOMAIN ledger
      /\ \A i \in DOMAIN ledger : i # k => ledger'[i] = ledger[i]
      /\ ledger'[k] = [status |-> status, charged |-> charged]
      /\ Charged' = Charged + charged
      /\ Open' = Open - Reserved
  <2> DEFINE m == ledger'
  <2>1. /\ Charged = SumOf(ChargedOf(ledger)) /\ Open = SumOf(OpenOf(ledger))
        /\ Charged' = SumOf(ChargedOf(m)) /\ Open' = SumOf(OpenOf(m))
    BY DEF Charged, Open, ChargedOf, OpenOf
  <2>2. /\ m \in Seq(Rows) /\ Len(m) = Len(ledger) /\ DOMAIN m = DOMAIN ledger
        /\ DOMAIN ledger = 1..Len(ledger)
        /\ \A i \in DOMAIN ledger : i # k => m[i] = ledger[i]
        /\ m[k] = [status |-> status, charged |-> charged]
    BY <1>1, <1>3 DEF Rows
  <2> HIDE DEF m
  <2>3. m[k].status # "RESERVED" /\ m[k].charged = charged
    BY <2>2
  <2>4. /\ SumOf(ChargedOf(m)) = SumOf(ChargedOf(ledger)) + m[k].charged
        /\ SumOf(OpenOf(m)) = SumOf(OpenOf(ledger)) - Reserved
    BY <1>1, <1>2, <2>2, <2>3, Closes
  <2> QED
    BY <2>1, <2>2, <2>3, <2>4 DEF m
<1>5. LedgerOK'
  <2>1. Charged \in Int /\ Open \in Int
    BY <1>1, LedgerSums, SumsTotal DEF Charged, Open, ChargedOf, OpenOf
  <2>2. Charged' + Open' <= Limit
    BY <1>4, <2>1, CostAssumption DEF CostAssumption, CostInv, LedgerOK
  <2>3. \A i \in DOMAIN ledger' : ledger'[i].status = "RESERVED" => ledger'[i].charged = 0
    <3>1. ledger'[k].status # "RESERVED"
      BY <1>4
    <3> QED
      BY <1>4, <3>1 DEF CostInv, LedgerOK
  <2> QED
    BY <1>4, <2>2, <2>3 DEF LedgerOK
<1>6. ReservationsHeld'
  <2>1. \A d \in Callers : d # c => call'[d] = call[d]
    BY DEF Others
  <2>2. \A d \in Callers : d # c /\ call[d].pc \in Paying => call[d].row # k
    BY DEF CostInv, ReservationsHeld, k
  <2>3. ledger'[k].status # "RESERVED"
    BY <1>4
  <2> QED
    BY <1>1, <1>4, <2>1, <2>2, <2>3, SMTT(30) DEF CostInv, ReservationsHeld, k
<1> QED
  BY <1>5, <1>6 DEF CostInv

LEMMA FailKeepsCost ==
  ASSUME CostInv, NEW c \in Callers, Fail(c)
  PROVE  CostInv'
<1>1. /\ call[c].pc = "fail" /\ clock' = clock /\ Close(call[c].row, "FAILED", Reserved)
      /\ Return(c, Raised("MODEL_PROVIDER_FAILED"))
  BY DEF Fail, At
<1>2. CallTypeOK' /\ Moves(c, "done", Kept)
  BY <1>1, ReturnMoves DEF CostInv
<1>3. /\ Others(c) /\ call'[c].row = call[c].row /\ call'[c].pc \notin Paying
      /\ call[c].pc \in Paying
  BY <1>1, <1>2 DEF Moves, Keeps, Kept, Paying
<1>4. Reserved \in Nat /\ Reserved <= Reserved
  BY CostAssumption DEF CostAssumption
<1> QED
  BY <1>1, <1>2, <1>3, <1>4, CloseKeepsCost

LEMMA SettleMoves ==
  ASSUME CallTypeOK, NEW c \in Callers, Settle(c)
  PROVE  /\ call[c].pc = "settle" /\ CallTypeOK' /\ Others(c)
         /\ call'[c].row = call[c].row
         /\ \/ /\ call'[c].pc = "done"
               /\ call'[c].outcome.status # "READY"
            \/ /\ Moves(c, "save", Fields \ {"pc", "proposal"})
               /\ call'[c].proposal = Composed(c)
               /\ FromMapping(Composed(c))
<1>1. call[c].pc = "settle" /\ clock' = clock
  BY DEF Settle, At
<1>2. /\ Blocked("MODEL_USAGE_METADATA_INVALID").status # "READY"
      /\ Blocked("INVALID_INPUT").status # "READY"
  BY DEF Blocked, Outcome
<1>3. CASE \/ Return(c, Blocked("MODEL_USAGE_METADATA_INVALID"))
           \/ Return(c, Blocked("INVALID_INPUT"))
  <2>1. CallTypeOK' /\ Moves(c, "done", Kept) /\ call'[c].outcome.status # "READY"
    BY <1>1, <1>2, <1>3, ReturnMoves
  <2> QED
    BY <1>1, <2>1 DEF Moves, Keeps, Kept
<1>4. CASE /\ call' = [call EXCEPT ![c].pc = "save", ![c].proposal = Composed(c)]
           /\ FromMapping(Composed(c))
  <2>1. /\ CallTypeOK' /\ Moves(c, "save", Fields \ {"pc", "proposal"})
        /\ call'[c].proposal = Composed(c)
    BY <1>1, <1>4, ComposedMoves
  <2>2. Others(c) /\ call'[c].row = call[c].row
    BY <2>1 DEF Moves, Keeps, Fields
  <2> QED
    BY <1>1, <1>4, <2>1, <2>2
<1> QED
  BY <1>3, <1>4, Zenon DEF Settle

LEMMA SettleKeepsCost ==
  ASSUME CostInv, NEW c \in Callers, Settle(c)
  PROVE  CostInv'
<1>1. /\ call[c].pc = "settle" /\ CallTypeOK' /\ Others(c)
      /\ call'[c].row = call[c].row /\ call'[c].pc \in {"done", "save"}
  BY SettleMoves DEF CostInv, Moves
<1>2. call'[c].pc \notin Paying /\ call[c].pc \in Paying
  BY <1>1 DEF Paying
<1>3. call[c].tokens \in Nat /\ Reserved \in Nat
  BY CostAssumption DEF CostAssumption, CostInv, CallTypeOK, IsCall
<1>4. CASE Close(call[c].row, "FAILED", Reserved)
  BY <1>1, <1>2, <1>3, <1>4, CloseKeepsCost
<1>5. CASE call[c].tokens <= Reserved /\ Close(call[c].row, "SETTLED", call[c].tokens)
  BY <1>1, <1>2, <1>3, <1>5, CloseKeepsCost
<1>6. \/ Close(call[c].row, "FAILED", Reserved)
      \/ ~(call[c].tokens > Reserved) /\ Close(call[c].row, "SETTLED", call[c].tokens)
  BY Zenon DEF Settle
<1> QED
  BY <1>3, <1>4, <1>5, <1>6
\* A step that returns, jumps or remembers a proposal takes no reservation.
LEMMA ReturnKeepsCost ==
  ASSUME CostInv, NEW c \in Callers, NEW outcome, Return(c, outcome), clock' = clock,
         UNCHANGED ledger, call[c].pc \notin Paying
  PROVE  CostInv'
<1>1. CallTypeOK' /\ Moves(c, "done", Kept)
  BY ReturnMoves DEF CostInv
<1>2. Others(c) /\ call'[c].row = call[c].row /\ call'[c].pc \notin Paying
  BY <1>1 DEF Moves, Keeps, Kept, Paying
<1> QED
  BY <1>1, <1>2, ReservationsKept

LEMMA GotoKeepsCost ==
  ASSUME CostInv, NEW c \in Callers, NEW pc \in Pcs, Goto(c, pc), clock' = clock,
         UNCHANGED ledger, call[c].pc \in Paying <=> pc \in Paying
  PROVE  CostInv'
<1>1. CallTypeOK' /\ Moves(c, pc, Fields \ {"pc"})
  BY GotoMoves DEF CostInv
<1>2. Others(c) /\ call'[c].row = call[c].row /\ call'[c].pc = pc
  BY <1>1 DEF Moves, Keeps, Fields
<1> QED
  BY <1>1, <1>2, ReservationsKept

LEMMA StoredKeepsCost ==
  ASSUME CostInv, NEW c \in Callers, NEW pc \in Pcs \ Paying, NEW id, clock' = clock,
         call' = [call EXCEPT ![c].pc = pc, ![c].stored = id],
         UNCHANGED ledger, call[c].pc \notin Paying
  PROVE  CostInv'
<1>1. CallTypeOK' /\ Moves(c, pc, Fields \ {"pc", "stored"})
  BY StoredMoves DEF CostInv
<1>2. Others(c) /\ call'[c].row = call[c].row /\ call'[c].pc = pc
  BY <1>1 DEF Moves, Keeps, Fields
<1> QED
  BY <1>1, <1>2, ReservationsKept

LEMMA StoreKeepsCost ==
  ASSUME CostInv, NEW c \in Callers,
         \/ Lookup(c) \/ ReadActive(c) \/ SaveDuplicate(c) \/ SaveExisting(c)
         \/ SaveCreate(c) \/ SaveWrite(c) \/ WriteFails(c) \/ SaveCommit(c)
         \/ CommitFails(c) \/ Reload(c)
  PROVE  CostInv'
<1>0. /\ "reserve" \in Pcs \ Paying /\ "read" \in Pcs \ Paying /\ "reload" \in Pcs \ Paying
      /\ "write" \in Pcs \ Paying /\ "commit" \in Pcs \ Paying
  BY DEF Pcs, Paying
<1>1. CASE Lookup(c)
  <2>1. UNCHANGED <<clock, ledger>> /\ call[c].pc \notin Paying
    BY <1>1 DEF Lookup, At, Paying
  <2>2. \/ Goto(c, "reserve")
        \/ \E id : call' = [call EXCEPT ![c].pc = "read", ![c].stored = id]
    BY <1>1, Zenon DEF Lookup
  <2> QED
    BY <1>0, <2>1, <2>2, GotoKeepsCost, StoredKeepsCost
<1>2. CASE ReadActive(c)
  <2>1. UNCHANGED <<clock, ledger>> /\ call[c].pc \notin Paying /\ \E o : Return(c, o)
    BY <1>2 DEF ReadActive, At, Paying
  <2> QED
    BY <2>1, ReturnKeepsCost
<1>3. CASE SaveDuplicate(c)
  <2>1. UNCHANGED <<clock, ledger>> /\ call[c].pc \notin Paying
    BY <1>3 DEF SaveDuplicate, At, Paying
  <2>2. \/ \E o : Return(c, o)
        \/ \E id : call' = [call EXCEPT ![c].pc = "reload", ![c].stored = id]
    BY <1>3, Zenon DEF SaveDuplicate
  <2> QED
    BY <1>0, <2>1, <2>2, ReturnKeepsCost, StoredKeepsCost
<1>4. CASE SaveExisting(c)
  <2>1. UNCHANGED <<clock, ledger>> /\ call[c].pc \notin Paying
    BY <1>4 DEF SaveExisting, At, Paying
  <2>2. \E o : Return(c, o)
    BY <1>4, Zenon DEF SaveExisting
  <2> QED
    BY <2>1, <2>2, ReturnKeepsCost
<1>5. CASE SaveCreate(c)
  <2>1. UNCHANGED <<clock, ledger>> /\ call[c].pc \notin Paying /\ Goto(c, "write")
    BY <1>5 DEF SaveCreate, At, Paying
  <2> QED
    BY <1>0, <2>1, GotoKeepsCost
<1>6. CASE SaveWrite(c)
  <2>1. UNCHANGED <<clock, ledger>> /\ call[c].pc \notin Paying /\ Goto(c, "commit")
    BY <1>6 DEF SaveWrite, At, Paying
  <2> QED
    BY <1>0, <2>1, GotoKeepsCost
<1>7. CASE WriteFails(c)
  <2>1. UNCHANGED <<clock, ledger>> /\ call[c].pc \notin Paying /\ \E o : Return(c, o)
    BY <1>7 DEF WriteFails, At, Paying
  <2> QED
    BY <2>1, ReturnKeepsCost
<1>8. CASE SaveCommit(c)
  <2>1. UNCHANGED <<clock, ledger>> /\ call[c].pc \notin Paying /\ \E o : Return(c, o)
    BY <1>8 DEF SaveCommit, At, Paying
  <2> QED
    BY <2>1, ReturnKeepsCost
<1>9. CASE CommitFails(c)
  <2>1. UNCHANGED <<clock, ledger>> /\ call[c].pc \notin Paying /\ \E o : Return(c, o)
    BY <1>9 DEF CommitFails, At, Paying
  <2> QED
    BY <2>1, ReturnKeepsCost
<1>10. CASE Reload(c)
  <2>1. UNCHANGED <<clock, ledger>> /\ call[c].pc \notin Paying
    BY <1>10 DEF Reload, At, Paying
  <2>2. \E o : Return(c, o)
    BY <1>10, Zenon DEF Reload
  <2> QED
    BY <2>1, <2>2, ReturnKeepsCost
<1> QED
  BY <1>1, <1>2, <1>3, <1>4, <1>5, <1>6, <1>7, <1>8, <1>9, <1>10

LEMMA CostInit == Init => CostInv
<1> SUFFICES ASSUME Init PROVE CostInv
  OBVIOUS
<1>1. IsCall(Idle) /\ Idle.at = 0 /\ Idle.row = 0 /\ Idle.pc = "idle"
  BY DEF IsCall, Idle, Fields, Pcs
<1>2. CallTypeOK
  BY <1>1 DEF Init, CallTypeOK
<1>3. ReservationsHeld
  BY <1>1 DEF Init, ReservationsHeld, Paying
<1>4. LedgerOK
  <2>1. ledger = <<>>
    BY DEF Init
  <2>2. ChargedOf(<<>>) = <<>> /\ OpenOf(<<>>) = <<>>
    BY DEF ChargedOf, OpenOf
  <2>3. Charged = 0 /\ Open = 0
    BY <2>1, <2>2, SumOfEmpty DEF Charged, Open, ChargedOf, OpenOf
  <2> QED
    BY <2>1, <2>3, CostAssumption DEF LedgerOK, CostAssumption
<1> QED
  BY <1>2, <1>3, <1>4 DEF CostInv

LEMMA CostStep == CostInv /\ [Next]_vars => CostInv'
<1> SUFFICES ASSUME CostInv, [Next]_vars PROVE CostInv'
  OBVIOUS
<1>1. ASSUME NEW c \in Callers, NEW s, Start(c, s) PROVE CostInv'
  <2>1. /\ CallTypeOK' /\ Others(c) /\ call'[c].row = 0
        /\ call'[c].pc \in {"done", "lookup"}
    BY <1>1, StartMoves DEF CostInv
  <2>2. call'[c].pc \notin Paying /\ UNCHANGED ledger
    BY <1>1, <2>1 DEF Start, Paying
  <2> QED
    BY <2>1, <2>2, ReservationsKept
<1>2. ASSUME NEW c \in Callers, Generate(c) PROVE CostInv'
  <2>1. /\ CallTypeOK'
        /\ \/ Moves(c, "fail", Fields \ {"pc"})
           \/ Moves(c, "settle", Fields \ {"pc", "answer", "tokens"})
    BY <1>2, GenerateMoves DEF CostInv
  <2>2. /\ Others(c) /\ call'[c].row = call[c].row
        /\ call'[c].pc \in Paying
    BY <2>1 DEF Moves, Keeps, Fields, Paying
  <2>3. call[c].pc \in Paying /\ UNCHANGED ledger
    BY <1>2 DEF Generate, At, Paying
  <2> QED
    BY <2>1, <2>2, <2>3, ReservationsKept
<1>3. ASSUME NEW c \in Callers, Crash(c) PROVE CostInv'
  <2>1. CallTypeOK' /\ Others(c) /\ call'[c].row = 0 /\ call'[c].pc \notin Paying
    BY <1>3, CrashMoves DEF CostInv, Paying
  <2>2. UNCHANGED ledger
    BY <1>3 DEF Crash
  <2> QED
    BY <2>1, <2>2, ReservationsKept
<1>4. ASSUME UNCHANGED <<call, ledger>>, CallTypeOK' PROVE CostInv'
  BY <1>4 DEF CostInv, LedgerOK, ReservationsHeld, Charged, Open
<1>5. CASE Tick
  BY <1>4, <1>5, TickMoves DEF Tick, CostInv
<1>6. CASE UNCHANGED vars
  BY <1>4, <1>6 DEF vars, CostInv, CallTypeOK
<1>7. CASE Finished
  BY <1>6, <1>7 DEF Finished
<1> QED
  BY <1>1, <1>2, <1>3, <1>5, <1>6, <1>7, ReserveKeepsCost, FailKeepsCost, SettleKeepsCost,
     StoreKeepsCost
  DEF Next

\* The model costs at most the limit, whatever number of calls reserve at the
\* same time, and a call that returned left no reservation open.
THEOREM RecommendationCostBounded == Spec => []CostBounded
<1>1. CostInv => CostBounded
  <2> SUFFICES ASSUME CostInv PROVE CostBounded
    OBVIOUS
  <2>1. "done" \notin Paying
    BY DEF Paying
  <2> QED
    BY <2>1 DEF CostInv, LedgerOK, ReservationsHeld, CostBounded, At
<1> QED
  BY CostInit, CostStep, <1>1, PTL DEF Spec
-----------------------------------------------------------------------------
(* The proposal index.                                                     *)

RowFields == {"snapshot", "reason", "expires", "active"}

\* A row repeats what its proposal says.
RowOK(id) ==
  /\ index[id] = [f \in RowFields |-> index[id][f]]
  /\ index[id].active \in BOOLEAN
  /\ index[id].snapshot = id.snapshot
  /\ index[id].reason = Projections[id.snapshot].facts
  /\ index[id].expires = id.expires
  /\ id.expires \in Nat

\* What is active is readable, and one proposal of a snapshot is.
IndexOK ==
  /\ index = [id \in DOMAIN index |-> index[id]]
  /\ files = [id \in DOMAIN files |-> files[id]]
  /\ \A id \in DOMAIN index : RowOK(id)
  /\ \A id \in DOMAIN index : index[id].active => Readable(id)
  /\ \A id, other \in DOMAIN index :
       index[id].active /\ index[other].active /\ id.snapshot = other.snapshot => id = other

\* A call that saves holds the proposal it composed; the one that writes it
\* holds the lock, has found no rival and knows its file is complete before it
\* commits the row.
SavingOK(c) ==
  /\ call[c].pc \in {"save", "write", "commit"} =>
       /\ call[c].proposal.snapshot = call[c].snapshot
       /\ call[c].proposal.expires = call[c].at + Lifetime
  /\ call[c].pc \in {"write", "commit"} <=> writer = c
  /\ call[c].pc \in {"write", "commit"} =>
       /\ call[c].proposal \in DOMAIN files
       /\ ActiveFor(Expire(index, call[c].at), call[c].snapshot, SaveReason(c)) = {}
  /\ call[c].pc = "commit" => files[call[c].proposal] # Torn

\* What a call was offered or told is of its snapshot, and active until it expires.
InForce(id, c) ==
  /\ id \in DOMAIN index /\ id.snapshot = call[c].snapshot
  /\ id.expires > clock => index[id].active
AdviceOK(c) ==
  /\ call[c].pc \in {"read", "reload"} => InForce(call[c].stored, c)
  /\ call[c].pc = "done" /\ call[c].outcome.status = "READY" =>
       InForce(call[c].outcome.proposal, c)

StoreInv ==
  /\ CallTypeOK
  /\ IndexOK
  /\ \A c \in Callers : SavingOK(c) /\ AdviceOK(c)

\* The rows of the index stay, and stay active until they expire.
Grows ==
  \A id \in DOMAIN index :
    /\ id \in DOMAIN index'
    /\ id.expires > clock /\ index[id].active => index'[id].active

\* A step of one call, for the others: it writes nothing, or they do not write.
LEMMA OthersStay ==
  ASSUME StoreInv, NEW c \in Callers, Others(c), CallTypeOK', clock' = clock, IndexOK',
         Grows, writer \in {Nobody, c} \/ UNCHANGED <<files, index>>,
         writer' = writer \/ {writer, writer'} \subseteq {Nobody, c},
         SavingOK(c)', AdviceOK(c)'
  PROVE  StoreInv'
<1>1. ASSUME NEW d \in Callers, d # c PROVE SavingOK(d)' /\ AdviceOK(d)'
  <2>1. call'[d] = call[d] /\ SavingOK(d) /\ AdviceOK(d) /\ d # Nobody
    BY <1>1, CostAssumption DEF Others, StoreInv, CostAssumption
  <2>2. writer' = d <=> writer = d
    BY <1>1, <2>1
  <2>3. SavingOK(d)'
    <3>1. CASE writer = d
      <4>1. UNCHANGED <<files, index>>
        BY <1>1, <2>1, <3>1
      <4> QED
        BY <2>1, <2>2, <4>1 DEF SavingOK, SaveReason, Projection
    <3>2. CASE writer # d
      BY <2>1, <2>2, <3>2 DEF SavingOK
    <3> QED
      BY <3>1, <3>2
  <2>4. AdviceOK(d)'
    BY <2>1 DEF AdviceOK, InForce, Grows
  <2> QED
    BY <2>3, <2>4
<1> QED
  BY <1>1 DEF StoreInv

\* A call that neither saves nor was advised has nothing to answer for.
LEMMA NothingHeld ==
  ASSUME NEW c \in Callers, writer' # c,
         call'[c].pc \notin {"save", "write", "commit", "read", "reload"},
         call'[c].pc = "done" => call'[c].outcome.status # "READY"
  PROVE  SavingOK(c)' /\ AdviceOK(c)'
BY DEF SavingOK, AdviceOK

LEMMA IndexStays ==
  ASSUME IndexOK, UNCHANGED <<index, files>>
  PROVE  IndexOK' /\ Grows
BY DEF IndexOK, Grows, RowOK, Readable

\* What Expire leaves of the rows.
LEMMA ExpireRows ==
  ASSUME IndexOK, NEW at \in Nat, at <= clock, clock \in Nat
  PROVE  LET rows == Expire(index, at) IN
         /\ rows = [id \in DOMAIN index |-> rows[id]]
         /\ \A id \in DOMAIN index :
              /\ rows[id] = [f \in RowFields |-> rows[id][f]]
              /\ rows[id].active \in BOOLEAN
              /\ rows[id].snapshot = id.snapshot
              /\ rows[id].reason = Projections[id.snapshot].facts
              /\ rows[id].expires = id.expires
              /\ id.expires \in Nat
              /\ rows[id].active <=> index[id].active /\ id.expires > at
              /\ id.expires > clock => rows[id].active = index[id].active
<1> DEFINE rows == Expire(index, at)
<1>1. /\ rows = [id \in DOMAIN index |-> rows[id]]
      /\ \A id \in DOMAIN index :
           rows[id] = IF index[id].expires <= at THEN [index[id] EXCEPT !.active = FALSE]
                      ELSE index[id]
  BY DEF Expire
<1> HIDE DEF rows
<1>2. ASSUME NEW id \in DOMAIN index
      PROVE  /\ rows[id] = [f \in RowFields |-> rows[id][f]]
             /\ rows[id].active \in BOOLEAN
             /\ rows[id].snapshot = id.snapshot
             /\ rows[id].reason = Projections[id.snapshot].facts
             /\ rows[id].expires = id.expires
             /\ id.expires \in Nat
             /\ rows[id].active <=> index[id].active /\ id.expires > at
             /\ id.expires > clock => rows[id].active = index[id].active
  <2>1. RowOK(id)
    BY <1>2 DEF IndexOK
  <2>2. CASE index[id].expires <= at
    <3>1. rows[id] = [index[id] EXCEPT !.active = FALSE]
      BY <1>1, <2>2
    <3>2. /\ rows[id] = [f \in RowFields |-> rows[id][f]]
          /\ rows[id].active = FALSE /\ rows[id].snapshot = index[id].snapshot
          /\ rows[id].reason = index[id].reason /\ rows[id].expires = index[id].expires
      BY <2>1, <3>1 DEF RowOK, RowFields
    <3>3. ~(id.expires > clock) /\ ~(id.expires > at) /\ id.expires \in Nat
      BY <2>1, <2>2 DEF RowOK
    <3> QED
      BY <2>1, <3>2, <3>3 DEF RowOK
  <2>3. CASE ~(index[id].expires <= at)
    <3>1. rows[id] = index[id]
      BY <1>1, <2>3
    <3>2. id.expires > at
      BY <2>1, <2>3 DEF RowOK
    <3> QED
      BY <2>1, <3>1, <3>2 DEF RowOK
  <2> QED
    BY <2>2, <2>3
<1> QED
  BY <1>1, <1>2 DEF rows

LEMMA ExpireKeeps ==
  ASSUME IndexOK, NEW at \in Nat, at <= clock, clock \in Nat,
         index' = Expire(index, at), UNCHANGED files
  PROVE  IndexOK' /\ Grows
<1>1. /\ index' = [id \in DOMAIN index |-> index'[id]]
      /\ \A id \in DOMAIN index :
           /\ index'[id] = [f \in RowFields |-> index'[id][f]]
           /\ index'[id].active \in BOOLEAN
           /\ index'[id].snapshot = id.snapshot
           /\ index'[id].reason = Projections[id.snapshot].facts
           /\ index'[id].expires = id.expires
           /\ id.expires \in Nat
           /\ index'[id].active => index[id].active /\ id.expires > at
           /\ id.expires > clock => index'[id].active = index[id].active
  BY ExpireRows
<1>2. DOMAIN index' = DOMAIN index
  BY <1>1
<1>3. \A id \in DOMAIN index' : RowOK(id)'
  BY <1>1, <1>2 DEF RowOK
<1>4. \A id \in DOMAIN index' : index'[id].active => Readable(id)'
  BY <1>1, <1>2 DEF IndexOK, Readable
<1>5. Grows
  BY <1>1, <1>2, SMTT(30) DEF Grows
<1> QED
  BY <1>1, <1>2, <1>3, <1>4, <1>5 DEF IndexOK
\* A row is put only where no proposal of its snapshot is active.
LEMMA PutKeeps ==
  ASSUME IndexOK, NEW at \in Nat, at <= clock, clock \in Nat, NEW id, NEW row,
         index' = Put(Expire(index, at), id, row), UNCHANGED files,
         row = [snapshot |-> id.snapshot, reason |-> Projections[id.snapshot].facts,
                expires |-> id.expires, active |-> TRUE],
         id.expires \in Nat, Readable(id),
         ActiveFor(Expire(index, at), id.snapshot, Projections[id.snapshot].facts) = {}
  PROVE  IndexOK' /\ Grows /\ id \in DOMAIN index' /\ index'[id].active
<1> DEFINE rows == Expire(index, at)
<1>1. /\ DOMAIN rows = DOMAIN index
      /\ \A x \in DOMAIN index :
           /\ rows[x] = [f \in RowFields |-> rows[x][f]]
           /\ rows[x].active \in BOOLEAN
           /\ rows[x].snapshot = x.snapshot
           /\ rows[x].reason = Projections[x.snapshot].facts
           /\ rows[x].expires = x.expires
           /\ x.expires \in Nat
           /\ rows[x].active => index[x].active /\ x.expires > at
           /\ x.expires > clock => rows[x].active = index[x].active
  BY ExpireRows
<1>2. \A x \in DOMAIN rows : rows[x].active => x.snapshot # id.snapshot
  BY <1>1 DEF ActiveFor
<1> HIDE DEF rows
<1>3. /\ index' = [x \in DOMAIN index' |-> index'[x]]
      /\ DOMAIN index' = DOMAIN index \cup {id}
      /\ index'[id] = row
      /\ \A x \in DOMAIN index : x # id => index'[x] = rows[x]
  BY <1>1 DEF Put, rows
<1>4. /\ row = [f \in RowFields |-> row[f]] /\ row.active = TRUE
      /\ row.snapshot = id.snapshot /\ row.expires = id.expires
      /\ row.reason = Projections[id.snapshot].facts
  BY DEF RowFields
<1>5. ASSUME NEW x \in DOMAIN index' PROVE RowOK(x)'
  <2>1. CASE x = id
    BY <1>3, <1>4, <2>1 DEF RowOK
  <2>2. CASE x # id
    <3>1. x \in DOMAIN index /\ index'[x] = rows[x]
      BY <1>3, <2>2
    <3> QED
      BY <1>1, <3>1 DEF RowOK
  <2> QED
    BY <2>1, <2>2
<1>6. \A x \in DOMAIN index' : index'[x].active => Readable(x)'
  BY <1>1, <1>3, ZenonT(60) DEF IndexOK, Readable
<1>7. ASSUME NEW x \in DOMAIN index', NEW y \in DOMAIN index',
             index'[x].active, index'[y].active, x.snapshot = y.snapshot
      PROVE  x = y
  <2>1. \A z \in DOMAIN index' :
          index'[z].active /\ z # id =>
            z \in DOMAIN index /\ index[z].active /\ z.snapshot # id.snapshot
    BY <1>1, <1>2, <1>3
  <2> QED
    BY <1>7, <2>1 DEF IndexOK
<1>8. Grows
  <2> SUFFICES ASSUME NEW x \in DOMAIN index
               PROVE  /\ x \in DOMAIN index'
                      /\ x.expires > clock /\ index[x].active => index'[x].active
    BY DEF Grows
  <2>1. CASE x = id
    BY <1>3, <1>4, <2>1
  <2>2. CASE x # id
    <3>1. x \in DOMAIN index' /\ index'[x] = rows[x]
      BY <1>3, <2>2
    <3> QED
      BY <1>1, <3>1
  <2> QED
    BY <2>1, <2>2
<1>9. files' = [x \in DOMAIN files' |-> files'[x]]
  BY DEF IndexOK
<1> QED
  BY <1>3, <1>4, <1>5, <1>6, <1>7, <1>8, <1>9 DEF IndexOK

\* A call returns: with a proposal that is active until it expires, or with none.
LEMMA ReturnKeepsStore ==
  ASSUME StoreInv, NEW c \in Callers, NEW o, Return(c, o), clock' = clock, IndexOK', Grows,
         \/ writer \in {Nobody, c} /\ writer' = Nobody
         \/ UNCHANGED <<files, index, writer>> /\ call[c].pc \notin {"write", "commit"},
         o.status = "READY" =>
           /\ o.proposal \in DOMAIN index' /\ o.proposal.snapshot = call[c].snapshot
           /\ o.proposal.expires > clock => index'[o.proposal].active
  PROVE  StoreInv'
<1>1. CallTypeOK' /\ Moves(c, "done", Kept) /\ call'[c].outcome = o
  BY ReturnMoves DEF StoreInv
<1>2. Others(c) /\ call'[c].pc = "done" /\ call'[c].snapshot = call[c].snapshot
  BY <1>1 DEF Moves, Keeps, Kept
<1>3. c # Nobody /\ writer' # c
  BY CostAssumption DEF CostAssumption, StoreInv, SavingOK
<1>4. SavingOK(c)'
  BY <1>2, <1>3 DEF SavingOK
<1>5. AdviceOK(c)'
  BY <1>1, <1>2 DEF AdviceOK, InForce
<1> QED
  BY <1>1, <1>2, <1>3, <1>4, <1>5, OthersStay

\* A step that leaves the store alone.
LEMMA QuietKeepsStore ==
  ASSUME StoreInv, NEW c \in Callers, Others(c), CallTypeOK', clock' = clock,
         UNCHANGED <<files, index>>, writer' = writer \/ {writer, writer'} \subseteq {Nobody, c},
         SavingOK(c)', AdviceOK(c)'
  PROVE  StoreInv'
<1>1. IndexOK' /\ Grows
  BY IndexStays DEF StoreInv
<1> QED
  BY <1>1, OthersStay
\* The time at which a call began.
LEMMA BeganBefore ==
  ASSUME StoreInv, NEW c \in Callers
  PROVE  /\ call[c].at \in Nat /\ call[c].at <= clock /\ clock \in Nat /\ IndexOK
         /\ SavingOK(c) /\ AdviceOK(c) /\ c # Nobody /\ CallTypeOK
         /\ Lifetime \in Nat \ {0}
BY CostAssumption DEF CostAssumption, StoreInv, CallTypeOK, IsCall

LEMMA LookupKeepsStore ==
  ASSUME StoreInv, NEW c \in Callers, Lookup(c)
  PROVE  StoreInv'
<1> DEFINE active == ActiveFor(index', call[c].snapshot, Projection(c).facts)
<1>1. /\ call[c].pc = "lookup" /\ writer = Nobody /\ clock' = clock
      /\ index' = Expire(index, call[c].at) /\ UNCHANGED <<files, writer>>
  BY DEF Lookup, At
<1>2. \/ Goto(c, "reserve")
      \/ \E id \in active : call' = [call EXCEPT ![c].pc = "read", ![c].stored = id]
  BY <1>1, Zenon DEF Lookup
<1>3. IndexOK' /\ Grows
  BY <1>1, BeganBefore, ExpireKeeps
<1>4. writer' # c
  BY <1>1, BeganBefore
<1>5. CASE Goto(c, "reserve")
  <2>1. CallTypeOK' /\ Others(c) /\ call'[c].pc = "reserve"
    BY <1>1, <1>5, GotoMoves, BeganBefore DEF Pcs, Moves
  <2>2. SavingOK(c)' /\ AdviceOK(c)'
    BY <1>4, <2>1, NothingHeld
  <2> QED
    BY <1>1, <1>3, <2>1, <2>2, OthersStay
<1>6. ASSUME NEW id \in active,
             call' = [call EXCEPT ![c].pc = "read", ![c].stored = id]
      PROVE  StoreInv'
  <2>1. /\ CallTypeOK' /\ Others(c) /\ call'[c].pc = "read" /\ call'[c].stored = id
        /\ call'[c].snapshot = call[c].snapshot
    BY <1>1, <1>6, StoredMoves, BeganBefore DEF Pcs, Moves, Keeps, Fields
  <2>2. id \in DOMAIN index' /\ index'[id].active /\ index'[id].snapshot = call[c].snapshot
    BY DEF ActiveFor
  <2>3. index'[id].snapshot = id.snapshot
    BY <1>3, <2>2 DEF IndexOK, RowOK
  <2>4. SavingOK(c)'
    BY <1>4, <2>1 DEF SavingOK
  <2>5. AdviceOK(c)'
    BY <2>1, <2>2, <2>3 DEF AdviceOK, InForce
  <2> QED
    BY <1>1, <1>3, <2>1, <2>4, <2>5, OthersStay, SMTT(30)
<1> QED
  BY <1>2, <1>5, <1>6

LEMMA ReadActiveKeepsStore ==
  ASSUME StoreInv, NEW c \in Callers, ReadActive(c)
  PROVE  StoreInv'
<1>1. /\ call[c].pc = "read" /\ clock' = clock /\ UNCHANGED <<files, index, writer>>
  BY DEF ReadActive, At
<1>2. PICK o : /\ Return(c, o)
               /\ o.status = "READY" => o.proposal = call[c].stored
  BY DEF ReadActive, Ready, Raised, Outcome
<1>3. InForce(call[c].stored, c)
  BY <1>1, BeganBefore DEF AdviceOK
<1>4. IndexOK' /\ Grows
  BY <1>1, BeganBefore, IndexStays
<1>5. o.status = "READY" =>
        /\ o.proposal \in DOMAIN index' /\ o.proposal.snapshot = call[c].snapshot
        /\ o.proposal.expires > clock => index'[o.proposal].active
  BY <1>1, <1>2, <1>3 DEF InForce
<1> QED
  BY <1>1, <1>2, <1>4, <1>5, ReturnKeepsStore

LEMMA SaveDuplicateKeepsStore ==
  ASSUME StoreInv, NEW c \in Callers, SaveDuplicate(c)
  PROVE  StoreInv'
<1>1. /\ call[c].pc = "save" /\ writer = Nobody /\ clock' = clock
      /\ UNCHANGED <<files, writer>>
  BY DEF SaveDuplicate, At
<1>2. PICK id \in ActiveFor(Expire(index, call[c].at), call[c].snapshot, SaveReason(c)) :
        IF Readable(id)
        THEN /\ index' = Expire(index, call[c].at)
             /\ IF id = call[c].proposal THEN Return(c, Ready(id, TRUE))
                ELSE call' = [call EXCEPT ![c].pc = "reload", ![c].stored = id]
        ELSE /\ Return(c, Raised("PROPOSAL_CONFLICT"))
             /\ UNCHANGED index
  BY Zenon DEF SaveDuplicate
<1>3. writer' # c
  BY <1>1, BeganBefore
<1>4. CASE Readable(id)
  <2>0. IndexOK' /\ Grows /\ index' = Expire(index, call[c].at)
    BY <1>1, <1>2, <1>4, BeganBefore, ExpireKeeps
  <2>1. id \in DOMAIN index' /\ index'[id].active /\ index'[id].snapshot = call[c].snapshot
    BY <1>2, <2>0 DEF ActiveFor
  <2>2. id.snapshot = call[c].snapshot
    BY <2>0, <2>1 DEF IndexOK, RowOK
  <2>3. CASE Return(c, Ready(id, TRUE))
    <3>1. Ready(id, TRUE).proposal = id
      BY DEF Ready
    <3> QED
      BY <1>1, <2>0, <2>1, <2>2, <2>3, <3>1, ReturnKeepsStore
  <2>4. CASE call' = [call EXCEPT ![c].pc = "reload", ![c].stored = id]
    <3>1. /\ CallTypeOK' /\ Others(c) /\ call'[c].pc = "reload" /\ call'[c].stored = id
          /\ call'[c].snapshot = call[c].snapshot
      BY <1>1, <2>4, StoredMoves, BeganBefore, ZenonT(60) DEF Pcs, Moves, Keeps, Fields
    <3>2. SavingOK(c)'
      BY <1>3, <3>1 DEF SavingOK
    <3>3. AdviceOK(c)'
      BY <2>1, <2>2, <3>1 DEF AdviceOK, InForce
    <3> QED
      BY <1>1, <2>0, <3>1, <3>2, <3>3, OthersStay, SMTT(30)
  <2> QED
    BY <1>2, <1>4, <2>3, <2>4
<1>5. CASE ~Readable(id)
  <2>1. Return(c, Raised("PROPOSAL_CONFLICT")) /\ UNCHANGED index
    BY <1>2, <1>5
  <2>2. IndexOK' /\ Grows
    BY <1>1, <2>1, BeganBefore, IndexStays
  <2>3. Raised("PROPOSAL_CONFLICT").status # "READY"
    BY DEF Raised, Outcome
  <2> QED
    BY <1>1, <2>1, <2>2, <2>3, ReturnKeepsStore
<1> QED
  BY <1>4, <1>5

\* The row a call puts is the one of the proposal it composed.
LEMMA PutByCall ==
  ASSUME StoreInv, NEW c \in Callers, call[c].pc \in {"save", "write", "commit"},
         index' = Put(Expire(index, call[c].at), call[c].proposal, IndexRow(c)),
         UNCHANGED files, Readable(call[c].proposal),
         ActiveFor(Expire(index, call[c].at), call[c].snapshot, SaveReason(c)) = {}
  PROVE  /\ IndexOK' /\ Grows
         /\ call[c].proposal \in DOMAIN index' /\ index'[call[c].proposal].active
         /\ call[c].proposal.snapshot = call[c].snapshot
<1> DEFINE id == call[c].proposal
<1> DEFINE row == IndexRow(c)
<1> DEFINE at == call[c].at
<1>1. id.snapshot = call[c].snapshot /\ id.expires = at + Lifetime
  BY BeganBefore DEF SavingOK
<1>2. id.expires \in Nat
  BY <1>1, BeganBefore
<1>3. row = [snapshot |-> id.snapshot, reason |-> Projections[id.snapshot].facts,
             expires |-> id.expires, active |-> TRUE]
  BY <1>1 DEF IndexRow, SaveReason, Projection
<1>4. ActiveFor(Expire(index, at), id.snapshot, Projections[id.snapshot].facts) = {}
  BY <1>1 DEF SaveReason, Projection
<1>5. at \in Nat /\ at <= clock /\ clock \in Nat /\ IndexOK
  BY BeganBefore
<1>6. index' = Put(Expire(index, at), id, row) /\ Readable(id)
  OBVIOUS
<1> HIDE DEF id, row, at
<1>7. IndexOK' /\ Grows /\ id \in DOMAIN index' /\ index'[id].active
  BY <1>2, <1>3, <1>4, <1>5, <1>6, PutKeeps
<1> QED
  BY <1>1, <1>7 DEF id

LEMMA SaveExistingKeepsStore ==
  ASSUME StoreInv, NEW c \in Callers, SaveExisting(c)
  PROVE  StoreInv'
<1>1. /\ call[c].pc = "save" /\ writer = Nobody /\ clock' = clock
      /\ UNCHANGED <<files, writer>>
      /\ ActiveFor(Expire(index, call[c].at), call[c].snapshot, SaveReason(c)) = {}
  BY DEF SaveExisting, At
<1>2. \/ /\ Readable(call[c].proposal)
         /\ index' = Put(Expire(index, call[c].at), call[c].proposal, IndexRow(c))
         /\ Return(c, Ready(call[c].proposal, TRUE))
      \/ Return(c, Raised("PROPOSAL_CONFLICT")) /\ UNCHANGED index
  BY Zenon DEF SaveExisting
<1>3. CASE /\ Readable(call[c].proposal)
           /\ index' = Put(Expire(index, call[c].at), call[c].proposal, IndexRow(c))
           /\ Return(c, Ready(call[c].proposal, TRUE))
  <2>1. /\ IndexOK' /\ Grows
        /\ call[c].proposal \in DOMAIN index' /\ index'[call[c].proposal].active
        /\ call[c].proposal.snapshot = call[c].snapshot
    BY <1>1, <1>3, PutByCall
  <2>2. Ready(call[c].proposal, TRUE).proposal = call[c].proposal
    BY DEF Ready
  <2> QED
    BY <1>1, <1>3, <2>1, <2>2, ReturnKeepsStore
<1>4. CASE Return(c, Raised("PROPOSAL_CONFLICT")) /\ UNCHANGED index
  <2>1. IndexOK' /\ Grows
    BY <1>1, <1>4, BeganBefore, IndexStays
  <2>2. Raised("PROPOSAL_CONFLICT").status # "READY"
    BY DEF Raised, Outcome
  <2> QED
    BY <1>1, <1>4, <2>1, <2>2, ReturnKeepsStore
<1> QED
  BY <1>2, <1>3, <1>4
LEMMA SaveCreateKeepsStore ==
  ASSUME StoreInv, NEW c \in Callers, SaveCreate(c)
  PROVE  StoreInv'
<1> DEFINE p == call[c].proposal
<1>1. /\ call[c].pc = "save" /\ writer = Nobody /\ writer' = c /\ clock' = clock
      /\ UNCHANGED index /\ Goto(c, "write")
      /\ p \notin DOMAIN files /\ files' = Put(files, p, Torn)
      /\ ActiveFor(Expire(index, call[c].at), call[c].snapshot, SaveReason(c)) = {}
  BY DEF SaveCreate, At
<1>2. /\ CallTypeOK' /\ Others(c) /\ call'[c].pc = "write"
      /\ call'[c].snapshot = call[c].snapshot /\ call'[c].at = call[c].at
      /\ call'[c].proposal = p
  BY <1>1, GotoMoves, BeganBefore DEF Pcs, Moves, Keeps, Fields
<1> HIDE DEF p
<1>3. /\ files' = [id \in DOMAIN files' |-> files'[id]]
      /\ DOMAIN files' = DOMAIN files \cup {p} /\ files'[p] = Torn
      /\ \A id \in DOMAIN files : id # p /\ files'[id] = files[id]
  BY <1>1 DEF Put
<1>4. IndexOK' /\ Grows
  BY <1>1, <1>3, BeganBefore DEF IndexOK, Grows, RowOK, Readable
<1>5. p.snapshot = call[c].snapshot /\ p.expires = call[c].at + Lifetime
  BY <1>1, BeganBefore DEF SavingOK, p
<1>6. SavingOK(c)'
  BY <1>1, <1>2, <1>3, <1>5 DEF SavingOK, SaveReason, Projection
<1>7. AdviceOK(c)'
  BY <1>2 DEF AdviceOK
<1> QED
  BY <1>1, <1>2, <1>4, <1>6, <1>7, OthersStay

LEMMA SaveWriteKeepsStore ==
  ASSUME StoreInv, NEW c \in Callers, SaveWrite(c)
  PROVE  StoreInv'
<1> DEFINE p == call[c].proposal
<1> DEFINE tokens == call[c].tokens
<1>1. /\ call[c].pc = "write" /\ UNCHANGED <<clock, index, writer>> /\ Goto(c, "commit")
      /\ files' = [files EXCEPT ![p] = tokens]
  BY DEF SaveWrite, At
<1>2. /\ CallTypeOK' /\ Others(c) /\ call'[c].pc = "commit"
      /\ call'[c].snapshot = call[c].snapshot /\ call'[c].at = call[c].at
      /\ call'[c].proposal = p
  BY <1>1, GotoMoves, BeganBefore DEF Pcs, Moves, Keeps, Fields
<1>3. /\ writer = c /\ p \in DOMAIN files
      /\ ActiveFor(Expire(index, call[c].at), call[c].snapshot, SaveReason(c)) = {}
      /\ p.snapshot = call[c].snapshot /\ p.expires = call[c].at + Lifetime
  BY <1>1, BeganBefore DEF SavingOK
<1>4. tokens # Torn
  BY CostAssumption DEF CostAssumption, StoreInv, CallTypeOK, IsCall
<1> HIDE DEF p, tokens
<1>5. /\ files' = [id \in DOMAIN files' |-> files'[id]]
      /\ DOMAIN files' = DOMAIN files /\ files'[p] # Torn
      /\ \A id \in DOMAIN files : id # p => files'[id] = files[id]
  BY <1>1, <1>3, <1>4 DEF StoreInv, IndexOK
<1>6. IndexOK' /\ Grows
  BY <1>1, <1>5, BeganBefore DEF IndexOK, Grows, RowOK, Readable
<1>7. SavingOK(c)'
  BY <1>1, <1>2, <1>3, <1>5 DEF SavingOK, SaveReason, Projection
<1>8. AdviceOK(c)'
  BY <1>2 DEF AdviceOK
<1> QED
  BY <1>1, <1>2, <1>3, <1>6, <1>7, <1>8, OthersStay

LEMMA WriteFailsKeepsStore ==
  ASSUME StoreInv, NEW c \in Callers, WriteFails(c)
  PROVE  StoreInv'
<1>1. /\ call[c].pc = "write" /\ UNCHANGED <<clock, index, files>> /\ writer' = Nobody
      /\ Return(c, Raised("WRITE_FAILED"))
  BY DEF WriteFails, At
<1>2. writer = c
  BY <1>1, BeganBefore DEF SavingOK
<1>3. IndexOK' /\ Grows
  BY <1>1, BeganBefore, IndexStays
<1>4. Raised("WRITE_FAILED").status # "READY"
  BY DEF Raised, Outcome
<1> QED
  BY <1>1, <1>2, <1>3, <1>4, ReturnKeepsStore

LEMMA SaveCommitKeepsStore ==
  ASSUME StoreInv, NEW c \in Callers, SaveCommit(c)
  PROVE  StoreInv'
<1>1. /\ call[c].pc = "commit" /\ UNCHANGED <<clock, files>> /\ writer' = Nobody
      /\ index' = Put(Expire(index, call[c].at), call[c].proposal, IndexRow(c))
      /\ Return(c, Ready(call[c].proposal, FALSE))
  BY DEF SaveCommit, At
<1>2. /\ writer = c /\ Readable(call[c].proposal)
      /\ ActiveFor(Expire(index, call[c].at), call[c].snapshot, SaveReason(c)) = {}
  BY <1>1, BeganBefore DEF SavingOK, Readable
<1>3. /\ IndexOK' /\ Grows
      /\ call[c].proposal \in DOMAIN index' /\ index'[call[c].proposal].active
      /\ call[c].proposal.snapshot = call[c].snapshot
  BY <1>1, <1>2, PutByCall
<1>4. Ready(call[c].proposal, FALSE).proposal = call[c].proposal
  BY DEF Ready
<1> QED
  BY <1>1, <1>2, <1>3, <1>4, ReturnKeepsStore

LEMMA CommitFailsKeepsStore ==
  ASSUME StoreInv, NEW c \in Callers, CommitFails(c)
  PROVE  StoreInv'
<1> DEFINE p == call[c].proposal
<1>1. /\ call[c].pc = "commit" /\ UNCHANGED <<clock, index>> /\ writer' = Nobody
      /\ files' = [id \in DOMAIN files \ {p} |-> files[id]]
      /\ Return(c, Raised("COMMIT_FAILED"))
  BY DEF CommitFails, At
<1>2. /\ writer = c
      /\ ActiveFor(Expire(index, call[c].at), call[c].snapshot, SaveReason(c)) = {}
      /\ p.snapshot = call[c].snapshot /\ p.expires = call[c].at + Lifetime
  BY <1>1, BeganBefore DEF SavingOK
<1> HIDE DEF p
<1>3. p \in DOMAIN index => ~index[p].active
  <2> SUFFICES ASSUME p \in DOMAIN index, index[p].active PROVE FALSE
    BY BeganBefore DEF IndexOK, RowOK
  <2> DEFINE rows == Expire(index, call[c].at)
  <2>1. p.expires > call[c].at
    BY <1>2, BeganBefore
  <2>2. /\ p \in DOMAIN rows /\ rows[p].active
        /\ rows[p].snapshot = call[c].snapshot /\ rows[p].reason = SaveReason(c)
    <3> DEFINE at == call[c].at
    <3>1. IndexOK /\ at \in Nat /\ at <= clock /\ clock \in Nat
      BY BeganBefore
    <3> HIDE DEF at
    <3>2. /\ DOMAIN Expire(index, at) = DOMAIN index
          /\ \A id \in DOMAIN index :
               /\ Expire(index, at)[id].snapshot = id.snapshot
               /\ Expire(index, at)[id].reason = Projections[id.snapshot].facts
               /\ Expire(index, at)[id].active <=> index[id].active /\ id.expires > at
      BY <3>1, ExpireRows
    <3> QED
      BY <1>2, <2>1, <3>2 DEF SaveReason, Projection, at
  <2> QED
    BY <1>2, <2>2 DEF ActiveFor
<1>4. IndexOK' /\ Grows
  <2>1. /\ files' = [id \in DOMAIN files' |-> files'[id]]
        /\ \A id \in DOMAIN files : id # p => id \in DOMAIN files' /\ files'[id] = files[id]
    BY <1>1
  <2> QED
    BY <1>1, <1>3, <2>1, BeganBefore DEF IndexOK, Grows, RowOK, Readable
<1>5. Raised("COMMIT_FAILED").status # "READY"
  BY DEF Raised, Outcome
<1> QED
  BY <1>1, <1>2, <1>4, <1>5, ReturnKeepsStore

LEMMA ReloadKeepsStore ==
  ASSUME StoreInv, NEW c \in Callers, Reload(c)
  PROVE  StoreInv'
<1> DEFINE id == call[c].stored
<1>1. /\ call[c].pc = "reload" /\ writer = Nobody
      /\ UNCHANGED <<clock, files, writer>>
  BY DEF Reload, At
<1>2. \/ \E reason : Return(c, Raised(reason)) /\ UNCHANGED index
      \/ /\ index' = Expire(index, call[c].at)
         /\ \/ \E reason : Return(c, Raised(reason))
            \/ index'[id].active /\ Return(c, Ready(id, TRUE))
  BY DEF Reload
<1>3. \A reason : Raised(reason).status # "READY"
  BY DEF Raised, Outcome
<1>4. Ready(id, TRUE).proposal = id
  BY DEF Ready
<1>5. id \in DOMAIN index /\ id.snapshot = call[c].snapshot
  BY <1>1, BeganBefore DEF AdviceOK, InForce
<1> HIDE DEF id
<1>6. CASE \E reason : Return(c, Raised(reason)) /\ UNCHANGED index
  <2>1. IndexOK' /\ Grows
    BY <1>1, <1>6, BeganBefore, IndexStays
  <2> QED
    BY <1>1, <1>3, <1>6, <2>1, ReturnKeepsStore
<1>7. CASE /\ index' = Expire(index, call[c].at)
           /\ \/ \E reason : Return(c, Raised(reason))
              \/ index'[id].active /\ Return(c, Ready(id, TRUE))
  <2>1. IndexOK' /\ Grows
    BY <1>1, <1>7, BeganBefore, ExpireKeeps
  <2>2. CASE \E reason : Return(c, Raised(reason))
    BY <1>1, <1>3, <2>1, <2>2, ReturnKeepsStore
  <2>3. CASE index'[id].active /\ Return(c, Ready(id, TRUE))
    <3>1. id \in DOMAIN index'
      BY <1>5, <2>1 DEF Grows
    <3> QED
      BY <1>1, <1>4, <1>5, <2>1, <2>3, <3>1, ReturnKeepsStore
  <2> QED
    BY <1>7, <2>2, <2>3
<1> QED
  BY <1>2, <1>6, <1>7
\* The steps before the store is written, and a process that dies.
LEMMA BeforeSaveKeepsStore ==
  ASSUME StoreInv, CostInv, NEW c \in Callers,
         Reserve(c) \/ Generate(c) \/ Fail(c) \/ \E s : Start(c, s)
  PROVE  StoreInv'
<1>1. /\ UNCHANGED <<files, index, writer>>
      /\ call[c].pc \in {"reserve", "generate", "fail", "idle", "crashed"}
  BY DEF Reserve, Generate, Fail, Start, At
<1>2. writer' # c
  BY <1>1, BeganBefore DEF SavingOK
<1>3. /\ CallTypeOK' /\ Others(c) /\ clock' = clock
      /\ call'[c].pc \in {"generate", "settle", "fail", "lookup", "done"}
      /\ call'[c].pc = "done" => call'[c].outcome.status # "READY"
  <2>1. CASE \E s : Start(c, s)
    <3>1. clock' = clock
      BY <2>1 DEF Start
    <3> QED
      BY <2>1, <3>1, StartMoves, BeganBefore
  <2>2. CASE Generate(c)
    <3>1. clock' = clock
      BY <2>2 DEF Generate
    <3> QED
      BY <2>2, <3>1, GenerateMoves, BeganBefore DEF Moves
  <2>3. CASE Fail(c) \/ (Reserve(c) /\ ~Affordable)
    <3>1. clock' = clock /\ \E reason : \/ Return(c, Raised(reason))
                                        \/ Return(c, Blocked(reason))
      BY <2>3, Zenon DEF Fail, Reserve
    <3>2. \A reason : Raised(reason).status # "READY" /\ Blocked(reason).status # "READY"
      BY DEF Raised, Blocked, Outcome
    <3> QED
      BY <3>1, <3>2, ReturnMoves, BeganBefore DEF Moves
  <2>4. CASE Reserve(c) /\ Affordable
    <3>1. /\ clock' = clock
          /\ call' = [call EXCEPT ![c].pc = "generate", ![c].row = Len(ledger) + 1]
      BY <2>4 DEF Reserve
    <3>2. Len(ledger) + 1 \in Nat
      BY DEF CostInv, LedgerOK
    <3> QED
      BY <3>1, <3>2, ReserveMoves, BeganBefore DEF Moves
  <2> QED
    BY <2>1, <2>2, <2>3, <2>4
<1>4. SavingOK(c)' /\ AdviceOK(c)'
  BY <1>2, <1>3, NothingHeld
<1> QED
  BY <1>1, <1>3, <1>4, QuietKeepsStore
LEMMA SettleKeepsStore ==
  ASSUME StoreInv, NEW c \in Callers, Settle(c)
  PROVE  StoreInv'
<1>1. UNCHANGED <<files, index, writer, clock>>
  BY DEF Settle
<1>2. /\ call[c].pc = "settle" /\ CallTypeOK' /\ Others(c)
      /\ \/ /\ call'[c].pc = "done"
            /\ call'[c].outcome.status # "READY"
         \/ /\ Moves(c, "save", Fields \ {"pc", "proposal"})
            /\ call'[c].proposal = Composed(c)
  BY SettleMoves, BeganBefore
<1>3. writer' # c
  BY <1>1, <1>2, BeganBefore DEF SavingOK
<1>4. CASE call'[c].pc = "done" /\ call'[c].outcome.status # "READY"
  BY <1>1, <1>2, <1>3, <1>4, NothingHeld, QuietKeepsStore
<1>5. CASE /\ Moves(c, "save", Fields \ {"pc", "proposal"})
           /\ call'[c].proposal = Composed(c)
  <2>1. /\ call'[c].pc = "save" /\ call'[c].snapshot = call[c].snapshot
        /\ call'[c].at = call[c].at
    BY <1>5 DEF Moves, Keeps, Fields
  <2>2. SavingOK(c)'
    BY <1>3, <1>5, <2>1 DEF SavingOK, Composed
  <2>3. AdviceOK(c)'
    BY <2>1 DEF AdviceOK
  <2> QED
    BY <1>1, <1>2, <2>2, <2>3, QuietKeepsStore
<1> QED
  BY <1>2, <1>4, <1>5

LEMMA CrashKeepsStore ==
  ASSUME StoreInv, NEW c \in Callers, Crash(c)
  PROVE  StoreInv'
<1>1. /\ UNCHANGED <<files, index, clock>>
      /\ writer' = IF writer = c THEN Nobody ELSE writer
  BY DEF Crash
<1>2. CallTypeOK' /\ Others(c) /\ call'[c].pc = "crashed"
  BY CrashMoves, BeganBefore
<1>3. writer' # c /\ (writer' = writer \/ {writer, writer'} \subseteq {Nobody, c})
  BY <1>1, BeganBefore
<1>4. SavingOK(c)' /\ AdviceOK(c)'
  BY <1>2, <1>3, NothingHeld
<1> QED
  BY <1>1, <1>2, <1>3, <1>4, QuietKeepsStore

LEMMA TickKeepsStore ==
  ASSUME StoreInv, Tick
  PROVE  StoreInv'
<1>1. CallTypeOK' /\ clock <= clock' /\ UNCHANGED <<call, files, index, writer>>
  BY TickMoves DEF StoreInv, Tick
<1>2. IndexOK' /\ IndexOK
  BY <1>1 DEF StoreInv, IndexOK, RowOK, Readable
<1>3. ASSUME NEW c \in Callers PROVE SavingOK(c)' /\ AdviceOK(c)'
  <2>1. SavingOK(c)'
    BY <1>1, BeganBefore DEF SavingOK, SaveReason, Projection
  <2>2. \A id : InForce(id, c) => InForce(id, c)'
    <3>1. \A id \in DOMAIN index : id.expires \in Nat
      BY <1>2 DEF IndexOK, RowOK
    <3>2. clock \in Nat /\ clock' \in Nat
      BY <1>1 DEF StoreInv, CallTypeOK
    <3> QED
      BY <1>1, <3>1, <3>2 DEF InForce
  <2>3. AdviceOK(c)'
    BY <1>1, <2>2, BeganBefore DEF AdviceOK
  <2> QED
    BY <2>1, <2>3
<1> QED
  BY <1>1, <1>2, <1>3 DEF StoreInv

LEMMA StoreInit == Init => StoreInv
<1> SUFFICES ASSUME Init PROVE StoreInv
  OBVIOUS
<1>1. CallTypeOK
  BY CostInit DEF CostInv
<1>2. IndexOK
  BY DEF Init, IndexOK
<1>3. ASSUME NEW c \in Callers PROVE SavingOK(c) /\ AdviceOK(c)
  <2>1. call[c].pc = "idle" /\ writer = Nobody /\ c # Nobody
    BY CostAssumption DEF Init, Idle, CostAssumption
  <2> QED
    BY <2>1 DEF SavingOK, AdviceOK
<1> QED
  BY <1>1, <1>2, <1>3 DEF StoreInv

LEMMA StoreStep == CostInv /\ StoreInv /\ [Next]_vars => StoreInv'
<1> SUFFICES ASSUME CostInv, StoreInv, [Next]_vars PROVE StoreInv'
  OBVIOUS
<1>1. CASE UNCHANGED vars
  <2>1. UNCHANGED <<files, index, writer, call, clock>>
    BY <1>1 DEF vars
  <2>2. CallTypeOK'
    BY <2>1 DEF StoreInv, CallTypeOK
  <2>3. IndexOK'
    BY <2>1, IndexStays DEF StoreInv
  <2>4. ASSUME NEW c \in Callers PROVE SavingOK(c)' /\ AdviceOK(c)'
    BY <2>1, BeganBefore DEF SavingOK, AdviceOK, InForce, SaveReason, Projection
  <2> QED
    BY <2>2, <2>3, <2>4 DEF StoreInv
<1>2. CASE Finished
  BY <1>1, <1>2 DEF Finished
<1> QED
  BY <1>1, <1>2, BeforeSaveKeepsStore, SettleKeepsStore, CrashKeepsStore, TickKeepsStore,
     LookupKeepsStore, ReadActiveKeepsStore, SaveDuplicateKeepsStore,
     SaveExistingKeepsStore, SaveCreateKeepsStore, SaveWriteKeepsStore,
     WriteFailsKeepsStore, SaveCommitKeepsStore, CommitFailsKeepsStore,
     ReloadKeepsStore
  DEF Next

\* What the index offers can be read, after a crash between the file and the
\* row too, and after a failed write or a failed commit.
THEOREM RecommendationActiveIsReadable == Spec => []ActiveIsReadable
<1>1. StoreInv => ActiveIsReadable
  BY DEF StoreInv, IndexOK, ActiveIsReadable
<1> QED
  BY CostInit, CostStep, StoreInit, StoreStep, <1>1, PTL DEF Spec

\* Calls told READY for one snapshot hold one proposal for as long as it is in
\* force, however their lookups, saves and failures interleave.
THEOREM RecommendationOneAdvice == Spec => []OneAdvice
<1>1. StoreInv => OneAdvice
  <2> SUFFICES ASSUME StoreInv, NEW c \in Callers, NEW d \in Callers,
                      call[c].pc = "done", call[d].pc = "done",
                      call[c].outcome.status = "READY", call[d].outcome.status = "READY",
                      call[c].snapshot = call[d].snapshot,
                      call[c].outcome.proposal.expires > clock,
                      call[d].outcome.proposal.expires > clock
               PROVE  call[c].outcome.proposal = call[d].outcome.proposal
    BY DEF OneAdvice, At
  <2>1. InForce(call[c].outcome.proposal, c) /\ InForce(call[d].outcome.proposal, d)
    BY DEF StoreInv, AdviceOK
  <2> QED
    BY <2>1 DEF StoreInv, IndexOK, InForce
<1> QED
  BY CostInit, CostStep, StoreInit, StoreStep, <1>1, PTL DEF Spec

-----------------------------------------------------------------------------
(* READY advice is supported: arithmetic.                                  *)

\* A sum of natural numbers is one.
LEMMA SumOfNat ==
  ASSUME NEW w \in Seq(Nat)
  PROVE  SumOf(w) \in Nat
<1> DEFINE n == Len(w)
<1> DEFINE s == Sums(w)
<1>0. n \in Nat /\ w \in Seq(Int) /\ \A i \in 1..n : w[i] \in Nat
  OBVIOUS
<1>1. s[0] = 0 /\ \A i \in 1..n : s[i] = s[i - 1] + w[i]
  BY <1>0, SumsTyped
<1> DEFINE S == {i \in Nat : i <= n => s[i] \in Nat}
<1> HIDE DEF s, n
<1>2. 0 \in S
  BY <1>1
<1>3. ASSUME NEW i \in Nat, i \in S PROVE i + 1 \in S
  <2> SUFFICES ASSUME i + 1 <= n PROVE s[i + 1] \in Nat
    OBVIOUS
  <2>1. i + 1 \in 1..n /\ (i + 1) - 1 = i
    BY <1>0
  <2>2. s[i + 1] = s[i] + w[i + 1]
    BY <1>1, <2>1
  <2> QED
    BY <1>0, <1>3, <2>1, <2>2
<1> HIDE DEF S
<1>4. Nat \subseteq S
  BY <1>2, <1>3, SetInduction
<1> QED
  BY <1>0, <1>4 DEF S, s, n, SumOf

\* A column of parsed rows adds up to a natural number.
LEMMA TotalNat ==
  ASSUME NEW rows, NEW columns, NEW column \in columns, NEW days,
         RowsParsed(rows, columns)
  PROVE  Total(rows, column, days) \in Nat
<1> DEFINE w == [i \in DOMAIN rows |-> IF rows[i].day \in days THEN rows[i][column] ELSE 0]
<1>1. /\ Len(rows) \in Nat /\ DOMAIN rows = 1..Len(rows)
      /\ \A i \in DOMAIN rows : rows[i][column] \in Nat
  BY DEF RowsParsed
<1>2. w \in Seq(Nat)
  BY <1>1
<1> HIDE DEF w
<1>3. SumOf(w) \in Nat
  BY <1>2, SumOfNat
<1> QED
  BY <1>3 DEF Total, w

\* The quotient of integers.
LEMMA Quotient ==
  ASSUME NEW n \in Int, NEW d \in Nat \ {0}
  PROVE  /\ n \div d \in Int
         /\ d * (n \div d) <= n /\ n < d * (n \div d) + d
OBVIOUS

LEMMA Scaled ==
  ASSUME NEW a \in Int, NEW b \in Int, NEW d \in Nat, a <= b
  PROVE  a * d <= b * d
OBVIOUS

\* A ratio rounded up is within a limit when the exact one is, and a ratio
\* rounded down is below it, or not, when the exact one is.
LEMMA RoundedUp ==
  ASSUME NEW n \in Int, NEW d \in Nat \ {0}, NEW k \in Int
  PROVE  ((n + d - 1) \div d <= k) <=> (n <= k * d)
<1> DEFINE q == (n + d - 1) \div d
<1>1. q \in Int /\ d * q <= n + d - 1 /\ n + d - 1 < d * q + d
  BY Quotient
<1> HIDE DEF q
<1>2. q * d \in Int /\ d * q = q * d /\ k * d \in Int
  BY <1>1
<1>3. CASE q <= k
  <2>1. q * d <= k * d
    BY <1>1, <1>3, Scaled
  <2> QED
    BY <1>1, <1>2, <1>3, <2>1 DEF q
<1>4. CASE q > k
  <2>1. (k + 1) * d <= q * d
    BY <1>1, <1>4, Scaled
  <2>2. (k + 1) * d = k * d + d
    OBVIOUS
  <2> QED
    BY <1>1, <1>2, <1>4, <2>1, <2>2 DEF q
<1> QED
  BY <1>1, <1>3, <1>4

LEMMA RoundedDown ==
  ASSUME NEW n \in Int, NEW d \in Nat \ {0}, NEW k \in Int
  PROVE  (n \div d < k) <=> (n < k * d)
<1> DEFINE q == n \div d
<1>1. q \in Int /\ d * q <= n /\ n < d * q + d
  BY Quotient
<1> HIDE DEF q
<1>2. q * d \in Int /\ d * q = q * d /\ k * d \in Int
  BY <1>1
<1>3. CASE q < k
  <2>1. (q + 1) * d <= k * d
    BY <1>1, <1>3, Scaled
  <2>2. (q + 1) * d = q * d + d
    BY <1>1
  <2> QED
    BY <1>1, <1>2, <1>3, <2>1, <2>2 DEF q
<1>4. CASE q >= k
  <2>1. k * d <= q * d
    BY <1>1, <1>4, Scaled
  <2> QED
    BY <1>1, <1>2, <1>4, <2>1 DEF q
<1> QED
  BY <1>1, <1>3, <1>4

-----------------------------------------------------------------------------
(* READY advice is supported: the facts of a projection hold of the reads. *)

\* Comparable reads have no gap.
LEMMA ComparableIsGapless ==
  ASSUME NEW r, Comparability(r) = "COMPARABLE"
  PROVE  /\ ~IdentifiersDiffer(r) /\ ~PeriodsDiffer(r) /\ ZonesAligned(r)
         /\ ~DirectStale(r) /\ ~MetrikaStale(r) /\ ~Skewed(r)
         /\ ~(r.generated < ClosedAt(r))
         /\ ~(r.metrika.watermark > ClosedAt(r) + Timing.cutoff)
         /\ ~(~LocalFixture(r) /\ r.state.author = Unavailable)
         /\ r.baseline # NoBaseline
<1>1. BlockingGaps(r) = {} /\ PartialGaps(r) = {}
  BY DEF Comparability
<1>2. /\ ~IdentifiersDiffer(r) /\ ~PeriodsDiffer(r) /\ ZonesAligned(r)
      /\ ~DirectStale(r) /\ ~MetrikaStale(r) /\ ~Skewed(r)
      /\ ~(r.generated < ClosedAt(r))
      /\ ~(r.metrika.watermark > ClosedAt(r) + Timing.cutoff)
  BY <1>1 DEF BlockingGaps, GapIf
<1>3. /\ ~(~LocalFixture(r) /\ r.state.author = Unavailable)
      /\ r.baseline # NoBaseline
  BY <1>1 DEF PartialGaps, GapIf
<1> QED
  BY <1>2, <1>3

\* They cover the days that were asked for, and only those.
LEMMA ComparableDays ==
  ASSUME NEW r, Linked(r), Comparability(r) = "COMPARABLE"
  PROVE  /\ DaysOf(r.direct.rows) = Days(r.from, r.to)
         /\ DaysOf(r.metrika.rows) = Days(r.from, r.to)
         /\ Joined(r) = Days(r.from, r.to)
<1>1. /\ r.direct.from = r.from /\ r.direct.to = r.to
      /\ r.metrika.from = r.from /\ r.metrika.to = r.to
  BY ComparableIsGapless DEF PeriodsDiffer
<1>2. /\ DaysOf(r.direct.rows) = Days(r.direct.from, r.direct.to)
      /\ DaysOf(r.metrika.rows) = Days(r.metrika.from, r.metrika.to)
  BY DEF Linked, RowsComplete, CoversPeriod
<1> QED
  BY <1>1, <1>2 DEF Joined

\* Figures of parsed reads are natural numbers.
LEMMA FiguresParsed ==
  ASSUME NEW r, Parsed(r), NEW days
  PROVE  /\ Total(r.direct.rows, "clicks", days) \in Nat
         /\ Total(r.direct.rows, "impressions", days) \in Nat
         /\ Total(r.direct.rows, "cost", days) \in Nat
         /\ Total(r.metrika.rows, "goalVisits", days) \in Nat
<1>1. /\ RowsParsed(r.direct.rows, {"impressions", "clicks", "cost"})
      /\ RowsParsed(r.metrika.rows, {"visits", "goalVisits"})
  BY DEF Parsed
<1>2. /\ "clicks" \in {"impressions", "clicks", "cost"}
      /\ "impressions" \in {"impressions", "clicks", "cost"}
      /\ "cost" \in {"impressions", "clicks", "cost"}
      /\ "goalVisits" \in {"visits", "goalVisits"}
  OBVIOUS
<1> QED
  BY <1>1, <1>2, TotalNat

\* The figures of comparable reads are those of the days asked for.
LEMMA ComparableFigures ==
  ASSUME NEW r, Linked(r), Comparability(r) = "COMPARABLE"
  PROVE  LET p == Snapshot(r)  days == Days(r.from, r.to) IN
         /\ p.comparability = "COMPARABLE" /\ p.confidence = Confidence(r)
         /\ p.clicks = Total(r.direct.rows, "clicks", days)
         /\ p.impressions = Total(r.direct.rows, "impressions", days)
         /\ p.spend = Total(r.direct.rows, "cost", days)
         /\ p.goalVisits = Total(r.metrika.rows, "goalVisits", days)
         /\ p.cpa = RatioUp(p.spend, p.goalVisits)
         /\ p.ctr = RatioDown(100 * p.clicks, p.impressions)
         /\ p.utilization = RatioDown(100 * p.spend, r.state.budget)
<1>1. Joined(r) = Days(r.from, r.to)
  BY ComparableDays
<1> QED
  BY <1>1 DEF Snapshot

\* Incomparable reads support the fact that they are, and no other.
LEMMA IncomparableFacts ==
  ASSUME NEW r, Comparability(r) # "COMPARABLE"
  PROVE  SupportedFacts(Snapshot(r)) \subseteq {"SOURCE_MISMATCH", "ANALYTICS_CONTEXT_INCOMPLETE"}
<1>1. Snapshot(r).comparability = Comparability(r)
  BY DEF Snapshot
<1>2. Comparability(r) \in {"INCOMPATIBLE", "PARTIAL"}
  BY DEF Comparability
<1> DEFINE p == Snapshot(r)
<1> HIDE DEF p
<1>3. p.comparability \in {"INCOMPATIBLE", "PARTIAL"}
  BY <1>1, <1>2 DEF p
<1>4. SupportedFacts(p) \subseteq {"SOURCE_MISMATCH", "ANALYTICS_CONTEXT_INCOMPLETE"}
  BY <1>3 DEF SupportedFacts
<1> QED
  BY <1>4 DEF p

\* Comparable ones support that the sample is small, or what their figures say.
LEMMA ComparableFacts ==
  ASSUME NEW p, p.comparability = "COMPARABLE", NEW f \in SupportedFacts(p)
  PROVE  \/ f = "SAMPLE_BELOW_GATE0_MINIMUM" /\ SampleTooSmall(p)
         \/ f = "BUDGET_UTILIZATION_AT_OR_ABOVE_THRESHOLD" /\ UnderPressure(p)
         \/ f = "CPA_AT_OR_BELOW_TARGET" /\ OnTarget(p)
         \/ f = "CPA_ABOVE_TARGET" /\ AboveTarget(p)
         \/ f = "LOW_CTR_BELOW_THRESHOLD" /\ LowCtr(p)
         \/ f = "NO_CONVERSIONS" /\ p.goalVisits = 0
         \/ f = "NO_CONVERSION_SPEND_AT_OR_ABOVE_THRESHOLD" /\ SpentForNothing(p)
<1>1. CASE SampleTooSmall(p)
  BY <1>1 DEF SupportedFacts
<1>2. CASE ~SampleTooSmall(p)
  <2>1. f \in UNION {FactIf(UnderPressure(p), "BUDGET_UTILIZATION_AT_OR_ABOVE_THRESHOLD"),
                FactIf(OnTarget(p), "CPA_AT_OR_BELOW_TARGET"),
                FactIf(AboveTarget(p), "CPA_ABOVE_TARGET"),
                FactIf(LowCtr(p), "LOW_CTR_BELOW_THRESHOLD"),
                FactIf(p.goalVisits = 0, "NO_CONVERSIONS"),
                FactIf(SpentForNothing(p), "NO_CONVERSION_SPEND_AT_OR_ABOVE_THRESHOLD")}
    BY <1>2 DEF SupportedFacts
  <2> QED
    BY <2>1 DEF FactIf
<1> QED
  BY <1>1, <1>2

\* Every fact of the projection of linked reads holds of the raw reports.
LEMMA FactsHold ==
  ASSUME NEW r, Parsed(r), Linked(r), NEW f \in SupportedFacts(Snapshot(r))
  PROVE  FactHolds(f, r)
<1> DEFINE days == Days(r.from, r.to)
<1> DEFINE clicks == Total(r.direct.rows, "clicks", days)
<1> DEFINE impressions == Total(r.direct.rows, "impressions", days)
<1> DEFINE cost == Total(r.direct.rows, "cost", days)
<1> DEFINE goals == Total(r.metrika.rows, "goalVisits", days)
<1> DEFINE p == Snapshot(r)
<1>1. CASE Comparability(r) # "COMPARABLE"
  BY <1>1, IncomparableFacts DEF FactHolds
<1>2. CASE Comparability(r) = "COMPARABLE"
  <2>1. /\ p.comparability = "COMPARABLE" /\ p.confidence = Confidence(r)
        /\ p.clicks = clicks /\ p.impressions = impressions
        /\ p.spend = cost /\ p.goalVisits = goals
        /\ p.cpa = RatioUp(cost, goals)
        /\ p.ctr = RatioDown(100 * clicks, impressions)
        /\ p.utilization = RatioDown(100 * cost, r.state.budget)
    BY <1>2, ComparableFigures
  <2>2. /\ clicks \in Nat /\ impressions \in Nat /\ cost \in Nat /\ goals \in Nat
        /\ r.state.budget \in Nat
    BY FiguresParsed DEF Parsed
  <2>3. \A name \in LimitNames : Limits[name] \in Nat
    BY LimitsAssumption
  <2>4. /\ Limits.target \in Nat /\ Limits.pressure \in Nat /\ Limits.lowCtr \in Nat
    BY <2>3 DEF LimitNames
  <2>5. /\ f = "SAMPLE_BELOW_GATE0_MINIMUM" /\ SampleTooSmall(p)
           => clicks < Limits.minClicks \/ goals < Limits.minConversions
    <3>1. p.confidence = "INSUFFICIENT_DATA"
          => clicks < Limits.minClicks \/ goals < Limits.minConversions
      BY <1>2, <2>1, ComparableDays DEF Confidence
    <3> HIDE DEF p, clicks, goals
    <3> QED
      BY <2>1, <3>1 DEF SampleTooSmall
  <2> HIDE DEF p, clicks, impressions, cost, goals
  <2>6. FactHolds(f, r) <=>
          CASE f = "CPA_AT_OR_BELOW_TARGET" -> goals > 0 /\ cost <= Limits.target * goals
            [] f = "CPA_ABOVE_TARGET" -> cost > Limits.target * goals
            [] f = "BUDGET_UTILIZATION_AT_OR_ABOVE_THRESHOLD" ->
                 100 * cost >= Limits.pressure * r.state.budget
            [] f = "LOW_CTR_BELOW_THRESHOLD" ->
                 100 * clicks < Limits.lowCtr * impressions
                 /\ impressions >= Limits.lowCtrImpressions
            [] f = "NO_CONVERSIONS" -> goals = 0
            [] f = "NO_CONVERSION_SPEND_AT_OR_ABOVE_THRESHOLD" ->
                 goals = 0 /\ cost >= Limits.stopSpend
            [] f = "SAMPLE_BELOW_GATE0_MINIMUM" ->
                 clicks < Limits.minClicks \/ goals < Limits.minConversions
            [] f \in {"SOURCE_MISMATCH", "ANALYTICS_CONTEXT_INCOMPLETE"} ->
                 Comparability(r) # "COMPARABLE"
    BY DEF FactHolds, clicks, impressions, cost, goals
  <2>7. \/ f = "SAMPLE_BELOW_GATE0_MINIMUM" /\ SampleTooSmall(p)
        \/ f = "BUDGET_UTILIZATION_AT_OR_ABOVE_THRESHOLD" /\ UnderPressure(p)
        \/ f = "CPA_AT_OR_BELOW_TARGET" /\ OnTarget(p)
        \/ f = "CPA_ABOVE_TARGET" /\ AboveTarget(p)
        \/ f = "LOW_CTR_BELOW_THRESHOLD" /\ LowCtr(p)
        \/ f = "NO_CONVERSIONS" /\ p.goalVisits = 0
        \/ f = "NO_CONVERSION_SPEND_AT_OR_ABOVE_THRESHOLD" /\ SpentForNothing(p)
    <3>1. f \in SupportedFacts(p)
      BY DEF p
    <3> QED
      BY <2>1, <3>1, ComparableFacts
  <2>8. CASE f = "SAMPLE_BELOW_GATE0_MINIMUM" /\ SampleTooSmall(p)
    BY <2>5, <2>6, <2>8
  <2>9. CASE f = "BUDGET_UTILIZATION_AT_OR_ABOVE_THRESHOLD" /\ UnderPressure(p)
    <3>1. /\ r.state.budget # 0
          /\ (100 * cost) \div r.state.budget >= Limits.pressure
      BY <2>1, <2>9 DEF UnderPressure, RatioDown
    <3>2. 100 * cost \in Int /\ r.state.budget \in Nat \ {0} /\ Limits.pressure \in Int
      BY <2>2, <2>4, <3>1
    <3>3. /\ (100 * cost) \div r.state.budget \in Int
          /\ ((100 * cost) \div r.state.budget < Limits.pressure)
             <=> (100 * cost < Limits.pressure * r.state.budget)
      BY <3>2, RoundedDown, Quotient
    <3>4. 100 * cost >= Limits.pressure * r.state.budget
      BY <3>1, <3>2, <3>3
    <3> QED
      BY <2>6, <2>9, <3>4
  <2>10. CASE f = "CPA_AT_OR_BELOW_TARGET" /\ OnTarget(p)
    <3>1. goals # 0 /\ (cost + goals - 1) \div goals <= Limits.target
      BY <2>1, <2>10 DEF OnTarget, RatioUp
    <3>2. cost \in Int /\ goals \in Nat \ {0} /\ Limits.target \in Int
      BY <2>2, <2>4, <3>1
    <3>3. goals > 0 /\ cost <= Limits.target * goals
      BY <3>1, <3>2, RoundedUp
    <3> QED
      BY <2>6, <2>10, <3>3
  <2>11. CASE f = "CPA_ABOVE_TARGET" /\ AboveTarget(p)
    <3>1. goals # 0 /\ (cost + goals - 1) \div goals > Limits.target
      BY <2>1, <2>11 DEF AboveTarget, RatioUp
    <3>2. cost \in Int /\ goals \in Nat \ {0} /\ Limits.target \in Int /\ cost + goals - 1 \in Int
      BY <2>2, <2>4, <3>1
    <3>3. /\ (cost + goals - 1) \div goals \in Int
          /\ ((cost + goals - 1) \div goals <= Limits.target) <=> (cost <= Limits.target * goals)
      BY <3>2, RoundedUp, Quotient
    <3>4. cost > Limits.target * goals
      BY <3>1, <3>2, <3>3
    <3> QED
      BY <2>6, <2>11, <3>4
  <2>12. CASE f = "LOW_CTR_BELOW_THRESHOLD" /\ LowCtr(p)
    <3>1. /\ impressions # 0 /\ impressions >= Limits.lowCtrImpressions
          /\ (100 * clicks) \div impressions < Limits.lowCtr
      BY <2>1, <2>12 DEF LowCtr, RatioDown
    <3>2. 100 * clicks \in Int /\ impressions \in Nat \ {0} /\ Limits.lowCtr \in Int
      BY <2>2, <2>4, <3>1
    <3>3. 100 * clicks < Limits.lowCtr * impressions
      BY <3>1, <3>2, RoundedDown
    <3> QED
      BY <2>6, <2>12, <3>1, <3>3
  <2>13. CASE f = "NO_CONVERSIONS" /\ p.goalVisits = 0
    BY <2>1, <2>6, <2>13
  <2>14. CASE f = "NO_CONVERSION_SPEND_AT_OR_ABOVE_THRESHOLD" /\ SpentForNothing(p)
    BY <2>1, <2>6, <2>14 DEF SpentForNothing
  <2> QED
    BY <2>7, <2>8, <2>9, <2>10, <2>11, <2>12, <2>13, <2>14
<1> QED
  BY <1>1, <1>2

-----------------------------------------------------------------------------
(* READY advice is supported: one observation.                             *)

\* A member that is at least as large as every other one is the maximum.
LEMMA MaxIs ==
  ASSUME NEW S, NEW m \in S, S \subseteq Int, \A x \in S : m >= x
  PROVE  Max(S) = m
<1>1. /\ Max(S) \in S
      /\ \A y \in S : Max(S) >= y
  BY DEF Max
<1>2. Max(S) >= m /\ m >= Max(S) /\ Max(S) \in Int /\ m \in Int
  BY <1>1
<1> QED
  BY <1>2

\* The greatest and the least of three integers are among them.
LEMMA ExtremesOfThree ==
  ASSUME NEW a \in Int, NEW b \in Int, NEW c \in Int, NEW S, S = {a, b, c}
  PROVE  Max(S) \in S /\ Min(S) \in S
<1>1. \E x \in S : \A y \in S : x >= y
  <2>1. CASE a >= b /\ a >= c
    BY <2>1
  <2>2. CASE b >= a /\ b >= c
    BY <2>2
  <2>3. CASE c >= a /\ c >= b
    BY <2>3
  <2> QED
    BY <2>1, <2>2, <2>3
<1>2. \E x \in S : \A y \in S : x <= y
  <2>1. CASE a <= b /\ a <= c
    BY <2>1
  <2>2. CASE b <= a /\ b <= c
    BY <2>2
  <2>3. CASE c <= a /\ c <= b
    BY <2>3
  <2> QED
    BY <2>1, <2>2, <2>3
<1> QED
  BY <1>1, <1>2 DEF Max, Min

\* Comparable reads are one observation, whenever each of them was taken.
LEMMA ComparableIsOne ==
  ASSUME NEW r, Parsed(r), Linked(r), Comparability(r) = "COMPARABLE"
  PROVE  OneObservation(r)
<1> DEFINE instants == {b.retrieved : b \in Blocks(r)} \cup {r.generated}
<1> DEFINE marks == {b.watermark : b \in Blocks(r)}
<1> DEFINE end == LocalMidnight(r.to + 1, r.direct.zone)
<1>1. /\ ~IdentifiersDiffer(r) /\ ~PeriodsDiffer(r) /\ ZonesAligned(r)
      /\ ~DirectStale(r) /\ ~MetrikaStale(r) /\ ~Skewed(r)
      /\ ~(r.generated < ClosedAt(r))
      /\ ~(r.metrika.watermark > ClosedAt(r) + Timing.cutoff)
      /\ ~(~LocalFixture(r) /\ r.state.author = Unavailable)
      /\ r.baseline # NoBaseline
  BY ComparableIsGapless
<1>2. /\ r.generated \in Int /\ r.to \in Int
      /\ \A b \in Blocks(r) : b.retrieved \in Int /\ b.watermark \in Int
  BY DEF Parsed, Blocks
<1>3. r.direct \in Blocks(r) /\ r.state \in Blocks(r) /\ r.metrika \in Blocks(r)
  BY DEF Blocks
<1>4. /\ Timing.direct \in Int /\ Timing.metrika \in Int /\ Timing.skew \in Int
      /\ Timing.cutoff \in Int /\ Timing.day \in Int
  BY TimingAssumption
<1>5. Max(instants) = r.generated
  <2>1. instants \subseteq Int /\ r.generated \in instants
    BY <1>2
  <2>2. \A x \in instants : r.generated >= x
    BY <1>2 DEF Linked, ProvenancePast
  <2> HIDE DEF instants
  <2> QED
    BY <2>1, <2>2, MaxIs
<1>6. r.baseline = Trusted.baseline /\ r.state.author = Trusted.owner
  BY <1>1 DEF Linked, InTrustedScope
<1>7. r.metrika.zone = r.direct.zone
  BY <1>1 DEF ZonesAligned
<1>8. \A d \in Days(r.from, r.to) :
        \E i \in DOMAIN r.direct.rows, j \in DOMAIN r.metrika.rows :
          /\ r.direct.rows[i].day = d /\ r.metrika.rows[j].day = d
          /\ {r.direct.rows[i].campaign, r.metrika.rows[j].campaign,
              r.state.campaign} = {Trusted.campaign}
  <2> TAKE d \in Days(r.from, r.to)
  <2>1. d \in DaysOf(r.direct.rows) /\ d \in DaysOf(r.metrika.rows)
    BY ComparableDays
  <2>2. PICK i \in DOMAIN r.direct.rows : r.direct.rows[i].day = d
    BY <2>1 DEF DaysOf
  <2>3. PICK j \in DOMAIN r.metrika.rows : r.metrika.rows[j].day = d
    BY <2>1 DEF DaysOf
  <2>4. /\ r.direct.rows[i].campaign = r.campaign
        /\ r.metrika.rows[j].campaign = r.campaign
        /\ r.state.campaign = r.campaign
    BY <1>1 DEF IdentifiersDiffer
  <2>5. r.campaign = Trusted.campaign
    BY DEF Linked, InTrustedScope
  <2> QED
    BY <2>2, <2>3, <2>4, <2>5
<1>9. /\ Max(instants) - r.direct.retrieved <= Timing.direct
      /\ Max(instants) - r.state.retrieved <= Timing.direct
      /\ Max(instants) - r.metrika.retrieved <= Timing.metrika
  <2> HIDE DEF instants
  <2>1. /\ ~(r.generated - r.direct.retrieved > Timing.direct)
        /\ ~(r.generated - r.state.retrieved > Timing.direct)
        /\ ~(r.generated - r.metrika.retrieved > Timing.metrika)
    BY <1>1 DEF DirectStale, MetrikaStale
  <2>2. /\ r.generated \in Int /\ r.direct.retrieved \in Int
        /\ r.state.retrieved \in Int /\ r.metrika.retrieved \in Int
    BY <1>2, <1>3
  <2> QED
    BY <1>4, <1>5, <2>1, <2>2
<1>10. Max(marks) - Min(marks) <= Timing.skew
  <2>1. Max(marks) \in marks /\ Min(marks) \in marks
    <3>1. marks = {r.direct.watermark, r.state.watermark, r.metrika.watermark}
      BY DEF Blocks
    <3>2. /\ r.direct.watermark \in Int /\ r.state.watermark \in Int
          /\ r.metrika.watermark \in Int
      BY <1>2, <1>3
    <3> HIDE DEF marks
    <3> QED
      BY <3>1, <3>2, ExtremesOfThree
  <2>2. PICK b \in Blocks(r) : Max(marks) = b.watermark
    BY <2>1
  <2>3. PICK d \in Blocks(r) : Min(marks) = d.watermark
    BY <2>1
  <2> HIDE DEF marks
  <2>4. ~(b.watermark - d.watermark > Timing.skew)
    BY <1>1 DEF Skewed
  <2>5. b.watermark \in Int /\ d.watermark \in Int
    BY <1>2
  <2> QED
    BY <1>4, <2>2, <2>3, <2>4, <2>5
<1>11. end <= Max(instants) /\ r.metrika.watermark <= end + Timing.cutoff
  <2>1. ClosedAt(r) = end
    BY <1>1 DEF ClosedAt, PeriodsDiffer
  <2>2. end \in Int
    <3>1. Offsets[r.direct.zone] \in Int
      BY <1>1, TimingAssumption DEF ZonesAligned
    <3> QED
      BY <1>2, <1>4, <3>1 DEF LocalMidnight, Midnight
  <2>3. r.metrika.watermark \in Int
    BY <1>2, <1>3
  <2> HIDE DEF end, instants
  <2> QED
    BY <1>1, <1>2, <1>4, <1>5, <2>1, <2>2, <2>3
<1> HIDE DEF instants, marks, end
<1> QED
  BY <1>6, <1>7, <1>8, <1>9, <1>10, <1>11 DEF OneObservation, instants, marks, end

-----------------------------------------------------------------------------
(* READY advice is supported: the deterministic provider.                  *)

\* Limits under which the provider can advise: those of recommend_contracts.py
\* (a step from 1 to 100 percent, a window of at least an hour).
AdvisableLimits == Limits.step \in 1..100 /\ Limits.window \in Nat \ {0}

\* The facts a projection supports are facts with known evidence.
LEMMA SupportedAreKnown ==
  ASSUME NEW p, p.comparability \in {"COMPARABLE", "PARTIAL", "INCOMPATIBLE"}
  PROVE  SupportedFacts(p) \subseteq DOMAIN FactEvidence
<1> SUFFICES ASSUME NEW f \in SupportedFacts(p) PROVE f \in DOMAIN FactEvidence
  OBVIOUS
<1>1. CASE p.comparability = "COMPARABLE"
  BY <1>1, ComparableFacts, Zenon DEF FactEvidence
<1>2. CASE p.comparability # "COMPARABLE"
  <2>1. f \in {"SOURCE_MISMATCH", "ANALYTICS_CONTEXT_INCOMPLETE"}
    BY <1>2 DEF SupportedFacts
  <2> QED
    BY <2>1 DEF FactEvidence
<1> QED
  BY <1>1, <1>2

\* What fits an action: its parameter, and the change it makes.
ParameterFits(action, parameter) ==
  CASE action = "SET_AD_VARIANT" -> parameter \in {"A", "B"}
    [] action = "REQUEST_HUMAN_HELP" ->
         parameter \in {"MISSING_ANALYTICS_CONTEXT", "AMBIGUOUS_DATA"}
    [] OTHER -> parameter = "none"
DiffFits(action, diff) ==
  /\ diff.operation = IF action \in Unchanging THEN "NO_CHANGE" ELSE action
  /\ CASE action \in Unchanging -> diff.value = "none"
       [] action \in Steps -> diff.step \in 1..100
       [] action = "SET_AD_VARIANT" -> diff.value \in {"A", "B"}
       [] action = "SUSPEND_CAMPAIGN" -> diff.value = "SUSPENDED"
       [] action = "RESUME_CAMPAIGN" -> diff.value = "ON"

\* An answer of the provider, by its parts.
LEMMA AnswerValid ==
  ASSUME AdvisableLimits, NEW p, ValidProjection(p),
         NEW status \in DOMAIN StatusActions, NEW action \in StatusActions[status],
         NEW parameter, NEW diff, NEW a, a = Answer(p, status, action, parameter, diff),
         ParameterFits(action, parameter), DiffFits(action, diff)
  PROVE  ValidAnswer(a, p) /\ a.action = action
<1>1. /\ a.status = status /\ a.facts = p.facts /\ a.action = action
      /\ a.parameter = parameter /\ a.evidence = EvidenceFor(p.facts)
      /\ a.effect = IF action \in Unchanging THEN "NO_CHANGE" ELSE "POSITIVE"
      /\ a.window = Limits.window /\ a.diff = diff
  BY DEF Answer
<1>2. p.facts # {} /\ p.facts \subseteq DOMAIN FactEvidence
  BY SupportedAreKnown DEF ValidProjection
<1>3. EvidenceFor(p.facts) \subseteq ProjectionFields
  BY <1>2 DEF EvidenceFor, ProjectionFields
<1>4. action \in OptimizationActions
  BY DEF StatusActions, OptimizationActions, Unchanging
<1>5. ValidAction(a)
  BY <1>1, <1>4 DEF ValidAction, ParameterFits
<1>6. ValidDiff(a)
  BY <1>1 DEF ValidDiff, DiffFits
<1>7. a.window >= 1
  BY <1>1 DEF AdvisableLimits
<1> QED
  BY <1>1, <1>2, <1>3, <1>5, <1>6, <1>7 DEF ValidAnswer, FactsObserved

\* A change by one step is valid in any state that allows it.
LEMMA SteppedValid ==
  ASSUME AdvisableLimits, NEW p, ValidProjection(p),
         NEW status \in DOMAIN StatusActions, NEW action \in StatusActions[status],
         action \in Steps, NEW a, a = Stepped(p, status, action)
  PROVE  ValidAnswer(a, p)
<1> DEFINE diff == StepDiff(action)
<1>1. diff.operation = action /\ diff.step = Limits.step
  BY DEF StepDiff
<1>2. /\ action \notin Unchanging /\ action # "SET_AD_VARIANT"
      /\ action # "REQUEST_HUMAN_HELP"
  BY DEF Steps, Unchanging
<1>3. a = Answer(p, status, action, "none", diff)
  BY DEF Stepped
<1> HIDE DEF diff
<1>4. diff.step \in 1..100
  BY <1>1 DEF AdvisableLimits
<1>5. ParameterFits(action, "none")
  BY <1>2 DEF ParameterFits
<1>6. DiffFits(action, diff)
  BY <1>1, <1>2, <1>4 DEF DiffFits, Steps, Unchanging
<1> QED
  BY <1>3, <1>5, <1>6, AnswerValid

\* A difference has the operation and the value it is made of.
LEMMA DiffIs ==
  ASSUME NEW operation, NEW value
  PROVE  /\ Diff(operation, value).operation = operation
         /\ Diff(operation, value).value = value
BY DEF Diff

\* Whatever a projection holds, the provider's answer to it is valid.
LEMMA FakeValid ==
  ASSUME AdvisableLimits, NEW p, ValidProjection(p)
  PROVE  ValidAnswer(FakeAnswer(p), p)
<1>1. /\ "REQUEST_HUMAN_HELP" \in StatusActions["NEEDS_HUMAN"]
      /\ "SUSPEND_CAMPAIGN" \in StatusActions["INEFFECTIVE"]
      /\ "KEEP" \in StatusActions["INSUFFICIENT_DATA"]
      /\ {"KEEP", "INCREASE_WEEKLY_BUDGET", "INCREASE_SEARCH_BID", "RESUME_CAMPAIGN"}
           \subseteq StatusActions["EFFECTIVE"]
      /\ {"SET_AD_VARIANT", "DECREASE_WEEKLY_BUDGET", "DECREASE_SEARCH_BID"}
           \subseteq StatusActions["INEFFECTIVE"]
      /\ {"NEEDS_HUMAN", "INEFFECTIVE", "INSUFFICIENT_DATA", "EFFECTIVE"}
           \subseteq DOMAIN StatusActions
  BY DEF StatusActions
<1>2. /\ NoChange.operation = "NO_CHANGE" /\ NoChange.value = "none"
  BY DiffIs DEF NoChange
<1>3. ValidAnswer(AskHuman(p), p)
  <2> DEFINE parameter == IF "ANALYTICS_CONTEXT_INCOMPLETE" \in p.facts
                          THEN "MISSING_ANALYTICS_CONTEXT" ELSE "AMBIGUOUS_DATA"
  <2>1. AskHuman(p) = Answer(p, "NEEDS_HUMAN", "REQUEST_HUMAN_HELP", parameter, NoChange)
    BY DEF AskHuman
  <2>2. parameter \in {"MISSING_ANALYTICS_CONTEXT", "AMBIGUOUS_DATA"}
    OBVIOUS
  <2>3. ParameterFits("REQUEST_HUMAN_HELP", parameter)
    BY <2>2 DEF ParameterFits
  <2>4. DiffFits("REQUEST_HUMAN_HELP", NoChange)
    BY <1>2 DEF DiffFits, Steps, Unchanging
  <2> HIDE DEF parameter
  <2> QED
    BY <1>1, <2>1, <2>3, <2>4, AnswerValid
<1>4. ASSUME NEW status \in {"INSUFFICIENT_DATA", "EFFECTIVE"}
      PROVE  ValidAnswer(Answer(p, status, "KEEP", "none", NoChange), p)
  <2>1. ParameterFits("KEEP", "none")
    BY DEF ParameterFits
  <2>2. DiffFits("KEEP", NoChange)
    BY <1>2 DEF DiffFits, Steps, Unchanging
  <2> QED
    BY <1>1, <2>1, <2>2, AnswerValid
<1>5. ValidAnswer(Answer(p, "INEFFECTIVE", "SUSPEND_CAMPAIGN", "none",
                         Diff("SUSPEND_CAMPAIGN", "SUSPENDED")), p)
  <2>1. "SUSPEND_CAMPAIGN" \notin Unchanging \cup Steps
    BY DEF Unchanging, Steps
  <2>2. ParameterFits("SUSPEND_CAMPAIGN", "none")
    BY DEF ParameterFits
  <2>3. DiffFits("SUSPEND_CAMPAIGN", Diff("SUSPEND_CAMPAIGN", "SUSPENDED"))
    BY <2>1, DiffIs DEF DiffFits
  <2> QED
    BY <1>1, <2>2, <2>3, AnswerValid
<1>6. ValidAnswer(Answer(p, "EFFECTIVE", "RESUME_CAMPAIGN", "none",
                         Diff("RESUME_CAMPAIGN", "ON")), p)
  <2>1. "RESUME_CAMPAIGN" \notin Unchanging \cup Steps
    BY DEF Unchanging, Steps
  <2>2. ParameterFits("RESUME_CAMPAIGN", "none")
    BY DEF ParameterFits
  <2>3. DiffFits("RESUME_CAMPAIGN", Diff("RESUME_CAMPAIGN", "ON"))
    BY <2>1, DiffIs DEF DiffFits
  <2> QED
    BY <1>1, <2>2, <2>3, AnswerValid
<1>7. ValidAnswer(Answer(p, "INEFFECTIVE", "SET_AD_VARIANT", OtherVariant(p),
                         Diff("SET_AD_VARIANT", OtherVariant(p))), p)
  <2>1. "SET_AD_VARIANT" \notin Unchanging \cup Steps
    BY DEF Unchanging, Steps
  <2>2. OtherVariant(p) \in {"A", "B"}
    BY DEF OtherVariant
  <2>3. ParameterFits("SET_AD_VARIANT", OtherVariant(p))
    BY <2>2 DEF ParameterFits
  <2>4. DiffFits("SET_AD_VARIANT", Diff("SET_AD_VARIANT", OtherVariant(p)))
    BY <2>1, <2>2, DiffIs DEF DiffFits
  <2> QED
    BY <1>1, <2>3, <2>4, AnswerValid
<1>8. ValidAnswer(Advice(p), p)
  <2>1. /\ {"INCREASE_WEEKLY_BUDGET", "INCREASE_SEARCH_BID", "DECREASE_WEEKLY_BUDGET",
            "DECREASE_SEARCH_BID"} \subseteq Steps
    BY DEF Steps
  <2>2. /\ ValidAnswer(Stepped(p, "INEFFECTIVE", "DECREASE_WEEKLY_BUDGET"), p)
        /\ ValidAnswer(Stepped(p, "INEFFECTIVE", "DECREASE_SEARCH_BID"), p)
        /\ ValidAnswer(Stepped(p, "EFFECTIVE", "INCREASE_WEEKLY_BUDGET"), p)
        /\ ValidAnswer(Stepped(p, "EFFECTIVE", "INCREASE_SEARCH_BID"), p)
    BY <1>1, <2>1, SteppedValid
  <2> QED
    BY <1>4, <1>6, <1>7, <2>2 DEF Advice
<1> QED
  BY <1>3, <1>4, <1>5, <1>8 DEF FakeAnswer

\* The provider changes an account only where the reads are comparable.
LEMMA FakeChangesComparable ==
  ASSUME NEW p, FakeAnswer(p).action \notin Unchanging
  PROVE  p.comparability = "COMPARABLE"
<1> SUFFICES ASSUME p.comparability # "COMPARABLE" PROVE FALSE
  OBVIOUS
<1>1. FakeAnswer(p) = AskHuman(p)
  BY DEF FakeAnswer
<1>2. AskHuman(p).action = "REQUEST_HUMAN_HELP"
  BY DEF AskHuman, Answer
<1> QED
  BY <1>1, <1>2 DEF Unchanging

-----------------------------------------------------------------------------
(* READY advice is supported: the calls.                                   *)

Running == Pcs \ {"idle", "crashed", "done"}

Grounded(c) == call[c].snapshot \in Observed /\ ValidProjection(Projection(c))
Advised(c, id) == FromMapping(id) /\ id.expires > call[c].at

\* A call works on linked reads and a valid projection; what it saves, and what
\* it was told READY, has passed the validation and outlives its beginning.
SoundOK(c) ==
  /\ call[c].pc \in Running => Grounded(c)
  /\ call[c].pc \in {"save", "write", "commit"} => Advised(c, call[c].proposal)
  /\ call[c].pc = "read" => call[c].stored.expires > call[c].at
  /\ call[c].pc = "done" /\ call[c].outcome.status = "READY" =>
       call[c].snapshot \in Observed /\ Advised(c, call[c].outcome.proposal)

SoundInv == \A c \in Callers : SoundOK(c)

\* Only the call that moves has something to show.
LEMMA SoundOthers ==
  ASSUME SoundInv, NEW c \in Callers, Others(c), SoundOK(c)'
  PROVE  SoundInv'
<1> SUFFICES ASSUME NEW d \in Callers PROVE SoundOK(d)'
  BY DEF SoundInv
<1>1. CASE d # c
  <2>1. call'[d] = call[d] /\ SoundOK(d)
    BY <1>1 DEF Others, SoundInv
  <2> QED
    BY <2>1 DEF SoundOK, Grounded, Projection, Advised
<1> QED
  BY <1>1

\* A jump within the work on a snapshot.
LEMMA SoundMove ==
  ASSUME SoundInv, NEW c \in Callers, call[c].pc \in Running, Others(c),
         call'[c].pc \in Running, call'[c].snapshot = call[c].snapshot,
         call'[c].at = call[c].at,
         call'[c].pc \in {"save", "write", "commit"} => Advised(c, call'[c].proposal),
         call'[c].pc = "read" => call'[c].stored.expires > call[c].at
  PROVE  SoundInv'
<1>1. SoundOK(c) /\ call'[c].pc # "done"
  BY DEF SoundInv, Running
<1>2. SoundOK(c)'
  BY <1>1 DEF SoundOK, Grounded, Projection, Advised
<1> QED
  BY <1>2, SoundOthers

\* A return, with the proposal that READY stands for.
LEMMA SoundReturn ==
  ASSUME StoreInv, SoundInv, NEW c \in Callers, NEW o, Return(c, o), clock' = clock,
         call[c].pc \in Running,
         o.status = "READY" => Advised(c, o.proposal)
  PROVE  SoundInv'
<1>1. Moves(c, "done", Kept) /\ call'[c].outcome = o
  BY ReturnMoves DEF StoreInv
<1>2. /\ Others(c) /\ call'[c].pc = "done" /\ call'[c].snapshot = call[c].snapshot
      /\ call'[c].at = call[c].at
  BY <1>1 DEF Moves, Keeps, Kept
<1>3. call[c].snapshot \in Observed
  BY DEF SoundInv, SoundOK, Grounded
<1>4. SoundOK(c)'
  BY <1>1, <1>2, <1>3 DEF SoundOK, Advised, Running
<1> QED
  BY <1>2, <1>4, SoundOthers

\* A refusal is not an advice, and
LEMMA RaisedIsNotReady ==
  \A reason : Raised(reason).status # "READY" /\ Blocked(reason).status # "READY"
BY DEF Raised, Blocked, Outcome

\* what is answered READY is the proposal it was asked for.
LEMMA ReadyHolds ==
  \A id, dedup : Ready(id, dedup).proposal = id
BY DEF Ready

\* A call starts from a projection that was found valid.
LEMMA StartIsSound ==
  ASSUME StoreInv, SoundInv, NEW c \in Callers, NEW s, Start(c, s)
  PROVE  SoundInv'
<1>1. /\ Others(c) /\ call'[c].snapshot = s
      /\ call'[c].pc \in {"done", "lookup"}
      /\ call'[c].pc = "done" => call'[c].outcome.status # "READY"
  BY StartMoves DEF StoreInv
<1>2. call'[c].pc = "lookup" => s \in Observed /\ ValidProjection(Projections[s])
  <2> DEFINE new == [Idle EXCEPT !.snapshot = s, !.at = clock]
  <2> DEFINE refused(o) == [new EXCEPT !.pc = "done", !.outcome = o]
  <2>1. \/ s \in Observed /\ ValidProjection(Projections[s])
        \/ \E o : call'[c] = refused(o)
    BY DEF Start, StoreInv, CallTypeOK
  <2>2. \A o : refused(o).pc = "done"
    BY DEF Idle
  <2> HIDE DEF refused
  <2> QED
    BY <2>1, <2>2
<1>3. SoundOK(c)'
  BY <1>1, <1>2 DEF SoundOK, Grounded, Projection, Running, Pcs
<1> QED
  BY <1>1, <1>3, SoundOthers

\* An active row of the index has not ended at the beginning of the call.
LEMMA ActiveOutlives ==
  ASSUME StoreInv, NEW c \in Callers, NEW snapshot, NEW reason,
         NEW id \in ActiveFor(Expire(index, call[c].at), snapshot, reason)
  PROVE  id.expires > call[c].at
<1> DEFINE rows == Expire(index, call[c].at)
<1>1. rows = [x \in DOMAIN index |-> rows[x]]
      /\ \A x \in DOMAIN index : rows[x].active => x.expires > call[c].at
  BY ExpireRows, BeganBefore
<1>2. id \in DOMAIN rows /\ rows[id].active
  BY DEF ActiveFor
<1> HIDE DEF rows
<1> QED
  BY <1>1, <1>2

\* A row found active has not expired at the call's instant.
LEMMA LookupIsSound ==
  ASSUME StoreInv, SoundInv, NEW c \in Callers, Lookup(c)
  PROVE  SoundInv'
<1>1. /\ call[c].pc = "lookup" /\ clock' = clock /\ CallTypeOK
      /\ {"lookup", "reserve", "read"} \subseteq Running
      /\ {"reserve", "read"} \subseteq Pcs
  BY DEF Lookup, At, Running, Pcs, StoreInv
<1>2. \/ Goto(c, "reserve")
      \/ \E id \in ActiveFor(Expire(index, call[c].at), call[c].snapshot, Projection(c).facts) :
           call' = [call EXCEPT ![c].pc = "read", ![c].stored = id]
  BY Zenon DEF Lookup
<1>3. CASE Goto(c, "reserve")
  <2>1. /\ Others(c) /\ call'[c].pc = "reserve" /\ call'[c].snapshot = call[c].snapshot
        /\ call'[c].at = call[c].at
    BY <1>1, <1>3, GotoMoves DEF Moves, Keeps, Fields
  <2> QED
    BY <1>1, <2>1, SoundMove
<1>4. ASSUME NEW id \in ActiveFor(Expire(index, call[c].at), call[c].snapshot,
                                  Projection(c).facts),
             call' = [call EXCEPT ![c].pc = "read", ![c].stored = id]
      PROVE  SoundInv'
  <2>0. Moves(c, "read", Fields \ {"pc", "stored"}) /\ call'[c].stored = id
    BY <1>1, <1>4, StoredMoves
  <2>1. /\ Others(c) /\ call'[c].pc = "read" /\ call'[c].snapshot = call[c].snapshot
        /\ call'[c].at = call[c].at /\ call'[c].stored = id
    BY <2>0 DEF Moves, Keeps, Fields
  <2>2. id.expires > call[c].at
    BY ActiveOutlives
  <2> QED
    BY <1>1, <2>1, <2>2, SoundMove
<1> QED
  BY <1>2, <1>3, <1>4

\* A proposal read from its file is the one its row names.
LEMMA ReadActiveIsSound ==
  ASSUME StoreInv, SoundInv, NEW c \in Callers, ReadActive(c)
  PROVE  SoundInv'
<1>1. /\ call[c].pc = "read" /\ clock' = clock /\ "read" \in Running
  BY DEF ReadActive, At, Running, Pcs
<1>2. call[c].stored.expires > call[c].at
  BY <1>1 DEF SoundInv, SoundOK
<1>3. CASE FromMapping(call[c].stored) /\ Return(c, Ready(call[c].stored, TRUE))
  BY <1>1, <1>2, <1>3, ReadyHolds, SoundReturn DEF Advised
<1>4. CASE Return(c, Raised("PROPOSAL_CONFLICT"))
  BY <1>1, <1>4, RaisedIsNotReady, SoundReturn
<1> QED
  BY <1>3, <1>4, Zenon DEF ReadActive

\* The steps up to the proposal, and the jumps of its save.
LEMMA ModelIsSound ==
  ASSUME StoreInv, SoundInv, CostInv, NEW c \in Callers,
         Reserve(c) \/ Generate(c) \/ Fail(c) \/ Settle(c)
  PROVE  SoundInv'
<1>0. CallTypeOK /\ clock' = clock
  BY DEF StoreInv, Reserve, Generate, Fail, Settle
<1>1. call[c].pc \in {"reserve", "generate", "fail", "settle"} /\ call[c].pc \in Running
  BY DEF Reserve, Generate, Fail, Settle, At, Running, Pcs
<1>2. CASE Fail(c) \/ (Reserve(c) /\ ~Affordable)
  <2>1. \E reason : \/ Return(c, Raised(reason))
                    \/ Return(c, Blocked(reason))
    BY <1>2, Zenon DEF Fail, Reserve
  <2> QED
    BY <1>0, <1>1, <2>1, RaisedIsNotReady, SoundReturn
<1>3. CASE Reserve(c) /\ Affordable
  <2>1. call' = [call EXCEPT ![c].pc = "generate", ![c].row = Len(ledger) + 1]
    BY <1>3 DEF Reserve
  <2>2. Len(ledger) + 1 \in Nat
    BY DEF CostInv, LedgerOK
  <2>3. Moves(c, "generate", Fields \ {"pc", "row"})
    BY <1>0, <2>1, <2>2, ReserveMoves
  <2>4. /\ Others(c) /\ call'[c].pc = "generate" /\ call'[c].snapshot = call[c].snapshot
        /\ call'[c].at = call[c].at
    BY <2>3 DEF Moves, Keeps, Fields
  <2>5. call'[c].pc \in Running
    BY <2>4 DEF Running, Pcs
  <2> QED
    BY <1>1, <2>4, <2>5, SoundMove
<1>4. CASE Generate(c)
  <2>1. /\ Others(c) /\ call'[c].pc \in {"fail", "settle"}
        /\ call'[c].snapshot = call[c].snapshot /\ call'[c].at = call[c].at
    BY <1>0, <1>4, GenerateMoves DEF Moves, Keeps, Fields
  <2>2. call'[c].pc \in Running
    BY <2>1 DEF Running, Pcs
  <2> QED
    BY <1>1, <2>1, <2>2, SoundMove
<1>5. CASE Settle(c)
  <2>1. /\ Others(c)
        /\ \/ /\ call'[c].pc = "done"
              /\ call'[c].outcome.status # "READY"
           \/ /\ Moves(c, "save", Fields \ {"pc", "proposal"})
              /\ call'[c].proposal = Composed(c)
              /\ FromMapping(Composed(c))
    BY <1>0, <1>5, SettleMoves
  <2>2. CASE call'[c].pc = "done" /\ call'[c].outcome.status # "READY"
    <3>1. SoundOK(c)'
      BY <2>2 DEF SoundOK, Running
    <3> QED
      BY <2>1, <3>1, SoundOthers
  <2>3. CASE /\ Moves(c, "save", Fields \ {"pc", "proposal"})
             /\ call'[c].proposal = Composed(c)
             /\ FromMapping(Composed(c))
    <3>1. /\ call'[c].pc = "save" /\ call'[c].snapshot = call[c].snapshot
          /\ call'[c].at = call[c].at
      BY <2>3 DEF Moves, Keeps, Fields
    <3>2. call'[c].pc \in Running
      BY <3>1 DEF Running, Pcs
    <3>3. Composed(c).expires > call[c].at
      BY BeganBefore DEF Composed
    <3> QED
      BY <1>1, <2>1, <2>3, <3>1, <3>2, <3>3, SoundMove DEF Advised
  <2> QED
    BY <2>1, <2>2, <2>3
<1> QED
  BY <1>2, <1>3, <1>4, <1>5

\* A call that finds a rival takes over a row that is in force,
LEMMA SaveDuplicateIsSound ==
  ASSUME StoreInv, SoundInv, NEW c \in Callers, SaveDuplicate(c)
  PROVE  SoundInv'
<1>1. /\ call[c].pc = "save" /\ clock' = clock /\ CallTypeOK
      /\ {"save", "reload"} \subseteq Running /\ "reload" \in Pcs
  BY DEF SaveDuplicate, At, Running, Pcs, StoreInv
<1>2. PICK id \in ActiveFor(Expire(index, call[c].at), call[c].snapshot, SaveReason(c)) :
        \/ id = call[c].proposal /\ Return(c, Ready(id, TRUE))
        \/ call' = [call EXCEPT ![c].pc = "reload", ![c].stored = id]
        \/ Return(c, Raised("PROPOSAL_CONFLICT"))
  BY Zenon DEF SaveDuplicate
<1>3. CASE id = call[c].proposal /\ Return(c, Ready(id, TRUE))
  <2>1. Advised(c, call[c].proposal)
    BY <1>1 DEF SoundInv, SoundOK
  <2> QED
    BY <1>1, <1>3, <2>1, ReadyHolds, SoundReturn
<1>4. CASE call' = [call EXCEPT ![c].pc = "reload", ![c].stored = id]
  <2>1. /\ Others(c) /\ call'[c].pc = "reload" /\ call'[c].snapshot = call[c].snapshot
        /\ call'[c].at = call[c].at
    BY <1>1, <1>4, StoredMoves, ZenonT(60) DEF Moves, Keeps, Fields
  <2> QED
    BY <1>1, <2>1, SoundMove
<1>5. CASE Return(c, Raised("PROPOSAL_CONFLICT"))
  BY <1>1, <1>5, RaisedIsNotReady, SoundReturn
<1> QED
  BY <1>2, <1>3, <1>4, <1>5

\* A step that returns the proposal of its call, or no proposal.
LEMMA OwnProposalIsSound ==
  ASSUME StoreInv, SoundInv, NEW c \in Callers,
         SaveExisting(c) \/ WriteFails(c) \/ SaveCommit(c) \/ CommitFails(c)
  PROVE  SoundInv'
<1>1. /\ call[c].pc \in {"save", "write", "commit"} /\ clock' = clock
      /\ {"save", "write", "commit"} \subseteq Running
  BY DEF SaveExisting, WriteFails, SaveCommit, CommitFails, At, Running, Pcs
<1>2. \/ \E dedup : Return(c, Ready(call[c].proposal, dedup))
      \/ \E reason : Return(c, Raised(reason))
  BY Zenon DEF SaveExisting, WriteFails, SaveCommit, CommitFails
<1>3. Advised(c, call[c].proposal)
  BY <1>1 DEF SoundInv, SoundOK
<1>4. CASE \E dedup : Return(c, Ready(call[c].proposal, dedup))
  BY <1>1, <1>3, <1>4, ReadyHolds, SoundReturn
<1>5. CASE \E reason : Return(c, Raised(reason))
  BY <1>1, <1>5, RaisedIsNotReady, SoundReturn
<1> QED
  BY <1>2, <1>4, <1>5

\* one that writes keeps the answer it has validated,
LEMMA WritingIsSound ==
  ASSUME StoreInv, SoundInv, NEW c \in Callers, SaveCreate(c) \/ SaveWrite(c)
  PROVE  SoundInv'
<1>1. /\ call[c].pc \in {"save", "write"} /\ clock' = clock /\ CallTypeOK
      /\ {"save", "write", "commit"} \subseteq Running
      /\ {"write", "commit"} \subseteq Pcs
  BY DEF SaveCreate, SaveWrite, At, Running, Pcs, StoreInv
<1>2. PICK pc \in {"write", "commit"} : Goto(c, pc)
  BY DEF SaveCreate, SaveWrite
<1>3. /\ Others(c) /\ call'[c].pc = pc /\ call'[c].snapshot = call[c].snapshot
      /\ call'[c].at = call[c].at /\ call'[c].proposal = call[c].proposal
  BY <1>1, <1>2, GotoMoves DEF Moves, Keeps, Fields
<1>4. Advised(c, call[c].proposal)
  BY <1>1 DEF SoundInv, SoundOK
<1> QED
  BY <1>1, <1>3, <1>4, SoundMove

\* and one that reads its proposal again answers with it.
LEMMA ReloadIsSound ==
  ASSUME StoreInv, SoundInv, NEW c \in Callers, Reload(c)
  PROVE  SoundInv'
<1> DEFINE id == call[c].stored
<1>1. /\ call[c].pc = "reload" /\ clock' = clock /\ "reload" \in Running
  BY DEF Reload, At, Running, Pcs
<1>2. \/ \E reason : Return(c, Raised(reason))
      \/ FromMapping(id) /\ ~(id.expires <= call[c].at) /\ Return(c, Ready(id, TRUE))
  BY DEF Reload
<1>3. id.expires \in Nat /\ call[c].at \in Nat
  BY <1>1, BeganBefore DEF AdviceOK, InForce, IndexOK, RowOK
<1>4. CASE \E reason : Return(c, Raised(reason))
  BY <1>1, <1>4, RaisedIsNotReady, SoundReturn
<1>5. CASE FromMapping(id) /\ ~(id.expires <= call[c].at) /\ Return(c, Ready(id, TRUE))
  <2>1. Advised(c, id)
    BY <1>3, <1>5 DEF Advised
  <2> HIDE DEF id
  <2> QED
    BY <1>1, <1>5, <2>1, ReadyHolds, SoundReturn
<1> QED
  BY <1>2, <1>4, <1>5

\* A call that crashed answers nothing.
LEMMA CrashIsSound ==
  ASSUME StoreInv, SoundInv, NEW c \in Callers, Crash(c)
  PROVE  SoundInv'
<1>1. Others(c) /\ call'[c].pc = "crashed"
  BY CrashMoves DEF StoreInv
<1>2. SoundOK(c)'
  BY <1>1 DEF SoundOK, Running
<1> QED
  BY <1>1, <1>2, SoundOthers

\* SoundInv holds at first, and
LEMMA SoundInit == Init => SoundInv
<1> SUFFICES ASSUME Init, NEW c \in Callers PROVE SoundOK(c)
  BY DEF SoundInv
<1>1. call[c].pc = "idle"
  BY DEF Init, Idle
<1> QED
  BY <1>1 DEF SoundOK, Running

\* every step keeps it.
LEMMA SoundStep == CostInv /\ StoreInv /\ SoundInv /\ [Next]_vars => SoundInv'
<1> SUFFICES ASSUME CostInv, StoreInv, SoundInv, [Next]_vars PROVE SoundInv'
  OBVIOUS
<1>1. CASE UNCHANGED call
  BY <1>1 DEF SoundInv, SoundOK, Grounded, Projection, Advised
<1>2. CASE Tick \/ Finished \/ UNCHANGED vars
  BY <1>1, <1>2 DEF Tick, Finished, vars
<1> QED
  BY <1>2, StartIsSound, LookupIsSound, ReadActiveIsSound, ModelIsSound,
     SaveDuplicateIsSound, OwnProposalIsSound, WritingIsSound, ReloadIsSound, CrashIsSound
  DEF Next

\* The projection of some reads.
LEMMA ProjectionOf ==
  ASSUME NEW s \in DOMAIN Reads
  PROVE  /\ Projections[s].facts = SupportedFacts(Snapshot(Reads[s]))
         /\ Projections[s].comparability = Comparability(Reads[s])
BY DEF Projections, Sanitized, Snapshot

\* A call that was told READY.
LEMMA ReadyCall ==
  ASSUME StoreInv, SoundInv, NEW c \in Callers, call[c].pc = "done",
         call[c].outcome.status = "READY", NEW id, id = call[c].outcome.proposal
  PROVE  LET s == call[c].snapshot  r == Reads[s]  advice == id.answer IN
         /\ \A f \in advice.facts :
              FactHolds(f, r) /\ FactEvidence[f] \subseteq advice.evidence
         /\ advice.action \in StatusActions[advice.status]
         /\ id.expires > call[c].at
         /\ advice = FakeAnswer(Projection(c)) /\ advice.action \notin Unchanging
              => OneObservation(r)
<1> DEFINE s == call[c].snapshot
<1> DEFINE r == Reads[s]
<1> DEFINE advice == id.answer
<1>1. /\ s \in Observed /\ FromMapping(id) /\ id.expires > call[c].at
      /\ id.snapshot = s
  BY DEF SoundInv, SoundOK, Advised, StoreInv, AdviceOK, InForce
<1>2. s \in DOMAIN Reads /\ Linked(r) /\ Parsed(r)
  BY <1>1, ReadsAssumption DEF Observed
<1>3. ValidAnswer(advice, Projections[s])
  BY <1>1 DEF FromMapping
<1>4. /\ Projections[s].facts = SupportedFacts(Snapshot(r))
      /\ Projections[s].comparability = Comparability(r)
      /\ Projection(c) = Projections[s]
  BY <1>2, ProjectionOf DEF Projection
<1> HIDE DEF advice, r, s
<1>5. ASSUME NEW f \in advice.facts
      PROVE  FactHolds(f, r) /\ FactEvidence[f] \subseteq advice.evidence
  <2>1. f \in SupportedFacts(Snapshot(r))
    BY <1>3, <1>4 DEF ValidAnswer, FactsObserved
  <2>2. FactEvidence[f] \subseteq advice.evidence
    BY <1>3 DEF ValidAnswer, EvidenceFor
  <2> QED
    BY <1>2, <2>1, <2>2, FactsHold
<1>6. advice.action \in StatusActions[advice.status]
  BY <1>3 DEF ValidAnswer, ValidAction
<1>7. ASSUME advice = FakeAnswer(Projection(c)), advice.action \notin Unchanging
      PROVE  OneObservation(r)
  <2>1. Comparability(r) = "COMPARABLE"
    BY <1>4, <1>7, FakeChangesComparable
  <2> QED
    BY <1>2, <2>1, ComparableIsOne
<1> QED
  BY <1>1, <1>5, <1>6, <1>7 DEF advice, r, s

\* READY advice rests on facts that hold of the raw reports, whatever the model
\* answered; the deterministic provider is never refused, and what it advises to
\* change rests on reads that are one observation, however long they took.
THEOREM RecommendationReadyIsSupported ==
  ASSUME AdvisableLimits
  PROVE  Spec => []ReadyIsSupported
<1>1. StoreInv /\ SoundInv => ReadyIsSupported
  <2> SUFFICES ASSUME StoreInv, SoundInv, NEW c \in Callers
               PROVE  LET o == call[c].outcome  a == call[c].answer  s == call[c].snapshot IN
      /\ At(c, "done") /\ o.status = "READY" =>
           LET advice == o.proposal.answer IN
           /\ \A f \in advice.facts :
                FactHolds(f, Reads[s]) /\ FactEvidence[f] \subseteq advice.evidence
           /\ advice.action \in StatusActions[advice.status]
           /\ o.proposal.expires > call[c].at
           /\ advice = FakeAnswer(Projection(c)) /\ advice.action \notin Unchanging
                => OneObservation(Reads[s])
      /\ At(c, "settle") /\ a = FakeAnswer(Projection(c)) => ValidAnswer(a, Projection(c))
    BY DEF ReadyIsSupported
  <2>1. At(c, "settle") => ValidAnswer(FakeAnswer(Projection(c)), Projection(c))
    <3> SUFFICES ASSUME At(c, "settle")
                 PROVE  ValidAnswer(FakeAnswer(Projection(c)), Projection(c))
      OBVIOUS
    <3>1. ValidProjection(Projection(c))
      BY DEF At, SoundInv, SoundOK, Grounded, Running, Pcs
    <3> QED
      BY <3>1, FakeValid
  <2> QED
    BY <2>1, ReadyCall DEF At
<1> QED
  BY CostInit, CostStep, StoreInit, StoreStep, SoundInit, SoundStep, <1>1, PTL DEF Spec

===============================================================================
