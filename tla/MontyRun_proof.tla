---------------------------- MODULE MontyRun_proof -----------------------------
(***************************************************************************)
(* Proofs about one Python run: what reaches the interpreter is what       *)
(* reaches the audit records, the host never waits for what it has, the    *)
(* limits hold, and every step brings the run closer to its end.           *)
(***************************************************************************)
EXTENDS MontyRun, FiniteSetTheorems, WellFoundedInduction, TLAPS

(* What a sequence holds, and whether it holds it once. *)
Items(s) == {s[i] : i \in 1..Len(s)}
Once(s) == \A i, j \in 1..Len(s) : s[i] = s[j] => i = j

(* A set of naturals has a least element: what is proved below by          *)
(* induction is proved by looking at the least counterexample.             *)
LEMMA LeastNat ==
    ASSUME NEW T, T \subseteq Nat, T # {}
    PROVE  \E n \in T : \A m \in T : n <= m
<1>1. IsWellFoundedOn(OpToRel(<, Nat), Nat)
  BY NatLessThanWellFounded
<1>2. \E n \in T : \A m \in T : ~(<<m, n>> \in OpToRel(<, Nat))
  BY <1>1, WFMin
<1>3. \A n, m \in T : ~(<<m, n>> \in OpToRel(<, Nat)) => n <= m
  BY DEF OpToRel
<1>4. QED
  BY <1>2, <1>3

--------------------------------------------------------------------------------
(* Picked *)

(* g is what Picked has found of s after each of n steps. *)
Pass(g, s, S, n) ==
    g = [i \in 0..n |->
           IF i = 0 THEN <<>> ELSE IF s[i] \in S THEN Append(g[i - 1], s[i]) ELSE g[i - 1]]

(* The recursive function in Picked exists, for any number of steps. *)
LEMMA PassExists ==
    ASSUME NEW s, NEW S, NEW n \in Nat
    PROVE  \E g : Pass(g, s, S, n)
<1> DEFINE Bad == {k \in Nat : ~ \E g : Pass(g, s, S, k)}
<1> SUFFICES ASSUME Bad # {} PROVE FALSE
  OBVIOUS
<1>1. PICK k \in Bad : \A m \in Bad : k <= m
  <2>1. Bad \subseteq Nat
    OBVIOUS
  <2>2. QED
    BY <2>1, LeastNat
<1>2. k # 0
  <2>1. Pass([i \in 0..0 |-> <<>>], s, S, 0)
    BY DEF Pass
  <2>2. QED
    BY <2>1
<1>3. k \in Nat /\ k - 1 \in Nat /\ k - 1 \notin Bad
  BY <1>1, <1>2
<1>4. PICK g : Pass(g, s, S, k - 1)
  BY <1>3
<1> DEFINE h == [i \in 0..k |->
                   IF i = k
                   THEN IF s[k] \in S THEN Append(g[k - 1], s[k]) ELSE g[k - 1]
                   ELSE g[i]]
<1>5. ASSUME NEW i \in 0..k
      PROVE  h[i] = IF i = 0 THEN <<>>
                    ELSE IF s[i] \in S THEN Append(h[i - 1], s[i]) ELSE h[i - 1]
  <2>1. CASE i = k
    <3>1. h[k - 1] = g[k - 1]
      BY <1>2, <1>3
    <3>2. QED
      BY <1>2, <2>1, <3>1
  <2>2. CASE i # k
    <3>1. h[i] = g[i] /\ i \in 0..(k - 1)
      BY <1>3, <2>2
    <3>2. i # 0 => h[i - 1] = g[i - 1]
      BY <1>3, <2>2
    <3>3. g[i] = IF i = 0 THEN <<>>
                 ELSE IF s[i] \in S THEN Append(g[i - 1], s[i]) ELSE g[i - 1]
      BY <1>4, <3>1 DEF Pass
    <3>4. QED
      BY <3>1, <3>2, <3>3
  <2>3. QED
    BY <2>1, <2>2
<1>6. Pass(h, s, S, k)
  <2>1. h = [i \in 0..k |-> h[i]]
    OBVIOUS
  <2> HIDE DEF h
  <2>2. QED
    BY <1>5, <2>1 DEF Pass
<1>7. QED
  BY <1>1, <1>6

(* Picked is the last step of such a pass. *)
LEMMA PickedIsPass ==
    ASSUME NEW T, NEW s \in Seq(T), NEW S
    PROVE  \E g : Pass(g, s, S, Len(s)) /\ Picked(s, S) = g[Len(s)]
<1>1. PICK g : Pass(g, s, S, Len(s))
  <2>1. Len(s) \in Nat
    OBVIOUS
  <2>2. QED
    BY <2>1, PassExists
<1>2. QED
  BY <1>1 DEF Picked, Pass

(* It holds what s holds of S, and once what s holds once. *)
LEMMA PickedFacts ==
    ASSUME NEW T, NEW s \in Seq(T), NEW S
    PROVE  /\ Picked(s, S) \in Seq(T)
           /\ Items(Picked(s, S)) = Items(s) \cap S
           /\ Once(s) => Once(Picked(s, S))
<1>1. PICK g : Pass(g, s, S, Len(s)) /\ Picked(s, S) = g[Len(s)]
  BY PickedIsPass
<1> DEFINE Good(i) == /\ g[i] \in Seq(T)
                      /\ Items(g[i]) = {s[j] : j \in 1..i} \cap S
                      /\ Once(s) => Once(g[i])
           Bad == {i \in 0..Len(s) : ~Good(i)}
<1>2. Good(0)
  <2>1. g[0] = <<>>
    BY <1>1 DEF Pass
  <2>2. QED
    BY <2>1 DEF Items, Once
<1>3. ASSUME NEW i \in 1..Len(s), Good(i - 1) PROVE Good(i)
  <2>1. g[i] = IF s[i] \in S THEN Append(g[i - 1], s[i]) ELSE g[i - 1]
    <3>1. i \in 0..Len(s) /\ i # 0
      OBVIOUS
    <3>2. QED
      BY <1>1, <3>1 DEF Pass
  <2>2. /\ g[i - 1] \in Seq(T)
        /\ Items(g[i - 1]) = {s[j] : j \in 1..(i - 1)} \cap S
        /\ Once(s) => Once(g[i - 1])
        /\ s[i] \in T
    BY <1>3
  <2>3. {s[j] : j \in 1..i} = {s[j] : j \in 1..(i - 1)} \cup {s[i]}
    BY DEF Items
  <2>4. CASE s[i] \notin S
    BY <2>1, <2>2, <2>3, <2>4
  <2>5. CASE s[i] \in S
    <3>1. PICK r : r = g[i - 1]
      OBVIOUS
    <3>2. r \in Seq(T) /\ g[i] = Append(r, s[i])
      BY <2>1, <2>2, <2>5, <3>1
    <3>3. /\ g[i] \in Seq(T) /\ Len(g[i]) = Len(r) + 1 /\ Len(r) \in Nat
          /\ \A k \in 1..Len(r) : g[i][k] = r[k]
          /\ g[i][Len(r) + 1] = s[i]
      BY <2>2, <3>2
    <3>4. Items(g[i]) = Items(r) \cup {s[i]}
      BY <3>3 DEF Items
    <3>5. Items(g[i]) = {s[j] : j \in 1..i} \cap S
      BY <2>2, <2>3, <2>5, <3>1, <3>4
    <3>6. ASSUME Once(s) PROVE Once(g[i])
      <4>1. s[i] \notin Items(r)
        <5>1. s[i] \notin {s[j] : j \in 1..(i - 1)}
          BY <3>6 DEF Once
        <5>2. QED
          BY <2>2, <3>1, <5>1
      <4>2. Once(r)
        BY <2>2, <3>1, <3>6
      <4>3. QED
        BY <3>3, <4>1, <4>2 DEF Once, Items
    <3>7. QED
      BY <3>3, <3>5, <3>6
  <2>6. QED
    BY <2>4, <2>5
<1>4. Bad = {}
  <2> SUFFICES ASSUME Bad # {} PROVE FALSE
    OBVIOUS
  <2>1. PICK k \in Bad : \A m \in Bad : k <= m
    <3>1. Bad \subseteq Nat
      OBVIOUS
    <3> HIDE DEF Bad
    <3>2. QED
      BY <3>1, LeastNat
  <2>2. k \in 1..Len(s) /\ k - 1 \in 0..Len(s)
    <3>1. k \in 0..Len(s) /\ k # 0
      BY <1>2, <2>1
    <3>2. QED
      BY <3>1
  <2>3. k - 1 \notin Bad
    <3> HIDE DEF Bad
    <3>1. ~(k <= k - 1)
      BY <2>2
    <3>2. QED
      BY <2>1, <3>1
  <2> HIDE DEF Good
  <2>4. Good(k - 1)
    BY <2>2, <2>3
  <2>5. QED
    BY <1>3, <2>1, <2>2, <2>4
<1>5. Len(s) \in 0..Len(s)
  OBVIOUS
<1>6. Good(Len(s))
  <2> HIDE DEF Good
  <2>1. QED
    BY <1>4, <1>5
<1>7. QED
  BY <1>1, <1>6 DEF Items

--------------------------------------------------------------------------------
(* The inductive invariant *)

(* The calls there are: numbered as they were made, within the limit, each *)
(* number used once.                                                       *)
Made == pending \cup begun \cup issued \cup calling \cup delivered \cup Items(ready)

Numbered ==
    /\ \A c \in Made : c[1] <= started /\ c[1] <= MaxExternalCalls
    /\ \A c, d \in Made : c[1] = d[1] => c = d

(* A call is in one place, and is in the records when it is delivered. *)
Placed ==
    /\ calling \cap pending = {} /\ calling \cap Items(ready) = {} /\ calling \cap delivered = {}
    /\ pending \cap Items(ready) = {} /\ pending \cap delivered = {}
    /\ Items(ready) \cap delivered = {}
    /\ Once(ready) /\ Once(records)
    /\ Items(records) = delivered

(* What the interpreter waits for is its own, and is not there yet. *)
Waiting ==
    phase = "resolve" =>
        /\ snippet = "code"
        /\ awaited \subseteq Futures
        /\ awaited \cap Items(ready) = {}

(* Every future the interpreter holds is still going to be resolved. *)
Backed ==
    phase # "ended" /\ snippet = "code" =>
        issued \ delivered \subseteq pending \cup Items(ready)

IInv == TypeOK /\ Numbered /\ Placed /\ Waiting /\ Backed /\ StdoutBounded

LEMMA EmptyFacts == Items(<<>>) = {} /\ Once(<<>>) /\ \A S : <<>> \in Seq(S)
BY DEF Items, Once

LEMMA InitIInv == Init => IInv
<1> SUFFICES ASSUME Init PROVE IInv
  OBVIOUS
<1>1. TypeOK
  BY EmptyFacts DEF Init, TypeOK, NoOutcome, Outcome, Endings, Values
<1>2. Numbered /\ Placed /\ Waiting /\ Backed
  BY EmptyFacts DEF Init, Numbered, Made, Placed, Waiting, Backed
<1>3. StdoutBounded
  BY BoundAssumption DEF Init, StdoutBounded, NoOutcome
<1>4. QED
  BY <1>1, <1>2, <1>3 DEF IInv

(* One more item. *)
LEMMA AppendFacts ==
    ASSUME NEW T, NEW s \in Seq(T), NEW x \in T
    PROVE  /\ Append(s, x) \in Seq(T)
           /\ Items(Append(s, x)) = Items(s) \cup {x}
           /\ Once(s) /\ x \notin Items(s) => Once(Append(s, x))
BY DEF Items, Once

(* Items added to the end. *)
LEMMA ConcatFacts ==
    ASSUME NEW T, NEW s \in Seq(T), NEW u \in Seq(T)
    PROVE  /\ s \o u \in Seq(T)
           /\ Items(s \o u) = Items(s) \cup Items(u)
           /\ Once(s) /\ Once(u) /\ Items(s) \cap Items(u) = {} => Once(s \o u)
<1>1. /\ s \o u \in Seq(T) /\ Len(s) \in Nat /\ Len(u) \in Nat
      /\ Len(s \o u) = Len(s) + Len(u)
      /\ \A i \in 1..Len(s) : (s \o u)[i] = s[i] /\ i \in 1..Len(s \o u)
      /\ \A i \in 1..Len(u) : (s \o u)[Len(s) + i] = u[i] /\ Len(s) + i \in 1..Len(s \o u)
  OBVIOUS
<1>2. \A i \in 1..Len(s \o u) : i \in 1..Len(s) \/ (i - Len(s) \in 1..Len(u) /\ i = Len(s) + (i - Len(s)))
  BY <1>1
<1>3. PICK v : v = s \o u
  OBVIOUS
<1>4. /\ \A i \in 1..Len(s) : v[i] = s[i] /\ i \in 1..Len(v)
      /\ \A i \in 1..Len(u) : v[Len(s) + i] = u[i] /\ Len(s) + i \in 1..Len(v)
      /\ \A i \in 1..Len(v) : i \in 1..Len(s) \/ (i - Len(s) \in 1..Len(u) /\ i = Len(s) + (i - Len(s)))
  BY <1>1, <1>2, <1>3
<1>5. Items(v) = Items(s) \cup Items(u)
  <2>1. Items(s) \cup Items(u) \subseteq Items(v)
    BY <1>4 DEF Items
  <2>2. ASSUME NEW i \in 1..Len(v) PROVE v[i] \in Items(s) \cup Items(u)
    <3>1. CASE i \in 1..Len(s)
      BY <1>4, <3>1 DEF Items
    <3>2. CASE i \notin 1..Len(s)
      <4>1. PICK j \in 1..Len(u) : i = Len(s) + j
        BY <1>4, <3>2
      <4>2. v[i] = u[j]
        BY <1>4, <4>1
      <4>3. QED
        BY <4>2 DEF Items
    <3>3. QED
      BY <3>1, <3>2
  <2>3. QED
    BY <2>1, <2>2 DEF Items
<1>6. ASSUME Once(s), Once(u), Items(s) \cap Items(u) = {} PROVE Once(v)
  <2> SUFFICES ASSUME NEW i \in 1..Len(v), NEW j \in 1..Len(v), v[i] = v[j] PROVE i = j
    BY DEF Once
  <2>1. CASE i \in 1..Len(s) /\ j \in 1..Len(s)
    BY <1>4, <1>6, <2>1 DEF Once
  <2>2. CASE i \notin 1..Len(s) /\ j \notin 1..Len(s)
    <3>1. PICK k \in 1..Len(u), l \in 1..Len(u) : i = Len(s) + k /\ j = Len(s) + l
      BY <1>4, <2>2
    <3>2. u[k] = u[l]
      BY <1>4, <3>1
    <3>3. QED
      BY <1>6, <3>1, <3>2 DEF Once
  <2>3. ASSUME NEW k \in 1..Len(v), NEW l \in 1..Len(v), k \in 1..Len(s), l \notin 1..Len(s)
        PROVE  v[k] # v[l]
    <3>1. PICK m \in 1..Len(u) : l = Len(s) + m
      BY <1>4, <2>3
    <3>2. v[k] = s[k] /\ v[l] = u[m]
      BY <1>4, <2>3, <3>1
    <3>3. QED
      BY <1>6, <2>3, <3>2 DEF Items
  <2>4. QED
    BY <2>1, <2>2, <2>3
<1>7. QED
  BY <1>1, <1>3, <1>5, <1>6

--------------------------------------------------------------------------------
(* The steps *)

(* The parts of the invariant that are about calls. *)
CallsInv == Numbered /\ Placed /\ Waiting /\ Backed

(* A step that ends a snippet drops what it has of calls. *)
LEMMA DroppedStep ==
    ASSUME TypeOK, CallsInv, DropFutures,
           UNCHANGED <<begun, records, issued, delivered>>,
           started' \in {started, started + 1},
           phase' = "ended" \/ (phase' = "step" /\ snippet' = "probe")
    PROVE  CallsInv'
<1>1. pending' = {} /\ calling' = {} /\ awaited' = {} /\ ready' = <<>> /\ Items(ready') = {}
  BY EmptyFacts DEF DropFutures
<1>2. Made' \subseteq Made
  BY <1>1 DEF Made
<1>3. \A c \in Made : c[1] \in Nat
  <2>1. Made \subseteq ToolCall
    BY DEF Made, TypeOK, Items
  <2>2. QED
    BY <2>1 DEF ToolCall
<1>4. Numbered'
  <2>1. started \in Nat /\ MaxExternalCalls \in Nat
    BY BoundAssumption DEF TypeOK
  <2>2. \A c \in Made' : c[1] <= started' /\ c[1] <= MaxExternalCalls
    BY <1>2, <1>3, <2>1 DEF CallsInv, Numbered
  <2>3. \A c, d \in Made' : c[1] = d[1] => c = d
    BY <1>2 DEF CallsInv, Numbered
  <2>4. QED
    BY <2>2, <2>3 DEF Numbered
<1>5. Placed'
  BY <1>1, EmptyFacts DEF CallsInv, Placed
<1>6. Waiting' /\ Backed'
  BY DEF Waiting, Backed
<1>7. QED
  BY <1>4, <1>5, <1>6 DEF CallsInv

(* A step that leaves calls alone. *)
LEMMA SameCallsStep ==
    ASSUME CallsInv, UNCHANGED host, UNCHANGED <<issued, delivered, snippet>>,
           phase' = phase \/ (phase = "start" /\ phase' = "step")
    PROVE  CallsInv'
<1>1. Made' = Made
  BY DEF host, Made
<1>2. Numbered' /\ Placed'
  BY <1>1 DEF host, CallsInv, Numbered, Placed
<1>3. Waiting' /\ Backed'
  BY DEF host, CallsInv, Waiting, Backed, Futures
<1>4. QED
  BY <1>2, <1>3 DEF CallsInv

LEMMA TruncatedFacts ==
    ASSUME NEW bytes \in Nat
    PROVE  Truncated(bytes) \in Nat /\ Truncated(bytes) <= MaxStdoutBytes
BY BoundAssumption DEF Truncated

(* An ending is well formed, and reports no more than it may. *)
LEMMA EndsFacts ==
    ASSUME TypeOK, NEW ending \in Endings, NEW value \in Values, NEW bytes \in Nat,
           Ends(ending, value, bytes),
           \/ ending = "unserializable"
           \/ ending = "hard" /\ snippet' = "probe"
           \/ bytes <= MaxStdoutBytes
    PROVE  outcome' \in Outcome /\ StdoutBounded' /\ DropFutures /\ phase' = "ended"
BY BoundAssumption DEF Ends, Outcome, StdoutBounded

(* A snippet that fails. *)
LEMMA SnippetFailsFacts ==
    ASSUME TypeOK, NEW ending \in {"soft", "hard", "no_host_futures"}, SnippetFails(ending),
           ending = "no_host_futures" => snippet = "code"
    PROVE  /\ outcome' \in Outcome /\ StdoutBounded' /\ DropFutures /\ phase' = "ended"
           /\ UNCHANGED <<snippet, expression, started, begun, records>>
<1>1. stdout \in Nat /\ expression \in Values /\ snippet \in {"code", "probe"}
  BY DEF TypeOK
<1>2. "absent" \in Values /\ ending \in Endings /\ "ok" \in Endings
  BY DEF Values, Endings
<1>3. UNCHANGED <<snippet, expression, started, begun, records>>
  BY DEF SnippetFails
<1>4. CASE snippet = "code"
  <2>1. Ends(ending, "absent", Truncated(stdout))
    BY <1>4 DEF SnippetFails
  <2>2. QED
    BY <1>1, <1>2, <1>3, <2>1, EndsFacts, TruncatedFacts
<1>5. CASE snippet = "probe" /\ ending = "soft"
  <2>1. Ends("ok", expression, Truncated(stdout))
    BY <1>5 DEF SnippetFails
  <2>2. QED
    BY <1>1, <1>2, <1>3, <2>1, EndsFacts, TruncatedFacts
<1>6. CASE snippet = "probe" /\ ending # "soft"
  <2>1. Ends(ending, "absent", stdout) /\ ending = "hard"
    BY <1>6 DEF SnippetFails
  <2>2. snippet' = "probe"
    BY <1>3, <1>6
  <2>3. QED
    BY <1>1, <1>2, <1>3, <2>1, <2>2, EndsFacts
<1>7. QED
  BY <1>1, <1>4, <1>5, <1>6

(* A step that ends the run keeps the invariant. *)
LEMMA EndedStep ==
    ASSUME IInv, outcome' \in Outcome, StdoutBounded', DropFutures, phase' = "ended",
           UNCHANGED <<snippet, expression, begun, records, vm>>,
           started' \in {started, started + 1}, steps' \in Nat
    PROVE  IInv'
<1>1. TypeOK'
  BY EmptyFacts DEF IInv, TypeOK, DropFutures, vm
<1>2. CallsInv'
  BY DroppedStep DEF IInv, CallsInv, vm
<1>3. QED
  BY <1>1, <1>2 DEF IInv, CallsInv

LEMMA StartStep ==
    ASSUME IInv, Start
    PROVE  IInv'
<1>1. CASE Ends("rejected", "absent", 0) /\ UNCHANGED <<snippet, expression, started, begun, records>>
  <2>1. outcome' \in Outcome /\ StdoutBounded' /\ DropFutures /\ phase' = "ended"
    BY <1>1, EndsFacts, BoundAssumption DEF IInv, Endings, Values
  <2>2. QED
    BY <1>1, <2>1, EndedStep DEF Start, IInv, TypeOK
<1>2. CASE phase' = "step" /\ UNCHANGED <<snippet, expression, outcome, host>>
  <2>1. CallsInv'
    BY <1>2, SameCallsStep DEF Start, vm, IInv, CallsInv
  <2>2. TypeOK' /\ StdoutBounded'
    BY <1>2 DEF Start, vm, host, IInv, TypeOK, StdoutBounded
  <2>3. QED
    BY <2>1, <2>2 DEF IInv, CallsInv
<1>3. QED
  BY <1>1, <1>2 DEF Start

LEMMA ProgressStep ==
    ASSUME IInv, Progress
    PROVE  IInv'
<1>1. CallsInv'
  BY SameCallsStep DEF Progress, IInv, CallsInv
<1>2. TypeOK' /\ StdoutBounded'
  BY DEF Progress, Requests, host, IInv, TypeOK, StdoutBounded
<1>3. QED
  BY <1>1, <1>2 DEF IInv, CallsInv

LEMMA RaiseStep ==
    ASSUME IInv, Raise
    PROVE  IInv'
<1>1. PICK ending \in {"soft", "hard"} : SnippetFails(ending)
  BY DEF Raise
<1>2. /\ outcome' \in Outcome /\ StdoutBounded' /\ DropFutures /\ phase' = "ended"
      /\ UNCHANGED <<snippet, expression, started, begun, records>>
  BY <1>1, SnippetFailsFacts DEF IInv
<1>3. QED
  BY <1>2, EndedStep DEF Raise, IInv, TypeOK

LEMMA NothingPendingStep ==
    ASSUME IInv, NothingPending
    PROVE  IInv'
<1>1. SnippetFails("no_host_futures") /\ snippet = "code"
  BY DEF NothingPending, IInv, Waiting
<1>2. /\ outcome' \in Outcome /\ StdoutBounded' /\ DropFutures /\ phase' = "ended"
      /\ UNCHANGED <<snippet, expression, started, begun, records>>
  BY <1>1, SnippetFailsFacts DEF IInv
<1>3. QED
  BY <1>2, EndedStep DEF NothingPending, IInv, TypeOK

LEMMA ProbeCompletesStep ==
    ASSUME IInv, ProbeCompletes
    PROVE  IInv'
<1>1. result \in Values /\ stdout \in Nat /\ TypeOK
  BY DEF IInv, TypeOK
<1>2. Ends("unserializable", "absent", stdout) \/ Ends("ok", result, Truncated(stdout))
  BY DEF ProbeCompletes
<1>3. outcome' \in Outcome /\ StdoutBounded' /\ DropFutures /\ phase' = "ended"
  BY <1>1, <1>2, EndsFacts, TruncatedFacts DEF Endings, Values
<1>4. QED
  BY <1>3, EndedStep DEF ProbeCompletes, IInv, TypeOK

LEMMA CodeCompletesStep ==
    ASSUME IInv, NEW value \in Values, CodeCompletes(value)
    PROVE  IInv'
<1>1. stdout \in Nat /\ TypeOK /\ UNCHANGED <<steps, started, begun, records, vm>>
  BY DEF IInv, TypeOK, CodeCompletes
<1>2. CASE value = "nonjson"
  <2>1. Ends("unserializable", "absent", stdout) /\ UNCHANGED <<snippet, expression>>
    BY <1>2 DEF CodeCompletes
  <2>2. outcome' \in Outcome /\ StdoutBounded' /\ DropFutures /\ phase' = "ended"
    BY <1>1, <2>1, EndsFacts DEF Endings, Values
  <2>3. QED
    BY <1>1, <2>1, <2>2, EndedStep DEF TypeOK
<1>3. CASE value # "nonjson"
  <2>1. /\ snippet' = "probe" /\ DropFutures /\ UNCHANGED <<phase, outcome>>
        /\ expression' \in Values /\ phase = "step"
    BY <1>3 DEF CodeCompletes, Values
  <2>2. CallsInv'
    BY <1>1, <2>1, DroppedStep DEF IInv, CallsInv, vm
  <2>3. TypeOK' /\ StdoutBounded'
    BY <1>1, <2>1, EmptyFacts DEF IInv, TypeOK, DropFutures, vm, StdoutBounded
  <2>4. QED
    BY <2>2, <2>3 DEF IInv, CallsInv
<1>4. QED
  BY <1>2, <1>3

(* Calls that move on from one place to the next. *)
LEMMA MovedStep ==
    ASSUME IInv, UNCHANGED <<snippet, started, stdout, expression, outcome, result, issued>>,
           steps' \in Nat, phase' \in {"step", "call", "resolve"}, phase # "ended",
           Made' \subseteq Made,
           pending' \subseteq ToolCall, begun' \subseteq ToolCall, calling' \subseteq ToolCall,
           ready' \in Seq(ToolCall), records' \in Seq(ToolCall), delivered' \subseteq ToolCall,
           awaited' \subseteq ToolCall \cup Orphans,
           Placed', Waiting',
           (issued \ delivered') \subseteq (pending' \cup Items(ready'))
               \/ ~((issued \ delivered) \subseteq (pending \cup Items(ready)))
    PROVE  IInv'
<1>1. TypeOK'
  BY DEF IInv, TypeOK
<1>2. Numbered'
  BY DEF IInv, Numbered
<1>3. Backed'
  BY DEF IInv, Backed
<1>4. StdoutBounded'
  BY DEF IInv, StdoutBounded
<1>5. QED
  BY <1>1, <1>2, <1>3, <1>4 DEF IInv

LEMMA BeginStep ==
    ASSUME IInv, NEW call \in pending, Begin(call)
    PROVE  IInv'
<1>1. Made' \subseteq Made
  BY DEF Begin, Made, vm
<1>2. Placed' /\ Waiting'
  BY DEF Begin, vm, IInv, Placed, Waiting, Futures
<1>3. QED
  BY <1>1, <1>2, MovedStep DEF Begin, vm, IInv, TypeOK

LEMMA SyncAnswerStep ==
    ASSUME IInv, NEW call \in calling, SyncAnswer(call)
    PROVE  IInv'
<1>1. /\ TypeOK /\ Placed /\ call \in ToolCall /\ records \in Seq(ToolCall)
      /\ records' = Append(records, call) /\ delivered' = delivered \cup {call}
      /\ calling' = {} /\ phase = "call" /\ phase' = "step"
      /\ UNCHANGED <<snippet, steps, result, started, pending, begun, ready, awaited,
                     issued, stdout, expression, outcome>>
  BY DEF SyncAnswer, IInv, TypeOK
<1>2. call \notin Items(records)
  BY <1>1 DEF Placed
<1>3. /\ records' \in Seq(ToolCall) /\ Items(records') = Items(records) \cup {call}
      /\ Once(records) => Once(records')
  BY <1>1, <1>2, AppendFacts
<1>4. Placed'
  BY <1>1, <1>3 DEF Placed
<1>5. Made' \subseteq Made
  BY <1>1 DEF Made
<1>6. Waiting'
  BY <1>1 DEF Waiting
<1>7. QED
  BY <1>1, <1>3, <1>4, <1>5, <1>6, MovedStep DEF TypeOK

LEMMA YieldStep ==
    ASSUME IInv, NEW call \in pending, Yield(call)
    PROVE  IInv'
<1>1. /\ TypeOK /\ Placed /\ Waiting /\ call \in ToolCall
      /\ records \in Seq(ToolCall) /\ ready \in Seq(ToolCall)
      /\ phase = "resolve" /\ pending' = pending \ {call}
      /\ UNCHANGED <<snippet, steps, result, started, calling, begun, issued, stdout,
                     expression, outcome>>
  BY DEF Yield, IInv, TypeOK
<1>2. call \notin Items(records) /\ call \notin Items(ready) /\ call \notin delivered
      /\ call \notin calling
  BY <1>1 DEF Placed
<1>3. CASE call \in awaited
  <2>1. /\ records' = records \o <<call>>
        /\ delivered' = delivered \cup {<<call>>[i] : i \in 1..Len(<<call>>)}
        /\ phase' = "step" /\ awaited' = {} /\ ready' = ready
    BY <1>3 DEF Yield, Deliver
  <2>2. /\ <<call>> \in Seq(ToolCall) /\ Items(<<call>>) = {call} /\ Once(<<call>>)
    BY <1>1 DEF Items, Once
  <2>3. delivered' = delivered \cup {call}
    BY <2>1, <2>2 DEF Items
  <2>4. /\ records' \in Seq(ToolCall) /\ Items(records') = Items(records) \cup {call}
        /\ Once(records) => Once(records')
    <3>1. PICK u : u = <<call>>
      OBVIOUS
    <3>2. /\ u \in Seq(ToolCall) /\ Items(u) = {call} /\ Once(u) /\ records' = records \o u
          /\ Items(records) \cap Items(u) = {}
      BY <1>2, <2>1, <2>2, <3>1
    <3>3. QED
      BY <1>1, <3>2, ConcatFacts
  <2>5. Placed'
    BY <1>1, <1>2, <2>1, <2>3, <2>4 DEF Placed
  <2>6. Made' \subseteq Made
    BY <1>1, <2>1, <2>3 DEF Made
  <2>7. Waiting'
    BY <2>1 DEF Waiting
  <2>8. QED
    BY <1>1, <2>1, <2>3, <2>4, <2>5, <2>6, <2>7, MovedStep DEF TypeOK
<1>4. CASE call \notin awaited
  <2>1. ready' = Append(ready, call) /\ UNCHANGED <<records, delivered, phase, awaited>>
    BY <1>4 DEF Yield
  <2>2. /\ ready' \in Seq(ToolCall) /\ Items(ready') = Items(ready) \cup {call}
        /\ Once(ready) => Once(ready')
    BY <1>1, <1>2, <2>1, AppendFacts
  <2>3. Placed'
    BY <1>1, <1>2, <2>1, <2>2 DEF Placed
  <2>4. Made' \subseteq Made
    BY <1>1, <2>1, <2>2 DEF Made
  <2>5. Waiting'
    BY <1>1, <1>4, <2>1, <2>2 DEF Waiting, Futures
  <2>6. QED
    BY <1>1, <2>1, <2>2, <2>3, <2>4, <2>5, MovedStep DEF TypeOK
<1>5. QED
  BY <1>3, <1>4

LEMMA ResolveFuturesStep ==
    ASSUME IInv, NEW calls \in SUBSET Futures, ResolveFutures(calls)
    PROVE  IInv'
<1> DEFINE early == Picked(ready, calls)
<1>1. /\ TypeOK /\ Placed /\ records \in Seq(ToolCall) /\ ready \in Seq(ToolCall)
      /\ phase = "step" /\ steps' \in Nat /\ snippet = "code"
      /\ ready' = Picked(ready, ToolCall \ calls)
      /\ UNCHANGED <<snippet, result, started, calling, pending, begun, issued,
                     stdout, expression, outcome>>
  BY DEF ResolveFutures, Requests, IInv, TypeOK
<1>2. early \in Seq(ToolCall) /\ Items(early) = Items(ready) \cap calls /\ Once(early)
  BY <1>1, PickedFacts DEF Placed
<1>3. ready' \in Seq(ToolCall) /\ Items(ready') = Items(ready) \ calls /\ Once(ready')
  <2>1. Items(ready) \subseteq ToolCall
    BY <1>1 DEF Items
  <2>2. QED
    BY <1>1, <2>1, PickedFacts DEF Placed
<1>4. CASE early # <<>>
  <2>1. /\ records' = records \o early /\ delivered' = delivered \cup Items(early)
        /\ phase' = "step" /\ awaited' = {}
    BY <1>4 DEF ResolveFutures, Deliver, Items
  <2>2. /\ records' \in Seq(ToolCall) /\ Items(records') = Items(records) \cup Items(early)
        /\ Once(records')
    <3>1. Items(records) \cap Items(early) = {} /\ Once(records)
      BY <1>1, <1>2 DEF Placed
    <3>2. QED
      BY <1>1, <1>2, <2>1, <3>1, ConcatFacts
  <2>3. Placed'
    BY <1>1, <1>2, <1>3, <2>1, <2>2 DEF Placed
  <2>4. Made' \subseteq Made
    BY <1>1, <1>2, <1>3, <2>1 DEF Made
  <2>5. Waiting'
    BY <2>1 DEF Waiting
  <2>6. delivered' \subseteq ToolCall
    BY <1>1, <1>2, <2>1 DEF TypeOK, Items
  <2>7. \/ (issued \ delivered') \subseteq (pending' \cup Items(ready'))
        \/ ~((issued \ delivered) \subseteq (pending \cup Items(ready)))
    BY <1>1, <1>2, <1>3, <2>1
  <2>8. QED
    BY <1>1, <1>3, <2>1, <2>2, <2>3, <2>4, <2>5, <2>6, <2>7, MovedStep DEF TypeOK
<1>5. CASE early = <<>>
  <2>1. phase' = "resolve" /\ awaited' = calls /\ UNCHANGED <<records, delivered>>
    BY <1>5 DEF ResolveFutures
  <2>2. Items(ready) \cap calls = {} /\ Items(ready') = Items(ready)
    BY <1>2, <1>3, <1>5, EmptyFacts
  <2>3. Placed'
    BY <1>1, <1>3, <2>1, <2>2 DEF Placed
  <2>4. Made' \subseteq Made
    BY <1>1, <2>1, <2>2 DEF Made
  <2>5. Waiting'
    BY <1>1, <2>1, <2>2 DEF Waiting, Futures
  <2>6. awaited' \subseteq ToolCall \cup Orphans
    BY <1>1, <2>1 DEF TypeOK, Futures
  <2>7. QED
    BY <1>1, <1>3, <2>1, <2>2, <2>3, <2>4, <2>5, <2>6, MovedStep DEF TypeOK
<1>6. QED
  BY <1>4, <1>5

(* A call that is made has a number no call has. *)
LEMMA FunctionCallStep ==
    ASSUME IInv, NEW name \in Tools \cup {UnknownTool}, FunctionCall(name)
    PROVE  IInv'
<1> DEFINE verdict == Verdict(started', name)
<1>1. /\ TypeOK /\ CallsInv /\ started' = started + 1 /\ started \in Nat
      /\ MaxExternalCalls \in Nat /\ stdout \in Nat
      /\ phase = "step" /\ steps' \in Nat /\ snippet = "code"
      /\ UNCHANGED <<snippet, result, delivered, stdout, records, expression>>
  BY BoundAssumption DEF FunctionCall, Requests, IInv, CallsInv, TypeOK
<1>2. CASE /\ Ends(verdict, "absent", Truncated(stdout)) /\ verdict # "none"
           /\ UNCHANGED <<begun, issued>>
  <2>1. verdict \in Endings
    BY DEF Verdict, Endings
  <2>2. outcome' \in Outcome /\ StdoutBounded' /\ DropFutures /\ phase' = "ended"
    BY <1>1, <1>2, <2>1, EndsFacts, TruncatedFacts DEF Values
  <2>3. QED
    BY <1>1, <1>2, <2>2, EndedStep DEF vm
<1>3. CASE Ends("bad_arguments", "absent", Truncated(stdout)) /\ UNCHANGED <<begun, issued>>
  <2>1. outcome' \in Outcome /\ StdoutBounded' /\ DropFutures /\ phase' = "ended"
    BY <1>1, <1>3, EndsFacts, TruncatedFacts DEF Values, Endings
  <2>2. QED
    BY <1>1, <1>3, <2>1, EndedStep DEF vm
<1>4. CASE /\ verdict = "none" /\ UNCHANGED <<ready, awaited, outcome>>
           /\ \/ /\ pending' = pending \cup {<<started', name>>}
                 /\ issued' = issued \cup {<<started', name>>}
                 /\ UNCHANGED <<phase, calling, begun>>
              \/ /\ phase' = "call" /\ calling' = {<<started', name>>}
                 /\ begun' = begun \cup {<<started', name>>}
                 /\ UNCHANGED <<pending, issued>>
  <2>1. started' <= MaxExternalCalls /\ name \in Tools
    BY <1>1, <1>4 DEF Verdict
  <2>2. PICK call : call = <<started', name>>
    OBVIOUS
  <2>3. call \in ToolCall /\ call[1] = started + 1
    BY <1>1, <2>1, <2>2 DEF ToolCall
  <2>4. Made \subseteq ToolCall /\ \A c \in Made : c[1] \in Nat /\ c[1] <= started
    <3>1. Made \subseteq ToolCall
      BY <1>1 DEF Made, TypeOK, Items
    <3>2. QED
      BY <1>1, <3>1 DEF ToolCall, CallsInv, Numbered
  <2>5. call \notin Made
    BY <1>1, <2>3, <2>4
  <2>6. \/ /\ phase' = "step" /\ pending' = pending \cup {call} /\ issued' = issued \cup {call}
           /\ UNCHANGED <<calling, begun>>
        \/ /\ phase' = "call" /\ calling' = {call} /\ begun' = begun \cup {call}
           /\ UNCHANGED <<pending, issued>>
    BY <1>1, <1>4, <2>2
  <2>7. TypeOK'
    BY <1>1, <1>4, <2>3, <2>6 DEF TypeOK
  <2>8. Made' \subseteq Made \cup {call}
    BY <1>1, <1>4, <2>6 DEF Made
  <2>9. Numbered'
    <3>1. \A c \in Made : c[1] <= started' /\ c[1] <= MaxExternalCalls
      BY <1>1, <2>4 DEF CallsInv, Numbered
    <3>2. call[1] <= started' /\ call[1] <= MaxExternalCalls
      BY <1>1, <2>1, <2>3
    <3>3. \A c \in Made : c[1] # call[1]
      BY <1>1, <2>3, <2>4
    <3>4. \A c, d \in Made : c[1] = d[1] => c = d
      BY <1>1 DEF CallsInv, Numbered
    <3>5. QED
      BY <2>8, <3>1, <3>2, <3>3, <3>4 DEF Numbered
  <2>10. Placed'
    BY <1>1, <1>4, <2>5, <2>6 DEF CallsInv, Placed, Made
  <2>11. Waiting'
    BY <2>6 DEF Waiting
  <2>12. Backed' /\ StdoutBounded'
    BY <1>1, <1>4, <2>6 DEF IInv, CallsInv, Backed, StdoutBounded
  <2>13. QED
    BY <2>7, <2>9, <2>10, <2>11, <2>12 DEF IInv
<1>5. QED
  BY <1>2, <1>3, <1>4 DEF FunctionCall

(* Every step keeps the invariant. *)
LEMMA NextIInv ==
    ASSUME IInv, [Next]_vars
    PROVE  IInv'
<1>1. CASE UNCHANGED vars
  <2>1. Made' = Made
    BY <1>1 DEF vars, Made
  <2>2. QED
    BY <1>1, <2>1 DEF vars, IInv, TypeOK, Numbered, Placed, Waiting, Futures, Backed, StdoutBounded
<1>2. CASE Start \/ Progress \/ Raise \/ NothingPending \/ ProbeCompletes
  BY <1>2, StartStep, ProgressStep, RaiseStep, NothingPendingStep, ProbeCompletesStep
<1>3. CASE \E name \in Tools \cup {UnknownTool} : FunctionCall(name)
  BY <1>3, FunctionCallStep
<1>4. CASE \E calls \in SUBSET Futures : ResolveFutures(calls)
  BY <1>4, ResolveFuturesStep
<1>5. CASE \E call \in pending : Begin(call)
  BY <1>5, BeginStep
<1>6. CASE \E value \in Values \ {"absent"} : CodeCompletes(value)
  BY <1>6, CodeCompletesStep
<1>7. CASE \E call \in calling : SyncAnswer(call)
  BY <1>7, SyncAnswerStep
<1>8. CASE \E call \in pending : Yield(call)
  BY <1>8, YieldStep
<1>9. QED
  BY <1>1, <1>2, <1>3, <1>4, <1>5, <1>6, <1>7, <1>8 DEF Next, Host, ToolAnswers

LEMMA Invariant == Spec => []IInv
<1>1. Init => IInv
  BY InitIInv
<1>2. IInv /\ [Next]_vars => IInv'
  BY NextIInv
<1>3. QED
  BY <1>1, <1>2, PTL DEF Spec

--------------------------------------------------------------------------------
(* What reaches the interpreter is what reaches the records, once, for any *)
(* tools, limits and orders of the answers.                                *)
THEOREM RecordedOnceHolds == Spec => []RecordedOnce
<1>1. IInv => RecordedOnce
  BY DEF IInv, Placed, Once, Items, RecordedOnce, Recorded
<1>2. QED
  BY <1>1, Invariant, PTL

(* The host never polls while it has what the interpreter asks for. *)
THEOREM NeverSleepsOnReadyHolds == Spec => []NeverSleepsOnReady
<1>1. IInv => NeverSleepsOnReady
  BY DEF IInv, Waiting, Items, NeverSleepsOnReady
<1>2. QED
  BY <1>1, Invariant, PTL

(* Every future the interpreter holds is still going to be resolved, and   *)
(* every state has the shape TypeOK gives it.                              *)
THEOREM FuturesBackedHolds == Spec => []FuturesBacked
<1>1. IInv => FuturesBacked
  <2> SUFFICES ASSUME IInv PROVE FuturesBacked
    OBVIOUS
  <2>1. TypeOK
    BY DEF IInv
  <2>2. phase \in {"step", "call", "resolve"} /\ snippet = "code" =>
          issued \ delivered \subseteq pending \cup {ready[i] : i \in 1..Len(ready)}
    BY DEF IInv, Backed, Items
  <2>3. phase = "resolve" /\ pending = {} => awaited \subseteq Orphans
    BY DEF IInv, Waiting, Backed, Futures
  <2>4. QED
    BY <2>1, <2>2, <2>3 DEF FuturesBacked
<1>2. QED
  BY <1>1, Invariant, PTL

(* No more handlers begin than the run may make external calls: they have  *)
(* different numbers from one to the limit.                                *)
THEOREM CallsWithinLimitHolds == Spec => []CallsWithinLimit
<1>1. IInv => CallsWithinLimit
  <2> SUFFICES ASSUME IInv PROVE Cardinality(begun) <= MaxExternalCalls
    BY DEF CallsWithinLimit
  <2>1. \A c \in begun : c[1] \in 1..MaxExternalCalls
    <3>1. \A c \in begun : c[1] \in Nat \ {0}
      BY DEF IInv, TypeOK, ToolCall
    <3>2. QED
      BY <3>1, BoundAssumption DEF IInv, Numbered, Made
  <2>2. \A c, d \in begun : c[1] = d[1] => c = d
    BY DEF IInv, Numbered, Made
  <2> DEFINE number == [c \in begun |-> c[1]]
  <2>3. number \in Injection(begun, 1..MaxExternalCalls)
    BY <2>1, <2>2 DEF Injection, IsInjective
  <2>4. IsFiniteSet(1..MaxExternalCalls) /\ Cardinality(1..MaxExternalCalls) = MaxExternalCalls
    BY FS_Interval, BoundAssumption
  <2>5. QED
    BY <2>3, <2>4, FS_Injection
<1>2. QED
  BY <1>1, Invariant, PTL

(* Whatever path a run ends on, what it printed is cut to the limit, but   *)
(* for a value without JSON form and for a hard failure of the probe.      *)
THEOREM StdoutBoundedHolds == Spec => []StdoutBounded
BY Invariant, PTL DEF IInv

--------------------------------------------------------------------------------
(* Every step of a run brings it closer to its end: there are fewer        *)
(* requests left to serve, or the host is further with the one it serves,  *)
(* or, while it polls, fewer answers are to come.                          *)
Stage ==
    CASE phase = "start" -> 0
      [] phase \in {"call", "resolve"} -> 1
      [] phase = "step" /\ snippet = "code" -> 2
      [] phase = "step" /\ snippet = "probe" -> 3
      [] OTHER -> 4

(* A pending call that has not begun has two steps to go, the others one.  *)
ToCome == Cardinality(pending) + Cardinality(pending \ begun)

Closer ==
    \/ steps' > steps
    \/ steps' = steps /\ Stage' > Stage
    \/ steps' = steps /\ Stage' = Stage /\ ToCome' < ToCome

LEMMA PendingFinite ==
    ASSUME IInv
    PROVE  IsFiniteSet(pending) /\ IsFiniteSet(pending \ begun)
<1>1. \A c \in pending : c[1] \in 1..MaxExternalCalls
  <2>1. \A c \in pending : c[1] \in Nat \ {0}
    BY DEF IInv, TypeOK, ToolCall
  <2>2. QED
    BY <2>1, BoundAssumption DEF IInv, Numbered, Made
<1>2. \A c, d \in pending : c[1] = d[1] => c = d
  BY DEF IInv, Numbered, Made
<1> DEFINE number == [c \in pending |-> c[1]]
<1>3. number \in Injection(pending, 1..MaxExternalCalls)
  BY <1>1, <1>2 DEF Injection, IsInjective
<1>4. IsFiniteSet(1..MaxExternalCalls)
  BY FS_Interval, BoundAssumption
<1>5. IsFiniteSet(pending)
  BY <1>3, <1>4, FS_Injection
<1>6. pending \ begun \in SUBSET pending
  OBVIOUS
<1>7. QED
  BY <1>5, <1>6, FS_Subset

(* A set that loses an element is smaller. *)
LEMMA FewerElements ==
    ASSUME NEW S, IsFiniteSet(S), NEW x \in S
    PROVE  /\ Cardinality(S \ {x}) \in Nat /\ Cardinality(S) \in Nat
           /\ Cardinality(S \ {x}) < Cardinality(S)
<1>1. IsFiniteSet(S \ {x}) /\ Cardinality(S \ {x}) = Cardinality(S) - 1
  BY FS_RemoveElement
<1>2. Cardinality(S \ {x}) \in Nat /\ Cardinality(S) \in Nat
  BY <1>1, FS_CardinalityType
<1>3. QED
  BY <1>1, <1>2

LEMMA BeginCloser ==
    ASSUME IInv, NEW call, Begin(call)
    PROVE  Closer
<1>1. /\ call \in pending \ begun /\ begun' = begun \cup {call}
      /\ UNCHANGED <<phase, snippet, steps, pending>>
  BY DEF Begin
<1>2. PICK S, T : S = pending /\ T = pending \ begun
  OBVIOUS
<1>3. (pending \ begun)' = T \ {call} /\ pending' = S
  BY <1>1, <1>2
<1>4. Cardinality(T \ {call}) < Cardinality(T)
      /\ Cardinality(T \ {call}) \in Nat /\ Cardinality(T) \in Nat /\ Cardinality(S) \in Nat
  BY <1>1, <1>2, PendingFinite, FewerElements, FS_CardinalityType
<1>5. ToCome' < ToCome
  BY <1>2, <1>3, <1>4 DEF ToCome
<1>6. Stage' = Stage
  BY <1>1 DEF Stage
<1>7. QED
  BY <1>1, <1>5, <1>6 DEF Closer

LEMMA YieldCloser ==
    ASSUME IInv, NEW call, Yield(call)
    PROVE  Closer
<1>1. /\ phase = "resolve" /\ steps' = steps /\ snippet' = snippet
      /\ call \in pending \cap begun /\ pending' = pending \ {call} /\ begun' = begun
      /\ phase' \in {"step", "resolve"}
  BY DEF Yield, Deliver
<1>2. snippet \in {"code", "probe"}
  BY DEF IInv, TypeOK
<1>3. CASE phase' = "step"
  BY <1>1, <1>2, <1>3 DEF Stage, Closer
<1>4. CASE phase' = "resolve"
  <2>1. PICK S, T : S = pending /\ T = pending \ begun
    OBVIOUS
  <2>2. pending' = S \ {call} /\ (pending \ begun)' = T
    BY <1>1, <2>1
  <2>3. Cardinality(S \ {call}) < Cardinality(S)
        /\ Cardinality(S \ {call}) \in Nat /\ Cardinality(S) \in Nat /\ Cardinality(T) \in Nat
    BY <1>1, <2>1, PendingFinite, FewerElements, FS_CardinalityType
  <2>4. ToCome' < ToCome
    BY <2>1, <2>2, <2>3 DEF ToCome
  <2>5. Stage' = Stage
    BY <1>1, <1>4 DEF Stage
  <2>6. QED
    BY <1>1, <2>4, <2>5 DEF Closer
<1>5. QED
  BY <1>1, <1>3, <1>4

LEMMA StepsCloser ==
    ASSUME IInv, steps \in 0..MaxSteps, Next
    PROVE  Closer
<1>1. snippet \in {"code", "probe"} /\ steps \in Nat
  BY DEF IInv, TypeOK
<1>2. ASSUME Requests
      PROVE  Closer
  BY <1>1, <1>2 DEF Requests, Closer
<1>3. CASE Start
  <2>1. phase = "start" /\ phase' \in {"step", "ended"} /\ steps' = steps /\ snippet' = snippet
    BY <1>3 DEF Start, Ends
  <2>2. Stage = 0 /\ Stage' \in {2, 3, 4}
    BY <1>1, <2>1 DEF Stage
  <2>3. QED
    BY <2>1, <2>2 DEF Closer
<1>4. CASE Raise \/ NothingPending \/ ProbeCompletes
  <2>1. phase \in {"step", "resolve"} /\ phase' = "ended" /\ steps' = steps
    BY <1>4 DEF Raise, NothingPending, ProbeCompletes, SnippetFails, Ends
  <2>2. Stage \in {1, 2, 3} /\ Stage' = 4
    BY <1>1, <2>1 DEF Stage
  <2>3. QED
    BY <2>1, <2>2 DEF Closer
<1>5. ASSUME NEW value, CodeCompletes(value)
      PROVE  Closer
  <2>1. /\ phase = "step" /\ snippet = "code" /\ steps' = steps
        /\ phase' = "ended" \/ (phase' = "step" /\ snippet' = "probe")
    BY <1>5 DEF CodeCompletes, Ends
  <2>2. Stage = 2 /\ Stage' \in {3, 4}
    BY <2>1 DEF Stage
  <2>3. QED
    BY <2>1, <2>2 DEF Closer
<1>6. ASSUME NEW call, SyncAnswer(call)
      PROVE  Closer
  <2>1. phase = "call" /\ phase' = "step" /\ UNCHANGED <<steps, snippet>>
    BY <1>6 DEF SyncAnswer
  <2>2. Stage = 1 /\ Stage' \in {2, 3}
    BY <1>1, <2>1 DEF Stage
  <2>3. QED
    BY <2>1, <2>2 DEF Closer
<1>7. ASSUME NEW name, FunctionCall(name)
      PROVE  Closer
  BY <1>2, <1>7 DEF FunctionCall
<1>8. ASSUME NEW calls, ResolveFutures(calls)
      PROVE  Closer
  BY <1>2, <1>8 DEF ResolveFutures
<1>9. CASE Progress
  BY <1>2, <1>9 DEF Progress
<1>10. QED
  BY <1>3, <1>4, <1>5, <1>6, <1>7, <1>8, <1>9, BeginCloser, YieldCloser
     DEF Next, Host, ToolAnswers

LEMMA StepsBounded ==
    ASSUME IInv, steps \in 0..MaxSteps, phase = "call" => calling # {}, [Next]_vars
    PROVE  steps' \in 0..MaxSteps /\ (phase' = "call" => calling' # {})
<1>1. steps' = steps \/ Requests
  BY DEF Next, vars, Host, ToolAnswers, Start, Progress, Raise, FunctionCall, ResolveFutures, Begin,
     NothingPending, CodeCompletes, ProbeCompletes, SyncAnswer, Yield
<1>2. steps' \in 0..MaxSteps
  BY <1>1, BoundAssumption DEF Requests
<1>3. phase' # "call" \/ UNCHANGED <<phase, calling>> \/ \E name : FunctionCall(name)
  BY DEF Next, vars, Host, ToolAnswers, Start, Progress, Raise, SnippetFails, ResolveFutures, Begin,
     NothingPending, CodeCompletes, ProbeCompletes, SyncAnswer, Yield, Ends, Deliver, host
<1>4. ASSUME NEW name, FunctionCall(name), phase' = "call"
      PROVE  calling' # {}
  BY <1>4 DEF FunctionCall, Ends
<1>5. QED
  BY <1>2, <1>3, <1>4

(* Between two requests of its code a run cannot go on for ever.  Each of  *)
(* its steps makes one request more (the code's time is over before it has *)
(* made more than some number of them, MaxSteps here), or takes the run    *)
(* further at the one it serves; while the host polls, fewer steps of the  *)
(* tools are to come; and while it awaits a synchronous tool, there is one *)
(* that is to answer.                                                      *)
RunCloses ==
    /\ [](/\ steps \in 0..MaxSteps /\ Stage \in 0..4 /\ ToCome \in Nat
          /\ phase = "ended" <=> Stage = 4
          /\ phase = "call" => calling # {})
    /\ [][Closer]_vars

THEOREM RunClosesHolds == Spec => RunCloses
<1> DEFINE Bounded == steps \in 0..MaxSteps /\ (phase = "call" => calling # {})
<1> DEFINE Ranked ==
      /\ steps \in 0..MaxSteps /\ Stage \in 0..4 /\ ToCome \in Nat
      /\ phase = "ended" <=> Stage = 4
      /\ phase = "call" => calling # {}
<1>1. Init => Bounded
  BY BoundAssumption DEF Init
<1>2. IInv /\ Bounded /\ [Next]_vars => Bounded'
  BY StepsBounded
<1>3. IInv /\ Bounded => Ranked
  <2> SUFFICES ASSUME IInv, Bounded PROVE Ranked
    OBVIOUS
  <2>1. Cardinality(pending) \in Nat /\ Cardinality(pending \ begun) \in Nat
    BY PendingFinite, FS_CardinalityType
  <2>2. ToCome \in Nat
    BY <2>1 DEF ToCome
  <2>3. Stage \in 0..4 /\ (phase = "ended" <=> Stage = 4)
    BY DEF IInv, TypeOK, Stage
  <2>4. QED
    BY <2>2, <2>3
<1>4. IInv /\ Bounded /\ [Next]_vars => [Closer]_vars
  BY StepsCloser
<1> HIDE DEF Bounded, Ranked
<1>5. Spec => []Bounded
  BY <1>1, <1>2, Invariant, PTL DEF Spec
<1>6. Spec => []Ranked
  BY <1>3, <1>5, Invariant, PTL
<1>7. Spec => [][Closer]_vars
  BY <1>4, <1>5, Invariant, PTL DEF Spec
<1>8. QED
  BY <1>6, <1>7 DEF Ranked, RunCloses

================================================================================
