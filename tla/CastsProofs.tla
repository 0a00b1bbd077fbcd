----------------------------- MODULE CastsProofs -----------------------------
(***************************************************************************)
(* Theorems about Casts, for any number of browsers, any log and any       *)
(* amount of input and output: what a cast file keeps of what was          *)
(* recorded, whoever makes it.                                             *)
(***************************************************************************)
EXTENDS Casts, TLAPS, NaturalsInduction, WellFoundedInduction

(* Loops *)

LEMMA Least ==
  ASSUME NEW T, T \subseteq Nat, T # {}
  PROVE  \E n \in T : \A m \in T : n <= m
<1>1. PICK n \in T : \A m \in T : ~(<<m, n>> \in OpToRel(<, Nat))
  BY NatLessThanWellFounded, WFMin
<1>2. \A m \in T : <<m, n>> \in OpToRel(<, Nat) <=> m < n
  BY DEF OpToRel
<1>3. \A m \in T : ~(m < n)
  BY <1>1, <1>2, Zenon
<1> QED BY <1>3

\* Induction: a set of numbers that has 0 and, up to n, the successor of each of its members.
LEMMA Inductive ==
  ASSUME NEW n \in Nat, NEW S, 0 \in S, \A k \in 0 .. n - 1 : k \in S => k + 1 \in S
  PROVE  \A k \in 0 .. n : k \in S
<1> DEFINE T == {k \in 0 .. n : k \notin S}
<1>1. SUFFICES ASSUME T # {} PROVE FALSE
  OBVIOUS
<1>2. PICK k \in T : \A m \in T : k <= m
  <2>1. T \subseteq Nat
    OBVIOUS
  <2> HIDE DEF T
  <2> QED BY <1>1, <2>1, Least
<1>3. k - 1 \in 0 .. n - 1
  BY <1>2
<1>4. k - 1 \in S
  BY <1>2, <1>3
<1> QED BY <1>2, <1>3, <1>4

Body(V, n, g) == g \in [1 .. n -> [V -> V]]
Loop(V, n, v0, g, f) ==
  f \in [0 .. n -> V] /\ f[0] = v0 /\ \A i \in 1 .. n : f[i] = g[i][f[i - 1]]

\* What a loop over n things computes from v0 with the body g is a function of the steps done.
LEMMA LoopRuns ==
  ASSUME NEW V, NEW n \in Nat, NEW v0 \in V, NEW g, Body(V, n, g)
  PROVE  \E f : Loop(V, n, v0, g, f)
<1> USE DEF Body
<1> DEFINE Runs(k, f) == f[0] = v0 /\ \A i \in 1 .. k : f[i] = g[i][f[i - 1]]
           S == {k \in 0 .. n : \E f \in [0 .. k -> V] : Runs(k, f)}
<1>1. 0 \in S
  <2>1. PICK f : f = [i \in 0 .. 0 |-> v0]
    OBVIOUS
  <2>2. f \in [0 .. 0 -> V] /\ f[0] = v0
    BY <2>1
  <2>3. Runs(0, f)
    BY <2>2
  <2> QED BY <2>2, <2>3
<1>2. ASSUME NEW k \in 0 .. n - 1, k \in S PROVE k + 1 \in S
  <2>1. PICK f \in [0 .. k -> V] : Runs(k, f)
    BY <1>2
  <2>2. PICK v : v = g[k + 1][f[k]]
    OBVIOUS
  <2>3. v \in V
    <3>1. k + 1 \in 1 .. n /\ f[k] \in V
      BY <2>1
    <3> QED BY <2>2, <3>1
  <2>4. PICK h : h = [i \in 0 .. k + 1 |-> IF i = k + 1 THEN v ELSE f[i]]
    OBVIOUS
  <2>5. h \in [0 .. k + 1 -> V]
    BY <2>3, <2>4
  <2>6. h[k + 1] = v /\ \A i \in 0 .. k : h[i] = f[i]
    BY <2>4
  <2> HIDE DEF S
  <2>7. ASSUME NEW i \in 1 .. k + 1 PROVE h[i] = g[i][h[i - 1]]
    <3>1. CASE i = k + 1
      <4>1. h[i - 1] = f[k]
        BY <2>6, <3>1
      <4> QED BY <2>2, <2>6, <3>1, <4>1
    <3>2. CASE i # k + 1
      <4>1. i \in 1 .. k /\ i \in 0 .. k /\ i - 1 \in 0 .. k
        BY <3>2
      <4> QED BY <2>1, <2>6, <4>1
    <3> QED BY <3>1, <3>2
  <2>8. Runs(k + 1, h)
    BY <2>1, <2>6, <2>7
  <2>9. k + 1 \in 0 .. n
    OBVIOUS
  <2> QED BY <2>5, <2>8, <2>9 DEF S
<1> HIDE DEF S
<1>3. n \in S
  <2>1. \A k \in 0 .. n : k \in S
    BY <1>1, <1>2, Inductive
  <2> QED BY <2>1
<1> QED BY <1>3 DEF S, Loop

Alike(n, f, h) == f[0] = h[0] /\ \A i \in 1 .. n : f[i - 1] = h[i - 1] => f[i] = h[i]

\* Two loops that do the same do the same.
LEMMA LoopsAgree ==
  ASSUME NEW n \in Nat, NEW f, NEW h, Alike(n, f, h)
  PROVE  \A i \in 0 .. n : f[i] = h[i]
<1> USE DEF Alike
<1> DEFINE S == {i \in 0 .. n : f[i] = h[i]}
<1>1. 0 \in S
  OBVIOUS
<1>2. ASSUME NEW k \in 0 .. n - 1, k \in S PROVE k + 1 \in S
  <2>1. k + 1 \in 1 .. n /\ (k + 1) - 1 = k
    OBVIOUS
  <2> QED BY <1>2, <2>1
<1> HIDE DEF S
<1>3. \A i \in 0 .. n : i \in S
  BY <1>1, <1>2, Inductive
<1> QED BY <1>3 DEF S

-----------------------------------------------------------------------------
(* Outputs *)

\* The loop of Outputs, as a function of the steps done.
OutputsLoop(s, f) ==
  f = [i \in 0 .. Len(s) |->
        IF i = 0 THEN <<>> ELSE IF s[i].type = "o" THEN Append(f[i - 1], s[i]) ELSE f[i - 1]]

Filter(s) == CHOOSE f : OutputsLoop(s, f)

LEMMA OutputsFilter ==
  ASSUME NEW s
  PROVE  Outputs(s) = Filter(s)[Len(s)]
BY DEF Outputs, Filter, OutputsLoop

LEMMA FilterRuns ==
  ASSUME NEW S, NEW s \in Seq(S)
  PROVE  /\ Filter(s)[0] = <<>>
         /\ \A i \in 1 .. Len(s) :
              Filter(s)[i] = IF s[i].type = "o" THEN Append(Filter(s)[i - 1], s[i])
                             ELSE Filter(s)[i - 1]
         /\ \A i \in 0 .. Len(s) : Filter(s)[i] \in Seq(S)
<1>1. Len(s) \in Nat /\ \A i \in 1 .. Len(s) : s[i] \in S
  OBVIOUS
<1>2. PICK n \in Nat : n = Len(s)
  BY <1>1
<1>3. PICK g : g = [i \in 1 .. n |->
                     [v \in Seq(S) |-> IF s[i].type = "o" THEN Append(v, s[i]) ELSE v]]
  OBVIOUS
<1>4. Body(Seq(S), n, g)
  <2>1. \A i \in 1 .. n : \A v \in Seq(S) : Append(v, s[i]) \in Seq(S)
    BY <1>1, <1>2
  <2> QED BY <1>3, <2>1 DEF Body
<1>5. PICK f : Loop(Seq(S), n, <<>>, g, f)
  <2>1. <<>> \in Seq(S)
    OBVIOUS
  <2> QED BY <1>4, <2>1, LoopRuns
<1>6. ASSUME NEW i \in 1 .. n
      PROVE  f[i] = IF s[i].type = "o" THEN Append(f[i - 1], s[i]) ELSE f[i - 1]
  <2>1. f[i - 1] \in Seq(S)
    BY <1>5 DEF Loop
  <2> QED BY <1>3, <1>5, <2>1 DEF Loop
<1>7. OutputsLoop(s, f)
  <2>1. \A i \in 0 .. n : i = 0 \/ i \in 1 .. n
    OBVIOUS
  <2>2. f = [i \in 0 .. n |-> f[i]] /\ f[0] = <<>>
    BY <1>5 DEF Loop
  <2> QED BY <1>2, <1>6, <2>1, <2>2 DEF OutputsLoop
<1>8. PICK h : h = Filter(s) /\ OutputsLoop(s, h)
  BY <1>7, Zenon DEF Filter
<1> DEFINE next(i) ==
      IF i = 0 THEN <<>> ELSE IF s[i].type = "o" THEN Append(h[i - 1], s[i]) ELSE h[i - 1]
<1>9. h = [i \in 0 .. n |-> next(i)]
  BY <1>2, <1>8, Zenon DEF OutputsLoop
<1> HIDE DEF next
<1>10. \A i \in 0 .. n : h[i] = next(i)
  BY <1>9
<1>11. h[0] = <<>>
  BY <1>10 DEF next
<1>12. \A i \in 1 .. n : h[i] = IF s[i].type = "o" THEN Append(h[i - 1], s[i]) ELSE h[i - 1]
  <2>1. \A i \in 1 .. n : i \in 0 .. n /\ i # 0
    OBVIOUS
  <2> QED BY <1>10, <2>1, Zenon DEF next
<1>13. \A i \in 0 .. n : f[i] = h[i]
  <2>1. \A i \in 1 .. n : f[i - 1] = h[i - 1] => f[i] = h[i]
    BY <1>6, <1>12, Zenon
  <2>2. f[0] = h[0]
    BY <1>5, <1>11 DEF Loop
  <2>3. Alike(n, f, h)
    BY <2>1, <2>2, Zenon DEF Alike
  <2> QED BY <2>3, LoopsAgree
<1>14. \A i \in 0 .. n : h[i] \in Seq(S)
  BY <1>5, <1>13 DEF Loop
<1> QED BY <1>2, <1>8, <1>11, <1>12, <1>14, Zenon

LEMMA NoOutputs == Outputs(<<>>) = <<>>
<1>1. <<>> \in Seq({}) /\ Len(<<>>) = 0
  OBVIOUS
<1> QED BY <1>1, FilterRuns, OutputsFilter, Zenon

LEMMA OutputsOfSeq ==
  ASSUME NEW S, NEW s \in Seq(S)
  PROVE  /\ Outputs(s) \in Seq(S)
         /\ \A j \in 1 .. Len(Outputs(s)) :
              Outputs(s)[j].type = "o" /\ \E i \in 1 .. Len(s) : Outputs(s)[j] = s[i]
<1>1. PICK n \in Nat : n = Len(s)
  OBVIOUS
<1>2. PICK h : h = Filter(s)
  OBVIOUS
<1>3. /\ h[0] = <<>>
      /\ \A i \in 1 .. n : h[i] = IF s[i].type = "o" THEN Append(h[i - 1], s[i]) ELSE h[i - 1]
      /\ \A i \in 0 .. n : h[i] \in Seq(S)
  BY <1>1, <1>2, FilterRuns, Zenon
<1> DEFINE Good(v) == \A j \in 1 .. Len(v) : v[j].type = "o" /\ \E i \in 1 .. n : v[j] = s[i]
           T == {i \in 0 .. n : Good(h[i])}
<1>4. 0 \in T
  <2>1. Good(<<>>)
    OBVIOUS
  <2> HIDE DEF Good
  <2> QED BY <1>3, <2>1
<1>5. ASSUME NEW k \in 0 .. n - 1, k \in T PROVE k + 1 \in T
  <2>1. k + 1 \in 1 .. n /\ (k + 1) - 1 = k /\ k + 1 \in 0 .. n
    OBVIOUS
  <2>2. h[k + 1] = IF s[k + 1].type = "o" THEN Append(h[k], s[k + 1]) ELSE h[k]
    <3> HIDE DEF T
    <3> QED BY <1>3, <2>1
  <2>3. CASE s[k + 1].type = "o"
    <3>1. PICK v, e : v = h[k] /\ e = s[k + 1]
      OBVIOUS
    <3>2. v \in Seq(S) /\ e \in S /\ h[k + 1] = Append(v, e)
      BY <1>1, <1>3, <2>1, <2>2, <2>3, <3>1
    <3>3. Good(v)
      BY <1>5, <3>1
    <3>4. Good(Append(v, e))
      <4> SUFFICES ASSUME NEW j \in 1 .. Len(Append(v, e))
                   PROVE  LET w == Append(v, e) IN w[j].type = "o" /\ \E i \in 1 .. n : w[j] = s[i]
        OBVIOUS
      <4>1. (j \in 1 .. Len(v) /\ Append(v, e)[j] = v[j]) \/ Append(v, e)[j] = e
        BY <3>2
      <4> QED BY <2>1, <2>3, <3>1, <3>3, <4>1
    <3> HIDE DEF Good
    <3> QED BY <2>1, <3>2, <3>4
  <2>4. CASE s[k + 1].type # "o"
    <3> HIDE DEF Good
    <3> QED BY <1>5, <2>1, <2>2, <2>4
  <2> QED BY <2>3, <2>4
<1> HIDE DEF T
<1>6. \A i \in 0 .. n : i \in T
  BY <1>4, <1>5, Inductive
<1>7. n \in 0 .. n /\ Outputs(s) = h[n]
  BY <1>1, <1>2, OutputsFilter
<1>8. Good(Outputs(s))
  <2> HIDE DEF Good
  <2> QED BY <1>6, <1>7 DEF T
<1> QED BY <1>1, <1>3, <1>7, <1>8

\* What one more event adds to the output.
LEMMA OutputsAppend ==
  ASSUME NEW S, NEW s \in Seq(S), NEW e \in S
  PROVE  Outputs(Append(s, e)) = IF e.type = "o" THEN Append(Outputs(s), e) ELSE Outputs(s)
<1>1. PICK n \in Nat : n = Len(s)
  OBVIOUS
<1>2. PICK t : t = Append(s, e)
  OBVIOUS
<1>3. t \in Seq(S) /\ Len(t) = n + 1 /\ t[n + 1] = e /\ \A i \in 1 .. n : t[i] = s[i]
  BY <1>1, <1>2
<1>4. PICK h, k : h = Filter(s) /\ k = Filter(t)
  OBVIOUS
<1>5. h[0] = <<>> /\ \A i \in 1 .. n :
        h[i] = IF s[i].type = "o" THEN Append(h[i - 1], s[i]) ELSE h[i - 1]
  BY <1>1, <1>4, FilterRuns, Zenon
<1>6. k[0] = <<>> /\ \A i \in 1 .. n + 1 :
        k[i] = IF t[i].type = "o" THEN Append(k[i - 1], t[i]) ELSE k[i - 1]
  BY <1>3, <1>4, FilterRuns, Zenon
<1>7. Alike(n, h, k)
  <2>1. \A i \in 1 .. n : i \in 1 .. n + 1
    OBVIOUS
  <2> QED BY <1>3, <1>5, <1>6, <2>1, Zenon DEF Alike
<1>8. h[n] = k[n]
  <2>1. n \in 0 .. n
    OBVIOUS
  <2> QED BY <1>7, <2>1, LoopsAgree
<1>9. n + 1 \in 1 .. n + 1 /\ (n + 1) - 1 = n
  OBVIOUS
<1>10. k[n + 1] = IF e.type = "o" THEN Append(h[n], e) ELSE h[n]
  BY <1>3, <1>6, <1>8, <1>9, Zenon
<1> QED BY <1>1, <1>2, <1>3, <1>4, <1>10, OutputsFilter, Zenon

-----------------------------------------------------------------------------
(* Marshal *)

\* What may be recorded: input and output of a session, the sizes of terminals, numbered chunks,
\* keys and lines.
Data == Nat \cup (Conns \X Nat) \cup Sizes \cup NewSizes
Event == [at : Int, type : {"o", "i", "r"}, data : Data, long : BOOLEAN]

CursorLoop(outs, f) ==
  f = [i \in 0 .. Len(outs) |-> IF i = 0 THEN 0 ELSE f[i - 1] + Clamp(Gap(outs, i))]

Cursor(outs) == CHOOSE f : CursorLoop(outs, f)

LEMMA MarshalCursor ==
  ASSUME NEW s
  PROVE  Marshal(s) =
           [i \in 1 .. Len(Outputs(s)) |-> [Outputs(s)[i] EXCEPT !.at = Cursor(Outputs(s))[i]]]
BY DEF Marshal, Cursor, CursorLoop

LEMMA GapsAreNumbers ==
  ASSUME NEW outs \in Seq(Event), NEW i \in 1 .. Len(outs)
  PROVE  Gap(outs, i) \in Int /\ Clamp(Gap(outs, i)) \in Int
<1>1. Gap(outs, i) \in Int
  <2>1. \A j \in 1 .. Len(outs) : outs[j].at \in Int
    <3> SUFFICES ASSUME NEW j \in 1 .. Len(outs) PROVE outs[j].at \in Int
      OBVIOUS
    <3>1. outs[j] \in Event
      OBVIOUS
    <3> QED BY <3>1 DEF Event
  <2>2. CASE i = 1
    BY <2>1, <2>2 DEF Gap
  <2>3. CASE i # 1
    <3>1. i - 1 \in 1 .. Len(outs)
      BY <2>3
    <3>2. outs[i - 1].at \in Int
      BY <2>1, <3>1
    <3> QED BY <2>1, <2>3, <3>2 DEF Gap
  <2> QED BY <2>2, <2>3
<1> QED BY <1>1, LimitAssumption DEF Clamp

LEMMA CursorRuns ==
  ASSUME NEW outs \in Seq(Event)
  PROVE  /\ Cursor(outs)[0] = 0
         /\ \A i \in 1 .. Len(outs) :
              Cursor(outs)[i] = Cursor(outs)[i - 1] + Clamp(Gap(outs, i))
         /\ \A i \in 0 .. Len(outs) : Cursor(outs)[i] \in Int
<1>1. PICK n \in Nat : n = Len(outs)
  OBVIOUS
<1> DEFINE step(i) == Clamp(Gap(outs, i))
<1>2. \A i \in 1 .. n : step(i) \in Int
  BY <1>1, GapsAreNumbers
<1>3. CursorLoop(outs, Cursor(outs)) <=>
        Cursor(outs) = [i \in 0 .. n |-> IF i = 0 THEN 0 ELSE Cursor(outs)[i - 1] + step(i)]
  BY <1>1, Zenon DEF CursorLoop
<1>4. \A f : CursorLoop(outs, f) <=> f = [i \in 0 .. n |-> IF i = 0 THEN 0 ELSE f[i - 1] + step(i)]
  BY <1>1, Zenon DEF CursorLoop
<1> HIDE DEF step
<1>5. PICK g : g = [i \in 1 .. n |-> [v \in Int |-> v + step(i)]]
  OBVIOUS
<1>6. Body(Int, n, g)
  BY <1>2, <1>5 DEF Body
<1>7. PICK f : Loop(Int, n, 0, g, f)
  <2>1. 0 \in Int
    OBVIOUS
  <2> QED BY <1>6, <2>1, LoopRuns, Zenon
<1>8. \A i \in 1 .. n : f[i] = f[i - 1] + step(i)
  <2> SUFFICES ASSUME NEW i \in 1 .. n PROVE f[i] = f[i - 1] + step(i)
    OBVIOUS
  <2>1. f[i - 1] \in Int
    BY <1>7 DEF Loop
  <2> QED BY <1>5, <1>7, <2>1 DEF Loop
<1>9. CursorLoop(outs, f)
  <2>1. f = [i \in 0 .. n |-> f[i]] /\ f[0] = 0
    BY <1>7 DEF Loop
  <2>2. \A i \in 0 .. n : i = 0 \/ i \in 1 .. n
    OBVIOUS
  <2>3. f = [i \in 0 .. n |-> IF i = 0 THEN 0 ELSE f[i - 1] + step(i)]
    BY <1>8, <2>1, <2>2
  <2> QED BY <1>4, <2>3
<1>10. PICK h : h = Cursor(outs) /\ h = [i \in 0 .. n |-> IF i = 0 THEN 0 ELSE h[i - 1] + step(i)]
  <2>1. CursorLoop(outs, Cursor(outs))
    BY <1>9, Zenon DEF Cursor
  <2> QED BY <1>3, <2>1, Zenon
<1>11. h[0] = 0 /\ \A i \in 1 .. n : h[i] = h[i - 1] + step(i)
  <2>1. PICK D, e : D = 0 .. n /\ e = [i \in D |-> IF i = 0 THEN 0 ELSE h[i - 1] + step(i)]
    OBVIOUS
  <2>2. 0 \in D /\ \A i \in 1 .. n : i \in D /\ i # 0
    BY <2>1
  <2>3. e[0] = 0 /\ \A i \in 1 .. n : e[i] = h[i - 1] + step(i)
    BY <2>1, <2>2, Zenon
  <2> QED BY <1>10, <2>1, <2>3, Zenon
<1>12. \A i \in 0 .. n : f[i] = h[i]
  <2>1. Alike(n, f, h)
    BY <1>7, <1>8, <1>11, Zenon DEF Alike, Loop
  <2> QED BY <2>1, LoopsAgree
<1>13. \A i \in 0 .. n : h[i] \in Int
  BY <1>7, <1>12 DEF Loop
<1> QED BY <1>1, <1>10, <1>11, <1>13, Zenon DEF step

\* The rows are the output, but for their times.
LEMMA MarshalRows ==
  ASSUME NEW s \in Seq(Event)
  PROVE  /\ Marshal(s) \in Seq(Event) /\ Len(Marshal(s)) = Len(Outputs(s))
         /\ Len(Outputs(s)) \in Nat
         /\ \A i \in 1 .. Len(Outputs(s)) :
              /\ Marshal(s)[i] = [Outputs(s)[i] EXCEPT !.at = Cursor(Outputs(s))[i]]
              /\ Marshal(s)[i].at = Cursor(Outputs(s))[i]
              /\ Marshal(s)[i].data = Outputs(s)[i].data
<1>1. PICK outs \in Seq(Event) : outs = Outputs(s)
  BY OutputsOfSeq, Zenon
<1>2. PICK n \in Nat : n = Len(outs)
  OBVIOUS
<1>3. PICK h : h = Cursor(outs) /\ \A i \in 1 .. n : h[i] \in Int
  <2>1. \A i \in 1 .. n : i \in 0 .. n
    OBVIOUS
  <2> QED BY <1>2, <2>1, CursorRuns, Zenon
<1>4. PICK m : m = [i \in 1 .. n |-> [outs[i] EXCEPT !.at = h[i]]]
  OBVIOUS
<1>5. m = Marshal(s)
  BY <1>1, <1>2, <1>3, <1>4, MarshalCursor, Zenon
<1>6. ASSUME NEW i \in 1 .. n
      PROVE  /\ m[i] = [outs[i] EXCEPT !.at = h[i]] /\ m[i] \in Event
             /\ m[i].at = h[i] /\ m[i].data = outs[i].data
  <2>1. PICK r \in Event : r = outs[i]
    BY <1>2
  <2>2. m[i] = [r EXCEPT !.at = h[i]]
    BY <1>4, <2>1
  <2>3. h[i] \in Int
    BY <1>3
  <2>4. [r EXCEPT !.at = h[i]] \in Event
    BY <2>3 DEF Event
  <2>5. [r EXCEPT !.at = h[i]].at = h[i] /\ [r EXCEPT !.at = h[i]].data = r.data
    BY DEF Event
  <2> QED BY <2>1, <2>2, <2>4, <2>5
<1>7. m \in Seq(Event) /\ Len(m) = n
  <2> DEFINE row(i) == [outs[i] EXCEPT !.at = h[i]]
  <2>1. m = [i \in 1 .. n |-> row(i)]
    BY <1>4
  <2> HIDE DEF row
  <2>2. \A i \in 1 .. n : row(i) = m[i]
    BY <2>1
  <2>3. \A i \in 1 .. n : row(i) \in Event
    BY <1>6, <2>2
  <2> QED BY <2>1, <2>3
<1> QED BY <1>1, <1>2, <1>3, <1>5, <1>6, <1>7, Zenon

\* Each gap of the file is the gap of the recording, clamped.
LEMMA MarshalGaps ==
  ASSUME NEW s \in Seq(Event), NEW i \in 1 .. Len(Outputs(s))
  PROVE  Gap(Marshal(s), i) = Clamp(Gap(Outputs(s), i))
<1>1. PICK outs \in Seq(Event) : outs = Outputs(s)
  BY OutputsOfSeq, Zenon
<1>2. PICK n \in Nat : n = Len(outs)
  OBVIOUS
<1>3. PICK h : h = Cursor(outs)
  OBVIOUS
<1>4. /\ h[0] = 0 /\ \A j \in 1 .. n : h[j] = h[j - 1] + Clamp(Gap(outs, j))
      /\ \A j \in 0 .. n : h[j] \in Int
  BY <1>2, <1>3, CursorRuns, Zenon
<1>5. \A j \in 1 .. n : Marshal(s)[j].at = h[j]
  BY <1>1, <1>2, <1>3, MarshalRows, Zenon
<1>6. i \in 1 .. n /\ i - 1 \in 0 .. n /\ i \in 0 .. n
  BY <1>1, <1>2
<1>7. Clamp(Gap(outs, i)) \in Int
  BY <1>2, <1>6, GapsAreNumbers
<1>8. h[i] - h[i - 1] = Clamp(Gap(outs, i))
  BY <1>4, <1>6, <1>7
<1>9. Gap(Marshal(s), i) = h[i] - h[i - 1]
  <2>1. CASE i = 1
    BY <1>4, <1>5, <1>6, <2>1 DEF Gap
  <2>2. CASE i # 1
    <3>1. i - 1 \in 1 .. n
      BY <1>6, <2>2
    <3> QED BY <1>5, <1>6, <2>2, <3>1 DEF Gap
  <2> QED BY <2>1, <2>2
<1> QED BY <1>1, <1>8, <1>9

Begins(s, t) == Len(s) <= Len(t) /\ \A i \in 1 .. Len(s) : s[i] = t[i]

LEMMA PrefixBegins ==
  ASSUME NEW S, NEW s \in Seq(S), NEW t \in Seq(S)
  PROVE  IsPrefix(s, t) <=> Begins(s, t)
<1>1. Len(s) \in Nat /\ Len(t) \in Nat /\ SubSeq(s, 1, Len(s)) = s
  OBVIOUS
<1>2. CASE Len(s) <= Len(t)
  <2>1. PICK u : u = SubSeq(t, 1, Len(s))
    OBVIOUS
  <2>2. u \in Seq(S) /\ Len(u) = Len(s) /\ \A i \in 1 .. Len(s) : u[i] = t[i]
    BY <1>1, <1>2, <2>1
  <2>3. s = u <=> \A i \in 1 .. Len(s) : s[i] = u[i]
    BY <2>2
  <2> QED BY <1>1, <1>2, <2>1, <2>2, <2>3 DEF IsPrefix, Begins
<1>3. CASE ~(Len(s) <= Len(t))
  BY <1>3 DEF IsPrefix, Begins
<1> QED BY <1>2, <1>3

\* A cast begins with the cast of what had been recorded before, times included.
LEMMA MarshalGrows ==
  ASSUME NEW s \in Seq(Event), NEW e \in Event
  PROVE  Begins(Marshal(s), Marshal(Append(s, e)))
<1>1. PICK t : t = Append(s, e)
  OBVIOUS
<1>2. t \in Seq(Event)
  BY <1>1
<1>3. PICK a \in Seq(Event), b \in Seq(Event) : a = Outputs(s) /\ b = Outputs(t)
  BY <1>2, OutputsOfSeq, Zenon
<1>4. PICK n \in Nat : n = Len(a)
  OBVIOUS
<1>5. n <= Len(b) /\ \A i \in 1 .. n : i \in 1 .. Len(b) /\ b[i] = a[i]
  <2>1. b = Append(a, e) \/ b = a
    BY <1>1, <1>3, OutputsAppend, Zenon
  <2>2. CASE b = a
    BY <1>4, <2>2
  <2>3. CASE b = Append(a, e)
    BY <1>4, <2>3
  <2> QED BY <2>1, <2>2, <2>3
<1>6. PICK h, k : h = Cursor(a) /\ k = Cursor(b)
  OBVIOUS
<1>7. \A i \in 1 .. n : Gap(a, i) = Gap(b, i)
  <2> SUFFICES ASSUME NEW i \in 1 .. n PROVE Gap(a, i) = Gap(b, i)
    OBVIOUS
  <2>1. i = 1 \/ i - 1 \in 1 .. n
    OBVIOUS
  <2> QED BY <1>5, <2>1, Zenon DEF Gap
<1>8. Alike(n, h, k)
  <2>1. h[0] = 0 /\ k[0] = 0
    BY <1>6, CursorRuns, Zenon
  <2>2. \A i \in 1 .. n : h[i] = h[i - 1] + Clamp(Gap(a, i))
    BY <1>4, <1>6, CursorRuns, Zenon
  <2>3. \A i \in 1 .. Len(b) : k[i] = k[i - 1] + Clamp(Gap(b, i))
    BY <1>6, CursorRuns, Zenon
  <2>4. \A i \in 1 .. n : k[i] = k[i - 1] + Clamp(Gap(b, i))
    BY <1>5, <2>3, Zenon
  <2> QED BY <1>7, <2>1, <2>2, <2>4, Zenon DEF Alike
<1>9. \A i \in 1 .. n : h[i] = k[i]
  <2>1. \A i \in 0 .. n : h[i] = k[i]
    BY <1>8, LoopsAgree
  <2>2. \A i \in 1 .. n : i \in 0 .. n
    OBVIOUS
  <2> QED BY <2>1, <2>2, Zenon
<1>10. \A i \in 1 .. n : Marshal(s)[i] = Marshal(t)[i]
  <2>1. \A i \in 1 .. n : Marshal(s)[i] = [a[i] EXCEPT !.at = h[i]]
    <3>1. \A i \in 1 .. Len(Outputs(s)) :
            Marshal(s)[i] = [Outputs(s)[i] EXCEPT !.at = Cursor(Outputs(s))[i]]
      BY MarshalRows
    <3> QED BY <1>3, <1>4, <1>6, <3>1, Zenon
  <2>2. \A i \in 1 .. Len(b) : Marshal(t)[i] = [b[i] EXCEPT !.at = k[i]]
    <3>1. \A i \in 1 .. Len(Outputs(t)) :
            Marshal(t)[i] = [Outputs(t)[i] EXCEPT !.at = Cursor(Outputs(t))[i]]
      BY <1>2, MarshalRows
    <3> QED BY <1>3, <1>6, <3>1, Zenon
  <2>3. \A i \in 1 .. n : Marshal(t)[i] = [b[i] EXCEPT !.at = k[i]]
    BY <1>5, <2>2, Zenon
  <2>4. \A i \in 1 .. n : [a[i] EXCEPT !.at = h[i]] = [b[i] EXCEPT !.at = k[i]]
    <3>1. \A i \in 1 .. n : a[i] = b[i] /\ h[i] = k[i]
      BY <1>5, <1>9
    <3> QED BY <3>1, Zenon
  <2> QED BY <2>1, <2>3, <2>4, Zenon
<1>11. Len(Marshal(s)) = n /\ Len(Marshal(t)) = Len(b)
  <2>1. Len(Marshal(s)) = Len(Outputs(s))
    BY MarshalRows
  <2>2. Len(Marshal(t)) = Len(Outputs(t))
    BY <1>2, MarshalRows
  <2> QED BY <1>3, <1>4, <2>1, <2>2, Zenon
<1> QED BY <1>1, <1>5, <1>10, <1>11 DEF Begins

LEMMA BeginsTransitive ==
  ASSUME NEW S, NEW s \in Seq(S), NEW t \in Seq(S), NEW u \in Seq(S), Begins(s, t), Begins(t, u)
  PROVE  Begins(s, u)
<1>1. Len(s) \in Nat /\ Len(t) \in Nat /\ Len(u) \in Nat
  OBVIOUS
<1>2. \A i \in 1 .. Len(s) : i \in 1 .. Len(t)
  BY <1>1 DEF Begins
<1> QED BY <1>1, <1>2 DEF Begins

\* The first resize decides the size, whatever comes after it.
LEMMA SizeStays ==
  ASSUME NEW s \in Seq(Event), NEW e \in Event
  PROVE  Size(Append(s, e)) = Size(s) \/ Size(s) = DefaultSize
<1>1. PICK n \in Nat : n = Len(s)
  OBVIOUS
<1>2. PICK t : t = Append(s, e)
  OBVIOUS
<1>3. Len(t) = n + 1 /\ \A i \in 1 .. n : t[i] = s[i]
  BY <1>1, <1>2
<1>4. PICK R, Q : R = {i \in 1 .. n : s[i].type = "r"} /\ Q = {i \in 1 .. n + 1 : t[i].type = "r"}
  OBVIOUS
<1>5. /\ Size(s) = IF R = {} THEN DefaultSize ELSE s[Min(R)].data
      /\ Size(t) = IF Q = {} THEN DefaultSize ELSE t[Min(Q)].data
  BY <1>1, <1>3, <1>4, Zenon DEF Size
<1>6. CASE R = {}
  BY <1>5, <1>6
<1>7. CASE R # {}
  <2>1. R \subseteq Nat
    BY <1>4
  <2>2. PICK m \in R : \A k \in R : m <= k
    BY <1>7, <2>1, Least
  <2>3. m \in 1 .. n /\ m \in Q /\ \A k \in Q : m <= k
    BY <1>3, <1>4, <2>2
  <2>4. R \subseteq Int /\ Q \subseteq Int
    BY <1>4
  <2>5. Min(R) = m
    <3>1. \A x \in R : (\A y \in R : x <= y) <=> x = m
      BY <2>2, <2>4
    <3> QED BY <2>2, <3>1 DEF Min
  <2>6. Min(Q) = m
    <3>1. \A x \in Q : (\A y \in Q : x <= y) <=> x = m
      BY <2>3, <2>4
    <3> QED BY <2>3, <3>1 DEF Min
  <2> QED BY <1>2, <1>3, <1>5, <1>7, <2>3, <2>5, <2>6
<1> QED BY <1>6, <1>7

-----------------------------------------------------------------------------
(* The invariant *)

Numbered(s) == \A i \in 1 .. Len(s) : s[i].data = i

\* What each maker leaves alone.
OneMaker ==
  /\ maker \in {"session", "record", "logscast", "nobody"}
  /\ mode = "none" <=> maker # "session"
  /\ maker # "record" => main = "off" /\ written = "no"
  /\ maker # "logscast" => scan = "off" /\ outcome = "none" /\ lines = 0

\* Input is recorded before it reaches the shell, so all that may come back has been recorded.
Has(s, x) == \E i \in 1 .. Len(s) : s[i].type = "i" /\ s[i].data = x
Echoes(s) ==
  \A j \in 1 .. Len(s) : s[j].type = "o" =>
    \E i \in 1 .. j - 1 : s[i].type = "i" /\ s[i].data = s[j].data

InputFirst ==
  /\ \A c \in Conns : dispatch[c] # "idle" => message[c] >= 1
  /\ \A c \in Conns : dispatch[c] = "write" => mode = "none" \/ Has(events, <<c, message[c]>>)
  /\ mode = "exec" =>
       /\ Echoes(events)
       /\ \A k \in 1 .. Len(pending) : Has(events, pending[k])
       /\ \A c \in Conns : chunk[c] # <<>> => Has(events, chunk[c])

\* What a reader of the log records is timed against the epoch that it keeps.
LineEvent(e, lg, ln, ep) ==
  \E c \in Conns : \E k \in 1 .. ln[c] :
    /\ e.data = <<c, k>>
    /\ lg[k].stamp # NoStamp => ep[c] # NoStamp /\ e.at = lg[k].stamp - ep[c]
LineEvents(s, lg, ln, ep) ==
  \A j \in 1 .. Len(s) : s[j].type = "o" => LineEvent(s[j], lg, ln, ep)

NoEcho == pending = <<>> /\ \A c \in Conns : chunk[c] = <<>>
LogLines ==
  mode = "logs" => NoEcho /\ LineEvents(events, log, line, epoch)

SessionInv == CastsGrow /\ InputFirst /\ LogLines

\* What `record' has recorded is at least what is on the screen, and the file, once written,
\* has all that was there when the recording was stopped.
Whole(rows) ==
  /\ Numbered(rows) /\ Len(rows) >= atStop
  /\ canceller = "stream" /\ shell = "ended" => Len(rows) = printed

OutputRecorded ==
  main # "exited" =>
    /\ Numbered(Outputs(events))
    /\ Len(Outputs(events)) = IF output = "record" THEN shown - 1 ELSE shown
    /\ Len(screen) = IF output \in {"record", "show"} THEN shown - 1 ELSE shown
    /\ file = <<>> /\ written = "no"

Stopped ==
  /\ main \in {"restored", "snapped", "exited"} => canceller # "nobody"
  /\ canceller = "stream" => shell # "running"
  /\ canceller = "stream" /\ shell = "ended" =>
       output = "stopped" /\ shown = printed /\ Len(screen) = printed

RecordBody ==
  /\ OutputRecorded /\ Stopped
  /\ \A i \in 1 .. Len(screen) : screen[i] = i
  /\ main = "snapped" => Whole(Outputs(snapshot))
  /\ written = "yes" => file # <<>> /\ Whole(file[1].rows)
RecordInv == maker = "record" => RecordBody

\* `logscast' saves only what it has read to the end.
LogscastBody ==
  /\ scan # "exited" => Numbered(Outputs(events)) /\ Len(Outputs(events)) = lines
  /\ scan = "ended" => lines = Len(log)
  /\ outcome = "saved" =>
       /\ scan = "exited" /\ file # <<>>
       /\ Numbered(file[1].rows) /\ Len(file[1].rows) = Len(log)
LogscastInv == maker = "logscast" => LogscastBody

\* The player has the file that `record' has written.
PlayInv ==
  /\ player = "off" => position = 0
  /\ player = "delay" => position < Len(tape)
  /\ played # "no" => player = "exited"
  /\ maker = "record" /\ (player \in {"row", "delay"} \/ played = "all") =>
       file # <<>> /\ tape = file[1].rows

Typed ==
  /\ TypeOK
  /\ events \in Seq(Event) /\ snapshot \in Seq(Event) /\ tape \in Seq(Event)
  /\ file # <<>> => file[1].rows \in Seq(Event)

IInv == Typed /\ OneMaker /\ SessionInv /\ RecordInv /\ LogscastInv /\ PlayInv

LEMMA LogOfLines ==
  ASSUME log \in Logs
  PROVE  /\ Len(log) \in Nat
         /\ \A k \in 1 .. Len(log) : log[k].stamp \in 0 .. MaxStamp /\ log[k].size \in LineSizes
<1>1. PICK n \in 0 .. MaxLines : log \in [1 .. n -> [stamp : 0 .. MaxStamp, size : LineSizes]]
  BY DEF Logs
<1>2. n \in Nat
  BY RecordingAssumption
<1>3. Len(log) = n
  <2> DEFINE S == [stamp : 0 .. MaxStamp, size : LineSizes]
  <2>1. log \in [1 .. n -> S]
    BY <1>1
  <2> HIDE DEF S
  <2> QED BY <1>2, <2>1
<1>4. ASSUME NEW k \in 1 .. n PROVE log[k].stamp \in 0 .. MaxStamp /\ log[k].size \in LineSizes
  <2>1. PICK l \in [stamp : 0 .. MaxStamp, size : LineSizes] : l = log[k]
    BY <1>1, Zenon
  <2> QED BY <2>1
<1> QED BY <1>2, <1>3, <1>4

LEMMA CastsStart == CastsInit => IInv
<1> SUFFICES ASSUME CastsInit PROVE IInv
  OBVIOUS
<1> USE DEF CastsInit, Init, SessionInit, RecordInit, LogscastInit, PlayInit, MakerInit
<1>1. Len(<<>>) = 0 /\ <<>> \in Seq(Event) /\ Outputs(<<>>) = <<>>
  BY NoOutputs
<1>2. Typed
  <2>1. Len(log) \in Nat
    BY LogOfLines
  <2>2. SessionTypeOK
    <3>1. message \in [Conns -> 0 .. typed] /\ line \in [Conns -> 0 .. Len(log)]
      <4>1. 0 \in 0 .. typed /\ 0 \in 0 .. Len(log)
        BY <2>1
      <4>2. message = [c \in Conns |-> 0] /\ line = [c \in Conns |-> 0]
        OBVIOUS
      <4> QED BY <4>1, <4>2, Zenon
    <3>2. epoch \in [Conns -> 0 .. MaxStamp]
      BY RecordingAssumption DEF NoStamp
    <3>3. pending \in Seq(Conns \X (1 .. typed)) /\ typed \in 0 .. MaxInput
      BY SessionAssumption
    <3>4. dispatch \in [Conns -> {"idle", "record", "write"}]
      OBVIOUS
    <3> QED BY <3>1, <3>2, <3>3, <3>4 DEF SessionTypeOK
  <2>3. RecordTypeOK
    BY RecordAssumption DEF RecordTypeOK
  <2>4. LogscastTypeOK
    <3>1. 0 \in 0 .. Len(log) /\ 0 \in 0 .. MaxStamp
      BY <2>1, RecordingAssumption
    <3>2. follow \in BOOLEAN /\ interrupted \in BOOLEAN
      BY Zenon
    <3>3. lines \in 0 .. Len(log) /\ logEpoch \in 0 .. MaxStamp
      BY <3>1 DEF NoStamp
    <3>4. scan \in {"off", "scanning", "ended", "exited"} /\ connection \in {"up", "lost"}
      OBVIOUS
    <3>5. outcome \in {"none", "saved", "unwritten", "error"}
      OBVIOUS
    <3> QED BY <3>2, <3>3, <3>4, <3>5, Zenon DEF LogscastTypeOK
  <2>5. PlayTypeOK
    <3>1. loop \in BOOLEAN /\ done \in BOOLEAN
      BY Zenon
    <3>2. position \in 0 .. Len(tape) /\ delay \in Nat
      BY <1>1
    <3>3. player \in {"off", "row", "delay", "exited"}
      OBVIOUS
    <3>4. played \in {"no", "all", "interrupted", "error"}
      OBVIOUS
    <3> QED BY <3>1, <3>2, <3>3, <3>4, Zenon DEF PlayTypeOK
  <2> QED BY <1>1, <2>2, <2>3, <2>4, <2>5, RecordingAssumption DEF Typed, TypeOK
<1>3. OneMaker
  BY MakersAssumption DEF OneMaker
<1>4. SessionInv
  BY <1>1 DEF SessionInv, CastsGrow, InputFirst, LogLines, NoEcho, LineEvents, Echoes
<1>5. RecordInv
  BY <1>1 DEF RecordInv, RecordBody, OutputRecorded, Stopped, Numbered
<1>6. LogscastInv
  BY <1>1 DEF LogscastInv, LogscastBody, Numbered
<1>7. PlayInv
  BY DEF PlayInv
<1> QED BY <1>2, <1>3, <1>4, <1>5, <1>6, <1>7 DEF IInv

-----------------------------------------------------------------------------
(* One more event *)

LEMMA OneMore ==
  ASSUME NEW S, NEW s \in Seq(S), NEW e \in S, NEW t, t = Append(s, e)
  PROVE  /\ t \in Seq(S) /\ Len(s) \in Nat /\ Len(t) = Len(s) + 1 /\ t[Len(s) + 1] = e
         /\ \A i \in 1 .. Len(s) : i \in 1 .. Len(t) /\ t[i] = s[i]
         /\ \A i \in 1 .. Len(t) : i \in 1 .. Len(s) \/ i = Len(s) + 1
OBVIOUS

LEMMA HasStays ==
  ASSUME NEW s \in Seq(Event), NEW e \in Event, NEW t, t = Append(s, e)
  PROVE  /\ \A x : Has(s, x) => Has(t, x)
         /\ e.type = "i" => Has(t, e.data)
<1>1. /\ Len(s) + 1 \in 1 .. Len(t) /\ t[Len(s) + 1] = e
      /\ \A i \in 1 .. Len(s) : i \in 1 .. Len(t) /\ t[i] = s[i]
  BY OneMore
<1> QED BY <1>1, Zenon DEF Has

LEMMA EchoesStay ==
  ASSUME NEW s \in Seq(Event), NEW e \in Event, NEW t, t = Append(s, e),
         Echoes(s), e.type = "o" => Has(s, e.data)
  PROVE  Echoes(t)
<1>1. /\ Len(s) \in Nat /\ t[Len(s) + 1] = e
      /\ \A i \in 1 .. Len(s) : t[i] = s[i]
      /\ \A i \in 1 .. Len(t) : i \in 1 .. Len(s) \/ i = Len(s) + 1
  BY OneMore
<1> SUFFICES ASSUME NEW j \in 1 .. Len(t), t[j].type = "o"
             PROVE  \E i \in 1 .. j - 1 : t[i].type = "i" /\ t[i].data = t[j].data
  BY DEF Echoes
<1>2. CASE j \in 1 .. Len(s)
  <2>1. PICK i \in 1 .. j - 1 : s[i].type = "i" /\ s[i].data = s[j].data
    BY <1>1, <1>2 DEF Echoes
  <2>2. i \in 1 .. Len(s)
    BY <1>1, <1>2
  <2> QED BY <1>1, <1>2, <2>1, <2>2
<1>3. CASE j = Len(s) + 1
  <2>1. PICK i \in 1 .. Len(s) : s[i].type = "i" /\ s[i].data = e.data
    BY <1>1, <1>3 DEF Has
  <2>2. i \in 1 .. j - 1
    BY <1>1, <1>3
  <2> QED BY <1>1, <1>3, <2>1, <2>2
<1> QED BY <1>1, <1>2, <1>3

\* The recording grows and the file stays.
LEMMA FileStays ==
  ASSUME Typed, CastsGrow, NEW e \in Event, events' = Append(events, e), UNCHANGED <<file, mode>>
  PROVE  CastsGrow'
<1> SUFFICES ASSUME mode # "none", file # <<>>
             PROVE  /\ IsPrefix(file[1].rows, Marshal(events'))
                    /\ file[1].size \in {DefaultSize, Size(events')}
  BY DEF CastsGrow
<1>1. PICK s, t : s = events /\ t = events'
  OBVIOUS
<1>2. s \in Seq(Event) /\ t \in Seq(Event) /\ t = Append(s, e)
  BY <1>1, OneMore DEF Typed
<1>3. PICK rows : rows = file[1].rows
  OBVIOUS
<1>4. rows \in Seq(Event) /\ Marshal(s) \in Seq(Event) /\ Marshal(t) \in Seq(Event)
  BY <1>2, <1>3, MarshalRows DEF Typed
<1>5. Begins(rows, Marshal(s))
  BY <1>1, <1>3, <1>4, PrefixBegins DEF CastsGrow
<1>6. Begins(Marshal(s), Marshal(t))
  BY <1>2, MarshalGrows
<1>7. Begins(rows, Marshal(t))
  BY <1>4, <1>5, <1>6, BeginsTransitive
<1>8. IsPrefix(rows, Marshal(t))
  BY <1>4, <1>7, PrefixBegins
<1>9. file[1].size \in {DefaultSize, Size(t)}
  <2>1. file[1].size \in {DefaultSize, Size(s)}
    BY <1>1 DEF CastsGrow
  <2>2. Size(t) = Size(s) \/ Size(s) = DefaultSize
    BY <1>2, SizeStays
  <2> QED BY <2>1, <2>2
<1> QED BY <1>1, <1>3, <1>8, <1>9

LEMMA LinesStay ==
  ASSUME NEW s \in Seq(Event), NEW e \in Event, NEW t, t = Append(s, e),
         NEW lg, NEW ln, NEW ep, LineEvents(s, lg, ln, ep),
         e.type = "o" => LineEvent(e, lg, ln, ep)
  PROVE  LineEvents(t, lg, ln, ep)
<1>1. /\ t[Len(s) + 1] = e
      /\ \A i \in 1 .. Len(s) : t[i] = s[i]
      /\ \A i \in 1 .. Len(t) : i \in 1 .. Len(s) \/ i = Len(s) + 1
  BY OneMore
<1> QED BY <1>1, Zenon DEF LineEvents

\* A reader goes on, and keeps its epoch.
LEMMA LinesAreKept ==
  ASSUME NEW s, NEW lg, NEW ln \in [Conns -> Nat], NEW ep, NEW ln2 \in [Conns -> Nat], NEW ep2,
         \A c \in Conns : ln[c] <= ln2[c],
         \A c \in Conns : ep[c] # NoStamp => ep2[c] = ep[c],
         LineEvents(s, lg, ln, ep)
  PROVE  LineEvents(s, lg, ln2, ep2)
<1> SUFFICES ASSUME NEW j \in 1 .. Len(s), s[j].type = "o" PROVE LineEvent(s[j], lg, ln2, ep2)
  BY DEF LineEvents
<1>0. PICK c \in Conns : \E k \in 1 .. ln[c] :
        /\ s[j].data = <<c, k>>
        /\ lg[k].stamp # NoStamp => ep[c] # NoStamp /\ s[j].at = lg[k].stamp - ep[c]
  BY Zenon DEF LineEvents, LineEvent
<1>1. PICK k \in 1 .. ln[c] :
        /\ s[j].data = <<c, k>>
        /\ lg[k].stamp # NoStamp => ep[c] # NoStamp /\ s[j].at = lg[k].stamp - ep[c]
  BY <1>0, Zenon
<1>2. k \in 1 .. ln2[c]
  BY <1>1
<1> QED BY <1>1, <1>2, Zenon DEF LineEvent

LEMMA AddAtAdds ==
  ASSUME NEW type \in {"o", "i", "r"}, NEW data \in Data, NEW long \in BOOLEAN, NEW at \in Int,
         AddAt(type, data, long, at)
  PROVE  \E e \in Event :
           events' = Append(events, e) /\ e.type = type /\ e.data = data /\ e.at = at
<1>1. PICK e : e = [at |-> at, type |-> type, data |-> data, long |-> long]
  OBVIOUS
<1>2. e \in Event /\ e.type = type /\ e.data = data /\ e.at = at
  BY <1>1 DEF Event
<1>3. events' = Append(events, e)
  BY <1>1, Zenon DEF AddAt
<1> QED BY <1>2, <1>3

LEMMA AddAdds ==
  ASSUME TypeOK, NEW type \in {"o", "i", "r"}, NEW data \in Data, Add(type, data)
  PROVE  \E e \in Event : events' = Append(events, e) /\ e.type = type /\ e.data = data
<1>1. now \in Int
  BY RecordingAssumption DEF TypeOK
<1>2. PICK at \in Int : at = now
  BY <1>1
<1>3. PICK long \in BOOLEAN : long = FALSE
  BY Zenon
<1>4. AddAt(type, data, long, at)
  BY <1>2, <1>3, Zenon DEF Add
<1>5. \E e \in Event :
        events' = Append(events, e) /\ e.type = type /\ e.data = data /\ e.at = at
  BY <1>4, AddAtAdds
<1> QED BY <1>5, Zenon

LEMMA SeqWider ==
  ASSUME NEW A, NEW B, A \subseteq B, NEW s \in Seq(A)
  PROVE  s \in Seq(B)
OBVIOUS

-----------------------------------------------------------------------------
(* The session *)

SessionPart ==
  /\ SessionTypeOK /\ SessionInv
  /\ events \in Seq(Event)
  /\ file # <<>> => file[1].rows \in Seq(Event)

LEMMA HandlerSteps ==
  ASSUME IInv, NEW c \in Conns, Receive(c) \/ WriteInput(c)
  PROVE  SessionPart'
<1>1. CASE Receive(c)
  <2> USE <1>1 DEF Receive
  <2>1. typed \in Nat /\ typed' \in 0 .. MaxInput /\ typed' = typed + 1
    BY SessionAssumption DEF IInv, Typed, TypeOK, SessionTypeOK
  <2>2. message' \in [Conns -> 0 .. typed']
    <3>1. message \in [Conns -> 0 .. typed'] /\ typed' \in 0 .. typed'
      BY <2>1 DEF IInv, Typed, TypeOK, SessionTypeOK
    <3> QED BY <2>1, <3>1
  <2>3. dispatch' = [dispatch EXCEPT ![c] = "record"]
    BY DEF DispatchStep
  <2>4. dispatch' \in [Conns -> {"idle", "record", "write"}]
    BY <2>3 DEF IInv, Typed, TypeOK, SessionTypeOK
  <2>5. PICK A, B : A = Conns \X (1 .. typed) /\ B = Conns \X (1 .. typed')
    OBVIOUS
  <2>6. A \subseteq B
    BY <2>1, <2>5
  <2>7. pending' \in Seq(B) /\ chunk' \in [Conns -> B \cup {<<>>}]
    <3>1. /\ pending \in Seq(A) /\ chunk \in [Conns -> A \cup {<<>>}]
          /\ pending' = pending /\ chunk' = chunk
      BY <2>5 DEF IInv, Typed, TypeOK, SessionTypeOK
    <3> QED BY <2>6, <3>1, SeqWider
  <2>8. SessionTypeOK'
    BY <2>1, <2>2, <2>4, <2>5, <2>7 DEF IInv, Typed, TypeOK, SessionTypeOK
  <2>9. InputFirst'
    <3>1. \A d \in Conns : d # c => dispatch'[d] = dispatch[d] /\ message'[d] = message[d]
      BY DEF DispatchStep, IInv, Typed, TypeOK, SessionTypeOK
    <3>2. dispatch'[c] = "record" /\ message'[c] >= 1
      BY <2>1, <2>3 DEF IInv, Typed, TypeOK, SessionTypeOK
    <3> QED BY <3>1, <3>2 DEF IInv, SessionInv, InputFirst
  <2>10. CastsGrow' /\ LogLines'
    BY DEF IInv, SessionInv, CastsGrow, LogLines, NoEcho
  <2> QED BY <2>8, <2>9, <2>10 DEF IInv, Typed, SessionPart, SessionInv
<1>2. CASE WriteInput(c)
  <2> USE <1>2 DEF WriteInput
  <2>1. dispatch' = [dispatch EXCEPT ![c] = "idle"] /\ dispatch[c] = "write"
    BY DEF DispatchStep
  <2>2. dispatch' \in [Conns -> {"idle", "record", "write"}]
    BY <2>1 DEF IInv, Typed, TypeOK, SessionTypeOK
  <2>3. PICK x : x = <<c, message[c]>>
    OBVIOUS
  <2>4. x \in Conns \X (1 .. typed)
    <3>1. message[c] \in 0 .. typed /\ typed \in Nat
      BY DEF IInv, Typed, TypeOK, SessionTypeOK
    <3>2. message[c] >= 1
      BY <2>1 DEF IInv, SessionInv, InputFirst
    <3> QED BY <2>3, <3>1, <3>2
  <2>5. pending' \in Seq(Conns \X (1 .. typed))
    BY <2>3, <2>4 DEF IInv, Typed, TypeOK, SessionTypeOK
  <2>6. SessionTypeOK'
    BY <2>2, <2>5 DEF IInv, Typed, TypeOK, SessionTypeOK
  <2>7. InputFirst'
    <3>1. \A d \in Conns : dispatch'[d] # "idle" => d # c /\ dispatch'[d] = dispatch[d]
      BY <2>1 DEF IInv, Typed, TypeOK, SessionTypeOK
    <3>2. mode = "exec" => \A k \in 1 .. Len(pending') : Has(events, pending'[k])
      <4> SUFFICES ASSUME mode = "exec", NEW k \in 1 .. Len(pending')
                   PROVE  Has(events, pending'[k])
        OBVIOUS
      <4>1. pending' = Append(pending, x)
        BY <2>3
      <4>2. pending \in Seq(Conns \X (1 .. typed))
        BY DEF IInv, Typed, TypeOK, SessionTypeOK
      <4>3. (k \in 1 .. Len(pending) /\ pending'[k] = pending[k]) \/ pending'[k] = x
        BY <2>4, <4>1, <4>2
      <4> QED BY <2>1, <2>3, <4>3 DEF IInv, SessionInv, InputFirst
    <3>3. /\ \A d \in Conns : dispatch'[d] # "idle" => message[d] >= 1
          /\ \A d \in Conns :
               dispatch'[d] = "write" => mode = "none" \/ Has(events, <<d, message[d]>>)
      BY <3>1 DEF IInv, SessionInv, InputFirst
    <3> QED BY <3>2, <3>3 DEF IInv, SessionInv, InputFirst
  <2>8. CastsGrow' /\ LogLines'
    BY DEF IInv, SessionInv, CastsGrow, LogLines, NoEcho
  <2> QED BY <2>6, <2>7, <2>8 DEF IInv, Typed, SessionPart, SessionInv
<1> QED BY <1>1, <1>2

LEMMA RecordingSteps ==
  ASSUME IInv,
         \E c \in Conns :
           RecordInput(c) \/ RecordOutput(c) \/ \E size \in Sizes : DispatchResize(c, size)
  PROVE  SessionPart'
<1>1. \E e \in Event :
        /\ events' = Append(events, e)
        /\ \/ \E c \in Conns : RecordInput(c) /\ e.type = "i" /\ e.data = <<c, message[c]>>
           \/ \E c \in Conns : \E size \in Sizes : DispatchResize(c, size) /\ e.type = "r"
           \/ \E c \in Conns : RecordOutput(c) /\ e.type = "o" /\ e.data = chunk[c]
  <2>1. ASSUME NEW c \in Conns, RecordInput(c)
        PROVE  \E e \in Event :
                 events' = Append(events, e) /\ e.type = "i" /\ e.data = <<c, message[c]>>
    <3>1. <<c, message[c]>> \in Data
      <4>1. PICK n \in Nat : n = message[c]
        BY DEF IInv, Typed, TypeOK, SessionTypeOK
      <4>2. PICK x : x = <<c, n>>
        OBVIOUS
      <4>3. x \in Conns \X Nat
        BY <4>2
      <4>4. x \in Data
        BY <4>3 DEF Data
      <4> QED BY <4>1, <4>2, <4>4, Zenon
    <3>2. Add("i", <<c, message[c]>>)
      BY <2>1 DEF RecordInput
    <3> QED BY <3>1, <3>2, AddAdds DEF IInv, Typed
  <2>2. ASSUME NEW c \in Conns, NEW size \in Sizes, DispatchResize(c, size)
        PROVE  \E e \in Event : events' = Append(events, e) /\ e.type = "r" /\ e.data = size
    <3>1. size \in Data
      BY DEF Data
    <3>2. Add("r", size)
      BY <2>2 DEF DispatchResize
    <3> QED BY <3>1, <3>2, AddAdds DEF IInv, Typed
  <2>3. ASSUME NEW c \in Conns, RecordOutput(c)
        PROVE  \E e \in Event : events' = Append(events, e) /\ e.type = "o" /\ e.data = chunk[c]
    <3>1. PICK x : x = chunk[c]
      OBVIOUS
    <3>2. x \in Data
      BY <2>3, <3>1 DEF RecordOutput, Data, IInv, Typed, TypeOK, SessionTypeOK
    <3>3. Add("o", x)
      BY <2>3, <3>1 DEF RecordOutput
    <3>4. \E e \in Event : events' = Append(events, e) /\ e.type = "o" /\ e.data = x
      BY <3>2, <3>3, AddAdds DEF IInv, Typed
    <3> QED BY <3>1, <3>4
  <2> DEFINE Why(e) ==
        \/ \E c \in Conns : RecordInput(c) /\ e.type = "i" /\ e.data = <<c, message[c]>>
        \/ \E c \in Conns : \E size \in Sizes : DispatchResize(c, size) /\ e.type = "r"
        \/ \E c \in Conns : RecordOutput(c) /\ e.type = "o" /\ e.data = chunk[c]
  <2>4. ASSUME NEW c \in Conns, RecordInput(c)
        PROVE  \E e \in Event : events' = Append(events, e) /\ Why(e)
    BY <2>1, <2>4, Zenon
  <2>5. ASSUME NEW c \in Conns, NEW size \in Sizes, DispatchResize(c, size)
        PROVE  \E e \in Event : events' = Append(events, e) /\ Why(e)
    BY <2>2, <2>5, Zenon
  <2>6. ASSUME NEW c \in Conns, RecordOutput(c)
        PROVE  \E e \in Event : events' = Append(events, e) /\ Why(e)
    BY <2>3, <2>6, Zenon
  <2>7. \E e \in Event : events' = Append(events, e) /\ Why(e)
    <3> HIDE DEF Why
    <3> QED BY <2>4, <2>5, <2>6, Zenon
  <2> QED BY <2>7, Zenon
<1>2. PICK e \in Event :
        /\ events' = Append(events, e)
        /\ \/ \E c \in Conns : RecordInput(c) /\ e.type = "i" /\ e.data = <<c, message[c]>>
           \/ \E c \in Conns : \E size \in Sizes : DispatchResize(c, size) /\ e.type = "r"
           \/ \E c \in Conns : RecordOutput(c) /\ e.type = "o" /\ e.data = chunk[c]
  BY <1>1, Zenon
<1>3. UNCHANGED <<log, file, mode, typed, message, pending, line, epoch>>
  BY <1>2 DEF RecordInput, DispatchResize, RecordOutput, sessionVars
<1>0. /\ chunk' = chunk \/ \E c \in Conns : chunk' = [chunk EXCEPT ![c] = <<>>]
      /\ \A d \in Conns : chunk'[d] \in {chunk[d], <<>>}
  <2>1. chunk' = chunk \/ \E c \in Conns : chunk' = [chunk EXCEPT ![c] = <<>>]
    BY <1>2 DEF RecordInput, DispatchResize, RecordOutput, sessionVars
  <2> QED BY <2>1 DEF IInv, Typed, TypeOK, SessionTypeOK
<1>4. PICK s, t : s = events /\ t = events'
  OBVIOUS
<1>5. s \in Seq(Event) /\ t = Append(s, e) /\ t \in Seq(Event)
  BY <1>2, <1>4, OneMore DEF IInv, Typed
<1>6. CastsGrow'
  BY <1>2, <1>3, FileStays DEF IInv, SessionInv
<1>7. SessionTypeOK'
  <2>1. dispatch' \in [Conns -> {"idle", "record", "write"}]
    BY <1>2 DEF RecordInput, DispatchStep, DispatchResize, RecordOutput, sessionVars, IInv, Typed,
                TypeOK, SessionTypeOK
  <2>2. chunk' \in [Conns -> (Conns \X (1 .. typed)) \cup {<<>>}]
    BY <1>0 DEF IInv, Typed, TypeOK, SessionTypeOK
  <2> QED BY <1>3, <2>1, <2>2 DEF IInv, Typed, TypeOK, SessionTypeOK
<1>8. \A x : Has(s, x) => Has(t, x)
  BY <1>5, HasStays
<1>9. e.type = "o" => \E c \in Conns : RecordOutput(c) /\ e.data = chunk[c]
  BY <1>2
<1>10. InputFirst'
  <2>1. \A d \in Conns : dispatch'[d] # "idle" => message'[d] >= 1
    <3>1. \A d \in Conns : dispatch'[d] # "idle" => dispatch[d] # "idle"
      BY <1>2 DEF RecordInput, DispatchStep, DispatchResize, RecordOutput, sessionVars, IInv,
                  Typed, TypeOK, SessionTypeOK
    <3> QED BY <1>3, <3>1 DEF IInv, SessionInv, InputFirst
  <2>2. ASSUME NEW d \in Conns, dispatch'[d] = "write", mode' # "none"
        PROVE  Has(t, <<d, message'[d]>>)
    <3>1. CASE dispatch[d] = "write"
      <4>1. Has(s, <<d, message[d]>>)
        BY <1>3, <1>4, <2>2, <3>1 DEF IInv, SessionInv, InputFirst
      <4> QED BY <1>3, <1>8, <4>1
    <3>2. CASE dispatch[d] # "write"
      <4>1. RecordInput(d) /\ e.type = "i" /\ e.data = <<d, message[d]>>
        BY <1>2, <2>2, <3>2 DEF RecordInput, DispatchStep, DispatchResize, RecordOutput,
                sessionVars, IInv, Typed, TypeOK, SessionTypeOK
      <4>2. Has(t, e.data)
        BY <1>5, <4>1, HasStays
      <4> QED BY <1>3, <4>1, <4>2
    <3> QED BY <3>1, <3>2
  <2>3. ASSUME mode' = "exec"
        PROVE  /\ Echoes(t)
               /\ \A k \in 1 .. Len(pending') : Has(t, pending'[k])
               /\ \A c \in Conns : chunk'[c] # <<>> => Has(t, chunk'[c])
    <3>1. /\ Echoes(s) /\ \A k \in 1 .. Len(pending) : Has(s, pending[k])
          /\ \A c \in Conns : chunk[c] # <<>> => Has(s, chunk[c])
      BY <1>3, <1>4, <2>3 DEF IInv, SessionInv, InputFirst
    <3>2. e.type = "o" => Has(s, e.data)
      BY <1>9, <3>1 DEF RecordOutput
    <3>3. Echoes(t)
      BY <1>5, <3>1, <3>2, EchoesStay
    <3>4. \A k \in 1 .. Len(pending') : Has(t, pending'[k])
      BY <1>3, <1>8, <3>1
    <3>5. \A c \in Conns : chunk'[c] # <<>> => chunk'[c] = chunk[c]
      BY <1>0
    <3> QED BY <1>8, <3>1, <3>3, <3>4, <3>5
  <2> QED BY <1>4, <2>1, <2>2, <2>3 DEF InputFirst
<1>11. LogLines'
  <2> SUFFICES ASSUME mode' = "logs"
               PROVE  NoEcho' /\ LineEvents(t, log, line, epoch)
    BY <1>3, <1>4 DEF LogLines
  <2>1. NoEcho /\ LineEvents(s, log, line, epoch)
    BY <1>3, <1>4 DEF IInv, SessionInv, LogLines
  <2>2. e.type # "o"
    BY <1>9, <2>1 DEF RecordOutput, NoEcho
  <2>3. LineEvents(t, log, line, epoch)
    BY <1>5, <2>1, <2>2, LinesStay
  <2>4. NoEcho'
    BY <1>0, <1>3, <2>1 DEF NoEcho
  <2> QED BY <2>3, <2>4
<1> QED BY <1>3, <1>4, <1>5, <1>6, <1>7, <1>10, <1>11 DEF IInv, Typed, SessionPart, SessionInv

LEMMA ReaderSteps ==
  ASSUME IInv, NEW c \in Conns, ReadEcho(c)
  PROVE  SessionPart'
<1> USE DEF ReadEcho
<1>1. PICK S : S = Conns \X (1 .. typed)
  OBVIOUS
<1>2. PICK p \in Seq(S) : p = pending
  BY <1>1 DEF IInv, Typed, TypeOK, SessionTypeOK
<1>3. Len(p) \in Nat /\ Len(p) >= 1
  BY <1>2
<1>4. /\ chunk' = [chunk EXCEPT ![c] = p[1]] /\ p[1] \in S
      /\ pending' \in Seq(S) /\ Len(pending') = Len(p) - 1
      /\ \A k \in 1 .. Len(p) - 1 : pending'[k] = p[k + 1]
  BY <1>2, <1>3
<1>5. SessionTypeOK'
  BY <1>1, <1>4 DEF IInv, Typed, TypeOK, SessionTypeOK
<1>6. InputFirst'
  <2>1. ASSUME mode = "exec"
        PROVE  /\ \A k \in 1 .. Len(pending') : Has(events, pending'[k])
               /\ \A d \in Conns : chunk'[d] # <<>> => Has(events, chunk'[d])
    <3>1. \A k \in 1 .. Len(p) : Has(events, p[k])
      BY <1>2, <2>1 DEF IInv, SessionInv, InputFirst
    <3>2. \A k \in 1 .. Len(p) - 1 : k + 1 \in 1 .. Len(p)
      BY <1>3
    <3>3. 1 \in 1 .. Len(p)
      BY <1>3
    <3>4. ASSUME NEW d \in Conns, chunk'[d] # <<>> PROVE Has(events, chunk'[d])
      <4>1. chunk'[d] = chunk[d] \/ chunk'[d] = p[1]
        BY <1>4 DEF IInv, Typed, TypeOK, SessionTypeOK
      <4> QED BY <2>1, <3>1, <3>3, <3>4, <4>1 DEF IInv, SessionInv, InputFirst
    <3> QED BY <1>4, <3>1, <3>2, <3>4
  <2> QED BY <2>1 DEF IInv, SessionInv, InputFirst
<1>7. CastsGrow' /\ LogLines'
  BY DEF IInv, SessionInv, CastsGrow, LogLines, NoEcho
<1> QED BY <1>5, <1>6, <1>7 DEF IInv, Typed, SessionPart, SessionInv

LEMMA CastSteps ==
  ASSUME IInv, HandleCast
  PROVE  SessionPart'
<1> USE DEF HandleCast, sessionVars
<1>1. file' # <<>> /\ file'[1].rows = Marshal(events) /\ file'[1].size = Size(events)
  BY DEF CastOf
<1>2. PICK rows \in Seq(Event) : rows = Marshal(events)
  BY MarshalRows DEF IInv, Typed
<1>3. IsPrefix(rows, rows)
  <2>1. Begins(rows, rows)
    BY DEF Begins
  <2> QED BY <2>1, PrefixBegins
<1>4. CastsGrow'
  BY <1>1, <1>2, <1>3 DEF CastsGrow
<1>5. InputFirst' /\ LogLines' /\ SessionTypeOK'
  BY DEF IInv, SessionInv, InputFirst, LogLines, NoEcho, Typed, TypeOK, SessionTypeOK
<1> QED BY <1>1, <1>2, <1>4, <1>5 DEF IInv, Typed, SessionPart, SessionInv

\* The line that a reader with this epoch has in hand, as an event.
LEMMA LineAdds ==
  ASSUME TypeOK, NEW data \in Data, NEW ep \in 0 .. MaxStamp, NEW k \in 1 .. Len(log),
         AddLine(data, ep, log[k])
  PROVE  \E e \in Event :
           /\ events' = Append(events, e) /\ e.type = "o" /\ e.data = data
           /\ log[k].stamp # NoStamp =>
                EpochAfter(ep, log[k]) # NoStamp /\ e.at = log[k].stamp - EpochAfter(ep, log[k])
<1>1. log[k].stamp \in 0 .. MaxStamp
  BY LogOfLines DEF TypeOK
<1>2. now \in Int
  BY RecordingAssumption DEF TypeOK
<1>3. EpochAfter(ep, log[k]) \in 0 .. MaxStamp
  BY <1>1 DEF EpochAfter
<1>4. PICK at \in Int : at = LineTime(ep, log[k])
  <2>1. LineTime(ep, log[k]) \in Int
    BY <1>1, <1>2, <1>3, RecordingAssumption DEF LineTime, NoStamp
  <2> QED BY <2>1
<1>5. PICK long \in BOOLEAN : long = (log[k].size = "long")
  BY Zenon
<1>6. AddAt("o", data, long, at)
  BY <1>4, <1>5, Zenon DEF AddLine
<1>7. PICK e \in Event :
        events' = Append(events, e) /\ e.type = "o" /\ e.data = data /\ e.at = at
  <2>1. \E e \in Event :
          events' = Append(events, e) /\ e.type = "o" /\ e.data = data /\ e.at = at
    BY <1>6, AddAtAdds
  <2> QED BY <2>1, Zenon
<1>8. log[k].stamp # NoStamp =>
        EpochAfter(ep, log[k]) # NoStamp /\ at = log[k].stamp - EpochAfter(ep, log[k])
  BY <1>4 DEF LineTime, EpochAfter
<1> QED BY <1>7, <1>8

LEMMA LineSteps ==
  ASSUME IInv, NEW c \in Conns, RecordLine(c)
  PROVE  SessionPart'
<1>1. PICK k : k = line[c] + 1
  OBVIOUS
<1>2. /\ line \in [Conns -> Nat] /\ line[c] \in Nat /\ Len(log) \in Nat
      /\ epoch \in [Conns -> 0 .. MaxStamp] /\ log \in Logs /\ MaxStamp \in Nat
  <2>1. Len(log) \in Nat /\ log \in Logs
    BY LogOfLines DEF IInv, Typed, TypeOK
  <2> QED BY <2>1, RecordingAssumption DEF IInv, Typed, TypeOK, SessionTypeOK
<1>3. /\ k \in 1 .. Len(log) /\ k \in Nat /\ mode = "logs"
      /\ line' = [line EXCEPT ![c] = k]
      /\ epoch' = [epoch EXCEPT ![c] = EpochAfter(epoch[c], log[k])]
      /\ AddLine(<<c, k>>, epoch[c], log[k])
      /\ UNCHANGED <<now, log, file, mode, typed, message, dispatch, pending, chunk>>
  BY <1>1, <1>2 DEF RecordLine
<1>4. PICK x : x = <<c, k>>
  OBVIOUS
<1>5. x \in Data
  <2>1. x \in Conns \X Nat
    BY <1>3, <1>4
  <2> QED BY <2>1 DEF Data
<1>6. PICK ep \in 0 .. MaxStamp : ep = epoch[c]
  BY <1>2
<1>7. PICK e \in Event :
        /\ events' = Append(events, e) /\ e.type = "o" /\ e.data = x
        /\ log[k].stamp # NoStamp =>
             EpochAfter(ep, log[k]) # NoStamp /\ e.at = log[k].stamp - EpochAfter(ep, log[k])
  <2>1. AddLine(x, ep, log[k]) /\ TypeOK
    BY <1>3, <1>4, <1>6 DEF IInv, Typed
  <2> QED BY <1>3, <1>5, <2>1, LineAdds
<1>8. PICK s, t : s = events /\ t = events'
  OBVIOUS
<1>9. s \in Seq(Event) /\ t = Append(s, e) /\ t \in Seq(Event)
  BY <1>7, <1>8, OneMore DEF IInv, Typed
<1>10. PICK lg, ln, ep2 : lg = log /\ ln = line' /\ ep2 = epoch'
  OBVIOUS
<1>11. /\ ln \in [Conns -> 0 .. Len(log)] /\ ln[c] = k
       /\ ln \in [Conns -> Nat] /\ \A d \in Conns : line[d] <= ln[d]
  <2>1. line \in [Conns -> 0 .. Len(log)]
    BY DEF IInv, Typed, TypeOK, SessionTypeOK
  <2>2. ln = [line EXCEPT ![c] = k] /\ k \in 0 .. Len(log)
    BY <1>2, <1>3, <1>10
  <2>3. ln \in [Conns -> 0 .. Len(log)] /\ ln \in [Conns -> Nat]
    BY <1>2, <1>3, <2>1, <2>2
  <2>4. ln[c] = k /\ \A d \in Conns : d # c => ln[d] = line[d]
    BY <2>1, <2>2
  <2>5. \A d \in Conns : line[d] <= ln[d]
    BY <1>1, <1>2, <2>4
  <2> QED BY <2>3, <2>4, <2>5
<1>12. /\ EpochAfter(ep, log[k]) \in 0 .. MaxStamp
       /\ ep # NoStamp => EpochAfter(ep, log[k]) = ep
  <2>1. log[k].stamp \in 0 .. MaxStamp
    BY <1>2, <1>3, LogOfLines
  <2> QED BY <2>1 DEF EpochAfter
<1>13. /\ ep2 \in [Conns -> 0 .. MaxStamp] /\ ep2[c] = EpochAfter(ep, log[k])
       /\ \A d \in Conns : epoch[d] # NoStamp => ep2[d] = epoch[d]
  <2>1. PICK new : new = EpochAfter(ep, log[k])
    OBVIOUS
  <2>2. ep2 = [epoch EXCEPT ![c] = new]
    BY <1>3, <1>6, <1>10, <2>1
  <2> QED BY <1>2, <1>6, <1>12, <2>1, <2>2
<1>14. CastsGrow'
  BY <1>3, <1>7, FileStays DEF IInv, SessionInv
<1>15. SessionTypeOK'
  BY <1>3, <1>10, <1>11, <1>13 DEF IInv, Typed, TypeOK, SessionTypeOK
<1>16. InputFirst'
  <2>1. \A y : Has(s, y) => Has(t, y)
    BY <1>9, HasStays
  <2> QED BY <1>3, <1>8, <2>1 DEF IInv, SessionInv, InputFirst
<1>17. LogLines'
  <2>1. NoEcho /\ LineEvents(s, lg, line, epoch)
    BY <1>3, <1>8, <1>10 DEF IInv, SessionInv, LogLines
  <2>2. LineEvents(s, lg, ln, ep2)
    BY <1>2, <1>11, <1>13, <2>1, LinesAreKept
  <2>3. LineEvent(e, lg, ln, ep2)
    <3>1. k \in 1 .. ln[c]
      BY <1>3, <1>11
    <3> QED BY <1>4, <1>7, <1>10, <1>13, <3>1, Zenon DEF LineEvent
  <2>4. LineEvents(t, lg, ln, ep2)
    BY <1>9, <2>2, <2>3, LinesStay
  <2> QED BY <1>3, <1>8, <1>10, <2>1, <2>4 DEF LogLines, NoEcho
<1> QED BY <1>3, <1>8, <1>9, <1>14, <1>15, <1>16, <1>17 DEF IInv, Typed, SessionPart, SessionInv

LEMMA SessionKeeps == ASSUME IInv, Session PROVE IInv'
<1>1. SessionNext /\ maker = "session" /\ UNCHANGED <<maker, recordVars, logscastVars, playVars>>
  BY DEF Session
<1>2. SessionPart' /\ UNCHANGED <<now, log, mode>>
  <2>1. ASSUME NEW c \in Conns, Receive(c) \/ WriteInput(c)
        PROVE  SessionPart' /\ UNCHANGED <<now, log, mode>>
    BY <2>1, HandlerSteps DEF Receive, WriteInput
  <2>2. ASSUME NEW c \in Conns, RecordInput(c) \/ \E size \in Sizes : DispatchResize(c, size)
        PROVE  SessionPart' /\ UNCHANGED <<now, log, mode>>
    BY <2>2, RecordingSteps DEF RecordInput, DispatchResize, sessionVars
  <2>3. ASSUME NEW c \in Conns, RecordLine(c)
        PROVE  SessionPart' /\ UNCHANGED <<now, log, mode>>
    BY <2>3, LineSteps DEF RecordLine
  <2>4. ASSUME NEW c \in Conns, RecordOutput(c)
        PROVE  SessionPart' /\ UNCHANGED <<now, log, mode>>
    BY <2>4, RecordingSteps DEF RecordOutput
  <2>5. ASSUME NEW c \in Conns, ReadEcho(c)
        PROVE  SessionPart' /\ UNCHANGED <<now, log, mode>>
    BY <2>5, ReaderSteps DEF ReadEcho
  <2>6. CASE HandleCast
    BY <2>6, CastSteps DEF HandleCast, sessionVars
  <2>7. \/ HandleCast
        \/ \E c \in Conns : \/ Receive(c) \/ WriteInput(c) \/ RecordInput(c) \/ RecordLine(c)
                            \/ ReadEcho(c) \/ RecordOutput(c)
                            \/ \E size \in Sizes : DispatchResize(c, size)
    BY <1>1, Zenon DEF SessionNext, DispatchInput
  <2> QED BY <2>1, <2>2, <2>3, <2>4, <2>5, <2>6, <2>7, Zenon
<1>3. /\ RecordTypeOK' /\ LogscastTypeOK' /\ PlayTypeOK'
      /\ now' \in 0 .. MaxTime /\ log' \in Logs
      /\ snapshot' \in Seq(Event) /\ tape' \in Seq(Event)
  <2>1. RecordTypeOK'
    BY <1>1 DEF recordVars, mainVars, outputVars, keyVars, IInv, Typed, TypeOK, RecordTypeOK
  <2>2. LogscastTypeOK'
    BY <1>1, <1>2 DEF logscastVars, IInv, Typed, TypeOK, LogscastTypeOK
  <2>3. PlayTypeOK'
    BY <1>1 DEF playVars, IInv, Typed, TypeOK, PlayTypeOK
  <2> QED BY <1>1, <1>2, <2>1, <2>2, <2>3 DEF recordVars, mainVars, playVars, IInv, Typed, TypeOK
<1>4. Typed' /\ SessionInv'
  BY <1>2, <1>3 DEF SessionPart, Typed, TypeOK
<1>5. OneMaker' /\ RecordInv' /\ LogscastInv' /\ PlayInv'
  BY <1>1, <1>2 DEF recordVars, mainVars, logscastVars, playVars, IInv, OneMaker, RecordInv,
                    LogscastInv, PlayInv
<1> QED BY <1>4, <1>5 DEF IInv

LEMMA ServerGoneKeeps == ASSUME IInv, ServerGone PROVE IInv'
<1>1. /\ mode # "none" /\ mode' = "none" /\ maker = "session" /\ maker' = "nobody"
      /\ UNCHANGED <<file, recordVars, logscastVars, playVars>>
  BY DEF ServerGone, ServerStops, IInv, OneMaker
<1>2. Len(<<>>) = 0 /\ <<>> \in Seq(Event) /\ <<>> \in Logs
  <2>1. 0 \in 0 .. MaxLines
    BY RecordingAssumption
  <2>2. <<>> \in [1 .. 0 -> [stamp : 0 .. MaxStamp, size : LineSizes]]
    OBVIOUS
  <2> QED BY <2>1, <2>2 DEF Logs
<1>3. now' = 0 /\ events' = <<>> /\ log' = <<>> /\ now' \in 0 .. MaxTime
  BY RecordingAssumption DEF ServerGone, ServerStops
<1>4. SessionTypeOK'
  <2> USE DEF ServerGone, ServerStops
  <2>1. 0 \in 0 .. typed' /\ 0 \in 0 .. Len(log')
    BY <1>2, <1>3
  <2>2. message' = [d \in Conns |-> 0] /\ line' = [d \in Conns |-> 0]
    OBVIOUS
  <2>3. message' \in [Conns -> 0 .. typed'] /\ line' \in [Conns -> 0 .. Len(log')]
    BY <2>1, <2>2, Zenon
  <2>4. epoch' \in [Conns -> 0 .. MaxStamp] /\ typed' \in 0 .. MaxInput
    BY RecordingAssumption, SessionAssumption DEF NoStamp
  <2>5. dispatch' \in [Conns -> {"idle", "record", "write"}]
    OBVIOUS
  <2>6. /\ pending' \in Seq(Conns \X (1 .. typed'))
        /\ chunk' \in [Conns -> (Conns \X (1 .. typed')) \cup {<<>>}]
    OBVIOUS
  <2> QED BY <1>1, <2>3, <2>4, <2>5, <2>6 DEF SessionTypeOK
<1>5. RecordTypeOK' /\ LogscastTypeOK' /\ PlayTypeOK'
  <2>1. RecordTypeOK'
    BY <1>1 DEF recordVars, mainVars, outputVars, keyVars, IInv, Typed, TypeOK, RecordTypeOK
  <2>2. LogscastTypeOK'
    <3>1. lines' \in 0 .. Len(log')
      BY <1>1, <1>2, <1>3 DEF IInv, OneMaker, logscastVars
    <3> QED BY <1>1, <3>1 DEF logscastVars, IInv, Typed, TypeOK, LogscastTypeOK
  <2>3. PlayTypeOK'
    BY <1>1 DEF playVars, IInv, Typed, TypeOK, PlayTypeOK
  <2> QED BY <2>1, <2>2, <2>3
<1>6. Typed'
  BY <1>1, <1>2, <1>3, <1>4, <1>5 DEF recordVars, mainVars, playVars, IInv, Typed, TypeOK
<1>7. OneMaker' /\ RecordInv' /\ LogscastInv' /\ PlayInv'
  BY <1>1 DEF recordVars, mainVars, logscastVars, playVars, IInv, OneMaker, RecordInv, LogscastInv,
              PlayInv
<1>8. SessionInv'
  <2>1. \A c \in Conns : dispatch'[c] = "idle"
    BY DEF ServerGone, ServerStops
  <2> QED BY <1>1, <2>1 DEF SessionInv, CastsGrow, InputFirst, LogLines
<1> QED BY <1>6, <1>7, <1>8 DEF IInv

LEMMA ClockKeeps == ASSUME IInv, Clock PROVE IInv'
<1>1. /\ now' \in 0 .. MaxTime
      /\ UNCHANGED <<events, log, file, maker, sessionVars, recordVars, logscastVars, playVars>>
  BY RecordingAssumption DEF Clock, Tick, IInv, Typed, TypeOK
<1> USE <1>1 DEF sessionVars, recordVars, mainVars, outputVars, keyVars, logscastVars, playVars
<1>2. SessionTypeOK' /\ RecordTypeOK' /\ LogscastTypeOK' /\ PlayTypeOK'
  <2>1. SessionTypeOK'
    BY DEF IInv, Typed, TypeOK, SessionTypeOK
  <2>2. RecordTypeOK'
    BY DEF IInv, Typed, TypeOK, RecordTypeOK
  <2>3. LogscastTypeOK'
    BY DEF IInv, Typed, TypeOK, LogscastTypeOK
  <2>4. PlayTypeOK'
    BY DEF IInv, Typed, TypeOK, PlayTypeOK
  <2> QED BY <2>1, <2>2, <2>3, <2>4
<1>3. Typed' /\ OneMaker'
  BY <1>2 DEF IInv, Typed, TypeOK, OneMaker
<1>4. SessionInv'
  BY DEF IInv, SessionInv, CastsGrow, InputFirst, LogLines, NoEcho
<1>5. RecordInv'
  BY DEF IInv, RecordInv, RecordBody, OutputRecorded, Stopped, Whole
<1>6. LogscastInv' /\ PlayInv'
  BY DEF IInv, LogscastInv, LogscastBody, PlayInv
<1> QED BY <1>3, <1>4, <1>5, <1>6 DEF IInv

-----------------------------------------------------------------------------
(* `record' *)

RecordPart ==
  /\ RecordTypeOK /\ RecordBody
  /\ events \in Seq(Event) /\ snapshot \in Seq(Event)
  /\ file # <<>> => file[1].rows \in Seq(Event)

LEMMA RecordPartNow ==
  ASSUME IInv, maker = "record"
  PROVE  RecordPart /\ now \in Int /\ Len(screen) \in Nat /\ Len(Outputs(events)) \in Nat
<1>1. RecordPart
  BY DEF IInv, RecordInv, Typed, TypeOK, RecordPart
<1>2. now \in Int /\ Len(screen) \in Nat
  BY <1>1, RecordingAssumption DEF IInv, Typed, TypeOK, RecordPart, RecordTypeOK
<1>3. Len(Outputs(events)) \in Nat
  BY <1>1, MarshalRows DEF RecordPart
<1> QED BY <1>1, <1>2, <1>3

\* Whoever cancels: what is on the screen counts from the first time on.
LEMMA CancelSteps ==
  ASSUME IInv, maker = "record", Signalled \/ StdinEnds \/ ReadEnds
  PROVE  RecordPart'
<1>1. RecordPart /\ Len(screen) \in Nat
  BY RecordPartNow
<1>2. /\ UNCHANGED <<now, events, log, file, mainVars, shell, printed, shown, screen, keys>>
      /\ Alive /\ main # "exited"
      /\ \/ canceller' = canceller /\ atStop' = atStop /\ canceller # "nobody"
         \/ /\ canceller = "nobody" /\ canceller' \in {"signal", "stdin", "stream"}
            /\ atStop' = Len(screen)
  BY DEF Signalled, StdinEnds, ReadEnds, Cancel, outputVars, keyVars, KeyStep, OutputStep, Alive
<1>3. /\ output' = output \/ (output = "read" /\ output' = "stopped" /\ StreamOver)
      /\ canceller' = "stream" /\ canceller # "stream" =>
           output = "read" /\ output' = "stopped" /\ StreamOver
  BY DEF Signalled, StdinEnds, ReadEnds, Cancel, outputVars, keyVars, KeyStep, OutputStep
<1>4. keyboard' \in {keyboard, "stopped"}
  BY DEF Signalled, StdinEnds, ReadEnds, outputVars, keyVars, KeyStep
<1>5. RecordTypeOK'
  <2>1. atStop' \in 0 .. Len(screen')
    BY <1>1, <1>2 DEF RecordPart, RecordTypeOK
  <2> QED BY <1>1, <1>2, <1>3, <1>4, <2>1 DEF mainVars, RecordPart, RecordTypeOK
<1>6. OutputRecorded'
  BY <1>1, <1>2, <1>3 DEF mainVars, RecordPart, RecordBody, OutputRecorded
<1>7. Stopped'
  <2>1. ASSUME canceller' = "stream" PROVE shell # "running"
    BY <1>1, <1>2, <1>3, <2>1 DEF StreamOver, RecordPart, RecordBody, Stopped
  <2>2. ASSUME canceller' = "stream", shell = "ended"
        PROVE  output' = "stopped" /\ shown = printed /\ Len(screen) = printed
    <3>1. CASE canceller = "stream"
      BY <1>1, <1>3, <2>2, <3>1 DEF RecordPart, RecordBody, Stopped
    <3>2. CASE canceller # "stream"
      <4>1. output = "read" /\ output' = "stopped" /\ shown = printed
        BY <1>2, <1>3, <2>2, <3>2 DEF StreamOver
      <4>2. Len(screen) = shown
        BY <1>1, <1>2, <4>1 DEF RecordPart, RecordBody, OutputRecorded
      <4> QED BY <4>1, <4>2
    <3> QED BY <3>1, <3>2
  <2>3. main \in {"restored", "snapped", "exited"} => canceller' # "nobody"
    BY <1>1, <1>2 DEF RecordPart, RecordBody, Stopped
  <2> QED BY <1>2, <2>1, <2>2, <2>3 DEF mainVars, Stopped
<1>8. main = "snapped" => Whole(Outputs(snapshot))'
  <2> SUFFICES ASSUME main = "snapped" PROVE Whole(Outputs(snapshot))'
    OBVIOUS
  <2>1. canceller # "nobody"
    BY <1>1 DEF RecordPart, RecordBody, Stopped
  <2> QED BY <1>1, <1>2, <2>1 DEF mainVars, RecordPart, RecordBody, Whole
<1>9. RecordBody'
  <2>1. written' = "no"
    BY <1>1, <1>2 DEF mainVars, RecordPart, RecordBody, OutputRecorded
  <2> QED BY <1>1, <1>2, <1>6, <1>7, <1>8, <2>1 DEF mainVars, RecordPart, RecordBody
<1> QED BY <1>1, <1>2, <1>5, <1>9 DEF mainVars, RecordPart

\* The shell, the keyboard, and what the main goroutine does before there is a copy.
LEMMA QuietSteps ==
  ASSUME IInv, maker = "record",
         \/ StartRecord \/ ShellPrints \/ ShellEnds \/ ReadOutput \/ ReadKey \/ WriteKey \/ Restore
  PROVE  RecordPart'
<1>1. RecordPart /\ Len(screen) \in Nat
  BY RecordPartNow
<1>2. /\ UNCHANGED <<events, log, file, canceller, atStop, screen, snapshot, written>>
      /\ main # "exited"
  BY DEF StartRecord, ShellPrints, ShellEnds, ReadOutput, ReadKey, WriteKey, Restore, outputVars,
         keyVars, mainVars, Alive, OutputStep, KeyStep, MainStep
<1>3. CASE StartRecord
  <2> USE <1>3 DEF StartRecord, outputVars, keyVars
  <2>1. RecordTypeOK'
    BY <1>1 DEF RecordPart, RecordTypeOK
  <2>2. OutputRecorded' /\ Stopped'
    BY <1>1 DEF RecordPart, RecordBody, OutputRecorded, Stopped
  <2>3. RecordBody'
    BY <1>1, <2>2 DEF RecordPart, RecordBody, OutputRecorded
  <2> QED BY <1>1, <2>1, <2>3 DEF RecordPart
<1>4. CASE ShellPrints
  <2> USE <1>4 DEF ShellPrints, keyVars, mainVars
  <2>1. RecordTypeOK'
    <3>1. printed \in Nat /\ printed' \in 0 .. MaxOutput /\ shown' \in 0 .. printed'
      BY <1>1, RecordAssumption DEF RecordPart, RecordTypeOK
    <3> QED BY <1>1, <3>1 DEF RecordPart, RecordTypeOK
  <2>2. OutputRecorded' /\ Stopped'
    BY <1>1 DEF RecordPart, RecordBody, OutputRecorded, Stopped
  <2>3. RecordBody'
    BY <1>1, <1>2, <2>2 DEF RecordPart, RecordBody, OutputRecorded, Whole
  <2> QED BY <1>1, <2>1, <2>3 DEF RecordPart
<1>5. CASE ShellEnds
  <2> USE <1>5 DEF ShellEnds, keyVars, mainVars
  <2>1. RecordTypeOK'
    BY <1>1 DEF RecordPart, RecordTypeOK
  <2>2. OutputRecorded' /\ Stopped'
    BY <1>1 DEF RecordPart, RecordBody, OutputRecorded, Stopped
  <2>3. canceller # "stream"
    BY <1>1 DEF RecordPart, RecordBody, Stopped
  <2>4. RecordBody'
    BY <1>1, <1>2, <2>2, <2>3 DEF RecordPart, RecordBody, OutputRecorded, Whole
  <2> QED BY <1>1, <2>1, <2>4 DEF RecordPart
<1>6. CASE ReadOutput
  <2> USE <1>6 DEF ReadOutput, OutputStep, keyVars, mainVars
  <2>1. shown \in Nat /\ printed \in Nat /\ shown' = shown + 1 /\ shown' \in 0 .. printed
    BY <1>1 DEF RecordPart, RecordTypeOK
  <2>2. RecordTypeOK'
    BY <1>1, <2>1 DEF RecordPart, RecordTypeOK
  <2>3. OutputRecorded'
    BY <1>1, <1>2, <2>1 DEF RecordPart, RecordBody, OutputRecorded
  <2>4. Stopped'
    BY <1>1 DEF RecordPart, RecordBody, Stopped
  <2>5. RecordBody'
    BY <1>1, <1>2, <2>3, <2>4 DEF RecordPart, RecordBody, Whole
  <2> QED BY <1>1, <2>2, <2>5 DEF RecordPart
<1>7. CASE ReadKey \/ WriteKey
  <2> USE <1>7 DEF ReadKey, WriteKey, KeyStep, outputVars, mainVars
  <2>1. RecordTypeOK'
    <3>1. keys' \in 0 .. MaxKeys /\ keyboard' \in {"read", "record"}
      BY <1>1, RecordAssumption DEF RecordPart, RecordTypeOK
    <3> QED BY <1>1, <3>1 DEF RecordPart, RecordTypeOK
  <2>2. OutputRecorded' /\ Stopped'
    BY <1>1 DEF RecordPart, RecordBody, OutputRecorded, Stopped
  <2>3. RecordBody'
    BY <1>1, <1>2, <2>2 DEF RecordPart, RecordBody, Whole
  <2> QED BY <1>1, <2>1, <2>3 DEF RecordPart
<1>8. CASE Restore
  <2> USE <1>8 DEF Restore, MainStep, outputVars, keyVars
  <2>1. RecordTypeOK'
    BY <1>1 DEF RecordPart, RecordTypeOK
  <2>2. OutputRecorded' /\ Stopped'
    BY <1>1 DEF RecordPart, RecordBody, OutputRecorded, Stopped
  <2>3. RecordBody'
    BY <1>1, <1>2, <2>2 DEF RecordPart, RecordBody, Whole
  <2> QED BY <1>1, <2>1, <2>3 DEF RecordPart
<1> QED BY <1>3, <1>4, <1>5, <1>6, <1>7, <1>8

\* The goroutines record and show what they have in hand.
LEMMA EventSteps ==
  ASSUME IInv, maker = "record", RecordShown \/ RecordKey \/ \E size \in NewSizes : Winch(size)
  PROVE  RecordPart'
<1>1. RecordPart /\ Len(Outputs(events)) \in Nat /\ TypeOK
  BY RecordPartNow DEF IInv, Typed
<1>2. shown \in Nat /\ keys \in Nat
  BY <1>1 DEF RecordPart, RecordTypeOK
<1>3. /\ UNCHANGED <<now, log, file, mainVars, canceller, atStop, shell, printed, shown, screen,
                      keys>>
      /\ main # "exited"
  BY DEF RecordShown, RecordKey, Winch, OutputStep, KeyStep, Alive, recordVars, mainVars,
         outputVars, keyVars
<1>4. PICK s, t : s = events /\ t = events'
  OBVIOUS
<1>5. /\ t \in Seq(Event) /\ Len(Outputs(t)) \in Nat /\ Numbered(Outputs(t))
      /\ Len(Outputs(t)) = IF output' = "record" THEN shown - 1 ELSE shown
  <2>1. /\ s \in Seq(Event) /\ Numbered(Outputs(s)) /\ Outputs(s) \in Seq(Event)
        /\ Len(Outputs(s)) = IF output = "record" THEN shown - 1 ELSE shown
    BY <1>1, <1>3, <1>4, OutputsOfSeq DEF RecordPart, RecordBody, OutputRecorded
  <2>2. CASE RecordShown
    <3>1. PICK n \in Nat : n = shown
      BY <1>2
    <3>2. n \in Data
      BY DEF Data
    <3>3. Add("o", n)
      BY <2>2, <3>1 DEF RecordShown
    <3>4. PICK e \in Event : events' = Append(events, e) /\ e.type = "o" /\ e.data = n
      BY <1>1, <3>2, <3>3, AddAdds
    <3>5. Outputs(t) = Append(Outputs(s), e) /\ t \in Seq(Event)
      BY <1>4, <2>1, <3>4, OutputsAppend, OneMore
    <3>6. output = "record" /\ output' = "show"
      BY <2>2 DEF RecordShown, OutputStep
    <3>7. PICK outs \in Seq(Event) : outs = Outputs(s)
      BY <2>1
    <3>8. Len(outs) \in Nat /\ Len(outs) = n - 1
      BY <2>1, <3>1, <3>6, <3>7
    <3>9. Len(Append(outs, e)) = n
      BY <3>8
    <3>10. Numbered(Append(outs, e))
      <4> SUFFICES ASSUME NEW i \in 1 .. Len(Append(outs, e)) PROVE Append(outs, e)[i].data = i
        BY DEF Numbered
      <4>1. CASE i = n
        <5>1. Append(outs, e)[i] = e
          BY <3>8, <4>1
        <5> QED BY <3>4, <4>1, <5>1
      <4>2. CASE i # n
        <5>1. i \in 1 .. Len(outs) /\ Append(outs, e)[i] = outs[i]
          BY <3>8, <3>9, <4>2
        <5> QED BY <2>1, <3>7, <5>1 DEF Numbered
      <4> QED BY <4>1, <4>2
    <3> QED BY <3>1, <3>5, <3>6, <3>7, <3>9, <3>10
  <2>3. CASE RecordKey \/ \E size \in NewSizes : Winch(size)
    <3>1. \E e \in Event : events' = Append(events, e) /\ e.type # "o"
      <4>1. CASE RecordKey
        <5>1. PICK n \in Nat : n = keys
          BY <1>2
        <5>2. n \in Data
          BY DEF Data
        <5>3. Add("i", n)
          BY <4>1, <5>1 DEF RecordKey
        <5>4. PICK e \in Event : events' = Append(events, e) /\ e.type = "i" /\ e.data = n
          BY <1>1, <5>2, <5>3, AddAdds
        <5> QED BY <5>4
      <4>2. ASSUME NEW size \in NewSizes, Winch(size)
            PROVE  \E e \in Event : events' = Append(events, e) /\ e.type # "o"
        <5>1. size \in Data
          BY DEF Data
        <5>2. Add("r", size)
          BY <4>2 DEF Winch
        <5>3. PICK e \in Event : events' = Append(events, e) /\ e.type = "r" /\ e.data = size
          BY <1>1, <5>1, <5>2, AddAdds
        <5> QED BY <5>3
      <4> QED BY <2>3, <4>1, <4>2
    <3>2. PICK e \in Event : events' = Append(events, e) /\ e.type # "o"
      BY <3>1
    <3>3. Outputs(t) = Outputs(s) /\ t \in Seq(Event)
      BY <1>4, <2>1, <3>2, OutputsAppend, OneMore
    <3>4. output' = output
      BY <2>3 DEF RecordKey, Winch, outputVars, recordVars
    <3> QED BY <1>1, <1>4, <2>1, <3>3, <3>4
  <2> QED BY <2>2, <2>3
<1>6. /\ output' \in {"read", "record", "show", "stopped"}
      /\ keyboard' \in {"read", "record", "write", "stopped"}
      /\ output' # output => output = "record" /\ output' = "show"
  BY <1>1 DEF RecordShown, RecordKey, Winch, OutputStep, KeyStep, recordVars, outputVars, keyVars,
              RecordPart, RecordTypeOK
<1>7. RecordTypeOK'
  BY <1>1, <1>3, <1>6 DEF mainVars, RecordPart, RecordTypeOK
<1>8. OutputRecorded'
  BY <1>1, <1>3, <1>4, <1>5, <1>6 DEF mainVars, RecordPart, RecordBody, OutputRecorded
<1>9. Stopped'
  BY <1>1, <1>3, <1>6 DEF mainVars, RecordPart, RecordBody, Stopped
<1>10. RecordBody'
  BY <1>1, <1>3, <1>8, <1>9 DEF mainVars, RecordPart, RecordBody, Whole
<1> QED BY <1>1, <1>3, <1>4, <1>5, <1>7, <1>10 DEF mainVars, RecordPart

LEMMA ShowSteps ==
  ASSUME IInv, maker = "record", Show
  PROVE  RecordPart'
<1> USE DEF Show, OutputStep, Alive, mainVars, keyVars
<1>1. RecordPart /\ Len(screen) \in Nat
  BY RecordPartNow
<1>2. main # "exited" /\ Len(screen) = shown - 1 /\ shown \in 1 .. MaxOutput
  BY <1>1, RecordAssumption DEF RecordPart, RecordTypeOK, RecordBody, OutputRecorded
<1>3. /\ screen' = Append(screen, shown) /\ screen \in Seq(1 .. MaxOutput)
      /\ \A i \in 1 .. Len(screen) : screen[i] = i
  BY <1>1 DEF RecordPart, RecordTypeOK, RecordBody
<1>4. /\ screen' \in Seq(1 .. MaxOutput) /\ Len(screen') = shown
      /\ \A i \in 1 .. Len(screen') : screen'[i] = i
  BY <1>1, <1>2, <1>3
<1>5. RecordTypeOK'
  <2>1. atStop \in 0 .. Len(screen')
    BY <1>1, <1>2, <1>4 DEF RecordPart, RecordTypeOK
  <2> QED BY <1>1, <1>4, <2>1 DEF RecordPart, RecordTypeOK
<1>6. OutputRecorded'
  BY <1>1, <1>2, <1>4 DEF RecordPart, RecordBody, OutputRecorded
<1>7. Stopped'
  BY <1>1 DEF RecordPart, RecordBody, Stopped
<1>8. RecordBody'
  BY <1>1, <1>4, <1>6, <1>7 DEF RecordPart, RecordBody, Whole
<1> QED BY <1>1, <1>5, <1>8 DEF RecordPart

LEMMA SnapshotSteps ==
  ASSUME IInv, maker = "record", Snapshot
  PROVE  RecordPart'
<1> USE DEF Snapshot, MainStep, outputVars, keyVars
<1>1. RecordPart /\ Len(screen) \in Nat /\ Len(Outputs(events)) \in Nat
  BY RecordPartNow
<1>2. RecordTypeOK'
  BY <1>1 DEF RecordPart, RecordTypeOK
<1>3. OutputRecorded' /\ Stopped'
  BY <1>1 DEF RecordPart, RecordBody, OutputRecorded, Stopped
<1>4. Whole(Outputs(events))
  <2>1. Len(Outputs(events)) >= atStop
    BY <1>1 DEF RecordPart, RecordTypeOK, RecordBody, OutputRecorded
  <2> QED BY <1>1, <2>1 DEF RecordPart, RecordBody, OutputRecorded, Stopped, Whole
<1>5. Whole(Outputs(snapshot))'
  BY <1>4 DEF Whole
<1>6. RecordBody'
  BY <1>1, <1>3, <1>5 DEF RecordPart, RecordBody, OutputRecorded
<1> QED BY <1>1, <1>2, <1>6 DEF RecordPart

LEMMA WriteSteps ==
  ASSUME IInv, maker = "record", WriteFile
  PROVE  RecordPart'
<1> USE DEF WriteFile, MainStep
<1>1. RecordPart
  BY RecordPartNow
<1>2. PICK rows : rows = Marshal(snapshot)
  OBVIOUS
<1>3. PICK outs : outs = Outputs(snapshot)
  OBVIOUS
<1>4. /\ rows \in Seq(Event) /\ Len(rows) = Len(outs) /\ Len(outs) \in Nat
      /\ \A i \in 1 .. Len(outs) : rows[i].data = outs[i].data
  BY <1>1, <1>2, <1>3, MarshalRows DEF RecordPart
<1>5. Whole(outs)
  BY <1>1, <1>3 DEF RecordPart, RecordBody
<1>6. Whole(rows)
  BY <1>4, <1>5 DEF Whole, Numbered
<1>7. /\ file' # <<>> /\ file'[1].rows \in Seq(Event)
      /\ written' \in {"yes", "failed"} /\ (written' = "yes" => Whole(file'[1].rows))
  <2>1. CASE file' = <<CastOf(StartSize, snapshot)>> /\ written' = "yes"
    BY <1>2, <1>4, <1>6, <2>1 DEF CastOf
  <2>2. CASE \E n \in 0 .. Len(Marshal(snapshot)) :
               /\ file' = <<[size |-> StartSize, rows |-> SubSeq(Marshal(snapshot), 1, n)]>>
               /\ written' = "failed"
    <3>1. PICK n \in 0 .. Len(rows) :
                 /\ file' = <<[size |-> StartSize, rows |-> SubSeq(rows, 1, n)]>>
                 /\ written' = "failed"
      BY <1>2, <2>2
    <3>2. SubSeq(rows, 1, n) \in Seq(Event)
      BY <1>4
    <3> QED BY <3>1, <3>2
  <2> QED BY <2>1, <2>2
<1>8. written' = "yes" => Whole(file[1].rows)'
  BY <1>7 DEF Whole
<1>9. RecordTypeOK'
  BY <1>1, <1>7 DEF RecordPart, RecordTypeOK
<1>10. OutputRecorded' /\ Stopped'
  BY <1>1 DEF RecordPart, RecordBody, OutputRecorded, Stopped
<1>11. RecordBody'
  BY <1>1, <1>7, <1>8, <1>10 DEF RecordPart, RecordBody, Whole
<1> QED BY <1>1, <1>7, <1>9, <1>11 DEF RecordPart

LEMMA RecordKeeps == ASSUME IInv, Record PROVE IInv'
<1>1. /\ RecordNext /\ maker = "record"
      /\ UNCHANGED <<maker, sessionVars, logscastVars, playVars>>
  BY DEF Record
<1>2. RecordPart'
  <2>1. \/ Signalled \/ StdinEnds \/ ReadEnds
        \/ StartRecord \/ ShellPrints \/ ShellEnds \/ ReadOutput \/ ReadKey \/ WriteKey \/ Restore
        \/ RecordShown \/ RecordKey \/ (\E size \in NewSizes : Winch(size))
        \/ Show \/ Snapshot \/ WriteFile
    BY <1>1, Zenon DEF RecordNext, OutputLoop, Deliver, Main
  <2> QED BY <1>1, <2>1, CancelSteps, QuietSteps, EventSteps, ShowSteps, SnapshotSteps,
             WriteSteps, Zenon
<1>3. /\ UNCHANGED <<now, log>>
      /\ file' # file => main = "snapped"
  <2>1. CASE \/ Signalled \/ StartRecord \/ ShellPrints \/ ShellEnds
    BY <2>1 DEF Signalled, StartRecord, ShellPrints, ShellEnds
  <2>2. CASE OutputLoop
    BY <2>2 DEF OutputLoop, ReadOutput, Deliver, RecordShown, Show, ReadEnds
  <2>3. CASE ReadKey \/ RecordKey \/ WriteKey \/ StdinEnds
    BY <2>3 DEF ReadKey, RecordKey, WriteKey, StdinEnds
  <2>4. CASE Main
    BY <2>4 DEF Main, Restore, Snapshot, WriteFile, MainStep
  <2>5. CASE \E size \in NewSizes : Winch(size)
    BY <2>5 DEF Winch
  <2> QED BY <1>1, <2>1, <2>2, <2>3, <2>4, <2>5 DEF RecordNext
<1>4. /\ SessionTypeOK' /\ LogscastTypeOK' /\ PlayTypeOK'
      /\ now' \in 0 .. MaxTime /\ log' \in Logs /\ tape' \in Seq(Event)
  <2>1. SessionTypeOK'
    BY <1>1, <1>3 DEF sessionVars, IInv, Typed, TypeOK, SessionTypeOK
  <2>2. LogscastTypeOK'
    BY <1>1, <1>3 DEF logscastVars, IInv, Typed, TypeOK, LogscastTypeOK
  <2>3. PlayTypeOK'
    BY <1>1 DEF playVars, IInv, Typed, TypeOK, PlayTypeOK
  <2> QED BY <1>1, <1>3, <2>1, <2>2, <2>3 DEF playVars, IInv, Typed, TypeOK
<1>5. Typed' /\ RecordInv'
  BY <1>2, <1>4 DEF RecordPart, RecordInv, Typed, TypeOK
<1>6. mode = "none"
  BY <1>1 DEF IInv, OneMaker
<1>7. OneMaker' /\ LogscastInv'
  BY <1>1 DEF sessionVars, logscastVars, IInv, OneMaker, LogscastInv
<1>8. SessionInv'
  BY <1>1, <1>6 DEF sessionVars, IInv, SessionInv, CastsGrow, InputFirst, LogLines
<1>9. PlayInv'
  <2>1. CASE file' = file
    BY <1>1, <2>1 DEF playVars, IInv, PlayInv
  <2>2. CASE main = "snapped"
    BY <1>1, <2>2 DEF playVars, IInv, PlayInv, RecordInv, RecordBody, OutputRecorded
  <2> QED BY <1>3, <2>1, <2>2
<1> QED BY <1>5, <1>7, <1>8, <1>9 DEF IInv

-----------------------------------------------------------------------------
(* `logscast' and `play' *)

LogscastPart ==
  /\ LogscastTypeOK /\ LogscastBody
  /\ events \in Seq(Event)
  /\ file # <<>> => file[1].rows \in Seq(Event)

LEMMA ScanSteps ==
  ASSUME IInv, maker = "logscast", ScanLine
  PROVE  LogscastPart'
<1> USE DEF ScanLine
<1>1. /\ LogscastTypeOK /\ LogscastBody /\ TypeOK /\ events \in Seq(Event)
      /\ Len(log) \in Nat /\ lines \in Nat
  <2>1. Len(log) \in Nat
    BY LogOfLines DEF IInv, Typed, TypeOK
  <2> QED BY <2>1 DEF IInv, LogscastInv, Typed, TypeOK, LogscastTypeOK
<1>2. PICK k \in Nat : k = lines + 1
  BY <1>1
<1>3. k \in 1 .. Len(log) /\ k \in Data
  BY <1>1, <1>2 DEF Data
<1>4. PICK ep \in 0 .. MaxStamp : ep = logEpoch
  BY <1>1 DEF LogscastTypeOK
<1>5. PICK e \in Event : events' = Append(events, e) /\ e.type = "o" /\ e.data = k
  <2>1. AddLine(k, ep, log[k])
    BY <1>2, <1>4
  <2>2. \E e \in Event :
          /\ events' = Append(events, e) /\ e.type = "o" /\ e.data = k
          /\ log[k].stamp # NoStamp =>
               EpochAfter(ep, log[k]) # NoStamp /\ e.at = log[k].stamp - EpochAfter(ep, log[k])
    BY <1>1, <1>3, <2>1, LineAdds
  <2> QED BY <2>2, Zenon
<1>6. PICK s, t : s = events /\ t = events'
  OBVIOUS
<1>7. t = Append(s, e) /\ s \in Seq(Event) /\ t \in Seq(Event)
  BY <1>1, <1>5, <1>6, OneMore
<1>8. PICK outs \in Seq(Event) : outs = Outputs(s)
  BY <1>7, OutputsOfSeq, Zenon
<1>9. Outputs(t) = Append(outs, e)
  BY <1>5, <1>7, <1>8, OutputsAppend
<1>10. Len(outs) \in Nat /\ Len(outs) = k - 1 /\ Numbered(outs)
  BY <1>1, <1>2, <1>6, <1>8 DEF LogscastBody
<1>11. Len(Append(outs, e)) = k
  BY <1>10
<1>12. Numbered(Append(outs, e))
  <2> SUFFICES ASSUME NEW i \in 1 .. Len(Append(outs, e)) PROVE Append(outs, e)[i].data = i
    BY DEF Numbered
  <2>1. CASE i = k
    <3>1. Append(outs, e)[i] = e
      BY <1>10, <2>1
    <3> QED BY <1>5, <2>1, <3>1
  <2>2. CASE i # k
    <3>1. i \in 1 .. Len(outs) /\ Append(outs, e)[i] = outs[i]
      BY <1>10, <1>11, <2>2
    <3> QED BY <1>10, <3>1 DEF Numbered
  <2> QED BY <2>1, <2>2
<1>13. LogscastTypeOK'
  <2>1. log[k].stamp \in 0 .. MaxStamp
    BY <1>1, <1>3, LogOfLines DEF TypeOK
  <2>2. EpochAfter(ep, log[k]) \in 0 .. MaxStamp
    BY <2>1 DEF EpochAfter
  <2>3. logEpoch' \in 0 .. MaxStamp /\ lines' \in 0 .. Len(log')
    BY <1>1, <1>2, <1>3, <1>4, <2>2
  <2> QED BY <1>1, <2>3 DEF LogscastTypeOK
<1>14. LogscastBody'
  <2>1. lines' = k /\ scan' = "scanning" /\ outcome' # "saved"
    BY <1>1, <1>2 DEF LogscastBody
  <2> QED BY <1>6, <1>9, <1>11, <1>12, <2>1 DEF LogscastBody
<1> QED BY <1>6, <1>7, <1>13, <1>14 DEF LogscastPart, IInv, Typed

LEMMA ScanQuietSteps ==
  ASSUME IInv, maker = "logscast",
         StartLogscast \/ Interrupt \/ ConnectionLost \/ ScanEnds \/ ScanFails
  PROVE  LogscastPart'
<1>1. LogscastTypeOK /\ LogscastBody
  BY DEF IInv, LogscastInv, Typed, TypeOK
<1>2. UNCHANGED <<now, events, log, file, follow, lines, logEpoch>>
  BY DEF StartLogscast, Interrupt, ConnectionLost, ScanEnds, ScanFails
<1>3. /\ scan' \in {"scanning", "ended", "exited"} /\ connection' \in {"up", "lost"}
      /\ outcome' \in {outcome, "error"} /\ scan # "exited"
      /\ scan' = "ended" => scan = "ended" \/ lines = Len(log)
  BY <1>1 DEF StartLogscast, Interrupt, ConnectionLost, ScanEnds, ScanFails, ScanStep,
              LogscastTypeOK
<1>4. interrupted' \in BOOLEAN
  <2>1. interrupted' = TRUE \/ interrupted' = interrupted
    BY DEF StartLogscast, Interrupt, ConnectionLost, ScanEnds, ScanFails
  <2> QED BY <1>1, <2>1, Zenon DEF LogscastTypeOK
<1>5. LogscastTypeOK'
  BY <1>1, <1>2, <1>3, <1>4 DEF LogscastTypeOK
<1>6. LogscastBody'
  BY <1>1, <1>2, <1>3 DEF LogscastBody
<1> QED BY <1>2, <1>5, <1>6 DEF LogscastPart, IInv, Typed

LEMMA SaveSteps ==
  ASSUME IInv, maker = "logscast", SaveLog
  PROVE  LogscastPart'
<1> USE DEF SaveLog, ScanStep
<1>1. LogscastTypeOK /\ LogscastBody /\ events \in Seq(Event)
  BY DEF IInv, LogscastInv, Typed, TypeOK
<1>2. PICK rows, outs : rows = Marshal(events) /\ outs = Outputs(events)
  OBVIOUS
<1>3. /\ rows \in Seq(Event) /\ Len(rows) = Len(outs) /\ Len(outs) \in Nat
      /\ \A i \in 1 .. Len(outs) : rows[i].data = outs[i].data
  BY <1>1, <1>2, MarshalRows
<1>4. Numbered(rows) /\ Len(rows) = Len(log)
  BY <1>1, <1>2, <1>3 DEF LogscastBody, Numbered
<1>5. /\ file' # <<>> /\ file'[1].rows \in Seq(Event)
      /\ outcome' \in {"saved", "unwritten"}
      /\ outcome' = "saved" => Numbered(file'[1].rows) /\ Len(file'[1].rows) = Len(log)
  <2>1. CASE file' = <<CastOf(LogSize, events)>> /\ outcome' = "saved"
    BY <1>2, <1>3, <1>4, <2>1 DEF CastOf
  <2>2. CASE \E n \in 0 .. Len(Marshal(events)) :
               /\ file' = <<[size |-> LogSize, rows |-> SubSeq(Marshal(events), 1, n)]>>
               /\ outcome' = "unwritten"
    <3>1. PICK n \in 0 .. Len(rows) :
                 /\ file' = <<[size |-> LogSize, rows |-> SubSeq(rows, 1, n)]>>
                 /\ outcome' = "unwritten"
      BY <1>2, <2>2
    <3>2. SubSeq(rows, 1, n) \in Seq(Event)
      BY <1>3
    <3> QED BY <3>1, <3>2
  <2> QED BY <2>1, <2>2
<1>6. LogscastTypeOK'
  BY <1>1, <1>5 DEF LogscastTypeOK
<1>7. LogscastBody'
  BY <1>5 DEF LogscastBody
<1> QED BY <1>5, <1>6, <1>7 DEF LogscastPart

LEMMA LogscastKeeps == ASSUME IInv, Logscast PROVE IInv'
<1>1. /\ LogscastNext /\ maker = "logscast"
      /\ UNCHANGED <<maker, sessionVars, recordVars, playVars>>
  BY DEF Logscast
<1>2. LogscastPart'
  BY <1>1, ScanSteps, ScanQuietSteps, SaveSteps DEF LogscastNext
<1>3. UNCHANGED <<now, log>>
  BY <1>1 DEF LogscastNext, StartLogscast, Interrupt, ConnectionLost, ScanLine, ScanEnds, ScanFails,
              SaveLog
<1>4. /\ SessionTypeOK' /\ RecordTypeOK' /\ PlayTypeOK'
      /\ now' \in 0 .. MaxTime /\ log' \in Logs /\ snapshot' \in Seq(Event) /\ tape' \in Seq(Event)
  <2>1. SessionTypeOK'
    BY <1>1, <1>3 DEF sessionVars, IInv, Typed, TypeOK, SessionTypeOK
  <2>2. RecordTypeOK'
    BY <1>1 DEF recordVars, mainVars, outputVars, keyVars, IInv, Typed, TypeOK, RecordTypeOK
  <2>3. PlayTypeOK'
    BY <1>1 DEF playVars, IInv, Typed, TypeOK, PlayTypeOK
  <2> QED BY <1>1, <1>3, <2>1, <2>2, <2>3 DEF recordVars, mainVars, playVars, IInv, Typed, TypeOK
<1>5. Typed' /\ LogscastInv'
  BY <1>2, <1>4 DEF LogscastPart, LogscastInv, Typed, TypeOK
<1>6. mode = "none"
  BY <1>1 DEF IInv, OneMaker
<1>7. OneMaker' /\ RecordInv' /\ PlayInv'
  BY <1>1 DEF sessionVars, recordVars, mainVars, playVars, IInv, OneMaker, RecordInv, PlayInv
<1>8. SessionInv'
  BY <1>1, <1>6 DEF sessionVars, IInv, SessionInv, CastsGrow, InputFirst, LogLines
<1> QED BY <1>5, <1>7, <1>8 DEF IInv

PlayPart == PlayTypeOK /\ PlayInv /\ tape \in Seq(Event)

LEMMA PlaySteps ==
  ASSUME IInv, PlayNext, UNCHANGED maker
  PROVE  PlayPart' /\ UNCHANGED <<now, events, log, file>>
<1>1. PlayPart /\ Len(tape) \in Nat
  BY DEF IInv, Typed, TypeOK, PlayPart
<1>2. UNCHANGED <<now, events, log, file>>
  BY DEF PlayNext, Play, LoadFile, LoadFails, StopPlay, ShowFails, StartDelay, ShowRow,
         DelayStopped, PassEnds
<1>3. loop' \in BOOLEAN /\ done' \in BOOLEAN
  <2>1. loop' = loop \/ loop' \in BOOLEAN
    BY DEF PlayNext, Play, LoadFile, LoadFails, StopPlay, ShowFails, StartDelay, ShowRow,
           DelayStopped, PassEnds
  <2>2. done' = done \/ done' = TRUE
    BY DEF PlayNext, Play, LoadFile, LoadFails, StopPlay, ShowFails, StartDelay, ShowRow,
           DelayStopped, PassEnds
  <2> QED BY <1>1, <2>1, <2>2, Zenon DEF PlayPart, PlayTypeOK
<1>4. CASE LoadFile
  <2> USE <1>4 DEF LoadFile, PlayStep
  <2>1. tape' = file[1].rows /\ tape' \in Seq(Event) /\ Len(tape') \in Nat /\ position = 0
    BY <1>1 DEF LoadCast, IInv, Typed, PlayPart, PlayInv
  <2>2. PlayTypeOK'
    BY <1>1, <1>3, <2>1 DEF PlayPart, PlayTypeOK
  <2>3. PlayInv'
    BY <1>1, <2>1 DEF PlayPart, PlayInv
  <2> QED BY <1>2, <2>1, <2>2, <2>3 DEF PlayPart
<1>5. CASE LoadFails \/ StopPlay \/ ShowFails \/ DelayStopped
  <2> USE <1>5 DEF LoadFails, StopPlay, ShowFails, DelayStopped, PlayStep
  <2>1. PlayTypeOK'
    BY <1>1, <1>3 DEF PlayPart, PlayTypeOK
  <2>2. PlayInv'
    BY <1>1 DEF PlayPart, PlayInv
  <2> QED BY <1>1, <1>2, <2>1, <2>2 DEF PlayPart
<1>6. CASE StartDelay
  <2> USE <1>6 DEF StartDelay, PlayStep
  <2>1. position + 1 \in 1 .. Len(tape)
    BY <1>1 DEF PlayPart, PlayTypeOK
  <2>2. NextDelay \in Int
    BY <1>1, <2>1, GapsAreNumbers DEF PlayPart, NextDelay
  <2>3. delay' \in Nat
    BY <2>2
  <2>4. PlayTypeOK'
    BY <1>1, <1>3, <2>3 DEF PlayPart, PlayTypeOK
  <2>5. PlayInv'
    BY <1>1 DEF PlayPart, PlayInv
  <2> QED BY <1>1, <1>2, <2>4, <2>5 DEF PlayPart
<1>7. CASE ShowRow
  <2> USE <1>7 DEF ShowRow, PlayStep
  <2>1. position + 1 \in 0 .. Len(tape)
    BY <1>1 DEF PlayPart, PlayTypeOK, PlayInv
  <2>2. PlayTypeOK'
    BY <1>1, <1>3, <2>1 DEF PlayPart, PlayTypeOK
  <2>3. PlayInv'
    BY <1>1 DEF PlayPart, PlayInv
  <2> QED BY <1>1, <1>2, <2>2, <2>3 DEF PlayPart
<1>8. CASE PassEnds
  <2> USE <1>8 DEF PassEnds, PlayStep
  <2>1. position' \in 0 .. Len(tape') /\ player' \in {"row", "exited"}
    BY <1>1 DEF PlayPart, PlayTypeOK
  <2>2. PlayTypeOK'
    BY <1>1, <1>3, <2>1 DEF PlayPart, PlayTypeOK
  <2>3. PlayInv'
    BY <1>1 DEF PlayPart, PlayInv
  <2> QED BY <1>1, <1>2, <2>2, <2>3 DEF PlayPart
<1> QED BY <1>4, <1>5, <1>6, <1>7, <1>8 DEF PlayNext, Play

LEMMA PlayerKeeps == ASSUME IInv, Player PROVE IInv'
<1>1. PlayNext /\ UNCHANGED <<maker, sessionVars, recordVars, logscastVars>>
  BY DEF Player
<1>2. PlayPart' /\ UNCHANGED <<now, events, log, file>>
  BY <1>1, PlaySteps
<1> USE <1>1, <1>2 DEF sessionVars, recordVars, mainVars, outputVars, keyVars, logscastVars
<1>3. SessionTypeOK' /\ RecordTypeOK' /\ LogscastTypeOK'
  <2>1. SessionTypeOK'
    BY DEF IInv, Typed, TypeOK, SessionTypeOK
  <2>2. RecordTypeOK'
    BY DEF IInv, Typed, TypeOK, RecordTypeOK
  <2>3. LogscastTypeOK'
    BY DEF IInv, Typed, TypeOK, LogscastTypeOK
  <2> QED BY <2>1, <2>2, <2>3
<1>4. Typed' /\ OneMaker'
  BY <1>3 DEF IInv, Typed, TypeOK, OneMaker, PlayPart
<1>5. SessionInv'
  BY DEF IInv, SessionInv, CastsGrow, InputFirst, LogLines, NoEcho
<1>6. RecordInv'
  BY DEF IInv, RecordInv, RecordBody, OutputRecorded, Stopped, Whole
<1>7. LogscastInv' /\ PlayInv'
  BY DEF IInv, LogscastInv, LogscastBody, PlayPart
<1> QED BY <1>4, <1>5, <1>6, <1>7 DEF IInv

LEMMA CastsStutter == ASSUME IInv, UNCHANGED vars PROVE IInv'
<1> USE DEF vars, sessionVars, recordVars, mainVars, outputVars, keyVars, logscastVars, playVars
<1>1. SessionTypeOK' /\ RecordTypeOK' /\ LogscastTypeOK' /\ PlayTypeOK'
  <2>1. SessionTypeOK'
    BY DEF IInv, Typed, TypeOK, SessionTypeOK
  <2>2. RecordTypeOK'
    BY DEF IInv, Typed, TypeOK, RecordTypeOK
  <2>3. LogscastTypeOK'
    BY DEF IInv, Typed, TypeOK, LogscastTypeOK
  <2>4. PlayTypeOK'
    BY DEF IInv, Typed, TypeOK, PlayTypeOK
  <2> QED BY <2>1, <2>2, <2>3, <2>4
<1>2. Typed' /\ OneMaker'
  BY <1>1 DEF IInv, Typed, TypeOK, OneMaker
<1>3. SessionInv'
  BY DEF IInv, SessionInv, CastsGrow, InputFirst, LogLines, NoEcho
<1>4. RecordInv'
  BY DEF IInv, RecordInv, RecordBody, OutputRecorded, Stopped, Whole
<1>5. LogscastInv' /\ PlayInv'
  BY DEF IInv, LogscastInv, LogscastBody, PlayInv
<1> QED BY <1>2, <1>3, <1>4, <1>5 DEF IInv

LEMMA CastsAlways == Spec => []IInv
<1>1. ASSUME IInv, [Next]_vars PROVE IInv'
  BY <1>1, SessionKeeps, ServerGoneKeeps, RecordKeeps, LogscastKeeps, PlayerKeeps, ClockKeeps,
     CastsStutter, Zenon DEF Next
<1> QED BY CastsStart, <1>1, PTL DEF Spec

-----------------------------------------------------------------------------
(* Theorems *)

\* The variables keep their types, whoever makes the file and whoever plays it.
THEOREM CastsTypeCorrect == Spec => []TypeOK
<1>1. IInv => TypeOK
  BY DEF IInv, Typed
<1> QED BY <1>1, CastsAlways, PTL

\* The answer to what was typed is recorded after it, with any number of browsers and a stream
\* reader for each (ws.go:112, ws.go:302: dispatchMessage records before it writes).
THEOREM EchoIsAfterInput == Spec => []EchoAfterInput
<1>1. IInv => EchoAfterInput
  BY DEF IInv, SessionInv, InputFirst, Echoes, EchoAfterInput
<1> QED BY <1>1, CastsAlways, PTL

\* A cast downloaded earlier is the beginning of every later one, times included (cast.go:55,
\* server.go:550).
THEOREM DownloadsGrow == Spec => []CastsGrow
<1>1. IInv => CastsGrow
  BY DEF IInv, SessionInv
<1> QED BY <1>1, CastsAlways, PTL

\* Two stamped lines that one connection has read are as far apart in the recording as their
\* stamps are, although the epoch is only set by the first stamped line (ws.go).
THEOREM StampsKeepTheirDistance == Spec => []LogGapsKept
<1>1. ASSUME IInv PROVE LogGapsKept
  <2> SUFFICES ASSUME mode = "logs", NEW p \in Earlier(events),
                      events[p[1]].type = "o", events[p[2]].type = "o",
                      events[p[1]].data[1] = events[p[2]].data[1],
                      log[events[p[1]].data[2]].stamp # NoStamp,
                      log[events[p[2]].data[2]].stamp # NoStamp
               PROVE  events[p[2]].at - events[p[1]].at =
                        log[events[p[2]].data[2]].stamp - log[events[p[1]].data[2]].stamp
    BY Zenon DEF LogGapsKept
  <2>1. PICK a, b : a = events[p[1]] /\ b = events[p[2]]
    OBVIOUS
  <2>2. p[1] \in 1 .. Len(events) /\ p[2] \in 1 .. Len(events)
    BY DEF Earlier
  <2>3. LineEvent(a, log, line, epoch) /\ LineEvent(b, log, line, epoch)
    BY <1>1, <2>1, <2>2 DEF IInv, SessionInv, LogLines, LineEvents
  <2>4. ASSUME NEW e, LineEvent(e, log, line, epoch), log[e.data[2]].stamp # NoStamp
        PROVE  /\ e.at = log[e.data[2]].stamp - epoch[e.data[1]]
               /\ epoch[e.data[1]] \in Int /\ log[e.data[2]].stamp \in Int
    <3>1. PICK c \in Conns : \E k \in 1 .. line[c] :
            /\ e.data = <<c, k>>
            /\ log[k].stamp # NoStamp => epoch[c] # NoStamp /\ e.at = log[k].stamp - epoch[c]
      BY <2>4, Zenon DEF LineEvent
    <3>2. PICK k \in 1 .. line[c] :
            /\ e.data = <<c, k>>
            /\ log[k].stamp # NoStamp => epoch[c] # NoStamp /\ e.at = log[k].stamp - epoch[c]
      BY <3>1, Zenon
    <3>3. e.data[1] = c /\ e.data[2] = k
      BY <3>2
    <3>4. k \in 1 .. Len(log) /\ epoch[c] \in 0 .. MaxStamp
      <4>1. Len(log) \in Nat
        BY <1>1, LogOfLines DEF IInv, Typed, TypeOK
      <4> QED BY <1>1, <4>1 DEF IInv, Typed, TypeOK, SessionTypeOK
    <3>5. log[k].stamp \in 0 .. MaxStamp
      BY <1>1, <3>4, LogOfLines DEF IInv, Typed, TypeOK
    <3> QED BY <2>4, <3>2, <3>3, <3>4, <3>5
  <2>5. /\ a.at = log[a.data[2]].stamp - epoch[a.data[1]]
        /\ epoch[a.data[1]] \in Int /\ log[a.data[2]].stamp \in Int
    BY <2>1, <2>3, <2>4
  <2>6. /\ b.at = log[b.data[2]].stamp - epoch[b.data[1]]
        /\ epoch[b.data[1]] \in Int /\ log[b.data[2]].stamp \in Int
    BY <2>1, <2>3, <2>4
  <2>7. a.data[1] = b.data[1]
    BY <2>1
  <2>8. PICK x, y, z : /\ x = log[a.data[2]].stamp /\ y = log[b.data[2]].stamp
                       /\ z = epoch[a.data[1]]
    OBVIOUS
  <2>9. x \in Int /\ y \in Int /\ z \in Int /\ a.at = x - z /\ b.at = y - z
    BY <2>5, <2>6, <2>7, <2>8
  <2>10. b.at - a.at = y - x
    BY <2>9
  <2> QED BY <2>1, <2>8, <2>10, Zenon
<1> QED BY <1>1, CastsAlways, PTL

\* What was on the screen when `record' was stopped is in its file, in order (record.go:132).
THEOREM ScreenIsSaved == Spec => []SeenIsSaved
<1>1. IInv => SeenIsSaved
  BY DEF IInv, OneMaker, RecordInv, RecordBody, Whole, Numbered, SeenIsSaved
<1> QED BY <1>1, CastsAlways, PTL

\* `logscast' says that it has saved the log only when it has all of it (logscast.go: sc.Err()).
THEOREM LogIsSavedWhole == Spec => []WholeLogOrNothing
<1>1. IInv => WholeLogOrNothing
  BY DEF IInv, OneMaker, LogscastInv, LogscastBody, Numbered, WholeLogOrNothing
<1> QED BY <1>1, CastsAlways, PTL

\* A cast has all the output in its order, each gap clamped on its own (cast.go:55).
THEOREM GapsAreKept == Spec => []CastKeepsGaps
<1>1. ASSUME IInv PROVE CastKeepsGaps
  <2>1. PICK s \in Seq(Event) : s = events
    BY <1>1 DEF IInv, Typed
  <2>2. PICK outs, rows : outs = Outputs(s) /\ rows = Marshal(s)
    OBVIOUS
  <2>3. outs \in Seq(Event) /\ Len(rows) = Len(outs)
    BY <2>2, OutputsOfSeq, MarshalRows
  <2>4. \A i \in 1 .. Len(outs) : rows[i].data = outs[i].data
    BY <2>2, MarshalRows
  <2>5. \A i \in 1 .. Len(outs) : Gap(rows, i) = Clamp(Gap(outs, i))
    BY <2>2, MarshalGaps
  <2>6. \A i \in 1 .. Len(outs) :
          IF IdleLimit > 0 /\ Gap(outs, i) > IdleLimit
          THEN Gap(rows, i) = IdleLimit ELSE Gap(rows, i) = Gap(outs, i)
    BY <2>5, Zenon DEF Clamp
  <2> QED BY <2>1, <2>2, <2>3, <2>4, <2>6, Zenon DEF CastKeepsGaps
<1> QED BY <1>1, CastsAlways, PTL

\* What `record' saves of a shell that ran to its end, and `play' shows to the end, is all that
\* the shell printed and all that was on the screen, in order.
THEOREM ReplayShowsTheScreen == Spec => []ReplayIsTheScreen
<1>1. ASSUME IInv PROVE ReplayIsTheScreen
  <2> SUFFICES ASSUME maker = "record", canceller = "stream", shell = "ended", written = "yes",
                      played = "all"
               PROVE  /\ Len(tape) = printed /\ Len(screen) = printed
                      /\ \A i \in 1 .. printed : tape[i].data = i /\ screen[i] = i
    BY DEF ReplayIsTheScreen
  <2>1. tape = file[1].rows /\ RecordBody
    BY <1>1 DEF IInv, PlayInv, RecordInv
  <2> QED BY <2>1 DEF RecordBody, Stopped, Whole, Numbered
<1> QED BY <1>1, CastsAlways, PTL
=============================================================================
