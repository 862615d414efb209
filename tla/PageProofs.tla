----------------------------- MODULE PageProofs -----------------------------
(***************************************************************************)
(* What TLAPS proves of the two kinds of pages a window holds: that of a    *)
(* room, module Feed, and those of verifying the device, Verification.  The *)
(* two have no state in common; each theorem is about one specification.    *)
(*                                                                         *)
(* Feed, for any number of messages, copies, placeholders and writes and   *)
(* any capacity of listenerCh. A page shows a tree if it has each message  *)
(* of the tree once, in order and in its version; one page only does. The  *)
(* inductive invariant says that the page, after the events on their way   *)
(* to it, shows a tree that differs from the real one at most in a         *)
(* redaction or in previews whose event has yet to be sent (Carried), and  *)
(* that of the previews not yet sent of a message some are those the tree  *)
(* holds (Pending). Each event is then shown to take a page of one tree    *)
(* to a page of the next: an insertion between the neighbours, a bubble    *)
(* drawn again, one taken over, one taken away. What After and Bubbles     *)
(* compute is reasoned about by induction on the number of events and of   *)
(* messages, as a statement about sets of numbers.                         *)
(*                                                                         *)
(* Verification, for any number of transactions. The inductive invariant   *)
(* adds that the emojis and the code in the state are those of a           *)
(* transaction that has not been cancelled, unless the state says that     *)
(* one was (FlagsAreLive), and that what a page is about to be rendered    *)
(* with was live when its handler looked (LookedIsLive).                   *)
(***************************************************************************)
EXTENDS Feed, Verification, SequenceTheorems, WellFoundedInduction, TLAPS

(* Induction, and functions that a recursion defines.                       *)

\* A set of numbers that is not empty has a least element.
LEMMA Least ==
    ASSUME NEW S \in SUBSET Nat, S # {}
    PROVE  \E n \in S : \A k \in S : n <= k
<1> DEFINE R == OpToRel(<, Nat)
<1>1. R = {kn \in Nat \X Nat : kn[1] < kn[2]}
  BY DEF OpToRel
<1>2. IsWellFoundedOn(R, Nat)
  BY NatLessThanWellFounded
<1> HIDE DEF R
<1>3. PICK n \in S : \A k \in S : ~(<<k, n>> \in R)
  BY <1>2, WFMin
<1>4. ASSUME NEW k \in S, k < n PROVE FALSE
  <2>1. <<k, n>> \in R
    BY <1>1, <1>4
  <2> QED BY <1>3, <2>1
<1> QED BY <1>4

\* Induction, about the set of the numbers that have the property.
LEMMA Induction ==
    ASSUME NEW S \in SUBSET Nat, 0 \in S, \A n \in S : n + 1 \in S
    PROVE  S = Nat
<1> SUFFICES ASSUME Nat \ S # {} PROVE FALSE
  OBVIOUS
<1>1. PICK n \in Nat \ S : \A k \in Nat \ S : n <= k
  BY Least
<1>2. n # 0 /\ n - 1 \in Nat
  BY <1>1
<1>3. n - 1 \in S
  BY <1>1, <1>2
<1> QED BY <1>1, <1>2, <1>3

\* At most one function satisfies a recursion.
InStep(f, g, n) == f[0] = g[0] /\ \A k \in 1..n : f[k - 1] = g[k - 1] => f[k] = g[k]

\* Two functions that take the same steps from the same start end alike.
LEMMA SameAtEnd ==
    ASSUME NEW n \in Nat, NEW f, NEW g, InStep(f, g, n)
    PROVE  f[n] = g[n]
<1> USE DEF InStep
<1> DEFINE S == {k \in Nat : k <= n => f[k] = g[k]}
<1>1. 0 \in S
  OBVIOUS
<1>2. ASSUME NEW k \in S PROVE k + 1 \in S
  <2>1. CASE k + 1 <= n
    <3>1. k + 1 \in 1..n /\ (k + 1) - 1 = k /\ k \in Nat
      BY <2>1
    <3>2. f[k] = g[k]
      BY <2>1
    <3> QED BY <3>1, <3>2
  <2> QED BY <2>1
<1>3. S = Nat
  <2> HIDE DEF S
  <2>1. S \in SUBSET Nat
    BY DEF S
  <2> QED BY <1>1, <1>2, <2>1, Induction
<1> QED BY <1>3

\* A page as one event after another is drawn.
Run(b, q, n) == CHOOSE f : f = [k \in 0..n |-> IF k = 0 THEN b ELSE Callback(f[k - 1], q[k])]

\* The recursion of After has a solution, however many events there are,
LEMMA RunExists ==
    ASSUME NEW b, NEW q, NEW n \in Nat
    PROVE  \E f : f = [k \in 0..n |-> IF k = 0 THEN b ELSE Callback(f[k - 1], q[k])]
<1> DEFINE Runs(m, f) == f = [k \in 0..m |-> IF k = 0 THEN b ELSE Callback(f[k - 1], q[k])]
           S == {m \in Nat : \E f : Runs(m, f)}
<1>1. 0 \in S
  <2>1. Runs(0, [k \in 0..0 |-> b])
    OBVIOUS
  <2> QED BY <2>1
<1>2. ASSUME NEW m \in S PROVE m + 1 \in S
  <2>1. PICK f : Runs(m, f)
    OBVIOUS
  <2> DEFINE g == [k \in 0..(m + 1) |-> IF k = m + 1 THEN Callback(f[m], q[m + 1]) ELSE f[k]]
  <2>2. ASSUME NEW k \in 0..(m + 1)
        PROVE  g[k] = IF k = 0 THEN b ELSE Callback(g[k - 1], q[k])
    <3>1. CASE k = m + 1
      BY <3>1
    <3>2. CASE k # m + 1
      <4>1. k \in 0..m /\ g[k] = f[k] /\ (k # 0 => k - 1 \in 0..m /\ g[k - 1] = f[k - 1])
        BY <3>2
      <4>2. f[k] = IF k = 0 THEN b ELSE Callback(f[k - 1], q[k])
        BY <2>1, <4>1
      <4> QED BY <4>1, <4>2
    <3> QED BY <3>1, <3>2
  <2>3. g = [k \in 0..(m + 1) |-> IF k = 0 THEN b ELSE Callback(g[k - 1], q[k])]
    <3>1. g = [k \in 0..(m + 1) |-> g[k]]
      OBVIOUS
    <3> HIDE DEF g
    <3> QED BY <2>2, <3>1
  <2> HIDE DEF g
  <2> QED BY <2>3
<1>3. S = Nat
  <2> HIDE DEF S
  <2>1. S \in SUBSET Nat
    BY DEF S
  <2> QED BY <1>1, <1>2, <2>1, Induction
<1> QED BY <1>3

\* and Run is one.
LEMMA RunIs ==
    ASSUME NEW b, NEW q, NEW n \in Nat
    PROVE  /\ Run(b, q, n)[0] = b
           /\ \A k \in 1..n : Run(b, q, n)[k] = Callback(Run(b, q, n)[k - 1], q[k])
<1>1. Run(b, q, n) = [k \in 0..n |-> IF k = 0 THEN b ELSE Callback(Run(b, q, n)[k - 1], q[k])]
  BY RunExists DEF Run
<1> QED BY <1>1

\* After is where the run ends.
LEMMA AfterIsRun == ASSUME NEW b, NEW q PROVE After(b, q) = Run(b, q, Len(q))[Len(q)]
  BY DEF After, Run

\* With no event the page stays as it is;
LEMMA AfterNothing == ASSUME NEW b PROVE After(b, <<>>) = b
<1>1. Len(<<>>) = 0
  OBVIOUS
<1>2. Run(b, <<>>, 0)[0] = b
  BY RunIs
<1> QED BY <1>1, <1>2, AfterIsRun

\* with one more at the end the callback draws it last;
LEMMA AfterAppend ==
    ASSUME NEW S, NEW b, NEW q \in Seq(S), NEW e \in S
    PROVE  After(b, Append(q, e)) = Callback(After(b, q), e)
<1> DEFINE n == Len(q)
           p == Append(q, e)
           f == Run(b, p, n + 1)
           g == Run(b, q, n)
<1>1. /\ n \in Nat /\ n + 1 \in Nat /\ Len(p) = n + 1 /\ p[n + 1] = e
      /\ \A k \in 1..n : p[k] = q[k]
  OBVIOUS
<1> HIDE DEF n, p
<1>2. f[0] = b /\ \A k \in 1..(n + 1) : f[k] = Callback(f[k - 1], p[k])
  <2> DEFINE l == n + 1
  <2>1. l \in Nat
    BY <1>1
  <2> HIDE DEF l
  <2>2. /\ Run(b, p, l)[0] = b
        /\ \A k \in 1..l : Run(b, p, l)[k] = Callback(Run(b, p, l)[k - 1], p[k])
    BY <2>1, RunIs
  <2> QED BY <2>2 DEF l
<1>3. g[0] = b /\ \A k \in 1..n : g[k] = Callback(g[k - 1], q[k])
  BY <1>1, RunIs
<1> HIDE DEF f, g
<1>4. \A k \in 1..n : f[k - 1] = g[k - 1] => f[k] = g[k]
  <2>1. \A k \in 1..n : k \in 1..(n + 1)
    BY <1>1
  <2> QED BY <2>1, <1>1, <1>2, <1>3
<1>5. f[n] = g[n]
  <2>1. InStep(f, g, n)
    BY <1>2, <1>3, <1>4 DEF InStep
  <2> QED BY <2>1, <1>1, SameAtEnd
<1>6. f[n + 1] = Callback(g[n], e)
  <2>1. n + 1 \in 1..(n + 1) /\ (n + 1) - 1 = n
    BY <1>1
  <2> QED BY <2>1, <1>1, <1>2, <1>5
<1>7. After(b, p) = f[n + 1] /\ After(b, q) = g[n]
  BY <1>1, AfterIsRun DEF f, g, n
<1> QED BY <1>6, <1>7 DEF p

\* and the first event may just as well be drawn before the others.
LEMMA AfterTail ==
    ASSUME NEW S, NEW b, NEW q \in Seq(S), q # <<>>
    PROVE  After(Callback(b, Head(q)), Tail(q)) = After(b, q)
<1> DEFINE n == Len(Tail(q))
           p == Tail(q)
           f == Run(b, q, n + 1)
           g == Run(Callback(b, Head(q)), p, n)
           h == [k \in 0..n |-> f[k + 1]]
<1>1. n \in Nat /\ n + 1 \in Nat /\ Len(q) = n + 1 /\ Len(p) = n /\ q[1] = Head(q)
      /\ \A k \in 1..n : p[k] = q[k + 1]
  OBVIOUS
<1> HIDE DEF n, p
<1>2. f[0] = b /\ \A k \in 1..(n + 1) : f[k] = Callback(f[k - 1], q[k])
  <2> DEFINE l == n + 1
  <2>1. l \in Nat
    BY <1>1
  <2> HIDE DEF l
  <2>2. /\ Run(b, q, l)[0] = b
        /\ \A k \in 1..l : Run(b, q, l)[k] = Callback(Run(b, q, l)[k - 1], q[k])
    BY <2>1, RunIs
  <2> QED BY <2>2 DEF l
<1>3. g[0] = Callback(b, Head(q)) /\ \A k \in 1..n : g[k] = Callback(g[k - 1], p[k])
  BY <1>1, RunIs
<1>7. After(b, q) = f[n + 1] /\ After(Callback(b, Head(q)), p) = g[n]
  BY <1>1, AfterIsRun
<1> HIDE DEF f, g
<1>4. \A k \in 0..n : h[k] = f[k + 1]
  OBVIOUS
<1> HIDE DEF h
<1>5. h[0] = g[0] /\ \A k \in 1..n : h[k - 1] = g[k - 1] => h[k] = g[k]
  <2>1. h[0] = g[0]
    <3>1. 1 \in 1..(n + 1) /\ 0 \in 0..n /\ 1 - 1 = 0 /\ 0 + 1 = 1
      BY <1>1
    <3>2. f[1] = Callback(f[0], q[1])
      BY <1>2, <3>1
    <3> QED BY <3>1, <3>2, <1>1, <1>2, <1>3, <1>4
  <2>2. ASSUME NEW k \in 1..n, h[k - 1] = g[k - 1] PROVE h[k] = g[k]
    <3>1. /\ k \in 0..n /\ k - 1 \in 0..n /\ k + 1 \in 1..(n + 1)
          /\ (k + 1) - 1 = k /\ (k - 1) + 1 = k
      BY <1>1
    <3>2. h[k] = f[k + 1] /\ h[k - 1] = f[k]
      BY <3>1, <1>4
    <3>3. f[k + 1] = Callback(f[k], q[k + 1])
      BY <3>1, <1>2
    <3> QED BY <2>2, <3>2, <3>3, <1>1, <1>3
  <2> QED BY <2>1, <2>2
<1>6. h[n] = g[n]
  <2>1. InStep(h, g, n)
    BY <1>5 DEF InStep
  <2> QED BY <2>1, <1>1, SameAtEnd
<1> QED BY <1>1, <1>4, <1>6, <1>7 DEF p
-----------------------------------------------------------------------------
(* Pages and the trees they show.                                           *)

\* What a message says is never nothing.
LEMMA NoneIsNoVersion == None \notin Versions
BY FeedAssumption DEF Versions, None

Bubble == [id : Ids, version : Versions]
Contents == Seq(Bubble)
Trees == [Ids -> Versions \cup {None}]

\* A page shows a tree: each of its messages once, in order, as it is there.
Shows(b, t) ==
    /\ b \in Contents
    /\ \A j, k \in 1..Len(b) : j < k => b[j].id < b[k].id
    /\ \A k \in 1..Len(b) : b[k].version = t[b[k].id]
    /\ \A m \in Present(t) : \E k \in 1..Len(b) : b[k].id = m

\* Two pages of one tree agree as far as the first one goes.
LEMMA ShownOnce ==
    ASSUME NEW t \in Trees, NEW b, NEW c, Shows(b, t), Shows(c, t), NEW n \in 1..Len(b)
    PROVE  n \in 1..Len(c) /\ c[n] = b[n]
<1> DEFINE S == {k \in Nat : k \in 1..Len(b) /\ ~(k \in 1..Len(c) /\ c[k] = b[k])}
<1> SUFFICES ASSUME S # {} PROVE FALSE
  OBVIOUS
<1>0. /\ Len(b) \in Nat /\ Len(c) \in Nat
      /\ \A k \in 1..Len(b) : b[k] \in Bubble
      /\ \A k \in 1..Len(c) : c[k] \in Bubble
  BY DEF Shows, Contents
<1>1. PICK k \in S : \A j \in S : k <= j
  <2>1. S \in SUBSET Nat
    OBVIOUS
  <2> HIDE DEF S
  <2> QED BY <2>1, Least
<1>2. k \in 1..Len(b) /\ \A j \in 1..(k - 1) : j \in 1..Len(c) /\ c[j] = b[j]
  BY <1>0, <1>1
<1> USE DEF Bubble
<1>3. b[k].id \in Present(t)
  BY <1>0, <1>2, NoneIsNoVersion DEF Shows, Present
<1>4. PICK j \in 1..Len(c) : c[j].id = b[k].id
  BY <1>3 DEF Shows
<1>5. j >= k
  <2> SUFFICES ASSUME j < k PROVE FALSE
    BY <1>0, <1>2, <1>4
  <2>1. j \in 1..(k - 1) /\ j \in 1..Len(b)
    BY <1>0, <1>2, <1>4
  <2>2. b[j].id < b[k].id
    BY <2>1, <1>2 DEF Shows
  <2>3. b[k].id \in Int
    BY <1>0, <1>2 DEF Ids
  <2> QED BY <2>1, <2>2, <2>3, <1>2, <1>4
<1>6. k \in 1..Len(c)
  BY <1>0, <1>2, <1>4, <1>5
<1>7. c[k].id \in Present(t)
  BY <1>0, <1>6, NoneIsNoVersion DEF Shows, Present
<1>8. PICK i \in 1..Len(b) : b[i].id = c[k].id
  BY <1>7 DEF Shows
<1>9. i >= k
  <2> SUFFICES ASSUME i < k PROVE FALSE
    BY <1>0, <1>2, <1>8
  <2>1. i \in 1..(k - 1) /\ i \in 1..Len(c)
    BY <1>0, <1>2, <1>8
  <2>2. c[i].id < c[k].id
    BY <2>1, <1>6 DEF Shows
  <2>3. b[k].id \in Int /\ c[k].id \in Int
    BY <1>0, <1>2, <1>6 DEF Ids
  <2> QED BY <2>1, <2>2, <2>3, <1>2, <1>8
<1>10. c[k].id = b[k].id
  <2>1. k = i \/ b[k].id < b[i].id
    BY <1>0, <1>2, <1>9 DEF Shows
  <2>2. k = j \/ c[k].id < c[j].id
    BY <1>0, <1>6, <1>5 DEF Shows
  <2>3. b[k].id \in Int /\ c[k].id \in Int /\ b[i].id \in Int /\ c[j].id \in Int
    BY <1>0, <1>2, <1>6 DEF Ids
  <2> QED BY <2>1, <2>2, <2>3, <1>4, <1>8
<1>11. c[k].version = b[k].version
  BY <1>2, <1>6, <1>10 DEF Shows
<1>12. c[k] = b[k]
  <2>1. \A x, y \in Bubble : x.id = y.id /\ x.version = y.version => x = y
    OBVIOUS
  <2>2. b[k] \in Bubble /\ c[k] \in Bubble
    BY <1>0, <1>2, <1>6
  <2> HIDE DEF Bubble
  <2> QED BY <2>1, <2>2, <1>10, <1>11
<1> QED BY <1>1, <1>6, <1>12

\* Only one page shows a tree.
LEMMA ShowsOnePage ==
    ASSUME NEW t \in Trees, NEW b, NEW c, Shows(b, t), Shows(c, t)
    PROVE  b = c
<1>1. b \in Contents /\ c \in Contents /\ Len(b) \in Nat /\ Len(c) \in Nat
  BY DEF Shows, Contents
<1>2. Len(b) = Len(c)
  <2>1. Len(b) > 0 => Len(b) \in 1..Len(c)
    BY <1>1, ShownOnce
  <2>2. Len(c) > 0 => Len(c) \in 1..Len(b)
    BY <1>1, ShownOnce
  <2> QED BY <2>1, <2>2, <1>1
<1>3. \A k \in 1..Len(b) : b[k] = c[k]
  BY ShownOnce
<1> QED BY <1>1, <1>2, <1>3 DEF Contents
-----------------------------------------------------------------------------
\* The page of the messages up to m.
UpTo(t) ==
    CHOOSE f : f = [m \in 0..N |-> IF m = 0 THEN <<>>
                                  ELSE IF t[m] = None THEN f[m - 1]
                                  ELSE Append(f[m - 1], [id |-> m, version |-> t[m]])]

\* What one message adds.
Added(t, b, m) == IF t[m] = None THEN b ELSE Append(b, [id |-> m, version |-> t[m]])

\* The recursion of Bubbles has a solution,
LEMMA UpToExists ==
    ASSUME NEW t, NEW n \in Nat
    PROVE  \E f : f = [m \in 0..n |-> IF m = 0 THEN <<>> ELSE Added(t, f[m - 1], m)]
<1> DEFINE Runs(l, f) == f = [m \in 0..l |-> IF m = 0 THEN <<>> ELSE Added(t, f[m - 1], m)]
           S == {l \in Nat : \E f : Runs(l, f)}
<1>1. 0 \in S
  <2>1. Runs(0, [m \in 0..0 |-> <<>>])
    OBVIOUS
  <2> QED BY <2>1
<1>2. ASSUME NEW k \in S PROVE k + 1 \in S
  <2>1. PICK f : Runs(k, f)
    OBVIOUS
  <2> DEFINE g == [m \in 0..(k + 1) |-> IF m = k + 1 THEN Added(t, f[k], k + 1) ELSE f[m]]
  <2>2. ASSUME NEW m \in 0..(k + 1)
        PROVE  g[m] = IF m = 0 THEN <<>> ELSE Added(t, g[m - 1], m)
    <3>1. CASE m = k + 1
      BY <3>1
    <3>2. CASE m # k + 1
      <4>1. m \in 0..k /\ g[m] = f[m] /\ (m # 0 => m - 1 \in 0..k /\ g[m - 1] = f[m - 1])
        BY <3>2
      <4>2. f[m] = IF m = 0 THEN <<>> ELSE Added(t, f[m - 1], m)
        BY <2>1, <4>1
      <4> QED BY <4>1, <4>2
    <3> QED BY <3>1, <3>2
  <2>3. g = [m \in 0..(k + 1) |-> IF m = 0 THEN <<>> ELSE Added(t, g[m - 1], m)]
    <3>1. g = [m \in 0..(k + 1) |-> g[m]]
      OBVIOUS
    <3> HIDE DEF g
    <3> QED BY <2>2, <3>1
  <2> HIDE DEF g
  <2>4. Runs(k + 1, g)
    BY <2>3
  <2> HIDE DEF Runs
  <2> QED BY <2>4
<1>3. S = Nat
  <2> HIDE DEF S
  <2>1. S \in SUBSET Nat
    BY DEF S
  <2> QED BY <1>1, <1>2, <2>1, Induction
<1> QED BY <1>3

\* and UpTo is one, which Bubbles takes the end of.
LEMMA UpToIs ==
    ASSUME NEW t
    PROVE  /\ UpTo(t)[0] = <<>>
           /\ \A m \in 1..N : UpTo(t)[m] = Added(t, UpTo(t)[m - 1], m)
           /\ Bubbles(t) = UpTo(t)[N]
<1>1. N \in Nat
  BY FeedAssumption
<1>2. UpTo(t) = [m \in 0..N |-> IF m = 0 THEN <<>> ELSE Added(t, UpTo(t)[m - 1], m)]
  BY <1>1, UpToExists DEF UpTo, Added
<1>3. Bubbles(t) = UpTo(t)[N]
  BY DEF Bubbles, UpTo
<1> QED BY <1>1, <1>2, <1>3

\* The page that is rendered from a tree shows it.
LEMMA BubblesShow ==
    ASSUME NEW t \in Trees
    PROVE  Shows(Bubbles(t), t)
<1> DEFINE Upto(m) == [i \in Ids |-> IF i <= m THEN t[i] ELSE None]
           S == {m \in Nat : m <= N => Shows(UpTo(t)[m], Upto(m))}
<1>0. N \in Nat
  BY FeedAssumption
<1>1. 0 \in S
  <2>1. Present(Upto(0)) = {}
    BY <1>0 DEF Present, Ids
  <2>2. Len(<<>>) = 0 /\ <<>> \in Contents
    BY DEF Contents
  <2>3. Shows(<<>>, Upto(0))
    BY <2>1, <2>2 DEF Shows
  <2> QED BY <2>3, UpToIs
<1>2. ASSUME NEW m \in S PROVE m + 1 \in S
  <2> DEFINE b == UpTo(t)[m]
             c == UpTo(t)[m + 1]
             u == Upto(m)
             w == Upto(m + 1)
  <2> SUFFICES ASSUME m + 1 <= N PROVE Shows(c, w)
    OBVIOUS
  <2>1. Shows(b, u)
    BY <1>0
  <2>2. m + 1 \in 1..N /\ (m + 1) - 1 = m /\ m + 1 \in Ids
    BY <1>0 DEF Ids
  <2>3. c = Added(t, b, m + 1)
    BY <2>2, UpToIs
  <2>4. \A i \in Ids : /\ i <= m => u[i] = t[i] /\ w[i] = t[i]
                       /\ i > m => u[i] = None
                       /\ i > m + 1 => w[i] = None
                       /\ i \in Int
    BY <2>2 DEF Ids
  <2>5. w[m + 1] = t[m + 1]
    BY <2>2
  <2> HIDE DEF b, c, u, w, Upto
  <2>6. /\ b \in Contents /\ Len(b) \in Nat /\ \A k \in 1..Len(b) : b[k] \in Bubble
        /\ \A k \in 1..Len(b) : b[k].id \in Ids /\ b[k].version # None
    <3>1. b \in Seq(Bubble)
      BY <2>1 DEF Shows, Contents
    <3>2. \A x \in Bubble : x.id \in Ids /\ x.version # None
      BY NoneIsNoVersion DEF Bubble
    <3> QED BY <3>1, <3>2 DEF Contents
  <2>7. \A k \in 1..Len(b) : b[k].id <= m
    BY <2>1, <2>4, <2>6 DEF Shows
  <2>8. CASE t[m + 1] = None
    <3>1. c = b
      BY <2>3, <2>8 DEF Added
    <3>2. \A i \in Ids : w[i] = u[i]
      <4>1. \A i \in Ids : i <= m \/ i = m + 1 \/ i > m + 1
        BY <2>2 DEF Ids
      <4> QED BY <2>4, <2>5, <2>8, <4>1
    <3> QED BY <3>1, <3>2, <2>1, <2>6 DEF Shows, Present
  <2>9. CASE t[m + 1] # None
    <3> DEFINE x == [id |-> m + 1, version |-> t[m + 1]]
    <3>1. x \in Bubble /\ x.id = m + 1 /\ x.version = t[m + 1]
      BY <2>2, <2>9 DEF Bubble, Trees
    <3>2. c = Append(b, x)
      BY <2>3, <2>9 DEF Added
    <3> HIDE DEF x
    <3>3. /\ c \in Contents /\ Len(c) = Len(b) + 1 /\ c[Len(b) + 1] = x
          /\ \A k \in 1..Len(b) : c[k] = b[k]
      BY <3>1, <3>2, <2>6 DEF Contents
    <3>4. ASSUME NEW j \in 1..Len(c), NEW k \in 1..Len(c), j < k PROVE c[j].id < c[k].id
      <4>1. j \in 1..Len(b)
        BY <3>3, <3>4, <2>6
      <4>2. CASE k \in 1..Len(b)
        BY <4>1, <4>2, <3>3, <3>4, <2>1 DEF Shows
      <4>3. CASE k = Len(b) + 1
        <5>1. c[j].id <= m /\ c[k].id = m + 1 /\ c[j].id \in Int
          BY <4>1, <4>3, <3>1, <3>3, <2>6, <2>7, <2>4
        <5> QED BY <5>1
      <4> QED BY <4>2, <4>3, <3>3, <2>6
    <3>5. ASSUME NEW k \in 1..Len(c) PROVE c[k].version = w[c[k].id]
      <4>1. CASE k \in 1..Len(b)
        BY <4>1, <3>3, <2>1, <2>4, <2>6, <2>7 DEF Shows
      <4>2. CASE k = Len(b) + 1
        BY <4>2, <3>1, <3>3, <2>5
      <4> QED BY <4>1, <4>2, <3>3, <2>6
    <3>6. ASSUME NEW i \in Present(w) PROVE \E k \in 1..Len(c) : c[k].id = i
      <4>1. i \in Ids /\ w[i] # None
        BY DEF Present
      <4>2. CASE i <= m
        <5>1. i \in Present(u)
          BY <4>1, <4>2, <2>4 DEF Present
        <5>2. PICK k \in 1..Len(b) : b[k].id = i
          BY <5>1, <2>1 DEF Shows
        <5> QED BY <5>2, <3>3, <2>6
      <4>3. CASE i = m + 1
        BY <4>3, <3>1, <3>3, <2>6
      <4> QED BY <4>1, <4>2, <4>3, <2>4
    <3> QED BY <3>3, <3>4, <3>5, <3>6 DEF Shows
  <2> QED BY <2>8, <2>9
<1>3. S = Nat
  <2> HIDE DEF S
  <2>1. S \in SUBSET Nat
    BY DEF S
  <2> QED BY <1>1, <1>2, <2>1, Induction
<1>4. Shows(UpTo(t)[N], Upto(N))
  BY <1>0, <1>3
<1>5. Upto(N) = t
  BY <1>0 DEF Ids, Trees
<1> QED BY <1>4, <1>5, UpToIs
-----------------------------------------------------------------------------
\* Min and Max are what their names say.
LEMMA Minimum ==
    ASSUME NEW S \in SUBSET Nat, S # {}
    PROVE  Min(S) \in S /\ \A k \in S : Min(S) <= k
BY Least DEF Min

\* The same from above, for a set that is bounded.
LEMMA Maximum ==
    ASSUME NEW n \in Nat, NEW S \in SUBSET 0..n, S # {}
    PROVE  Max(S) \in S /\ \A k \in S : k <= Max(S)
<1> DEFINE Z == {d \in Nat : n - d \in S}
<1>1. Z \in SUBSET Nat
  OBVIOUS
<1>2. Z # {}
  <2>1. PICK k \in S : TRUE
    OBVIOUS
  <2>2. n - k \in Nat /\ n - (n - k) = k
    BY <2>1
  <2> QED BY <2>2
<1>3. PICK d \in Z : \A k \in Z : d <= k
  <2> HIDE DEF Z
  <2> QED BY <1>1, <1>2, Least
<1>4. \A k \in S : n - d >= k
  <2> TAKE k \in S
  <2>1. n - k \in Nat /\ n - (n - k) = k
    OBVIOUS
  <2>2. d <= n - k
    BY <1>3, <2>1
  <2> QED BY <2>1, <2>2
<1>5. \E x \in S : \A y \in S : x >= y
  BY <1>3, <1>4
<1>6. Max(S) \in S /\ \A y \in S : Max(S) >= y
  BY <1>5 DEF Max
<1> QED BY <1>6

\* Nothing of the tree lies between a message and its neighbours.
LEMMA Neighbors ==
    ASSUME NEW t \in Trees, NEW m \in Ids
    PROVE  /\ Prev(t, m) = 0 \/ (Prev(t, m) \in Present(t) /\ Prev(t, m) < m)
           /\ \A k \in Present(t) : k < m => k <= Prev(t, m)
           /\ Next_(t, m) = 0 \/ (Next_(t, m) \in Present(t) /\ Next_(t, m) > m)
           /\ \A k \in Present(t) : k > m => Next_(t, m) # 0 /\ Next_(t, m) <= k
<1>0. N \in Nat /\ Present(t) \subseteq 1..N /\ m \in Int
  BY FeedAssumption DEF Present, Ids
<1>1. /\ Prev(t, m) \in {0} \cup {k \in Present(t) : k < m}
      /\ \A k \in {0} \cup {k \in Present(t) : k < m} : k <= Prev(t, m)
  <2> DEFINE S == {0} \cup {k \in Present(t) : k < m}
  <2>1. S \in SUBSET 0..N /\ S # {}
    BY <1>0
  <2>2. Prev(t, m) = Max(S)
    BY DEF Prev
  <2> HIDE DEF S
  <2>3. Prev(t, m) \in S /\ \A k \in S : k <= Prev(t, m)
    BY <2>1, <2>2, <1>0, Maximum
  <2> QED BY <2>3 DEF S
<1>2. /\ Next_(t, m) = 0 \/ Next_(t, m) \in {k \in Present(t) : k > m}
      /\ \A k \in {k \in Present(t) : k > m} : Next_(t, m) # 0 /\ Next_(t, m) <= k
  <2> DEFINE S == {k \in Present(t) : k > m}
  <2>1. S \in SUBSET Nat /\ 0 \notin S
    BY <1>0
  <2>2. Next_(t, m) = IF S = {} THEN 0 ELSE Min(S)
    BY DEF Next_
  <2> HIDE DEF S
  <2>3. CASE S = {}
    BY <2>2, <2>3 DEF S
  <2>4. CASE S # {}
    <3>1. Next_(t, m) \in S /\ \A k \in S : Next_(t, m) <= k
      <4> HIDE DEF S
      <4>1. S \in SUBSET Nat /\ S # {} /\ Next_(t, m) = Min(S)
        BY <2>1, <2>2, <2>4
      <4>2. Min(S) \in S /\ \A k \in S : Min(S) <= k
        BY <4>1, Minimum
      <4> QED BY <4>1, <4>2
    <3> QED BY <3>1, <2>1 DEF S
  <2> QED BY <2>3, <2>4
<1> QED BY <1>1, <1>2

\* At is the place of the bubble, or 0 if the page has none.
LEMMA AtIs ==
    ASSUME NEW b \in Contents, NEW m
    PROVE  /\ At(b, m) \in 0..Len(b)
           /\ At(b, m) # 0 => b[At(b, m)].id = m
           /\ At(b, m) = 0 => \A k \in 1..Len(b) : b[k].id # m
<1> DEFINE S == {k \in 1..Len(b) : b[k].id = m}
<1>1. At(b, m) = IF S # {} THEN Min(S) ELSE 0
  BY DEF At, SelectInSeq
<1>2. Len(b) \in Nat /\ S \in SUBSET Nat
  BY DEF Contents
<1>3. CASE S = {}
  BY <1>1, <1>2, <1>3
<1>4. CASE S # {}
  <2>1. At(b, m) \in S
    <3> HIDE DEF S
    <3> QED BY <1>1, <1>2, <1>4, Minimum
  <2> QED BY <2>1, <1>2
<1> QED BY <1>3, <1>4

\* A message that the tree has is found on the page.
LEMMA AtShown ==
    ASSUME NEW t \in Trees, NEW b, Shows(b, t), NEW m
    PROVE  /\ b \in Contents
           /\ m \in Present(t) => At(b, m) \in 1..Len(b) /\ b[At(b, m)].id = m
           /\ m \notin Present(t) => At(b, m) = 0
<1>0. b \in Contents /\ Len(b) \in Nat /\ \A k \in 1..Len(b) : b[k] \in Bubble
  BY DEF Shows, Contents
<1>1. ASSUME m \in Present(t) PROVE At(b, m) \in 1..Len(b) /\ b[At(b, m)].id = m
  <2>1. At(b, m) # 0
    BY <1>0, <1>1, AtIs DEF Shows
  <2> QED BY <2>1, <1>0, AtIs
<1>2. ASSUME m \notin Present(t) PROVE At(b, m) = 0
  <2> SUFFICES ASSUME At(b, m) # 0 PROVE FALSE
    OBVIOUS
  <2> DEFINE k == At(b, m)
  <2>1. k \in 1..Len(b) /\ b[k].id = m
    BY <1>0, AtIs
  <2> HIDE DEF k
  <2>2. b[k].version = t[m] /\ m \in Ids /\ b[k].version \in Versions
    BY <2>1, <1>0 DEF Shows, Bubble
  <2> QED BY <2>2, <1>2, NoneIsNoVersion DEF Present
<1> QED BY <1>0, <1>1, <1>2
-----------------------------------------------------------------------------
\* What the operations on sequences do to a page, place by place.
LEMMA Replaced ==
    ASSUME NEW b \in Contents, NEW i \in 1..Len(b), NEW x \in Bubble
    PROVE  /\ ReplaceAt(b, i, x) \in Contents /\ Len(ReplaceAt(b, i, x)) = Len(b)
           /\ ReplaceAt(b, i, x)[i] = x
           /\ \A k \in 1..Len(b) : k # i => ReplaceAt(b, i, x)[k] = b[k]
BY DEF Contents, ReplaceAt

\* A part of a page.
LEMMA Part ==
    ASSUME NEW b \in Contents, NEW m \in 1..(Len(b) + 1), NEW n \in 0..Len(b), m <= n + 1
    PROVE  /\ SubSeq(b, m, n) \in Contents /\ Len(SubSeq(b, m, n)) = (n - m) + 1
           /\ \A k \in 1..((n - m) + 1) : SubSeq(b, m, n)[k] = b[(m + k) - 1]
<1>1. Len(b) \in Nat /\ m \in Int /\ n \in Int /\ \A k \in m..n : b[k] \in Bubble
  BY DEF Contents
<1>2. /\ SubSeq(b, m, n) \in Seq(Bubble)
      /\ Len(SubSeq(b, m, n)) = IF m <= n THEN n - m + 1 ELSE 0
      /\ \A k \in 1..n - m + 1 : SubSeq(b, m, n)[k] = b[m + k - 1]
  BY ONLY <1>1, SubSeqProperties
<1> QED BY <1>1, <1>2 DEF Contents

\* Two pages, one after the other.
LEMMA Joined ==
    ASSUME NEW b \in Contents, NEW c \in Contents
    PROVE  /\ b \o c \in Contents /\ Len(b \o c) = Len(b) + Len(c)
           /\ \A k \in 1..Len(b) : (b \o c)[k] = b[k]
           /\ \A k \in 1..Len(c) : (b \o c)[Len(b) + k] = c[k]
<1>1. /\ b \o c \in Seq(Bubble) /\ Len(b \o c) = Len(b) + Len(c)
      /\ \A i \in 1 .. Len(b) + Len(c) :
             (b \o c)[i] = IF i <= Len(b) THEN b[i] ELSE c[i - Len(b)]
  BY ConcatProperties DEF Contents
<1>2. Len(b) \in Nat /\ Len(c) \in Nat
  BY DEF Contents
<1> QED BY <1>1, <1>2 DEF Contents

\* A bubble that is put at a place moves those from there on.
LEMMA Inserted ==
    ASSUME NEW b \in Contents, NEW i \in 1..(Len(b) + 1), NEW x \in Bubble
    PROVE  /\ InsertAt(b, i, x) \in Contents /\ Len(InsertAt(b, i, x)) = Len(b) + 1
           /\ InsertAt(b, i, x)[i] = x
           /\ \A k \in 1..Len(b) : k < i => InsertAt(b, i, x)[k] = b[k]
           /\ \A k \in 1..Len(b) : k >= i => InsertAt(b, i, x)[k + 1] = b[k]
<1> DEFINE l == SubSeq(b, 1, i - 1)
           r == SubSeq(b, i, Len(b))
           h == l \o <<x>>
<1>0. Len(b) \in Nat /\ i \in Int
  BY DEF Contents
<1>1. l \in Contents /\ Len(l) = i - 1 /\ \A k \in 1..(i - 1) : l[k] = b[k]
  BY <1>0, Part
<1>2. /\ r \in Contents /\ Len(r) = (Len(b) - i) + 1
      /\ \A k \in 1..((Len(b) - i) + 1) : r[k] = b[(i + k) - 1]
  BY <1>0, Part
<1>3. InsertAt(b, i, x) = h \o r
  BY DEF InsertAt
<1>4. <<x>> \in Contents /\ Len(<<x>>) = 1 /\ <<x>>[1] = x
  BY DEF Contents
<1> HIDE DEF l, r
<1>5. h \in Contents /\ Len(h) = i /\ h[i] = x /\ \A k \in 1..(i - 1) : h[k] = l[k]
  BY <1>0, <1>1, <1>4, Joined
<1> HIDE DEF h
<1>6. /\ h \o r \in Contents /\ Len(h \o r) = Len(h) + Len(r)
      /\ \A k \in 1..Len(h) : (h \o r)[k] = h[k]
      /\ \A k \in 1..Len(r) : (h \o r)[Len(h) + k] = r[k]
  BY <1>2, <1>5, Joined
<1>7. ASSUME NEW k \in 1..Len(b), k < i PROVE (h \o r)[k] = b[k]
  BY <1>0, <1>1, <1>5, <1>6, <1>7
<1>8. ASSUME NEW k \in 1..Len(b), k >= i PROVE (h \o r)[k + 1] = b[k]
  <2>1. (k - i) + 1 \in 1..Len(r) /\ i + ((k - i) + 1) = k + 1 /\ (i + ((k - i) + 1)) - 1 = k
    BY <1>0, <1>2, <1>8
  <2>2. (h \o r)[i + ((k - i) + 1)] = r[(k - i) + 1]
    BY <2>1, <1>5, <1>6
  <2>3. r[(k - i) + 1] = b[(i + ((k - i) + 1)) - 1]
    BY <2>1, <1>2
  <2> QED BY <2>1, <2>2, <2>3
<1>9. Len(h \o r) = Len(b) + 1 /\ (h \o r)[i] = x
  BY <1>0, <1>2, <1>5, <1>6
<1> QED BY <1>3, <1>6, <1>7, <1>8, <1>9

\* One that is taken away moves back those behind it.
LEMMA Removed ==
    ASSUME NEW b \in Contents, NEW i \in 1..Len(b)
    PROVE  /\ RemoveAt(b, i) \in Contents /\ Len(RemoveAt(b, i)) = Len(b) - 1
           /\ \A k \in 1..Len(b) : k < i => RemoveAt(b, i)[k] = b[k]
           /\ \A k \in 1..Len(b) : k > i => RemoveAt(b, i)[k - 1] = b[k]
<1> DEFINE l == SubSeq(b, 1, i - 1)
           r == SubSeq(b, i + 1, Len(b))
<1>0. Len(b) \in Nat /\ i \in Int
  BY DEF Contents
<1>1. l \in Contents /\ Len(l) = i - 1 /\ \A k \in 1..(i - 1) : l[k] = b[k]
  BY <1>0, Part
<1>2. /\ r \in Contents /\ Len(r) = Len(b) - i
      /\ \A k \in 1..(Len(b) - i) : r[k] = b[i + k]
  BY <1>0, Part
<1>3. RemoveAt(b, i) = l \o r
  BY DEF RemoveAt
<1> HIDE DEF l, r
<1>4. /\ l \o r \in Contents /\ Len(l \o r) = Len(l) + Len(r)
      /\ \A k \in 1..Len(l) : (l \o r)[k] = l[k]
      /\ \A k \in 1..Len(r) : (l \o r)[Len(l) + k] = r[k]
  BY <1>1, <1>2, Joined
<1>5. ASSUME NEW k \in 1..Len(b), k < i PROVE (l \o r)[k] = b[k]
  BY <1>0, <1>1, <1>4, <1>5
<1>6. ASSUME NEW k \in 1..Len(b), k > i PROVE (l \o r)[k - 1] = b[k]
  <2>1. k - i \in 1..Len(r) /\ Len(l) + (k - i) = k - 1 /\ i + (k - i) = k
    BY <1>0, <1>1, <1>2, <1>6
  <2> QED BY <2>1, <1>2, <1>4
<1>7. Len(l \o r) = Len(b) - 1
  BY <1>0, <1>1, <1>2, <1>4
<1> QED BY <1>3, <1>4, <1>5, <1>6, <1>7

\* Drawing a message again, if the page has it.
LEMMA RedrawShows ==
    ASSUME NEW t \in Trees, NEW b, Shows(b, t), NEW m \in Ids, NEW v \in Versions
    PROVE  Shows(Redraw(b, m, [id |-> m, version |-> v]),
                 IF t[m] = None THEN t ELSE [t EXCEPT ![m] = v])
<1> DEFINE x == [id |-> m, version |-> v]
           i == At(b, m)
           c == ReplaceAt(b, i, x)
           u == [t EXCEPT ![m] = v]
<1>1. CASE t[m] = None
  <2>1. Redraw(b, m, x) = b
    BY <1>1, AtShown DEF Redraw, Present
  <2> QED BY <1>1, <2>1
<1>2. CASE t[m] # None
  <2>1. m \in Present(t)
    BY <1>2 DEF Present
  <2>2. /\ b \in Contents /\ Len(b) \in Nat /\ i \in 1..Len(b) /\ b[i].id = m
        /\ \A k \in 1..Len(b) : b[k].id \in Ids
    <3>1. b \in Contents /\ i \in 1..Len(b) /\ b[i].id = m
      BY <2>1, AtShown
    <3>2. Len(b) \in Nat /\ \A k \in 1..Len(b) : b[k] \in Bubble
      BY <3>1 DEF Contents
    <3> QED BY <3>1, <3>2 DEF Bubble
  <2>3. x \in Bubble /\ x.id = m /\ x.version = v
    BY DEF Bubble
  <2>4. Redraw(b, m, x) = c
    BY <2>2 DEF Redraw
  <2>5. /\ u[m] = v /\ \A k \in Ids : k # m => u[k] = t[k]
        /\ Present(u) = Present(t)
    BY <2>1, NoneIsNoVersion DEF Trees, Present
  <2> HIDE DEF i, x, c, u
  <2>6. /\ c \in Contents /\ Len(c) = Len(b) /\ c[i] = x
        /\ \A k \in 1..Len(b) : k # i => c[k] = b[k]
    BY <2>2, <2>3, Replaced DEF c
  <2>7. \A k \in 1..Len(b) : c[k].id = b[k].id
    BY <2>2, <2>3, <2>6
  <2>8. ASSUME NEW k \in 1..Len(b) PROVE c[k].version = u[c[k].id]
    <3>1. CASE k = i
      BY <3>1, <2>2, <2>3, <2>5, <2>6
    <3>2. CASE k # i
      <4>1. b[k].id # m
        <5>1. b[k].id < b[i].id \/ b[i].id < b[k].id
          BY <3>2, <2>2 DEF Shows
        <5>2. b[k].id \in Int /\ m \in Int
          BY <2>2 DEF Ids
        <5> QED BY <5>1, <5>2, <2>2
      <4> QED BY <3>2, <4>1, <2>2, <2>5, <2>6 DEF Shows
    <3> QED BY <3>1, <3>2
  <2>9. Shows(c, u)
    BY <2>5, <2>6, <2>7, <2>8 DEF Shows
  <2> QED BY <1>2, <2>4, <2>9 DEF x, u
<1> QED BY <1>1, <1>2

\* What every page that shows a tree is like.
LEMMA ShownIs ==
    ASSUME NEW t \in Trees, NEW b, Shows(b, t)
    PROVE  /\ b \in Contents /\ Len(b) \in Nat
           /\ \A k \in 1..Len(b) : /\ b[k].id \in Present(t) /\ b[k].id \in Ids
                                    /\ b[k].id \in Int /\ b[k].version \in Versions
           /\ \A j, k \in 1..Len(b) : j # k => b[j].id # b[k].id
<1>1. b \in Contents /\ Len(b) \in Nat /\ \A k \in 1..Len(b) : b[k] \in Bubble
  BY DEF Shows, Contents
<1>2. \A k \in 1..Len(b) : b[k].id \in Ids /\ b[k].version \in Versions /\ b[k].id \in Int
  BY <1>1 DEF Bubble, Ids
<1>3. \A k \in 1..Len(b) : b[k].id \in Present(t)
  BY <1>2, NoneIsNoVersion DEF Shows, Present
<1>4. ASSUME NEW j \in 1..Len(b), NEW k \in 1..Len(b), j # k PROVE b[j].id # b[k].id
  <2>1. b[j].id < b[k].id \/ b[k].id < b[j].id
    BY <1>1, <1>4 DEF Shows
  <2> QED BY <2>1, <1>2
<1> QED BY <1>1, <1>2, <1>3, <1>4

\* A message that takes the bubble of its placeholder, with nothing between.
LEMMA TakeOverShows ==
    ASSUME NEW t \in Trees, NEW b, Shows(b, t), NEW p \in Present(t), NEW m \in Ids,
           NEW v \in Versions, t[m] = None, ~Between(p, m, [t EXCEPT ![p] = None])
    PROVE  Shows(Redraw(b, p, [id |-> m, version |-> v]), [t EXCEPT ![p] = None, ![m] = v])
<1> DEFINE x == [id |-> m, version |-> v]
           i == At(b, p)
           c == ReplaceAt(b, i, x)
           u == [t EXCEPT ![p] = None, ![m] = v]
<1>1. i \in 1..Len(b) /\ b[i].id = p
  BY AtShown
<1>2. x \in Bubble /\ x.id = m /\ x.version = v
  BY DEF Bubble
<1>3. Redraw(b, p, x) = c
  BY <1>1, ShownIs DEF Redraw
<1>4. p \in Ids /\ p \in Int /\ m \in Int /\ p # m
  BY DEF Present, Ids
<1>5. /\ u[m] = v /\ u[p] = None /\ \A k \in Ids \ {m, p} : u[k] = t[k]
      /\ Present(u) = (Present(t) \ {p}) \cup {m}
  BY <1>4, NoneIsNoVersion DEF Trees, Present
<1>6. \A k \in Present(t) \ {p} : ~((p < k /\ k < m) \/ (m < k /\ k < p))
  BY DEF Between, Present, Trees
<1> HIDE DEF i, x, c, u
<1>7. /\ c \in Contents /\ Len(c) = Len(b) /\ c[i] = x
      /\ \A k \in 1..Len(b) : k # i => c[k] = b[k]
  BY <1>1, <1>2, ShownIs, Replaced DEF c
<1>8. \A k \in 1..Len(b) :
          k # i => b[k].id \in Present(t) \ {p} /\ b[k].id \in Int /\ b[k].id # m
  BY <1>1, ShownIs DEF Present
<1>9. ASSUME NEW j \in 1..Len(b), NEW k \in 1..Len(b), j < k PROVE c[j].id < c[k].id
  <2>1. b[j].id < b[k].id
    BY <1>9 DEF Shows
  <2>2. CASE j = i
    <3>1. c[j].id = m /\ c[k].id = b[k].id /\ b[j].id = p /\ k # i
      BY <2>2, <1>1, <1>2, <1>7, <1>9
    <3> QED BY <3>1, <2>1, <1>4, <1>6, <1>8
  <2>3. CASE k = i
    <3>1. c[k].id = m /\ c[j].id = b[j].id /\ b[k].id = p /\ j # i
      BY <2>3, <1>1, <1>2, <1>7, <1>9
    <3> QED BY <3>1, <2>1, <1>4, <1>6, <1>8
  <2>4. CASE j # i /\ k # i
    BY <2>1, <2>4, <1>7
  <2> QED BY <2>2, <2>3, <2>4
<1>10. ASSUME NEW k \in 1..Len(b) PROVE c[k].version = u[c[k].id]
  <2>1. CASE k = i
    BY <2>1, <1>2, <1>5, <1>7
  <2>2. CASE k # i
    <3>1. u[b[k].id] = t[b[k].id]
      BY <2>2, <1>5, <1>8 DEF Present
    <3> QED BY <2>2, <3>1, <1>7 DEF Shows
  <2> QED BY <2>1, <2>2
<1>11. ASSUME NEW k \in Present(u) PROVE \E j \in 1..Len(b) : c[j].id = k
  <2>1. CASE k = m
    BY <2>1, <1>1, <1>2, <1>7
  <2>2. CASE k \in Present(t) \ {p}
    <3>1. PICK j \in 1..Len(b) : b[j].id = k
      BY <2>2 DEF Shows
    <3>2. j # i
      BY <2>2, <3>1, <1>1
    <3> QED BY <3>1, <3>2, <1>7
  <2> QED BY <2>1, <2>2, <1>5
<1>12. Shows(c, u)
  BY <1>7, <1>9, <1>10, <1>11 DEF Shows
<1> QED BY <1>3, <1>12 DEF x, u

\* The bubble of a new message goes between those of its neighbours.
LEMMA InsertShows ==
    ASSUME NEW t \in Trees, NEW b, Shows(b, t), NEW m \in Ids, NEW v \in Versions,
           t[m] = None, NEW evt, evt.neighbors = getNeighbors([t EXCEPT ![m] = v], m)
    PROVE  Shows(Insert(b, evt, [id |-> m, version |-> v]), [t EXCEPT ![m] = v])
<1> DEFINE x == [id |-> m, version |-> v]
           u == [t EXCEPT ![m] = v]
           next == Next_(u, m)
           prev == Prev(u, m)
<1>1. x \in Bubble /\ x.id = m /\ x.version = v /\ m \in Int
  BY DEF Bubble, Ids
<1>2. /\ u \in Trees /\ u[m] = v /\ \A k \in Ids \ {m} : u[k] = t[k]
      /\ Present(u) = Present(t) \cup {m} /\ m \notin Present(t)
  BY NoneIsNoVersion DEF Trees, Present
<1>3. /\ prev = 0 \/ (prev \in Present(t) /\ prev < m)
      /\ \A k \in Present(t) : k < m => k <= prev
      /\ next = 0 \/ (next \in Present(t) /\ next > m)
      /\ \A k \in Present(t) : k > m => next # 0 /\ next <= k
  <2> HIDE DEF u
  <2>1. /\ prev = 0 \/ (prev \in Present(u) /\ prev < m)
        /\ \A k \in Present(u) : k < m => k <= prev
        /\ next = 0 \/ (next \in Present(u) /\ next > m)
        /\ \A k \in Present(u) : k > m => next # 0 /\ next <= k
    BY <1>2, Neighbors
  <2> HIDE DEF next, prev
  <2> QED BY <1>1, <1>2, <2>1
<1>4. evt.neighbors.next = next /\ evt.neighbors.prev = prev
  BY DEF getNeighbors
<1> HIDE DEF x, u, next, prev
<1>5. /\ b \in Contents /\ Len(b) \in Nat
      /\ \A k \in 1..Len(b) : /\ b[k].id \in Present(t) /\ b[k].id \in Ids
                               /\ b[k].id \in Int /\ b[k].id # m
  BY ShownIs, <1>2
\* It comes after those that are less and before the others.
<1>6. ASSUME NEW i \in 1..(Len(b) + 1),
             \A k \in 1..Len(b) : (k < i => b[k].id < m) /\ (k >= i => m < b[k].id)
      PROVE  Shows(InsertAt(b, i, x), u)
  <2> DEFINE c == InsertAt(b, i, x)
  <2>1. /\ c \in Contents /\ Len(c) = Len(b) + 1 /\ c[i] = x
        /\ \A l \in 1..Len(b) : l < i => c[l] = b[l]
        /\ \A l \in 1..Len(b) : l >= i => c[l + 1] = b[l]
    BY <1>1, <1>5, Inserted
  <2> HIDE DEF c
  <2>2. \A k \in 1..Len(c) : \/ k < i /\ k \in 1..Len(b) /\ c[k] = b[k]
                             \/ k = i /\ c[k] = x
                             \/ k > i /\ k - 1 >= i /\ k - 1 \in 1..Len(b) /\ c[k] = b[k - 1]
    <3> TAKE k \in 1..Len(c)
    <3>1. CASE k < i
      <4>1. k \in 1..Len(b)
        BY <3>1, <2>1, <1>5
      <4>2. c[k] = b[k]
        BY <3>1, <4>1, <2>1, <1>5
      <4> QED BY <3>1, <4>1, <4>2
    <3>2. CASE k > i
      <4>1. k - 1 \in 1..Len(b) /\ k - 1 >= i /\ (k - 1) + 1 = k
        BY <3>2, <2>1, <1>5
      <4>2. c[(k - 1) + 1] = b[k - 1]
        BY <4>1, <2>1, <1>5
      <4> QED BY <3>2, <4>1, <4>2
    <3> QED BY <3>1, <3>2, <2>1
  <2>3. ASSUME NEW j \in 1..Len(c), NEW k \in 1..Len(c), j < k PROVE c[j].id < c[k].id
    <3>1. \A l, n \in 1..Len(b) : l < n => b[l].id < b[n].id
      BY DEF Shows
    <3>2. CASE j < i
      <4>1. j \in 1..Len(b) /\ c[j] = b[j] /\ b[j].id < m
        BY <3>2, <2>2, <1>6
      <4>2. CASE k < i
        BY <4>1, <4>2, <3>1, <2>2, <2>3
      <4>3. CASE k = i
        BY <4>1, <4>3, <2>1, <1>1
      <4>4. CASE k > i
        <5>1. c[k] = b[k - 1] /\ k - 1 \in 1..Len(b) /\ k - 1 >= i
          BY <4>4, <2>2
        <5>2. j < k - 1
          BY <3>2, <5>1
        <5> QED BY <4>1, <5>1, <5>2, <3>1
      <4> QED BY <4>2, <4>3, <4>4
    <3>3. CASE j = i
      <4>1. c[k] = b[k - 1] /\ k - 1 \in 1..Len(b) /\ k - 1 >= i
        BY <3>3, <2>2, <2>3
      <4> QED BY <3>3, <4>1, <2>1, <1>1, <1>6
    <3>4. CASE j > i
      <4>1. /\ c[k] = b[k - 1] /\ k - 1 \in 1..Len(b)
            /\ c[j] = b[j - 1] /\ j - 1 \in 1..Len(b) /\ j - 1 < k - 1
        BY <3>4, <2>2, <2>3
      <4> QED BY <4>1, <3>1
    <3> QED BY <3>2, <3>3, <3>4
  <2>4. ASSUME NEW k \in 1..Len(c) PROVE c[k].version = u[c[k].id]
    <3>1. \A l \in 1..Len(b) : b[l].version = u[b[l].id]
      BY <1>2, <1>5 DEF Shows
    <3> QED BY <3>1, <2>2, <1>1, <1>2
  <2>5. ASSUME NEW k \in Present(u) PROVE \E j \in 1..Len(c) : c[j].id = k
    <3>1. CASE k = m
      BY <3>1, <2>1, <1>1, <1>5
    <3>2. CASE k \in Present(t)
      <4>1. PICK j \in 1..Len(b) : b[j].id = k
        BY <3>2 DEF Shows
      <4>2. j \in 1..Len(c) /\ j + 1 \in 1..Len(c)
        BY <2>1, <1>5
      <4>3. CASE j < i
        BY <4>1, <4>2, <4>3, <2>1, <1>5
      <4>4. CASE j >= i
        BY <4>1, <4>2, <4>4, <2>1, <1>5
      <4> QED BY <4>1, <4>2, <4>3, <4>4
    <3> QED BY <3>1, <3>2, <1>2
  <2> QED BY <2>1, <2>3, <2>4, <2>5 DEF Shows, c
<1>7. CASE next # 0
  <2> DEFINE i == At(b, next)
  <2>1. i \in 1..Len(b) /\ b[i].id = next
    BY <1>3, <1>7, AtShown
  <2>2. Insert(b, evt, x) = InsertAt(b, i, x)
    BY <2>1, <1>4, <1>5, <1>7 DEF Insert
  <2> HIDE DEF i
  <2>3. ASSUME NEW k \in 1..Len(b) PROVE (k < i => b[k].id < m) /\ (k >= i => m < b[k].id)
    <3>1. k < i => b[k].id < next
      BY <2>1 DEF Shows
    <3>2. k > i => next < b[k].id
      BY <2>1 DEF Shows
    <3>3. next \in Int /\ b[k].id \in Int /\ b[k].id # m /\ b[k].id \in Present(t)
      BY <2>1, <1>5
    <3>4. b[k].id > m => next <= b[k].id
      BY <3>3, <1>3
    <3>5. k = i => b[k].id = next
      BY <2>1
    <3> QED BY <3>1, <3>2, <3>3, <3>4, <3>5, <1>1, <1>3, <1>5, <1>7, <2>1
  <2>4. i \in 1..(Len(b) + 1)
    BY <2>1, <1>5
  <2>5. Shows(InsertAt(b, i, x), u)
    BY <2>3, <2>4, <1>6
  <2> QED BY <2>2, <2>5 DEF u, x
<1>8. CASE next = 0 /\ prev # 0
  <2> DEFINE j == At(b, prev)
  <2>1. j \in 1..Len(b) /\ b[j].id = prev
    BY <1>3, <1>8, AtShown
  <2>2. Insert(b, evt, x) = InsertAt(b, j + 1, x)
    BY <2>1, <1>4, <1>5, <1>8 DEF Insert
  <2> HIDE DEF j
  <2>3. ASSUME NEW k \in 1..Len(b) PROVE k < j + 1 /\ b[k].id < m
    <3>1. b[k].id < m /\ b[k].id <= prev
      BY <1>1, <1>3, <1>5, <1>8
    <3>2. k > j => prev < b[k].id
      BY <2>1 DEF Shows
    <3>3. b[k].id \in Int /\ prev \in Int
      BY <1>5, <2>1
    <3> QED BY <3>1, <3>2, <3>3, <2>1, <1>5
  <2>4. j + 1 \in 1..(Len(b) + 1) /\ \A k \in 1..Len(b) : ~(k >= j + 1)
    BY <2>1, <2>3, <1>5
  <2> QED BY <2>2, <2>3, <2>4, <1>6 DEF u, x
<1>9. CASE next = 0 /\ prev = 0
  <2>1. Len(b) = 0
    <3> SUFFICES ASSUME Len(b) # 0 PROVE FALSE
      OBVIOUS
    <3>1. 1 \in 1..Len(b)
      BY <1>5
    <3>2. b[1].id < m \/ b[1].id > m
      BY <3>1, <1>1, <1>5
    <3>3. b[1].id \in 1..N
      BY <3>1, <1>5 DEF Ids
    <3> QED BY <3>1, <3>2, <3>3, <1>3, <1>5, <1>9, FeedAssumption
  <2>2. Insert(b, evt, x) = Append(b, x)
    BY <1>4, <1>9 DEF Insert
  <2>3. /\ Append(b, x) \in Contents /\ Len(Append(b, x)) = 1 /\ Append(b, x)[1] = x
    BY <2>1, <1>1, <1>5 DEF Contents
  <2>4. Present(u) = {m}
    <3>1. Present(t) = {}
      BY <2>1 DEF Shows
    <3> QED BY <3>1, <1>2
  <2>5. Shows(Append(b, x), u)
    BY <2>3, <2>4, <1>1, <1>2 DEF Shows
  <2> QED BY <2>2, <2>5 DEF u, x
<1> QED BY <1>7, <1>8, <1>9

\* Taking a message's bubble away, if the page has it.
Drop(b, m) == IF At(b, m) = 0 THEN b ELSE RemoveAt(b, At(b, m))

\* Without the message's bubble the page shows the tree without the message.
LEMMA RemoveShows ==
    ASSUME NEW t \in Trees, NEW b, Shows(b, t), NEW m \in Ids
    PROVE  Shows(Drop(b, m), [t EXCEPT ![m] = None])
<1> DEFINE i == At(b, m)
           u == [t EXCEPT ![m] = None]
           c == RemoveAt(b, i)
<1>1. u[m] = None /\ (\A k \in Ids \ {m} : u[k] = t[k]) /\ Present(u) = Present(t) \ {m}
  BY DEF Trees, Present
<1>2. CASE m \notin Present(t)
  <2>1. i = 0
    BY <1>2, AtShown
  <2>2. u = t
    BY <1>2 DEF Trees, Present
  <2> QED BY <2>1, <2>2 DEF Drop
<1>3. CASE m \in Present(t)
  <2>1. i \in 1..Len(b) /\ b[i].id = m
    BY <1>3, AtShown
  <2> HIDE DEF i, u
  <2>2. /\ b \in Contents /\ Len(b) \in Nat
        /\ \A k \in 1..Len(b) : k # i => b[k].id \in Ids \ {m}
    BY <2>1, ShownIs
  <2>3. /\ c \in Contents /\ Len(c) = Len(b) - 1
        /\ \A l \in 1..Len(b) : l < i => c[l] = b[l]
        /\ \A l \in 1..Len(b) : l > i => c[l - 1] = b[l]
    BY <2>1, <2>2, Removed
  <2> HIDE DEF c
  <2>4. \A k \in 1..Len(c) : \/ k < i /\ k \in 1..Len(b) /\ c[k] = b[k]
                             \/ k >= i /\ k + 1 \in 1..Len(b) /\ c[k] = b[k + 1]
    <3> TAKE k \in 1..Len(c)
    <3>1. CASE k < i
      <4>1. k \in 1..Len(b)
        BY <3>1, <2>1, <2>2
      <4> QED BY <3>1, <4>1, <2>3
    <3>2. CASE k >= i
      <4>1. k + 1 \in 1..Len(b) /\ k + 1 > i /\ (k + 1) - 1 = k
        BY <3>2, <2>1, <2>2, <2>3
      <4>2. c[(k + 1) - 1] = b[k + 1]
        BY <4>1, <2>3
      <4> QED BY <3>2, <4>1, <4>2
    <3> QED BY <3>1, <3>2, <2>1, <2>2
  <2>5. ASSUME NEW j \in 1..Len(c), NEW k \in 1..Len(c), j < k PROVE c[j].id < c[k].id
    <3>1. \A l, n \in 1..Len(b) : l < n => b[l].id < b[n].id
      BY DEF Shows
    <3>0. Len(c) \in Nat /\ j \in Int /\ k \in Int /\ i \in Int
      BY <2>1, <2>2, <2>3
    <3>2. CASE j < i /\ k < i
      <4>1. j \in 1..Len(b) /\ c[j] = b[j] /\ k \in 1..Len(b) /\ c[k] = b[k]
        BY <3>0, <3>2, <2>4
      <4> QED BY <4>1, <3>1, <2>5
    <3>3. CASE j < i /\ k >= i
      <4>1. /\ j \in 1..Len(b) /\ c[j] = b[j]
            /\ k + 1 \in 1..Len(b) /\ c[k] = b[k + 1] /\ j < k + 1
        BY <3>0, <3>3, <2>4
      <4> QED BY <4>1, <3>1
    <3>4. CASE j >= i
      <4>1. /\ j + 1 \in 1..Len(b) /\ c[j] = b[j + 1]
            /\ k + 1 \in 1..Len(b) /\ c[k] = b[k + 1] /\ j + 1 < k + 1
        BY <3>0, <3>4, <2>4, <2>5
      <4> QED BY <4>1, <3>1
    <3> QED BY <3>2, <3>3, <3>4, <2>1, <2>2
  <2>6. ASSUME NEW k \in 1..Len(c) PROVE c[k].version = u[c[k].id]
    <3>1. PICK l \in 1..Len(b) : l # i /\ c[k] = b[l]
      BY <2>1, <2>2, <2>4
    <3>2. b[l].version = t[b[l].id]
      BY DEF Shows
    <3> QED BY <3>1, <3>2, <2>2, <1>1
  <2>7. ASSUME NEW k \in Present(u) PROVE \E j \in 1..Len(c) : c[j].id = k
    <3>1. PICK j \in 1..Len(b) : b[j].id = k /\ j # i
      BY <2>1, <1>1 DEF Shows
    <3>2. CASE j < i
      <4>1. j \in 1..Len(c) /\ c[j] = b[j]
        BY <3>2, <2>1, <2>2, <2>3
      <4> QED BY <3>1, <4>1
    <3>3. CASE j > i
      <4>1. j - 1 \in 1..Len(c) /\ c[j - 1] = b[j]
        BY <3>3, <2>1, <2>2, <2>3
      <4> QED BY <3>1, <4>1
    <3> QED BY <3>1, <3>2, <3>3, <2>1, <2>2
  <2>8. Shows(c, u)
    BY <2>3, <2>5, <2>6, <2>7 DEF Shows
  <2>9. i # 0
    BY <2>1, <2>2
  <2> QED BY <2>8, <2>9 DEF c, u, i, Drop
<1> QED BY <1>2, <1>3
-----------------------------------------------------------------------------
\* The bubble before is drawn again as the tree has it, which changes nothing.
DrawPrev(b, n) ==
    IF n.prev = 0 THEN b ELSE Redraw(b, n.prev, [id |-> n.prev, version |-> n.prevVersion])

\* For the neighbours in the very tree that the page shows.
LEMMA DrawPrevShows ==
    ASSUME NEW t \in Trees, NEW b, Shows(b, t), NEW m \in Ids
    PROVE  Shows(DrawPrev(b, getNeighbors(t, m)), t) /\ Shows(DrawPrev(b, NoNeighbors), t)
<1> DEFINE p == Prev(t, m)
           n == getNeighbors(t, m)
<1>1. n.prev = p /\ (p # 0 => n.prevVersion = t[p])
  BY DEF getNeighbors
<1>2. p = 0 \/ p \in Present(t)
  BY Neighbors
<1>3. NoNeighbors.prev = 0
  BY DEF NoNeighbors
<1> HIDE DEF n, p
<1>4. CASE p = 0
  BY <1>1, <1>3, <1>4 DEF DrawPrev, n
<1>5. CASE p # 0
  <2>1. p \in Ids /\ t[p] # None /\ t[p] \in Versions
    BY <1>2, <1>5 DEF Present, Trees
  <2>2. Shows(Redraw(b, p, [id |-> p, version |-> t[p]]), [t EXCEPT ![p] = t[p]])
    BY <2>1, RedrawShows
  <2>3. [t EXCEPT ![p] = t[p]] = t
    BY <2>1 DEF Trees
  <2> QED BY <1>1, <1>3, <1>5, <2>2, <2>3 DEF DrawPrev, n
<1> QED BY <1>4, <1>5

\* The callback draws the change, and then the bubble before.
LEMMA CallbackIs ==
    ASSUME NEW b, NEW m, NEW v, NEW nonce, NEW n, NEW x, x = [id |-> m, version |-> v]
    PROVE  /\ Callback(b, Event("add", m, v, nonce, n)) =
                  DrawPrev(Insert(b, Event("add", m, v, nonce, n), x), n)
           /\ Callback(b, Event("update", m, v, nonce, n)) =
                  DrawPrev(Redraw(b, IF nonce # 0 THEN nonce ELSE m, x), n)
BY DEF Callback, Event, DrawPrev

\* For a removed message there is no bubble to draw.
LEMMA CallbackDrops ==
    ASSUME NEW b, NEW m, NEW v, NEW nonce, NEW n
    PROVE  Callback(b, Event("remove", m, v, nonce, n)) = DrawPrev(Drop(b, m), n)
BY DEF Callback, Event, DrawPrev, Drop

\* The page follows each event that brings the whole change of the tree.
LEMMA CallbackAdds ==
    ASSUME NEW t \in Trees, NEW b, Shows(b, t), NEW m \in Ids, NEW v \in Versions,
           t[m] = None, NEW n, n = getNeighbors([t EXCEPT ![m] = v], m)
    PROVE  Shows(Callback(b, Event("add", m, v, 0, n)), [t EXCEPT ![m] = v])
<1> DEFINE x == [id |-> m, version |-> v]
           evt == Event("add", m, v, 0, n)
           u == [t EXCEPT ![m] = v]
<1>1. evt.neighbors = n
  BY DEF Event
<1>2. Callback(b, evt) = DrawPrev(Insert(b, evt, x), n)
  BY CallbackIs
<1>3. u \in Trees
  BY DEF Trees
<1>4. Shows(Insert(b, evt, x), u)
  <2> HIDE DEF evt
  <2> QED BY <1>1, InsertShows
<1> HIDE DEF evt, u, x
<1>5. Shows(DrawPrev(Insert(b, evt, x), getNeighbors(u, m)), u)
  BY <1>3, <1>4, DrawPrevShows
<1>6. n = getNeighbors(u, m)
  BY DEF u
<1> QED BY <1>2, <1>5, <1>6 DEF evt, u

\* An update; the message may be gone already, and then it stays so.
LEMMA CallbackUpdates ==
    ASSUME NEW t \in Trees, NEW b, Shows(b, t), NEW m \in Ids, NEW v \in Versions,
           NEW n, NEW u, u = (IF t[m] = None THEN t ELSE [t EXCEPT ![m] = v]),
           n \in {NoNeighbors, getNeighbors(u, m)}
    PROVE  Shows(Callback(b, Event("update", m, v, 0, n)), u)
<1> DEFINE c == Redraw(b, m, [id |-> m, version |-> v])
<1>1. Callback(b, Event("update", m, v, 0, n)) = DrawPrev(c, n)
  BY CallbackIs
<1>2. u \in Trees
  BY DEF Trees
<1>3. Shows(c, u)
  BY RedrawShows
<1> HIDE DEF c
<1>4. Shows(DrawPrev(c, n), u)
  BY <1>2, <1>3, DrawPrevShows
<1> QED BY <1>1, <1>4

\* A message in the place of its placeholder, where it also belongs.
TakenOver(t, p, m, v) == [t EXCEPT ![p] = None, ![m] = v]
Beside(t, p, m) == t[m] = None /\ ~Between(p, m, [t EXCEPT ![p] = None])

\* A message in the place of its placeholder.
LEMMA CallbackTakesOver ==
    ASSUME NEW t \in Trees, NEW b, Shows(b, t), NEW p \in Present(t), NEW m \in Ids,
           NEW v \in Versions, Beside(t, p, m)
    PROVE  LET u == TakenOver(t, p, m, v)
           IN Shows(Callback(b, Event("update", m, v, p, getNeighbors(u, m))), u)
<1> DEFINE c == Redraw(b, p, [id |-> m, version |-> v])
           u == TakenOver(t, p, m, v)
           n == getNeighbors(u, m)
<1>1. p # 0
  BY FeedAssumption DEF Present, Ids
<1>2. Callback(b, Event("update", m, v, p, n)) = DrawPrev(c, n)
  BY <1>1, CallbackIs
<1>3. u \in Trees
  BY DEF Trees, TakenOver
<1>4. Shows(c, u)
  BY TakeOverShows DEF TakenOver, Beside
<1> HIDE DEF c, u
<1>5. Shows(DrawPrev(c, n), u)
  BY <1>3, <1>4, DrawPrevShows
<1> QED BY <1>2, <1>5 DEF u

\* A removed message.
LEMMA CallbackRemoves ==
    ASSUME NEW t \in Trees, NEW b, Shows(b, t), NEW m \in Ids
    PROVE  Shows(Callback(b, Event("remove", m, None, 0, NoNeighbors)), [t EXCEPT ![m] = None])
<1> DEFINE c == Drop(b, m)
           u == [t EXCEPT ![m] = None]
<1>1. Callback(b, Event("remove", m, None, 0, NoNeighbors)) = DrawPrev(c, NoNeighbors)
  BY CallbackDrops
<1>2. u \in Trees
  BY DEF Trees
<1>3. Shows(c, u)
  BY RemoveShows
<1> HIDE DEF c, u
<1>4. Shows(DrawPrev(c, NoNeighbors), u)
  BY <1>2, <1>3, DrawPrevShows
<1> QED BY <1>1, <1>4 DEF u
-----------------------------------------------------------------------------
\* An event with a bubble to draw wherever it asks for one.
Sound(evt) ==
    /\ evt \in Events
    /\ evt.type # "remove" => evt.version \in Versions
    /\ evt.neighbors.prev # 0 => evt.neighbors.prevVersion \in Versions

SoundEvents == {evt \in Events : Sound(evt)}

\* A bubble that is drawn again leaves a page of bubbles.
LEMMA RedrawIsPage ==
    ASSUME NEW b \in Contents, NEW m, NEW x \in Bubble
    PROVE  Redraw(b, m, x) \in Contents
<1>1. At(b, m) = 0 \/ At(b, m) \in 1..Len(b)
  BY AtIs DEF Contents
<1> QED BY <1>1, Replaced DEF Redraw

\* The callback makes a page of any page, whatever tree it shows.
LEMMA CallbackIsPage ==
    ASSUME NEW b \in Contents, NEW evt \in SoundEvents
    PROVE  Callback(b, evt) \in Contents
<1> DEFINE x == [id |-> evt.id, version |-> evt.version]
           n == evt.neighbors
<1>1. /\ evt = Event(evt.type, evt.id, evt.version, evt.nonce, n)
      /\ evt.type \in {"add", "update", "remove"}
      /\ evt.id \in Ids
      /\ evt.type # "remove" => x \in Bubble
      /\ n.prev \in Ids \cup {0}
      /\ n.prev # 0 => n.prevVersion \in Versions
  BY DEF SoundEvents, Sound, Events, Event, Bubble
<1>2. ASSUME NEW c \in Contents PROVE DrawPrev(c, n) \in Contents
  <2>1. n.prev # 0 => [id |-> n.prev, version |-> n.prevVersion] \in Bubble
    BY <1>1 DEF Bubble
  <2> QED BY <2>1, RedrawIsPage DEF DrawPrev
<1>3. CASE evt.type = "add"
  <2>1. Callback(b, evt) = DrawPrev(Insert(b, evt, x), n)
    BY <1>1, <1>3, CallbackIs
  <2>2. Insert(b, evt, x) \in Contents
    <3>1. x \in Bubble
      BY <1>1, <1>3
    <3> DEFINE i == At(b, evt.neighbors.next)
               j == At(b, evt.neighbors.prev)
    <3>2. i \in 0..Len(b) /\ j \in 0..Len(b) /\ Len(b) \in Nat
      BY AtIs DEF Contents
    <3> HIDE DEF x
    <3>3. Append(b, x) \in Contents
      BY <3>1 DEF Contents
    <3>4. i # 0 => InsertAt(b, i, x) \in Contents
      BY <3>1, <3>2, Inserted
    <3>5. InsertAt(b, j + 1, x) \in Contents
      BY <3>1, <3>2, Inserted
    <3> QED BY <3>3, <3>4, <3>5 DEF Insert
  <2> QED BY <1>2, <2>1, <2>2
<1>4. CASE evt.type = "update"
  <2>1. Callback(b, evt) =
            DrawPrev(Redraw(b, IF evt.nonce # 0 THEN evt.nonce ELSE evt.id, x), n)
    BY <1>1, <1>4, CallbackIs
  <2>2. Redraw(b, IF evt.nonce # 0 THEN evt.nonce ELSE evt.id, x) \in Contents
    BY <1>1, <1>4, RedrawIsPage
  <2> QED BY <1>2, <2>1, <2>2
<1>5. CASE evt.type = "remove"
  <2>1. Callback(b, evt) = DrawPrev(Drop(b, evt.id), n)
    BY <1>1, <1>5, CallbackDrops
  <2>2. Drop(b, evt.id) \in Contents
    <3>1. At(b, evt.id) = 0 \/ At(b, evt.id) \in 1..Len(b)
      BY AtIs DEF Contents
    <3> QED BY <3>1, Removed DEF Drop
  <2> QED BY <1>2, <2>1, <2>2
<1> QED BY <1>1, <1>3, <1>4, <1>5
-----------------------------------------------------------------------------
(* The inductive invariant of Feed.                                         *)

\* The types, and events that the callback can draw.
Types ==
    /\ TypeOK
    /\ listenerCh \in Seq(SoundEvents)
    /\ late \subseteq SoundEvents

\* A text without its previews is a version.
LEMMA BareIsVersion == \A text \in Texts : Bare(text) \in Versions
BY DEF Bare, Versions

\* A window that shows no room has no bubbles.
LEMMA NothingIsContents == <<>> \in Contents
BY DEF Contents

\* To begin with there is nothing.
LEMMA InitTypes == Init => Types
<1> SUFFICES ASSUME Init PROVE Types
  OBVIOUS
<1>1. <<>> \in Seq(Events) /\ <<>> \in Seq(SoundEvents) /\ <<>> \in Seq(Bubble) /\ Len(<<>>) = 0
  OBVIOUS
<1>2. /\ tree \in [Ids -> Versions \cup {None}] /\ writes \in 0..MaxWrites
      /\ used \subseteq Placeholders /\ late \subseteq Events
  BY FeedAssumption DEF Init
<1>5. Len(listenerCh) <= ChanCap
  <2>1. listenerCh = <<>> /\ 0 <= ChanCap
    BY FeedAssumption DEF Init
  <2> QED BY <2>1, <1>1
<1>6. astray \in BOOLEAN
  BY DEF Init
<1>3. /\ receiver \in [stage : {"idle", "deleted", "removed"}, id : Ids \cup {0}]
      /\ receiver.stage = "idle" <=> receiver.id = 0
      /\ copies \in [Ids -> SUBSET Texts] /\ embeds \in [Ids -> [Texts -> Nat]]
      /\ page \in {"none", "rendered", "subscribed"}
  BY DEF Init
<1>4. TypeOK
  BY <1>1, <1>2, <1>3, <1>5, <1>6 DEF Init, TypeOK, Bubble
<1> QED BY <1>1, <1>4 DEF Init, Types

\* Every event that is made has what the callback draws.
LEMMA EventSound ==
    ASSUME NEW type \in {"add", "update", "remove"}, NEW m \in Ids,
           NEW v \in Versions \cup {None}, type # "remove" => v \in Versions,
           NEW nonce \in Placeholders \cup {0},
           NEW n, n = NoNeighbors \/ \E t \in Trees : n = getNeighbors(t, m)
    PROVE  Event(type, m, v, nonce, n) \in SoundEvents
<1>1. /\ n \in [prev : Ids \cup {0}, prevVersion : Versions \cup {None}, next : Ids \cup {0}]
      /\ n.prev # 0 => n.prevVersion \in Versions
  <2>1. CASE n = NoNeighbors
    BY <2>1 DEF NoNeighbors
  <2>2. ASSUME NEW t \in Trees, n = getNeighbors(t, m)
        PROVE  /\ n \in [prev : Ids \cup {0}, prevVersion : Versions \cup {None},
                         next : Ids \cup {0}]
               /\ n.prev # 0 => n.prevVersion \in Versions
    <3>1. /\ Prev(t, m) \in Ids \cup {0} /\ Next_(t, m) \in Ids \cup {0}
          /\ Prev(t, m) # 0 => t[Prev(t, m)] \in Versions
      BY Neighbors DEF Present, Trees
    <3> QED BY <2>2, <3>1 DEF getNeighbors
  <2> QED BY <2>1, <2>2
<1> QED BY <1>1 DEF SoundEvents, Sound, Events, Event

\* Sending keeps to the capacity of the channel.
LEMMA SendTypes ==
    ASSUME Types, NEW evt \in SoundEvents, sendEventToListeners(evt)
    PROVE  /\ listenerCh' \in Seq(SoundEvents) /\ Len(listenerCh') <= ChanCap
           /\ late' \subseteq SoundEvents
<1>1. /\ listenerCh \in Seq(SoundEvents) /\ Len(listenerCh) <= ChanCap
      /\ late \subseteq SoundEvents
  BY DEF Types, TypeOK
<1>2. Len(listenerCh) \in Nat /\ ChanCap \in Nat
  BY <1>1, FeedAssumption
<1>3. /\ Append(listenerCh, evt) \in Seq(SoundEvents)
      /\ Len(Append(listenerCh, evt)) = Len(listenerCh) + 1
  BY <1>1
<1> QED BY <1>1, <1>2, <1>3 DEF sendEventToListeners

\* What Set writes and sends.
LEMMA SetTypes ==
    ASSUME Types, NEW m \in Ids, NEW v \in Versions, NEW nonce \in {0} \cup Placeholders,
           Set(m, v, nonce)
    PROVE  /\ tree' \in Trees
           /\ listenerCh' \in Seq(SoundEvents) /\ Len(listenerCh') <= ChanCap
           /\ late' \subseteq SoundEvents
           /\ astray' \in BOOLEAN
<1> DEFINE without == IF nonce = 0 THEN tree ELSE [tree EXCEPT ![nonce] = None]
           after == [without EXCEPT ![m] = v]
           type == IF nonce = 0 /\ without[m] = None THEN "add" ELSE "update"
           evt == Event(type, m, v, nonce, getNeighbors(after, m))
<1>1. tree' = after /\ sendEventToListeners(evt)
  BY DEF Set
<1>2. astray' \in BOOLEAN
  BY DEF Set
<1>3. tree \in Trees /\ after \in Trees
  BY DEF Types, TypeOK, Trees
<1>4. type \in {"add", "update", "remove"} /\ type # "remove"
  OBVIOUS
<1> HIDE DEF after, type
<1>5. evt \in SoundEvents
  BY <1>3, <1>4, EventSound
<1> HIDE DEF evt
<1> QED BY <1>1, <1>2, <1>3, <1>5, SendTypes

\* A sound event is an event.
LEMMA SoundAreEvents == Seq(SoundEvents) \subseteq Seq(Events) /\ SoundEvents \subseteq Events
BY DEF SoundEvents

\* What a step leaves as it is, and what the types of the rest follow from.
LEMMA TypesFrom ==
    ASSUME Types, tree' \in Trees, writes' \in 0..MaxWrites, used' \subseteq Placeholders,
           receiver' \in [stage : {"idle", "deleted", "removed"}, id : Ids \cup {0}],
           receiver'.stage = "idle" <=> receiver'.id = 0,
           copies' \in [Ids -> SUBSET Texts], embeds' \in [Ids -> [Texts -> Nat]],
           listenerCh' \in Seq(SoundEvents), Len(listenerCh') <= ChanCap,
           late' \subseteq SoundEvents, page' \in {"none", "rendered", "subscribed"},
           shown' \in Contents, astray' \in BOOLEAN
    PROVE  Types'
BY SoundAreEvents DEF Types, TypeOK, Trees, Contents, Bubble

\* The types one by one, so that a step can cite them.
LEMMA TypesAre ==
    ASSUME Types
    PROVE  /\ tree \in Trees /\ writes \in 0..MaxWrites /\ used \subseteq Placeholders
           /\ receiver \in [stage : {"idle", "deleted", "removed"}, id : Ids \cup {0}]
           /\ receiver.stage = "idle" <=> receiver.id = 0
           /\ copies \in [Ids -> SUBSET Texts] /\ embeds \in [Ids -> [Texts -> Nat]]
           /\ listenerCh \in Seq(SoundEvents) /\ Len(listenerCh) <= ChanCap
           /\ late \subseteq SoundEvents
           /\ page \in {"none", "rendered", "subscribed"} /\ shown \in Contents
           /\ astray \in BOOLEAN
BY DEF Types, TypeOK, Trees, Contents, Bubble

\* Every step keeps the types.
LEMMA TypesStep == Types /\ [Next]_vars => Types'
<1> SUFFICES ASSUME Types, [Next]_vars PROVE Types'
  OBVIOUS
<1> USE TypesAre, TypesFrom
<1>1. ASSUME Write PROVE writes' \in 0..MaxWrites
  BY <1>1, FeedAssumption DEF Write
<1>2. ASSUME NEW p \in Ids, SetPlaceholder(p) PROVE Types'
  <2>1. Bare("plain") \in Versions /\ 0 \in {0} \cup Placeholders
    BY FeedAssumption, BareIsVersion
  <2>2. /\ tree' \in Trees
        /\ listenerCh' \in Seq(SoundEvents) /\ Len(listenerCh') <= ChanCap
        /\ late' \subseteq SoundEvents /\ astray' \in BOOLEAN
    BY <1>2, <2>1, SetTypes DEF SetPlaceholder
  <2> QED BY <1>1, <1>2, <2>2 DEF SetPlaceholder
<1>3. ASSUME NEW m \in Ids, NEW text \in Texts, NEW nonce \in {0} \cup Placeholders,
             SetMessage(m, text, nonce)
      PROVE  Types'
  <2>1. Bare(text) \in Versions
    BY BareIsVersion
  <2>2. /\ tree' \in Trees
        /\ listenerCh' \in Seq(SoundEvents) /\ Len(listenerCh') <= ChanCap
        /\ late' \subseteq SoundEvents /\ astray' \in BOOLEAN
    BY <1>3, <2>1, SetTypes DEF SetMessage
  <2>3. copies' \in [Ids -> SUBSET Texts]
    BY <1>3 DEF SetMessage
  <2> QED BY <1>1, <1>3, <2>2, <2>3 DEF SetMessage
<1>4. ASSUME NEW m \in Ids, DeleteMessage(m) PROVE Types'
  <2>1. tree' \in Trees
    BY <1>4 DEF DeleteMessage, Trees
  <2>2. m # 0
    BY FeedAssumption DEF Ids
  <2> QED BY <1>1, <1>4, <2>1, <2>2 DEF DeleteMessage
<1>5. ASSUME NEW m \in Ids, NEW text \in Texts, ApplyEmbeds(m, text) PROVE Types'
  <2>1. tree' \in Trees /\ astray' \in BOOLEAN
    BY <1>5 DEF ApplyEmbeds, Trees, Versions
  <2>2. embeds' \in [Ids -> [Texts -> Nat]]
    BY <1>5 DEF ApplyEmbeds
  <2> QED BY <1>1, <1>5, <2>1, <2>2 DEF ApplyEmbeds
<1>6. ASSUME SendRemove PROVE Types'
  <2>1. Event("remove", receiver.id, None, 0, NoNeighbors) \in SoundEvents
    BY <1>6, EventSound DEF SendRemove
  <2>2. /\ listenerCh' \in Seq(SoundEvents) /\ Len(listenerCh') <= ChanCap
        /\ late' \subseteq SoundEvents
    BY <1>6, <2>1, SendTypes DEF SendRemove
  <2>3. astray' \in BOOLEAN
    BY <1>6 DEF SendRemove
  <2> QED BY <1>6, <2>2, <2>3 DEF SendRemove
<1>7. ASSUME NEW previews \in BOOLEAN, SetRedacted(previews) PROVE Types'
  <2>1. /\ [text |-> "redacted", previews |-> previews] \in Versions
        /\ 0 \in {0} \cup Placeholders /\ receiver.id \in Ids
    BY <1>7, FeedAssumption DEF Versions, SetRedacted
  <2>2. /\ tree' \in Trees
        /\ listenerCh' \in Seq(SoundEvents) /\ Len(listenerCh') <= ChanCap
        /\ late' \subseteq SoundEvents /\ astray' \in BOOLEAN
    BY <1>7, <2>1, SetTypes DEF SetRedacted
  <2>3. copies' \in [Ids -> SUBSET Texts]
    BY <1>7, FeedAssumption DEF SetRedacted
  <2> QED BY <1>7, <2>2, <2>3 DEF SetRedacted
<1>8. ASSUME NEW m \in Ids, NEW text \in Texts, SendEmbeds(m, text) PROVE Types'
  <2>1. Event("update", m, [text |-> text, previews |-> TRUE], 0, NoNeighbors) \in SoundEvents
    BY EventSound DEF Versions
  <2>2. /\ listenerCh' \in Seq(SoundEvents) /\ Len(listenerCh') <= ChanCap
        /\ late' \subseteq SoundEvents
    BY <1>8, <2>1, SendTypes DEF SendEmbeds
  <2>3. astray' \in BOOLEAN
    BY <1>8 DEF SendEmbeds
  <2>4. embeds' \in [Ids -> [Texts -> Nat]]
    BY <1>8 DEF SendEmbeds
  <2> QED BY <1>8, <2>2, <2>3, <2>4 DEF SendEmbeds
<1>9. ASSUME NEW evt \in late, LateSend(evt) PROVE Types'
  <2>1. /\ Append(listenerCh, evt) \in Seq(SoundEvents)
        /\ Len(Append(listenerCh, evt)) = Len(listenerCh) + 1 /\ Len(listenerCh) \in Nat
    OBVIOUS
  <2>2. Len(listenerCh') <= ChanCap
    BY <1>9, <2>1, FeedAssumption DEF LateSend, Overflows
  <2> QED BY <1>9, <2>1, <2>2 DEF LateSend
<1>10. ASSUME NEW evt \in late, LateTimeout(evt) PROVE Types'
  BY <1>10 DEF LateTimeout
<1>11. ASSUME NEW full \in BOOLEAN, Transmit(full) PROVE Types'
  <2>1. /\ Tail(listenerCh) \in Seq(SoundEvents) /\ Head(listenerCh) \in SoundEvents
        /\ Len(Tail(listenerCh)) = Len(listenerCh) - 1 /\ Len(listenerCh) \in Nat
    BY <1>11 DEF Transmit
  <2>2. Callback(shown, Head(listenerCh)) \in Contents
    BY <2>1, CallbackIsPage
  <2>3. Len(listenerCh') <= ChanCap
    BY <1>11, <2>1, FeedAssumption DEF Transmit
  <2>4. astray' \in BOOLEAN
    BY <1>11 DEF Transmit
  <2> QED BY <1>11, <2>1, <2>2, <2>3, <2>4 DEF Transmit
<1>12. ASSUME Chronological PROVE Types'
  <2>1. Bubbles(tree) \in Contents
    BY BubblesShow DEF Shows
  <2>2. astray' \in BOOLEAN
    BY <1>12 DEF Chronological
  <2> QED BY <1>12, <2>1, <2>2 DEF Chronological
<1>13. ASSUME SubscribeRoom \/ LeavePage PROVE Types'
  BY <1>13, NothingIsContents DEF SubscribeRoom, LeavePage
<1>14. ASSUME UNCHANGED vars PROVE Types'
  BY <1>14 DEF vars
<1> QED
  BY <1>2, <1>3, <1>4, <1>5, <1>6, <1>7, <1>8, <1>9, <1>10, <1>11, <1>12, <1>13, <1>14 DEF Next
-----------------------------------------------------------------------------
\* What a redaction and previews have written and not yet sent: while there are
\* unsent previews of a message, those that the tree holds are among them.
Drawing(m) == tree[m].previews /\ embeds[m][tree[m].text] # 0

Pending ==
    ~astray =>
        /\ late = {}
        /\ receiver.stage = "deleted" => tree[receiver.id] = None
        /\ \A m \in Ids, text \in Texts :
               embeds[m][text] # 0 /\ tree[m] # None => Drawing(m)

\* A tree that has been announced may differ in what is yet to be sent,
Differs(t, m) ==
    \/ m = receiver.id /\ receiver.stage = "deleted" /\ tree[m] = None
    \/ tree[m] # None /\ Drawing(m) /\ t[m] # None

\* and in nothing else.
Announced(t) == \A m \in Ids : t[m] = tree[m] \/ Differs(t, m)

\* A page with the events on their way to it shows what has been announced.
Carried ==
    page \in {"rendered", "subscribed"} /\ ~astray
        => \E t \in Trees : Shows(After(shown, listenerCh), t) /\ Announced(t)

FeedInv == Types /\ Pending /\ Carried

\* Nothing is under way: the tree that was announced is the tree.
LEMMA AnnouncedAll ==
    ASSUME Types, ~Unsent, NEW t \in Trees, Announced(t)
    PROVE  t = tree
<1>1. (\A m \in Ids, text \in Texts : embeds[m][text] = 0) /\ receiver.stage # "deleted"
  BY DEF Unsent
<1>2. \A m \in Ids : t[m] = tree[m]
  <2>1. \A m \in Ids : tree[m] # None => tree[m].text \in Texts
    BY TypesAre DEF Trees, Versions
  <2> QED BY <1>1, <2>1 DEF Announced, Differs, Drawing
<1>3. tree \in Trees
  BY TypesAre
<1> QED BY <1>2, <1>3 DEF Trees

\* The page with one more event on its way.
LEMMA SendCarries ==
    ASSUME Types, NEW evt \in SoundEvents, sendEventToListeners(evt), ~Overflows
    PROVE  /\ After(shown, listenerCh') = Callback(After(shown, listenerCh), evt)
           /\ late' = late
<1>1. listenerCh' = Append(listenerCh, evt) /\ late' = late
  <2>1. Len(listenerCh) \in Nat /\ ChanCap \in Nat
    BY TypesAre, FeedAssumption
  <2> QED BY <2>1 DEF sendEventToListeners, Overflows
<1>2. listenerCh \in Seq(SoundEvents)
  BY TypesAre
<1> QED BY <1>1, <1>2, AfterAppend

\* Set announces all that it writes: what the page will be shows the tree.
LEMMA SetCarries ==
    ASSUME FeedInv, NEW m \in Ids, NEW v \in Versions, NEW nonce \in {0} \cup Placeholders,
           nonce = 0 \/ nonce \in Present(tree), nonce # m, Set(m, v, nonce), ~astray',
           UNCHANGED <<page, shown>>
    PROVE  /\ ~Unsent /\ late' = {}
           /\ page \in {"rendered", "subscribed"}
                  => Shows(After(shown', listenerCh'), tree')
<1> DEFINE without == IF nonce = 0 THEN tree ELSE [tree EXCEPT ![nonce] = None]
           after == [without EXCEPT ![m] = v]
           type == IF nonce = 0 /\ without[m] = None THEN "add" ELSE "update"
           evt == Event(type, m, v, nonce, getNeighbors(after, m))
           b == After(shown, listenerCh)
<1>1. tree' = after /\ sendEventToListeners(evt)
  BY DEF Set
<1>2. /\ ~astray /\ ~Overflows /\ ~Unsent
      /\ nonce # 0 => without[m] = None /\ ~Between(nonce, m, without)
  BY DEF Set
<1>3. tree \in Trees /\ after \in Trees
  BY TypesAre DEF FeedInv, Trees
<1>4. evt \in SoundEvents
  <2>1. type \in {"add", "update", "remove"} /\ type # "remove"
    OBVIOUS
  <2> HIDE DEF type, after
  <2> QED BY <1>3, <2>1, EventSound
<1>5. After(shown, listenerCh') = Callback(b, evt) /\ late' = late
  <2> HIDE DEF evt
  <2> QED BY <1>1, <1>2, <1>4, SendCarries DEF FeedInv
<1>6. late = {}
  BY <1>2 DEF FeedInv, Pending
<1>7. ASSUME page \in {"rendered", "subscribed"} PROVE Shows(Callback(b, evt), after)
  <2>1. Shows(b, tree)
    BY <1>2, <1>7, AnnouncedAll DEF FeedInv, Carried
  <2> HIDE DEF b
  <2>2. CASE nonce = 0 /\ tree[m] = None
    <3>1. evt = Event("add", m, v, 0, getNeighbors([tree EXCEPT ![m] = v], m))
          /\ after = [tree EXCEPT ![m] = v]
      BY <2>2
    <3> HIDE DEF evt, after
    <3> QED BY <1>3, <2>1, <2>2, <3>1, CallbackAdds
  <2>3. CASE nonce = 0 /\ tree[m] # None
    <3>1. evt = Event("update", m, v, 0, getNeighbors(after, m))
          /\ after = [tree EXCEPT ![m] = v]
      BY <2>3
    <3>2. after = IF tree[m] = None THEN tree ELSE [tree EXCEPT ![m] = v]
      BY <2>3
    <3> HIDE DEF evt, after
    <3>3. Shows(Callback(b, Event("update", m, v, 0, getNeighbors(after, m))), after)
      BY <1>3, <2>1, <3>2, CallbackUpdates
    <3> QED BY <3>1, <3>3
  <2>4. CASE nonce # 0
    <3>1. /\ evt = Event("update", m, v, nonce, getNeighbors(after, m))
          /\ after = TakenOver(tree, nonce, m, v)
      BY <2>4 DEF TakenOver
    <3>2. nonce \in Present(tree)
      BY <2>4
    <3>3. Beside(tree, nonce, m)
      BY <1>2, <1>3, <2>4 DEF Beside, Trees
    <3> HIDE DEF evt, after
    <3> QED BY <1>3, <2>1, <3>1, <3>2, <3>3, CallbackTakesOver
  <2> QED BY <2>2, <2>3, <2>4
<1> QED BY <1>1, <1>2, <1>5, <1>6, <1>7

\* All that was written has been announced.
LEMMA CarriedWhole ==
    ASSUME tree' \in Trees, ~Unsent',
           ~astray' => late' = {},
           ~astray' /\ page' \in {"rendered", "subscribed"}
               => Shows(After(shown', listenerCh'), tree')
    PROVE  Pending' /\ Carried'
<1>1. Pending'
  BY DEF Pending, Unsent
<1>2. Announced(tree)'
  BY DEF Announced
<1>3. Carried'
  BY <1>2 DEF Carried, Announced
<1> QED BY <1>1, <1>3

\* Every step keeps the rest of the invariant.
LEMMA CarriedStep ==
    ASSUME FeedInv, Types', [Next]_vars
    PROVE  Pending' /\ Carried'
<1> SUFFICES ASSUME ~astray' PROVE Pending' /\ Carried'
  BY DEF Pending, Carried
<1>0. /\ Types /\ Pending /\ Carried
      /\ tree \in Trees /\ tree' \in Trees /\ listenerCh \in Seq(SoundEvents)
  BY TypesAre DEF FeedInv, Types, TypeOK, Trees
<1>12. 0 \notin Ids
  BY FeedAssumption DEF Ids
<1>1. ASSUME NEW p \in Ids, SetPlaceholder(p) PROVE Pending' /\ Carried'
  <2>1. Bare("plain") \in Versions /\ 0 \in {0} \cup Placeholders /\ p # 0
    BY <1>0, <1>12, FeedAssumption, BareIsVersion
  <2>2. /\ ~Unsent /\ late' = {}
        /\ page \in {"rendered", "subscribed"} => Shows(After(shown', listenerCh'), tree')
    BY <1>1, <2>1, SetCarries DEF SetPlaceholder
  <2>3. ~Unsent' /\ page' = page
    BY <1>1, <2>2 DEF SetPlaceholder, Unsent
  <2> QED BY <1>0, <2>2, <2>3, CarriedWhole
<1>2. ASSUME NEW m \in Ids, NEW text \in Texts, NEW nonce \in {0} \cup Placeholders,
             SetMessage(m, text, nonce)
      PROVE  Pending' /\ Carried'
  <2>1. /\ Bare(text) \in Versions /\ nonce # m
        /\ nonce = 0 \/ nonce \in Present(tree)
    BY <1>0, <1>12, <1>2, BareIsVersion DEF SetMessage
  <2>2. /\ ~Unsent /\ late' = {}
        /\ page \in {"rendered", "subscribed"} => Shows(After(shown', listenerCh'), tree')
    BY <1>2, <2>1, SetCarries DEF SetMessage
  <2>3. ~Unsent' /\ page' = page
    BY <1>2, <2>2 DEF SetMessage, Unsent
  <2> QED BY <1>0, <2>2, <2>3, CarriedWhole
<1>3. ASSUME NEW previews \in BOOLEAN, SetRedacted(previews) PROVE Pending' /\ Carried'
  <2>1. /\ [text |-> "redacted", previews |-> previews] \in Versions
        /\ 0 \in {0} \cup Placeholders /\ receiver.id \in Ids
    BY <1>0, <1>3, TypesAre, FeedAssumption DEF Versions, SetRedacted
  <2>2. /\ ~Unsent /\ late' = {}
        /\ page \in {"rendered", "subscribed"} => Shows(After(shown', listenerCh'), tree')
    BY <1>0, <1>12, <1>3, <2>1, SetCarries DEF SetRedacted
  <2>3. ~Unsent' /\ page' = page
    BY <1>3, <2>2 DEF SetRedacted, Unsent
  <2> QED BY <1>0, <2>2, <2>3, CarriedWhole
<1>4. ASSUME NEW m \in Ids, DeleteMessage(m) PROVE Pending' /\ Carried'
  <2>1. /\ m \in Present(tree) /\ tree' = [tree EXCEPT ![m] = None]
        /\ receiver.stage = "idle" /\ receiver' = [stage |-> "deleted", id |-> m]
        /\ UNCHANGED <<embeds, listenerCh, late, page, shown, astray>>
    BY <1>4 DEF DeleteMessage
  <2>2. /\ tree'[m] = None /\ \A k \in Ids \ {m} : tree'[k] = tree[k]
        /\ receiver'.stage = "deleted" /\ receiver'.id = m
    BY <1>0, <2>1 DEF Trees
  <2>3. Pending'
    BY <1>0, <2>1, <2>2 DEF Pending, Drawing
  <2>4. ASSUME NEW t \in Trees, Announced(t) PROVE Announced(t)'
    <3> SUFFICES ASSUME NEW k \in Ids PROVE t[k] = tree'[k] \/ Differs(t, k)'
      BY DEF Announced
    <3>1. t[k] = tree[k] \/ Differs(t, k)
      BY <2>4 DEF Announced
    <3> QED BY <3>1, <2>1, <2>2 DEF Differs, Drawing
  <2>5. Carried'
    BY <1>0, <2>1, <2>4 DEF Carried
  <2> QED BY <2>3, <2>5
<1>5. ASSUME SendRemove PROVE Pending' /\ Carried'
  <2> DEFINE r == receiver.id
             evt == Event("remove", r, None, 0, NoNeighbors)
  <2>1. /\ receiver.stage = "deleted" /\ sendEventToListeners(evt)
        /\ receiver' = [receiver EXCEPT !.stage = "removed"]
        /\ ~astray /\ ~Overflows /\ r \in Ids
        /\ UNCHANGED <<tree, embeds, page, shown>>
    BY <1>5, <1>0, TypesAre DEF SendRemove
  <2>2. receiver'.stage = "removed"
    BY <2>1, TypesAre, <1>0
  <2>3. tree[r] = None /\ late = {}
    BY <1>0, <2>1 DEF Pending
  <2>4. evt \in SoundEvents
    BY <2>1, EventSound
  <2>5. Callback(After(shown, listenerCh), evt) = After(shown, listenerCh') /\ late' = late
    <3> HIDE DEF evt
    <3> QED BY <1>0, <2>1, <2>4, SendCarries
  <2>6. Pending'
    BY <1>0, <2>1, <2>2, <2>3, <2>5 DEF Pending, Drawing
  <2>7. ASSUME NEW t \in Trees, Shows(After(shown, listenerCh), t), Announced(t)
        PROVE  \E u \in Trees : Shows(After(shown', listenerCh'), u) /\ Announced(u)'
    <3>0. PICK u \in Trees : u = [t EXCEPT ![r] = None]
      BY DEF Trees
    <3>1. u \in Trees /\ u[r] = None /\ \A k \in Ids \ {r} : u[k] = t[k]
      BY <2>1, <3>0 DEF Trees
    <3>2. Shows(Callback(After(shown, listenerCh), evt), u)
      BY <2>1, <2>7, <3>0, CallbackRemoves
    <3>3. ASSUME NEW k \in Ids PROVE u[k] = tree'[k] \/ Differs(u, k)'
      <4>1. t[k] = tree[k] \/ Differs(t, k)
        BY <2>7 DEF Announced
      <4> QED BY <4>1, <2>1, <2>2, <2>3, <3>1 DEF Differs, Drawing
    <3>4. Announced(u)'
      BY <3>3 DEF Announced
    <3> QED BY <3>1, <3>2, <3>4, <2>1, <2>5
  <2>8. Carried'
    BY <1>0, <2>1, <2>7 DEF Carried
  <2> QED BY <2>6, <2>8
<1>6. ASSUME NEW m \in Ids, NEW text \in Texts, ApplyEmbeds(m, text)
      PROVE  Pending' /\ Carried'
  <2>1. /\ embeds' = [embeds EXCEPT ![m][text] = @ + 1]
        /\ tree' = [tree EXCEPT ![m] = [text |-> text, previews |-> TRUE]]
        /\ ~astray /\ tree[m] # None
        /\ UNCHANGED <<receiver, listenerCh, late, page, shown>>
    BY <1>6 DEF ApplyEmbeds
  <2>2. /\ tree'[m] = [text |-> text, previews |-> TRUE]
        /\ embeds'[m][text] # 0
        /\ \A k \in Ids \ {m} : tree'[k] = tree[k] /\ embeds'[k] = embeds[k]
    BY <1>0, <2>1, TypesAre DEF Trees
  <2>3. Drawing(m)'
    BY <2>2 DEF Drawing
  <2>4. Pending'
    BY <1>0, <2>1, <2>2, <2>3 DEF Pending, Drawing
  <2>5. ASSUME NEW t \in Trees, Announced(t) PROVE Announced(t)'
    <3> SUFFICES ASSUME NEW k \in Ids PROVE t[k] = tree'[k] \/ Differs(t, k)'
      BY DEF Announced
    <3>1. t[k] = tree[k] \/ Differs(t, k)
      BY <2>5 DEF Announced
    <3>2. CASE k = m
      <4>1. t[m] # None
        BY <2>1, <3>1, <3>2 DEF Differs
      <4>2. tree'[m] # None
        <5>1. tree'[m] \in Versions
          BY <2>2 DEF Versions
        <5> QED BY <5>1, NoneIsNoVersion
      <4> QED BY <2>3, <3>2, <4>1, <4>2 DEF Differs
    <3>3. CASE k # m
      BY <2>1, <2>2, <3>1, <3>3 DEF Differs, Drawing
    <3> QED BY <3>2, <3>3
  <2>6. Carried'
    BY <1>0, <2>1, <2>5 DEF Carried
  <2> QED BY <2>4, <2>6
<1>7. ASSUME NEW m \in Ids, NEW text \in Texts, SendEmbeds(m, text)
      PROVE  Pending' /\ Carried'
  <2> DEFINE v == [text |-> text, previews |-> TRUE]
             evt == Event("update", m, v, 0, NoNeighbors)
  <2>1. /\ embeds[m][text] # 0 /\ sendEventToListeners(evt)
        /\ embeds' = [embeds EXCEPT ![m][text] = @ - 1]
        /\ ~astray /\ ~Overflows /\ ~Overtaken(m, embeds')
        /\ UNCHANGED <<tree, receiver, page, shown>>
    BY <1>7 DEF SendEmbeds
  <2>2. late = {} /\ (tree[m] # None => Drawing(m))
    BY <1>0, <2>1 DEF Pending
  <2>a. v \in Versions
    BY DEF Versions
  <2>3. v \in Versions /\ v # None
    BY <2>a, NoneIsNoVersion
  <2>4. evt \in SoundEvents
    <3> HIDE DEF v
    <3> QED BY <2>3, EventSound
  <2>5. Callback(After(shown, listenerCh), evt) = After(shown, listenerCh') /\ late' = late
    <3> HIDE DEF evt
    <3> QED BY <1>0, <2>1, <2>4, SendCarries
  <2>6. /\ \A k \in Ids \ {m} : embeds'[k] = embeds[k]
        /\ \A x \in Texts \ {text} : embeds'[m][x] = embeds[m][x]
    BY <2>1, <1>0, TypesAre
  \* While previews are unsent, those that the tree holds are: none was overtaken.
  <2>7. Pending'
    <3>1. ASSUME NEW k \in Ids, NEW x \in Texts, embeds'[k][x] # 0, tree'[k] # None
          PROVE  Drawing(k)'
      <4>1. CASE k = m
        BY <2>1, <2>2, <3>1, <4>1 DEF Drawing, Overtaken
      <4>2. CASE k # m
        <5>1. Drawing(k)
          BY <1>0, <2>1, <2>6, <3>1, <4>2 DEF Pending
        <5> QED BY <2>1, <2>6, <4>2, <5>1 DEF Drawing
      <4> QED BY <4>1, <4>2
    <3> QED BY <1>0, <2>1, <2>5, <3>1 DEF Pending
  <2>8. ASSUME NEW t \in Trees, Shows(After(shown, listenerCh), t), Announced(t)
        PROVE  \E u \in Trees : Shows(After(shown', listenerCh'), u) /\ Announced(u)'
    <3> HIDE DEF v
    <3>0. PICK u \in Trees : u = IF t[m] = None THEN t ELSE [t EXCEPT ![m] = v]
      BY <2>3 DEF Trees
    <3>1. /\ u \in Trees /\ \A k \in Ids \ {m} : u[k] = t[k]
          /\ t[m] = None => u[m] = None
          /\ t[m] # None => u[m] = v
      BY <2>1, <2>3, <3>0 DEF Trees
    <3>2. Shows(Callback(After(shown, listenerCh), evt), u)
      BY <2>1, <2>3, <2>8, <3>0, CallbackUpdates
    <3>3. ASSUME NEW k \in Ids PROVE u[k] = tree'[k] \/ Differs(u, k)'
      <4>1. t[k] = tree[k] \/ Differs(t, k)
        BY <2>8 DEF Announced
      <4>2. CASE k # m
        BY <4>1, <4>2, <2>1, <2>6, <3>1 DEF Differs, Drawing
      <4>3. CASE k = m /\ tree[m] = None
        BY <4>1, <4>3, <2>1, <3>1 DEF Differs
      <4>4. CASE k = m /\ tree[m] # None
        <5>1. Drawing(m) /\ t[m] # None /\ u[m] = v
          BY <2>2, <3>1, <4>1, <4>4 DEF Differs
        <5>2. tree[m] \in Versions
          BY <1>0, <4>4 DEF Trees
        <5>3. CASE tree[m].text = text
          <6>1. tree[m] = v
            BY <5>1, <5>2, <5>3 DEF Drawing, Versions, v
          <6> QED BY <2>1, <4>4, <5>1, <6>1
        <5>4. CASE tree[m].text # text
          <6>1. tree[m].text \in Texts
            BY <5>2 DEF Versions
          <6>2. Drawing(m)'
            BY <2>1, <2>6, <5>1, <5>4, <6>1 DEF Drawing
          <6> QED BY <2>1, <2>3, <4>4, <5>1, <6>2 DEF Differs
        <5> QED BY <5>3, <5>4
      <4> QED BY <4>2, <4>3, <4>4
    <3>4. Announced(u)'
      BY <3>3 DEF Announced
    <3> QED BY <3>1, <3>2, <3>4, <2>1, <2>5
  <2>9. Carried'
    BY <1>0, <2>1, <2>8 DEF Carried
  <2> QED BY <2>7, <2>9
<1>8. ASSUME NEW evt \in late, LateSend(evt) \/ LateTimeout(evt) PROVE Pending' /\ Carried'
  <2>1. ~astray /\ late # {}
    BY <1>8 DEF LateSend, LateTimeout
  <2> QED BY <2>1, <1>0 DEF Pending
<1>9. ASSUME NEW full \in BOOLEAN, Transmit(full) PROVE Pending' /\ Carried'
  <2>1. /\ listenerCh # <<>> /\ listenerCh' = Tail(listenerCh)
        /\ ~astray /\ page # "rendered" /\ ~full
        /\ shown' = IF page = "subscribed" THEN Callback(shown, Head(listenerCh)) ELSE shown
        /\ UNCHANGED <<tree, receiver, embeds, late, page>>
    BY <1>9 DEF Transmit
  <2>2. Pending'
    BY <1>0, <2>1 DEF Pending, Drawing
  <2>3. page = "subscribed" => After(shown', listenerCh') = After(shown, listenerCh)
    BY <1>0, <2>1, AfterTail
  <2>4. ASSUME NEW t \in Trees, Announced(t) PROVE Announced(t)'
    BY <2>1, <2>4 DEF Announced, Differs, Drawing
  <2>5. Carried'
    BY <1>0, <2>1, <2>3, <2>4 DEF Carried
  <2> QED BY <2>2, <2>5
<1>10. ASSUME Chronological PROVE Pending' /\ Carried'
  <2>1. /\ shown' = Bubbles(tree) /\ listenerCh = <<>> /\ late = {} /\ ~Unsent
        /\ UNCHANGED <<tree, receiver, embeds, listenerCh, late>>
    BY <1>10 DEF Chronological
  <2>2. After(shown', listenerCh') = Bubbles(tree)
    BY <2>1, AfterNothing
  <2>3. Shows(After(shown', listenerCh'), tree')
    BY <1>0, <2>1, <2>2, BubblesShow
  <2>4. ~Unsent'
    BY <2>1 DEF Unsent
  <2> QED BY <1>0, <2>1, <2>3, <2>4, CarriedWhole
<1>11. ASSUME SubscribeRoom \/ LeavePage \/ UNCHANGED vars PROVE Pending' /\ Carried'
  <2>1. /\ UNCHANGED <<tree, receiver, embeds, listenerCh, late, astray>>
        /\ page' \in {"rendered", "subscribed"} =>
               page \in {"rendered", "subscribed"} /\ shown' = shown
    BY <1>11 DEF SubscribeRoom, LeavePage, vars
  <2>2. ASSUME NEW t \in Trees, Announced(t) PROVE Announced(t)'
    BY <2>1, <2>2 DEF Announced, Differs, Drawing
  <2>3. Pending' /\ Carried'
    BY <1>0, <2>1, <2>2 DEF Pending, Carried, Drawing
  <2> QED BY <2>3
<1> QED
  BY <1>1, <1>2, <1>3, <1>4, <1>5, <1>6, <1>7, <1>8, <1>9, <1>10, <1>11 DEF Next

\* With nothing unsent the page that is on its way is the tree.
LEMMA CaughtUp == FeedInv => PageCatchesUp
<1> SUFFICES ASSUME FeedInv, page = "subscribed", ~astray, ~Unsent
             PROVE  After(shown, listenerCh) = Bubbles(tree)
  BY DEF PageCatchesUp
<1>1. PICK t \in Trees : Shows(After(shown, listenerCh), t) /\ Announced(t)
  BY DEF FeedInv, Carried
<1>2. t = tree
  BY <1>1, AnnouncedAll DEF FeedInv
<1>3. Shows(Bubbles(tree), tree)
  BY <1>2, BubblesShow
<1> QED BY <1>1, <1>2, <1>3, ShowsOnePage

\* No page is open yet.
LEMMA InitFeedInv == Init => FeedInv
BY InitTypes DEF Init, FeedInv, Pending, Carried

\* The inductive invariant of Feed: fetchAndApplyEmbeds and DeleteMessage leave
\* no difference between the tree and the page but the one they have yet to send.
THEOREM FeedInvariant == Spec => []FeedInv
<1>1. Init => FeedInv
  BY InitFeedInv
<1>2. FeedInv /\ [Next]_vars => FeedInv'
  BY TypesStep, CarriedStep DEF FeedInv
<1> QED BY <1>1, <1>2, PTL DEF Spec

\* Every variable of Feed keeps its type; listenerCh is never over its capacity.
THEOREM FeedTypes == Spec => []TypeOK
<1>1. FeedInv => TypeOK
  BY DEF FeedInv, Types
<1> QED BY <1>1, FeedInvariant, PTL

\* The page of a room, with the events that are on their way to it, is the tree,
\* unless one of the ways to go astray was taken since it was rendered.
THEOREM PageCatchesUpAlways == Spec => []PageCatchesUp
BY CaughtUp, FeedInvariant, PTL

-----------------------------------------------------------------------------
(* The pages under /verify.                                                 *)

FlagsAreLive ==
    ~ui.cancelled =>
        \A t \in Txns : t \in {ui.emojis, ui.qrCode} => txn[t] # "cancelled"

\* Between a handler's look at the state and its rendering of the page, the
\* emojis and the code can only be replaced by those of another transaction
\* that had not been cancelled at the look.
LookedIsLive ==
    window.stage = "checked" =>
        /\ {t \in Txns : txn[t] # "cancelled"} \subseteq window.live
        /\ window.at = "sas" => ui.emojis \in window.live
        /\ window.at = "qr" => ui.qrCode \in window.live \cup {Nobody}

VInv == VTypeOK /\ FlagsAreLive /\ LookedIsLive

-----------------------------------------------------------------------------
\* What a handler answers leads to a page of the router.
LEMMA Answers ==
    ASSUME NEW path \in Paths
    PROVE  /\ Handler[path].then \in {"loading", "clearing", "checked"}
           /\ Handler[path].to \in Paths \cup {"same"}
           /\ Handler[path].then = "checked" <=> Handler[path] = Show
<1> USE DEF Show, Redirect, ClearAnd, Paths
<1>1. Handler[path] = Show
      \/ \E p \in Paths : Handler[path] = Redirect(p) \/ Handler[path] = ClearAnd(p)
  BY DEF Handler, Pages, HandleVerifyPage, HandleVerifyWaitingPage, HandleVerifyChoosePage,
     HandleVerifyRecoveryPage, HandleVerifySASPage, HandleVerifySASWaitingPage,
     HandleVerifyQRPage, HandleVerifyQRScannedPage
<1> QED BY <1>1

\* The pages of the emojis and of the code want to show what is not cancelled.
LEMMA ShowsLive ==
    /\ Handler["sas"] = Show => ui.emojis # Nobody /\ ~ui.cancelled
    /\ Handler["qr"] = Show => ~ui.cancelled
<1> USE DEF Show, Redirect, ClearAnd
<1>1. "sas" \in Paths /\ "qr" \in Paths
  BY DEF Paths
<1>2. Handler["sas"] = Show => ui.emojis # Nobody /\ ~ui.cancelled
  BY <1>1 DEF Handler, Pages, HandleVerifySASPage
<1>3. Handler["qr"] = Show => ~ui.cancelled
  BY <1>1 DEF Handler, Pages, HandleVerifyQRPage
<1> QED BY <1>2, <1>3

LEMMA InitVInv == VInit => VInv
<1> SUFFICES ASSUME VInit PROVE VInv
  OBVIOUS
<1>1. /\ txn \in [Txns -> Live \cup {"none", "cancelled", "done"}]
      /\ \A t \in Txns : txn[t] = "none"
  BY DEF VInit
<1>2. ui \in [emojis : Txns \cup {Nobody}, sasActive : BOOLEAN, qrActive : BOOLEAN,
             qrCode : Txns \cup {Nobody}, qrScanned : BOOLEAN, cancelled : BOOLEAN]
  BY DEF VInit, Cleared
<1>3. /\ window \in [at : Paths,
                     stage : {"loading", "clearing", "checked", "shown", "connected", "error"},
                     shows : Txns \cup {Nobody}, live : SUBSET Txns, listening : BOOLEAN]
      /\ window.stage = "loading"
  BY DEF VInit, Loading, Paths
<1>4. VTypeOK
  BY <1>1, <1>2, <1>3 DEF VInit, VTypeOK, On
<1>5. FlagsAreLive /\ LookedIsLive
  BY <1>1, <1>3 DEF FlagsAreLive, LookedIsLive
<1> QED BY <1>4, <1>5 DEF VInv

-----------------------------------------------------------------------------
PageStates ==
    [at : Paths, stage : {"loading", "clearing", "checked", "shown", "connected", "error"},
     shows : Txns \cup {Nobody}, live : SUBSET Txns, listening : BOOLEAN]

\* A page that is being loaded shows nothing yet.
LEMMA LoadingTypes ==
    ASSUME NEW path \in Paths, window' = Loading(path)
    PROVE  /\ window' \in PageStates /\ (On("sas") \/ On("qr") => window.shows # Nobody)'
           /\ window'.stage = "loading"
  BY DEF Loading, PageStates, On

LEMMA TellTypes ==
    ASSUME VTypeOK, NEW path \in Paths, Tell(path)
    PROVE  /\ window' \in PageStates /\ (On("sas") \/ On("qr") => window.shows # Nobody)'
           /\ window'.stage = "loading" \/ window' = window
<1>1. CASE window.listening
  BY <1>1, LoadingTypes DEF Tell
<1>2. CASE ~window.listening
  BY <1>2 DEF Tell, VTypeOK, PageStates, On
<1> QED BY <1>1, <1>2

\* A handler that has looked has not rendered yet.
LEMMA HandleTypes ==
    ASSUME VTypeOK, Handle
    PROVE  /\ window' \in PageStates
           /\ window'.stage \in {"loading", "clearing", "checked"}
           /\ window'.shows = window.shows
           /\ window'.stage = "checked" =>
                  /\ Handler[window.at] = Show /\ window'.at = window.at
                  /\ window'.live = {t \in Txns : txn[t] # "cancelled"}
<1> DEFINE answer == Handler[window.at]
<1>1. window.at \in Paths /\ window \in PageStates
  BY DEF VTypeOK, PageStates
<1>2. /\ answer.then \in {"loading", "clearing", "checked"}
      /\ answer.to \in Paths \cup {"same"}
      /\ answer.then = "checked" <=> answer = Show
  BY <1>1, Answers
<1>3. window' = [window EXCEPT !.at = IF answer.to = "same" THEN window.at ELSE answer.to,
                               !.stage = answer.then,
                               !.live = IF answer = Show
                                        THEN {t \in Txns : txn[t] # "cancelled"} ELSE {}]
  BY DEF Handle
<1> HIDE DEF answer
<1>4. window' \in PageStates
  BY <1>1, <1>2, <1>3 DEF PageStates
<1>5. window'.stage = answer.then /\ window'.shows = window.shows
  BY <1>1, <1>3 DEF PageStates
<1>6. ASSUME answer = Show
      PROVE  window'.at = window.at /\ window'.live = {t \in Txns : txn[t] # "cancelled"}
  BY <1>1, <1>3, <1>6 DEF PageStates, Show
<1> QED BY <1>2, <1>4, <1>5, <1>6 DEF answer

\* What is rendered is there.
LEMMA RenderTypes ==
    ASSUME VTypeOK, LookedIsLive, Render
    PROVE  /\ window' \in PageStates /\ (On("sas") \/ On("qr") => window.shows # Nobody)'
           /\ window'.stage = "shown" /\ window'.shows \in window.live \cup {Nobody}
<1> USE VerificationAssumption
<1>1. /\ window \in PageStates /\ window.stage = "checked"
      /\ window' = [window EXCEPT !.stage = "shown", !.shows = Content(window.at), !.live = {}]
      /\ window.at = "qr" => ui.qrCode # Nobody
      /\ ui.emojis \in Txns \cup {Nobody} /\ ui.qrCode \in Txns \cup {Nobody}
      /\ window.live \subseteq Txns
  BY DEF VTypeOK, PageStates, Render, GetQRCodeSVG
<1>2. Content(window.at) \in Txns \cup {Nobody}
  BY <1>1 DEF Content
<1>3. /\ window' \in PageStates /\ window'.at = window.at /\ window'.stage = "shown"
      /\ window'.shows = Content(window.at)
  BY <1>1, <1>2 DEF PageStates
<1>4. Content(window.at) \in window.live \cup {Nobody}
  BY <1>1 DEF LookedIsLive, Content
<1>5. window.at \in {"sas", "qr"} => Content(window.at) # Nobody
  BY <1>1 DEF LookedIsLive, Content
<1> QED BY <1>3, <1>4, <1>5 DEF On

LEMMA VTypeStep == VTypeOK /\ LookedIsLive /\ [VNext]_vvars => VTypeOK'
<1> SUFFICES ASSUME VTypeOK, LookedIsLive, [VNext]_vvars PROVE VTypeOK'
  OBVIOUS
<1> DEFINE PageOK == window' \in PageStates /\ (On("sas") \/ On("qr") => window.shows # Nobody)'
           StateOK == /\ txn' \in [Txns -> Live \cup {"none", "cancelled", "done"}]
                      /\ ui' \in [emojis : Txns \cup {Nobody}, sasActive : BOOLEAN,
                                  qrActive : BOOLEAN, qrCode : Txns \cup {Nobody},
                                  qrScanned : BOOLEAN, cancelled : BOOLEAN]
                      /\ keys' \in BOOLEAN /\ verified' \in BOOLEAN
                      /\ starting' \in {"none", "sas", "qr"}
<1> SUFFICES PageOK /\ StateOK
  BY DEF VTypeOK, PageStates, On
<1>0. UNCHANGED window => PageOK
  BY DEF VTypeOK, PageStates, On
<1>p. \A path \in Paths : window' = Loading(path) \/ Tell(path) => PageOK
  BY LoadingTypes, TellTypes
<1>q. {"/", "verify", "choose", "sas", "sas/waiting", "qr", "qr/scanned"} \subseteq Paths
  BY DEF Paths
<1> HIDE DEF PageOK
<1>1. ASSUME NEW t \in Txns, VerificationRequested(t) \/ HelperCallback(t)
      PROVE  PageOK /\ StateOK
  <2>1. StateOK
    <3>1. CASE VerificationRequested(t) \/ VerificationDone(t)
      BY <3>1 DEF VTypeOK, Live, VerificationRequested, VerificationDone
    <3>2. CASE VerificationReady(t)
      <4>1. txn' = [txn EXCEPT ![t] = "ready"]
            /\ (UNCHANGED ui \/ ui' = [ui EXCEPT !.qrCode = t, !.qrActive = TRUE])
            /\ UNCHANGED <<keys, verified, starting>>
        BY <3>2 DEF VerificationReady
      <4> QED BY <4>1 DEF VTypeOK, Live
    <3>4. CASE ShowSAS(t)
      BY <3>4 DEF VTypeOK, Live, ShowSAS
    <3>3. CASE QRCodeScanned(t) \/ VerificationCancelled(t)
      BY <3>3 DEF VTypeOK, Live, QRCodeScanned, VerificationCancelled
    <3> QED BY <1>1, <3>1, <3>2, <3>3, <3>4 DEF HelperCallback
  <2>2. \/ UNCHANGED window
        \/ \E path \in {"/", "verify", "sas", "sas/waiting", "qr", "qr/scanned"} : Tell(path)
    BY <1>1 DEF HelperCallback, VerificationRequested, VerificationReady, ShowSAS,
       QRCodeScanned, VerificationCancelled, VerificationDone
  <2> QED BY <2>1, <2>2, <1>0, <1>p, <1>q
<1>2. CASE CrossSigningKeys
  BY <1>2, <1>0 DEF CrossSigningKeys, VTypeOK
<1>3. CASE Handle
  <2>1. PageOK
    BY <1>3, HandleTypes DEF PageOK, On
  <2> QED BY <1>3, <2>1 DEF Handle, VTypeOK
<1>4. CASE ClearVerificationState
  <2>1. window.at \in Paths
    BY DEF VTypeOK
  <2> QED BY <1>4, <2>1, <1>p DEF ClearVerificationState, VTypeOK, Cleared
<1>5. CASE HandleWS
  <2>1. window' \in PageStates /\ window'.at = window.at /\ window'.shows = window.shows
    BY <1>5 DEF HandleWS, VTypeOK, PageStates, ListenVerifyEvents, VerificationClient,
       MatrixSession
  <2>2. PageOK
    BY <1>5, <2>1 DEF HandleWS, VTypeOK, On, PageOK
  <2> QED BY <1>5, <2>2 DEF HandleWS, VTypeOK
<1>6. CASE Render
  BY <1>6, RenderTypes DEF Render, VTypeOK, PageOK
<1>7. CASE ServerError
  <2>1. window \in PageStates
    BY DEF VTypeOK, PageStates
  <2>2. window' \in PageStates /\ window'.stage = "error"
    BY <1>7, <2>1 DEF ServerError, PageStates
  <2>3. PageOK
    BY <2>2 DEF PageOK, On
  <2> QED BY <1>7, <2>3 DEF ServerError, VTypeOK
<1>8. ASSUME NEW t \in Txns,
             RequestSASVerification(t) \/ RequestQRVerification(t) \/ ConfirmVerification(t)
      PROVE  PageOK /\ StateOK
  <2>1. StateOK
    BY <1>8 DEF VTypeOK, Live, RequestSASVerification, RequestQRVerification, Request,
       ConfirmVerification
  <2>2. UNCHANGED window
    BY <1>8 DEF RequestSASVerification, RequestQRVerification, Request, ConfirmVerification
  <2> QED BY <2>1, <2>2, <1>0
<1>9. CASE SASRequested \/ QRRequested
  <2>1. StateOK
    BY <1>9 DEF VTypeOK, SASRequested, QRRequested, Requested
  <2>2. UNCHANGED window \/ window' = Loading("sas/waiting") \/ window' = Loading("qr")
    BY <1>9 DEF SASRequested, QRRequested, Requested
  <2> QED BY <2>1, <2>2, <1>0, <1>p, <1>q
<1>10. CASE CancelVerification
  BY <1>10, <1>p, <1>q DEF CancelVerification, VTypeOK, Live
<1>11. CASE RecoverWithKey
  BY <1>11, <1>0, <1>p, <1>q DEF RecoverWithKey, VTypeOK
<1>12. CASE Follow
  BY <1>12, <1>p DEF Follow, VTypeOK
<1>13. CASE UNCHANGED vvars
  BY <1>13, <1>0 DEF vvars, VTypeOK
<1> QED
  BY <1>1, <1>2, <1>3, <1>4, <1>5, <1>6, <1>7, <1>8, <1>9, <1>10, <1>11, <1>12, <1>13
     DEF VNext, Page, User

-----------------------------------------------------------------------------
\* A cancellation raises the flag; emojis and codes come from live transactions.
LEMMA FlagsStep == VTypeOK /\ FlagsAreLive /\ [VNext]_vvars => FlagsAreLive'
<1> SUFFICES ASSUME VTypeOK, FlagsAreLive, [VNext]_vvars PROVE FlagsAreLive'
  OBVIOUS
<1> USE VerificationAssumption DEF VTypeOK, FlagsAreLive
<1>1. ASSUME NEW t \in Txns, \/ VerificationRequested(t) \/ VerificationDone(t)
                             \/ RequestSASVerification(t) \/ RequestQRVerification(t)
                             \/ ConfirmVerification(t) \/ QRCodeScanned(t)
      PROVE  FlagsAreLive'
  BY <1>1 DEF VerificationRequested, VerificationDone, RequestSASVerification,
     RequestQRVerification, Request, ConfirmVerification, QRCodeScanned
<1>2. ASSUME NEW t \in Txns, VerificationReady(t) \/ ShowSAS(t) PROVE FlagsAreLive'
  <2>1. CASE VerificationReady(t)
    BY <2>1 DEF VerificationReady
  <2>2. CASE ShowSAS(t)
    BY <2>2 DEF ShowSAS
  <2> QED BY <1>2, <2>1, <2>2
<1>3. ASSUME NEW t \in Txns, VerificationCancelled(t) PROVE FlagsAreLive'
  BY <1>3 DEF VerificationCancelled
<1>4. CASE CancelVerification
  BY <1>4 DEF CancelVerification
<1>5. CASE ClearVerificationState
  BY <1>5 DEF ClearVerificationState, Cleared
<1>6. CASE SASRequested \/ QRRequested
  BY <1>6 DEF SASRequested, QRRequested, Requested
<1>7. CASE UNCHANGED <<txn, ui>>
  BY <1>7
<1> QED
  BY <1>1, <1>2, <1>3, <1>4, <1>5, <1>6, <1>7 DEF VNext, Page, User, HelperCallback,
     CrossSigningKeys, Handle, Render, ServerError, HandleWS, RecoverWithKey, Follow, vvars

\* While a handler waits, what it looked at stays or is replaced by live ones.
LEMMA LookedStep == VTypeOK /\ FlagsAreLive /\ LookedIsLive /\ [VNext]_vvars => LookedIsLive'
<1> SUFFICES ASSUME VTypeOK, FlagsAreLive, LookedIsLive, [VNext]_vvars,
                    window'.stage = "checked"
             PROVE  LookedIsLive'
  BY DEF LookedIsLive
<1> DEFINE Uncancelled == {t \in Txns : txn[t] # "cancelled"}
<1> USE VerificationAssumption
<1>1. CASE Handle
  <2>1. /\ Handler[window.at] = Show /\ window'.at = window.at
        /\ window'.live = Uncancelled /\ UNCHANGED <<txn, ui>>
    BY <1>1, HandleTypes DEF Handle
  <2>2. window.at = "sas" => ui.emojis \in Uncancelled
    BY <2>1, ShowsLive DEF FlagsAreLive, VTypeOK
  <2>3. window.at = "qr" => ui.qrCode \in Uncancelled \cup {Nobody}
    BY <2>1, ShowsLive DEF FlagsAreLive, VTypeOK
  <2> QED BY <2>1, <2>2, <2>3 DEF LookedIsLive
\* No other step looks at the state: the page was already waiting.
<1>2. ASSUME window' = window, Uncancelled' \subseteq Uncancelled,
             ui'.emojis \in {ui.emojis} \cup Uncancelled,
             ui'.qrCode \in {ui.qrCode} \cup Uncancelled
      PROVE  LookedIsLive'
  BY <1>2 DEF LookedIsLive
<1>3. \A path : window' # Loading(path)
  BY DEF Loading
<1>4. ASSUME NEW path, Tell(path) PROVE window' = window
  BY <1>3, <1>4 DEF Tell
<1>5. ASSUME NEW t \in Txns, VerificationRequested(t) \/ HelperCallback(t)
      PROVE  LookedIsLive'
  <2>1. window' = window
    BY <1>4, <1>5 DEF HelperCallback, VerificationRequested, VerificationReady, ShowSAS,
       QRCodeScanned, VerificationCancelled, VerificationDone
  <2>2. /\ Uncancelled' \subseteq Uncancelled
        /\ ui'.emojis \in {ui.emojis} \cup Uncancelled
        /\ ui'.qrCode \in {ui.qrCode} \cup Uncancelled
    <3>1. CASE VerificationReady(t)
      <4>1. txn[t] = "requested" /\ txn' = [txn EXCEPT ![t] = "ready"]
            /\ (UNCHANGED ui \/ ui' = [ui EXCEPT !.qrCode = t, !.qrActive = TRUE])
        BY <3>1 DEF VerificationReady
      <4> QED BY <4>1 DEF VTypeOK
    <3>2. CASE ShowSAS(t)
      BY <3>2 DEF ShowSAS, VTypeOK
    <3>3. CASE VerificationRequested(t) \/ VerificationDone(t)
      BY <3>3 DEF VerificationRequested, VerificationDone, VTypeOK
    <3>4. CASE QRCodeScanned(t)
      BY <3>4 DEF QRCodeScanned, VTypeOK
    <3>5. CASE VerificationCancelled(t)
      BY <3>5 DEF VerificationCancelled, VTypeOK, Live
    <3> QED BY <1>5, <3>1, <3>2, <3>3, <3>4, <3>5 DEF HelperCallback
  <2> QED BY <1>2, <2>1, <2>2
<1>6. CASE UNCHANGED <<txn, ui, window>>
  BY <1>2, <1>6
<1>7. ASSUME NEW t \in Txns,
             RequestSASVerification(t) \/ RequestQRVerification(t) \/ ConfirmVerification(t)
      PROVE  LookedIsLive'
  <2>1. UNCHANGED <<ui, window>>
    BY <1>7 DEF RequestSASVerification, RequestQRVerification, Request, ConfirmVerification
  <2>2. Uncancelled' \subseteq Uncancelled
    BY <1>7 DEF RequestSASVerification, RequestQRVerification, Request, ConfirmVerification,
       VTypeOK
  <2> QED BY <1>2, <2>1, <2>2
<1>8. CASE SASRequested \/ QRRequested
  <2>1. UNCHANGED <<txn, window>>
    BY <1>3, <1>8 DEF SASRequested, QRRequested, Requested
  <2>2. ui'.emojis = ui.emojis /\ ui'.qrCode = ui.qrCode
    BY <1>8 DEF SASRequested, QRRequested, VTypeOK
  <2> QED BY <1>2, <2>1, <2>2
<1>9. CASE CancelVerification \/ ClearVerificationState \/ Follow
  BY <1>3, <1>9 DEF CancelVerification, ClearVerificationState, Follow
<1>10. CASE RecoverWithKey
  BY <1>3, <1>6, <1>10 DEF RecoverWithKey
<1>11. CASE Render \/ ServerError \/ HandleWS
  BY <1>11 DEF Render, ServerError, HandleWS, VTypeOK
<1> QED
  BY <1>1, <1>5, <1>6, <1>7, <1>8, <1>9, <1>10, <1>11 DEF VNext, Page, User,
     CrossSigningKeys, vvars

LEMMA SpecVInv == FairSpec => []VInv
<1>1. VInv /\ [VNext]_vvars => VInv'
  BY VTypeStep, FlagsStep, LookedStep DEF VInv
<1> QED BY <1>1, InitVInv, PTL DEF FairSpec

-----------------------------------------------------------------------------
(* Every variable keeps its type, and a page of emojis or of a QR code has  *)
(* them to show.                                                            *)
THEOREM VerificationTypes == FairSpec => []VTypeOK
  BY SpecVInv, PTL DEF VInv

(* The emojis or the code that a page is rendered with are those of a       *)
(* transaction that had not been cancelled when the handler looked, however *)
(* the callbacks of any number of transactions fall between the requests of *)
(* the page, and between a handler's look and its rendering.                *)
THEOREM PagesShowTheLive == FairSpec => ShownIsLive
<1>1. VInv /\ [VNext]_vvars
      => [\A t \in Txns : window.shows # t /\ window'.shows = t => t \in window.live]_vvars
  <2> SUFFICES ASSUME VInv, VNext, NEW t \in Txns, window.shows # t, window'.shows = t
               PROVE  t \in window.live
    OBVIOUS
  <2> USE VerificationAssumption DEF VInv
  <2>1. CASE Handle
    BY <2>1, HandleTypes
  <2>2. CASE Render
    BY <2>2, RenderTypes
  <2>3. CASE ServerError \/ HandleWS
    BY <2>3 DEF ServerError, HandleWS, VTypeOK
  <2>4. ASSUME NEW u \in Txns, VerificationRequested(u) \/ HelperCallback(u)
        PROVE  window'.shows \in {window.shows, Nobody}
    BY <2>4 DEF HelperCallback, VerificationRequested, VerificationReady, ShowSAS, QRCodeScanned,
       VerificationCancelled, VerificationDone, Tell, Loading
  <2>5. ASSUME CrossSigningKeys \/ ClearVerificationState
        PROVE  window'.shows \in {window.shows, Nobody}
    BY <2>5 DEF CrossSigningKeys, ClearVerificationState, Loading
  <2>6. \A path : Loading(path).shows = Nobody
    BY DEF Loading
  <2>7. ASSUME NEW u \in Txns, \/ RequestSASVerification(u) \/ RequestQRVerification(u)
                               \/ ConfirmVerification(u)
        PROVE  window' = window
    BY <2>7 DEF RequestSASVerification, RequestQRVerification, Request, ConfirmVerification
  <2>8. CASE SASRequested \/ QRRequested
    <3>1. window' = window \/ \E path : window' = Loading(path)
      BY <2>8 DEF SASRequested, QRRequested, Requested
    <3> QED BY <2>6, <3>1
  <2>9. CASE CancelVerification \/ RecoverWithKey \/ Follow
    <3>1. window' = window \/ \E path : window' = Loading(path)
      BY <2>9 DEF CancelVerification, RecoverWithKey, Follow
    <3> QED BY <2>6, <3>1
  <2> QED BY <2>1, <2>2, <2>3, <2>4, <2>5, <2>7, <2>8, <2>9 DEF VNext, Page, User
<1> QED BY <1>1, SpecVInv, PTL DEF FairSpec, ShownIsLive
=============================================================================
