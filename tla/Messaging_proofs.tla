-------------------------- MODULE Messaging_proofs --------------------------
(***************************************************************************)
(* Proofs about Messages and DirectMessages: what a window shows of its    *)
(* room or conversation, for any number of messages, pushes, fetches and   *)
(* windows, and what the user's texts to people become, for any            *)
(* conversations, people, addresses and bounds.                            *)
(***************************************************************************)
EXTENDS DirectMessages, Messages, FiniteSetTheorems, SequenceTheorems, WellFoundedInduction,
        TLAPS


-----------------------------------------------------------------------------
(* Showing messages.                                                       *)

\* A window that is excused of nothing has passed over no message that was not missed.
OrderSound(v) ==
  /\ v.order # "broken"
  /\ v.order = "kept" => \A m \in 1 .. v.last : m \in v.delivered \cup v.missed

\* What the window v has shown agrees with what it remembers, and its mark with both.
Good(v) ==
  /\ v \in View /\ Len(v.seen) <= SeenMax
  /\ ToSet(v.seen) \subseteq v.delivered
  /\ v.mark \in v.delivered \cup {0}
  /\ \A m \in 1 .. v.mark : m \in v.delivered \cup v.missed
  /\ OrderSound(v)

\* Before each of the messages s nothing is left out.
Gapless(v, s) == \A m \in s : \A j \in 1 .. m : j \in v.delivered \cup v.missed \cup s

\* w is v after the messages s.
After(v, s, w) ==
  /\ Good(w)
  /\ w.delivered = v.delivered \cup s /\ w.missed = v.missed
  /\ w.order = "kept" => v.order = "kept"

\* The ids that are remembered after one more.
LEMMA Remembers ==
  ASSUME NEW q \in Seq(Msg), NEW m \in Msg
  PROVE  LET r == SubSeq(<<m>> \o q, 1, Least(Len(q) + 1, SeenMax)) IN
         r \in Seq(Msg) /\ Len(r) <= SeenMax /\ ToSet(r) \subseteq {m} \cup ToSet(q)
<1> DEFINE p == <<m>> \o q
           n == Least(Len(q) + 1, SeenMax)
           r == SubSeq(p, 1, n)
<1>1. <<m>> \in Seq(Msg) /\ Len(<<m>>) = 1 /\ <<m>>[1] = m
  OBVIOUS
<1>2. /\ p \in Seq(Msg) /\ Len(p) = 1 + Len(q)
      /\ \A i \in 1 .. 1 + Len(q) : p[i] = IF i <= 1 THEN <<m>>[i] ELSE q[i - 1]
  BY <1>1, ConcatProperties
<1>3. Len(q) \in Nat /\ SeenMax \in Nat \ {0}
  BY MessagesBounds
<1>4. n \in 1 .. Len(q) + 1 /\ n <= SeenMax
  BY <1>3 DEF Least
<1> HIDE DEF p, n
<1>5. r \in Seq(Msg) /\ Len(r) = n /\ \A i \in 1 .. n : r[i] = p[i]
  BY <1>2, <1>3, <1>4, SubSeqProperties
<1>6. ASSUME NEW i \in 1 .. n PROVE r[i] \in {m} \cup ToSet(q)
  <2>1. i \in 1 .. 1 + Len(q) /\ r[i] = p[i]
    BY <1>3, <1>4, <1>5
  <2>2. CASE i = 1
    <3>1. p[1] = <<m>>[1]
      BY <1>2, <2>1, <2>2
    <3>2. r[i] = m
      BY <1>1, <2>1, <2>2, <3>1
    <3> QED BY <3>2
  <2>3. CASE i # 1
    <3>1. i - 1 \in DOMAIN q /\ p[i] = q[i - 1]
      BY <1>2, <1>3, <2>1, <2>3
    <3> QED BY <2>1, <3>1 DEF ToSet
  <2> QED BY <2>2, <2>3
<1>7. ToSet(r) \subseteq {m} \cup ToSet(q)
  <2>1. DOMAIN r = 1 .. n
    BY <1>5
  <2> QED BY <1>6, <2>1 DEF ToSet
<1> QED BY <1>4, <1>5, <1>7 DEF p, n

\* The window w is v with one message shown that it did not remember.
ShownBy(v, m, well, w) ==
  /\ w \in View
  /\ w.seen = SubSeq(<<m>> \o v.seen, 1, Least(Len(v.seen) + 1, SeenMax))
  /\ w.mark = IF well THEN m ELSE v.mark
  /\ w.delivered = v.delivered \cup {m} /\ w.missed = v.missed
  /\ w.last = IF v.order = "kept" /\ m > v.last THEN m ELSE 0
  /\ w.order = IF v.order # "kept" \/ m > v.last THEN v.order
               ELSE IF m \in v.delivered \cup v.missed THEN "excused" ELSE "broken"

\* See ShownBy.
LEMMA ShowFields ==
  ASSUME NEW v \in View, NEW m \in Msg, NEW well \in BOOLEAN, Unseen(v, m),
         NEW w, w = Show(Marked(v, m, well), m)
  PROVE  ShownBy(v, m, well, w)
<1> DEFINE u == Marked(v, m, well)
           seen == SubSeq(<<m>> \o v.seen, 1, Least(Len(v.seen) + 1, SeenMax))
           last == IF v.order = "kept" /\ m > v.last THEN m ELSE 0
           order == IF v.order # "kept" \/ m > v.last THEN v.order
                    ELSE IF m \in v.delivered \cup v.missed THEN "excused" ELSE "broken"
<1>1. /\ v.seen \in Seq(Msg) /\ v.mark \in 0 .. MaxMessages /\ v.delivered \in SUBSET Msg
      /\ v.missed \in SUBSET Msg /\ v.last \in 0 .. MaxMessages
      /\ v.order \in {"kept", "broken", "excused"}
  BY DEF View
<1>2. m \in 0 .. MaxMessages
  BY MessagesBounds DEF Msg
<1>3. /\ u \in View /\ u.seen = v.seen /\ u.mark = (IF well THEN m ELSE v.mark)
      /\ u.delivered = v.delivered /\ u.missed = v.missed /\ u.last = v.last /\ u.order = v.order
  BY <1>2 DEF Marked, View
<1>4. Unseen(u, m) /\ w = Show(u, m)
  BY <1>3 DEF Unseen
<1> HIDE DEF u
<1>5. w = [u EXCEPT !.seen = SubSeq(<<m>> \o @, 1, Least(Len(@) + 1, SeenMax)),
                    !.delivered = @ \cup {m},
                    !.last = IF u.order = "kept" /\ m > @ THEN m ELSE 0,
                    !.order = IF @ # "kept" \/ m > u.last THEN @
                              ELSE IF m \in u.delivered \cup u.missed THEN "excused"
                              ELSE "broken"]
  BY <1>4 DEF Show
<1>6. w = [u EXCEPT !.seen = seen, !.delivered = v.delivered \cup {m},
                    !.last = last, !.order = order]
  BY <1>3, <1>5
<1>7. /\ seen \in Seq(Msg) /\ v.delivered \cup {m} \in SUBSET Msg
      /\ last \in 0 .. MaxMessages /\ order \in {"kept", "broken", "excused"}
  <2>1. seen \in Seq(Msg)
    BY <1>1, Remembers
  <2>2. last \in 0 .. MaxMessages
    BY <1>2, MessagesBounds
  <2>3. order \in {"kept", "broken", "excused"}
    BY <1>1
  <2>4. v.delivered \cup {m} \in SUBSET Msg
    BY <1>1
  <2> QED BY <2>1, <2>2, <2>3, <2>4
<1> HIDE DEF seen, last, order
<1>8. /\ w \in View /\ w.seen = seen /\ w.mark = u.mark /\ w.delivered = v.delivered \cup {m}
      /\ w.missed = u.missed /\ w.last = last /\ w.order = order
  BY <1>3, <1>6, <1>7 DEF View
<1> QED BY <1>3, <1>8 DEF u, seen, last, order, ShownBy

\* One message after all before it.
LEMMA ShowGood ==
  ASSUME NEW v, Good(v), NEW m \in Msg, NEW well \in BOOLEAN,
         well \/ v.order = "kept" => \A j \in 1 .. m - 1 : j \in v.delivered \cup v.missed
  PROVE  After(v, {m}, Show(Marked(v, m, well), m))
<1> DEFINE w == Show(Marked(v, m, well), m)
<1>1. /\ v \in View /\ v.seen \in Seq(Msg) /\ v.mark \in 0 .. MaxMessages
      /\ v.delivered \in SUBSET Msg /\ v.missed \in SUBSET Msg /\ v.last \in 0 .. MaxMessages
      /\ v.order \in {"kept", "broken", "excused"}
  BY DEF Good, View
<1>2. m \in 1 .. MaxMessages /\ MaxMessages \in Nat
  BY MessagesBounds DEF Msg
<1>3. CASE Unseen(v, m)
  <2>0. w = Show(Marked(v, m, well), m)
    OBVIOUS
  <2> HIDE DEF w
  <2>1. ShownBy(v, m, well, w)
    BY <1>1, <1>3, <2>0, ShowFields
  <2>2. Len(w.seen) <= SeenMax /\ ToSet(w.seen) \subseteq w.delivered
    <3>1. Len(w.seen) <= SeenMax /\ ToSet(w.seen) \subseteq {m} \cup ToSet(v.seen)
      BY <1>1, <2>1, Remembers DEF ShownBy
    <3> QED BY <2>1, <3>1 DEF Good, ShownBy
  <2>3. /\ w.mark \in w.delivered \cup {0}
        /\ \A j \in 1 .. w.mark : j \in w.delivered \cup w.missed
    <3>1. CASE well
      BY <1>2, <2>1, <3>1 DEF ShownBy
    <3>2. CASE ~well
      BY <2>1, <3>2 DEF Good, ShownBy
    <3> QED BY <3>1, <3>2
  <2>4. OrderSound(w) /\ (w.order = "kept" => v.order = "kept")
    <3>1. CASE v.order # "kept"
      BY <2>1, <3>1 DEF Good, OrderSound, ShownBy
    <3>2. CASE v.order = "kept" /\ m > v.last
      <4>1. w.order = "kept" /\ w.last = m
        BY <2>1, <3>2 DEF ShownBy
      <4>2. \A j \in 1 .. m : j \in w.delivered \cup w.missed
        BY <1>2, <2>1, <3>2 DEF ShownBy
      <4> QED BY <3>2, <4>1, <4>2 DEF OrderSound
    <3>3. CASE v.order = "kept" /\ ~(m > v.last)
      <4>1. m \in v.delivered \cup v.missed
        BY <1>1, <1>2, <3>3 DEF Good, OrderSound
      <4>2. w.order = "excused"
        BY <2>1, <3>3, <4>1 DEF ShownBy
      <4> QED BY <4>2 DEF OrderSound
    <3> QED BY <3>1, <3>2, <3>3
  <2> QED BY <2>1, <2>2, <2>3, <2>4 DEF After, Good, w, ShownBy
<1>4. CASE ~Unseen(v, m)
  <2>1. m \in v.delivered
    BY <1>4 DEF Unseen, Good
  <2> DEFINE u == Marked(v, m, well)
  <2>2. /\ u \in View /\ u.seen = v.seen /\ u.mark = (IF well THEN m ELSE v.mark)
        /\ u.delivered = v.delivered /\ u.missed = v.missed /\ u.last = v.last /\ u.order = v.order
    BY <1>1, <1>2 DEF Marked, View
  <2>3. w = u
    BY <1>4, <2>2 DEF Show, Unseen
  <2> HIDE DEF u, w
  <2>4. /\ u.mark \in u.delivered \cup {0}
        /\ \A j \in 1 .. u.mark : j \in u.delivered \cup u.missed
    <3>1. CASE well
      BY <1>2, <2>1, <2>2, <3>1
    <3>2. CASE ~well
      BY <2>2, <3>2 DEF Good
    <3> QED BY <3>1, <3>2
  <2>5. OrderSound(u)
    BY <2>2 DEF Good, OrderSound
  <2>6. Good(u) /\ u.delivered = v.delivered \cup {m}
    BY <2>1, <2>2, <2>4, <2>5 DEF Good
  <2> QED BY <2>2, <2>3, <2>6 DEF After, w
<1> QED BY <1>3, <1>4


\* A set of numbers that is not empty has a least one.
LEMMA LeastOf ==
  ASSUME NEW S \in SUBSET Nat, S # {}
  PROVE  \E x \in S : \A y \in S : x <= y
<1> DEFINE R == {p \in Nat \X Nat : p[1] < p[2]}
<1>1. IsWellFoundedOn(R, Nat)
  BY NatLessThanWellFounded DEF OpToRel
<1>2. PICK x \in S : \A y \in S : ~(<<y, x>> \in R)
  <2> HIDE DEF R
  <2> QED BY <1>1, WFMin
<1>3. \A y \in S : x <= y
  <2>1. \A y \in S : <<y, x>> \in R <=> y < x
    OBVIOUS
  <2>2. \A y \in S : y \in Nat
    OBVIOUS
  <2>3. \A y \in S : ~(y < x)
    BY <1>2, <2>1
  <2> HIDE DEF R
  <2> QED BY <2>2, <2>3
<1> QED BY <1>3

\* f is the window v after the messages of s up to m, for each m up to n.
Runs(v, s, well, n, f) ==
  f = [m \in 0 .. n |->
        IF m = 0 THEN v
        ELSE IF m \in s THEN Show(Marked(f[m - 1], m, well), m) ELSE f[m - 1]]

\* The recursion of InTurn has a solution.
LEMMA RunExists ==
  ASSUME NEW v, NEW s, NEW well, NEW n \in Nat
  PROVE  \E f : Runs(v, s, well, n, f)
<1> DEFINE B == {k \in Nat : ~ \E f : Runs(v, s, well, k, f)}
<1>1. SUFFICES ASSUME B # {} PROVE FALSE
  OBVIOUS
<1>2. PICK k \in B : \A j \in B : k <= j
  BY <1>1, LeastOf
<1>3. CASE k = 0
  <2> DEFINE f == [m \in 0 .. 0 |-> v]
  <2>1. f = [m \in 0 .. 0 |->
              IF m = 0 THEN v
              ELSE IF m \in s THEN Show(Marked(f[m - 1], m, well), m) ELSE f[m - 1]]
    OBVIOUS
  <2> HIDE DEF f
  <2>2. Runs(v, s, well, 0, f)
    BY <2>1 DEF Runs
  <2> QED BY <1>3, <2>2
<1>4. CASE k # 0
  <2>1. k - 1 \in Nat /\ ~(k - 1 \in B)
    BY <1>2, <1>4
  <2>2. PICK g : Runs(v, s, well, k - 1, g)
    BY <2>1
  <2> DEFINE step(h, m) == IF m = 0 THEN v
                           ELSE IF m \in s THEN Show(Marked(h[m - 1], m, well), m) ELSE h[m - 1]
             f == [m \in 0 .. k |-> IF m = k THEN step(g, k) ELSE g[m]]
  <2>3. g = [m \in 0 .. k - 1 |-> step(g, m)]
    BY <2>2 DEF Runs
  <2>4. ASSUME NEW m \in 0 .. k PROVE f[m] = step(f, m)
    <3>1. CASE m = 0
      <4>1. m \in 0 .. k - 1 /\ f[m] = g[m]
        BY <1>4, <2>1, <3>1
      <4>2. g[m] = v
        BY <2>3, <3>1, <4>1
      <4> QED BY <3>1, <4>1, <4>2
    <3>2. CASE m # 0
      <4>1. m - 1 \in 0 .. k - 1 /\ f[m - 1] = g[m - 1]
        BY <2>1, <3>2
      <4>2. f[m] = step(g, m)
        <5>1. CASE m = k
          BY <5>1
        <5>2. CASE m # k
          <6>1. m \in 0 .. k - 1 /\ f[m] = g[m]
            BY <2>1, <5>2
          <6> HIDE DEF f, step
          <6> QED BY <2>3, <6>1
        <5> QED BY <5>1, <5>2
      <4>3. step(f, m) = step(g, m)
        <5> HIDE DEF f
        <5> QED BY <4>1
      <4> QED BY <4>2, <4>3
    <3> QED BY <3>1, <3>2
  <2>5. f = [m \in 0 .. k |-> step(f, m)]
    <3>1. f = [m \in 0 .. k |-> f[m]]
      OBVIOUS
    <3> HIDE DEF f, step
    <3> QED BY <2>4, <3>1
  <2> HIDE DEF f
  <2>6. Runs(v, s, well, k, f)
    BY <2>5 DEF Runs
  <2> QED BY <2>6
<1> QED BY <1>3, <1>4

\* InTurn takes the messages one after the other.
LEMMA InTurnRuns ==
  ASSUME NEW v, NEW s, NEW well
  PROVE  \E f : Runs(v, s, well, MaxMessages, f) /\ InTurn(v, s, well) = f[MaxMessages]
<1> DEFINE f == CHOOSE h : Runs(v, s, well, MaxMessages, h)
<1>1. Runs(v, s, well, MaxMessages, f)
  BY RunExists, MessagesBounds
<1>2. InTurn(v, s, well) = f[MaxMessages]
  BY DEF InTurn, Runs
<1> QED BY <1>1, <1>2


\* Messages that leave out none are shown, and the mark passes none.
LEMMA InTurnGood ==
  ASSUME NEW v, Good(v), NEW s \in SUBSET Msg, NEW well \in BOOLEAN,
         well \/ v.order = "kept" => Gapless(v, s)
  PROVE  After(v, s, InTurn(v, s, well))
<1>1. PICK f : Runs(v, s, well, MaxMessages, f) /\ InTurn(v, s, well) = f[MaxMessages]
  BY InTurnRuns
<1>2. MaxMessages \in Nat /\ Msg = 1 .. MaxMessages
  BY MessagesBounds DEF Msg
<1> DEFINE upTo(m) == s \cap (1 .. m)
           P(m) == m \in 0 .. MaxMessages => After(v, upTo(m), f[m])
           B == {m \in Nat : ~P(m)}
<1>3. SUFFICES B = {}
  <2>1. P(MaxMessages)
    BY <1>2, <1>3
  <2>2. After(v, upTo(MaxMessages), f[MaxMessages])
    BY <1>2, <2>1
  <2>3. upTo(MaxMessages) = s
    BY <1>2
  <2> QED BY <1>1, <2>2, <2>3
<1>4. SUFFICES ASSUME B # {} PROVE FALSE
  OBVIOUS
<1>5. PICK m \in B : \A j \in B : m <= j
  BY <1>4, LeastOf
<1>6. m \in 0 .. MaxMessages /\ ~After(v, upTo(m), f[m])
  BY <1>5
<1>7. f[m] = IF m = 0 THEN v
             ELSE IF m \in s THEN Show(Marked(f[m - 1], m, well), m) ELSE f[m - 1]
  BY <1>1, <1>6 DEF Runs
<1>8. CASE m = 0
  <2>1. upTo(0) = {}
    BY <1>2
  <2>2. v.delivered \cup {} = v.delivered
    OBVIOUS
  <2> QED BY <1>6, <1>7, <1>8, <2>1, <2>2 DEF After
<1>9. CASE m # 0
  <2> DEFINE u == f[m - 1]
  <2>0. m - 1 \in Nat /\ m - 1 \in 0 .. MaxMessages /\ m \in 1 .. MaxMessages
    BY <1>2, <1>6, <1>9
  <2>1. /\ m - 1 \in Nat /\ ~(m - 1 \in B)
        /\ m - 1 \in 0 .. MaxMessages /\ m \in 1 .. MaxMessages
    <3> HIDE DEF B
    <3> QED BY <1>5, <2>0
  <2>2. After(v, upTo(m - 1), u)
    BY <2>1
  <2> HIDE DEF u
  <2>3. CASE m \in s
    <3>1. \A j \in 1 .. m - 1 : j \in s => j \in upTo(m - 1)
      OBVIOUS
    <3>2. well \/ u.order = "kept" => \A j \in 1 .. m - 1 : j \in u.delivered \cup u.missed
      <4>1. SUFFICES ASSUME well \/ u.order = "kept", NEW j \in 1 .. m - 1
                     PROVE  j \in u.delivered \cup u.missed
        OBVIOUS
      <4>2. Gapless(v, s)
        BY <2>2, <4>1 DEF After
      <4>3. j \in v.delivered \cup v.missed \cup s
        <5>1. j \in 1 .. m
          BY <2>1
        <5> QED BY <2>3, <4>2, <5>1 DEF Gapless
      <4> HIDE DEF upTo
      <4> QED BY <2>2, <3>1, <4>3 DEF After
    <3>3. After(u, {m}, Show(Marked(u, m, well), m))
      <4>1. m \in Msg /\ Good(u)
        BY <1>2, <2>1, <2>2 DEF After
      <4> QED BY <3>2, <4>1, ShowGood
    <3>4. f[m] = Show(Marked(u, m, well), m)
      BY <1>7, <1>9, <2>3 DEF u
    <3>5. upTo(m) = upTo(m - 1) \cup {m}
      BY <2>1, <2>3
    <3> HIDE DEF upTo
    <3>6. After(v, upTo(m), f[m])
      BY <2>2, <3>3, <3>4, <3>5 DEF After
    <3> QED BY <1>6, <3>6
  <2>4. CASE m \notin s
    <3>1. upTo(m) = upTo(m - 1)
      BY <2>1, <2>4
    <3>2. f[m] = u
      BY <1>7, <1>9, <2>4 DEF u
    <3> QED BY <1>6, <2>2, <3>1, <3>2
  <2> QED BY <2>3, <2>4
<1> QED BY <1>8, <1>9

\* A set of numbers below a bound has a greatest.
LEMMA GreatestOf ==
  ASSUME NEW S \in SUBSET Msg, S # {}
  PROVE  Max(S) \in S /\ \A x \in S : x <= Max(S)
<1>1. MaxMessages \in Nat /\ Msg = 1 .. MaxMessages
  BY MessagesBounds DEF Msg
<1> DEFINE T == {MaxMessages - x : x \in S}
<1>2. T \in SUBSET Nat /\ T # {}
  <2>1. \A x \in S : MaxMessages - x \in Nat
    BY <1>1
  <2> QED BY <2>1
<1>3. PICK t \in T : \A y \in T : t <= y
  BY <1>2, LeastOf
<1>4. PICK x \in S : t = MaxMessages - x
  BY <1>3
<1>5. \A y \in S : MaxMessages - y \in T
  OBVIOUS
<1>6. \A y \in S : x >= y
  <2>1. \A y \in S : y \in 1 .. MaxMessages
    BY <1>1
  <2> HIDE DEF T
  <2>2. \A y \in S : MaxMessages - x <= MaxMessages - y
    BY <1>3, <1>4, <1>5
  <2> QED BY <1>1, <2>1, <2>2
<1>7. Max(S) \in S /\ \A y \in S : Max(S) >= y
  BY <1>4, <1>6 DEF Max
<1>8. Max(S) \in Nat /\ \A y \in S : y \in Nat
  <2>1. \A y \in S : y \in Nat
    BY <1>1
  <2> QED BY <1>7, <2>1
<1> QED BY <1>7, <1>8

\* What was gathered is shown, and the mark passes no message that was not.
LEMMA CompletedGood ==
  ASSUME NEW v, Good(v), NEW g \in SUBSET Msg, NEW well \in BOOLEAN,
         well \/ v.order = "kept" => Gapless(v, g)
  PROVE  After(v, g, Completed(v, g, well))
<1>1. CASE g = {}
  <2>1. v.delivered \cup {} = v.delivered
    OBVIOUS
  <2> QED BY <1>1, <2>1 DEF Completed, After
<1>2. CASE g # {}
  <2> DEFINE M == Max(g)
             r == InTurn(v, g \ {M}, FALSE)
             w == Completed(v, g, well)
  <2>1. M \in g /\ (\A x \in g : x <= M) /\ M \in Msg
    BY <1>2, GreatestOf
  <2>2. \A x \in Msg : x \in Nat
    BY MessagesBounds DEF Msg
  <2>3. w = IF Unseen(r, M) THEN Marked(Show(r, M), M, well) ELSE r
    BY <1>2 DEF Completed
  <2> HIDE DEF M, w
  <2>4. v.order = "kept" => Gapless(v, g \ {M})
    <3>1. SUFFICES ASSUME Gapless(v, g), NEW m \in g \ {M}, NEW j \in 1 .. m
                   PROVE  j \in v.delivered \cup v.missed \cup (g \ {M})
      BY DEF Gapless
    <3>2. j # M
      BY <2>1, <2>2, <3>1
    <3> QED BY <3>1, <3>2 DEF Gapless
  <2>5. After(v, g \ {M}, r)
    <3>1. g \ {M} \in SUBSET Msg /\ FALSE \in BOOLEAN
      OBVIOUS
    <3> QED BY <2>4, <3>1, InTurnGood
  <2> HIDE DEF r
  <2>6. CASE Unseen(r, M)
    <3>1. w = Show(Marked(r, M, well), M)
      <4>1. r \in View
        BY <2>5 DEF After, Good
      <4>2. /\ r.seen \in Seq(Msg) /\ r.mark \in 0 .. MaxMessages
            /\ r.delivered \in SUBSET Msg /\ r.missed \in SUBSET Msg
            /\ r.last \in 0 .. MaxMessages /\ r.order \in {"kept", "broken", "excused"}
        BY <4>1 DEF View
      <4> QED BY <2>3, <2>6, <4>1 DEF Marked, Show, Unseen, View
    <3>2. well \/ r.order = "kept" => \A j \in 1 .. M - 1 : j \in r.delivered \cup r.missed
      <4>1. SUFFICES ASSUME well \/ r.order = "kept", NEW j \in 1 .. M - 1
                     PROVE  j \in r.delivered \cup r.missed
        OBVIOUS
      <4>2. Gapless(v, g)
        BY <2>5, <4>1 DEF After
      <4>3. j \in 1 .. M /\ j # M
        BY <2>1, <2>2
      <4>4. j \in v.delivered \cup v.missed \cup g
        BY <2>1, <4>2, <4>3 DEF Gapless
      <4> QED BY <2>5, <4>3, <4>4 DEF After
    <3>3. After(r, {M}, w)
      <4>1. Good(r)
        BY <2>5 DEF After
      <4> QED BY <2>1, <3>1, <3>2, <4>1, ShowGood
    <3>4. (v.delivered \cup (g \ {M})) \cup {M} = v.delivered \cup g
      BY <2>1
    <3>5. After(v, g, w)
      BY <2>5, <3>3, <3>4 DEF After
    <3> QED BY <3>5 DEF w
  <2>7. CASE ~Unseen(r, M)
    <3>1. w = r
      BY <2>3, <2>7
    <3>2. M \in r.delivered
      BY <2>5, <2>7 DEF Unseen, After, Good
    <3>3. r.delivered = v.delivered \cup g
      BY <2>1, <2>5, <3>2 DEF After
    <3>4. After(v, g, w)
      BY <2>5, <3>1, <3>3 DEF After
    <3> QED BY <3>4 DEF w
  <2> QED BY <2>6, <2>7
<1> QED BY <1>1, <1>2


\* A window that is excused.
LEMMA ExcusedGood ==
  ASSUME NEW v, Good(v)
  PROVE  /\ Good(Excused(v)) /\ Excused(v).order # "kept"
         /\ Excused(v).delivered = v.delivered /\ Excused(v).missed = v.missed
         /\ Excused(v) \in View
<1> DEFINE w == [v EXCEPT !.order = "excused", !.last = 0]
<1>1. /\ v \in View /\ v.seen \in Seq(Msg) /\ v.mark \in 0 .. MaxMessages
      /\ v.delivered \in SUBSET Msg /\ v.missed \in SUBSET Msg /\ v.last \in 0 .. MaxMessages
      /\ v.order \in {"kept", "broken", "excused"}
  BY DEF Good, View
<1>2. CASE v.order = "kept"
  <2>1. Excused(v) = w
    BY <1>2 DEF Excused
  <2>2. /\ w \in View /\ w.seen = v.seen /\ w.mark = v.mark /\ w.delivered = v.delivered
        /\ w.missed = v.missed /\ w.last = 0 /\ w.order = "excused"
    <3>1. 0 \in 0 .. MaxMessages /\ "excused" \in {"kept", "broken", "excused"}
      BY MessagesBounds
    <3> QED BY <1>1, <3>1 DEF View
  <2> HIDE DEF w
  <2> QED BY <2>1, <2>2 DEF Good, OrderSound
<1>3. CASE v.order # "kept"
  BY <1>1, <1>3 DEF Excused
<1> QED BY <1>2, <1>3

\* A window that has missed more.
LEMMA MissedGood ==
  ASSUME NEW v, Good(v), NEW s \in SUBSET Msg
  PROVE  LET w == [v EXCEPT !.missed = v.missed \cup s] IN
         /\ Good(w) /\ w.delivered = v.delivered /\ w.missed = v.missed \cup s
         /\ w.order = v.order /\ w.mark = v.mark
<1> DEFINE w == [v EXCEPT !.missed = v.missed \cup s]
<1>1. /\ v \in View /\ v.seen \in Seq(Msg) /\ v.mark \in 0 .. MaxMessages
      /\ v.delivered \in SUBSET Msg /\ v.missed \in SUBSET Msg /\ v.last \in 0 .. MaxMessages
      /\ v.order \in {"kept", "broken", "excused"}
  BY DEF Good, View
<1>2. v.missed \cup s \in SUBSET Msg
  BY <1>1
<1>3. /\ w \in View /\ w.seen = v.seen /\ w.mark = v.mark /\ w.delivered = v.delivered
      /\ w.missed = v.missed \cup s /\ w.last = v.last /\ w.order = v.order
  BY <1>1, <1>2 DEF View
<1> HIDE DEF w
<1>4. Good(w)
  BY <1>3 DEF Good, OrderSound
<1> QED BY <1>3, <1>4 DEF w

\* The window w is v that has missed what the fetch f passed over, up to b.
PassedOver(v, w, f, b, changed) ==
  /\ Good(w) /\ w.delivered = v.delivered
  /\ v.missed \subseteq w.missed
  /\ w.missed \subseteq v.missed \cup (1 .. f.from - 1) \cup (f.from .. b)
  /\ f.mine = TRUE => w.order = v.order
  /\ f.mine = TRUE /\ until # Present => changed \subseteq w.delivered \cup w.missed \cup gather
  /\ f.mine # TRUE => w.order # "kept"
  /\ f.mine # TRUE /\ AtOnce /\ ~failed /\ f.from <= b
       => \A m \in 1 .. f.from - 1 : m \in w.delivered \cup w.missed

\* What the fetch f has passed over, up to b, is counted as missed.
LEMMA PassedGood ==
  ASSUME NEW v, Good(v), NEW f \in Fetch, NEW b \in 0 .. MaxMessages,
         NEW changed \in SUBSET (f.from .. b), NEW w, w = Passed(v, f, b, changed)
  PROVE  PassedOver(v, w, f, b, changed)
<1> USE DEF PassedOver
<1>1. MaxMessages \in Nat /\ Msg = 1 .. MaxMessages /\ Present = MaxMessages + 1
  BY MessagesBounds DEF Msg, Present
<1>2. f.from \in 1 .. Present /\ f.mine \in BOOLEAN
  BY DEF Fetch
<1> DEFINE s == (1 .. f.from - 1) \ v.delivered
           d == changed \ (v.delivered \cup gather)
           e == Excused(v)
<1>3. s \in SUBSET Msg /\ d \in SUBSET Msg
  <2>1. 1 .. f.from - 1 \subseteq Msg
    BY <1>1, <1>2
  <2>2. f.from .. b \subseteq Msg
    BY <1>1, <1>2
  <2>3. d \subseteq f.from .. b
    OBVIOUS
  <2> HIDE DEF d
  <2> QED BY <2>1, <2>2, <2>3
<1>4. s \subseteq 1 .. f.from - 1 /\ d \subseteq f.from .. b /\ v \in View
  BY DEF Good
<1>5. /\ Good(e) /\ e.order # "kept" /\ e.delivered = v.delivered /\ e.missed = v.missed
      /\ e \in View
  BY ExcusedGood
<1> HIDE DEF e
<1>6. CASE f.mine = TRUE
  <2>1. CASE until = Present
    <3>1. w = [v EXCEPT !.missed = v.missed]
      BY <1>6, <2>1 DEF Passed
    <3>2. w = v
      BY <1>4, <3>1 DEF View
    <3> QED BY <1>6, <2>1, <3>2
  <2>2. CASE until # Present
    <3>1. w = [v EXCEPT !.missed = v.missed \cup d]
      BY <1>6, <2>2 DEF Passed
    <3>2. changed \subseteq v.delivered \cup d \cup gather
      OBVIOUS
    <3> HIDE DEF d
    <3>3. Good(w) /\ w.delivered = v.delivered /\ w.missed = v.missed \cup d /\ w.order = v.order
      BY <1>3, <3>1, MissedGood
    <3> QED BY <1>4, <1>6, <3>2, <3>3
  <2> QED BY <2>1, <2>2
<1>7. CASE f.mine # TRUE /\ AtOnce /\ ~failed /\ f.from <= b
  <2>1. w = [e EXCEPT !.missed = e.missed \cup s]
    BY <1>2, <1>5, <1>7 DEF Passed, e
  <2> HIDE DEF s
  <2>2. Good(w) /\ w.delivered = e.delivered /\ w.missed = e.missed \cup s /\ w.order = e.order
    BY <1>3, <1>5, <2>1, MissedGood
  <2>3. \A m \in 1 .. f.from - 1 : m \in w.delivered \cup w.missed
    BY <1>5, <2>2 DEF s
  <2> QED BY <1>4, <1>5, <1>7, <2>2, <2>3
<1>8. CASE f.mine # TRUE /\ ~(AtOnce /\ ~failed /\ f.from <= b)
  <2>1. w = [e EXCEPT !.missed = e.missed]
    BY <1>2, <1>8 DEF Passed, e
  <2>2. w = e
    BY <1>5, <2>1 DEF View
  <2> QED BY <1>5, <1>8, <2>2
<1> QED BY <1>6, <1>7, <1>8


-----------------------------------------------------------------------------
(* The fetches under way.                                                  *)

\* The fetches of the open window, and of closed ones, among q.
Own(q) == {k \in DOMAIN q : q[k].mine = TRUE}
Stray(q) == {k \in DOMAIN q : q[k].mine = FALSE}

\* The fetches are finitely many.
LEMMA FetchSeq ==
  ASSUME NEW q \in Seq(Fetch)
  PROVE  /\ Len(q) \in Nat /\ DOMAIN q = 1 .. Len(q)
         /\ \A k \in DOMAIN q : q[k] \in Fetch /\ q[k].mine \in BOOLEAN
         /\ IsFiniteSet(Stray(q)) /\ Cardinality(Stray(q)) \in Nat
<1>1. Len(q) \in Nat /\ DOMAIN q = 1 .. Len(q) /\ \A k \in DOMAIN q : q[k] \in Fetch
  OBVIOUS
<1>2. \A k \in DOMAIN q : q[k].mine \in BOOLEAN
  BY <1>1 DEF Fetch
<1>3. IsFiniteSet(1 .. Len(q))
  BY <1>1, FS_Interval
<1>4. IsFiniteSet(Stray(q))
  BY <1>1, <1>3, FS_Subset DEF Stray
<1> QED BY <1>1, <1>2, <1>4, FS_CardinalityType

\* r is q with g in place k.
Swapped(q, k, g, r) == r = [q EXCEPT ![k] = g]

\* One fetch of a window goes on as another of that window.
LEMMA Replaced ==
  ASSUME NEW q \in Seq(Fetch), NEW k \in DOMAIN q, NEW g \in Fetch, g.mine = q[k].mine,
         NEW r, Swapped(q, k, g, r)
  PROVE  /\ r \in Seq(Fetch) /\ DOMAIN r = DOMAIN q
         /\ r[k] = g /\ \A j \in DOMAIN q : j # k => r[j] = q[j]
         /\ Own(r) = Own(q) /\ Stray(r) = Stray(q)
<1>1. Len(q) \in Nat /\ DOMAIN q = 1 .. Len(q) /\ \A j \in DOMAIN q : q[j] \in Fetch
  OBVIOUS
<1>2. /\ r \in Seq(Fetch) /\ DOMAIN r = DOMAIN q
      /\ r[k] = g /\ \A j \in DOMAIN q : j # k => r[j] = q[j]
  BY DEF Swapped
<1>3. \A j \in DOMAIN q : r[j].mine = q[j].mine
  BY <1>2
<1> QED BY <1>2, <1>3 DEF Own, Stray

\* The fetch g is begun after the fetches q.
Joins(q, n, g, r) == g \in Fetch /\ g.mine = TRUE /\ n = Len(q) + 1 /\ r = Append(q, g)

\* See Joins.
LEMMA Appended ==
  ASSUME NEW q \in Seq(Fetch), NEW n, NEW g, NEW r, Joins(q, n, g, r)
  PROVE  /\ r \in Seq(Fetch) /\ DOMAIN r = DOMAIN q \cup {n}
         /\ r[n] = g /\ \A j \in DOMAIN q : r[j] = q[j]
         /\ Own(r) = Own(q) \cup {n} /\ Stray(r) = Stray(q)
<1>1. Len(q) \in Nat /\ DOMAIN q = 1 .. Len(q) /\ n = Len(q) + 1
  BY DEF Joins
<1>2. /\ r \in Seq(Fetch) /\ Len(r) = Len(q) + 1 /\ r[n] = g
      /\ \A j \in 1 .. Len(q) : r[j] = q[j]
  BY AppendProperties DEF Joins
<1>3. DOMAIN r = 1 .. n
  BY <1>1, <1>2
<1>4. DOMAIN r = DOMAIN q \cup {n}
  BY <1>1, <1>3
<1> QED BY <1>1, <1>2, <1>4 DEF Own, Stray, Joins

\* The fetches q when their window was closed.
Orphaned(q, r) == r = [k \in DOMAIN q |-> [q[k] EXCEPT !.mine = FALSE]]

\* What is left of them, and how many there are.
LEMMA Closed ==
  ASSUME NEW q \in Seq(Fetch), NEW r, Orphaned(q, r)
  PROVE  /\ r \in Seq(Fetch) /\ DOMAIN r = DOMAIN q
         /\ \A j \in DOMAIN q : /\ r[j].mine = FALSE /\ r[j].from = q[j].from
                                /\ r[j].before = q[j].before /\ r[j].answer = q[j].answer
         /\ Own(r) = {}
         /\ Own(q) = {} => Cardinality(Stray(r)) = Cardinality(Stray(q))
         /\ \A i : Own(q) = {i} => Cardinality(Stray(r)) = Cardinality(Stray(q)) + 1
<1>1. Len(q) \in Nat /\ DOMAIN q = 1 .. Len(q) /\ \A j \in DOMAIN q : q[j] \in Fetch
  OBVIOUS
<1>2. \A j \in DOMAIN q : /\ r[j] \in Fetch /\ r[j].mine = FALSE /\ r[j].from = q[j].from
                          /\ r[j].before = q[j].before /\ r[j].answer = q[j].answer
  BY <1>1 DEF Fetch, Orphaned
<1>3. DOMAIN r = DOMAIN q
  BY DEF Orphaned
<1>4. r \in Seq(Fetch)
  <2>1. r = [k \in 1 .. Len(q) |-> r[k]]
    BY <1>1 DEF Orphaned
  <2> QED BY <1>1, <1>2, <2>1, IsASeq
<1>5. Own(r) = {} /\ Stray(r) = DOMAIN q
  BY <1>2, <1>3 DEF Own, Stray
<1>6. DOMAIN q = Own(q) \cup Stray(q) /\ Own(q) \cap Stray(q) = {}
  BY <1>1 DEF Own, Stray, Fetch
<1>7. Own(q) = {} => Cardinality(Stray(r)) = Cardinality(Stray(q))
  BY <1>5, <1>6
<1>8. ASSUME NEW i, Own(q) = {i} PROVE Cardinality(Stray(r)) = Cardinality(Stray(q)) + 1
  <2>1. Stray(r) = Stray(q) \cup {i} /\ i \notin Stray(q)
    BY <1>5, <1>6, <1>8
  <2> QED BY <2>1, FetchSeq, FS_AddElement
<1> QED BY <1>2, <1>3, <1>4, <1>5, <1>7, <1>8

\* The place that place j of a list had before place k was removed.
Before(k, j) == IF j < k THEN j ELSE j + 1

\* Fetch k of q has ended.
Leaves(q, k, r) == r = RemoveAt(q, k)

\* See Leaves.
LEMMA Removed ==
  ASSUME NEW q \in Seq(Fetch), NEW k \in DOMAIN q, NEW r, Leaves(q, k, r)
  PROVE  /\ r \in Seq(Fetch)
         /\ \A j \in DOMAIN r : /\ Before(k, j) \in DOMAIN q \ {k} /\ r[j] = q[Before(k, j)]
         /\ \A i \in DOMAIN q \ {k} : \E j \in DOMAIN r : r[j] = q[i]
         /\ Own(q) = {k} => Own(r) = {} /\ Cardinality(Stray(r)) = Cardinality(Stray(q))
         /\ k \in Stray(q) => Cardinality(Stray(r)) = Cardinality(Stray(q)) - 1
         /\ k \in Stray(q) /\ Own(q) = {} => Own(r) = {}
         /\ k \in Stray(q) => \A i : Own(q) = {i} => \E j : Own(r) = {j}
<1> DEFINE n == Len(q)
           a == SubSeq(q, 1, k - 1)
           c == SubSeq(q, k + 1, n)
<1>1. n \in Nat /\ DOMAIN q = 1 .. n /\ k \in 1 .. n /\ \A j \in DOMAIN q : q[j] \in Fetch
  OBVIOUS
<1>2. /\ a \in Seq(Fetch) /\ Len(a) = k - 1 /\ \A j \in 1 .. k - 1 : a[j] = q[j]
  <2>1. \A j \in 1 .. k - 1 : q[j] \in Fetch
    BY <1>1
  <2> QED BY <1>1, <2>1, SubSeqProperties
<1>3. /\ c \in Seq(Fetch) /\ Len(c) = n - k /\ \A j \in 1 .. n - k : c[j] = q[j + k]
  <2>1. \A j \in k + 1 .. n : q[j] \in Fetch
    BY <1>1
  <2>2. c \in Seq(Fetch) /\ Len(c) = (IF k + 1 <= n THEN n - (k + 1) + 1 ELSE 0)
    BY <1>1, <2>1, SubSeqProperties
  <2>3. \A j \in 1 .. n - (k + 1) + 1 : c[j] = q[(k + 1) + j - 1]
    BY <1>1, <2>1, SubSeqProperties
  <2>4. Len(c) = n - k
    BY <1>1, <2>2
  <2>5. ASSUME NEW j \in 1 .. n - k PROVE c[j] = q[j + k]
    <3>1. j \in 1 .. n - (k + 1) + 1 /\ (k + 1) + j - 1 = j + k
      BY <1>1
    <3> QED BY <2>3, <3>1
  <2> QED BY <2>2, <2>4, <2>5
<1> HIDE DEF n, a, c
<1>4. r = a \o c
  BY DEF Leaves, RemoveAt, a, c, n
<1>5. /\ r \in Seq(Fetch) /\ Len(r) = n - 1
      /\ \A j \in 1 .. n - 1 : r[j] = IF j <= k - 1 THEN a[j] ELSE c[j - (k - 1)]
  <2>1. /\ r \in Seq(Fetch) /\ Len(r) = Len(a) + Len(c)
        /\ \A j \in 1 .. Len(a) + Len(c) : r[j] = IF j <= Len(a) THEN a[j] ELSE c[j - Len(a)]
    BY <1>2, <1>3, <1>4, ConcatProperties
  <2>2. Len(a) + Len(c) = n - 1
    BY <1>1, <1>2, <1>3
  <2> QED BY <1>2, <2>1, <2>2
<1>6. DOMAIN r = 1 .. n - 1
  BY <1>5
<1>7. ASSUME NEW j \in DOMAIN r
      PROVE  Before(k, j) \in DOMAIN q \ {k} /\ r[j] = q[Before(k, j)]
  <2>1. j \in 1 .. n - 1
    BY <1>6
  <2>2. CASE j < k
    <3>1. j \in 1 .. k - 1 /\ j <= k - 1 /\ Before(k, j) = j /\ j \in DOMAIN q \ {k}
      BY <1>1, <2>1, <2>2 DEF Before
    <3> QED BY <1>2, <1>5, <2>1, <3>1
  <2>3. CASE ~(j < k)
    <3>1. /\ ~(j <= k - 1) /\ Before(k, j) = j + 1 /\ j + 1 \in DOMAIN q \ {k}
          /\ j - (k - 1) \in 1 .. n - k /\ (j - (k - 1)) + k = j + 1
      BY <1>1, <2>1, <2>3 DEF Before
    <3>2. r[j] = c[j - (k - 1)]
      BY <1>5, <2>1, <3>1
    <3>3. c[j - (k - 1)] = q[(j - (k - 1)) + k]
      BY <1>3, <3>1
    <3> QED BY <3>1, <3>2, <3>3
  <2> QED BY <2>2, <2>3
<1>8. ASSUME NEW i \in DOMAIN q \ {k}
      PROVE  \E j \in DOMAIN r : Before(k, j) = i
  <2>1. CASE i < k
    <3>1. i \in DOMAIN r /\ Before(k, i) = i
      BY <1>1, <1>6, <2>1 DEF Before
    <3> QED BY <3>1
  <2>2. CASE ~(i < k)
    <3>1. i - 1 \in DOMAIN r /\ Before(k, i - 1) = i
      BY <1>1, <1>6, <2>2 DEF Before
    <3> QED BY <3>1
  <2> QED BY <2>1, <2>2
<1>9. \A i, j \in DOMAIN r : Before(k, i) = Before(k, j) => i = j
  BY <1>1, <1>6 DEF Before
<1>10. Cardinality(Stray(r)) = Cardinality(Stray(q) \ {k})
  <2> DEFINE f == [j \in Stray(r) |-> Before(k, j)]
             T == Stray(q) \ {k}
  <2>1. \A j \in Stray(r) : j \in DOMAIN r /\ f[j] = Before(k, j) /\ Before(k, j) \in T
    BY <1>7 DEF Stray
  <2>2. f \in [Stray(r) -> T]
    BY <2>1
  <2>3. \A i, j \in Stray(r) : f[i] = f[j] => i = j
    <3> HIDE DEF f, T
    <3> QED BY <1>9, <2>1
  <2>4. \A t \in T : \E j \in Stray(r) : f[j] = t
    <3>1. SUFFICES ASSUME NEW t \in T PROVE \E j \in Stray(r) : f[j] = t
      OBVIOUS
    <3>2. t \in DOMAIN q \ {k} /\ q[t].mine = FALSE
      BY DEF Stray
    <3>3. PICK j \in DOMAIN r : Before(k, j) = t
      BY <1>8, <3>2
    <3>4. j \in Stray(r)
      BY <1>7, <3>2, <3>3 DEF Stray
    <3> QED BY <3>3, <3>4
  <2> HIDE DEF f, T
  <2>5. f \in Bijection(Stray(r), T)
    BY <2>2, <2>3, <2>4 DEF Bijection, Injection, Surjection, IsInjective
  <2>6. IsFiniteSet(Stray(r))
    BY <1>5, FetchSeq
  <2>7. ExistsBijection(Stray(r), T)
    BY <2>5 DEF ExistsBijection
  <2> QED BY <2>6, <2>7, FS_Bijection DEF T
<1>11. IsFiniteSet(Stray(q)) /\ Cardinality(Stray(q)) \in Nat
  BY FetchSeq
<1>12. Own(q) = {k} => Own(r) = {} /\ Cardinality(Stray(r)) = Cardinality(Stray(q))
  <2>1. SUFFICES ASSUME Own(q) = {k}
                 PROVE  Own(r) = {} /\ Cardinality(Stray(r)) = Cardinality(Stray(q))
    OBVIOUS
  <2>2. Own(r) = {}
    BY <1>7, <2>1 DEF Own
  <2>3. Stray(q) \ {k} = Stray(q)
    BY <2>1 DEF Own, Stray
  <2> QED BY <1>10, <2>2, <2>3
<1>13. k \in Stray(q) => Cardinality(Stray(r)) = Cardinality(Stray(q)) - 1
  BY <1>10, <1>11, FS_RemoveElement
<1>14. k \in Stray(q) /\ Own(q) = {} => Own(r) = {}
  BY <1>7 DEF Own
<1>15. ASSUME k \in Stray(q), NEW i, Own(q) = {i} PROVE \E j : Own(r) = {j}
  <2>1. i \in DOMAIN q \ {k} /\ q[i].mine = TRUE
    BY <1>15 DEF Own, Stray
  <2>2. PICK j \in DOMAIN r : Before(k, j) = i
    BY <1>8, <2>1
  <2>3. j \in Own(r)
    BY <1>7, <2>1, <2>2 DEF Own
  <2>4. \A l \in Own(r) : Before(k, l) \in Own(q) /\ l \in DOMAIN r
    BY <1>7 DEF Own
  <2>5. \A l \in Own(r) : l = j
    BY <1>9, <1>15, <2>2, <2>4
  <2> QED BY <2>3, <2>5
<1>16. \A i \in DOMAIN q \ {k} : \E j \in DOMAIN r : r[j] = q[i]
  BY <1>7, <1>8
<1> QED BY <1>5, <1>7, <1>12, <1>13, <1>14, <1>15, <1>16


-----------------------------------------------------------------------------
(* The pushes on their way.                                                *)

\* Among the pushes q is one of the kind about message m.
Among(q, kind, m) == \E i \in DOMAIN q : q[i].kind = kind /\ q[i].msg = m

\* Pushes come in the order of what they speak of, and each last-sent once.
Ordered(q) ==
  \A i, j \in DOMAIN q : i < j =>
    q[i].msg <= q[j].msg /\ (q[i].kind = "last" /\ q[j].kind = "last" => q[i].msg < q[j].msg)

\* What is left when the first push has been delivered.
LEMMA HeadAndTail ==
  ASSUME NEW q \in Seq(Push), q # <<>>, Ordered(q), NEW p, p = Head(q), NEW r, r = Tail(q)
  PROVE  /\ p \in Push /\ r \in Seq(Push) /\ Ordered(r) /\ Among(q, p.kind, p.msg)
         /\ \A kind, m : Among(q, kind, m) => (p.kind = kind /\ p.msg = m) \/ Among(r, kind, m)
         /\ \A kind, m : Among(r, kind, m) => Among(q, kind, m) /\ p.msg <= m
         /\ p.kind = "last" => \A m : Among(r, "last", m) => p.msg < m
<1>1. /\ Len(q) \in Nat /\ Len(q) # 0 /\ DOMAIN q = 1 .. Len(q) /\ p = q[1]
      /\ \A i \in DOMAIN q : q[i] \in Push
  OBVIOUS
<1>2. r \in Seq(Push) /\ Len(r) = Len(q) - 1 /\ \A i \in 1 .. Len(q) - 1 : r[i] = q[i + 1]
  BY HeadTailProperties
<1>3. DOMAIN r = 1 .. Len(q) - 1
  BY <1>2
<1>4. 1 \in DOMAIN q /\ \A i \in DOMAIN r : i + 1 \in DOMAIN q /\ r[i] = q[i + 1] /\ 1 < i + 1
  BY <1>1, <1>2, <1>3
<1>5. \A i \in DOMAIN q : i = 1 \/ (i - 1 \in DOMAIN r /\ r[i - 1] = q[i])
  <2>1. \A i \in DOMAIN q : i = 1 \/ (i - 1 \in DOMAIN r /\ (i - 1) + 1 = i)
    BY <1>1, <1>3
  <2> QED BY <1>4, <2>1
<1>6. Ordered(r)
  <2>1. \A i, j \in DOMAIN r : i < j => i + 1 < j + 1
    BY <1>3
  <2> QED BY <1>4, <2>1 DEF Ordered
<1>7. p \in Push /\ Among(q, p.kind, p.msg)
  BY <1>1, <1>4 DEF Among
<1>8. ASSUME NEW kind, NEW m, Among(q, kind, m)
      PROVE  (p.kind = kind /\ p.msg = m) \/ Among(r, kind, m)
  BY <1>1, <1>5, <1>8 DEF Among
<1>9. ASSUME NEW kind, NEW m, Among(r, kind, m)
      PROVE  /\ Among(q, kind, m) /\ p.msg <= m
             /\ p.kind = "last" /\ kind = "last" => p.msg < m
  BY <1>1, <1>4, <1>9 DEF Among, Ordered
<1> QED BY <1>2, <1>6, <1>7, <1>8, <1>9

\* What is on its way when the pushes ps about a newer message have been sent.
LEMMA Joined ==
  ASSUME NEW q \in Seq(Push), NEW ps \in Seq(Push), Ordered(q), Ordered(ps), NEW n \in Nat,
         \A i \in DOMAIN q : q[i].msg < n, \A i \in DOMAIN ps : ps[i].msg = n,
         NEW r, r = q \o ps
  PROVE  /\ r \in Seq(Push) /\ Ordered(r)
         /\ \A kind, m : Among(r, kind, m) <=> Among(q, kind, m) \/ Among(ps, kind, m)
<1>1. /\ Len(q) \in Nat /\ DOMAIN q = 1 .. Len(q) /\ Len(ps) \in Nat /\ DOMAIN ps = 1 .. Len(ps)
      /\ (\A i \in DOMAIN q : q[i] \in Push) /\ \A i \in DOMAIN ps : ps[i] \in Push
  OBVIOUS
<1>2. /\ r \in Seq(Push) /\ Len(r) = Len(q) + Len(ps)
      /\ \A i \in 1 .. Len(q) + Len(ps) : r[i] = IF i <= Len(q) THEN q[i] ELSE ps[i - Len(q)]
  BY ConcatProperties
<1>3. DOMAIN r = 1 .. Len(q) + Len(ps)
  BY <1>2
<1>4. \A i \in DOMAIN r : \/ i \in DOMAIN q /\ r[i] = q[i]
                          \/ i \notin DOMAIN q /\ i - Len(q) \in DOMAIN ps /\ r[i] = ps[i - Len(q)]
  BY <1>1, <1>2, <1>3
<1>5. \A i \in DOMAIN q : i \in DOMAIN r /\ r[i] = q[i]
  BY <1>1, <1>2, <1>3
<1>6. \A i \in DOMAIN ps : i + Len(q) \in DOMAIN r /\ r[i + Len(q)] = ps[i]
  <2>1. \A i \in DOMAIN ps : /\ i + Len(q) \in DOMAIN r /\ ~(i + Len(q) <= Len(q))
                             /\ (i + Len(q)) - Len(q) = i
    BY <1>1, <1>3
  <2> QED BY <1>2, <1>3, <2>1
<1>7. ASSUME NEW i \in DOMAIN r, NEW j \in DOMAIN r, i < j
      PROVE  /\ r[i].msg <= r[j].msg
             /\ r[i].kind = "last" /\ r[j].kind = "last" => r[i].msg < r[j].msg
  <2>1. CASE j \in DOMAIN q
    <3>1. i \in DOMAIN q
      BY <1>1, <1>3, <1>7, <2>1
    <3> QED BY <1>5, <1>7, <2>1, <3>1 DEF Ordered
  <2>2. CASE i \in DOMAIN q /\ j \notin DOMAIN q
    <3>1. r[i].msg < n /\ r[j].msg = n
      BY <1>4, <1>5, <2>2
    <3>2. r[i].msg \in Nat
      BY <1>1, <1>5, <2>2, MessagesBounds DEF Push, Msg
    <3> QED BY <3>1, <3>2
  <2>3. CASE i \notin DOMAIN q /\ j \notin DOMAIN q
    <3>1. /\ i - Len(q) \in DOMAIN ps /\ r[i] = ps[i - Len(q)]
          /\ j - Len(q) \in DOMAIN ps /\ r[j] = ps[j - Len(q)] /\ i - Len(q) < j - Len(q)
      BY <1>1, <1>3, <1>4, <1>7, <2>3
    <3> QED BY <3>1 DEF Ordered
  <2>4. CASE i \notin DOMAIN q /\ j \in DOMAIN q
    BY <1>1, <1>3, <1>7, <2>4
  <2> QED BY <2>1, <2>2, <2>3, <2>4
<1>8. \A kind, m : Among(r, kind, m) <=> Among(q, kind, m) \/ Among(ps, kind, m)
  <2>1. ASSUME NEW kind, NEW m, Among(r, kind, m)
        PROVE  Among(q, kind, m) \/ Among(ps, kind, m)
    BY <1>4, <2>1 DEF Among
  <2>2. ASSUME NEW kind, NEW m, Among(q, kind, m) \/ Among(ps, kind, m)
        PROVE  Among(r, kind, m)
    BY <1>5, <1>6, <2>2 DEF Among
  <2> QED BY <2>1, <2>2
<1> QED BY <1>2, <1>7, <1>8 DEF Ordered


-----------------------------------------------------------------------------
(* The invariant.                                                          *)

\* The messages the user was shown, or that are excused.
Shown == view.delivered \cup view.missed

\* The fetch f of the open window has yet to bring message m.
Brings(f, m) ==
  f.mine = TRUE /\ m >= f.from /\ (f.answer.kind = "page" => f.answer.more = TRUE \/ m <= f.answer.to)
Coming(m) == \E k \in DOMAIN fetches : Brings(fetches[k], m)

\* Message m was shown, or the open window has it, or a fetch of its own brings it.
Held(m) == m \in Shown \cup gather \/ m > until \/ Coming(m)

\* A push will show message m, or have a window that fetches nothing fetch it.
Pending(m) == Among(pushes, "message", m) \/ (~room /\ msgsDone /\ Among(pushes, "last", m))

\* What the flags of a window say of each other; a batch ends at a message there is.
Flags ==
  /\ ~open => ~membersDone /\ ~msgsDone /\ ~failed /\ ~gathering
  /\ hooked => ~room /\ ~open
  /\ open => (gathering <=> ~(membersDone /\ msgsDone))
  /\ ~open \/ msgsDone => until = Present
  /\ until <= sent \/ until = Present
  /\ \A m \in gather : m <= until /\ m <= sent

\* A fetch is for messages there are, and the last page goes to the end of them.
FetchOK(f) ==
  /\ f.from <= sent + 1 /\ f.from <= f.before + 1
  /\ f.before <= sent \/ f.before = Present
  /\ f.mine = TRUE => f.before = until
  /\ f.answer.kind = "page" =>
       /\ f.from <= f.answer.to + 1 /\ f.answer.to <= sent /\ f.answer.to <= f.before
       /\ f.answer.more # TRUE /\ f.before # Present => f.before <= f.answer.to
FetchesOK == \A k \in DOMAIN fetches : FetchOK(fetches[k])

\* The open window has one fetch until it is done, each closed one that is left one.
Owner ==
  /\ open /\ ~msgsDone => \E k : Own(fetches) = {k}
  /\ ~(open /\ ~msgsDone) => Own(fetches) = {}
  /\ zombies = Cardinality(Stray(fetches))

Seen ==
  /\ Good(view) /\ \A m \in Shown : m <= sent
  /\ view.order = "kept" => ~failed

Queue ==
  /\ Ordered(pushes) /\ lastSent <= sent
  /\ \A kind, m : Among(pushes, kind, m) => m <= sent
  /\ \A m : Among(pushes, "last", m) => lastSent < m

\* What a conversation has after its last-sent was shown or is yet to be told of.
Unannounced ==
  ~room => \A m \in Msg : lastSent < m /\ m <= sent => m \in Shown \/ Among(pushes, "last", m)

\* No message is forgotten while a window is open and its fetches succeed.
Coverage == open /\ ~failed => \A m \in Msg : m <= sent => Held(m) \/ Pending(m)

\* While the window gathers, no fetch, nor anything gathered, is past a message that
\* only a push would bring.
Behind ==
  open /\ ~failed /\ gathering =>
    /\ \A k \in DOMAIN fetches : \A m \in Msg : m < fetches[k].from => Held(m)
    /\ \A g \in gather : \A m \in Msg : m <= g => Held(m)

MessagesInv ==
  /\ MessagesTypeOK /\ Flags /\ FetchesOK /\ Owner /\ Seen /\ Queue /\ Unannounced
  /\ Coverage /\ Behind

\* The numbers of the model.
LEMMA Numbers ==
  ASSUME MessagesTypeOK
  PROVE  /\ MaxMessages \in Nat /\ Msg = 1 .. MaxMessages /\ Present = MaxMessages + 1
         /\ sent \in Nat /\ sent <= MaxMessages /\ lastSent \in Nat /\ until \in Nat
         /\ until <= Present /\ \A m \in Msg : m \in Nat /\ 0 < m /\ m < Present
BY MessagesBounds DEF MessagesTypeOK, Msg, Present

\* An answer is one of three things.
LEMMA AnswerKinds ==
  ASSUME NEW a \in Answer
  PROVE  /\ a.kind \in {"none", "failed", "page"}
         /\ a = NoAnswer <=> a.kind = "none"
         /\ a = Refusal <=> a.kind = "failed"
         /\ a.kind = "page" => a.to \in 0 .. MaxMessages /\ a.more \in BOOLEAN
<1>1. CASE a = NoAnswer
  BY <1>1 DEF NoAnswer, Refusal
<1>2. CASE a = Refusal
  BY <1>2 DEF NoAnswer, Refusal
<1>3. CASE a \in [kind : {"page"}, to : 0 .. MaxMessages, more : BOOLEAN]
  BY <1>3 DEF NoAnswer, Refusal
<1> QED BY <1>1, <1>2, <1>3 DEF Answer

\* The fields of a fetch.
LEMMA FetchFields ==
  ASSUME NEW f \in Fetch
  PROVE  /\ f.mine \in BOOLEAN /\ f.from \in 1 .. Present /\ f.before \in 0 .. Present
         /\ f.answer \in Answer /\ f.answer.kind \in {"none", "failed", "page"}
         /\ f.answer = NoAnswer <=> f.answer.kind = "none"
         /\ f.answer = Refusal <=> f.answer.kind = "failed"
         /\ f.answer.kind = "page" => /\ f.answer.to \in 0 .. MaxMessages
                                      /\ f.answer.more \in BOOLEAN
<1>1. /\ f.mine \in BOOLEAN /\ f.from \in 1 .. Present /\ f.before \in 0 .. Present
      /\ f.answer \in Answer
  BY DEF Fetch
<1> QED BY <1>1, AnswerKinds

\* A fetch that is begun.
LEMMA AskFields ==
  ASSUME NEW from \in 1 .. Present, NEW before \in 0 .. Present
  PROVE  LET f == Ask(from, before) IN
         /\ f \in Fetch /\ f.mine = TRUE /\ f.from = from /\ f.before = before
         /\ f.answer.kind = "none"
BY DEF Ask, Fetch, Answer, NoAnswer

\* Initially.
LEMMA MessagesBegin == MessagesInit => MessagesInv
<1> SUFFICES ASSUME MessagesInit PROVE MessagesInv
  OBVIOUS
<1> USE DEF MessagesInit
<1>1. MaxMessages \in Nat /\ SeenMax \in Nat \ {0} /\ Present = MaxMessages + 1
  BY MessagesBounds DEF Present
<1>2. /\ view \in View /\ view.seen = <<>> /\ view.mark = 0 /\ view.delivered = {}
      /\ view.missed = {} /\ view.last = 0 /\ view.order = "kept"
  BY <1>1 DEF View
<1>3. MessagesTypeOK
  <2>1. <<>> \in Seq(Fetch) /\ <<>> \in Seq(Push) /\ Len(<<>>) = 0
    OBVIOUS
  <2>2. view \in View /\ Len(view.seen) <= SeenMax
    BY <1>1, <1>2, <2>1
  <2>3. until \in 0 .. Present /\ zombies \in Nat /\ lastSent \in 0 .. MaxMessages
    BY <1>1
  <2>4. gather \subseteq Msg /\ (gather # {} => gathering)
    OBVIOUS
  <2> QED BY <2>1, <2>2, <2>3, <2>4 DEF MessagesTypeOK
<1>4. Flags
  BY <1>1 DEF Flags
<1>5. FetchesOK /\ Owner
  <2>1. Own(fetches) = {} /\ Stray(fetches) = {}
    BY DEF Own, Stray
  <2>2. zombies = Cardinality(Stray(fetches))
    BY <2>1, FS_EmptySet
  <2>3. FetchesOK
    BY DEF FetchesOK
  <2> QED BY <2>1, <2>2, <2>3 DEF Owner
<1>6. Seen
  <2>1. ToSet(<<>>) = {}
    BY DEF ToSet
  <2>2. Good(view)
    BY <1>1, <1>2, <2>1 DEF Good, OrderSound
  <2> QED BY <1>2, <2>2 DEF Seen, Shown
<1>7. Queue /\ Unannounced /\ Coverage /\ Behind
  BY <1>1 DEF Queue, Unannounced, Coverage, Behind, Ordered, Among, Msg
<1> QED BY <1>3, <1>4, <1>5, <1>6, <1>7 DEF MessagesInv


-----------------------------------------------------------------------------
(* Each action keeps the invariant.                                        *)

\* What the service answers to a fetch.
LEMMA PageRead ==
  ASSUME MessagesTypeOK, NEW f \in Fetch, FetchOK(f), f.answer = NoAnswer,
         NEW a \in {Refusal} \cup Pages(f), NEW g, g = [f EXCEPT !.answer = a]
  PROVE  /\ g \in Fetch /\ g.mine = f.mine /\ g.from = f.from /\ g.before = f.before
         /\ FetchOK(g)
         /\ \A m \in Msg : m <= sent /\ Brings(f, m) => Brings(g, m) \/ m > f.before
<1> DEFINE end == Least(f.before, sent)
<1>1. /\ MaxMessages \in Nat /\ Present = MaxMessages + 1 /\ sent \in Nat /\ sent <= MaxMessages
      /\ \A m \in Msg : m \in Nat
  BY Numbers
<1>2. f.mine \in BOOLEAN /\ f.from \in 1 .. Present /\ f.before \in 0 .. Present
  BY FetchFields
<1>3. f.from <= sent + 1 /\ f.from <= f.before + 1
  BY DEF FetchOK
<1>4. end \in Nat /\ end <= sent /\ end <= f.before /\ f.from <= end + 1
      /\ (end = sent \/ end = f.before)
  BY <1>1, <1>2, <1>3 DEF Least
<1> HIDE DEF end
<1>5. \/ a = Refusal
      \/ \E t \in f.from .. end : a = [kind |-> "page", to |-> t, more |-> t < end]
      \/ f.from > end /\ a = [kind |-> "page", to |-> f.from - 1, more |-> FALSE]
  BY DEF Pages, end
<1>6. /\ a \in Answer
      /\ a.kind = "page" =>
           /\ f.from <= a.to + 1 /\ a.to <= sent /\ a.to <= f.before /\ a.to \in Nat
           /\ a.more = TRUE \/ end <= a.to
  <2>1. CASE a = Refusal
    BY <2>1 DEF Answer, Refusal
  <2>2. CASE \E t \in f.from .. end : a = [kind |-> "page", to |-> t, more |-> t < end]
    <3>1. PICK t \in f.from .. end : a = [kind |-> "page", to |-> t, more |-> t < end]
      BY <2>2
    <3>2. t \in 0 .. MaxMessages /\ t \in Nat /\ t <= end /\ f.from <= t
      BY <1>1, <1>2, <1>4
    <3>3. a.kind = "page" /\ a.to = t /\ a.more = (t < end) /\ a \in Answer
      BY <3>1, <3>2 DEF Answer
    <3>4. CASE t < end
      <4>1. (t < end) = TRUE
        BY <3>4
      <4>2. a.more = TRUE
        BY <3>3, <4>1
      <4> QED BY <1>1, <1>2, <1>4, <3>2, <3>3, <4>2
    <3>5. CASE ~(t < end)
      <4>1. end <= t
        BY <1>4, <3>2, <3>5
      <4> QED BY <1>1, <1>2, <1>4, <3>2, <3>3, <4>1
    <3> QED BY <3>4, <3>5
  <2>3. CASE f.from > end /\ a = [kind |-> "page", to |-> f.from - 1, more |-> FALSE]
    <3>1. f.from - 1 \in 0 .. MaxMessages /\ f.from - 1 = end
      BY <1>1, <1>2, <1>4, <2>3
    <3>2. a.kind = "page" /\ a.to = f.from - 1 /\ a \in Answer
      BY <2>3, <3>1 DEF Answer
    <3> QED BY <1>1, <1>2, <1>4, <3>1, <3>2
  <2> QED BY <1>5, <2>1, <2>2, <2>3
<1>7. /\ g \in Fetch /\ g.mine = f.mine /\ g.from = f.from /\ g.before = f.before
      /\ g.answer = a
  BY <1>2, <1>6 DEF Fetch
<1>8. FetchOK(g)
  <2>1. ASSUME a.kind = "page", a.more # TRUE, f.before # Present PROVE f.before <= a.to
    <3>1. f.before <= sent
      BY <2>1 DEF FetchOK
    <3>2. end = f.before
      BY <1>1, <1>2, <1>4, <3>1
    <3> QED BY <1>6, <2>1, <3>2
  <2> QED BY <1>6, <1>7, <2>1 DEF FetchOK
<1>9. ASSUME NEW m \in Msg, m <= sent, Brings(f, m)
      PROVE  Brings(g, m) \/ m > f.before
  <2>1. f.mine = TRUE /\ m >= f.from
    BY <1>9 DEF Brings
  <2>2. ASSUME a.kind = "page", a.more # TRUE PROVE m <= a.to \/ m > f.before
    <3>1. end <= a.to /\ a.to \in Nat
      BY <1>6, <2>2
    <3>2. m \in Nat /\ m <= sent
      BY <1>1, <1>9
    <3> QED BY <1>1, <1>2, <1>4, <3>1, <3>2
  <2> QED BY <1>7, <2>1, <2>2 DEF Brings
<1> QED BY <1>7, <1>8, <1>9

\* A page is read.
LEMMA ReadPageKeeps ==
  ASSUME MessagesInv, NEW k \in DOMAIN fetches, ReadPage(k)
  PROVE  MessagesInv'
<1> USE DEF MessagesInv
<1>1. PICK a \in {Refusal} \cup Pages(fetches[k]) : fetches' = [fetches EXCEPT ![k].answer = a]
  BY DEF ReadPage
<1>2. /\ UNCHANGED <<room, open, hooked, window, view, zombies, service, pushes>>
      /\ fetches[k].answer = NoAnswer
  BY DEF ReadPage
<1>3. /\ fetches \in Seq(Fetch) /\ fetches[k] \in Fetch /\ FetchOK(fetches[k])
  BY DEF MessagesTypeOK, FetchesOK
<1> DEFINE f == fetches[k]
           g == [f EXCEPT !.answer = a]
<1>4. fetches' = [fetches EXCEPT ![k] = g]
  BY <1>1
<1>5. /\ g \in Fetch /\ g.mine = f.mine /\ g.from = f.from /\ g.before = f.before
      /\ FetchOK(g)
      /\ \A m \in Msg : m <= sent /\ Brings(f, m) => Brings(g, m) \/ m > f.before
  BY <1>2, <1>3, PageRead
<1> HIDE DEF g
<1>6. /\ fetches' \in Seq(Fetch) /\ DOMAIN fetches' = DOMAIN fetches
      /\ fetches'[k] = g /\ \A j \in DOMAIN fetches : j # k => fetches'[j] = fetches[j]
      /\ Own(fetches') = Own(fetches) /\ Stray(fetches') = Stray(fetches)
  <2>1. fetches \in Seq(Fetch) /\ g \in Fetch
    BY <1>3, <1>5
  <2>2. g.mine = fetches[k].mine
    BY <1>5
  <2>3. Swapped(fetches, k, g, fetches')
    BY <1>4 DEF Swapped
  <2> QED BY <2>1, <2>2, <2>3, Replaced
<1>7. MessagesTypeOK'
  BY <1>2, <1>6 DEF MessagesTypeOK, window, service
<1>8. Flags' /\ Owner' /\ Seen' /\ Queue' /\ Unannounced'
  BY <1>2, <1>6 DEF Flags, Owner, Seen, Queue, Unannounced, window, service, Shown
<1>9. FetchesOK'
  BY <1>2, <1>5, <1>6 DEF FetchesOK, FetchOK, window, service
<1>10. \A m \in Msg : m <= sent /\ Held(m) => Held(m)'
  <2>1. SUFFICES ASSUME NEW m \in Msg, m <= sent, Coming(m) PROVE Coming(m)' \/ m > until
    BY <1>2 DEF Held, Shown, window
  <2>2. PICK j \in DOMAIN fetches : Brings(fetches[j], m)
    BY <2>1 DEF Coming
  <2>3. CASE j # k
    BY <1>6, <2>2, <2>3 DEF Coming, Brings
  <2>4. CASE j = k
    <3>1. Brings(g, m) \/ m > f.before
      BY <1>5, <2>1, <2>2, <2>4
    <3>2. f.before = until
      BY <1>3, <2>2, <2>4 DEF Brings, FetchOK
    <3> QED BY <1>6, <3>1, <3>2 DEF Coming, Brings
  <2> QED BY <2>3, <2>4
<1>11. Coverage'
  BY <1>2, <1>10 DEF Coverage, Pending, window, service
<1>12. Behind'
  <2>1. SUFFICES ASSUME open, ~failed, gathering PROVE Behind'
    BY <1>2 DEF Behind, window
  <2>2. \A j \in DOMAIN fetches : fetches'[j].from = fetches[j].from /\ fetches[j] \in Fetch
    BY <1>3, <1>5, <1>6
  <2>3. ASSUME NEW j \in DOMAIN fetches, NEW m \in Msg, m < fetches[j].from PROVE m <= sent
    <3>1. fetches[j].from <= sent + 1 /\ fetches[j].from \in 1 .. Present
      BY <2>2, FetchFields DEF FetchesOK, FetchOK
    <3> QED BY <2>3, <3>1, Numbers
  <2>4. \A h \in gather : \A m \in Msg : m <= h => m <= sent
    BY Numbers DEF Flags, MessagesTypeOK
  <2> QED BY <1>2, <1>6, <1>10, <2>1, <2>2, <2>3, <2>4 DEF Behind, window
<1> QED BY <1>7, <1>8, <1>9, <1>11, <1>12

\* A message is edited.
LEMMA EditKeeps ==
  ASSUME MessagesInv, NEW n \in Msg, Edit(n)
  PROVE  MessagesInv'
<1> USE DEF MessagesInv
<1> DEFINE p == [kind |-> "edit", msg |-> n]
<1>1. /\ UNCHANGED <<room, open, hooked, window, view, fetches, zombies, service>>
      /\ n < sent /\ pushes = <<>> /\ pushes' = <<p>>
  BY DEF Edit
<1>2. p \in Push /\ p.kind = "edit" /\ p.msg = n
  BY DEF Push
<1> HIDE DEF p
<1>3. /\ pushes' \in Seq(Push) /\ Ordered(pushes')
      /\ \A kind, m : Among(pushes', kind, m) => kind = "edit" /\ m = n
  <2>1. DOMAIN pushes' = {1} /\ pushes'[1] = p /\ pushes' \in Seq(Push)
    BY <1>1, <1>2
  <2> QED BY <1>2, <2>1 DEF Ordered, Among
<1>4. \A kind, m : ~Among(pushes, kind, m)
  BY <1>1 DEF Among
<1>5. MessagesTypeOK' /\ Flags' /\ FetchesOK' /\ Owner' /\ Seen'
  BY <1>1, <1>3 DEF MessagesTypeOK, Flags, FetchesOK, FetchOK, Owner, Seen, Shown, window, service
<1>6. Queue'
  <2>1. n <= sent
    BY <1>1, Numbers
  <2> QED BY <1>1, <1>3, <2>1 DEF Queue, service
<1>7. Unannounced'
  BY <1>1, <1>4 DEF Unannounced, Shown, service
<1>8. \A m \in Msg : Held(m) => Held(m)'
  BY <1>1 DEF Held, Shown, Coming, Brings, window
<1>9. Coverage' /\ Behind'
  BY <1>1, <1>4, <1>8 DEF Coverage, Behind, Pending, window, service
<1> QED BY <1>5, <1>6, <1>7, <1>9

\* The pushes are lost.
LEMMA LosePushesKeeps ==
  ASSUME MessagesInv, LosePushes
  PROVE  MessagesInv'
<1> USE DEF MessagesInv
<1> DEFINE s == {p.msg : p \in ToSet(pushes)} \ view.delivered
<1>1. /\ UNCHANGED <<room, open, hooked, window, fetches, zombies, service>>
      /\ pushes' = <<>> /\ view' = [view EXCEPT !.missed = view.missed \cup s]
  BY DEF LosePushes
<1>2. s \in SUBSET Msg /\ \A m \in s : m <= sent
  <2>1. \A p \in ToSet(pushes) : p \in Push /\ Among(pushes, p.kind, p.msg)
    BY DEF MessagesTypeOK, ToSet, Among
  <2> QED BY <2>1 DEF Queue, Push
<1>3. \A kind, m : Among(pushes, kind, m) => m \in view.delivered \cup s
  BY DEF Among, ToSet
<1> HIDE DEF s
<1>4. /\ Good(view') /\ view'.delivered = view.delivered /\ view'.missed = view.missed \cup s
      /\ view'.order = view.order
  BY <1>1, <1>2, MissedGood DEF Seen
<1>5. pushes' \in Seq(Push) /\ Ordered(pushes') /\ \A kind, m : ~Among(pushes', kind, m)
  BY <1>1 DEF Ordered, Among
<1>6. MessagesTypeOK' /\ Flags' /\ FetchesOK' /\ Owner'
  <2>1. view' \in View /\ Len(view'.seen) <= SeenMax
    BY <1>4 DEF Good
  <2> QED BY <1>1, <1>5, <2>1 DEF MessagesTypeOK, Flags, FetchesOK, FetchOK, Owner, window, service
<1>7. Shown' = Shown \cup s
  BY <1>4 DEF Shown
<1>8. Seen'
  BY <1>1, <1>2, <1>4, <1>7 DEF Seen, window, service
<1>9. Queue' /\ Unannounced'
  BY <1>1, <1>3, <1>5, <1>7 DEF Queue, Unannounced, service, Shown
<1>10. \A m \in Msg : Held(m) => Held(m)'
  BY <1>1, <1>7 DEF Held, Coming, Brings, window
<1>11. Coverage'
  BY <1>1, <1>3, <1>7, <1>10 DEF Coverage, Pending, window, service, Held, Shown
<1>12. Behind'
  BY <1>1, <1>10 DEF Behind, window
<1> QED BY <1>6, <1>8, <1>9, <1>11, <1>12

\* A message is sent.
LEMMA NewMessageKeeps ==
  ASSUME MessagesInv, NewMessage
  PROVE  MessagesInv'
<1> USE DEF MessagesInv
<1> DEFINE n == sent + 1
<1>1. /\ UNCHANGED <<room, open, hooked, window, view, fetches, zombies, lastSent>>
      /\ sent < MaxMessages /\ sent' = n
  BY DEF NewMessage
<1>2. PICK ps \in {<<Told(n), TellLast(n)>>, <<TellLast(n), Told(n)>>}
                    \cup (IF room THEN {<<Told(n)>>, <<Told(n), Told(n)>>} ELSE {}) :
        pushes' = pushes \o ps
  BY DEF NewMessage
<1>3. /\ MaxMessages \in Nat /\ Msg = 1 .. MaxMessages /\ sent \in Nat /\ lastSent \in Nat
      /\ n \in Msg /\ sent < n /\ n <= MaxMessages /\ n \in Nat
  BY <1>1, Numbers
<1> HIDE DEF n
<1>4. /\ Told(n) \in Push /\ Told(n).kind = "message" /\ Told(n).msg = n
      /\ TellLast(n) \in Push /\ TellLast(n).kind = "last" /\ TellLast(n).msg = n
  BY <1>3 DEF Told, TellLast, Push
<1>5. /\ ps \in Seq(Push) /\ Ordered(ps) /\ \A i \in DOMAIN ps : ps[i].msg = n
      /\ Among(ps, "message", n) /\ (~room => Among(ps, "last", n))
  <2> DEFINE a == Told(n)
             b == TellLast(n)
  <2>1. /\ a \in Push /\ a.kind = "message" /\ a.msg = n
        /\ b \in Push /\ b.kind = "last" /\ b.msg = n /\ n <= n
    BY <1>3, <1>4
  <2>2. ps \in {<<a, b>>, <<b, a>>} \/ (room /\ ps \in {<<a>>, <<a, a>>})
    BY <1>2
  <2> HIDE DEF a, b
  <2>3. CASE ps = <<a, b>>
    <3>1. DOMAIN ps = {1, 2} /\ ps[1] = a /\ ps[2] = b /\ ps \in Seq(Push)
      BY <2>1, <2>3
    <3> QED BY <2>1, <3>1 DEF Ordered, Among
  <2>4. CASE ps = <<b, a>>
    <3>1. DOMAIN ps = {1, 2} /\ ps[1] = b /\ ps[2] = a /\ ps \in Seq(Push)
      BY <2>1, <2>4
    <3> QED BY <2>1, <3>1 DEF Ordered, Among
  <2>5. CASE room /\ ps = <<a>>
    <3>1. DOMAIN ps = {1} /\ ps[1] = a /\ ps \in Seq(Push)
      BY <2>1, <2>5
    <3> QED BY <2>1, <2>5, <3>1 DEF Ordered, Among
  <2>6. CASE room /\ ps = <<a, a>>
    <3>1. DOMAIN ps = {1, 2} /\ ps[1] = a /\ ps[2] = a /\ ps \in Seq(Push)
      BY <2>1, <2>6
    <3> QED BY <2>1, <2>6, <3>1 DEF Ordered, Among
  <2> QED BY <2>2, <2>3, <2>4, <2>5, <2>6
<1>6. \A i \in DOMAIN pushes : pushes[i].msg < n
  <2>1. ASSUME NEW i \in DOMAIN pushes PROVE pushes[i].msg < n
    <3>1. pushes[i] \in Push
      BY DEF MessagesTypeOK
    <3>2. Among(pushes, pushes[i].kind, pushes[i].msg)
      BY DEF Among
    <3>3. pushes[i].msg <= sent /\ pushes[i].msg \in Nat
      BY <1>3, <3>1, <3>2 DEF Queue, Push
    <3> QED BY <1>3, <3>3
  <2> QED BY <2>1
<1>7. /\ pushes' \in Seq(Push) /\ Ordered(pushes')
      /\ \A kind, m : Among(pushes', kind, m) <=> Among(pushes, kind, m) \/ Among(ps, kind, m)
  BY <1>2, <1>3, <1>5, <1>6, Joined DEF MessagesTypeOK, Queue
<1>8. MessagesTypeOK' /\ Owner' /\ Seen'
  <2>0. sent' \in 0 .. MaxMessages
    BY <1>1, <1>3
  <2>1. MessagesTypeOK' /\ Owner'
    BY <1>1, <1>7, <2>0 DEF MessagesTypeOK, Owner, window
  <2>2. \A m \in Shown : m <= n
    BY <1>3 DEF Seen, Shown, MessagesTypeOK, View
  <2> QED BY <1>1, <2>1, <2>2 DEF Seen, Shown, window
<1>9. Flags'
  <2>1. until <= sent => until <= n
    BY <1>3 DEF MessagesTypeOK
  <2>2. \A m \in gather : m <= sent => m <= n
    BY <1>3 DEF MessagesTypeOK
  <2> QED BY <1>1, <2>1, <2>2 DEF Flags, window
<1>10. FetchesOK'
  <2>1. ASSUME NEW k \in DOMAIN fetches PROVE FetchOK(fetches[k])'
    <3>1. fetches[k] \in Fetch /\ FetchOK(fetches[k])
      BY DEF MessagesTypeOK, FetchesOK
    <3> DEFINE f == fetches[k]
    <3>2. f.from \in Nat /\ f.before \in Nat /\ (f.answer.kind = "page" => f.answer.to \in Nat)
      BY <1>3, <3>1, FetchFields DEF Present
    <3>3. f.from <= n + 1
      BY <1>3, <3>1, <3>2 DEF FetchOK
    <3>4. f.before <= n \/ f.before = Present
      BY <1>3, <3>1, <3>2 DEF FetchOK
    <3>5. f.answer.kind = "page" => f.answer.to <= n
      BY <1>3, <3>1, <3>2 DEF FetchOK
    <3> QED BY <1>1, <3>1, <3>3, <3>4, <3>5 DEF FetchOK, window
  <2> QED BY <1>1, <2>1 DEF FetchesOK
<1>11. Queue'
  <2>1. \A kind, m : Among(ps, kind, m) => m = n
    BY <1>5 DEF Among
  <2>2. ASSUME NEW kind, NEW m, Among(pushes, kind, m) PROVE m <= sent /\ m \in Nat
    <3>1. PICK i \in DOMAIN pushes : pushes[i].msg = m
      BY <2>2 DEF Among
    <3>2. pushes[i] \in Push
      BY DEF MessagesTypeOK
    <3> QED BY <1>3, <2>2, <3>1, <3>2 DEF Queue, Push
  <2>3. \A kind, m : Among(pushes', kind, m) => m <= n
    BY <1>3, <1>7, <2>1, <2>2
  <2>4. \A m : Among(pushes', "last", m) => lastSent < m
    BY <1>3, <1>7, <2>1 DEF Queue
  <2>5. lastSent <= n
    BY <1>3 DEF Queue
  <2> QED BY <1>1, <1>7, <2>3, <2>4, <2>5 DEF Queue
<1>12. \A m \in Msg : m <= n => m <= sent \/ m = n
  BY <1>3 DEF n
<1>13. Unannounced'
  BY <1>1, <1>5, <1>7, <1>12 DEF Unannounced, Shown
<1>14. \A m \in Msg : Held(m)' <=> Held(m)
  BY <1>1 DEF Held, Shown, Coming, Brings, window
<1>15. \A m \in Msg : Pending(m) => Pending(m)'
  BY <1>1, <1>7 DEF Pending, window
<1>16. Coverage'
  <2> SUFFICES ASSUME open', ~failed', NEW m \in Msg, m <= sent' PROVE Held(m)' \/ Pending(m)'
    BY DEF Coverage
  <2>1. CASE m <= sent
    BY <1>1, <1>14, <1>15, <2>1 DEF Coverage, window
  <2>2. CASE m = n
    BY <1>5, <1>7, <2>2 DEF Pending
  <2> QED BY <1>1, <1>12, <2>1, <2>2
<1>17. Behind'
  BY <1>1, <1>14, <1>3 DEF Behind, window, Flags, MessagesTypeOK
<1> QED BY <1>8, <1>9, <1>10, <1>11, <1>13, <1>16, <1>17

\* The window is closed.
LEMMA CloseKeeps ==
  ASSUME MessagesInv, Close
  PROVE  MessagesInv'
<1> USE DEF MessagesInv
<1>1. /\ UNCHANGED <<room, view, service, pushes>>
      /\ open /\ open' = FALSE /\ hooked' = ~room /\ membersDone' = FALSE /\ msgsDone' = FALSE /\ failed' = FALSE
      /\ gathering' = FALSE /\ gather' = {} /\ until' = Present
      /\ zombies' = IF msgsDone THEN zombies ELSE zombies + 1
      /\ fetches' = [k \in DOMAIN fetches |-> [fetches[k] EXCEPT !.mine = FALSE]]
  BY DEF Close
<1>2. fetches \in Seq(Fetch)
  BY DEF MessagesTypeOK
<1>3. /\ fetches' \in Seq(Fetch) /\ DOMAIN fetches' = DOMAIN fetches
      /\ \A j \in DOMAIN fetches :
           /\ fetches'[j].mine = FALSE /\ fetches'[j].from = fetches[j].from
           /\ fetches'[j].before = fetches[j].before /\ fetches'[j].answer = fetches[j].answer
      /\ Own(fetches') = {}
      /\ Own(fetches) = {} => Cardinality(Stray(fetches')) = Cardinality(Stray(fetches))
      /\ \A i : Own(fetches) = {i} =>
                  Cardinality(Stray(fetches')) = Cardinality(Stray(fetches)) + 1
  <2>1. Orphaned(fetches, fetches')
    BY <1>1 DEF Orphaned
  <2> QED BY <1>2, <2>1, Closed
<1>4. zombies' \in Nat /\ Present \in 0 .. Present /\ hooked' \in BOOLEAN
  BY <1>1, Numbers DEF MessagesTypeOK
<1>5. MessagesTypeOK'
  BY <1>1, <1>3, <1>4 DEF MessagesTypeOK, service
<1>6. Flags' /\ Queue' /\ Unannounced' /\ Coverage' /\ Behind'
  BY <1>1 DEF Flags, Queue, Unannounced, Coverage, Behind, Shown, service
<1>7. FetchesOK'
  BY <1>1, <1>3 DEF FetchesOK, FetchOK, service
<1>8. Owner'
  BY <1>1, <1>3 DEF Owner
<1>9. Seen'
  BY <1>1 DEF Seen, Shown, service
<1> QED BY <1>5, <1>6, <1>7, <1>8, <1>9

\* While a window fetches, it gathers.
LEMMA Fetches ==
  ASSUME MessagesInv, NEW k \in DOMAIN fetches, fetches[k].mine = TRUE
  PROVE  open /\ ~msgsDone /\ gathering /\ Own(fetches) = {k}
<1>1. k \in Own(fetches)
  BY DEF Own
<1>2. open /\ ~msgsDone /\ Own(fetches) = {k}
  BY <1>1 DEF MessagesInv, Owner
<1> QED BY <1>2 DEF MessagesInv, Flags

\* A window that is done has what it gathered and what it showed.
LEMMA Fetched ==
  ASSUME MessagesInv, msgsDone, NEW m \in Msg, Held(m)
  PROVE  m \in Shown \cup gather
<1>1. ~(m > until)
  <2>1. until = Present
    BY DEF MessagesInv, Flags
  <2> QED BY <2>1, Numbers DEF MessagesInv
<1>2. ~Coming(m)
  BY Fetches DEF Coming, Brings
<1> QED BY <1>1, <1>2 DEF Held

\* What a window shows becomes shown.
LEMMA ShownAfter ==
  ASSUME NEW v, NEW s, After(v, s, view'), UNCHANGED sent, v.order = "kept" => ~failed',
         \A m \in v.delivered \cup v.missed \cup s : m <= sent
  PROVE  Seen' /\ Shown' = v.delivered \cup v.missed \cup s
<1>1. Shown' = v.delivered \cup v.missed \cup s
  BY DEF Shown, After
<1> QED BY <1>1 DEF Seen, After

\* The messages of s that a window shows at once.
Aloud(s) == IF open /\ ~gathering THEN s ELSE {}

\* Messages that come one after the other are shown if the window does not gather.
LEMMA PlayedGood ==
  ASSUME MessagesTypeOK, NEW v, Good(v), NEW s \in SUBSET Msg,
         open /\ ~gathering /\ (~failed \/ v.order = "kept") => Gapless(v, s),
         view' = Played(v, s)
  PROVE  After(v, Aloud(s), view')
<1>1. CASE open /\ ~gathering
  <2>1. view' = InTurn(v, s, ~failed)
    BY <1>1 DEF Played
  <2>2. (~failed) \in BOOLEAN
    OBVIOUS
  <2>3. After(v, s, InTurn(v, s, ~failed))
    BY <1>1, <2>2, InTurnGood
  <2> QED BY <1>1, <2>1, <2>3 DEF Aloud
<1>2. CASE ~(open /\ ~gathering)
  <2>1. view' = v /\ Aloud(s) = {}
    BY <1>2 DEF Played, Aloud
  <2> QED BY <2>1 DEF After
<1> QED BY <1>1, <1>2

\* The members of the room are known.
LEMMA MembersDoneKeeps ==
  ASSUME MessagesInv, MembersDone
  PROVE  MessagesInv'
<1> USE DEF MessagesInv
<1>1. /\ UNCHANGED <<room, open, hooked, msgsDone, failed, until, fetches, zombies, service, pushes>>
      /\ open /\ membersDone' = TRUE
  BY DEF MembersDone
<1>2. CASE msgsDone /\ gathering
  <2>1. view' = Completed(view, gather, ~failed) /\ gather' = {} /\ gathering' = FALSE
    BY <1>2 DEF MembersDone
  <2>2. ~failed \/ view.order = "kept" => Gapless(view, gather)
    <3> SUFFICES ASSUME ~failed, NEW g \in gather, NEW m \in 1 .. g PROVE m \in Shown \cup gather
      BY DEF Gapless, Seen, Shown
    <3>1. m \in Msg /\ m <= g
      BY Numbers DEF MessagesTypeOK
    <3> QED BY <1>1, <1>2, <3>1, Fetched DEF Behind
  <2>3. After(view, gather, view')
    <3>1. gather \in SUBSET Msg /\ (~failed) \in BOOLEAN
      BY DEF MessagesTypeOK
    <3> QED BY <2>1, <2>2, <3>1, CompletedGood DEF Seen
  <2>4. Seen' /\ Shown' = Shown \cup gather
    <3>1. view.order = "kept" => ~failed'
      BY <1>1 DEF Seen
    <3>2. \A m \in view.delivered \cup view.missed \cup gather : m <= sent
      BY DEF Seen, Shown, Flags
    <3> QED BY <1>1, <2>3, <3>1, <3>2, ShownAfter DEF service, Shown
  <2>5. MessagesTypeOK'
    BY <1>1, <2>1, <2>4 DEF MessagesTypeOK, Seen, Good, service
  <2>6. Flags' /\ FetchesOK' /\ Owner' /\ Queue' /\ Unannounced' /\ Behind'
    BY <1>1, <1>2, <2>1, <2>4
    DEF Flags, FetchesOK, FetchOK, Owner, Queue, Unannounced, Behind, service
  <2>7. Coverage'
    BY <1>1, <2>4 DEF Coverage, Held, Pending, Coming, Brings, service
  <2> QED BY <2>4, <2>5, <2>6, <2>7
<1>3. CASE ~(msgsDone /\ gathering)
  <2>1. UNCHANGED <<view, gather, gathering>>
    BY <1>3 DEF MembersDone
  <2>2. MessagesTypeOK'
    BY <1>1, <2>1 DEF MessagesTypeOK, service
  <2>3. /\ Flags' /\ FetchesOK' /\ Owner' /\ Queue' /\ Unannounced' /\ Seen'
    BY <1>1, <1>3, <2>1 DEF Flags, FetchesOK, FetchOK, Owner, Queue, Unannounced, Seen, Shown, service
  <2>4. \A m \in Msg : Held(m)' <=> Held(m)
    BY <1>1, <2>1 DEF Held, Shown, Coming, Brings
  <2>5. Coverage' /\ Behind'
    BY <1>1, <2>1, <2>4 DEF Coverage, Behind, Pending, service
  <2> QED BY <2>2, <2>3, <2>5
<1> QED BY <1>2, <1>3

\* Another fetch is begun after the fetches q.
Asks(q, from, before) == fetches' = Append(q, Ask(from, before))

\* What a window that has no fetch asks for is all that the mark does not cover.
LEMMA Asked ==
  ASSUME MessagesInv, NEW q \in Seq(Fetch), \A k \in DOMAIN q : FetchOK(q[k]),
         Own(q) = {}, sent' = sent, Shown \subseteq Shown',
         until' \in (Since(view.mark) .. sent) \cup {Present},
         Asks(q, Since(view.mark), until')
  PROVE  /\ fetches' \in Seq(Fetch) /\ FetchesOK'
         /\ \E k : Own(fetches') = {k}
         /\ Stray(fetches') = Stray(q)
         /\ \A m \in Msg : Held(m)'
<1> USE DEF MessagesInv
<1> DEFINE a == Since(view.mark)
           g == Ask(a, until')
           place == Len(q) + 1
<1>1. /\ MaxMessages \in Nat /\ Msg = 1 .. MaxMessages /\ Present = MaxMessages + 1
      /\ sent \in Nat /\ sent <= MaxMessages
  BY Numbers
<1>2. /\ view.mark \in Nat /\ view.mark <= sent
      /\ \A m \in Msg : m <= view.mark => m \in Shown
  <2>1. /\ view.mark \in 0 .. MaxMessages /\ view.mark \in Shown \cup {0}
        /\ \A m \in 1 .. view.mark : m \in Shown
    BY DEF Seen, Good, View, Shown
  <2>2. view.mark <= sent
    BY <1>1, <2>1 DEF Seen
  <2> QED BY <1>1, <2>1, <2>2
<1>3. /\ a \in 1 .. Present /\ a <= sent + 1 /\ a \in Nat
      /\ \A m \in Msg : m < a => m \in Shown
  BY <1>1, <1>2 DEF Since
<1> HIDE DEF a
<1>4. /\ until' \in 0 .. Present /\ a <= until' + 1 /\ (until' <= sent \/ until' = Present)
  BY <1>1, <1>3 DEF a
<1>5. /\ g \in Fetch /\ g.mine = TRUE /\ g.from = a /\ g.before = until'
      /\ g.answer.kind = "none"
  BY <1>3, <1>4, AskFields
<1> HIDE DEF g
<1>6. Joins(q, place, g, fetches')
  BY <1>5 DEF Asks, Joins, a, g
<1> HIDE DEF place
<1>7. /\ fetches' \in Seq(Fetch) /\ DOMAIN fetches' = DOMAIN q \cup {place}
      /\ fetches'[place] = g /\ \A j \in DOMAIN q : fetches'[j] = q[j]
      /\ Own(fetches') = Own(q) \cup {place} /\ Stray(fetches') = Stray(q)
  BY <1>6, Appended
<1>8. FetchesOK'
  <2> SUFFICES ASSUME NEW j \in DOMAIN fetches' PROVE FetchOK(fetches[j])'
    BY DEF FetchesOK
  <2>1. CASE j = place
    BY <1>3, <1>4, <1>5, <1>7, <2>1 DEF FetchOK
  <2>2. CASE j \in DOMAIN q
    <3>1. q[j].mine # TRUE /\ FetchOK(q[j])
      BY <2>2 DEF Own
    <3> QED BY <1>7, <2>2, <3>1 DEF FetchOK
  <2> QED BY <1>7, <2>1, <2>2
<1>9. ASSUME NEW m \in Msg PROVE Held(m)'
  <2>1. CASE m < a
    BY <1>3, <2>1 DEF Held
  <2>2. CASE m >= a
    <3>1. Brings(g, m)
      BY <1>5, <2>2 DEF Brings
    <3> QED BY <1>7, <3>1 DEF Held, Coming, Brings
  <2> QED BY <1>1, <1>3, <2>1, <2>2
<1> QED BY <1>7, <1>8, <1>9

\* A push that is delivered is the first of all.
Arrives(kind, m) ==
  /\ m \in Msg /\ m <= sent /\ pushes' \in Seq(Push) /\ Ordered(pushes')
  /\ \A k, n : Among(pushes, k, n) => (kind = k /\ m = n) \/ Among(pushes', k, n)
  /\ \A k, n : Among(pushes', k, n) => Among(pushes, k, n)
  /\ \A k, n : Among(pushes, k, n) => m <= n
  /\ kind = "last" => Among(pushes, "last", m) /\ \A n : Among(pushes', "last", n) => m < n

\* See Arrives.
LEMMA Arrival ==
  ASSUME MessagesInv, pushes # <<>>, pushes' = Tail(pushes), NEW p, p = Head(pushes)
  PROVE  p.kind \in {"message", "edit", "last"} /\ Arrives(p.kind, p.msg)
<1> DEFINE r == Tail(pushes)
<1>1. pushes \in Seq(Push) /\ Ordered(pushes)
  BY DEF MessagesInv, MessagesTypeOK, Queue
<1>2. /\ p \in Push /\ r \in Seq(Push) /\ Ordered(r) /\ Among(pushes, p.kind, p.msg)
      /\ \A kind, m : Among(pushes, kind, m) => (p.kind = kind /\ p.msg = m) \/ Among(r, kind, m)
      /\ \A kind, m : Among(r, kind, m) => Among(pushes, kind, m) /\ p.msg <= m
      /\ p.kind = "last" => \A m : Among(r, "last", m) => p.msg < m
  BY <1>1, HeadAndTail
<1> HIDE DEF r
<1>3. pushes' = r
  BY DEF r
<1>4. p.kind \in {"message", "edit", "last"} /\ p.msg \in Msg /\ p.msg <= p.msg
  BY <1>2, MessagesBounds DEF Push, Msg
<1>5. p.msg <= sent
  BY <1>2 DEF MessagesInv, Queue
<1> QED BY <1>2, <1>3, <1>4, <1>5 DEF Arrives

\* The last-sent of a conversation or room is told of.
LEMMA LastSentPushKeeps ==
  ASSUME MessagesInv, NEW n, Arrives("last", n), LastSentPush(n)
  PROVE  MessagesInv'
<1> USE DEF MessagesInv
<1>1. /\ UNCHANGED <<room, open, hooked, membersDone, failed, until, view, zombies, sent>>
      /\ lastSent' = n /\ n \in Msg /\ n <= sent /\ pushes' \in Seq(Push) /\ Ordered(pushes')
      /\ \A kind, m : Among(pushes, kind, m) => (kind = "last" /\ m = n) \/ Among(pushes', kind, m)
      /\ \A kind, m : Among(pushes', kind, m) => Among(pushes, kind, m)
      /\ \A m : Among(pushes', "last", m) => n < m
      /\ lastSent < n
  BY DEF LastSentPush, Arrives, Queue
<1>2. Shown' = Shown /\ Seen'
  BY <1>1 DEF Seen, Shown
<1>3. Queue'
  BY <1>1 DEF Queue
<1>4. Unannounced'
  <2> SUFFICES ASSUME ~room, NEW m \in Msg, n < m, m <= sent
               PROVE m \in Shown \/ Among(pushes', "last", m)
    BY <1>1, <1>2 DEF Unannounced
  <2>1. lastSent < m /\ m # n
    BY <1>1, Numbers
  <2> QED BY <1>1, <2>1 DEF Unannounced
<1>5. n \in 0 .. MaxMessages
  BY <1>1, Numbers
<1>6. CASE open /\ msgsDone /\ n # view.mark
  <2>1. /\ fetches' = Append(fetches, Ask(Since(view.mark), Present))
        /\ msgsDone' = FALSE /\ gathering' = TRUE /\ gather' = {}
    <3>1. lastSent # n
      BY <1>1, <1>5, Numbers
    <3> QED BY <1>6, <3>1 DEF LastSentPush
  <2>2. Own(fetches) = {} /\ until' = Present
    BY <1>1, <1>6 DEF Owner, Flags
  <2>3. /\ fetches' \in Seq(Fetch) /\ FetchesOK'
        /\ \E k : Own(fetches') = {k}
        /\ Stray(fetches') = Stray(fetches)
        /\ \A m \in Msg : Held(m)'
    <3>1. Asks(fetches, Since(view.mark), until')
      BY <2>1, <2>2 DEF Asks
    <3>2. fetches \in Seq(Fetch) /\ \A k \in DOMAIN fetches : FetchOK(fetches[k])
      BY DEF MessagesTypeOK, FetchesOK
    <3> QED BY <1>1, <1>2, <2>2, <3>1, <3>2, Asked
  <2>4. MessagesTypeOK'
    BY <1>1, <1>5, <2>1, <2>3 DEF MessagesTypeOK
  <2>5. Flags' /\ Owner'
    BY <1>1, <1>6, <2>1, <2>2, <2>3 DEF Flags, Owner
  <2>6. Coverage'
    BY <2>3 DEF Coverage
  <2>7. Behind'
    BY <2>1, <2>3 DEF Behind
  <2> QED BY <1>2, <1>3, <1>4, <2>3, <2>4, <2>5, <2>6, <2>7
<1>7. CASE ~(open /\ msgsDone /\ n # view.mark)
  <2>1. UNCHANGED <<fetches, msgsDone, gathering, gather>>
    BY <1>7 DEF LastSentPush
  <2>2. MessagesTypeOK'
    BY <1>1, <1>5, <2>1 DEF MessagesTypeOK
  <2>3. Flags' /\ Owner' /\ FetchesOK'
    BY <1>1, <2>1 DEF Flags, Owner, FetchesOK, FetchOK
  <2>4. \A m \in Msg : Held(m)' <=> Held(m)
    BY <1>1, <2>1 DEF Held, Shown, Coming, Brings
  <2>5. Behind'
    BY <1>1, <2>1, <2>4 DEF Behind
  <2>6. Coverage'
    <3> SUFFICES ASSUME open, ~failed, NEW m \in Msg, m <= sent, Pending(m)
                 PROVE Held(m) \/ Pending(m)'
      BY <1>1, <2>4 DEF Coverage
    <3>1. CASE Pending(m)'
      BY <3>1
    <3>2. CASE ~Pending(m)'
      <4>1. msgsDone /\ m = n
        BY <1>1, <2>1, <3>2 DEF Pending
      <4>2. m = view.mark /\ m # 0
        BY <1>7, <4>1, Numbers
      <4>3. m \in Shown
        BY <4>2 DEF Seen, Good, Shown
      <4> QED BY <4>3 DEF Held
    <3> QED BY <3>1, <3>2
  <2> QED BY <1>2, <1>3, <1>4, <2>2, <2>3, <2>5, <2>6
<1> QED BY <1>6, <1>7

\* A window that has just been opened remembers the mark.
LEMMA FreshGood ==
  ASSUME NEW v, Good(v)
  PROVE  /\ Good(Fresh(v)) /\ Fresh(v).mark = v.mark
         /\ Fresh(v).delivered = v.delivered /\ Fresh(v).missed = v.missed
<1> DEFINE seen == IF v.mark = 0 THEN <<>> ELSE <<v.mark>>
           w == Fresh(v)
<1>1. /\ v \in View /\ v.mark \in 0 .. MaxMessages /\ v.mark \in v.delivered \cup {0}
      /\ v.delivered \in SUBSET Msg /\ \A m \in 1 .. v.mark : m \in v.delivered \cup v.missed
  BY DEF Good, View
<1>2. MaxMessages \in Nat /\ SeenMax \in Nat \ {0}
  BY MessagesBounds
<1>3. seen \in Seq(Msg) /\ Len(seen) <= SeenMax /\ ToSet(seen) \subseteq v.delivered
  <2>1. CASE v.mark = 0
    <3>1. seen = <<>>
      BY <2>1
    <3>2. seen \in Seq(Msg) /\ Len(seen) = 0 /\ ToSet(seen) = {}
      BY <3>1 DEF ToSet
    <3> QED BY <1>2, <3>2
  <2>2. CASE v.mark # 0
    <3>1. seen = <<v.mark>> /\ v.mark \in Msg /\ v.mark \in v.delivered
      BY <1>1, <1>2, <2>2 DEF Msg
    <3>2. seen \in Seq(Msg) /\ Len(seen) = 1 /\ ToSet(seen) = {v.mark}
      BY <3>1 DEF ToSet
    <3> QED BY <1>2, <3>1, <3>2
  <2> QED BY <2>1, <2>2
<1> HIDE DEF seen
<1>4. w = [v EXCEPT !.seen = seen, !.last = 0, !.order = "kept"]
  BY DEF Fresh, seen
<1>5. 0 \in 0 .. MaxMessages
  BY <1>2
<1> HIDE DEF w
<1>6. /\ w \in View /\ w.seen = seen /\ w.mark = v.mark /\ w.delivered = v.delivered
      /\ w.missed = v.missed /\ w.last = 0 /\ w.order = "kept"
  BY <1>1, <1>3, <1>4, <1>5 DEF View
<1>7. OrderSound(w)
  BY <1>6 DEF OrderSound
<1> QED BY <1>1, <1>3, <1>6, <1>7 DEF Good, w

\* A conversation that is up to date has shown every message, or is yet to be told of it.
LEMMA UpToDateShown ==
  ASSUME MessagesInv, UpToDate, NEW m \in Msg, m <= sent
  PROVE  m \in Shown \/ Among(pushes, "last", m)
<1>1. /\ ~room /\ (lastSent = 0 \/ lastSent = view.mark) /\ view.mark \in 0 .. MaxMessages
      /\ \A j \in 1 .. view.mark : j \in Shown
  BY DEF UpToDate, MessagesInv, Seen, Good, View, Shown
<1>2. m \in Nat /\ 0 < m /\ lastSent \in Nat
  BY Numbers DEF MessagesInv
<1>3. CASE lastSent < m
  BY <1>1, <1>3 DEF MessagesInv, Unannounced
<1>4. CASE ~(lastSent < m)
  <2>1. m \in 1 .. view.mark
    BY <1>1, <1>2, <1>4
  <2> QED BY <1>1, <2>1
<1> QED BY <1>3, <1>4

\* The fetches q are those of closed windows, and all there are.
Strays(q) ==
  /\ q \in Seq(Fetch) /\ (\A k \in DOMAIN q : FetchOK(q[k])) /\ Own(q) = {}
  /\ zombies' = Cardinality(Stray(q)) /\ zombies' \in Nat

\* The messages s, shown by a window that has shown v, leave none out.
Opening(v, s) ==
  /\ Good(v) /\ v.delivered = view.delivered /\ view.missed \subseteq v.missed
  /\ \A m \in v.missed : m <= sent
  /\ s \in SUBSET Msg /\ (\A m \in s : m <= sent) /\ (UpToDate => Gapless(v, s))

\* What is left of the pushes still tells of what was not delivered.
PushesLeft ==
  /\ pushes' \in Seq(Push) /\ Ordered(pushes')
  /\ \A kind, m : Among(pushes', kind, m) => Among(pushes, kind, m)
  /\ \A m : Among(pushes, "last", m) => Among(pushes', "last", m)

\* The window opens, by itself or for the messages that arrive.
LEMMA OpenKeeps ==
  ASSUME MessagesInv, NEW v, NEW s, NEW changed, NEW q, Strays(q), Opening(v, s), PushesLeft,
         Open(v, s, changed, q), UNCHANGED service
  PROVE  MessagesInv'
<1> USE DEF MessagesInv
<1> DEFINE done == UpToDate
<1>0. done \in BOOLEAN /\ (done => ~room)
  BY DEF UpToDate
<1>1. /\ UNCHANGED <<room, service>>
      /\ ~open /\ open' = TRUE /\ hooked' = FALSE /\ membersDone' = ~room /\ msgsDone' = done
      /\ failed' = FALSE /\ gathering' = ~done
      /\ until' \in IF done THEN {Present} ELSE (Since(view.mark) .. sent) \cup {Present}
      /\ gather' = IF gathering' THEN Kept(s, changed, until') ELSE {}
      /\ view' = IF gathering' THEN v ELSE InTurn(v, s, TRUE)
  BY <1>0 DEF Open
<1>2. done => fetches' = q
  BY DEF Open
<1>3. ~done => Asks(q, Since(view.mark), until')
  BY DEF Open, Asks
<1>4. /\ q \in Seq(Fetch) /\ (\A k \in DOMAIN q : FetchOK(q[k])) /\ Own(q) = {}
      /\ zombies' = Cardinality(Stray(q)) /\ zombies' \in Nat
  BY DEF Strays
<1>5. /\ Good(v) /\ v.delivered = view.delivered /\ view.missed \subseteq v.missed
      /\ \A m \in v.missed : m <= sent
      /\ s \in SUBSET Msg /\ (\A m \in s : m <= sent) /\ (done => Gapless(v, s))
  BY DEF Opening
<1>6. /\ MaxMessages \in Nat /\ Msg = 1 .. MaxMessages /\ Present = MaxMessages + 1
      /\ sent \in Nat /\ sent <= MaxMessages /\ lastSent \in Nat
  BY Numbers
<1>7. view.mark \in 0 .. MaxMessages
  BY DEF Seen, Good, View
<1>8. until' \in 0 .. Present /\ (until' <= sent \/ until' = Present)
  <2>1. Since(view.mark) \in Nat
    BY <1>6, <1>7 DEF Since
  <2> HIDE DEF done
  <2> QED BY <1>1, <1>6, <2>1
<1>9. /\ gather' \subseteq Msg /\ (gather' # {} => gathering')
      /\ \A m \in gather' : m <= until' /\ m <= sent
  <2> HIDE DEF done
  <2>1. gather' = {} \/ gather' = Kept(s, changed, until')
    BY <1>1
  <2>2. Kept(s, changed, until') \subseteq {m \in s : m <= until'}
    BY DEF Kept
  <2> QED BY <1>1, <1>5, <2>1, <2>2
<1>10. done => \A m \in Msg : m <= sent => m \in Shown \/ Among(pushes, "last", m)
  BY UpToDateShown
<1> HIDE DEF done
<1>11. After(v, IF done THEN s ELSE {}, view')
  <2>1. CASE ~done
    <3>1. view' = v
      BY <1>1, <2>1
    <3> QED BY <1>5, <2>1, <3>1 DEF After
  <2>2. CASE done
    <3>1. view' = InTurn(v, s, TRUE)
      BY <1>1, <2>2
    <3>2. After(v, s, InTurn(v, s, TRUE))
      BY <1>5, <2>2, InTurnGood
    <3> QED BY <2>2, <3>1, <3>2
  <2> QED BY <2>1, <2>2
<1>12. Good(view') /\ Shown \subseteq Shown' /\ \A m \in Shown' : m \in Shown \cup v.missed \cup s
  BY <1>5, <1>11 DEF After, Shown
<1>13. Seen'
  BY <1>1, <1>5, <1>12 DEF Seen, service
<1>14. Queue'
  BY <1>1 DEF Queue, service, PushesLeft
<1>15. Unannounced'
  BY <1>1, <1>12 DEF Unannounced, service, PushesLeft
<1>16. MessagesTypeOK' /\ Flags' /\ FetchesOK' /\ Owner' /\ Coverage' /\ Behind'
  <2>1. ASSUME fetches' \in Seq(Fetch) PROVE MessagesTypeOK'
    <3>1. pushes' \in Seq(Push)
      BY DEF PushesLeft
    <3>2. /\ membersDone' \in BOOLEAN /\ msgsDone' \in BOOLEAN /\ failed' \in BOOLEAN
          /\ gathering' \in BOOLEAN /\ hooked' \in BOOLEAN /\ open' \in BOOLEAN
      BY <1>0, <1>1 DEF MessagesTypeOK
    <3> QED BY <1>1, <1>4, <1>8, <1>9, <1>12, <2>1, <3>1, <3>2 DEF MessagesTypeOK, Good, service
  <2>2. Flags'
    <3>1. done => until' = Present /\ ~room
      BY <1>0, <1>1
    <3> QED BY <1>0, <1>1, <1>8, <1>9, <3>1 DEF Flags, service
  <2>3. CASE done
    <3>1. FetchesOK' /\ fetches' \in Seq(Fetch)
      <4>1. \A k \in DOMAIN q : q[k].mine # TRUE
        BY <1>4 DEF Own
      <4> QED BY <1>1, <1>2, <1>4, <2>3, <4>1 DEF FetchesOK, FetchOK, service
    <3>2. Owner'
      BY <1>1, <1>2, <1>4, <2>3 DEF Owner
    <3>3. Coverage'
      <4>1. ~room' /\ msgsDone'
        BY <1>0, <1>1, <2>3
      <4> QED BY <1>1, <1>10, <1>12, <2>3, <4>1 DEF Coverage, Held, Pending, service, PushesLeft
    <3>4. Behind'
      BY <1>1, <2>3 DEF Behind
    <3> QED BY <2>1, <2>2, <3>1, <3>2, <3>3, <3>4
  <2>4. CASE ~done
    <3>1. until' \in (Since(view.mark) .. sent) \cup {Present} /\ sent' = sent
      BY <1>1, <2>4 DEF service
    <3>2. /\ fetches' \in Seq(Fetch) /\ FetchesOK'
          /\ \E k : Own(fetches') = {k}
          /\ Stray(fetches') = Stray(q)
          /\ \A m \in Msg : Held(m)'
      BY <1>3, <1>4, <1>12, <2>4, <3>1, Asked
    <3>3. Owner'
      BY <1>0, <1>1, <1>4, <2>4, <3>2 DEF Owner
    <3>4. Coverage' /\ Behind'
      BY <1>9, <3>2 DEF Coverage, Behind
    <3> QED BY <2>1, <2>2, <3>2, <3>3, <3>4
  <2> QED BY <2>3, <2>4
<1> QED BY <1>13, <1>14, <1>15, <1>16

\* The window that is open, which had shown v, has the messages s, those of changed
\* as they were changed since.
Reaches(v, s, changed) ==
  /\ open /\ gather' = Gathered(s, changed) /\ view' = Played(v, s)
  /\ UNCHANGED <<room, open, hooked, membersDone, msgsDone, failed, gathering, until, service>>

\* A message, new or edited, arrives where there is a window.
LEMMA HeardKeeps ==
  ASSUME MessagesInv, NEW kind \in {"message", "edit"}, NEW n, Arrives(kind, n),
         NEW v, v = view \/ v = Excused(view), NEW changed, kind = "message" => changed = {},
         Reaches(v, {n}, changed), UNCHANGED <<fetches, zombies>>
  PROVE  MessagesInv'
<1> USE DEF MessagesInv
<1>0. open /\ gather' = Gathered({n}, changed) /\ view' = Played(v, {n})
  BY DEF Reaches
<1>1. /\ UNCHANGED <<room, open, hooked, membersDone, msgsDone, failed, gathering, until, fetches,
                     zombies, sent, lastSent>>
      /\ n \in Msg /\ n <= sent /\ pushes' \in Seq(Push) /\ Ordered(pushes')
      /\ \A k, m : Among(pushes, k, m) => (kind = k /\ m = n) \/ Among(pushes', k, m)
      /\ \A k, m : Among(pushes', k, m) => Among(pushes, k, m)
      /\ \A k, m : Among(pushes, k, m) => n <= m
      /\ kind # "last"
  BY DEF Arrives, Reaches, service
<1>2. /\ MaxMessages \in Nat /\ Msg = 1 .. MaxMessages /\ Present = MaxMessages + 1
      /\ sent \in Nat /\ sent <= MaxMessages
      /\ {n} \in SUBSET Msg
  BY <1>1, Numbers
<1>3. /\ Good(v) /\ v.delivered = view.delivered /\ v.missed = view.missed
      /\ v.order = "kept" => ~failed
  BY ExcusedGood DEF Seen
<1>4. ASSUME open, ~failed, NEW j \in Msg, j < n PROVE Held(j)
  <2>1. j <= sent /\ ~(n <= j)
    BY <1>1, <1>2, <1>4
  <2>2. ~Pending(j)
    BY <1>1, <2>1 DEF Pending
  <2> QED BY <1>4, <2>1, <2>2 DEF Coverage
<1>5. After(v, Aloud({n}), view')
  <2>1. open /\ ~gathering /\ (~failed \/ v.order = "kept") => Gapless(v, {n})
    <3> SUFFICES ASSUME open, ~gathering, ~failed, NEW j \in 1 .. n PROVE j \in Shown \cup {n}
      BY <1>2, <1>3 DEF Gapless, Shown
    <3>1. j \in Msg /\ (j = n \/ j < n)
      BY <1>1, <1>2
    <3>2. msgsDone /\ gather = {}
      BY DEF Flags, MessagesTypeOK
    <3>3. j < n => j \in Shown
      BY <1>4, <3>1, <3>2, Fetched
    <3> QED BY <3>1, <3>3
  <2> QED BY <1>0, <1>2, <1>3, <2>1, PlayedGood
<1>6. Aloud({n}) = IF open /\ ~gathering THEN {n} ELSE {}
  BY DEF Aloud
<1>7. Seen' /\ Shown' = Shown \cup Aloud({n})
  <2>1. v.order = "kept" => ~failed'
    BY <1>1, <1>3
  <2>2. \A m \in v.delivered \cup v.missed \cup Aloud({n}) : m <= sent
    BY <1>1, <1>3, <1>6 DEF Seen, Shown
  <2> QED BY <1>1, <1>3, <1>5, <2>1, <2>2, ShownAfter DEF Shown
<1>8. /\ gather' = gather \/ (gathering /\ n <= until /\ gather' = gather \cup {n})
      /\ kind = "message" => n \in gather' \/ n > until \/ ~gathering
  <2>1. gather' = IF gathering THEN gather \cup Kept({n}, changed, until) ELSE gather
    BY <1>0 DEF Gathered
  <2>2. n <= until \/ n > until
    BY <1>2 DEF MessagesTypeOK
  <2>3. Kept({n}, changed, until) = {} \/ (Kept({n}, changed, until) = {n} /\ n <= until)
    BY DEF Kept
  <2>4. kind = "message" /\ n <= until => n \in Kept({n}, changed, until)
    BY DEF Kept
  <2> QED BY <2>1, <2>2, <2>3, <2>4
<1>9. MessagesTypeOK'
  <2>1. gather' \subseteq Msg /\ (gather' # {} => gathering')
    BY <1>1, <1>8 DEF MessagesTypeOK
  <2> QED BY <1>1, <1>7, <2>1 DEF MessagesTypeOK, Seen, Good
<1>10. Flags' /\ FetchesOK' /\ Owner'
  <2>1. \A m \in gather' : m <= until /\ m <= sent
    BY <1>1, <1>8 DEF Flags
  <2>2. Flags'
    BY <1>1, <2>1 DEF Flags
  <2>3. FetchesOK'
    BY <1>1 DEF FetchesOK, FetchOK
  <2>4. Owner'
    <3>1. UNCHANGED <<open, msgsDone, fetches, zombies>>
      BY <1>1
    <3> QED BY <3>1 DEF Owner, Own, Stray
  <2> QED BY <2>2, <2>3, <2>4
<1>11. Queue' /\ Unannounced'
  BY <1>1, <1>7 DEF Queue, Unannounced
<1>12. \A m \in Msg : Held(m) => Held(m)'
  BY <1>1, <1>7, <1>8 DEF Held, Coming, Brings
<1>13. Coverage'
  <2> SUFFICES ASSUME open, ~failed, NEW m \in Msg, m <= sent, Pending(m), ~Pending(m)'
               PROVE Held(m)'
    BY <1>1, <1>12 DEF Coverage
  <2>1. kind = "message" /\ m = n
    BY <1>1 DEF Pending
  <2> QED BY <1>1, <1>6, <1>7, <1>8, <2>1 DEF Held
<1>14. Behind'
  <2> SUFFICES ASSUME open, ~failed, gathering PROVE Behind'
    BY <1>1 DEF Behind
  <2>1. \A k \in DOMAIN fetches' : \A m \in Msg : m < fetches'[k].from => Held(m)'
    BY <1>1, <1>12 DEF Behind
  <2>2. ASSUME NEW g \in gather', NEW m \in Msg, m <= g PROVE Held(m)'
    <3>1. CASE g \in gather
      BY <1>12, <2>2, <3>1 DEF Behind
    <3>2. CASE g = n /\ g \notin gather
      <4>1. m < n \/ m = n
        BY <1>2, <2>2, <3>2
      <4> QED BY <1>4, <1>12, <2>2, <3>2, <4>1 DEF Held
    <3> QED BY <1>8, <2>2, <3>1, <3>2
  <2> QED BY <2>1, <2>2 DEF Behind
<1> QED BY <1>7, <1>9, <1>10, <1>11, <1>13, <1>14

\* A message, new or edited, arrives, perhaps where there is no window.
LEMMA SignalledKeeps ==
  ASSUME MessagesInv, NEW kind \in {"message", "edit"}, NEW n, Arrives(kind, n),
         Signalled(n, kind = "edit")
  PROVE  MessagesInv'
<1> DEFINE edited == kind = "edit"
           was(v) == IF edited THEN Excused(v) ELSE v
<1>1. PICK changed \in SUBSET (IF edited THEN {n} ELSE {}) :
        /\ \/ /\ open
              /\ gather' = Gathered({n}, changed)
              /\ view' = Played(was(view), {n})
              /\ UNCHANGED <<room, open, hooked, membersDone, msgsDone, failed, gathering,
                             until, fetches>>
           \/ Open(was(Fresh(view)), {n}, changed, fetches)
           \/ /\ ~open /\ ~hooked
              /\ UNCHANGED <<room, open, hooked, window, view, fetches>>
        /\ UNCHANGED <<zombies, service>>
  BY DEF Signalled
<1>2. kind = "message" => changed = {}
  OBVIOUS
<1>3. was(view) = view \/ was(view) = Excused(view)
  OBVIOUS
<1>4. CASE open
  <2>1. PICK v : v = was(view)
    OBVIOUS
  <2>2. ~Open(was(Fresh(view)), {n}, changed, fetches)
    BY <1>4 DEF Open
  <2> HIDE DEF was
  <2>3. Reaches(v, {n}, changed) /\ UNCHANGED <<fetches, zombies>>
    BY <1>1, <1>4, <2>1, <2>2 DEF Reaches
  <2>4. v = view \/ v = Excused(view)
    BY <1>3, <2>1
  <2> QED BY <1>2, <1>4, <2>3, <2>4, HeardKeeps
<1>5. CASE ~open /\ Open(was(Fresh(view)), {n}, changed, fetches)
  <2> DEFINE v == was(Fresh(view))
  <2>1. /\ Good(Fresh(view)) /\ Fresh(view).delivered = view.delivered
        /\ Fresh(view).missed = view.missed
    BY FreshGood DEF MessagesInv, Seen
  <2>2. Good(v) /\ v.delivered = view.delivered /\ v.missed = view.missed
    BY <2>1, ExcusedGood
  <2> HIDE DEF v, was
  <2>3. /\ n \in Msg /\ n <= sent
        /\ \A k, m : Among(pushes, k, m) => n <= m
        /\ \A m : Among(pushes, "last", m) => Among(pushes', "last", m)
    BY DEF Arrives
  <2>4. UpToDate => Gapless(v, {n})
    <3> SUFFICES ASSUME UpToDate, NEW j \in 1 .. n PROVE j \in Shown \cup {n}
      BY <2>2 DEF Gapless, Shown
    <3>1. j \in Msg /\ j <= sent /\ (j = n \/ ~(n <= j))
      BY <2>3, Numbers DEF MessagesInv
    <3>2. j = n \/ ~Among(pushes, "last", j)
      BY <2>3, <3>1
    <3> QED BY <3>1, <3>2, UpToDateShown
  <2>5. \A m \in v.missed : m <= sent
    BY <2>2 DEF MessagesInv, Seen, Shown
  <2>6. Opening(v, {n})
    BY <2>2, <2>3, <2>4, <2>5 DEF Opening
  <2>7. Strays(fetches)
    BY <1>1, <1>5 DEF Strays, MessagesInv, MessagesTypeOK, FetchesOK, Owner
  <2>8. PushesLeft
    BY <2>3 DEF PushesLeft, Arrives
  <2>9. Open(v, {n}, changed, fetches) /\ UNCHANGED service
    BY <1>1, <1>5 DEF v
  <2> QED BY <2>6, <2>7, <2>8, <2>9, OpenKeeps
<1>6. CASE ~open /\ ~Open(was(Fresh(view)), {n}, changed, fetches)
  <2>1. UNCHANGED <<room, open, hooked, window, view, fetches, zombies, service>>
    BY <1>1, <1>6
  <2>2. /\ pushes' \in Seq(Push) /\ Ordered(pushes')
        /\ \A k, m : Among(pushes', k, m) => Among(pushes, k, m)
        /\ \A m : Among(pushes, "last", m) => Among(pushes', "last", m)
    BY DEF Arrives
  <2> USE DEF MessagesInv
  <2>3. MessagesTypeOK' /\ Flags' /\ FetchesOK' /\ Owner' /\ Seen'
    BY <2>1, <2>2
    DEF MessagesTypeOK, Flags, FetchesOK, FetchOK, Owner, Seen, Shown, window, service
  <2>4. Queue' /\ Unannounced' /\ Coverage' /\ Behind'
    BY <1>6, <2>1, <2>2 DEF Queue, Unannounced, Coverage, Behind, service, Shown
  <2> QED BY <2>3, <2>4
<1> QED BY <1>4, <1>5, <1>6

\* A push is delivered.
LEMMA DeliverPushKeeps ==
  ASSUME MessagesInv, DeliverPush
  PROVE  MessagesInv'
<1> DEFINE p == Head(pushes)
<1>1. /\ pushes # <<>> /\ pushes' = Tail(pushes)
      /\ \/ p.kind = "message" /\ MessagePush(p.msg)
         \/ p.kind = "edit" /\ EditPush(p.msg)
         \/ p.kind = "last" /\ LastSentPush(p.msg)
  BY DEF DeliverPush
<1>2. Arrives(p.kind, p.msg)
  BY <1>1, Arrival
<1> HIDE DEF p
<1>3. PICK kind, n : kind = p.kind /\ n = p.msg
  OBVIOUS
<1>4. Arrives(kind, n)
  BY <1>2, <1>3
<1>5. CASE kind \in {"message", "edit"} /\ Signalled(n, kind = "edit")
  BY <1>4, <1>5, SignalledKeeps
<1>6. CASE kind = "last" /\ LastSentPush(n)
  BY <1>4, <1>6, LastSentPushKeeps
<1>7. kind = "message" /\ MessagePush(n) => Signalled(n, kind = "edit")
  <2>1. kind = "message" => (kind = "edit") = FALSE
    OBVIOUS
  <2> QED BY <2>1 DEF MessagePush
<1>8. kind = "edit" /\ EditPush(n) => Signalled(n, kind = "edit")
  <2>1. kind = "edit" => (kind = "edit") = TRUE
    OBVIOUS
  <2> QED BY <2>1 DEF EditPush
<1> QED BY <1>1, <1>3, <1>5, <1>6, <1>7, <1>8

\* While a batch that ends before the present day is fetched, the window has each message,
\* or its fetch brings it.
LEMMA OldBatchHeld ==
  ASSUME MessagesInv, open, ~failed, until # Present, NEW m \in Msg
  PROVE  Held(m)
<1> USE DEF MessagesInv
<1>1. ~msgsDone /\ gathering
  BY DEF Flags
<1>2. PICK k : Own(fetches) = {k}
  BY <1>1 DEF Owner
<1>3. k \in DOMAIN fetches /\ fetches[k].mine = TRUE
  BY <1>2 DEF Own
<1>4. PICK f : f = fetches[k]
  OBVIOUS
<1>5. f \in Fetch /\ FetchOK(f) /\ f.before = until /\ f.mine = TRUE
  <2>1. f \in Fetch
    BY <1>3, <1>4 DEF MessagesTypeOK
  <2>2. FetchOK(f)
    BY <1>3, <1>4 DEF FetchesOK
  <2> QED BY <1>3, <1>4, <2>1, <2>2 DEF FetchOK
<1>6. /\ f.from \in 1 .. Present /\ m \in Nat /\ until \in Nat /\ Present \in Nat
      /\ f.answer.kind = "page" => f.answer.to \in 0 .. MaxMessages
  BY <1>5, FetchFields, Numbers
<1>7. CASE m > until
  BY <1>7 DEF Held
<1>8. CASE m < f.from
  BY <1>1, <1>3, <1>4, <1>8 DEF Behind
<1>9. CASE ~(m > until) /\ ~(m < f.from)
  <2>1. m >= f.from
    BY <1>6, <1>9
  <2>2. ASSUME f.answer.kind = "page", f.answer.more # TRUE PROVE m <= f.answer.to
    <3>1. until <= f.answer.to
      BY <1>5, <2>2 DEF FetchOK
    <3> QED BY <1>6, <1>9, <2>2, <3>1
  <2>3. Brings(f, m)
    BY <1>5, <2>1, <2>2 DEF Brings
  <2> QED BY <1>3, <1>4, <2>3 DEF Held, Coming
<1> QED BY <1>7, <1>8, <1>9

\* What the fetch f brings, up to message b, is gathered or shown.
LEMMA BroughtGood ==
  ASSUME MessagesInv, open, NEW k \in DOMAIN fetches, NEW f, f = fetches[k], NEW b,
         b \in 0 .. MaxMessages, b <= sent, f.from <= b + 1,
         NEW changed \in SUBSET (f.from .. b),
         Reaches(Passed(view, f, b, changed), f.from .. b, changed)
  PROVE  /\ Seen' /\ Shown \subseteq Shown' /\ gather \subseteq gather' /\ gather' \subseteq Msg
         /\ (gather' # {} => gathering)
         /\ \A m \in gather' : m <= until /\ m <= sent
         /\ f.mine = TRUE =>
              \A m \in f.from .. b : m \in gather' \cup Shown' \/ m > until
         /\ ~failed /\ gathering =>
              /\ \A m \in f.from .. b : m \in gather' \/ Held(m)
              /\ \A g \in gather' : \A m \in Msg : m <= g => Held(m) \/ m \in gather'
<1> USE DEF MessagesInv
<1>1. /\ MaxMessages \in Nat /\ Msg = 1 .. MaxMessages /\ Present = MaxMessages + 1
      /\ sent \in Nat /\ sent <= MaxMessages /\ until \in Nat
      /\ \A m \in Msg : m \in Nat /\ 0 < m
  BY Numbers
<1>2. f \in Fetch /\ f.from \in 1 .. Present /\ f.mine \in BOOLEAN
  <2>1. f \in Fetch
    BY DEF MessagesTypeOK
  <2> QED BY <2>1, FetchFields
<1> DEFINE s == f.from .. b
           w == Passed(view, f, b, changed)
<1>3. s \in SUBSET Msg /\ (\A m \in s : m <= sent) /\ changed \in SUBSET s
  BY <1>1, <1>2
<1>4. /\ Good(w) /\ w.delivered = view.delivered /\ view.missed \subseteq w.missed
      /\ w.missed \subseteq view.missed \cup (1 .. f.from - 1) \cup s
      /\ f.mine = TRUE => w.order = view.order
      /\ f.mine = TRUE /\ until # Present => changed \subseteq w.delivered \cup w.missed \cup gather
      /\ f.mine # TRUE => w.order # "kept"
      /\ f.mine # TRUE /\ AtOnce /\ ~failed /\ f.from <= b
           => \A m \in 1 .. f.from - 1 : m \in w.delivered \cup w.missed
  <2>1. Good(view)
    BY DEF Seen
  <2>2. w = Passed(view, f, b, changed)
    OBVIOUS
  <2> HIDE DEF w
  <2>3. PassedOver(view, w, f, b, changed)
    BY <1>2, <2>1, <2>2, PassedGood
  <2> QED BY <2>3 DEF PassedOver
<1>5. f.mine = TRUE => gathering
  BY Fetches
<1>6. /\ open /\ view' = Played(w, s) /\ gather' = Gathered(s, changed)
      /\ UNCHANGED <<sent, failed>>
  BY DEF Reaches, service
<1> HIDE DEF w
<1>7. After(w, Aloud(s), view')
  <2>1. open /\ ~gathering /\ (~failed \/ w.order = "kept") => Gapless(w, s)
    <3> SUFFICES ASSUME ~gathering, ~failed, NEW m \in s, NEW j \in 1 .. m
                 PROVE j \in w.delivered \cup w.missed \cup s
      BY <1>2, <1>4, <1>5 DEF Gapless, Seen
    <3>1. f.from <= b /\ (j \in 1 .. f.from - 1 \/ j \in s)
      BY <1>1, <1>2
    <3>2. f.mine # TRUE /\ AtOnce
      BY <1>5 DEF AtOnce
    <3> QED BY <1>4, <3>1, <3>2
  <2> HIDE DEF s
  <2> QED BY <1>3, <1>4, <1>6, <2>1, PlayedGood
<1>8. Seen' /\ Shown' = w.delivered \cup w.missed \cup Aloud(s)
  <2>1. (w.order = "kept" => ~failed') /\ sent' = sent
    BY <1>2, <1>4, <1>6 DEF Seen
  <2>2. ASSUME NEW m \in w.delivered \cup w.missed \cup Aloud(s) PROVE m <= sent
    <3>1. CASE m \in Shown
      BY <3>1 DEF Seen
    <3>2. CASE m \in 1 .. f.from - 1
      BY <1>1, <1>2, <3>2 DEF FetchesOK, FetchOK
    <3>3. CASE m \in s
      BY <1>3, <3>3
    <3>4. Aloud(s) \subseteq s
      BY DEF Aloud
    <3> QED BY <1>4, <2>2, <3>1, <3>2, <3>3, <3>4 DEF Shown
  <2> QED BY <1>7, <2>1, <2>2, ShownAfter
<1>9. Shown \subseteq Shown'
  BY <1>4, <1>8 DEF Shown
<1>10. gather' = IF gathering THEN gather \cup Kept(s, changed, until) ELSE gather
  BY <1>6 DEF Gathered
<1>11. /\ Kept(s, changed, until) \subseteq {m \in s : m <= until}
       /\ \A m \in s : \/ m > until \/ m \in Kept(s, changed, until)
                       \/ until # Present /\ m \in changed
  <2> HIDE DEF s
  <2> QED BY <1>1, <1>3 DEF Kept
<1>12. /\ gather \subseteq gather' /\ gather' \subseteq Msg /\ (gather' # {} => gathering)
  BY <1>3, <1>10, <1>11 DEF MessagesTypeOK
<1>13. \A m \in gather' : m <= until /\ m <= sent
  BY <1>3, <1>10, <1>11 DEF Flags
<1>14. ASSUME f.mine = TRUE, NEW m \in s PROVE m \in gather' \cup Shown' \/ m > until
  <2> HIDE DEF s
  <2> QED BY <1>4, <1>5, <1>8, <1>10, <1>11, <1>14
<1>15. ASSUME ~failed, gathering, NEW m \in s PROVE m \in gather' \/ Held(m)
  <2>1. CASE until # Present
    BY <1>3, <1>15, <2>1, OldBatchHeld
  <2>2. CASE until = Present
    <3>1. m \in Kept(s, changed, until) \/ m > until
      BY <1>11, <2>2
    <3> QED BY <1>10, <1>15, <3>1 DEF Held
  <2> QED BY <2>1, <2>2
<1>16. ASSUME ~failed, gathering, NEW g \in gather', NEW m \in Msg, m <= g
       PROVE  Held(m) \/ m \in gather'
  <2>1. CASE g \in gather
    BY <1>16, <2>1 DEF Behind
  <2>2. CASE g \in s /\ m < f.from
    BY <1>16, <2>2 DEF Behind
  <2>3. CASE g \in s /\ ~(m < f.from)
    <3>1. m \in s
      BY <1>1, <1>2, <1>16, <2>3
    <3> QED BY <1>15, <1>16, <3>1
  <2> QED BY <1>10, <1>11, <1>16, <2>1, <2>2, <2>3
<1> QED BY <1>8, <1>9, <1>12, <1>13, <1>14, <1>15, <1>16

\* A fetch that ends brought the messages up to its last one.
LEMMA LastBrought ==
  ASSUME MessagesTypeOK, NEW f \in Fetch, FetchOK(f), Ends(f), NEW b, b = LastOf(f)
  PROVE  /\ b \in 0 .. MaxMessages /\ b <= sent /\ f.from <= b + 1
         /\ f.answer # Refusal => \A m \in Msg : Brings(f, m) => m \in f.from .. b
         /\ f.answer # Refusal /\ f.before # Present => f.before <= b
<1>1. /\ MaxMessages \in Nat /\ Msg = 1 .. MaxMessages /\ Present = MaxMessages + 1
      /\ sent \in Nat /\ sent <= MaxMessages
  BY Numbers
<1>2. /\ f.from \in 1 .. Present /\ f.before \in 0 .. Present
      /\ f.answer = Refusal <=> f.answer.kind = "failed"
      /\ f.answer.kind = "page" => f.answer.to \in 0 .. MaxMessages /\ f.answer.more \in BOOLEAN
  BY FetchFields
<1>3. CASE f.answer = Refusal
  <2>1. b = f.from - 1 /\ f.from <= sent + 1
    BY <1>3 DEF LastOf, FetchOK
  <2> QED BY <1>1, <1>2, <1>3, <2>1
<1>4. CASE f.answer # Refusal
  <2>1. f.answer.kind = "page" /\ f.answer.more # TRUE /\ b = f.answer.to
    BY <1>2, <1>4 DEF Ends, LastOf
  <2>2. b \in 0 .. MaxMessages /\ b <= sent /\ f.from <= b + 1
    BY <1>2, <2>1 DEF FetchOK
  <2>3. f.before # Present => f.before <= b
    BY <2>1 DEF FetchOK
  <2>4. ASSUME NEW m \in Msg, Brings(f, m) PROVE m \in f.from .. b
    <3>1. m >= f.from /\ m <= b
      BY <2>1, <2>4 DEF Brings
    <3> QED BY <1>1, <1>2, <2>2, <3>1
  <2> QED BY <2>2, <2>3, <2>4
<1> QED BY <1>3, <1>4

\* The fetches q are those under way, with fetch f in place k ended or gone on after b.
GoesOn(k, f, b, q) ==
  /\ q \in Seq(Fetch) /\ (\A j \in DOMAIN q : FetchOK(q[j]))
  /\ \A i \in DOMAIN fetches \ {k} : \E j \in DOMAIN q : q[j] = fetches[i]
  /\ \A j \in DOMAIN q : q[j].from = b + 1 \/ \E i \in DOMAIN fetches : q[j] = fetches[i]
  /\ f.mine = TRUE => \E j \in DOMAIN q : q[j].mine = TRUE /\ q[j].from = b + 1
                                           /\ q[j].answer.kind = "none"
  /\ Own(fetches) = {} => Own(q) = {}
  /\ \A i : Own(fetches) = {i} => \E j : Own(q) = {j}
  /\ zombies' = Cardinality(Stray(q)) /\ zombies' \in Nat

\* A page reaches the window that is open.
LEMMA BroughtOpenKeeps ==
  ASSUME MessagesInv, open, NEW k \in DOMAIN fetches, NEW f, f = fetches[k], NEW b,
         b \in 0 .. MaxMessages, b <= sent, f.from <= b + 1, GoesOn(k, f, b, fetches'),
         NEW changed \in SUBSET (f.from .. b),
         Reaches(Passed(view, f, b, changed), f.from .. b, changed), UNCHANGED pushes
  PROVE  MessagesInv'
<1> USE DEF MessagesInv
<1>1. /\ UNCHANGED <<room, open, hooked, membersDone, msgsDone, failed, gathering, until,
                     sent, lastSent, pushes>>
      /\ Seen' /\ Shown \subseteq Shown' /\ gather \subseteq gather' /\ gather' \subseteq Msg
      /\ (gather' # {} => gathering)
      /\ \A m \in gather' : m <= until /\ m <= sent
      /\ f.mine = TRUE => \A m \in f.from .. b : m \in gather' \cup Shown' \/ m > until
      /\ ~failed /\ gathering =>
           /\ \A m \in f.from .. b : m \in gather' \/ Held(m)
           /\ \A h \in gather' : \A m \in Msg : m <= h => Held(m) \/ m \in gather'
  <2>1. UNCHANGED <<room, open, hooked, membersDone, msgsDone, failed, gathering, until,
                    sent, lastSent, pushes>>
    BY DEF Reaches, service
  <2> QED BY <2>1, BroughtGood
<1>2. /\ fetches' \in Seq(Fetch) /\ (\A j \in DOMAIN fetches' : FetchOK(fetches'[j]))
      /\ \A i \in DOMAIN fetches \ {k} : \E j \in DOMAIN fetches' : fetches'[j] = fetches[i]
      /\ \A j \in DOMAIN fetches' : \/ fetches'[j].from = b + 1
                                    \/ \E i \in DOMAIN fetches : fetches'[j] = fetches[i]
      /\ f.mine = TRUE => \E j \in DOMAIN fetches' :
           fetches'[j].mine = TRUE /\ fetches'[j].from = b + 1 /\ fetches'[j].answer.kind = "none"
      /\ Own(fetches) = {} => Own(fetches') = {}
      /\ \A i : Own(fetches) = {i} => \E j : Own(fetches') = {j}
      /\ zombies' = Cardinality(Stray(fetches')) /\ zombies' \in Nat
  BY DEF GoesOn
<1>3. MessagesTypeOK'
  BY <1>1, <1>2 DEF MessagesTypeOK, Seen, Good
<1>4. Flags'
  BY <1>1 DEF Flags
<1>5. Owner'
  BY <1>1, <1>2 DEF Owner
<1>6. Queue' /\ Unannounced'
  BY <1>1 DEF Queue, Unannounced
<1>7. FetchesOK'
  BY <1>1, <1>2 DEF FetchesOK, FetchOK
<1>8. ASSUME NEW m \in Msg, Held(m) PROVE Held(m)'
  <2> SUFFICES ASSUME NEW j \in DOMAIN fetches, Brings(fetches[j], m) PROVE Held(m)'
    BY <1>1, <1>8 DEF Held, Coming
  <2>1. CASE j # k
    BY <1>2, <2>1 DEF Held, Coming, Brings
  <2>2. CASE j = k
    <3>1. f.mine = TRUE /\ m >= f.from
      BY <2>2 DEF Brings
    <3>2. m \in Nat /\ f.from \in Nat /\ b \in Nat
      <4>1. f \in Fetch
        BY DEF MessagesTypeOK
      <4>2. f.from \in 1 .. Present
        BY <4>1, FetchFields
      <4> QED BY <4>2, Numbers
    <3>3. CASE m <= b
      <4>1. m \in f.from .. b
        BY <3>1, <3>2, <3>3
      <4> QED BY <1>1, <3>1, <4>1 DEF Held
    <3>4. CASE ~(m <= b)
      <4>1. m >= b + 1
        BY <3>2, <3>4
      <4>2. \E i \in DOMAIN fetches' : Brings(fetches'[i], m)
        BY <1>2, <3>1, <4>1 DEF Brings
      <4> QED BY <4>2 DEF Held, Coming, Brings
    <3> QED BY <3>3, <3>4
  <2> QED BY <2>1, <2>2
<1>9. Coverage'
  BY <1>1, <1>8 DEF Coverage, Pending
<1>10. Behind'
  <2> SUFFICES ASSUME ~failed, gathering PROVE Behind'
    BY <1>1 DEF Behind
  <2>1. ASSUME NEW j \in DOMAIN fetches', NEW m \in Msg, m < fetches'[j].from PROVE Held(m)'
    <3>1. CASE \E i \in DOMAIN fetches : fetches'[j] = fetches[i]
      BY <1>8, <2>1, <3>1 DEF Behind
    <3>2. CASE m < f.from
      BY <1>8, <3>2 DEF Behind
    <3>3. CASE fetches'[j].from = b + 1 /\ ~(m < f.from)
      <4>1. m \in f.from .. b
        <5>1. f \in Fetch
          BY DEF MessagesTypeOK
        <5>2. f.from \in 1 .. Present
          BY <5>1, FetchFields
        <5> QED BY <2>1, <3>3, <5>2, Numbers
      <4>2. m \in gather' \/ Held(m)
        BY <1>1, <4>1
      <4> QED BY <1>8, <4>2 DEF Held
    <3> QED BY <1>2, <3>1, <3>2, <3>3
  <2>2. ASSUME NEW h \in gather', NEW m \in Msg, m <= h PROVE Held(m)'
    <3>1. Held(m) \/ m \in gather'
      BY <1>1, <2>2
    <3> QED BY <1>8, <3>1 DEF Held
  <2> QED BY <1>1, <2>1, <2>2 DEF Behind
<1> QED BY <1>1, <1>3, <1>4, <1>5, <1>6, <1>7, <1>9, <1>10

\* A page reaches the window that is open, opens one, or is for nobody.
LEMMA BroughtKeeps ==
  ASSUME MessagesInv, NEW k \in DOMAIN fetches, NEW f, f = fetches[k], NEW b,
         b \in 0 .. MaxMessages, b <= sent, f.from <= b + 1, NEW q, GoesOn(k, f, b, q),
         Brought(f, b, q), UNCHANGED <<service, pushes>>
  PROVE  MessagesInv'
<1>1. PICK changed \in SUBSET (f.from .. b) :
        \/ /\ open
           /\ gather' = Gathered(f.from .. b, changed)
           /\ view' = Played(Passed(view, f, b, changed), f.from .. b)
           /\ fetches' = q
           /\ UNCHANGED <<room, open, hooked, membersDone, msgsDone, failed, gathering, until>>
        \/ /\ hooked /\ f.from <= b
           /\ Open(Passed(Fresh(view), f, b, changed), f.from .. b, changed, q)
        \/ /\ ~open /\ fetches' = q
           /\ UNCHANGED <<room, open, hooked, window, view>>
  BY DEF Brought
<1>2. CASE open
  <2>1. Reaches(Passed(view, f, b, changed), f.from .. b, changed) /\ UNCHANGED pushes
    BY <1>1, <1>2 DEF Open, Reaches
  <2>2. GoesOn(k, f, b, fetches')
    BY <1>1, <1>2 DEF Open
  <2> QED BY <1>2, <2>1, <2>2, BroughtOpenKeeps
<1>3. CASE ~open /\ f.from <= b /\ Open(Passed(Fresh(view), f, b, changed), f.from .. b, changed, q)
  <2> DEFINE s == f.from .. b
             v == Passed(Fresh(view), f, b, changed)
  <2>1. /\ Good(Fresh(view)) /\ Fresh(view).delivered = view.delivered
        /\ Fresh(view).missed = view.missed
    BY FreshGood DEF MessagesInv, Seen
  <2>2. f \in Fetch /\ FetchOK(f) /\ f.mine # TRUE
    <3>1. f \in Fetch /\ FetchOK(f)
      BY DEF MessagesInv, MessagesTypeOK, FetchesOK
    <3>2. f.mine # TRUE
      BY <1>3 DEF MessagesInv, Owner, Own
    <3> QED BY <3>1, <3>2
  <2>3. f.from \in 1 .. Present /\ f.from <= sent + 1
    BY <2>2, FetchFields DEF FetchOK
  <2>4. /\ Good(v) /\ v.delivered = view.delivered /\ view.missed \subseteq v.missed
        /\ v.missed \subseteq view.missed \cup (1 .. f.from - 1) \cup s
        /\ AtOnce /\ ~failed => \A m \in 1 .. f.from - 1 : m \in v.delivered \cup v.missed
    <3>1. v = Passed(Fresh(view), f, b, changed)
      OBVIOUS
    <3> HIDE DEF v, s
    <3>2. PassedOver(Fresh(view), v, f, b, changed)
      BY <2>1, <2>2, <3>1, PassedGood
    <3> QED BY <1>3, <2>1, <2>2, <3>2 DEF s, PassedOver
  <2>5. /\ MaxMessages \in Nat /\ Msg = 1 .. MaxMessages /\ sent \in Nat /\ sent <= MaxMessages
        /\ Present = MaxMessages + 1
    BY Numbers DEF MessagesInv
  <2>6. s \in SUBSET Msg /\ \A m \in s : m <= sent
    BY <2>3, <2>5
  <2>7. \A m \in v.missed : m <= sent
    <3>1. \A m \in 1 .. f.from - 1 : m <= sent
      BY <2>3, <2>5
    <3>2. \A m \in view.missed : m <= sent
      BY DEF MessagesInv, Seen, Shown
    <3> HIDE DEF s, v
    <3> QED BY <2>4, <2>6, <3>1, <3>2
  <2>8. UpToDate => Gapless(v, s)
    <3> SUFFICES ASSUME UpToDate, NEW m \in s, NEW j \in 1 .. m
                 PROVE j \in v.delivered \cup v.missed \cup s
      BY DEF Gapless
    <3>1. j \in 1 .. f.from - 1 \/ j \in s
      BY <2>3, <2>5
    <3>2. AtOnce /\ ~failed
      BY <1>3 DEF AtOnce, MessagesInv, Flags
    <3> HIDE DEF v
    <3> QED BY <2>4, <3>1, <3>2
  <2>9. Own(fetches) = {}
    BY <1>3 DEF MessagesInv, Owner
  <2>10. Strays(q)
    BY <2>9 DEF GoesOn, Strays
  <2>11. PushesLeft
    BY DEF PushesLeft, MessagesInv, MessagesTypeOK, Queue
  <2>12. Open(v, s, changed, q) /\ UNCHANGED service
    BY <1>3
  <2> HIDE DEF v, s
  <2>13. Opening(v, s)
    BY <2>4, <2>6, <2>7, <2>8 DEF Opening
  <2> QED BY <2>10, <2>11, <2>12, <2>13, OpenKeeps
<1>4. CASE ~open /\ ~(f.from <= b /\ Open(Passed(Fresh(view), f, b, changed), f.from .. b, changed, q))
  <2>1. fetches' = q /\ UNCHANGED <<room, open, hooked, window, view, service, pushes>>
    BY <1>1, <1>4
  <2>2. /\ q \in Seq(Fetch) /\ (\A j \in DOMAIN q : FetchOK(q[j])) /\ Own(q) = {}
        /\ zombies' = Cardinality(Stray(q)) /\ zombies' \in Nat
    BY <1>4 DEF GoesOn, MessagesInv, Owner
  <2> USE DEF MessagesInv
  <2>3. MessagesTypeOK' /\ Flags' /\ FetchesOK' /\ Owner' /\ Seen'
    BY <1>4, <2>1, <2>2
    DEF MessagesTypeOK, Flags, FetchesOK, FetchOK, Owner, Seen, Shown, window, service
  <2>4. Queue' /\ Unannounced' /\ Coverage' /\ Behind'
    BY <1>4, <2>1 DEF Queue, Unannounced, Coverage, Behind, service, Shown
  <2> QED BY <2>3, <2>4
<1> QED BY <1>2, <1>3, <1>4, <1>1

\* A page that is not the last is read.
LEMMA NextPageKeeps ==
  ASSUME MessagesInv, NEW k \in DOMAIN fetches, NextPage(k)
  PROVE  MessagesInv'
<1> USE DEF MessagesInv
<1>1. PICK f : f = fetches[k]
  OBVIOUS
<1>2. PICK b : b = f.answer.to
  OBVIOUS
<1> DEFINE q == [fetches EXCEPT ![k].from = b + 1, ![k].answer = NoAnswer]
           g == [f EXCEPT !.from = b + 1, !.answer = NoAnswer]
<1>3. /\ f.answer.kind = "page" /\ f.answer.more /\ Brought(f, b, q)
      /\ UNCHANGED <<zombies, service, pushes>>
  BY <1>1, <1>2 DEF NextPage
<1>5. /\ MaxMessages \in Nat /\ Msg = 1 .. MaxMessages /\ Present = MaxMessages + 1
      /\ sent \in Nat /\ sent <= MaxMessages
  BY Numbers
<1>6. fetches \in Seq(Fetch) /\ f \in Fetch /\ FetchOK(f)
  BY <1>1 DEF MessagesTypeOK, FetchesOK
<1>7. /\ f.mine \in BOOLEAN /\ f.from \in 1 .. Present /\ f.before \in 0 .. Present
      /\ b \in 0 .. MaxMessages
  BY <1>2, <1>3, <1>6, FetchFields
<1>8. f.from <= b + 1 /\ b <= sent /\ b <= f.before
  BY <1>2, <1>3, <1>6 DEF FetchOK
<1>9. /\ g \in Fetch /\ g.mine = f.mine /\ g.from = b + 1 /\ g.before = f.before
      /\ g.answer.kind = "none"
  <2>1. b + 1 \in 1 .. Present /\ NoAnswer \in Answer /\ NoAnswer.kind = "none"
    BY <1>5, <1>7 DEF Answer, NoAnswer
  <2> QED BY <1>6, <2>1 DEF Fetch
<1>10. Swapped(fetches, k, g, q)
  BY <1>1, <1>6 DEF Swapped
<1> HIDE DEF g, q
<1>11. /\ q \in Seq(Fetch) /\ DOMAIN q = DOMAIN fetches
       /\ q[k] = g /\ \A j \in DOMAIN fetches : j # k => q[j] = fetches[j]
       /\ Own(q) = Own(fetches) /\ Stray(q) = Stray(fetches)
  <2>1. g.mine = fetches[k].mine
    BY <1>1, <1>9
  <2> QED BY <1>6, <1>9, <1>10, <2>1, Replaced
<1>12. FetchOK(g)
  <2>1. b + 1 <= sent + 1 /\ b + 1 <= f.before + 1
    BY <1>5, <1>7, <1>8
  <2> QED BY <1>6, <1>9, <2>1 DEF FetchOK
<1>13. GoesOn(k, f, b, q)
  <2>1. \A j \in DOMAIN q : FetchOK(q[j])
    BY <1>11, <1>12 DEF FetchesOK
  <2>2. zombies' = Cardinality(Stray(q)) /\ zombies' \in Nat
    BY <1>3, <1>11 DEF Owner, MessagesTypeOK
  <2>3. \A i : Own(fetches) = {i} => \E j : Own(q) = {j}
    BY <1>11
  <2> QED BY <1>9, <1>11, <2>1, <2>2, <2>3 DEF GoesOn
<1> QED BY <1>1, <1>3, <1>7, <1>8, <1>13, BroughtKeeps

\* The fetch of a closed window ends.
LEMMA FetchEndsClosedKeeps ==
  ASSUME MessagesInv, NEW k \in DOMAIN fetches, FetchEndsClosed(k)
  PROVE  MessagesInv'
<1> USE DEF MessagesInv
<1>1. PICK f : f = fetches[k]
  OBVIOUS
<1>2. PICK b : b = LastOf(f)
  OBVIOUS
<1>3. PICK q : q = RemoveAt(fetches, k)
  OBVIOUS
<1>4. /\ Ends(f) /\ ~f.mine /\ Brought(f, b, q) /\ zombies' = zombies - 1
      /\ UNCHANGED <<service, pushes>>
  BY <1>1, <1>2, <1>3 DEF FetchEndsClosed
<1>5. fetches \in Seq(Fetch) /\ f \in Fetch /\ FetchOK(f)
  BY <1>1 DEF MessagesTypeOK, FetchesOK
<1>6. b \in 0 .. MaxMessages /\ b <= sent /\ f.from <= b + 1
  BY <1>2, <1>4, <1>5, LastBrought
<1>7. k \in Stray(fetches) /\ f.mine # TRUE
  <2>1. f.mine \in BOOLEAN
    BY <1>5, FetchFields
  <2> QED BY <1>1, <1>4, <2>1 DEF Stray
<1>8. Leaves(fetches, k, q)
  BY <1>3 DEF Leaves
<1>9. /\ q \in Seq(Fetch)
      /\ \A j \in DOMAIN q : Before(k, j) \in DOMAIN fetches \ {k} /\ q[j] = fetches[Before(k, j)]
  BY <1>5, <1>8, Removed
<1>10. \A i \in DOMAIN fetches \ {k} : \E j \in DOMAIN q : q[j] = fetches[i]
  BY <1>5, <1>8, Removed
<1>11. Cardinality(Stray(q)) = Cardinality(Stray(fetches)) - 1
  BY <1>5, <1>7, <1>8, Removed
<1>12. Own(fetches) = {} => Own(q) = {}
  BY <1>5, <1>7, <1>8, Removed
<1>13. \A i : Own(fetches) = {i} => \E j : Own(q) = {j}
  BY <1>5, <1>7, <1>8, Removed
<1>14. zombies' = Cardinality(Stray(q)) /\ zombies' \in Nat
  BY <1>4, <1>9, <1>11, FetchSeq DEF Owner
<1>15. GoesOn(k, f, b, q)
  <2>1. \A j \in DOMAIN q : FetchOK(q[j])
    BY <1>9 DEF FetchesOK
  <2>2. \A j \in DOMAIN q : \E i \in DOMAIN fetches : q[j] = fetches[i]
    BY <1>9
  <2> QED BY <1>7, <1>9, <1>10, <1>12, <1>13, <1>14, <2>1, <2>2 DEF GoesOn
<1> QED BY <1>1, <1>4, <1>6, <1>15, BroughtKeeps

\* The fetch of the open window ends, and the next is begun or the window is done.
LEMMA FetchEndsKeeps ==
  ASSUME MessagesInv, NEW k \in DOMAIN fetches, FetchEnds(k)
  PROVE  MessagesInv'
<1> USE DEF MessagesInv
<1>1. PICK f : f = fetches[k]
  OBVIOUS
<1>2. PICK b : b = LastOf(f)
  OBVIOUS
<1>31. PICK changed \in SUBSET (f.from .. b) : EndsWith(k, changed)
  BY <1>1, <1>2 DEF FetchEnds
<1>3. PICK all : all = Gathered(f.from .. b, changed)
  OBVIOUS
<1>4. PICK was : was = IF f.answer = Refusal THEN Excused(view) ELSE view
  OBVIOUS
<1>41. PICK v : v = Passed(was, f, b, changed)
  OBVIOUS
<1>5. fetches \in Seq(Fetch) /\ f \in Fetch /\ FetchOK(f)
  BY <1>1 DEF MessagesTypeOK, FetchesOK
<1>6. /\ f.mine = TRUE /\ Ends(f) /\ open /\ ~msgsDone /\ gathering /\ Own(fetches) = {k}
      /\ f.before = until
  <2>1. f.mine = TRUE /\ Ends(f)
    BY <1>1, <1>5, FetchFields DEF FetchEnds
  <2>2. f.before = until
    BY <1>5, <2>1 DEF FetchOK
  <2> QED BY <1>1, <2>1, <2>2, Fetches
<1>7. Played(v, f.from .. b) = v
  BY <1>6 DEF Played
<1>8. /\ UNCHANGED <<room, open, hooked, membersDone, zombies, sent, lastSent, pushes>>
      /\ failed' = (failed \/ f.answer = Refusal)
      /\ membersDone => /\ view' = Completed(v, all, ~failed') /\ gather' = {}
                        /\ gathering' = (until # Present)
      /\ ~membersDone => view' = v /\ gather' = all /\ gathering' = TRUE
  BY <1>1, <1>2, <1>31, <1>3, <1>4, <1>41, <1>6, <1>7 DEF EndsWith, service
<1>9. \/ /\ until # Present /\ until' \in (until + 1 .. sent) \cup {Present}
         /\ Swapped(fetches, k, Ask(until + 1, until'), fetches') /\ msgsDone' = FALSE
      \/ /\ until = Present /\ msgsDone' = TRUE /\ Leaves(fetches, k, fetches') /\ until' = until
  <2>1. \/ /\ until # Present /\ until' \in ((until + 1) .. sent) \cup {Present}
           /\ fetches' = [fetches EXCEPT ![k] = Ask(until + 1, until')]
           /\ UNCHANGED msgsDone
        \/ /\ until = Present /\ msgsDone' = TRUE /\ fetches' = RemoveAt(fetches, k)
           /\ UNCHANGED until
    BY <1>31 DEF EndsWith
  <2> QED BY <1>6, <2>1 DEF Swapped, Leaves
<1>10. /\ MaxMessages \in Nat /\ Msg = 1 .. MaxMessages /\ Present = MaxMessages + 1
       /\ sent \in Nat /\ sent <= MaxMessages /\ until \in Nat /\ until <= Present
  BY Numbers
<1>11. /\ f.from \in 1 .. Present /\ b \in 0 .. MaxMessages /\ b <= sent /\ f.from <= b + 1
       /\ f.answer # Refusal => \A m \in Msg : Brings(f, m) => m \in f.from .. b
       /\ f.answer # Refusal /\ until # Present => until <= b
  BY <1>2, <1>5, <1>6, LastBrought, FetchFields
<1> DEFINE counted == v.delivered \cup v.missed
<1>14. /\ Good(v) /\ Shown \subseteq counted
       /\ v.missed \subseteq view.missed \cup (1 .. f.from - 1) \cup (f.from .. b)
       /\ v.delivered = view.delivered
       /\ until # Present => changed \subseteq counted \cup gather
       /\ v.order = "kept" => ~failed' /\ f.answer # Refusal
  <2>1. /\ Good(was) /\ was.delivered = view.delivered /\ was.missed = view.missed
        /\ was.order = "kept" => ~failed' /\ f.answer # Refusal
    BY <1>4, <1>8, ExcusedGood DEF Seen
  <2>2. PassedOver(was, v, f, b, changed)
    BY <1>5, <1>11, <1>41, <2>1, PassedGood
  <2> QED BY <1>6, <2>1, <2>2 DEF PassedOver, Shown
<1>12. /\ gather \subseteq all /\ all \subseteq gather \cup {m \in f.from .. b : m <= until}
       /\ \A m \in f.from .. b : m \in all \cup counted \/ m > until
  <2>1. all = gather \cup Kept(f.from .. b, changed, until)
    BY <1>3, <1>6 DEF Gathered
  <2>2. \A m \in f.from .. b : m \in Nat
    BY <1>10, <1>11
  <2> HIDE DEF counted
  <2> QED BY <1>10, <1>14, <2>1, <2>2 DEF Kept
<1>13. all \subseteq Msg /\ \A m \in all : m <= until /\ m <= sent
  <2>1. \A m \in f.from .. b : m \in Msg /\ m <= sent
    BY <1>10, <1>11
  <2> QED BY <1>12, <2>1 DEF MessagesTypeOK, Flags
<1>131. \A m \in counted : m <= sent
  <2>1. \A m \in 1 .. f.from - 1 : m <= sent
    BY <1>5, <1>10, <1>11 DEF FetchOK
  <2>2. \A m \in f.from .. b : m <= sent
    BY <1>10, <1>11
  <2>3. \A m \in Shown : m <= sent
    BY DEF Seen
  <2> QED BY <1>14, <2>1, <2>2, <2>3 DEF Shown
<1> HIDE DEF counted
<1>15. ASSUME ~failed', NEW m \in Msg, Held(m) PROVE m \in counted \cup all \/ m > until
  <2>1. ASSUME NEW j \in DOMAIN fetches, Brings(fetches[j], m)
        PROVE  m \in counted \cup all \/ m > until
    <3>1. j = k
      BY <1>6, <2>1 DEF Own, Brings
    <3>2. m \in f.from .. b
      BY <1>1, <1>8, <1>11, <1>15, <2>1, <3>1
    <3> QED BY <1>12, <3>2
  <2> QED BY <1>12, <1>14, <1>15, <2>1 DEF Held, Coming
<1>16. ASSUME ~failed', NEW m \in Msg, m < f.from PROVE Held(m)
  BY <1>1, <1>6, <1>8, <1>16 DEF Behind
<1>17. ASSUME ~failed', NEW g \in all, NEW m \in Msg, m <= g PROVE m \in counted \cup all
  <2>1. m <= until /\ ~(m > until)
    BY <1>10, <1>13, <1>17
  <2>2. Held(m) \/ m \in counted \cup all
    <3>1. CASE g \in gather
      BY <1>6, <1>8, <1>17, <3>1 DEF Behind
    <3>2. CASE m < f.from
      BY <1>16, <1>17, <3>2
    <3>3. CASE g \in f.from .. b /\ ~(m < f.from)
      <4>1. m \in f.from .. b
        BY <1>10, <1>11, <1>17, <3>3
      <4> QED BY <1>12, <2>1, <4>1
    <3> QED BY <1>12, <1>17, <3>1, <3>2, <3>3
  <2> QED BY <1>15, <1>17, <2>1, <2>2
<1>18. PICK s : s = IF membersDone THEN all ELSE {}
  OBVIOUS
<1>19. After(v, s, view')
  <2>1. CASE membersDone
    <3>1. ~failed' \/ v.order = "kept" => Gapless(v, all)
      <4> SUFFICES ASSUME ~failed', NEW g \in all, NEW m \in 1 .. g PROVE m \in counted \cup all
        BY <1>14 DEF Gapless, counted
      <4>1. m \in Msg /\ m <= g
        BY <1>10, <1>13
      <4> QED BY <1>17, <4>1
    <3>2. all \in SUBSET Msg /\ (~failed') \in BOOLEAN
      BY <1>13
    <3> QED BY <1>8, <1>14, <1>18, <2>1, <3>1, <3>2, CompletedGood
  <2>2. CASE ~membersDone
    BY <1>8, <1>14, <1>18, <2>2 DEF After
  <2> QED BY <2>1, <2>2
<1>20. Seen' /\ Shown' = counted \cup s
  <2>1. \A m \in v.delivered \cup v.missed \cup s : m <= sent
    BY <1>13, <1>131, <1>18 DEF counted
  <2> QED BY <1>8, <1>14, <1>19, <2>1, ShownAfter DEF counted
<1>21. /\ all \subseteq Shown' \cup gather' /\ counted \subseteq Shown' /\ Shown \subseteq Shown'
       /\ gather' \subseteq all /\ (gather' # {} => gathering')
  BY <1>8, <1>14, <1>18, <1>20
<1>22. ASSUME ~failed', NEW m \in Msg, Held(m) PROVE m \in Shown' \cup gather' \/ m > until
  BY <1>15, <1>21, <1>22
<1>23. ASSUME ~failed', NEW g \in gather', NEW m \in Msg, m <= g PROVE Held(m)'
  BY <1>17, <1>21, <1>23 DEF Held
<1>24. ASSUME fetches' \in Seq(Fetch), until' \in 0 .. Present, msgsDone' \in BOOLEAN
       PROVE  MessagesTypeOK'
  <2>1. gather' \subseteq Msg
    BY <1>13, <1>21
  <2>2. gathering' \in BOOLEAN /\ failed' \in BOOLEAN
    BY <1>8
  <2>3. view' \in View /\ Len(view'.seen) <= SeenMax
    BY <1>20 DEF Seen, Good
  <2> QED BY <1>8, <1>21, <1>24, <2>1, <2>2, <2>3 DEF MessagesTypeOK
<1>25. Queue' /\ Unannounced'
  BY <1>8, <1>21 DEF Queue, Unannounced
<1>26. ASSUME \A m \in Msg : m <= sent /\ ~failed' /\ Held(m) => Held(m)'
       PROVE  Coverage'
  <2> SUFFICES ASSUME ~failed', NEW m \in Msg, m <= sent PROVE Held(m)' \/ Pending(m)'
    BY <1>8 DEF Coverage
  <2>1. Held(m) \/ Pending(m)
    BY <1>6, <1>8 DEF Coverage
  <2>2. Pending(m) => Pending(m)'
    BY <1>6, <1>8 DEF Pending
  <2> QED BY <1>26, <2>1, <2>2
<1>27. CASE until # Present
  <2> DEFINE g == Ask(until + 1, until')
  <2>1. /\ until' \in (until + 1 .. sent) \cup {Present} /\ msgsDone' = FALSE
        /\ Swapped(fetches, k, g, fetches')
    BY <1>9, <1>27
  <2>2. /\ until + 1 \in 1 .. Present /\ until' \in 0 .. Present /\ until <= sent
        /\ until + 1 <= sent + 1 /\ until + 1 <= until' + 1
        /\ until' <= sent \/ until' = Present
        /\ until + 1 <= until'
    <3> HIDE DEF g
    <3>1. until <= sent
      BY <1>27 DEF Flags
    <3>2. CASE until' \in until + 1 .. sent
      <4>1. until' \in Nat /\ until + 1 <= until' /\ until' <= sent
        BY <1>10, <3>2
      <4>2. until' \in 0 .. Present /\ until + 1 \in 1 .. Present
        BY <1>10, <3>1, <4>1
      <4>3. until + 1 <= sent + 1
        BY <1>10, <3>1
      <4>4. until + 1 <= until' + 1
        <5>1. \A x, y \in Nat : x <= y => x <= y + 1
          OBVIOUS
        <5>2. until + 1 \in Nat
          BY <1>10
        <5> QED BY <4>1, <5>1, <5>2
      <4> QED BY <3>1, <4>1, <4>2, <4>3, <4>4
    <3>3. CASE until' = Present
      BY <1>10, <3>1, <3>3
    <3> QED BY <2>1, <3>2, <3>3
  <2>3. /\ g \in Fetch /\ g.mine = TRUE /\ g.from = until + 1 /\ g.before = until'
        /\ g.answer.kind = "none"
    BY <2>2, AskFields
  <2> HIDE DEF g
  <2>4. g.mine = fetches[k].mine
    BY <1>1, <1>6, <2>3
  <2>5. /\ fetches' \in Seq(Fetch) /\ DOMAIN fetches' = DOMAIN fetches
        /\ fetches'[k] = g /\ \A j \in DOMAIN fetches : j # k => fetches'[j] = fetches[j]
        /\ Own(fetches') = Own(fetches) /\ Stray(fetches') = Stray(fetches)
    BY <1>5, <2>1, <2>3, <2>4, Replaced
  <2>6. MessagesTypeOK'
    BY <1>24, <2>1, <2>2, <2>5
  <2>7. Flags'
    <3>1. \A m \in gather' : m <= until' /\ m <= sent
      BY <1>10, <1>13, <1>21, <2>2
    <3>2. gathering' = TRUE
      BY <1>8, <1>27
    <3> QED BY <1>6, <1>8, <2>1, <2>2, <3>1, <3>2 DEF Flags
  <2>8. FetchesOK'
    <3> SUFFICES ASSUME NEW j \in DOMAIN fetches PROVE FetchOK(fetches[j])'
      BY <2>5 DEF FetchesOK
    <3>1. CASE j = k
      BY <1>8, <2>2, <2>3, <2>5, <3>1 DEF FetchOK
    <3>2. CASE j # k
      <4>1. fetches[j].mine # TRUE /\ FetchOK(fetches[j])
        BY <1>6, <3>2 DEF Own, FetchesOK
      <4> QED BY <1>8, <2>5, <3>2, <4>1 DEF FetchOK
    <3> QED BY <3>1, <3>2
  <2>9. Owner'
    BY <1>6, <1>8, <2>1, <2>5 DEF Owner
  <2>10. ASSUME NEW m \in Msg, m > until PROVE Held(m)'
    <3>1. m >= until + 1
      BY <1>10, <2>10
    <3>2. Brings(g, m)
      BY <2>3, <3>1 DEF Brings
    <3> QED BY <2>5, <3>2 DEF Held, Coming, Brings
  <2>11. ASSUME ~failed', NEW m \in Msg, Held(m) PROVE Held(m)'
    BY <1>22, <2>10, <2>11 DEF Held
  <2>12. Coverage'
    BY <1>26, <2>11
  <2>13. Behind'
    <3> SUFFICES ASSUME ~failed' PROVE Behind'
      BY DEF Behind
    <3>1. ASSUME NEW j \in DOMAIN fetches', NEW m \in Msg, m < fetches'[j].from PROVE Held(m)'
      <4>1. CASE j # k
        BY <1>6, <1>8, <2>5, <2>11, <3>1, <4>1 DEF Behind
      <4>2. CASE j = k /\ m < f.from
        BY <1>16, <2>11, <4>2
      <4>3. CASE j = k /\ ~(m < f.from)
        <5>1. m < until + 1
          BY <2>3, <2>5, <3>1, <4>3
        <5>2. until <= b
          BY <1>8, <1>11, <1>27
        <5>3. m \in f.from .. b /\ ~(m > until)
          BY <1>10, <1>11, <4>3, <5>1, <5>2
        <5> QED BY <1>12, <1>21, <5>3 DEF Held
      <4> QED BY <4>1, <4>2, <4>3
    <3> QED BY <1>23, <3>1 DEF Behind
  <2> QED BY <1>20, <1>25, <2>6, <2>7, <2>8, <2>9, <2>12, <2>13
<1>28. CASE until = Present
  <2>1. msgsDone' = TRUE /\ Leaves(fetches, k, fetches') /\ until' = Present
    BY <1>9, <1>28
  <2>2. fetches' \in Seq(Fetch)
    BY <1>5, <2>1, Removed
  <2>3. \A j \in DOMAIN fetches' : /\ Before(k, j) \in DOMAIN fetches \ {k}
                                    /\ fetches'[j] = fetches[Before(k, j)]
    BY <1>5, <2>1, Removed
  <2>4. Own(fetches) = {k} =>
          Own(fetches') = {} /\ Cardinality(Stray(fetches')) = Cardinality(Stray(fetches))
    BY <1>5, <2>1, Removed
  <2>5. MessagesTypeOK'
    BY <1>10, <1>24, <2>1, <2>2
  <2>6. Flags'
    <3>1. \A m \in gather' : m <= Present /\ m <= sent
      BY <1>10, <1>13, <1>21
    <3>2. gathering' = ~membersDone
      BY <1>8, <1>28 DEF MessagesTypeOK
    <3> QED BY <1>6, <1>8, <2>1, <3>1, <3>2 DEF Flags
  <2>7. FetchesOK'
    <3> SUFFICES ASSUME NEW j \in DOMAIN fetches' PROVE FetchOK(fetches[j])'
      BY DEF FetchesOK
    <3>1. FetchOK(fetches'[j])
      BY <2>3 DEF FetchesOK
    <3> QED BY <1>8, <1>28, <2>1, <3>1 DEF FetchOK
  <2>8. Owner'
    BY <1>6, <1>8, <2>1, <2>4 DEF Owner
  <2>9. ASSUME ~failed', NEW m \in Msg, Held(m) PROVE Held(m)'
    <3>1. ~(m > until)
      BY <1>10, <1>28
    <3> QED BY <1>22, <2>9, <3>1 DEF Held
  <2>10. Coverage'
    BY <1>26, <2>9
  <2>11. Behind'
    <3> SUFFICES ASSUME ~failed' PROVE Behind'
      BY DEF Behind
    <3>1. ASSUME NEW j \in DOMAIN fetches', NEW m \in Msg, m < fetches'[j].from PROVE Held(m)'
      BY <1>6, <1>8, <2>3, <2>9, <3>1 DEF Behind
    <3> QED BY <1>23, <3>1 DEF Behind
  <2> QED BY <1>20, <1>25, <2>5, <2>6, <2>7, <2>8, <2>10, <2>11
<1> QED BY <1>27, <1>28


-----------------------------------------------------------------------------
(* Theorems.                                                               *)

\* Every step keeps the invariant.
LEMMA MessagesStep == MessagesInv /\ [MessagesNext]_messagesVars => MessagesInv'
<1> SUFFICES ASSUME MessagesInv, [MessagesNext]_messagesVars PROVE MessagesInv'
  OBVIOUS
<1>1. CASE WindowOpens
  <2>1. /\ Open(Fresh(view), {}, {}, fetches) /\ UNCHANGED service
        /\ ~open /\ zombies' = zombies /\ pushes' = pushes
    BY <1>1 DEF WindowOpens, Open
  <2>2. PushesLeft
    BY <2>1 DEF PushesLeft, MessagesInv, MessagesTypeOK, Queue
  <2>3. Strays(fetches)
    BY <2>1 DEF Strays, MessagesInv, MessagesTypeOK, FetchesOK, Owner
  <2>4. Opening(Fresh(view), {})
    BY FreshGood DEF Opening, Gapless, MessagesInv, Seen, Shown
  <2> QED BY <2>1, <2>2, <2>3, <2>4, OpenKeeps
<1>2. CASE Close
  BY <1>2, CloseKeeps
<1>3. CASE MembersDone
  BY <1>3, MembersDoneKeeps
<1>4. ASSUME NEW k \in DOMAIN fetches,
             ReadPage(k) \/ NextPage(k) \/ FetchEndsClosed(k) \/ FetchEnds(k)
      PROVE  MessagesInv'
  BY <1>4, ReadPageKeeps, NextPageKeeps, FetchEndsClosedKeeps, FetchEndsKeeps
<1>5. CASE DeliverPush
  BY <1>5, DeliverPushKeeps
<1>6. CASE LosePushes \/ NewMessage
  BY <1>6, LosePushesKeeps, NewMessageKeeps
<1>7. ASSUME NEW m \in Msg, Edit(m) PROVE MessagesInv'
  BY <1>7, EditKeeps
<1>8. CASE UNCHANGED messagesVars
  <2>1. UNCHANGED <<room, open, hooked, membersDone, msgsDone, failed, gathering, gather, until,
                    view, fetches, zombies, sent, lastSent, pushes>>
    BY <1>8 DEF messagesVars, window, service
  <2> USE DEF MessagesInv
  <2>2. MessagesTypeOK' /\ Flags' /\ FetchesOK' /\ Owner' /\ Seen'
    BY <2>1 DEF MessagesTypeOK, Flags, FetchesOK, FetchOK, Owner, Own, Stray, Seen, Shown
  <2>3. \A m \in Msg : Held(m)' <=> Held(m)
    BY <2>1 DEF Held, Shown, Coming, Brings
  <2>4. Queue' /\ Unannounced' /\ Coverage' /\ Behind'
    BY <2>1, <2>3 DEF Queue, Unannounced, Coverage, Behind, Shown, Pending
  <2> QED BY <2>2, <2>4
<1> QED BY <1>1, <1>2, <1>3, <1>4, <1>5, <1>6, <1>7, <1>8 DEF MessagesNext

\* The invariant, for every number of messages, pushes, fetches and windows.
THEOREM MessagesSound == MessagesSpec => []MessagesInv
BY MessagesBegin, MessagesStep, PTL DEF MessagesSpec

\* Every struct that is alive has the fetch that will continue or free it, and a closed
\* window leaves exactly one behind (cleanup_msgs, fetch_msgs_cb).
THEOREM StructsOwned == MessagesSpec => []FetchOwnsStruct
<1>1. MessagesInv => FetchOwnsStruct
  <2> SUFFICES ASSUME MessagesInv PROVE FetchOwnsStruct
    OBVIOUS
  <2>1. Fetching(TRUE) = Own(fetches) /\ Fetching(FALSE) = Stray(fetches)
    BY DEF Fetching, Own, Stray
  <2>2. CASE open /\ ~msgsDone
    <3>1. PICK k : Own(fetches) = {k}
      BY <2>2 DEF MessagesInv, Owner
    <3>2. Cardinality(Own(fetches)) = 1
      BY <3>1, FS_Singleton
    <3> QED BY <2>1, <2>2, <3>2 DEF MessagesInv, Owner, FetchOwnsStruct
  <2>3. CASE ~(open /\ ~msgsDone)
    <3>1. Cardinality(Own(fetches)) = 0
      BY <2>3, FS_EmptySet DEF MessagesInv, Owner
    <3> QED BY <2>1, <2>3, <3>1 DEF MessagesInv, Owner, FetchOwnsStruct
  <2> QED BY <2>2, <2>3
<1> QED BY <1>1, MessagesSound, PTL

\* The mark never passes a message that was not shown or missed as NeverSkips says, and
\* what is shown for the first time is in order, whatever fails, is closed, opened again,
\* or arrives early (fetch_msgs_cb, chime_complete_messages and on_message_received).
THEOREM MarkKept == MessagesSpec => []MarkSound
<1>1. MessagesInv => MarkSound
  BY DEF MessagesInv, Seen, Good, OrderSound, MarkSound, NeverSkips, InOrder
<1> QED BY <1>1, MessagesSound, PTL

\* Once the fetches are done and the pushes delivered, every message was shown or missed
\* as NeverSkips says (on_message_received, fetch_msgs_cb, on_last_sent_updated).
THEOREM NothingLeft == MessagesSpec => []AllShown
<1>1. MessagesInv => AllShown
  <2> SUFFICES ASSUME MessagesInv, open, membersDone, msgsDone, ~failed, pushes = <<>>,
                      NEW m \in 1 .. sent
               PROVE  m \in Shown
    BY DEF AllShown, Shown
  <2>1. m \in Msg /\ m <= sent
    BY Numbers DEF MessagesInv
  <2>2. ~Pending(m)
    BY DEF Pending, Among
  <2>3. gather = {}
    BY DEF MessagesInv, Flags, MessagesTypeOK
  <2>4. Held(m)
    BY <2>1, <2>2 DEF MessagesInv, Coverage
  <2> QED BY <2>1, <2>3, <2>4, Fetched
<1> QED BY <1>1, MessagesSound, PTL


-----------------------------------------------------------------------------
(* The conversations of the user with people.                              *)


\* The tables u of the plug-in, with the peers p: the ims of an address and the one
\* it names.
Ims(u, p, e) == {c \in u.ims : Email[p[c]] = e}
Entry(u, p, e) ==
  LET c == u.byEmail[e] IN
  /\ c = None <=> Ims(u, p, e) = {}
  /\ c # None =>
       /\ Email[p[c]] = e
       /\ c \in Ims(u, p, e) \/ (c \in u.replaced /\ p[c] \notin Named)
  /\ (\E d \in Ims(u, p, e) : p[d] \in Named) => p[c] \in Named
Tables(u, p) == u \in UI /\ \A e \in Emails : Entry(u, p, e)

\* The conversations k are heard, and the direct ones have their address in the table.
Hears(u, k) == \A c \in k : c \in u.ims \cup u.chats \cup u.hooks \cup u.mute \cup u.replaced
Reach(u, p, k) == \A c \in k \cap Direct : p[c] = Me \/ u.byEmail[Email[p[c]]] # None

Plugin(u, p, k) == Tables(u, p) /\ Hears(u, k) /\ Reach(u, p, k)

\* A text of the user's on its way: nothing is posted before it is, the contact has the
\* address, what is posted goes there, and none is lost while the account is open.
Underway(s, p) ==
  /\ s \in Send
  /\ s.posts <= (IF s.text THEN 1 ELSE 0)
  /\ s.stage \in {"new", "autocomplete", "find", "create"} => s.posts = 0
  /\ s.stage \in {"autocomplete", "find", "create"} => s.who \in Emails
  /\ s.stage \in {"find", "create"} => s.to \in Profiles /\ Email[s.to] = s.who
  /\ s.stage \in {"send", "sent"} => s.posts = 1 /\ s.conv \in Conversation
  /\ s.who # None /\ s.posts > 0 => Email[p[s.conv]] = s.who
  /\ s.stage = "dropped" => s.who = Email[Me]
  /\ s.stage = "quiet" => ~s.text
  /\ s.stage = "lost" => phase = "down"

Convs ==
  /\ ConversationsTypeOK
  /\ grown \subseteq known
  /\ \A c \in Conversation : deferred[c] <= pushed

Rows ==
  /\ list \in [open : BOOLEAN, rows : SUBSET Conversation, stale : SUBSET Columns,
               queued : BOOLEAN]
  /\ ListFresh

IInv ==
  /\ Convs /\ Rows
  /\ phase \in {"up", "down"} /\ scene \in Scenes
  /\ Plugin(ui, peer, known)
  /\ sends \in [1 .. MaxSends -> Send]
  /\ \A n \in 1 .. MaxSends : Underway(sends[n], peer)

USE ConversationAssumption, SendsAssumption

-----------------------------------------------------------------------------
(* The tables.                                                             *)

\* What changes only windows, hooks and the groups.
LEMMA OthersSound ==
  ASSUME NEW p \in [Direct -> Profiles], NEW k, NEW u, Plugin(u, p, k),
         NEW v \in UI, v.ims = u.ims, v.byEmail = u.byEmail, v.replaced = u.replaced,
         u.chats \cup u.hooks \cup u.mute \subseteq v.chats \cup v.hooks \cup v.mute
  PROVE  Plugin(v, p, k)
<1>1. Tables(v, p)
  BY DEF Plugin, Tables, Entry, Ims
<1>2. Hears(v, k)
  BY DEF Plugin, Hears
<1>3. Reach(v, p, k)
  BY DEF Plugin, Reach
<1> QED BY <1>1, <1>2, <1>3 DEF Plugin

\* do_join_chat: the window takes over from what heard the group.
LEMMA JoinChatSound ==
  ASSUME NEW p \in [Direct -> Profiles], NEW k, NEW u, Plugin(u, p, k),
         NEW c \in Conversation
  PROVE  Plugin(JoinChat(u, c), p, k) /\ c \in JoinChat(u, c).chats
<1>1. CASE c \in u.chats
  BY <1>1 DEF JoinChat
<1>2. CASE c \notin u.chats
  <2> DEFINE v == [u EXCEPT !.chats = @ \cup {c}, !.hooks = @ \ {c}, !.mute = @ \ {c}]
  <2>1. u \in UI
    BY DEF Plugin, Tables
  <2>2. /\ v \in UI /\ v.ims = u.ims /\ v.byEmail = u.byEmail /\ v.replaced = u.replaced
        /\ v.chats = u.chats \cup {c} /\ v.hooks = u.hooks \ {c} /\ v.mute = u.mute \ {c}
    BY <2>1 DEF UI
  <2>3. JoinChat(u, c) = v
    BY <1>2 DEF JoinChat
  <2> HIDE DEF v
  <2> QED BY <2>2, <2>3, OthersSound
<1> QED BY <1>1, <1>2

\* on_chime_new_conversation with one peer: the ims of its address change, no other's.
LEMMA NewImSound ==
  ASSUME NEW k, NEW u, peer \in [Direct -> Profiles], Plugin(u, peer, k), NEW c \in Direct
  PROVE  Plugin(NewIm(u, c), peer, k \cup {c})
<1> DEFINE q == peer[c]
           old == {d \in u.ims : peer[d] = q}
           b == u.byEmail[Email[q]]
           w == IF q \in Named \/ b = None THEN c ELSE b
           v == NewIm(u, c)
<1>1. u \in UI /\ q \in Profiles /\ Email[q] \in Emails /\ c # None
  BY DEF Plugin, Tables, Conversation
<1>2. /\ v \in UI
      /\ v.ims = (u.ims \ old) \cup {c} /\ v.replaced = u.replaced \cup old
      /\ v.byEmail = [u.byEmail EXCEPT ![Email[q]] = w]
      /\ v.chats = u.chats /\ v.hooks = u.hooks /\ v.mute = u.mute
  BY <1>1 DEF NewIm, UI
<1>3. /\ v.byEmail[Email[q]] = w /\ w # None
      /\ \A e \in Emails \ {Email[q]} : v.byEmail[e] = u.byEmail[e]
  BY <1>1, <1>2 DEF UI
<1>4. u.ims \subseteq Direct /\ old \subseteq u.ims
  BY <1>1 DEF UI
<1> HIDE DEF v, w
<1>5. ASSUME NEW e \in Emails, e # Email[q]
      PROVE  Entry(v, peer, e)
  <2>1. Ims(v, peer, e) = Ims(u, peer, e)
    BY <1>2, <1>5 DEF Ims
  <2>2. Entry(u, peer, e) /\ v.byEmail[e] = u.byEmail[e]
    BY <1>3, <1>5 DEF Plugin, Tables
  <2> QED BY <1>2, <2>1, <2>2 DEF Entry
<1>6. Entry(v, peer, Email[q])
  <2> DEFINE e == Email[q]
  <2>1. Ims(v, peer, e) = (Ims(u, peer, e) \ old) \cup {c}
    BY <1>2 DEF Ims
  <2>2. Entry(u, peer, e)
    BY <1>1 DEF Plugin, Tables
  <2>3. CASE q \in Named \/ b = None
    <3>1. v.byEmail[e] = c /\ peer[c] = q /\ Email[peer[c]] = e
      BY <1>3, <2>3 DEF w
    <3>2. c \in Ims(v, peer, e)
      BY <2>1
    <3>3. ASSUME NEW d \in Ims(v, peer, e), peer[d] \in Named
          PROVE  peer[c] \in Named
      BY <2>1, <2>2, <2>3, <3>3 DEF Entry
    <3> QED BY <1>1, <3>1, <3>2, <3>3 DEF Entry
  <2>4. CASE q \notin Named /\ b # None
    <3>1. v.byEmail[e] = b
      BY <1>3, <2>4 DEF w
    <3>2. Email[peer[b]] = e /\ (b \in Ims(u, peer, e) \/ (b \in u.replaced /\ peer[b] \notin Named))
      BY <2>2, <2>4 DEF Entry
    <3>3. b \in Ims(v, peer, e) \/ (b \in v.replaced /\ peer[b] \notin Named)
      BY <1>2, <2>1, <2>4, <3>2
    <3>4. ASSUME NEW d \in Ims(v, peer, e), peer[d] \in Named
          PROVE  peer[b] \in Named
      BY <2>1, <2>2, <2>4, <3>4 DEF Entry
    <3> QED BY <2>1, <2>4, <3>1, <3>2, <3>3, <3>4 DEF Entry
  <2> QED BY <2>3, <2>4
<1>7. Tables(v, peer)
  BY <1>2, <1>5, <1>6 DEF Tables
<1>8. Hears(v, k \cup {c})
  BY <1>2 DEF Plugin, Hears
<1>9. Reach(v, peer, k \cup {c})
  <2> SUFFICES ASSUME NEW d \in (k \cup {c}) \cap Direct, peer[d] # Me
               PROVE  v.byEmail[Email[peer[d]]] # None
    BY DEF Reach
  <2>1. peer[d] \in Profiles /\ Email[peer[d]] \in Emails
    OBVIOUS
  <2>2. CASE Email[peer[d]] = Email[q]
    BY <1>3, <2>2
  <2>3. CASE Email[peer[d]] # Email[q]
    <3>1. d \in k \cap Direct
      BY <2>3
    <3>2. u.byEmail[Email[peer[d]]] # None
      BY <3>1 DEF Plugin, Reach
    <3> QED BY <1>3, <2>1, <2>3, <3>2
  <2> QED BY <2>2, <2>3
<1> QED BY <1>7, <1>8, <1>9 DEF Plugin, v

\* A conversation that becomes known is heard, and its address is in the table.
LEMMA AnnouncedSound ==
  ASSUME NEW u, Convs, Plugin(u, peer, known), NEW c \in Conversation,
         NEW last \in {"none", "seen", "new"}
  PROVE  Plugin(Announced(u, c, last), peer, known \cup {c})
<1>1. peer \in [Direct -> Profiles] /\ u \in UI
  BY DEF Convs, ConversationsTypeOK, Plugin, Tables
<1>2. CASE c \in known
  <2>1. known \cup {c} = known
    BY <1>2
  <2> QED BY <1>2, <2>1 DEF Announced
<1>3. CASE c \notin known /\ ~IsGroup(c)
  <2>1. c \in Direct
    BY <1>3 DEF IsGroup, Conversation
  <2>2. Announced(u, c, last) = NewIm(u, c)
    BY <1>3 DEF Announced
  <2> QED BY <1>1, <2>1, <2>2, NewImSound
<1>4. CASE c \notin known /\ IsGroup(c)
  <2> DEFINE v == NewGroup(u, c, last)
  <2>1. Announced(u, c, last) = v
    BY <1>4 DEF Announced
  <2>2. Plugin(v, peer, known) /\ c \in v.chats \cup v.hooks \cup v.mute
    <3>1. CASE last = "none"
      <4> DEFINE x == [u EXCEPT !.mute = @ \cup {c}]
      <4>1. /\ x \in UI /\ x.ims = u.ims /\ x.byEmail = u.byEmail /\ x.replaced = u.replaced
            /\ x.chats = u.chats /\ x.hooks = u.hooks /\ x.mute = u.mute \cup {c}
        BY <1>1 DEF UI
      <4>2. v = x
        BY <3>1 DEF NewGroup
      <4> HIDE DEF x, v
      <4> QED BY <1>1, <4>1, <4>2, OthersSound
    <3>2. CASE last = "seen"
      <4> DEFINE x == [u EXCEPT !.hooks = @ \cup {c}]
      <4>1. /\ x \in UI /\ x.ims = u.ims /\ x.byEmail = u.byEmail /\ x.replaced = u.replaced
            /\ x.chats = u.chats /\ x.hooks = u.hooks \cup {c} /\ x.mute = u.mute
        BY <1>1 DEF UI
      <4>2. v = x
        BY <3>2 DEF NewGroup
      <4> HIDE DEF x, v
      <4> QED BY <1>1, <4>1, <4>2, OthersSound
    <3>3. CASE last = "new"
      <4>1. v = JoinChat(u, c)
        BY <3>3 DEF NewGroup
      <4> HIDE DEF v
      <4> QED BY <1>1, <4>1, JoinChatSound
    <3> QED BY <3>1, <3>2, <3>3
  <2> HIDE DEF v
  <2>3. Hears(v, known \cup {c})
    BY <2>2 DEF Plugin, Hears
  <2>4. Reach(v, peer, known \cup {c})
    \* A direct conversation that counts as a group's when it is announced is one with
    \* oneself, as nobody can have joined it.
    <3>1. c \in Direct => peer[c] = Me
      BY <1>4 DEF IsGroup, Convs, Conversation
    <3> QED BY <2>2, <3>1 DEF Plugin, Reach
  <2> QED BY <2>1, <2>2, <2>3, <2>4 DEF Plugin
<1> QED BY <1>2, <1>3, <1>4

\* A message opens windows.
LEMMA HeardSound ==
  ASSUME NEW u, NEW k, peer \in [Direct -> Profiles], Plugin(u, peer, k), NEW c \in Conversation
  PROVE  Plugin(Heard(u, c), peer, k)
<1> DEFINE v == IF c \in u.ims THEN [u EXCEPT !.windows = @ \cup {Email[peer[c]]}] ELSE u
<1>1. u \in UI
  BY DEF Plugin, Tables
<1>2. Plugin(v, peer, k)
  <2>1. CASE c \in u.ims
    <3> DEFINE x == [u EXCEPT !.windows = @ \cup {Email[peer[c]]}]
    <3>1. Email[peer[c]] \in Emails
      BY <1>1, <2>1 DEF UI
    <3>2. /\ x \in UI /\ x.ims = u.ims /\ x.byEmail = u.byEmail /\ x.replaced = u.replaced
          /\ x.chats = u.chats /\ x.hooks = u.hooks /\ x.mute = u.mute
      BY <1>1, <3>1 DEF UI
    <3>3. v = x
      BY <2>1
    <3> HIDE DEF x, v
    <3> QED BY <3>2, <3>3, OthersSound
  <2>2. CASE c \notin u.ims
    BY <2>2
  <2> QED BY <2>1, <2>2
<1>3. Heard(u, c) = IF c \in v.hooks THEN JoinChat(v, c) ELSE v
  BY DEF Heard
<1> HIDE DEF v
<1> QED BY <1>2, <1>3, JoinChatSound

\* Windows come and go; a group that is left is heard by the handler that opens it again.
LEMMA WindowsSound ==
  ASSUME NEW u, NEW k, peer \in [Direct -> Profiles], Plugin(u, peer, k), NEW W \in SUBSET Emails
  PROVE  Plugin([u EXCEPT !.windows = W], peer, k)
<1> DEFINE x == [u EXCEPT !.windows = W]
<1>1. u \in UI
  BY DEF Plugin, Tables
<1>2. /\ x \in UI /\ x.ims = u.ims /\ x.byEmail = u.byEmail /\ x.replaced = u.replaced
      /\ x.chats = u.chats /\ x.hooks = u.hooks /\ x.mute = u.mute
  BY <1>1 DEF UI
<1> HIDE DEF x
<1>3. Plugin(x, peer, k)
  BY <1>2, OthersSound
<1> QED BY <1>3 DEF x

LEMMA LeaveSound ==
  ASSUME NEW u, NEW k, peer \in [Direct -> Profiles], Plugin(u, peer, k), NEW c \in Conversation
  PROVE  Plugin([u EXCEPT !.chats = @ \ {c}, !.hooks = @ \cup {c}], peer, k)
<1> DEFINE x == [u EXCEPT !.chats = @ \ {c}, !.hooks = @ \cup {c}]
<1>1. u \in UI
  BY DEF Plugin, Tables
<1>2. /\ x \in UI /\ x.ims = u.ims /\ x.byEmail = u.byEmail /\ x.replaced = u.replaced
      /\ x.chats = u.chats \ {c} /\ x.hooks = u.hooks \cup {c} /\ x.mute = u.mute
  BY <1>1 DEF UI
<1> HIDE DEF x
<1>3. Plugin(x, peer, k)
  BY <1>2, OthersSound
<1> QED BY <1>3 DEF x

-----------------------------------------------------------------------------
(* The texts.                                                              *)

\* Posting needs an address the table knows.
LEMMA PostedSound ==
  ASSUME NEW u, NEW p \in [Direct -> Profiles], Tables(u, p),
         NEW s, Underway(s, p), s.posts = 0, s.who \in Emails, u.byEmail[s.who] # None
  PROVE  Underway(Posted(u, s), p)
<1> DEFINE b == u.byEmail[s.who]
<1>1. b \in Direct /\ Email[p[b]] = s.who /\ s \in Send /\ s.who # None
  BY DEF Tables, UI, Entry, Underway
<1>2. CASE s.text
  <2> DEFINE x == [s EXCEPT !.stage = "send", !.conv = b, !.to = None, !.posts = @ + 1]
             y == [s EXCEPT !.stage = "send", !.conv = b, !.to = None, !.posts = 1]
  <2>0. x = y
    BY <1>1 DEF Send
  <2>1. /\ x \in Send /\ x.stage = "send" /\ x.conv = b /\ x.posts = 1 /\ x.who = s.who
        /\ x.text
    <3>1. 1 \in 0 .. 2 /\ b \in Conversation \cup {None}
      BY <1>1 DEF Conversation
    <3> HIDE DEF b
    <3>2. y \in Send /\ y.stage = "send" /\ y.conv = b /\ y.posts = 1 /\ y.who = s.who /\ y.text
      BY <1>1, <1>2, <3>1 DEF Send, Stages
    <3> QED BY <2>0, <3>2
  <2>2. Posted(u, s) = x
    BY <1>2 DEF Posted
  <2> HIDE DEF x, b
  <2> QED BY <1>1, <2>1, <2>2 DEF Underway, Conversation
<1>3. CASE ~s.text
  <2> DEFINE x == [s EXCEPT !.stage = "quiet", !.to = None]
  <2>1. x \in Send /\ x.stage = "quiet" /\ x.posts = 0 /\ x.who = s.who /\ ~x.text
    BY <1>1, <1>3 DEF Send, Stages
  <2>2. Posted(u, s) = x
    BY <1>3 DEF Posted
  <2> HIDE DEF x, b
  <2> QED BY <1>1, <2>1, <2>2 DEF Underway
<1> QED BY <1>2, <1>3

LEMMA StageSound ==
  ASSUME NEW p, NEW s, Underway(s, p)
  PROVE  /\ Underway(Failed(s), p)
         /\ s.posts = 0 /\ s.who \in Emails => Underway(Autocomplete(s), p)
         /\ s.posts = 0 /\ s.who \in Emails => \A q \in Profiles : Email[q] = s.who => Underway(Find(s, q), p)
         /\ s.stage = "find" => Underway(Create(s), p)
         /\ s.stage = "find" /\ s.who = Email[Me] => Underway([s EXCEPT !.stage = "dropped"], p)
         /\ s.stage = "send" => Underway([s EXCEPT !.stage = "sent", !.closed = FALSE], p)
         /\ s.stage = "send" => Underway([s EXCEPT !.closed = TRUE], p)
<1>1. s \in Send
  BY DEF Underway
<1>2. Underway(Failed(s), p)
  <2> DEFINE st == IF s.who = None \/ s.who \in ui.windows THEN "told" ELSE "untold"
             x == [s EXCEPT !.stage = st, !.to = None]
  <2>1. st \in {"told", "untold"}
    OBVIOUS
  <2> HIDE DEF st
  <2>2. x \in Send /\ x.stage = st /\ x.posts = s.posts /\ x.who = s.who /\ x.text = s.text /\ x.conv = s.conv
    BY <1>1, <2>1 DEF Send, Stages
  <2>3. Failed(s) = x
    BY DEF Failed, st
  <2> HIDE DEF x
  <2> QED BY <2>1, <2>2, <2>3 DEF Underway
<1>3. ASSUME s.posts = 0, s.who \in Emails
      PROVE  Underway(Autocomplete(s), p)
  <2> DEFINE x == [s EXCEPT !.stage = "autocomplete"]
  <2>1. x \in Send /\ x.stage = "autocomplete" /\ x.posts = 0 /\ x.who = s.who /\ x.text = s.text
    BY <1>1, <1>3 DEF Send, Stages
  <2>2. Autocomplete(s) = x
    BY DEF Autocomplete
  <2> HIDE DEF x
  <2> QED BY <1>3, <2>1, <2>2 DEF Underway
<1>4. ASSUME s.posts = 0, s.who \in Emails, NEW q \in Profiles, Email[q] = s.who
      PROVE  Underway(Find(s, q), p)
  <2> DEFINE x == [s EXCEPT !.stage = "find", !.to = q]
  <2>1. x \in Send /\ x.stage = "find" /\ x.posts = 0 /\ x.who = s.who /\ x.to = q /\ x.text = s.text
    BY <1>1, <1>4 DEF Send, Stages
  <2>2. Find(s, q) = x
    BY DEF Find
  <2> HIDE DEF x
  <2> QED BY <1>4, <2>1, <2>2 DEF Underway
<1>5. ASSUME s.stage = "find"
      PROVE  Underway(Create(s), p)
  <2> DEFINE x == [s EXCEPT !.stage = "create"]
  <2>1. x \in Send /\ x.stage = "create" /\ x.posts = s.posts /\ x.who = s.who /\ x.to = s.to
        /\ x.text = s.text
    BY <1>1 DEF Send, Stages
  <2>2. Create(s) = x
    BY DEF Create
  <2> HIDE DEF x
  <2> QED BY <1>5, <2>1, <2>2 DEF Underway
<1>6. ASSUME s.stage = "find", s.who = Email[Me]
      PROVE  Underway([s EXCEPT !.stage = "dropped"], p)
  <2> DEFINE x == [s EXCEPT !.stage = "dropped"]
  <2>1. x \in Send /\ x.stage = "dropped" /\ x.posts = s.posts /\ x.who = s.who /\ x.text = s.text
    BY <1>1 DEF Send, Stages
  <2> HIDE DEF x
  <2>2. Underway(x, p)
    BY <1>6, <2>1 DEF Underway
  <2> QED BY <2>2 DEF x
<1>7. ASSUME s.stage = "send"
      PROVE  /\ Underway([s EXCEPT !.stage = "sent", !.closed = FALSE], p)
             /\ Underway([s EXCEPT !.closed = TRUE], p)
  <2> DEFINE x == [s EXCEPT !.stage = "sent", !.closed = FALSE]
             y == [s EXCEPT !.closed = TRUE]
  <2>1. x \in Send /\ x.stage = "sent" /\ x.posts = s.posts /\ x.who = s.who /\ x.text = s.text
        /\ x.conv = s.conv
    BY <1>1 DEF Send, Stages
  <2>2. y \in Send /\ y.stage = "send" /\ y.posts = s.posts /\ y.who = s.who /\ y.text = s.text
        /\ y.conv = s.conv
    BY <1>1, <1>7 DEF Send, Stages
  <2> HIDE DEF x, y
  <2>3. Underway(x, p) /\ Underway(y, p)
    BY <1>7, <2>1, <2>2 DEF Underway
  <2> QED BY <2>3 DEF x, y
<1> QED BY <1>2, <1>3, <1>4, <1>5, <1>6, <1>7

-----------------------------------------------------------------------------
(* Steps.                                                                  *)

\* A window, a hook or a text apart, nothing of the invariant changes.
LEMMA Assembled ==
  ASSUME IInv, [Next]_vars,
         Convs', Rows', phase' \in {"up", "down"}, scene' = scene, peer' = peer,
         Plugin(ui', peer, known'),
         sends' \in [1 .. MaxSends -> Send],
         \A n \in 1 .. MaxSends : Underway(sends'[n], peer)
  PROVE  IInv'
<1>1. phase = "down" => phase' = "down"
  BY DEF Next, vars
<1>2. (\A n \in 1 .. MaxSends : Underway(sends[n], peer))'
  BY <1>1 DEF Underway
<1> QED BY <1>2 DEF IInv

LEMMA BecomesSound ==
  ASSUME IInv, NEW n \in 1 .. MaxSends, NEW s, Underway(s, peer), Becomes(n, s)
  PROVE  /\ sends' \in [1 .. MaxSends -> Send]
         /\ \A k \in 1 .. MaxSends : Underway(sends'[k], peer)
<1>1. s \in Send
  BY DEF Underway
<1>2. sends' = [sends EXCEPT ![n] = s] /\ sends \in [1 .. MaxSends -> Send]
  BY DEF Becomes, IInv
<1> QED BY <1>1, <1>2 DEF IInv

\* A conversation becomes known in one step, with its tables and its row.
LEMMA KnownSound ==
  ASSUME IInv, NEW c \in Conversation, BecomesKnown(c),
         UNCHANGED <<peer, grown, deferred, pushed>>
  PROVE  Convs' /\ Rows' /\ Plugin(ui', peer, known') /\ known' = known \cup {c}
<1>1. known' = known \cup {c} /\ exists' = exists \cup {c}
  BY DEF BecomesKnown, Parse
<1>2. Convs'
  BY <1>1 DEF IInv, Convs, ConversationsTypeOK
<1>3. Plugin(ui', peer, known')
  <2>1. PICK last \in LastKinds(c) : ui' = Announced(ui, c, last)
    BY DEF BecomesKnown
  <2>2. last \in {"none", "seen", "new"}
    BY <2>1 DEF LastKinds
  <2> QED BY <1>1, <2>1, <2>2, AnnouncedSound DEF IInv
<1>4. Rows'
  <2>1. list' = IF c \in known THEN list ELSE Refreshed(list)
    BY DEF BecomesKnown
  <2>2. CASE c \in known
    <3>1. known' = known
      BY <1>1, <2>2
    <3> QED BY <2>1, <2>2, <3>1 DEF IInv, Rows, ListFresh
  <2>3. CASE c \notin known
    BY <2>1, <2>3 DEF Refreshed, IInv, Rows, ListFresh
  <2> QED BY <2>2, <2>3
<1> QED BY <1>1, <1>2, <1>3, <1>4

\* A text that begins, or the window that is merely opened.
LEMMA SendImSound ==
  ASSUME IInv, NEW n \in 1 .. MaxSends, NEW e \in Emails, NEW text \in BOOLEAN,
         SendIm(n, e, text)
  PROVE  /\ sends' \in [1 .. MaxSends -> Send]
         /\ \A k \in 1 .. MaxSends : Underway(sends'[k], peer)
<1> DEFINE s == [NewSend EXCEPT !.who = e, !.text = text]
<1>1. /\ s \in Send /\ s.stage = "new" /\ s.who = e /\ s.posts = 0 /\ s.text = text
  <2>1. NewSend \in Send /\ NewSend.stage = "new" /\ NewSend.posts = 0
    BY DEF NewSend, Send, Stages
  <2>2. e \in Emails \cup {None}
    OBVIOUS
  <2> QED BY <2>1, <2>2 DEF Send
<1>2. Underway(s, peer) /\ s.who \in Emails /\ s.posts = 0
  <2> HIDE DEF s
  <2> QED BY <1>1 DEF Underway
<1>3. CASE ui.byEmail[e] # None /\ Becomes(n, Posted(ui, s))
  <2>1. peer \in [Direct -> Profiles] /\ Tables(ui, peer)
    BY DEF IInv, Convs, ConversationsTypeOK, Plugin
  <2> HIDE DEF s
  <2>2. Underway(Posted(ui, s), peer)
    BY <1>1, <1>2, <1>3, <2>1, PostedSound
  <2> QED BY <1>3, <2>2, BecomesSound
<1>4. ASSUME NEW q \in Profiles, Email[q] = e, Becomes(n, Find(s, q))
      PROVE  /\ sends' \in [1 .. MaxSends -> Send]
             /\ \A k \in 1 .. MaxSends : Underway(sends'[k], peer)
  <2> HIDE DEF s
  <2>1. Underway(Find(s, q), peer)
    BY <1>1, <1>2, <1>4, StageSound
  <2> QED BY <1>4, <2>1, BecomesSound
<1>5. CASE Becomes(n, Autocomplete(s))
  <2> HIDE DEF s
  <2>1. Underway(Autocomplete(s), peer)
    BY <1>2, StageSound
  <2> QED BY <1>5, <2>1, BecomesSound
<1> QED BY <1>3, <1>4, <1>5 DEF SendIm

LEMMA InitInv == Init => IInv
<1> SUFFICES ASSUME Init PROVE IInv
  OBVIOUS
<1>1. Convs
  BY DEF Init, ConversationsInit, Convs, ConversationsTypeOK, Conversation
<1>2. Rows
  BY DEF Init, Rows, ListFresh, NoList
<1>3. Plugin(ui, peer, known)
  BY DEF Init, ConversationsInit, NoUI, UI, Plugin, Tables, Entry, Ims, Hears, Reach
<1>4. NewSend \in Send /\ Underway(NewSend, peer)
  BY DEF NewSend, Send, Stages, Underway
<1> QED BY <1>1, <1>2, <1>3, <1>4 DEF Init, IInv

\* What the service pushes.
LEMMA PushedInv ==
  ASSUME IInv, [Next]_vars, Pushed, UNCHANGED <<phase, scene>>
  PROVE  IInv'
<1>1. /\ Convs /\ Rows /\ Plugin(ui, peer, known) /\ phase \in {"up", "down"}
      /\ sends \in [1 .. MaxSends -> Send] /\ \A n \in 1 .. MaxSends : Underway(sends[n], peer)
      /\ peer \in [Direct -> Profiles] /\ ui \in UI
  BY DEF IInv, Convs, ConversationsTypeOK, Plugin, Tables
<1>2. ASSUME NEW c \in Conversation, ConversationPushed(c)
      PROVE  IInv'
  <2>1. BecomesKnown(c) /\ UNCHANGED <<peer, grown, deferred, pushed, sends>>
    BY <1>2 DEF ConversationPushed
  <2> QED BY <1>1, <2>1, KnownSound, Assembled
<1>3. ASSUME NEW c \in Conversation, RowChanges(c)
      PROVE  IInv'
  <2>1. UNCHANGED <<conversations, ui, sends>>
    BY <1>3 DEF RowChanges
  <2>2. Rows'
    <3>1. PICK column \in Columns :
            LET l == [list EXCEPT !.stale = @ \cup {column}]
            IN  list' = IF column = "updated" THEN l ELSE Refreshed(l)
      BY <1>3 DEF RowChanges
    <3>2. known' = known /\ list.open /\ list.stale \cup {column} \in SUBSET Columns
      BY <1>1, <1>3, <3>1 DEF RowChanges, conversations, Rows
    <3> QED BY <1>1, <3>1, <3>2 DEF Refreshed, Rows, ListFresh
  <2> QED BY <1>1, <2>1, <2>2, Assembled DEF conversations, Convs, ConversationsTypeOK
<1>4. ASSUME NEW c \in Conversation, MemberJoins(c)
      PROVE  IInv'
  <2>1. UNCHANGED <<peer, exists, known, deferred, pushed, ui, list, sends>>
        /\ grown' = grown \cup {c} /\ c \in known \cap Direct
    BY <1>4 DEF MemberJoins, Join
  <2>2. Convs'
    BY <1>1, <2>1 DEF Convs, ConversationsTypeOK
  <2>3. Rows'
    BY <1>1, <2>1 DEF Rows, ListFresh
  <2> QED BY <1>1, <2>1, <2>2, <2>3, Assembled
<1>5. ASSUME NEW c \in Conversation, MessagePushed(c)
      PROVE  IInv'
  <2>1. /\ UNCHANGED <<peer, exists, known, grown, deferred, list, sends>>
        /\ pushed < MaxPushes /\ pushed' = pushed + 1 /\ ui' = Heard(ui, c)
    BY <1>5 DEF MessagePushed
  <2>2. Convs'
    BY <1>1, <2>1 DEF Convs, ConversationsTypeOK
  <2>3. Rows'
    BY <1>1, <2>1 DEF Rows, ListFresh
  <2>4. Plugin(ui', peer, known')
    BY <1>1, <2>1, HeardSound
  <2> QED BY <1>1, <2>1, <2>2, <2>3, <2>4, Assembled
<1>6. ASSUME NEW c \in Conversation, MessageDeferred(c)
      PROVE  IInv'
  <2>1. /\ UNCHANGED <<peer, known, grown, ui, list, sends>>
        /\ pushed < MaxPushes /\ pushed' = pushed + 1 /\ exists' = exists \cup {c}
        /\ deferred' = [deferred EXCEPT ![c] = @ + 1]
    BY <1>6 DEF MessageDeferred, Defer
  <2>2. Convs'
    <3>1. pushed \in Nat /\ pushed < MaxPushes /\ deferred \in [Conversation -> 0 .. MaxPushes]
          /\ \A d \in Conversation : deferred[d] <= pushed
      BY <1>1, <2>1 DEF Convs, ConversationsTypeOK
    <3>2. \A d \in Conversation : deferred'[d] = IF d = c THEN deferred[d] + 1 ELSE deferred[d]
      BY <2>1, <3>1
    <3>3. \A d \in Conversation : deferred'[d] \in 0 .. MaxPushes /\ deferred'[d] <= pushed'
      BY <2>1, <3>1, <3>2
    <3>4. deferred' \in [Conversation -> 0 .. MaxPushes]
      BY <2>1, <3>1, <3>3
    <3>5. pushed' \in 0 .. MaxPushes
      BY <2>1, <3>1
    <3> QED BY <1>1, <2>1, <3>3, <3>4, <3>5 DEF Convs, ConversationsTypeOK
  <2>3. Rows'
    BY <1>1, <2>1 DEF Rows, ListFresh
  <2> QED BY <1>1, <2>1, <2>2, <2>3, Assembled
<1>7. ASSUME NEW c \in Conversation, Undefer(c)
      PROVE  deferred' \in [Conversation -> 0 .. MaxPushes]
             /\ \A d \in Conversation : deferred'[d] <= pushed
  <2>1. deferred \in [Conversation -> 0 .. MaxPushes] /\ deferred[c] > 0
        /\ \A d \in Conversation : deferred[d] <= pushed
        /\ deferred' = [deferred EXCEPT ![c] = @ - 1] /\ pushed \in Nat
    BY <1>1, <1>7 DEF Undefer, Convs, ConversationsTypeOK
  <2>2. \A d \in Conversation : deferred'[d] = IF d = c THEN deferred[d] - 1 ELSE deferred[d]
    BY <2>1
  <2>3. \A d \in Conversation : deferred'[d] \in 0 .. MaxPushes /\ deferred'[d] <= pushed
    BY <2>1, <2>2
  <2> QED BY <2>1, <2>3
<1>8. ASSUME NEW c \in Conversation, DeferredFetched(c)
      PROVE  IInv'
  <2>1. /\ UNCHANGED <<peer, grown, pushed, sends>>
        /\ known' = known \cup {c} /\ exists' = exists \cup {c} /\ Undefer(c)
        /\ list' = IF c \in known THEN list ELSE Refreshed(list)
    BY <1>8 DEF DeferredFetched, Parse
  <2>2. Convs'
    BY <1>1, <1>7, <2>1 DEF Convs, ConversationsTypeOK
  <2>3. Rows'
    <3>1. CASE c \in known
      <4>1. known' = known
        BY <2>1, <3>1
      <4> QED BY <1>1, <2>1, <3>1, <4>1 DEF Rows, ListFresh
    <3>2. CASE c \notin known
      BY <1>1, <2>1, <3>2 DEF Refreshed, Rows, ListFresh
    <3> QED BY <3>1, <3>2
  <2>4. Plugin(ui', peer, known')
    <3>1. PICK last \in LastKinds(c) \ {"none"} : ui' = Heard(Announced(ui, c, last), c)
      BY <1>8 DEF DeferredFetched
    <3>2. last \in {"none", "seen", "new"}
      BY <3>1 DEF LastKinds
    <3>3. Plugin(Announced(ui, c, last), peer, known \cup {c})
      BY <1>1, <3>2, AnnouncedSound
    <3> QED BY <1>1, <2>1, <3>1, <3>3, HeardSound
  <2> QED BY <1>1, <2>1, <2>2, <2>3, <2>4, Assembled
<1>9. ASSUME NEW c \in Conversation, DeferredLost(c)
      PROVE  IInv'
  <2>1. UNCHANGED <<peer, exists, known, grown, pushed, ui, list, sends>> /\ Undefer(c)
    BY <1>9 DEF DeferredLost
  <2>2. Convs'
    BY <1>1, <1>7, <2>1 DEF Convs, ConversationsTypeOK
  <2>3. Rows'
    BY <1>1, <2>1 DEF Rows, ListFresh
  <2> QED BY <1>1, <2>1, <2>2, <2>3, Assembled
<1> QED BY <1>2, <1>3, <1>4, <1>5, <1>6, <1>8, <1>9 DEF Pushed

\* The answer to the requests of a text.
LEMMA AnsweredInv ==
  ASSUME IInv, [Next]_vars, NEW n \in 1 .. MaxSends, Answered(n), UNCHANGED <<phase, scene>>
  PROVE  IInv'
<1> DEFINE s == sends[n]
<1>1. /\ Convs /\ Rows /\ Plugin(ui, peer, known) /\ phase \in {"up", "down"}
      /\ sends \in [1 .. MaxSends -> Send] /\ \A k \in 1 .. MaxSends : Underway(sends[k], peer)
      /\ peer \in [Direct -> Profiles] /\ ui \in UI
  BY DEF IInv, Convs, ConversationsTypeOK, Plugin, Tables
<1>2. Underway(s, peer)
  BY <1>1
<1> HIDE DEF s
\* Only the text changes.
<1>3. ASSUME NEW x, Underway(x, peer), Becomes(n, x), UNCHANGED <<conversations, ui, list>>
      PROVE  IInv'
  <2>1. Convs' /\ Rows' /\ Plugin(ui', peer, known') /\ peer' = peer
    BY <1>1, <1>3 DEF conversations, Convs, ConversationsTypeOK, Rows, ListFresh
  <2> QED BY <1>1, <1>3, <2>1, BecomesSound, Assembled
<1>4. CASE Autocompleted(n)
  <2>1. s.posts = 0 /\ s.who \in Emails
    BY <1>2, <1>4 DEF Autocompleted, Underway, s
  <2>2. UNCHANGED <<conversations, ui, list>>
    BY <1>4 DEF Autocompleted
  <2>3. ASSUME NEW p \in Profiles, Email[p] = s.who, Becomes(n, Find(s, p))
        PROVE  IInv'
    BY <1>2, <1>3, <2>1, <2>2, <2>3, StageSound
  <2>4. CASE Becomes(n, Failed(s))
    BY <1>2, <1>3, <2>2, <2>4, StageSound
  <2> QED BY <1>4, <2>3, <2>4 DEF Autocompleted, s
<1>5. CASE NotFound(n)
  BY <1>2, <1>3, <1>5, StageSound DEF NotFound, s
<1>6. CASE NotCreated(n)
  BY <1>2, <1>3, <1>6, StageSound DEF NotCreated, s
<1>7. CASE NotSent(n)
  BY <1>2, <1>3, <1>7, StageSound DEF NotSent, s
<1>8. CASE Sent(n)
  <2> DEFINE x == [s EXCEPT !.stage = "sent", !.closed = FALSE]
  <2>1. /\ s.stage = "send" /\ Becomes(n, x) /\ ui' = Heard(ui, s.conv)
        /\ UNCHANGED <<conversations, list>>
    BY <1>8 DEF Sent, s
  <2>2. Underway(x, peer)
    BY <1>2, <2>1, StageSound
  <2>3. s.conv \in Conversation
    BY <1>2, <2>1 DEF Underway
  <2> HIDE DEF x
  <2>4. UNCHANGED <<peer, exists, known, grown, deferred, pushed>>
    BY <2>1 DEF conversations
  <2>5. Convs' /\ Rows'
    BY <1>1, <2>1, <2>4 DEF Convs, ConversationsTypeOK, Rows, ListFresh
  <2>6. Plugin(ui', peer, known')
    BY <1>1, <2>1, <2>4, <2>3, HeardSound
  <2> QED BY <1>1, <2>1, <2>2, <2>4, <2>5, <2>6, BecomesSound, Assembled
\* The conversation that was looked for or created becomes known.
<1>9. ASSUME NEW c \in Direct, BecomesKnown(c), UNCHANGED <<peer, grown, deferred, pushed>>,
             NEW x, Underway(x, peer), Becomes(n, x)
      PROVE  IInv'
  <2>1. c \in Conversation
    BY DEF Conversation
  <2>2. Convs' /\ Rows' /\ Plugin(ui', peer, known')
    BY <1>9, <2>1, KnownSound
  <2> QED BY <1>1, <1>9, <2>2, BecomesSound, Assembled
<1>10. ASSUME NEW c \in Direct, BecomesKnown(c), UNCHANGED <<peer, grown, deferred, pushed>>
       PROVE  Tables(ui', peer) /\ (peer[c] = Me \/ ui'.byEmail[Email[peer[c]]] # None)
  <2>1. c \in Conversation
    BY DEF Conversation
  <2>2. Plugin(ui', peer, known') /\ known' = known \cup {c}
    BY <1>10, <2>1, KnownSound
  <2> QED BY <2>2 DEF Plugin, Reach
<1>11. CASE Found(n)
  <2>1. PICK c \in Direct :
           /\ With(s.to) = {c}
           /\ BecomesKnown(c)
           /\ Becomes(n, IF ui'.byEmail[s.who] = None THEN [s EXCEPT !.stage = "dropped"]
                         ELSE Posted(ui', s))
    BY <1>11 DEF Found, s
  <2>2. s.stage = "find" /\ UNCHANGED <<peer, grown, deferred, pushed>>
    BY <1>11 DEF Found, s
  <2>3. s.posts = 0 /\ s.who \in Emails /\ Email[s.to] = s.who
    BY <1>2, <2>2 DEF Underway
  <2>4. peer[c] = s.to
    BY <2>1 DEF With
  <2>5. CASE ui'.byEmail[s.who] = None
    <3>1. s.who = Email[Me]
      BY <1>10, <2>1, <2>2, <2>3, <2>4, <2>5
    <3>2. Underway([s EXCEPT !.stage = "dropped"], peer)
      BY <1>2, <2>2, <3>1, StageSound
    <3> QED BY <1>9, <2>1, <2>2, <2>5, <3>2
  <2>6. CASE ui'.byEmail[s.who] # None
    <3>1. Tables(ui', peer)
      BY <1>10, <2>1, <2>2
    <3>2. Underway(Posted(ui', s), peer)
      BY <1>1, <1>2, <2>3, <2>6, <3>1, PostedSound
    <3> QED BY <1>9, <2>1, <2>2, <2>6, <3>2
  <2> QED BY <2>5, <2>6
<1>12. CASE Created(n)
  <2>1. PICK c \in Direct :
           /\ peer[c] = s.to
           /\ BecomesKnown(c)
           /\ Becomes(n, IF ui'.byEmail[s.who] = None THEN Failed(s) ELSE Posted(ui', s))
    BY <1>12 DEF Created, s
  <2>2. s.stage = "create" /\ UNCHANGED <<peer, grown, deferred, pushed>>
    BY <1>12 DEF Created, s
  <2>3. s.posts = 0 /\ s.who \in Emails
    BY <1>2, <2>2 DEF Underway
  <2>4. CASE ui'.byEmail[s.who] = None
    <3>1. Underway(Failed(s), peer)
      BY <1>2, StageSound
    <3> QED BY <1>9, <2>1, <2>2, <2>4, <3>1
  <2>5. CASE ui'.byEmail[s.who] # None
    <3>1. Tables(ui', peer)
      BY <1>10, <2>1, <2>2
    <3>2. Underway(Posted(ui', s), peer)
      BY <1>1, <1>2, <2>3, <2>5, <3>1, PostedSound
    <3> QED BY <1>9, <2>1, <2>2, <2>5, <3>2
  <2> QED BY <2>4, <2>5
<1> QED BY <1>4, <1>5, <1>6, <1>7, <1>8, <1>11, <1>12 DEF Answered

\* A window of an address that the user opens, and the text without words it begins.
LEMMA OpenedSound ==
  ASSUME IInv, NEW n \in 1 .. MaxSends, NEW e \in Emails, WindowOpened(n, e),
         UNCHANGED peer
  PROVE  /\ Plugin(ui', peer, known)
         /\ sends' \in [1 .. MaxSends -> Send]
         /\ \A k \in 1 .. MaxSends : Underway(sends'[k], peer)
<1>1. /\ Plugin(ui, peer, known) /\ ui \in UI /\ peer \in [Direct -> Profiles]
      /\ sends \in [1 .. MaxSends -> Send] /\ \A k \in 1 .. MaxSends : Underway(sends[k], peer)
  BY DEF IInv, Convs, ConversationsTypeOK, Plugin, Tables
<1>2. Plugin(ui', peer, known)
  <2> DEFINE W == ui.windows \cup {e}
  <2>1. W \in SUBSET Emails /\ ui' = [ui EXCEPT !.windows = W]
    BY <1>1 DEF WindowOpened, UI
  <2> HIDE DEF W
  <2> QED BY <1>1, <2>1, WindowsSound
<1>3. CASE ui.byEmail[e] = None
  BY <1>2, <1>3, SendImSound DEF WindowOpened
<1>4. CASE ui.byEmail[e] # None
  BY <1>1, <1>2, <1>4 DEF WindowOpened
<1> QED BY <1>3, <1>4

\* What the user does.
LEMMA UserInv ==
  ASSUME IInv, [Next]_vars, User, UNCHANGED <<phase, scene>>
  PROVE  IInv'
<1>1. /\ Convs /\ Rows /\ Plugin(ui, peer, known) /\ phase \in {"up", "down"}
      /\ sends \in [1 .. MaxSends -> Send] /\ \A n \in 1 .. MaxSends : Underway(sends[n], peer)
      /\ peer \in [Direct -> Profiles] /\ ui \in UI
  BY DEF IInv, Convs, ConversationsTypeOK, Plugin, Tables
<1>2. ASSUME UNCHANGED <<conversations, list>>, Plugin(ui', peer, known),
             sends' \in [1 .. MaxSends -> Send],
             \A k \in 1 .. MaxSends : Underway(sends'[k], peer)
      PROVE  IInv'
  <2>1. UNCHANGED <<peer, exists, known, grown, deferred, pushed, list>>
    BY <1>2 DEF conversations
  <2>2. Convs' /\ Rows'
    BY <1>1, <2>1 DEF Convs, ConversationsTypeOK, Rows, ListFresh
  <2> QED BY <1>1, <1>2, <2>1, <2>2, Assembled
<1>3. ASSUME NEW n \in 1 .. MaxSends, NEW e \in Emails, UserSends(n, e)
      PROVE  IInv'
  BY <1>1, <1>2, <1>3, SendImSound DEF UserSends
<1>4. ASSUME NEW n \in 1 .. MaxSends, NEW e \in Emails, UserOpens(n, e)
      PROVE  IInv'
  <2>1. UNCHANGED <<conversations, list>> /\ WindowOpened(n, e) /\ UNCHANGED peer
    BY <1>4 DEF UserOpens, conversations
  <2> QED BY <1>2, <2>1, OpenedSound
<1>5. ASSUME NEW n \in 1 .. MaxSends, NEW c \in Conversation, ChatSend(n, c)
      PROVE  IInv'
  <2> DEFINE x == [NewSend EXCEPT !.stage = "send", !.conv = c, !.posts = 1]
  <2>1. Becomes(n, x) /\ UNCHANGED <<conversations, ui, list>>
    BY <1>5 DEF ChatSend
  <2>2. /\ NewSend \in Send /\ NewSend.who = None /\ NewSend.text = TRUE
        /\ c \in Conversation \cup {None} /\ 1 \in 0 .. 2
    BY DEF NewSend, Send, Stages
  <2>3. x \in Send /\ x.stage = "send" /\ x.conv = c /\ x.posts = 1 /\ x.who = None /\ x.text = TRUE
    BY <2>2 DEF Send, Stages
  <2> HIDE DEF x
  <2>4. Underway(x, peer)
    BY <2>3 DEF Underway
  <2> QED BY <1>1, <1>2, <2>1, <2>4, BecomesSound
<1>6. ASSUME NEW e \in Emails, UserCloses(e)
      PROVE  IInv'
  <2> DEFINE W == ui.windows \ {e}
  <2>1. W \in SUBSET Emails /\ ui' = [ui EXCEPT !.windows = W]
        /\ UNCHANGED <<conversations, list, sends>>
    BY <1>1, <1>6 DEF UserCloses, UI
  <2> HIDE DEF W
  <2> QED BY <1>1, <1>2, <2>1, WindowsSound
<1>7. ASSUME NEW c \in Conversation, Leave(c)
      PROVE  IInv'
  <2>1. /\ ui' = [ui EXCEPT !.chats = @ \ {c}, !.hooks = @ \cup {c}]
        /\ UNCHANGED <<conversations, list>>
        /\ sends' = [n \in DOMAIN sends |->
             IF sends[n].stage = "send" /\ sends[n].who = None /\ sends[n].conv = c
             THEN [sends[n] EXCEPT !.closed = TRUE] ELSE sends[n]]
    BY <1>7 DEF Leave
  <2>2. Plugin(ui', peer, known)
    BY <1>1, <2>1, LeaveSound
  <2>3. \A n \in 1 .. MaxSends : Underway(sends'[n], peer)
    BY <1>1, <2>1, StageSound
  <2>4. sends' \in [1 .. MaxSends -> Send]
    BY <1>1, <2>1, <2>3 DEF Underway
  <2> QED BY <1>2, <2>1, <2>2, <2>3, <2>4
<1>8. ASSUME NEW c \in Conversation, OpenRow(c)
      PROVE  IInv'
  <2>1. UNCHANGED <<conversations, list>> /\ UNCHANGED peer
    BY <1>8 DEF OpenRow, conversations
  <2>2. CASE IsGroup(c)
    BY <1>1, <1>2, <1>8, <2>1, <2>2, JoinChatSound DEF OpenRow
  <2>3. CASE ~IsGroup(c)
    <3>1. PICK n \in 1 .. MaxSends : WindowOpened(n, Email[peer[c]])
      BY <1>1, <1>8, <2>3 DEF OpenRow
    <3>2. Email[peer[c]] \in Emails
      BY <1>1, <2>3 DEF IsGroup, Conversation
    <3> QED BY <1>2, <2>1, <3>1, <3>2, OpenedSound
  <2> QED BY <2>2, <2>3
<1>9. CASE ShowList \/ CloseList
  <2>1. UNCHANGED <<conversations, ui, sends>>
    BY <1>9 DEF ShowList, CloseList
  <2>2. UNCHANGED <<peer, exists, known, grown, deferred, pushed>>
    BY <2>1 DEF conversations
  <2>3. Convs'
    BY <1>1, <2>2 DEF Convs, ConversationsTypeOK
  <2>4. Rows'
    <3>1. CASE ShowList
      BY <1>1, <2>2, <3>1
      DEF ShowList, Refreshed, Generated, Rows, ListFresh, Convs, ConversationsTypeOK
    <3>2. CASE CloseList
      BY <1>1, <2>2, <3>2 DEF CloseList, NoList, Rows, ListFresh
    <3> QED BY <1>9, <3>1, <3>2
  <2> QED BY <1>1, <2>1, <2>2, <2>3, <2>4, Assembled
<1> QED BY <1>3, <1>4, <1>5, <1>6, <1>7, <1>8, <1>9 DEF User

\* The dialogue is filled again.
LEMMA UpdateInv ==
  ASSUME IInv, [Next]_vars, UpdateList, UNCHANGED <<phase, scene>>
  PROVE  IInv'
<1>1. UNCHANGED <<conversations, ui, sends>> /\ list' = Generated
  BY DEF UpdateList
<1>2. UNCHANGED <<peer, exists, known, grown, deferred, pushed>>
  BY <1>1 DEF conversations
<1>3. Convs' /\ Rows'
  BY <1>1, <1>2 DEF IInv, Convs, ConversationsTypeOK, Generated, Rows, ListFresh
<1> QED BY <1>1, <1>2, <1>3, Assembled DEF IInv

\* The account is closed: no conversation, no table, no dialogue, and what was under
\* way has failed or is lost.
LEMMA CloseInv ==
  ASSUME IInv, [Next]_vars, CloseAccount, UNCHANGED scene
  PROVE  IInv'
<1>1. /\ phase' = "down" /\ ui' = NoUI /\ list' = NoList /\ peer' = peer
      /\ exists' = {} /\ known' = {} /\ grown' = {}
      /\ deferred' = [c \in Conversation |-> 0] /\ pushed' = 0
  BY DEF CloseAccount, DestroyConversations
<1>2. Convs'
  BY <1>1 DEF IInv, Convs, ConversationsTypeOK
<1>3. Rows'
  BY <1>1 DEF NoList, Rows, ListFresh
<1>4. Plugin(ui', peer, known')
  BY <1>1 DEF NoUI, UI, Plugin, Tables, Entry, Ims, Hears, Reach
<1>5. PICK lost \in SUBSET UnderWay :
        sends' = [n \in DOMAIN sends |->
                   CASE n \in lost -> [sends[n] EXCEPT !.stage = "lost", !.to = None]
                     [] n \in UnderWay \ lost -> Failed(sends[n])
                     [] n \notin UnderWay -> sends[n]]
  BY DEF CloseAccount
<1>6. DOMAIN sends = 1 .. MaxSends /\ UnderWay \subseteq DOMAIN sends
  BY DEF IInv, UnderWay
<1>7. (\A n \in 1 .. MaxSends : Underway(sends[n], peer))'
  <2> SUFFICES ASSUME NEW n \in 1 .. MaxSends PROVE Underway(sends[n], peer)'
    OBVIOUS
  <2>1. Underway(sends[n], peer) /\ Underway(Failed(sends[n]), peer)
    BY StageSound DEF IInv
  <2>2. CASE n \in lost
    <3> DEFINE x == [sends[n] EXCEPT !.stage = "lost", !.to = None]
    <3>1. /\ x \in Send /\ x.stage = "lost" /\ x.posts = sends[n].posts
          /\ x.who = sends[n].who /\ x.text = sends[n].text /\ x.conv = sends[n].conv
      BY <2>1 DEF Underway, Send, Stages
    <3>2. sends'[n] = x
      BY <1>5, <1>6, <2>2
    <3> HIDE DEF x
    <3> QED BY <1>1, <2>1, <3>1, <3>2 DEF Underway
  <2>3. CASE n \notin lost
    <3>1. sends'[n] = Failed(sends[n]) \/ sends'[n] = sends[n]
      BY <1>5, <1>6, <2>3
    <3> QED BY <1>1, <2>1, <3>1 DEF Underway
  <2> QED BY <2>2, <2>3
<1>8. sends' \in [1 .. MaxSends -> Send]
  <2>1. DOMAIN sends' = 1 .. MaxSends /\ sends' = [n \in 1 .. MaxSends |-> sends'[n]]
    BY <1>5, <1>6
  <2> QED BY <1>7, <2>1 DEF Underway
<1> QED BY <1>1, <1>2, <1>3, <1>4, <1>7, <1>8 DEF IInv

\* Nothing happens.
LEMMA StutterInv ==
  ASSUME IInv, UNCHANGED vars
  PROVE  IInv'
<1>1. (\A n \in 1 .. MaxSends : Underway(sends[n], peer))'
  BY DEF IInv, vars, conversations, Underway
<1> QED BY <1>1 DEF IInv, vars, conversations, Convs, ConversationsTypeOK, Rows, ListFresh

-----------------------------------------------------------------------------
(* The theorems.                                                           *)

\* The inductive invariant.
THEOREM Invariance == Spec => []IInv
<1>1. IInv /\ [Next]_vars => IInv'
  <2> SUFFICES ASSUME IInv, [Next]_vars PROVE IInv'
    OBVIOUS
  <2>1. CASE UNCHANGED vars
    BY <2>1, StutterInv
  <2>2. ASSUME Pushed \/ (\E n \in 1 .. MaxSends : Answered(n)) \/ User \/ UpdateList,
               UNCHANGED <<phase, scene>>
        PROVE  IInv'
    BY <2>2, PushedInv, AnsweredInv, UserInv, UpdateInv
  <2>3. CASE CloseAccount /\ UNCHANGED scene
    BY <2>3, CloseInv
  <2> QED BY <2>1, <2>2, <2>3 DEF Next
<1> QED BY <1>1, InitInv, PTL DEF Spec

\* Every known conversation is heard, but for groups announced without a message
\* (chat.c:1094) and those whose im was freed for another with the same peer
\* (conversations.c:212), whatever is announced, joined, left and fetched in between.
THEOREM Heeded == Spec => []Listened
<1>1. IInv => Listened
  BY DEF IInv, Plugin, Hears, Listened
<1> QED BY <1>1, Invariance, PTL

\* No text is posted twice or to another address, through all the requests of
\* conversations.c:275-404; without a word goes only one to oneself, or one that was under
\* way when the account was closed.
THEOREM Delivered == Spec => []Accounted
<1>1. IInv => TypeOK
  BY DEF IInv, Convs, Rows, Plugin, Tables, TypeOK
<1>2. IInv => Accounted
  BY <1>1 DEF IInv, Underway, Accounted
<1> QED BY <1>2, Invariance, PTL

\* ims_by_email and ims_by_profile_id agree as on_chime_new_conversation leaves them.
THEOREM TablesInStep == Spec => []TablesAgree
<1>1. IInv => TablesAgree
  BY DEF IInv, Plugin, Tables, Entry, Ims, TablesAgree
<1> QED BY <1>1, Invariance, PTL

\* The dialogue with the recent conversations has all of them, with their names and
\* availability (not their dates), or is about to be refreshed.
THEOREM DialogFresh == Spec => []ListFresh
<1>1. IInv => ListFresh
  BY DEF IInv, Rows
<1> QED BY <1>1, Invariance, PTL
==============================================================================
